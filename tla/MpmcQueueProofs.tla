--------------------------- MODULE MpmcQueueProofs ---------------------------
(***************************************************************************)
(* The queue's cells are touched by one thread at a time, for any number   *)
(* of threads, values and cells, and the queue implements QueueSpec.  The  *)
(* inductive invariant is MpmcQueue's IInv: TLC checks it on small         *)
(* instances, here it is proved; RingInv is what the refinement adds.      *)
(***************************************************************************)
EXTENDS MpmcQueue, SequenceTheorems, WellFoundedInduction, TLAPS

\* Every set of positions that is not empty has a least one.
LEMMA LeastPosition ==
    ASSUME NEW S \in SUBSET Nat, S # {}
    PROVE  \E n \in S : \A k \in S : ~(k < n)
<1>1. \E n \in S : \A k \in S : ~(<<k, n>> \in OpToRel(<, Nat))
  BY WFMin, NatLessThanWellFounded, Zenon
<1>. QED
  BY <1>1 DEF OpToRel

\* power_of_two_size returns at least two cells.
LEMMA PowerOfTwoSizeType ==
    ASSUME NEW sz \in 1 .. MaxCells
    PROVE  PowerOfTwoSize(sz) \in Nat \ {0, 1}
<1>1. \E p \in PowersOfTwo : p >= sz /\ (p = 2 \/ p \div 2 < sz)
  <2>1. sz \in Nat /\ sz <= 16384
    BY SMT DEF MaxCells
  <2>. SUFFICES ASSUME \A p \in PowersOfTwo : p < sz \/ (p # 2 /\ p \div 2 >= sz)
                PROVE  FALSE
    BY <2>1, SMT DEF PowersOfTwo
  <2>2. 2 < sz
    BY SMT DEF PowersOfTwo
  <2>3. \A p \in PowersOfTwo : p < sz => p = 16384 \/ 2 * p < sz
    BY <2>1, SMT DEF PowersOfTwo
  <2>. QED
    BY <2>1, <2>2, <2>3, SMT DEF PowersOfTwo
<1>2. PowerOfTwoSize(sz) \in PowersOfTwo
  BY <1>1, SMT DEF PowerOfTwoSize
<1>. QED
  BY <1>2, SMT DEF PowersOfTwo

\* Arithmetic of pos & buffer_mask: within `c' consecutive positions, no two
\* share a cell; a position and the one c further share theirs.
LEMMA MultipleBound ==
    ASSUME NEW c \in Nat \ {0}, NEW k \in Int, k > 0
    PROVE  c * k >= c
  OBVIOUS

LEMMA ModRange ==
    ASSUME NEW c \in Nat \ {0}, NEW p \in Nat
    PROVE  p % c \in 0 .. (c - 1)
  OBVIOUS

\* A multiple of c strictly between -c and c is zero.
LEMMA SmallMultiple ==
    ASSUME NEW c \in Nat \ {0}, NEW k \in Int, -c < c * k, c * k < c
    PROVE  k = 0
<1>1. ~ (k > 0)
  BY MultipleBound
<1>2. k < 0 => c * (-k) >= c
  BY MultipleBound
<1>3. c * (-k) = -(c * k)
  OBVIOUS
<1>4. ~ (k < 0)
  BY <1>2, <1>3
<1>. QED
  BY <1>1, <1>4

LEMMA DivMod ==
    ASSUME NEW c \in Nat \ {0}, NEW p \in Nat
    PROVE  p \div c \in Int /\ p = c * (p \div c) + (p % c)
  OBVIOUS

LEMMA ModInjective ==
    ASSUME NEW c \in Nat \ {0}, NEW p \in Nat, NEW q \in Nat,
           p % c = q % c, p - q < c, q - p < c
    PROVE  p = q
<1>. DEFINE k == (q \div c) - (p \div c)
<1>1. k \in Int /\ p \div c \in Int /\ q \div c \in Int
  BY DivMod
<1>2. c * (q \div c) - c * (p \div c) = c * k
  BY <1>1
<1>3. q - p = c * k
  BY <1>2, DivMod, ModRange
<1>4. k = 0
  <2>. HIDE DEF k
  <2>. QED BY <1>1, <1>3, SmallMultiple
<1>. QED
  BY <1>3, <1>4

\* The remainder is unique.
LEMMA DivModUnique ==
    ASSUME NEW c \in Nat \ {0}, NEW a \in Int, NEW b \in Int,
           NEW x \in 0 .. (c - 1), NEW y \in 0 .. (c - 1),
           c * a + x = c * b + y
    PROVE  x = y
<1>1. c * (a - b) = c * a - c * b
  OBVIOUS
<1>2. c * (a - b) = y - x
  BY <1>1
<1>3. a - b = 0
  <2>1. -c < c * (a - b) /\ c * (a - b) < c
    BY <1>2
  <2>. DEFINE k == a - b
  <2>2. k \in Int
    OBVIOUS
  <2>. HIDE DEF k
  <2>3. -c < c * k /\ c * k < c
    BY <2>1 DEF k
  <2>. QED BY <2>2, <2>3, SmallMultiple DEF k
<1>. QED
  BY <1>2, <1>3

LEMMA ModPeriod ==
    ASSUME NEW c \in Nat \ {0}, NEW p \in Nat, NEW q \in Nat, q = p + c
    PROVE  q % c = p % c
<1>. DEFINE a == q \div c
            b == p \div c
            x == q % c
            y == p % c
<1>1. a \in Int /\ b \in Int /\ q = c * a + x /\ p = c * b + y
  BY DivMod
<1>2. x \in 0 .. (c - 1) /\ y \in 0 .. (c - 1)
  BY ModRange
<1>. HIDE DEF a, b, x, y
<1>3. c * (b + 1) = c * b + c
  BY <1>1
<1>4. c * a + x = c * (b + 1) + y
  BY <1>1, <1>2, <1>3
<1>. DEFINE d == b + 1
<1>5. d \in Int /\ c * a + x = c * d + y
  BY <1>1, <1>4
<1>. HIDE DEF d
<1>6. x = y
  BY <1>1, <1>2, <1>5, DivModUnique
<1>. QED
  BY <1>6 DEF x, y

LEMMA ModSmall ==
    ASSUME NEW c \in Nat \ {0}, NEW p \in 0 .. (c - 1)
    PROVE  p % c = p
<1>. DEFINE a == p \div c
            x == p % c
<1>1. a \in Int /\ p = c * a + x /\ x \in 0 .. (c - 1)
  BY DivMod, ModRange
<1>. HIDE DEF a, x
<1>2. c * a + x = c * 0 + p
  BY <1>1
<1>3. x = p
  BY <1>1, <1>2, DivModUnique
<1>. QED
  BY <1>3 DEF x

\* The same facts for the cells of a ring of `cap' cells.
LEMMA CellFacts ==
    ASSUME cap \in Nat \ {0, 1}
    PROVE  /\ \A p \in Nat : CellOf(p) \in 0 .. (cap - 1)
           /\ \A p, q \in Nat :
                 CellOf(p) = CellOf(q) /\ p - q < cap /\ q - p < cap => p = q
           /\ \A p, q \in Nat : q = p + cap => CellOf(q) = CellOf(p)
<1>1. \A p \in Nat : CellOf(p) \in 0 .. (cap - 1)
  BY ModRange DEF CellOf
<1>2. ASSUME NEW p \in Nat, NEW q \in Nat,
             CellOf(p) = CellOf(q), p - q < cap, q - p < cap
      PROVE  p = q
  BY <1>2, ModInjective DEF CellOf
<1>3. ASSUME NEW p \in Nat, NEW q \in Nat, q = p + cap
      PROVE  CellOf(q) = CellOf(p)
  BY <1>3, ModPeriod DEF CellOf
<1>. QED
  BY <1>1, <1>2, <1>3

---------------------------------------------------------------------------
LEMMA NoValueType == NoValue \in Values
  BY ValuesAssumption DEF NoValue

LEMMA InitIInv == Init => IInv
<1>. SUFFICES ASSUME Init PROVE IInv
  OBVIOUS
<1>1. cap \in Nat \ {0, 1}
  BY PowerOfTwoSizeType, SizesAssumption DEF Init
<1>2. TypeOK
  BY <1>1, NoValueType DEF Init, TypeOK, Results
<1>3. Window
  <2>. SUFFICES ASSUME NEW q \in enqueue_pos .. (enqueue_pos + cap - 1)
                PROVE  sequence[CellOf(q)] = q /\ q - cap < dequeue_pos
    BY DEF Window
  <2>1. enqueue_pos = 0 /\ dequeue_pos = 0 /\ sequence = [c \in 0 .. (cap - 1) |-> c]
    BY DEF Init
  <2>2. q \in 0 .. (cap - 1)
    BY <1>1, <2>1
  <2>3. CellOf(q) = q
    BY <1>1, <2>2, ModSmall DEF CellOf
  <2>. QED
    BY <1>1, <2>1, <2>2, <2>3
<1>4. PushersPlaced /\ ReadersPlaced /\ OwnersDistinct
  BY DEF Init, PushersPlaced, ReadersPlaced, OwnersDistinct, Owns, Pushing, Reading
<1>5. CasJustified
  BY DEF Init, CasJustified
<1>. QED
  BY <1>1, <1>2, <1>3, <1>4, <1>5 DEF Init, IInv, Bounded

\* Steps that leave the cells and the two positions alone.
Quiet(t) ==
    /\ UNCHANGED <<cap, sequence, enqueue_pos, dequeue_pos>>
    /\ \A u \in Threads \ {t} : pc'[u] = pc[u] /\ pos'[u] = pos[u]
    /\ Pushing(t)' => Pushing(t) /\ pos'[t] = pos[t]
    /\ Reading(t)' => Reading(t) /\ pos'[t] = pos[t]
    /\ pc'[t] \in {"push_seq", "push_cas"} => pos'[t] <= enqueue_pos
    /\ pc'[t] \in {"deq_seq", "deq_cas"} => pos'[t] <= dequeue_pos
    /\ pc'[t] = "push_cas" => sequence[CellOf(pos'[t])] = pos'[t]
    /\ pc'[t] = "deq_cas" => sequence[CellOf(pos'[t])] = pos'[t] + 1

LEMMA QuietStep ==
    ASSUME IInv, NEW t \in Threads, Quiet(t), TypeOK'
    PROVE  IInv'
<1>. USE DEF IInv, Quiet
<1>1. \A p \in Nat : CellOf(p)' = CellOf(p)
  BY DEF CellOf
<1>2. Window' /\ Bounded'
  BY <1>1 DEF Window, CellOf, Bounded
<1>3. PushersPlaced'
  BY DEF PushersPlaced, Owns, Pushing, CellOf
<1>4. ReadersPlaced'
  BY DEF ReadersPlaced, Owns, Reading, CellOf
<1>5. OwnersDistinct'
  BY DEF OwnersDistinct, Owns, Pushing, Reading
<1>6. CasJustified'
  BY DEF CasJustified, CellOf
<1>. QED
  BY <1>2, <1>3, <1>4, <1>5, <1>6

\* The calls, the reads, the reloads and the accesses to the payload.
LEMMA QuietActions ==
    ASSUME IInv, NEW t \in Threads,
           \/ \E v \in Values : PushCall(t, v)
           \/ DequeueCall(t)
           \/ PushReadSequence(t) \/ PushReload(t) \/ PushWriteData(t)
           \/ DequeueReadSequence(t) \/ DequeueReload(t) \/ DequeueReadData(t)
    PROVE  IInv'
<1>. TypeOK /\ CasJustified
  BY DEF IInv
<1>. USE NoValueType DEF Goto, Leave, Return
<1>1. CASE \E v \in Values : PushCall(t, v)
  <2>. PICK v \in Values : PushCall(t, v)
    BY <1>1
  <2>1. TypeOK'
    BY DEF PushCall, TypeOK, PushPcs, DequeuePcs, Results
  <2>9. Quiet(t)
    BY DEF PushCall, Quiet, TypeOK, Pushing, Reading
  <2>. QED
    BY <2>1, <2>9, QuietStep
<1>2. CASE DequeueCall(t)
  <2>1. TypeOK'
    BY <1>2 DEF DequeueCall, TypeOK, PushPcs, DequeuePcs, Results
  <2>9. Quiet(t)
    BY <1>2 DEF DequeueCall, Quiet, TypeOK, Pushing, Reading
  <2>. QED
    BY <2>1, <2>9, QuietStep
<1>3. CASE PushReadSequence(t)
  <2>1. TypeOK'
    <3>1. UNCHANGED <<cap, sequence, data, enqueue_pos, dequeue_pos>>
      BY <1>3 DEF PushReadSequence
    <3>2. \/ /\ \/ Goto(t, "push_cas") \/ Goto(t, "push_reload")
             /\ UNCHANGED <<pos, arg, result>>
          \/ Return(t, "full")
      BY <1>3, Zenon DEF PushReadSequence
    <3>3. CASE UNCHANGED <<pos, arg, result>>
      BY <3>1, <3>2, <3>3 DEF TypeOK, PushPcs, DequeuePcs, Results
    <3>4. CASE Return(t, "full")
      BY <3>1, <3>4 DEF TypeOK, PushPcs, DequeuePcs, Results
    <3>. QED
      BY <3>2, <3>3, <3>4
  <2>2. sequence[CellOf(pos[t])] \in Nat
    BY CellFacts DEF TypeOK
  <2>9. Quiet(t)
    BY <1>3, <2>2 DEF PushReadSequence, Quiet, TypeOK, Pushing, Reading, CasJustified
  <2>. QED
    BY <2>1, <2>9, QuietStep
<1>4. CASE PushReload(t)
  <2>1. TypeOK'
    BY <1>4 DEF PushReload, TypeOK, PushPcs, DequeuePcs, Results
  <2>9. Quiet(t)
    BY <1>4 DEF PushReload, Quiet, TypeOK, Pushing, Reading
  <2>. QED
    BY <2>1, <2>9, QuietStep
<1>5. CASE PushWriteData(t)
  <2>1. CellOf(pos[t]) \in 0 .. (cap - 1)
    BY CellFacts DEF TypeOK
  <2>2. TypeOK'
    BY <1>5, <2>1 DEF PushWriteData, TypeOK, PushPcs, DequeuePcs, Results
  <2>9. Quiet(t)
    BY <1>5 DEF PushWriteData, Quiet, TypeOK, Pushing, Reading
  <2>. QED
    BY <2>2, <2>9, QuietStep
<1>6. CASE DequeueReadSequence(t)
  <2>1. TypeOK'
    <3>1. UNCHANGED <<cap, sequence, data, enqueue_pos, dequeue_pos>>
      BY <1>6 DEF DequeueReadSequence
    <3>2. \/ /\ \/ Goto(t, "deq_cas") \/ Goto(t, "deq_reload")
             /\ UNCHANGED <<pos, arg, result>>
          \/ Return(t, "empty")
      BY <1>6, Zenon DEF DequeueReadSequence
    <3>3. CASE UNCHANGED <<pos, arg, result>>
      BY <3>1, <3>2, <3>3 DEF TypeOK, PushPcs, DequeuePcs, Results
    <3>4. CASE Return(t, "empty")
      BY <3>1, <3>4 DEF TypeOK, PushPcs, DequeuePcs, Results
    <3>. QED
      BY <3>2, <3>3, <3>4
  <2>2. sequence[CellOf(pos[t])] \in Nat
    BY CellFacts DEF TypeOK
  <2>9. Quiet(t)
    BY <1>6, <2>2 DEF DequeueReadSequence, Quiet, TypeOK, Pushing, Reading, CasJustified
  <2>. QED
    BY <2>1, <2>9, QuietStep
<1>7. CASE DequeueReload(t)
  <2>1. TypeOK'
    BY <1>7 DEF DequeueReload, TypeOK, PushPcs, DequeuePcs, Results
  <2>9. Quiet(t)
    BY <1>7 DEF DequeueReload, Quiet, TypeOK, Pushing, Reading
  <2>. QED
    BY <2>1, <2>9, QuietStep
<1>8. CASE DequeueReadData(t)
  <2>1. CellOf(pos[t]) \in 0 .. (cap - 1)
    BY CellFacts DEF TypeOK
  <2>2. TypeOK'
    BY <1>8, <2>1 DEF DequeueReadData, TypeOK, PushPcs, DequeuePcs, Results
  <2>9. Quiet(t)
    BY <1>8 DEF DequeueReadData, Quiet, TypeOK, Pushing, Reading
  <2>. QED
    BY <2>2, <2>9, QuietStep
<1>. QED
  BY <1>1, <1>2, <1>3, <1>4, <1>5, <1>6, <1>7, <1>8

---------------------------------------------------------------------------
\* Winning position enqueue_pos: the window slides by one, and the cell it
\* slides over belongs to t.
LEMMA PushCasStep ==
    ASSUME IInv, NEW t \in Threads, PushCas(t)
    PROVE  IInv'
<1>. USE DEF IInv, Goto
<1>1. TypeOK'
  <2>1. CASE enqueue_pos = pos[t]
    BY <2>1 DEF PushCas, TypeOK, PushPcs, DequeuePcs, Results
  <2>2. CASE enqueue_pos # pos[t]
    BY <2>2 DEF PushCas, TypeOK, PushPcs, DequeuePcs, Results
  <2>. QED
    BY <2>1, <2>2
<1>2. CASE enqueue_pos # pos[t]
  <2>1. Quiet(t)
    BY <1>2 DEF PushCas, Quiet, TypeOK, Pushing, Reading, CasJustified
  <2>. QED
    BY <1>1, <2>1, QuietStep
<1>3. CASE enqueue_pos = pos[t]
  <2>1. /\ enqueue_pos' = enqueue_pos + 1
        /\ pc' = [pc EXCEPT ![t] = "push_data"]
        /\ UNCHANGED <<cap, sequence, data, dequeue_pos, pos, arg, result>>
        /\ pc[t] = "push_cas"
    BY <1>3 DEF PushCas
  <2>2. sequence[CellOf(enqueue_pos)] = enqueue_pos
    BY <1>3, <2>1 DEF CasJustified
  <2>3. /\ cap \in Nat \ {0, 1} /\ enqueue_pos \in Nat /\ dequeue_pos \in Nat
        /\ pos \in [Threads -> Nat] /\ pc \in [Threads -> {"idle"} \cup PushPcs \cup DequeuePcs]
    BY DEF TypeOK
  <2>4. \A p : CellOf(p)' = CellOf(p)
    BY <2>1 DEF CellOf
  <2>5. enqueue_pos - cap < dequeue_pos
    BY <2>2, <2>3, CellFacts DEF Window
  <2>6. Window'
    <3>. SUFFICES ASSUME NEW q \in (enqueue_pos + 1) .. (enqueue_pos + cap)
                  PROVE  LET x == sequence[CellOf(q)]
                         IN  \/ x = q /\ q - cap < dequeue_pos
                             \/ x = q - cap /\ dequeue_pos <= q - cap
                             \/ x = q - cap + 1
      BY <2>1, <2>3, <2>4 DEF Window
    <3>1. CASE q <= enqueue_pos + cap - 1
      BY <2>3, <3>1 DEF Window
    <3>2. CASE q = enqueue_pos + cap
      <4>1. CellOf(q) = CellOf(enqueue_pos)
        BY <2>3, <3>2, CellFacts
      <4>. QED
        BY <2>2, <2>3, <3>2, <4>1 DEF Bounded
    <3>. QED
      BY <2>3, <3>1, <3>2
  <2>7. PushersPlaced'
    BY <1>3, <2>1, <2>2, <2>3, <2>4, <2>5 DEF PushersPlaced, Pushing, Bounded
  <2>8. ReadersPlaced'
    <3>1. \A u \in Threads : Reading(u) => pos[u] # enqueue_pos - cap
      BY <2>2, <2>3, CellFacts DEF ReadersPlaced
    <3>. QED
      BY <1>3, <2>1, <2>3, <2>4, <3>1 DEF ReadersPlaced, Reading
  <2>9. OwnersDistinct'
    <3>1. \A u \in Threads \ {t} : Owns(u)' => Owns(u) /\ pos[u] < enqueue_pos
      BY <2>1, <2>3 DEF Owns, Pushing, Reading, PushersPlaced, ReadersPlaced, Bounded
    <3>. QED
      BY <1>3, <2>1, <2>3, <3>1 DEF OwnersDistinct
  <2>10. CasJustified'
    BY <1>3, <2>1, <2>3, <2>4 DEF CasJustified
  <2>. QED
    BY <1>1, <2>1, <2>3, <2>5, <2>6, <2>7, <2>8, <2>9, <2>10 DEF Bounded
<1>. QED
  BY <1>2, <1>3

\* Winning position dequeue_pos: its cell, published, now belongs to t.
LEMMA DequeueCasStep ==
    ASSUME IInv, NEW t \in Threads, DequeueCas(t)
    PROVE  IInv'
<1>. USE DEF IInv, Goto
<1>1. TypeOK'
  <2>1. CASE dequeue_pos = pos[t]
    BY <2>1 DEF DequeueCas, TypeOK, PushPcs, DequeuePcs, Results
  <2>2. CASE dequeue_pos # pos[t]
    BY <2>2 DEF DequeueCas, TypeOK, PushPcs, DequeuePcs, Results
  <2>. QED
    BY <2>1, <2>2
<1>2. CASE dequeue_pos # pos[t]
  <2>1. Quiet(t)
    BY <1>2 DEF DequeueCas, Quiet, TypeOK, Pushing, Reading, CasJustified
  <2>. QED
    BY <1>1, <2>1, QuietStep
<1>3. CASE dequeue_pos = pos[t]
  <2>1. /\ dequeue_pos' = dequeue_pos + 1
        /\ pc' = [pc EXCEPT ![t] = "deq_data"]
        /\ UNCHANGED <<cap, sequence, data, enqueue_pos, pos, arg, result>>
        /\ pc[t] = "deq_cas"
    BY <1>3 DEF DequeueCas
  <2>2. sequence[CellOf(dequeue_pos)] = dequeue_pos + 1
    BY <1>3, <2>1 DEF CasJustified
  <2>3. /\ cap \in Nat \ {0, 1} /\ enqueue_pos \in Nat /\ dequeue_pos \in Nat
        /\ pos \in [Threads -> Nat] /\ pc \in [Threads -> {"idle"} \cup PushPcs \cup DequeuePcs]
    BY DEF TypeOK
  <2>4. \A p : CellOf(p)' = CellOf(p)
    BY <2>1 DEF CellOf
  <2>5. dequeue_pos < enqueue_pos
    <3>. SUFFICES ASSUME dequeue_pos = enqueue_pos PROVE FALSE
      BY <2>3 DEF Bounded
    <3>1. enqueue_pos \in enqueue_pos .. (enqueue_pos + cap - 1)
      BY <2>3
    <3>. QED
      BY <2>2, <2>3, <3>1 DEF Window
  <2>6. Window'
    <3>. SUFFICES ASSUME NEW q \in enqueue_pos .. (enqueue_pos + cap - 1)
                  PROVE  LET x == sequence[CellOf(q)]
                         IN  \/ x = q /\ q - cap < dequeue_pos + 1
                             \/ x = q - cap /\ dequeue_pos + 1 <= q - cap
                             \/ x = q - cap + 1
      BY <2>1, <2>3, <2>4 DEF Window
    <3>1. CASE sequence[CellOf(q)] = q - cap /\ dequeue_pos = q - cap
      BY <2>2, <2>3, <3>1, CellFacts
    <3>. QED
      BY <2>3, <3>1 DEF Window
  <2>7. PushersPlaced'
    <3>1. \A u \in Threads : Pushing(u)' => Pushing(u) /\ pos[u] # dequeue_pos
      BY <2>1, <2>2, <2>3 DEF PushersPlaced, Pushing
    <3>. QED
      BY <2>1, <2>3, <2>4, <3>1 DEF PushersPlaced
  <2>8. ReadersPlaced'
    BY <1>3, <2>1, <2>2, <2>3, <2>4 DEF ReadersPlaced, Reading, Bounded
  <2>9. OwnersDistinct'
    <3>1. \A u \in Threads \ {t} : Owns(u)' => Owns(u) /\ pos[u] # dequeue_pos
      BY <2>1, <2>2, <2>3 DEF Owns, Pushing, Reading, PushersPlaced, ReadersPlaced
    <3>. QED
      BY <1>3, <2>1, <2>3, <3>1 DEF OwnersDistinct
  <2>10. CasJustified'
    BY <1>3, <2>1, <2>3, <2>4 DEF CasJustified
  <2>. QED
    BY <1>1, <2>1, <2>3, <2>5, <2>6, <2>7, <2>8, <2>9, <2>10 DEF Bounded
<1>. QED
  BY <1>2, <1>3

\* Publishing: the cell of pos[t] goes from "being filled" to "full".
LEMMA PushPublishStep ==
    ASSUME IInv, NEW t \in Threads, PushPublish(t)
    PROVE  IInv'
<1>. USE DEF IInv
<1>. DEFINE p == pos[t]
<1>1. /\ pc[t] = "push_publish"
      /\ sequence' = [sequence EXCEPT ![CellOf(p)] = p + 1]
      /\ pc' = [pc EXCEPT ![t] = "idle"]
      /\ pos' = [pos EXCEPT ![t] = 0]
      /\ UNCHANGED <<cap, data, enqueue_pos, dequeue_pos>>
  BY DEF PushPublish, Return, Leave, Goto
<1>2. TypeOK'
  <2>1. CellOf(p) \in 0 .. (cap - 1) /\ p \in Nat
    BY CellFacts DEF TypeOK
  <2>. QED
    BY <2>1, NoValueType DEF PushPublish, Return, Leave, Goto, TypeOK, Results
<1>3. /\ cap \in Nat \ {0, 1} /\ enqueue_pos \in Nat /\ dequeue_pos \in Nat /\ p \in Nat
      /\ pos \in [Threads -> Nat] /\ pc \in [Threads -> {"idle"} \cup PushPcs \cup DequeuePcs]
      /\ sequence \in [0 .. (cap - 1) -> Nat]
  BY DEF TypeOK
<1>4. dequeue_pos <= p /\ p < enqueue_pos /\ enqueue_pos - cap <= p /\ sequence[CellOf(p)] = p
  BY <1>1 DEF PushersPlaced, Pushing
<1>5. \A q : CellOf(q)' = CellOf(q)
  BY <1>1 DEF CellOf
<1>. HIDE DEF p
<1>6. \A q \in Nat : CellOf(q) # CellOf(p) => sequence'[CellOf(q)] = sequence[CellOf(q)]
  BY <1>1, <1>3, CellFacts
<1>7. sequence'[CellOf(p)] = p + 1
  BY <1>1, <1>3, CellFacts
<1>8. Window'
  <2>. SUFFICES ASSUME NEW q \in enqueue_pos .. (enqueue_pos + cap - 1)
                PROVE  LET x == sequence'[CellOf(q)]
                       IN  \/ x = q /\ q - cap < dequeue_pos
                           \/ x = q - cap /\ dequeue_pos <= q - cap
                           \/ x = q - cap + 1
    BY <1>1, <1>3, <1>5 DEF Window
  <2>1. CASE CellOf(q) = CellOf(p)
    <3>. DEFINE r == p + cap
    <3>1. r \in Nat /\ r = p + cap /\ q \in Nat
      BY <1>3
    <3>. HIDE DEF r
    <3>2. CellOf(r) = CellOf(p)
      BY <1>3, <3>1, CellFacts
    <3>3. q - r < cap /\ r - q < cap
      BY <1>3, <1>4, <3>1
    <3>4. q = r
      BY <1>3, <2>1, <3>1, <3>2, <3>3, CellFacts
    <3>. QED
      BY <1>3, <1>7, <2>1, <3>1, <3>4
  <2>2. CASE CellOf(q) # CellOf(p)
    BY <1>3, <1>6, <2>2 DEF Window
  <2>. QED
    BY <2>1, <2>2
\* The cells of the other owners are other cells.
<1>9. ASSUME NEW u \in Threads, u # t, Owns(u)
      PROVE  CellOf(pos[u]) # CellOf(p)
  <2>1. pos[u] # p
    BY <1>1, <1>9 DEF OwnersDistinct, Owns, Pushing, p
  <2>2. pos[u] - p < cap /\ p - pos[u] < cap /\ pos[u] \in Nat
    BY <1>3, <1>4, <1>9 DEF Owns, PushersPlaced, ReadersPlaced, Bounded
  <2>. QED
    BY <1>3, <2>1, <2>2, CellFacts
<1>10. PushersPlaced'
  BY <1>1, <1>3, <1>5, <1>6, <1>9 DEF PushersPlaced, Pushing, Owns
<1>11. ReadersPlaced'
  BY <1>1, <1>3, <1>5, <1>6, <1>9 DEF ReadersPlaced, Reading, Owns
<1>12. OwnersDistinct'
  BY <1>1, <1>3 DEF OwnersDistinct, Owns, Pushing, Reading
<1>13. CasJustified'
  <2>1. \A u \in Threads \ {t} :
           /\ pc'[u] = pc[u] /\ pos'[u] = pos[u]
           /\ pos[u] = enqueue_pos /\ pc[u] = "push_cas" => CellOf(pos[u]) # CellOf(p)
    BY <1>1, <1>3, <1>4 DEF CasJustified
  <2>2. \A u \in Threads \ {t} :
           pos[u] = dequeue_pos /\ pc[u] = "deq_cas" => CellOf(pos[u]) # CellOf(p)
    BY <1>3, <1>4, CellFacts DEF CasJustified, Bounded
  <2>. QED
    BY <1>1, <1>3, <1>5, <1>6, <2>1, <2>2 DEF CasJustified
<1>. QED
  BY <1>1, <1>2, <1>8, <1>10, <1>11, <1>12, <1>13 DEF Bounded

\* Giving back: the cell of pos[t] goes from "being emptied" to waiting for
\* position pos[t] + cap.
LEMMA DequeueReleaseStep ==
    ASSUME IInv, NEW t \in Threads, DequeueRelease(t)
    PROVE  IInv'
<1>. USE DEF IInv
<1>. DEFINE p == pos[t]
<1>1. /\ pc[t] = "deq_release"
      /\ sequence' = [sequence EXCEPT ![CellOf(p)] = p + cap]
      /\ pc' = [pc EXCEPT ![t] = "idle"]
      /\ pos' = [pos EXCEPT ![t] = 0]
      /\ UNCHANGED <<cap, data, enqueue_pos, dequeue_pos>>
  BY DEF DequeueRelease, Leave, Goto
<1>2. TypeOK'
  <2>1. CellOf(p) \in 0 .. (cap - 1) /\ p \in Nat
    BY CellFacts DEF TypeOK
  <2>. QED
    BY <2>1, NoValueType DEF DequeueRelease, Leave, Goto, TypeOK, Results
<1>3. /\ cap \in Nat \ {0, 1} /\ enqueue_pos \in Nat /\ dequeue_pos \in Nat /\ p \in Nat
      /\ pos \in [Threads -> Nat] /\ pc \in [Threads -> {"idle"} \cup PushPcs \cup DequeuePcs]
      /\ sequence \in [0 .. (cap - 1) -> Nat]
  BY DEF TypeOK
<1>4. p < dequeue_pos /\ p < enqueue_pos /\ enqueue_pos - cap <= p /\ sequence[CellOf(p)] = p + 1
  BY <1>1 DEF ReadersPlaced, Reading, Bounded, TypeOK
<1>5. \A q : CellOf(q)' = CellOf(q)
  BY <1>1 DEF CellOf
<1>. HIDE DEF p
<1>6. \A q \in Nat : CellOf(q) # CellOf(p) => sequence'[CellOf(q)] = sequence[CellOf(q)]
  BY <1>1, <1>3, CellFacts
<1>7. sequence'[CellOf(p)] = p + cap
  BY <1>1, <1>3, CellFacts
<1>8. Window'
  <2>. SUFFICES ASSUME NEW q \in enqueue_pos .. (enqueue_pos + cap - 1)
                PROVE  LET x == sequence'[CellOf(q)]
                       IN  \/ x = q /\ q - cap < dequeue_pos
                           \/ x = q - cap /\ dequeue_pos <= q - cap
                           \/ x = q - cap + 1
    BY <1>1, <1>3, <1>5 DEF Window
  <2>1. CASE CellOf(q) = CellOf(p)
    <3>. DEFINE r == p + cap
    <3>1. r \in Nat /\ r = p + cap /\ q \in Nat
      BY <1>3
    <3>. HIDE DEF r
    <3>2. CellOf(r) = CellOf(p)
      BY <1>3, <3>1, CellFacts
    <3>3. q - r < cap /\ r - q < cap
      BY <1>3, <1>4, <3>1
    <3>4. q = r
      BY <1>3, <2>1, <3>1, <3>2, <3>3, CellFacts
    <3>. QED
      BY <1>3, <1>4, <1>7, <2>1, <3>1, <3>4
  <2>2. CASE CellOf(q) # CellOf(p)
    BY <1>3, <1>6, <2>2 DEF Window
  <2>. QED
    BY <2>1, <2>2
\* The cells of the other owners are other cells.
<1>9. ASSUME NEW u \in Threads, u # t, Owns(u)
      PROVE  CellOf(pos[u]) # CellOf(p)
  <2>1. pos[u] # p
    BY <1>1, <1>9 DEF OwnersDistinct, Owns, Reading, p
  <2>2. pos[u] - p < cap /\ p - pos[u] < cap /\ pos[u] \in Nat
    BY <1>3, <1>4, <1>9 DEF Owns, PushersPlaced, ReadersPlaced, Bounded
  <2>. QED
    BY <1>3, <2>1, <2>2, CellFacts
<1>10. PushersPlaced'
  BY <1>1, <1>3, <1>5, <1>6, <1>9 DEF PushersPlaced, Pushing, Owns
<1>11. ReadersPlaced'
  BY <1>1, <1>3, <1>5, <1>6, <1>9 DEF ReadersPlaced, Reading, Owns
<1>12. OwnersDistinct'
  BY <1>1, <1>3 DEF OwnersDistinct, Owns, Pushing, Reading
<1>13. CasJustified'
  <2>1. \A u \in Threads \ {t} :
           /\ pc'[u] = pc[u] /\ pos'[u] = pos[u]
           /\ pos[u] = enqueue_pos /\ pc[u] = "push_cas" => CellOf(pos[u]) # CellOf(p)
    BY <1>1, <1>3, <1>4, CellFacts DEF CasJustified
  <2>2. \A u \in Threads \ {t} :
           pos[u] = dequeue_pos /\ pc[u] = "deq_cas" => CellOf(pos[u]) # CellOf(p)
    BY <1>3, <1>4, CellFacts DEF CasJustified, Bounded
  <2>. QED
    BY <1>1, <1>3, <1>5, <1>6, <2>1, <2>2 DEF CasJustified
<1>. QED
  BY <1>1, <1>2, <1>8, <1>10, <1>11, <1>12, <1>13 DEF Bounded

LEMMA BelowRing ==
    ASSUME NEW c \in Nat \ {0, 1}
    PROVE  /\ \A q \in 0 .. (c - 1) : q - c < 0
           /\ \A a, b : a = 0 /\ b = 0 => b <= a /\ a - c <= b
  OBVIOUS

LEMMA ReserveStep ==
    ASSUME IInv, NEW sz \in Sizes, Reserve(sz)
    PROVE  IInv'
<1>1. cap' \in Nat \ {0, 1}
  BY PowerOfTwoSizeType, SizesAssumption DEF Reserve
<1>2. /\ sequence' = [c \in 0 .. (cap' - 1) |-> c]
      /\ enqueue_pos' = 0 /\ dequeue_pos' = 0
      /\ UNCHANGED <<pc, pos, arg, result>>
      /\ \A t \in Threads : pc[t] = "idle"
  BY DEF Reserve
<1>3. TypeOK'
  BY <1>1, NoValueType DEF Reserve, IInv, TypeOK
<1>4. Window'
  <2>1. \A q \in 0 .. (cap' - 1) : q % cap' = q
    BY <1>1, ModSmall
  <2>2. \A q \in 0 .. (cap' - 1) : sequence'[q % cap'] = q /\ q - cap' < 0
    <3>. TAKE q \in 0 .. (cap' - 1)
    <3>1. q % cap' = q
      BY <2>1
    <3>2. sequence'[q] = q
      BY <1>2
    <3>3. q - cap' < 0
      BY <1>1, BelowRing
    <3>. QED
      BY <3>1, <3>2, <3>3
  <2>3. enqueue_pos' .. (enqueue_pos' + cap' - 1) = 0 .. (cap' - 1)
    BY <1>1, <1>2
  <2>. QED
    BY <1>2, <2>2, <2>3 DEF Window, CellOf
<1>5. PushersPlaced' /\ ReadersPlaced' /\ OwnersDistinct'
  BY <1>2 DEF PushersPlaced, ReadersPlaced, OwnersDistinct, Owns, Pushing, Reading
<1>6. CasJustified'
  BY <1>2 DEF CasJustified
<1>7. Bounded'
  BY <1>1, <1>2, BelowRing DEF Bounded
<1>. QED
  BY <1>3, <1>4, <1>5, <1>6, <1>7 DEF IInv

---------------------------------------------------------------------------
LEMMA IInvInductive == IInv /\ [Next]_vars => IInv'
<1>. SUFFICES ASSUME IInv, [Next]_vars PROVE IInv'
  OBVIOUS
<1>1. ASSUME NEW t \in Threads,
             \/ \E v \in Values : PushCall(t, v)
             \/ DequeueCall(t) \/ PushStep(t) \/ DequeueStep(t)
      PROVE  IInv'
  BY <1>1, QuietActions, PushCasStep, DequeueCasStep, PushPublishStep,
     DequeueReleaseStep DEF PushStep, DequeueStep
<1>2. ASSUME NEW sz \in Sizes, Reserve(sz) PROVE IInv'
  BY <1>2, ReserveStep
<1>3. CASE UNCHANGED vars
  BY <1>3 DEF vars, IInv, TypeOK, Bounded, Window, PushersPlaced, ReadersPlaced,
              OwnersDistinct, CasJustified, Owns, Pushing, Reading, CellOf
<1>. QED
  BY <1>1, <1>2, <1>3 DEF Next

\* Two owners of one cell would be at two positions a whole number of rounds
\* apart; both lie within one round below enqueue_pos.
LEMMA IInvExclusive == IInv => CellExclusive
<1>. SUFFICES ASSUME IInv, NEW t \in Threads, NEW u \in Threads,
                     t # u, Owns(t), Owns(u), CellOf(pos[t]) = CellOf(pos[u])
              PROVE  FALSE
  BY DEF CellExclusive
<1>1. /\ cap \in Nat \ {0, 1} /\ enqueue_pos \in Nat /\ dequeue_pos \in Nat
      /\ pos[t] \in Nat /\ pos[u] \in Nat
  BY DEF IInv, TypeOK
<1>2. \A x \in {t, u} : enqueue_pos - cap <= pos[x] /\ pos[x] < enqueue_pos
  BY <1>1 DEF IInv, Owns, PushersPlaced, ReadersPlaced, Bounded
<1>3. pos[t] = pos[u]
  BY <1>1, <1>2, CellFacts
<1>. QED
  BY <1>3 DEF IInv, OwnersDistinct

\* Type correctness of mpmc_queue for every number of threads and values.
THEOREM TypeCorrect == Spec => []TypeOK
<1>1. IInv => TypeOK
  BY DEF IInv
<1>. QED
  BY <1>1, InitIInv, IInvInductive, PTL DEF Spec

\* The inductive invariant itself: claimed and not taken never exceeds the
\* ring, and every cell is at the position the window says.
THEOREM InductiveInvariant == Spec => []IInv
  BY InitIInv, IInvInductive, PTL DEF Spec

\* No cell's payload is ever accessed by two threads at once, however many
\* producers and consumers race and however often the ring wraps.
THEOREM CellsAreExclusive == Spec => []CellExclusive
  BY InductiveInvariant, IInvExclusive, PTL
---------------------------------------------------------------------------
(* MpmcQueue implements QueueSpec. *)

\* The positions whose cells are in the ring, and what a refinement needs to
\* know of them beyond IInv: a cell that is being filled or emptied has its
\* thread, a cell that was never filled is not taken for a full one, and what
\* a thread stored or read is what the cell holds.
InRing(p) == p < enqueue_pos /\ enqueue_pos - cap <= p

CellsOwned ==
    \A p \in Nat : InRing(p) /\ StateOf(p) \in {"claimed", "reading"} =>
        \E t \in Threads : Owns(t) /\ pos[t] = p

CellsFilled ==
    \A q \in enqueue_pos .. (enqueue_pos + cap - 1) :
        sequence[CellOf(q)] = q - cap + 1 => q >= cap

DataKept ==
    \A t \in Threads :
        /\ pc[t] = "push_publish" => data[CellOf(pos[t])] = arg[t]
        /\ pc[t] = "deq_release" => data[CellOf(pos[t])] = result[t]

RingInv == IInv /\ CellsOwned /\ CellsFilled /\ DataKept

\* The numbers the lemmas below calculate with.
LEMMA Numbers ==
    ASSUME IInv
    PROVE  /\ cap \in Nat \ {0, 1} /\ enqueue_pos \in Nat /\ dequeue_pos \in Nat
           /\ dequeue_pos <= enqueue_pos /\ enqueue_pos - cap <= dequeue_pos
           /\ sequence \in [0 .. (cap - 1) -> Nat] /\ data \in [0 .. (cap - 1) -> Values]
           /\ pos \in [Threads -> Nat]
  BY DEF IInv, TypeOK, Bounded

\* What the sequence number of a cell in the ring says.
LEMMA StateFacts ==
    ASSUME IInv, NEW p \in Nat, InRing(p)
    PROVE  /\ sequence[CellOf(p)] \in {p, p + 1, p + cap}
           /\ StateOf(p) = "claimed" <=> sequence[CellOf(p)] = p
           /\ StateOf(p) \in {"ready", "reading"} <=> sequence[CellOf(p)] = p + 1
           /\ StateOf(p) = "ready" => dequeue_pos <= p
           /\ StateOf(p) = "reading" => p < dequeue_pos
           /\ StateOf(p) = "claimed" => dequeue_pos <= p
           /\ StateOf(p) = "free" <=> sequence[CellOf(p)] = p + cap
           /\ StateOf(p) = "free" => p < dequeue_pos
           /\ StateOf(p) \in SlotStates
<1>1. /\ cap \in Nat \ {0, 1} /\ enqueue_pos \in Nat /\ dequeue_pos \in Nat
  BY Numbers
<1>. DEFINE q == p + cap
<1>2. q \in enqueue_pos .. (enqueue_pos + cap - 1) /\ q \in Nat /\ q = p + cap
  BY <1>1 DEF InRing
<1>3. CellOf(q) = CellOf(p)
  BY <1>1, <1>2, CellFacts
<1>. DEFINE s == sequence[CellOf(p)]
<1>4. \/ s = p + cap /\ p < dequeue_pos
      \/ s = p /\ dequeue_pos <= p
      \/ s = p + 1
  <2>1. LET x == sequence[CellOf(q)]
        IN  \/ x = q /\ q - cap < dequeue_pos
            \/ x = q - cap /\ dequeue_pos <= q - cap
            \/ x = q - cap + 1
    BY <1>2 DEF IInv, Window
  <2>. QED
    BY <2>1, <1>1, <1>2, <1>3
<1>. HIDE DEF s
<1>5. StateOf(p) = IF s = p THEN "claimed"
                   ELSE IF s # p + 1 THEN "free"
                   ELSE IF p >= dequeue_pos THEN "ready" ELSE "reading"
  BY DEF StateOf, s
<1>. QED
  BY <1>1, <1>4, <1>5 DEF s, SlotStates

\* Every earlier position shares its cell with one of the next `cap', a
\* whole number of rounds later.
LEMMA NextRound ==
    ASSUME IInv, NEW p \in Nat, p < enqueue_pos
    PROVE  \E q \in enqueue_pos .. (enqueue_pos + cap - 1) :
              CellOf(q) = CellOf(p) /\ p + cap <= q
<1>1. /\ cap \in Nat \ {0, 1} /\ enqueue_pos \in Nat
  BY Numbers
<1>. DEFINE c == p % cap
            e == enqueue_pos % cap
            k == enqueue_pos \div cap
            q == IF c >= e THEN cap * k + c ELSE cap * k + c + cap
<1>2. c \in 0 .. (cap - 1) /\ e \in 0 .. (cap - 1) /\ k \in Int
      /\ enqueue_pos = cap * k + e
  BY <1>1, ModRange, DivMod
<1>. HIDE DEF c, e, k
<1>. DEFINE r == cap * k
<1>3. r \in Int /\ enqueue_pos = r + e
  BY <1>1, <1>2
<1>4. q \in enqueue_pos .. (enqueue_pos + cap - 1) /\ q \in Nat
  <2>. HIDE DEF r
  <2>1. q = IF c >= e THEN r + c ELSE r + c + cap
    BY DEF q, r
  <2>. QED
    BY <2>1, <1>1, <1>2, <1>3
<1>5. q % cap = c
  <2>1. q % cap \in 0 .. (cap - 1) /\ q \div cap \in Int
        /\ q = cap * (q \div cap) + (q % cap)
    BY <1>1, <1>4, ModRange, DivMod
  <2>2. CASE c >= e
    <3>1. q = cap * k + c
      BY <2>2
    <3>. HIDE DEF q
    <3>2. cap * (q \div cap) + (q % cap) = cap * k + c
      BY <2>1, <3>1
    <3>. QED
      BY <2>1, <3>2, <1>1, <1>2, DivModUnique
  <2>3. CASE ~(c >= e)
    <3>1. q = cap * k + c + cap
      BY <2>3
    <3>2. cap * (k + 1) = cap * k + cap
      BY <1>1, <1>2
    <3>. HIDE DEF q
    <3>3. PICK m \in Int : m = k + 1
      BY <1>2
    <3>4. cap * (q \div cap) + (q % cap) = cap * m + c
      BY <2>1, <3>1, <3>2, <3>3, <1>1, <1>2
    <3>. QED
      BY <2>1, <3>3, <3>4, <1>1, <1>2, DivModUnique
  <2>. QED
    BY <2>2, <2>3
<1>. HIDE DEF q
<1>6. CellOf(q) = CellOf(p)
  BY <1>5 DEF CellOf, c
<1>7. p + cap <= q
  BY <1>1, <1>4, <1>6, CellFacts
<1>. QED
  BY <1>4, <1>6, <1>7

\* No cell has fallen behind the next position: what the callers compare.
LEMMA SequenceBehind ==
    ASSUME IInv, NEW p \in Nat, p < enqueue_pos
    PROVE  /\ sequence[CellOf(p)] >= p
           /\ p < dequeue_pos => sequence[CellOf(p)] >= p + 1
<1>1. /\ cap \in Nat \ {0, 1} /\ enqueue_pos \in Nat /\ dequeue_pos \in Nat
  BY Numbers
<1>2. PICK q \in enqueue_pos .. (enqueue_pos + cap - 1) :
             CellOf(q) = CellOf(p) /\ p + cap <= q
  BY NextRound
<1>3. LET s == sequence[CellOf(p)]
      IN  \/ s = q /\ q - cap < dequeue_pos
          \/ s = q - cap /\ dequeue_pos <= q - cap
          \/ s = q - cap + 1
  BY <1>2 DEF IInv, Window
<1>. QED
  BY <1>1, <1>2, <1>3

\* The owner of a position.
LEMMA OwnerFacts ==
    ASSUME IInv
    PROVE  /\ \A t \in Threads : Owns(t) => OwnerOf(pos[t]) = t
           /\ \A p : OwnerOf(p) = "nobody" <=> ~\E t \in Threads : Owns(t) /\ pos[t] = p
           /\ \A p : OwnerOf(p) \in Threads \cup {"nobody"}
           /\ \A p : OwnerOf(p) # "nobody" =>
                 OwnerOf(p) \in Threads /\ Owns(OwnerOf(p)) /\ pos[OwnerOf(p)] = p
<1>1. ASSUME NEW p PROVE
        \/ /\ OwnerOf(p) = "nobody" /\ ~\E t \in Threads : Owns(t) /\ pos[t] = p
        \/ /\ OwnerOf(p) \in Threads /\ Owns(OwnerOf(p)) /\ pos[OwnerOf(p)] = p
  <2>. DEFINE owners == {t \in Threads : Owns(t) /\ pos[t] = p}
  <2>1. OwnerOf(p) = IF owners = {} THEN "nobody" ELSE CHOOSE t \in owners : TRUE
    BY DEF OwnerOf
  <2>. QED
    BY <2>1
<1>2. ASSUME NEW t \in Threads, Owns(t) PROVE OwnerOf(pos[t]) = t
  <2>1. OwnerOf(pos[t]) \in Threads /\ Owns(OwnerOf(pos[t])) /\ pos[OwnerOf(pos[t])] = pos[t]
    BY <1>1, <1>2
  <2>. QED
    BY <2>1, <1>2 DEF IInv, OwnersDistinct
<1>. QED
  BY <1>1, <1>2, ThreadsAssumption

\* The first of the slots.
LEMMA OldestFacts ==
    ASSUME IInv
    PROVE  /\ Oldest \in Nat /\ Oldest <= enqueue_pos
           /\ enqueue_pos - cap <= Oldest
           /\ Oldest < enqueue_pos => StateOf(Oldest) # "free"
           /\ \A p \in Nat : InRing(p) /\ p < Oldest => StateOf(p) = "free"
<1>. DEFINE H == {p \in 0 .. (enqueue_pos - 1) : p >= enqueue_pos - cap /\ StateOf(p) # "free"}
<1>1. Oldest = IF H = {} THEN enqueue_pos ELSE CHOOSE p \in H : \A o \in H : p <= o
  BY DEF Oldest
<1>2. /\ cap \in Nat \ {0, 1} /\ enqueue_pos \in Nat
  BY Numbers
<1>3. \A p \in Nat : InRing(p) /\ StateOf(p) # "free" => p \in H
  BY <1>2 DEF InRing
<1>4. CASE H = {}
  BY <1>1, <1>2, <1>3, <1>4
<1>5. CASE H # {}
  <2>1. \E p \in H : \A o \in H : p <= o
    <3>1. H \in SUBSET Nat
      BY <1>2
    <3>. HIDE DEF H
    <3>2. \E n \in H : \A k \in H : ~(k < n)
      BY <1>5, <3>1, LeastPosition
    <3>. QED
      BY <3>1, <3>2
  <2>2. Oldest \in H /\ \A o \in H : Oldest <= o
    BY <1>1, <1>5, <2>1
  <2>3. Oldest \in 0 .. (enqueue_pos - 1) /\ Oldest >= enqueue_pos - cap /\ StateOf(Oldest) # "free"
    BY <2>2
  <2>. HIDE DEF H
  <2>. QED
    BY <1>2, <1>3, <2>2, <2>3
<1>. QED
  BY <1>4, <1>5

LEMMA OldestIs ==
    ASSUME IInv, NEW o \in Nat, o <= enqueue_pos, enqueue_pos - cap <= o,
           o < enqueue_pos => StateOf(o) # "free",
           \A p \in Nat : InRing(p) /\ p < o => StateOf(p) = "free"
    PROVE  Oldest = o
<1>1. /\ Oldest \in Nat /\ Oldest <= enqueue_pos
      /\ enqueue_pos - cap <= Oldest
      /\ Oldest < enqueue_pos => StateOf(Oldest) # "free"
      /\ \A p \in Nat : InRing(p) /\ p < Oldest => StateOf(p) = "free"
  BY OldestFacts
<1>2. enqueue_pos \in Nat
  BY Numbers
<1>3. ~(Oldest < o)
  BY <1>1, <1>2 DEF InRing
<1>4. ~(o < Oldest)
  BY <1>1, <1>2 DEF InRing
<1>. QED
  BY <1>1, <1>3, <1>4
---------------------------------------------------------------------------
\* The cells, their states and their owners from one step to the next.
LEMMA StateKept ==
    ASSUME NEW p, UNCHANGED cap, sequence'[CellOf(p)] = sequence[CellOf(p)],
           p >= dequeue_pos' <=> p >= dequeue_pos
    PROVE  StateOf(p)' = StateOf(p)
  BY DEF StateOf, CellOf

LEMMA OwnerKept ==
    ASSUME NEW p,
           \A u \in Threads : Owns(u)' /\ pos'[u] = p <=> Owns(u) /\ pos[u] = p
    PROVE  OwnerOf(p)' = OwnerOf(p)
<1>. DEFINE A == {t \in Threads : Owns(t) /\ pos[t] = p}
            B == {t \in Threads : Owns(t)' /\ pos'[t] = p}
<1>1. A = B
  OBVIOUS
<1>2. OwnerOf(p) = IF A = {} THEN "nobody" ELSE CHOOSE t \in A : TRUE
  BY DEF OwnerOf
<1>3. OwnerOf(p)' = IF B = {} THEN "nobody" ELSE CHOOSE t \in B : TRUE
  BY DEF OwnerOf
<1>. HIDE DEF A, B
<1>. QED
  BY <1>1, <1>2, <1>3

\* Where an owner's position lies.
LEMMA OwnPlace ==
    ASSUME IInv, NEW t \in Threads, Owns(t)
    PROVE  /\ pos[t] \in Nat /\ InRing(pos[t]) /\ CellOf(pos[t]) \in 0 .. (cap - 1)
           /\ Oldest <= pos[t]
           /\ Pushing(t) => StateOf(pos[t]) = "claimed" /\ sequence[CellOf(pos[t])] = pos[t]
           /\ Reading(t) => StateOf(pos[t]) = "reading" /\ sequence[CellOf(pos[t])] = pos[t] + 1
<1>1. /\ cap \in Nat \ {0, 1} /\ enqueue_pos \in Nat /\ dequeue_pos \in Nat
      /\ dequeue_pos <= enqueue_pos /\ enqueue_pos - cap <= dequeue_pos
      /\ pos[t] \in Nat
  BY Numbers
<1>2. InRing(pos[t])
  BY <1>1 DEF IInv, Owns, PushersPlaced, ReadersPlaced, InRing
<1>3. /\ Pushing(t) => sequence[CellOf(pos[t])] = pos[t]
      /\ Reading(t) => sequence[CellOf(pos[t])] = pos[t] + 1 /\ pos[t] < dequeue_pos
  BY DEF IInv, PushersPlaced, ReadersPlaced
<1>4. /\ Pushing(t) => StateOf(pos[t]) = "claimed"
      /\ Reading(t) => StateOf(pos[t]) = "reading"
  BY <1>1, <1>2, <1>3, StateFacts
<1>5. Oldest <= pos[t]
  <2>1. StateOf(pos[t]) # "free"
    BY <1>4 DEF Owns
  <2>2. Oldest \in Nat
    BY OldestFacts
  <2>3. ~(pos[t] < Oldest)
    BY <1>1, <1>2, <2>1, OldestFacts
  <2>. QED
    BY <1>1, <2>2, <2>3
<1>6. CellOf(pos[t]) \in 0 .. (cap - 1)
  BY <1>1, CellFacts
<1>. QED
  BY <1>1, <1>2, <1>3, <1>4, <1>5, <1>6

\* A step that wins no position and gives none back.
Frame ==
    /\ UNCHANGED <<cap, sequence, enqueue_pos, dequeue_pos>>
    /\ \A u \in Threads :
          /\ Pushing(u)' <=> Pushing(u)
          /\ Reading(u)' <=> Reading(u)
          /\ Owns(u) => pos'[u] = pos[u]
          /\ Pushing(u) => arg'[u] = arg[u]

LEMMA FrameKeepsCells ==
    ASSUME RingInv, Frame
    PROVE  CellsOwned' /\ CellsFilled'
<1>1. UNCHANGED <<cap, sequence, enqueue_pos, dequeue_pos>>
  BY DEF Frame
<1>2. CellsFilled'
  BY <1>1 DEF RingInv, CellsFilled, CellOf
<1>3. \A p \in Nat : InRing(p)' = InRing(p) /\ StateOf(p)' = StateOf(p)
  BY <1>1, StateKept DEF InRing
<1>4. \A u \in Threads : Owns(u) => Owns(u)' /\ pos'[u] = pos[u]
  BY DEF Frame, Owns
<1>5. CellsOwned'
  <2>1. SUFFICES ASSUME NEW p \in Nat, InRing(p)', StateOf(p)' \in {"claimed", "reading"}
                 PROVE  \E t \in Threads : Owns(t)' /\ pos'[t] = p
    BY DEF CellsOwned
  <2>2. InRing(p) /\ StateOf(p) \in {"claimed", "reading"}
    BY <2>1, <1>3
  <2>3. PICK t \in Threads : Owns(t) /\ pos[t] = p
    BY <2>2 DEF RingInv, CellsOwned
  <2>. QED
    BY <2>3, <1>4
<1>. QED
  BY <1>2, <1>5

\* What is stored and read: steps that leave the payloads alone, in which
\* only t moves, and not to a place that has stored or read something.
LEMMA DataFrame ==
    ASSUME RingInv, NEW t \in Threads, UNCHANGED <<cap, data>>,
           \A u \in Threads \ {t} : /\ pc'[u] = pc[u] /\ pos'[u] = pos[u]
                                    /\ arg'[u] = arg[u] /\ result'[u] = result[u],
           pc'[t] \notin {"push_publish", "deq_release"}
    PROVE  DataKept'
  BY DEF RingInv, DataKept, CellOf

LEMMA FrameActions ==
    ASSUME RingInv, NEW t \in Threads,
           \/ \E v \in Values : PushCall(t, v)
           \/ DequeueCall(t)
           \/ PushReadSequence(t) \/ PushReload(t)
           \/ DequeueReadSequence(t) \/ DequeueReload(t)
           \/ PushCas(t) /\ enqueue_pos # pos[t]
           \/ DequeueCas(t) /\ dequeue_pos # pos[t]
    PROVE  Frame /\ UNCHANGED data /\ DataKept'
<1>1. /\ pc \in [Threads -> {"idle"} \cup PushPcs \cup DequeuePcs]
      /\ pos \in [Threads -> Nat] /\ arg \in [Threads -> Values]
      /\ result \in [Threads -> Results]
  BY DEF RingInv, IInv, TypeOK
<1>2. UNCHANGED <<cap, sequence, enqueue_pos, dequeue_pos, data>>
  BY DEF PushCall, DequeueCall, PushReadSequence, PushReload, DequeueReadSequence,
         DequeueReload, PushCas, DequeueCas
<1>3. /\ pc[t] \in {"idle", "push_seq", "push_reload", "deq_seq", "deq_reload",
                    "push_cas", "deq_cas"}
      /\ \E l \in {"idle", "push_seq", "push_reload", "deq_seq", "deq_reload",
                   "push_cas", "deq_cas"} : pc' = [pc EXCEPT ![t] = l]
  <2>1. CASE \E v \in Values : PushCall(t, v)
    BY <2>1 DEF PushCall, Goto
  <2>2. CASE DequeueCall(t)
    BY <2>2 DEF DequeueCall, Goto
  <2>3. CASE PushReadSequence(t)
    BY <2>3, Zenon DEF PushReadSequence, Goto, Return, Leave
  <2>4. CASE PushReload(t)
    BY <2>4 DEF PushReload, Goto
  <2>5. CASE DequeueReadSequence(t)
    BY <2>5, Zenon DEF DequeueReadSequence, Goto, Return, Leave
  <2>6. CASE DequeueReload(t)
    BY <2>6 DEF DequeueReload, Goto
  <2>7. CASE PushCas(t) /\ enqueue_pos # pos[t]
    BY <2>7 DEF PushCas, Goto
  <2>8. CASE DequeueCas(t) /\ dequeue_pos # pos[t]
    BY <2>8 DEF DequeueCas, Goto
  <2>. QED
    BY <2>1, <2>2, <2>3, <2>4, <2>5, <2>6, <2>7, <2>8
<1>4. \A u \in Threads \ {t} : pos'[u] = pos[u] /\ arg'[u] = arg[u] /\ result'[u] = result[u]
  <2>1. CASE \E v \in Values : PushCall(t, v)
    BY <2>1, <1>1 DEF PushCall
  <2>2. CASE DequeueCall(t) \/ PushReload(t) \/ DequeueReload(t) \/ PushCas(t) \/ DequeueCas(t)
    BY <2>2, <1>1 DEF DequeueCall, PushReload, DequeueReload, PushCas, DequeueCas
  <2>3. CASE PushReadSequence(t) \/ DequeueReadSequence(t)
    <3>1. UNCHANGED <<pos, arg, result>> \/ Return(t, "full") \/ Return(t, "empty")
      BY <2>3, Zenon DEF PushReadSequence, DequeueReadSequence
    <3>2. CASE UNCHANGED <<pos, arg, result>>
      BY <3>2
    <3>3. CASE Return(t, "full") \/ Return(t, "empty")
      BY <3>3, <1>1 DEF Return, Leave
    <3>. QED
      BY <3>1, <3>2, <3>3
  <2>. QED
    BY <2>1, <2>2, <2>3
<1>5. \A u \in Threads \ {t} : pc'[u] = pc[u]
  BY <1>1, <1>3
<1>6. pc'[t] \in {"idle", "push_seq", "push_reload", "deq_seq", "deq_reload",
                  "push_cas", "deq_cas"}
  BY <1>1, <1>3
<1>7. Frame
  <2>1. ~Pushing(t) /\ ~Reading(t) /\ ~Pushing(t)' /\ ~Reading(t)'
    BY <1>3, <1>6 DEF Pushing, Reading
  <2>2. ASSUME NEW u \in Threads, u # t
        PROVE  /\ Pushing(u)' <=> Pushing(u)
               /\ Reading(u)' <=> Reading(u)
               /\ pos'[u] = pos[u] /\ arg'[u] = arg[u]
    BY <2>2, <1>4, <1>5 DEF Pushing, Reading
  <2>. QED
    BY <2>1, <2>2, <1>2 DEF Frame, Owns
<1>8. DataKept'
  BY <1>2, <1>4, <1>5, <1>6, DataFrame
<1>. QED
  BY <1>2, <1>7, <1>8

\* The payload: stored while no other owner has the cell, and read.
LEMMA WriteFrame ==
    ASSUME RingInv, NEW t \in Threads, PushWriteData(t)
    PROVE  /\ Frame /\ DataKept'
           /\ \A c : c # CellOf(pos[t]) => data'[c] = data[c]
<1>1. /\ pc \in [Threads -> {"idle"} \cup PushPcs \cup DequeuePcs]
      /\ data \in [0 .. (cap - 1) -> Values]
  BY DEF RingInv, IInv, TypeOK
<1>2. /\ pc[t] = "push_data" /\ pc' = [pc EXCEPT ![t] = "push_publish"]
      /\ data' = [data EXCEPT ![CellOf(pos[t])] = arg[t]]
      /\ UNCHANGED <<cap, sequence, enqueue_pos, dequeue_pos, pos, arg, result>>
  BY DEF PushWriteData, Goto
<1>3. \A u \in Threads \ {t} : pc'[u] = pc[u]
  BY <1>1, <1>2
<1>4. pc'[t] = "push_publish"
  BY <1>1, <1>2
<1>5. Frame
  <2>1. ASSUME NEW u \in Threads
        PROVE  /\ Pushing(u)' <=> Pushing(u)
               /\ Reading(u)' <=> Reading(u)
    BY <1>2, <1>3, <1>4 DEF Pushing, Reading
  <2>. QED
    BY <2>1, <1>2 DEF Frame
<1>6. Owns(t) /\ CellOf(pos[t]) \in 0 .. (cap - 1)
  BY <1>2, OwnPlace DEF RingInv, Owns, Pushing
<1>7. \A c : c # CellOf(pos[t]) => data'[c] = data[c]
  BY <1>1, <1>2
<1>8. data'[CellOf(pos[t])] = arg[t]
  BY <1>1, <1>2, <1>6
<1>9. DataKept'
  <2>1. \A u \in Threads \ {t} : pc[u] \in {"push_publish", "deq_release"} =>
           CellOf(pos[u]) # CellOf(pos[t])
    <3>1. CellExclusive
      BY IInvExclusive DEF RingInv
    <3>. QED
      BY <3>1, <1>6 DEF CellExclusive, Owns, Pushing, Reading
  <2>2. \A u \in Threads : CellOf(pos[u])' = CellOf(pos[u])
    BY <1>2 DEF CellOf
  <2>3. ASSUME NEW u \in Threads
        PROVE  /\ pc'[u] = "push_publish" => data'[CellOf(pos[u])] = arg[u]
               /\ pc'[u] = "deq_release" => data'[CellOf(pos[u])] = result[u]
    <3>1. CASE u = t
      BY <3>1, <1>4, <1>8
    <3>2. CASE u # t
      BY <3>2, <1>3, <1>7, <2>1 DEF RingInv, DataKept
    <3>. QED
      BY <3>1, <3>2
  <2>. QED
    BY <2>2, <2>3, <1>2 DEF DataKept
<1>. QED
  BY <1>5, <1>7, <1>9

LEMMA ReadFrame ==
    ASSUME RingInv, NEW t \in Threads, DequeueReadData(t)
    PROVE  Frame /\ UNCHANGED data /\ DataKept'
<1>1. /\ pc \in [Threads -> {"idle"} \cup PushPcs \cup DequeuePcs]
      /\ result \in [Threads -> Results]
  BY DEF RingInv, IInv, TypeOK
<1>2. /\ pc[t] = "deq_data" /\ pc' = [pc EXCEPT ![t] = "deq_release"]
      /\ result' = [result EXCEPT ![t] = data[CellOf(pos[t])]]
      /\ UNCHANGED <<cap, sequence, data, enqueue_pos, dequeue_pos, pos, arg>>
  BY DEF DequeueReadData, Goto
<1>3. \A u \in Threads \ {t} : pc'[u] = pc[u] /\ result'[u] = result[u]
  BY <1>1, <1>2
<1>4. pc'[t] = "deq_release" /\ result'[t] = data[CellOf(pos[t])]
  BY <1>1, <1>2
<1>5. Frame
  <2>1. ASSUME NEW u \in Threads
        PROVE  /\ Pushing(u)' <=> Pushing(u)
               /\ Reading(u)' <=> Reading(u)
    BY <1>2, <1>3, <1>4 DEF Pushing, Reading
  <2>. QED
    BY <2>1, <1>2 DEF Frame
<1>6. DataKept'
  <2>1. ASSUME NEW u \in Threads
        PROVE  /\ pc'[u] = "push_publish" => data[CellOf(pos[u])] = arg[u]
               /\ pc'[u] = "deq_release" => data[CellOf(pos[u])] = result'[u]
    BY <1>3, <1>4 DEF RingInv, DataKept
  <2>2. \A u \in Threads : CellOf(pos[u])' = CellOf(pos[u])
    BY <1>2 DEF CellOf
  <2>. QED
    BY <2>1, <2>2, <1>2 DEF DataKept
<1>. QED
  BY <1>2, <1>5, <1>6
---------------------------------------------------------------------------
\* The four steps that change a slot: the two compare-and-swaps that win and
\* the two stores of a sequence number.
LEMMA OtherCell ==
    ASSUME IInv, NEW p \in Nat, NEW q \in Nat, InRing(p), InRing(q), p # q
    PROVE  CellOf(p) # CellOf(q)
<1>1. cap \in Nat \ {0, 1} /\ enqueue_pos \in Nat
  BY Numbers
<1>2. p - q < cap /\ q - p < cap
  BY <1>1 DEF InRing
<1>. QED
  BY <1>1, <1>2, CellFacts

\* Position enqueue_pos won: the slots grow by one, claimed by t.
LEMMA ClaimCells ==
    ASSUME RingInv, NEW t \in Threads, PushCas(t), enqueue_pos = pos[t]
    PROVE  /\ enqueue_pos' = enqueue_pos + 1 /\ UNCHANGED <<cap, data, dequeue_pos, arg>>
           /\ ~Owns(t) /\ pc[t] \in PushPcs
           /\ \A p \in Nat : InRing(p) =>
                 StateOf(p)' = StateOf(p) /\ OwnerOf(p)' = OwnerOf(p)
           /\ \A p \in Nat : p = enqueue_pos =>
                 StateOf(p)' = "claimed" /\ OwnerOf(p)' = t
           /\ \A p \in Nat : p = enqueue_pos - cap => StateOf(p) = "free"
           /\ CellsOwned' /\ CellsFilled' /\ DataKept'
<1>1. /\ enqueue_pos' = enqueue_pos + 1 /\ UNCHANGED <<cap, sequence, data, dequeue_pos, pos, arg, result>>
      /\ pc[t] = "push_cas" /\ pc' = [pc EXCEPT ![t] = "push_data"]
  BY DEF PushCas, Goto
<1>2. /\ cap \in Nat \ {0, 1} /\ enqueue_pos \in Nat /\ dequeue_pos \in Nat
      /\ pos \in [Threads -> Nat] /\ IInv
      /\ dequeue_pos <= enqueue_pos /\ enqueue_pos - cap <= dequeue_pos
  BY Numbers DEF RingInv
<1>3. pc \in [Threads -> {"idle"} \cup PushPcs \cup DequeuePcs]
  BY DEF RingInv, IInv, TypeOK
<1>4. sequence[CellOf(enqueue_pos)] = enqueue_pos
  BY <1>1, <1>2 DEF IInv, CasJustified
<1>5. /\ \A u \in Threads \ {t} : pc'[u] = pc[u]
      /\ pc'[t] = "push_data"
  BY <1>1, <1>3
<1>6. ~Owns(t) /\ Pushing(t)' /\ Owns(t)' /\ pc[t] \in PushPcs
  BY <1>1, <1>5 DEF Owns, Pushing, Reading, PushPcs
<1>7. \A u \in Threads \ {t} : Owns(u)' <=> Owns(u)
  BY <1>5 DEF Owns, Pushing, Reading
<1>8. ASSUME NEW p \in Nat, InRing(p)
      PROVE  StateOf(p)' = StateOf(p) /\ OwnerOf(p)' = OwnerOf(p)
  <2>1. StateOf(p)' = StateOf(p)
    BY <1>1, StateKept
  <2>2. pos[t] # p
    BY <1>2, <1>8 DEF InRing
  <2>3. OwnerOf(p)' = OwnerOf(p)
    BY <1>1, <1>6, <1>7, <2>2, OwnerKept
  <2>. QED
    BY <2>1, <2>3
<1>9. ASSUME NEW p \in Nat, p = enqueue_pos
      PROVE  StateOf(p)' = "claimed" /\ OwnerOf(p)' = t
  <2>1. sequence'[CellOf(p)'] = p
    BY <1>1, <1>4, <1>9 DEF CellOf
  <2>2. StateOf(p)' = "claimed"
    BY <2>1 DEF StateOf
  <2>3. \A u \in Threads : Owns(u)' /\ pos'[u] = p <=> u = t
    <3>1. \A u \in Threads : Owns(u) => pos[u] < enqueue_pos
      BY <1>2, OwnPlace DEF InRing
    <3>. QED
      BY <1>1, <1>2, <1>6, <1>7, <1>9, <3>1
  <2>4. OwnerOf(p)' = t
    <3>. DEFINE B == {u \in Threads : Owns(u)' /\ pos'[u] = p}
    <3>1. B = {t}
      BY <2>3
    <3>2. OwnerOf(p)' = IF B = {} THEN "nobody" ELSE CHOOSE u \in B : TRUE
      BY DEF OwnerOf
    <3>. HIDE DEF B
    <3>. QED
      BY <3>1, <3>2
  <2>. QED
    BY <2>2, <2>4
<1>10. ASSUME NEW p \in Nat, p = enqueue_pos - cap PROVE StateOf(p) = "free"
  <2>1. CellOf(enqueue_pos) = CellOf(p) /\ InRing(p)
    BY <1>2, <1>10, CellFacts DEF InRing
  <2>2. sequence[CellOf(p)] = p + cap
    BY <2>1, <1>2, <1>4, <1>10
  <2>. QED
    BY <1>2, <2>1, <2>2, StateFacts
<1>11. CellsOwned'
  <2>. SUFFICES ASSUME NEW p \in Nat, InRing(p)', StateOf(p)' \in {"claimed", "reading"}
                PROVE  \E u \in Threads : Owns(u)' /\ pos'[u] = p
    BY DEF CellsOwned
  <2>1. CASE p = enqueue_pos
    BY <2>1, <1>1, <1>6
  <2>2. CASE p # enqueue_pos
    <3>1. InRing(p)
      BY <1>1, <1>2, <2>2 DEF InRing
    <3>2. PICK u \in Threads : Owns(u) /\ pos[u] = p
      BY <3>1, <1>8 DEF RingInv, CellsOwned
    <3>. QED
      BY <3>2, <1>1, <1>6, <1>7
  <2>. QED
    BY <2>1, <2>2
<1>12. CellsFilled'
  <2>. SUFFICES ASSUME NEW q \in (enqueue_pos + 1) .. (enqueue_pos + cap),
                       sequence[CellOf(q)] = q - cap + 1
                PROVE  q >= cap
    BY <1>1, <1>2 DEF CellsFilled, CellOf
  <2>1. CASE q <= enqueue_pos + cap - 1
    <3>1. q \in enqueue_pos .. (enqueue_pos + cap - 1)
      BY <1>2, <2>1
    <3>. QED
      BY <3>1 DEF RingInv, CellsFilled
  <2>2. CASE ~(q <= enqueue_pos + cap - 1)
    BY <1>2, <2>2
  <2>. QED
    BY <2>1, <2>2
<1>13. DataKept'
  BY <1>1, <1>5, DataFrame
<1>. QED
  BY <1>1, <1>6, <1>8, <1>9, <1>10, <1>11, <1>12, <1>13

\* Position dequeue_pos won: its slot passes to t.
LEMMA TakeCells ==
    ASSUME RingInv, NEW t \in Threads, DequeueCas(t), dequeue_pos = pos[t]
    PROVE  /\ dequeue_pos' = dequeue_pos + 1 /\ UNCHANGED <<cap, data, enqueue_pos, arg>>
           /\ ~Owns(t) /\ pc[t] \in DequeuePcs
           /\ \A p \in Nat : InRing(p) /\ p # dequeue_pos =>
                 StateOf(p)' = StateOf(p) /\ OwnerOf(p)' = OwnerOf(p)
           /\ InRing(dequeue_pos) /\ StateOf(dequeue_pos) = "ready"
           /\ \A p \in Nat : p = dequeue_pos =>
                 StateOf(p)' = "reading" /\ OwnerOf(p)' = t
           /\ CellsOwned' /\ CellsFilled' /\ DataKept'
<1>1. /\ dequeue_pos' = dequeue_pos + 1 /\ UNCHANGED <<cap, sequence, data, enqueue_pos, pos, arg, result>>
      /\ pc[t] = "deq_cas" /\ pc' = [pc EXCEPT ![t] = "deq_data"]
  BY DEF DequeueCas, Goto
<1>2. /\ cap \in Nat \ {0, 1} /\ enqueue_pos \in Nat /\ dequeue_pos \in Nat
      /\ pos \in [Threads -> Nat] /\ IInv
      /\ dequeue_pos <= enqueue_pos /\ enqueue_pos - cap <= dequeue_pos
  BY Numbers DEF RingInv
<1>3. pc \in [Threads -> {"idle"} \cup PushPcs \cup DequeuePcs]
  BY DEF RingInv, IInv, TypeOK
<1>4. sequence[CellOf(dequeue_pos)] = dequeue_pos + 1
  BY <1>1, <1>2 DEF IInv, CasJustified
<1>5. /\ \A u \in Threads \ {t} : pc'[u] = pc[u]
      /\ pc'[t] = "deq_data"
  BY <1>1, <1>3
<1>6. ~Owns(t) /\ Reading(t)' /\ Owns(t)' /\ pc[t] \in DequeuePcs
  BY <1>1, <1>5 DEF Owns, Pushing, Reading, DequeuePcs
<1>7. \A u \in Threads \ {t} : Owns(u)' <=> Owns(u)
  BY <1>5 DEF Owns, Pushing, Reading
<1>8. InRing(dequeue_pos) /\ StateOf(dequeue_pos) = "ready"
  <2>1. dequeue_pos < enqueue_pos
    <3>. SUFFICES ASSUME dequeue_pos = enqueue_pos PROVE FALSE
      BY <1>2
    <3>1. enqueue_pos \in enqueue_pos .. (enqueue_pos + cap - 1)
      BY <1>2
    <3>. QED
      BY <1>2, <1>4, <3>1 DEF IInv, Window
  <2>2. InRing(dequeue_pos)
    BY <1>2, <2>1 DEF InRing
  <2>3. StateOf(dequeue_pos) = "ready"
    BY <1>2, <1>4 DEF StateOf
  <2>. QED
    BY <2>2, <2>3
<1>9. ASSUME NEW p \in Nat, InRing(p), p # dequeue_pos
      PROVE  StateOf(p)' = StateOf(p) /\ OwnerOf(p)' = OwnerOf(p)
  <2>1. p >= dequeue_pos' <=> p >= dequeue_pos
    BY <1>1, <1>2, <1>9
  <2>2. CellOf(p)' = CellOf(p)
    BY <1>1 DEF CellOf
  <2>3. StateOf(p)' = StateOf(p)
    BY <1>1, <2>1, StateKept
  <2>4. OwnerOf(p)' = OwnerOf(p)
    BY <1>1, <1>6, <1>7, <1>9, OwnerKept
  <2>. QED
    BY <2>3, <2>4
<1>10. ASSUME NEW p \in Nat, p = dequeue_pos
       PROVE  StateOf(p)' = "reading" /\ OwnerOf(p)' = t
  <2>1. sequence'[CellOf(p)'] = p + 1
    BY <1>1, <1>4, <1>10 DEF CellOf
  <2>2. ~(p >= dequeue_pos')
    BY <1>1, <1>2, <1>10
  <2>3. StateOf(p)' = "reading"
    BY <2>1, <2>2 DEF StateOf
  <2>4. \A u \in Threads : Owns(u)' /\ pos'[u] = p <=> u = t
    <3>1. \A u \in Threads : Owns(u) => pos[u] # dequeue_pos
      BY <1>8, OwnPlace, <1>2 DEF Owns
    <3>. QED
      BY <1>1, <1>2, <1>6, <1>7, <1>10, <3>1
  <2>5. OwnerOf(p)' = t
    <3>. DEFINE B == {u \in Threads : Owns(u)' /\ pos'[u] = p}
    <3>1. B = {t}
      BY <2>4
    <3>2. OwnerOf(p)' = IF B = {} THEN "nobody" ELSE CHOOSE u \in B : TRUE
      BY DEF OwnerOf
    <3>. HIDE DEF B
    <3>. QED
      BY <3>1, <3>2
  <2>. QED
    BY <2>3, <2>5
<1>11. CellsOwned'
  <2>. SUFFICES ASSUME NEW p \in Nat, InRing(p)', StateOf(p)' \in {"claimed", "reading"}
                PROVE  \E u \in Threads : Owns(u)' /\ pos'[u] = p
    BY DEF CellsOwned
  <2>1. CASE p = dequeue_pos
    BY <2>1, <1>1, <1>6
  <2>2. CASE p # dequeue_pos
    <3>1. InRing(p)
      BY <1>1 DEF InRing
    <3>2. PICK u \in Threads : Owns(u) /\ pos[u] = p
      BY <2>2, <3>1, <1>9 DEF RingInv, CellsOwned
    <3>. QED
      BY <3>2, <1>1, <1>6, <1>7
  <2>. QED
    BY <2>1, <2>2
<1>12. CellsFilled'
  BY <1>1 DEF RingInv, CellsFilled, CellOf
<1>13. DataKept'
  BY <1>1, <1>5, DataFrame
<1>. QED
  BY <1>1, <1>6, <1>8, <1>9, <1>10, <1>11, <1>12, <1>13
\* What an owner's last step leaves alone: the other threads, the other cells.
LEMMA GiveUpCells ==
    ASSUME RingInv, NEW t \in Threads, Owns(t), NEW s,
           UNCHANGED <<cap, data, enqueue_pos, dequeue_pos>>,
           sequence' = [sequence EXCEPT ![CellOf(pos[t])] = s],
           Leave(t), \A u \in Threads \ {t} : result'[u] = result[u]
    PROVE  /\ \A p \in Nat : InRing(p) /\ p # pos[t] =>
                 StateOf(p)' = StateOf(p) /\ OwnerOf(p)' = OwnerOf(p)
           /\ \A p \in Nat : p = pos[t] =>
                 sequence'[CellOf(p)'] = s /\ OwnerOf(p)' = "nobody"
           /\ s # pos[t] /\ (s = pos[t] + 1 => dequeue_pos <= pos[t]) => CellsOwned'
           /\ s \in {pos[t] + 1, pos[t] + cap} => CellsFilled'
           /\ DataKept'
<1>1. /\ pc' = [pc EXCEPT ![t] = "idle"] /\ pos' = [pos EXCEPT ![t] = 0]
      /\ arg' = [arg EXCEPT ![t] = NoValue]
  BY DEF Leave, Goto
<1>2. /\ cap \in Nat \ {0, 1} /\ enqueue_pos \in Nat /\ dequeue_pos \in Nat
      /\ pos \in [Threads -> Nat] /\ IInv /\ sequence \in [0 .. (cap - 1) -> Nat]
      /\ dequeue_pos <= enqueue_pos /\ enqueue_pos - cap <= dequeue_pos
  BY Numbers DEF RingInv
<1>3. /\ pc \in [Threads -> {"idle"} \cup PushPcs \cup DequeuePcs]
      /\ arg \in [Threads -> Values]
  BY DEF RingInv, IInv, TypeOK
<1>4. /\ \A u \in Threads \ {t} : pc'[u] = pc[u] /\ pos'[u] = pos[u] /\ arg'[u] = arg[u]
      /\ pc'[t] = "idle"
  BY <1>1, <1>2, <1>3
<1>5. /\ ~Owns(t)'
      /\ \A u \in Threads \ {t} : Owns(u)' <=> Owns(u)
  BY <1>4 DEF Owns, Pushing, Reading
<1>6. pos[t] \in Nat /\ InRing(pos[t]) /\ CellOf(pos[t]) \in 0 .. (cap - 1)
  BY <1>2, OwnPlace
<1>7. \A p \in Nat : InRing(p) /\ p # pos[t] => CellOf(p) # CellOf(pos[t])
  BY <1>2, <1>6, OtherCell
<1>8. \A c \in 0 .. (cap - 1) : c # CellOf(pos[t]) => sequence'[c] = sequence[c]
  BY <1>2
<1>9. sequence'[CellOf(pos[t])] = s
  BY <1>2, <1>6
<1>10. ASSUME NEW p \in Nat, InRing(p), p # pos[t]
       PROVE  StateOf(p)' = StateOf(p) /\ OwnerOf(p)' = OwnerOf(p)
  <2>1. CellOf(p) \in 0 .. (cap - 1)
    BY <1>2, CellFacts
  <2>2. sequence'[CellOf(p)] = sequence[CellOf(p)]
    BY <2>1, <1>7, <1>8, <1>10
  <2>3. StateOf(p)' = StateOf(p)
    BY <2>2, StateKept
  <2>4. OwnerOf(p)' = OwnerOf(p)
    BY <1>4, <1>5, <1>10, OwnerKept
  <2>. QED
    BY <2>3, <2>4
<1>11. ASSUME NEW p \in Nat, p = pos[t]
       PROVE  sequence'[CellOf(p)'] = s /\ OwnerOf(p)' = "nobody"
  <2>1. sequence'[CellOf(p)'] = s
    BY <1>9, <1>11 DEF CellOf
  <2>2. \A u \in Threads : ~(Owns(u)' /\ pos'[u] = p)
    BY <1>2, <1>4, <1>5, <1>11 DEF IInv, OwnersDistinct
  <2>3. OwnerOf(p)' = "nobody"
    BY <2>2 DEF OwnerOf
  <2>. QED
    BY <2>1, <2>3
<1>12. ASSUME s # pos[t], s = pos[t] + 1 => dequeue_pos <= pos[t]
       PROVE  CellsOwned'
  <2>. SUFFICES ASSUME NEW p \in Nat, InRing(p)', StateOf(p)' \in {"claimed", "reading"}
                PROVE  \E u \in Threads : Owns(u)' /\ pos'[u] = p
    BY DEF CellsOwned
  <2>1. InRing(p)
    BY DEF InRing
  <2>2. p # pos[t]
    <3>. SUFFICES ASSUME p = pos[t] PROVE FALSE
      OBVIOUS
    <3>1. sequence'[CellOf(p)'] = s
      BY <1>11
    <3>. QED
      BY <3>1, <1>2, <1>6, <1>12 DEF StateOf
  <2>3. PICK u \in Threads : Owns(u) /\ pos[u] = p
    BY <2>1, <2>2, <1>10 DEF RingInv, CellsOwned
  <2>. QED
    BY <2>2, <2>3, <1>4, <1>5
<1>13. ASSUME s \in {pos[t] + 1, pos[t] + cap} PROVE CellsFilled'
  <2>. SUFFICES ASSUME NEW q \in enqueue_pos .. (enqueue_pos + cap - 1),
                       sequence'[CellOf(q)] = q - cap + 1
                PROVE  q >= cap
    BY <1>2 DEF CellsFilled, CellOf
  <2>0. q \in Nat /\ CellOf(q) \in 0 .. (cap - 1)
    BY <1>2, CellFacts
  <2>1. CASE CellOf(q) # CellOf(pos[t])
    <3>1. sequence[CellOf(q)] = q - cap + 1
      BY <2>0, <2>1, <1>8
    <3>. QED
      BY <3>1 DEF RingInv, CellsFilled
  <2>2. CASE CellOf(q) = CellOf(pos[t])
    <3>1. s = q - cap + 1
      BY <2>2, <1>9
    <3>. QED
      BY <3>1, <1>2, <1>6, <1>13, <2>0
  <2>. QED
    BY <2>1, <2>2
<1>14. DataKept'
  BY <1>4, DataFrame
<1>. QED
  BY <1>10, <1>11, <1>12, <1>13, <1>14

\* The slot t claimed is published.
LEMMA PublishCells ==
    ASSUME RingInv, NEW t \in Threads, PushPublish(t)
    PROVE  /\ UNCHANGED <<cap, data, enqueue_pos, dequeue_pos>>
           /\ Pushing(t) /\ Owns(t) /\ pc[t] \in PushPcs
           /\ \A u \in Threads \ {t} : arg'[u] = arg[u]
           /\ \A p \in Nat : InRing(p) /\ p # pos[t] =>
                 StateOf(p)' = StateOf(p) /\ OwnerOf(p)' = OwnerOf(p)
           /\ \A p \in Nat : p = pos[t] =>
                 StateOf(p)' = "ready" /\ OwnerOf(p)' = "nobody"
           /\ data[CellOf(pos[t])] = arg[t]
           /\ CellsOwned' /\ CellsFilled' /\ DataKept'
<1>1. /\ pc[t] = "push_publish" /\ Leave(t) /\ UNCHANGED <<cap, data, enqueue_pos, dequeue_pos>>
      /\ sequence' = [sequence EXCEPT ![CellOf(pos[t])] = pos[t] + 1]
      /\ result' = [result EXCEPT ![t] = "pushed"]
  BY DEF PushPublish, Return
<1>2. /\ arg \in [Threads -> Values] /\ result \in [Threads -> Results]
  BY DEF RingInv, IInv, TypeOK
<1>3. \A u \in Threads \ {t} : arg'[u] = arg[u] /\ result'[u] = result[u]
  BY <1>1, <1>2 DEF Leave
<1>4. Pushing(t) /\ Owns(t) /\ pc[t] \in PushPcs
  BY <1>1 DEF Pushing, Owns, PushPcs
<1>5. /\ pos[t] \in Nat /\ dequeue_pos <= pos[t]
      /\ dequeue_pos \in Nat
  BY <1>4, Numbers, OwnPlace, StateFacts DEF RingInv
<1>. DEFINE s == pos[t] + 1
<1>6. s # pos[t] /\ s \in {pos[t] + 1, pos[t] + cap} /\ (s = pos[t] + 1 => dequeue_pos <= pos[t])
  BY <1>5
<1>7. sequence' = [sequence EXCEPT ![CellOf(pos[t])] = s]
  BY <1>1
<1>. HIDE DEF s
<1>8. /\ \A p \in Nat : InRing(p) /\ p # pos[t] =>
            StateOf(p)' = StateOf(p) /\ OwnerOf(p)' = OwnerOf(p)
      /\ \A p \in Nat : p = pos[t] =>
            sequence'[CellOf(p)'] = s /\ OwnerOf(p)' = "nobody"
      /\ CellsOwned' /\ CellsFilled' /\ DataKept'
  BY <1>1, <1>3, <1>4, <1>6, <1>7, GiveUpCells
<1>9. \A p \in Nat : p = pos[t] => StateOf(p)' = "ready"
  BY <1>1, <1>5, <1>8 DEF StateOf, s
<1>10. data[CellOf(pos[t])] = arg[t]
  BY <1>1 DEF RingInv, DataKept
<1>. QED
  BY <1>1, <1>3, <1>4, <1>8, <1>9, <1>10

\* The slot t was reading goes back into circulation.
LEMMA ReleaseCells ==
    ASSUME RingInv, NEW t \in Threads, DequeueRelease(t)
    PROVE  /\ UNCHANGED <<cap, data, enqueue_pos, dequeue_pos, result>>
           /\ Reading(t) /\ Owns(t) /\ pc[t] \in DequeuePcs
           /\ \A u \in Threads \ {t} : arg'[u] = arg[u]
           /\ \A p \in Nat : InRing(p) /\ p # pos[t] =>
                 StateOf(p)' = StateOf(p) /\ OwnerOf(p)' = OwnerOf(p)
           /\ \A p \in Nat : p = pos[t] =>
                 StateOf(p)' = "free" /\ OwnerOf(p)' = "nobody"
           /\ data[CellOf(pos[t])] = result[t]
           /\ CellsOwned' /\ CellsFilled' /\ DataKept'
<1>1. /\ pc[t] = "deq_release" /\ Leave(t)
      /\ UNCHANGED <<cap, data, enqueue_pos, dequeue_pos, result>>
      /\ sequence' = [sequence EXCEPT ![CellOf(pos[t])] = pos[t] + cap]
  BY DEF DequeueRelease
<1>2. arg \in [Threads -> Values]
  BY DEF RingInv, IInv, TypeOK
<1>3. \A u \in Threads \ {t} : arg'[u] = arg[u] /\ result'[u] = result[u]
  BY <1>1, <1>2 DEF Leave
<1>4. Reading(t) /\ Owns(t) /\ pc[t] \in DequeuePcs
  BY <1>1 DEF Reading, Owns, DequeuePcs
<1>5. pos[t] \in Nat /\ cap \in Nat \ {0, 1}
  BY <1>4, Numbers, OwnPlace DEF RingInv
<1>. DEFINE s == pos[t] + cap
<1>6. s # pos[t] /\ s # pos[t] + 1 /\ s \in {pos[t] + 1, pos[t] + cap}
  BY <1>5
<1>7. sequence' = [sequence EXCEPT ![CellOf(pos[t])] = s]
  BY <1>1
<1>. HIDE DEF s
<1>8. /\ \A p \in Nat : InRing(p) /\ p # pos[t] =>
            StateOf(p)' = StateOf(p) /\ OwnerOf(p)' = OwnerOf(p)
      /\ \A p \in Nat : p = pos[t] =>
            sequence'[CellOf(p)'] = s /\ OwnerOf(p)' = "nobody"
      /\ CellsOwned' /\ CellsFilled' /\ DataKept'
  BY <1>1, <1>3, <1>4, <1>6, <1>7, GiveUpCells
<1>9. \A p \in Nat : p = pos[t] => StateOf(p)' = "free"
  BY <1>6, <1>8 DEF StateOf
<1>10. data[CellOf(pos[t])] = result[t]
  BY <1>1 DEF RingInv, DataKept
<1>. QED
  BY <1>1, <1>3, <1>4, <1>8, <1>9, <1>10

\* A ring just made: every cell waits for its own index.
LEMMA FreshCells ==
    ASSUME NEW c \in Nat \ {0, 1}
    PROVE  \A q \in 0 .. (c - 1) :
              [x \in 0 .. (c - 1) |-> x][q % c] # q - c + 1 \/ q >= c
<1>. SUFFICES ASSUME NEW q \in 0 .. (c - 1)
              PROVE  [x \in 0 .. (c - 1) |-> x][q % c] # q - c + 1
  OBVIOUS
<1>1. q % c = q
  BY ModSmall
<1>2. q # q - c + 1
  OBVIOUS
<1>. QED
  BY <1>1, <1>2

LEMMA InitRingInv == Init => RingInv
<1>. SUFFICES ASSUME Init PROVE RingInv
  OBVIOUS
<1>1. IInv
  BY InitIInv
<1>2. cap \in Nat \ {0, 1} /\ enqueue_pos = 0
  BY <1>1, Numbers DEF Init
<1>3. CellsOwned
  BY <1>2 DEF CellsOwned, InRing
<1>4. CellsFilled
  <2>1. \A q \in 0 .. (cap - 1) : sequence[CellOf(q)] # q - cap + 1 \/ q >= cap
    BY <1>2, FreshCells DEF Init, CellOf
  <2>2. enqueue_pos .. (enqueue_pos + cap - 1) = 0 .. (cap - 1)
    BY <1>2
  <2>. QED
    BY <2>1, <2>2 DEF CellsFilled
<1>5. DataKept
  BY DEF Init, DataKept
<1>. QED
  BY <1>1, <1>3, <1>4, <1>5 DEF RingInv

LEMMA ReserveCells ==
    ASSUME RingInv, NEW sz \in Sizes, Reserve(sz)
    PROVE  CellsOwned' /\ CellsFilled' /\ DataKept'
<1>1. cap' \in Nat \ {0, 1}
  BY PowerOfTwoSizeType, SizesAssumption DEF Reserve
<1>2. /\ sequence' = [c \in 0 .. (cap' - 1) |-> c] /\ enqueue_pos' = 0
      /\ UNCHANGED <<pc, pos, arg, result>> /\ \A t \in Threads : pc[t] = "idle"
  BY DEF Reserve
<1>3. CellsOwned'
  <2>1. \A p \in Nat : ~ (p < 0)
    OBVIOUS
  <2>. QED
    BY <1>2, <2>1 DEF CellsOwned, InRing
<1>4. CellsFilled'
  <2>1. \A q \in 0 .. (cap' - 1) : sequence'[q % cap'] # q - cap' + 1 \/ q >= cap'
    BY <1>1, <1>2, FreshCells
  <2>2. enqueue_pos' .. (enqueue_pos' + cap' - 1) = 0 .. (cap' - 1)
    BY <1>1, <1>2
  <2>. QED
    BY <2>1, <2>2 DEF CellsFilled, CellOf
<1>5. DataKept'
  BY <1>2 DEF DataKept
<1>. QED
  BY <1>3, <1>4, <1>5

LEMMA RingInvInductive == RingInv /\ [Next]_vars => RingInv'
<1>. SUFFICES ASSUME RingInv, [Next]_vars PROVE RingInv'
  OBVIOUS
<1>1. IInv'
  BY IInvInductive DEF RingInv
<1>2. ASSUME NEW t \in Threads,
             \/ \E v \in Values : PushCall(t, v)
             \/ DequeueCall(t) \/ PushStep(t) \/ DequeueStep(t)
      PROVE  CellsOwned' /\ CellsFilled' /\ DataKept'
  <2>1. CASE PushCas(t) /\ enqueue_pos = pos[t]
    BY <2>1, ClaimCells
  <2>2. CASE DequeueCas(t) /\ dequeue_pos = pos[t]
    BY <2>2, TakeCells
  <2>3. CASE PushPublish(t)
    BY <2>3, PublishCells
  <2>4. CASE DequeueRelease(t)
    BY <2>4, ReleaseCells
  <2>5. CASE PushWriteData(t)
    BY <2>5, WriteFrame, FrameKeepsCells
  <2>6. CASE DequeueReadData(t)
    BY <2>6, ReadFrame, FrameKeepsCells
  <2>7. CASE \/ \E v \in Values : PushCall(t, v)
             \/ DequeueCall(t)
             \/ PushReadSequence(t) \/ PushReload(t)
             \/ DequeueReadSequence(t) \/ DequeueReload(t)
             \/ PushCas(t) /\ enqueue_pos # pos[t]
             \/ DequeueCas(t) /\ dequeue_pos # pos[t]
    BY <2>7, FrameActions, FrameKeepsCells
  <2>. QED
    BY <1>2, <2>1, <2>2, <2>3, <2>4, <2>5, <2>6, <2>7 DEF PushStep, DequeueStep
<1>3. ASSUME NEW sz \in Sizes, Reserve(sz) PROVE CellsOwned' /\ CellsFilled' /\ DataKept'
  BY <1>3, ReserveCells
<1>4. CASE UNCHANGED vars
  <2>1. Frame
    BY <1>4 DEF vars, Frame, Pushing, Reading
  <2>2. DataKept'
    BY <1>4 DEF vars, RingInv, DataKept, CellOf
  <2>. QED
    BY <2>1, <2>2, <1>1, FrameKeepsCells DEF RingInv
<1>. QED
  BY <1>1, <1>2, <1>3, <1>4 DEF Next, RingInv
---------------------------------------------------------------------------
\* The slot of a position, and SlotsBar as the sequence of them.
SlotAt(p) ==
    [val |-> IF StateOf(p) = "claimed" THEN arg[OwnerOf(p)] ELSE data[CellOf(p)],
     st  |-> StateOf(p),
     who |-> OwnerOf(p)]

LEMMA SlotType ==
    ASSUME RingInv, NEW p \in Nat, InRing(p)
    PROVE  SlotAt(p) \in Slot(Threads, Values)
<1>1. /\ arg \in [Threads -> Values] /\ data \in [0 .. (cap - 1) -> Values] /\ IInv
      /\ cap \in Nat \ {0, 1}
  BY Numbers DEF RingInv, IInv, TypeOK
<1>2. CellOf(p) \in 0 .. (cap - 1)
  BY <1>1, CellFacts
<1>3. StateOf(p) = "claimed" => OwnerOf(p) \in Threads
  <2>1. StateOf(p) = "claimed" => \E t \in Threads : Owns(t) /\ pos[t] = p
    BY DEF RingInv, CellsOwned
  <2>2. \A t \in Threads : Owns(t) => OwnerOf(pos[t]) = t
    BY <1>1, OwnerFacts
  <2>. QED
    BY <2>1, <2>2
<1>4. OwnerOf(p) \in Threads \cup {"nobody"}
  BY <1>1, OwnerFacts
<1>5. StateOf(p) \in SlotStates
  BY <1>1, StateFacts
<1>6. IF StateOf(p) = "claimed" THEN arg[OwnerOf(p)] \in Values ELSE data[CellOf(p)] \in Values
  BY <1>1, <1>2, <1>3
<1>. QED
  BY <1>4, <1>5, <1>6 DEF SlotAt, Slot

LEMMA SlotKept ==
    ASSUME RingInv, NEW p \in Nat, InRing(p),
           StateOf(p)' = StateOf(p), OwnerOf(p)' = OwnerOf(p), UNCHANGED cap,
           StateOf(p) = "claimed" \/ data'[CellOf(p)] = data[CellOf(p)],
           \A u \in Threads : Pushing(u) /\ pos[u] = p => arg'[u] = arg[u]
    PROVE  SlotAt(p)' = SlotAt(p)
<1>1. IInv
  BY DEF RingInv
<1>2. CellOf(p)' = CellOf(p)
  BY DEF CellOf
<1>3. CASE StateOf(p) = "claimed"
  <2>1. PICK u \in Threads : Owns(u) /\ pos[u] = p
    BY <1>3 DEF RingInv, CellsOwned
  <2>2. OwnerOf(p) = u
    BY <1>1, <2>1, OwnerFacts
  <2>3. Pushing(u)
    BY <1>1, <1>3, <2>1, OwnPlace DEF Owns
  <2>4. arg'[OwnerOf(p)'] = arg[OwnerOf(p)]
    BY <2>1, <2>2, <2>3
  <2>. QED
    BY <1>3, <2>4 DEF SlotAt
<1>4. CASE StateOf(p) # "claimed"
  BY <1>2, <1>4 DEF SlotAt
<1>. QED
  BY <1>3, <1>4

\* o is the oldest position and n the number of slots.
BarShaped ==
    \A o, n \in Nat : Oldest = o /\ enqueue_pos = o + n =>
        /\ SlotsBar \in [1 .. n -> Slot(Threads, Values)]
        /\ \A i \in 1 .. n : \A p \in Nat : p = o + i - 1 =>
              InRing(p) /\ SlotsBar[i] = SlotAt(p)

OldestPlaced ==
    /\ Oldest \in Nat /\ Oldest <= enqueue_pos
    /\ enqueue_pos - cap <= Oldest
    /\ \A p \in Nat : p = Oldest /\ p < enqueue_pos => StateOf(p) # "free"
    /\ \A p \in Nat : InRing(p) /\ p < Oldest => StateOf(p) = "free"

OldestOnly ==
    \A o \in Nat :
        /\ o <= enqueue_pos /\ enqueue_pos - cap <= o
        /\ o < enqueue_pos => StateOf(o) # "free"
        /\ \A p \in Nat : InRing(p) /\ p < o => StateOf(p) = "free"
        => Oldest = o

LEMMA BarShape == RingInv => BarShaped
<1>. SUFFICES ASSUME RingInv, NEW o \in Nat, NEW n \in Nat, Oldest = o, enqueue_pos = o + n
              PROVE  /\ SlotsBar \in [1 .. n -> Slot(Threads, Values)]
                     /\ \A i \in 1 .. n : \A p \in Nat : p = o + i - 1 =>
                           InRing(p) /\ SlotsBar[i] = SlotAt(p)
  BY DEF BarShaped
<1>1. IInv /\ cap \in Nat \ {0, 1} /\ enqueue_pos - cap <= o
  BY Numbers, OldestFacts DEF RingInv
<1>2. enqueue_pos - Oldest = n
  OBVIOUS
<1>3. SlotsBar = [i \in 1 .. n |-> SlotAt(o + i - 1)]
  BY <1>2 DEF SlotsBar, SlotAt
<1>4. \A i \in 1 .. n : o + i - 1 \in Nat /\ InRing(o + i - 1)
  BY <1>1 DEF InRing
<1>5. \A i \in 1 .. n : SlotAt(o + i - 1) \in Slot(Threads, Values)
  BY <1>4, SlotType
<1>. QED
  BY <1>3, <1>4, <1>5

LEMMA BarExists ==
    ASSUME IInv
    PROVE  \E o, n \in Nat : Oldest = o /\ enqueue_pos = o + n /\ n <= cap
<1>1. /\ Oldest \in Nat /\ Oldest <= enqueue_pos /\ enqueue_pos \in Nat
      /\ enqueue_pos - cap <= Oldest /\ cap \in Nat
  BY OldestFacts, Numbers
<1>2. enqueue_pos - Oldest \in Nat /\ enqueue_pos = Oldest + (enqueue_pos - Oldest)
      /\ enqueue_pos - Oldest <= cap
  BY <1>1
<1>. QED
  BY <1>1, <1>2

LEMMA OldestPlace == IInv => OldestPlaced
  BY OldestFacts DEF OldestPlaced

LEMMA OldestUnique == IInv => OldestOnly
  BY OldestIs DEF OldestOnly

\* The same facts of the state after a step.
LEMMA BarShapeNext == RingInv' => BarShaped'
  BY BarShape, PTL

LEMMA OldestPlaceNext == IInv' => OldestPlaced'
  BY OldestPlace, PTL

LEMMA OldestUniqueNext == IInv' => OldestOnly'
  BY OldestUnique, PTL

\* The slots after a step that leaves the oldest position where it is.
LEMMA SameSlots ==
    ASSUME RingInv, RingInv', UNCHANGED <<cap, enqueue_pos>>,
           \A p \in Nat : InRing(p) => StateOf(p)' = StateOf(p) /\ SlotAt(p)' = SlotAt(p)
    PROVE  SlotsBar' = SlotsBar
<1>1. IInv /\ IInv'
  BY DEF RingInv
<1>2. PICK o \in Nat, n \in Nat : Oldest = o /\ enqueue_pos = o + n /\ n <= cap
  BY <1>1, BarExists
<1>3. /\ o <= enqueue_pos /\ enqueue_pos - cap <= o
      /\ o < enqueue_pos => StateOf(o) # "free"
      /\ \A p \in Nat : InRing(p) /\ p < o => StateOf(p) = "free"
  BY <1>1, <1>2, OldestFacts
<1>4. \A p \in Nat : InRing(p)' <=> InRing(p)
  BY DEF InRing
<1>5. Oldest' = o
  <2>1. o < enqueue_pos => InRing(o)
    BY <1>3 DEF InRing
  <2>2. o < enqueue_pos' => StateOf(o)' # "free"
    BY <1>3, <2>1
  <2>3. \A p \in Nat : InRing(p)' /\ p < o => StateOf(p)' = "free"
    BY <1>3, <1>4
  <2>. QED
    BY <1>1, <1>3, <2>2, <2>3, OldestUniqueNext DEF OldestOnly
<1>6. /\ SlotsBar \in [1 .. n -> Slot(Threads, Values)]
      /\ \A i \in 1 .. n : \A p \in Nat : p = o + i - 1 =>
            InRing(p) /\ SlotsBar[i] = SlotAt(p)
  BY <1>2, BarShape DEF BarShaped
<1>7. /\ SlotsBar' \in [1 .. n -> Slot(Threads, Values)]
      /\ \A i \in 1 .. n : \A p \in Nat : p = o + i - 1 =>
            InRing(p)' /\ SlotsBar'[i] = SlotAt(p)'
  BY <1>2, <1>5, BarShapeNext DEF BarShaped
<1>8. ASSUME NEW i \in 1 .. n PROVE SlotsBar'[i] = SlotsBar[i]
  <2>1. PICK p \in Nat : p = o + i - 1
    OBVIOUS
  <2>. QED
    BY <2>1, <1>6, <1>7
<1>. QED
  BY <1>6, <1>7, <1>8

LEMMA FrameSlots ==
    ASSUME RingInv, RingInv', Frame,
           \A p \in Nat : InRing(p) => StateOf(p) = "claimed" \/ data'[CellOf(p)] = data[CellOf(p)]
    PROVE  SlotsBar' = SlotsBar
<1>1. UNCHANGED <<cap, sequence, enqueue_pos, dequeue_pos>>
  BY DEF Frame
<1>2. ASSUME NEW p \in Nat, InRing(p)
      PROVE  StateOf(p)' = StateOf(p) /\ SlotAt(p)' = SlotAt(p)
  <2>1. StateOf(p)' = StateOf(p)
    BY <1>1, StateKept
  <2>2. OwnerOf(p)' = OwnerOf(p)
    BY OwnerKept DEF Frame, Owns
  <2>3. \A u \in Threads : Pushing(u) /\ pos[u] = p => arg'[u] = arg[u]
    BY DEF Frame
  <2>. QED
    BY <1>1, <1>2, <2>1, <2>2, <2>3, SlotKept
<1>. QED
  BY <1>1, <1>2, SameSlots
---------------------------------------------------------------------------
\* Sequences given as functions on 1 .. n.
LEMMA FunctionSeq ==
    ASSUME NEW S, NEW n \in Nat, NEW s \in [1 .. n -> S]
    PROVE  s \in Seq(S) /\ Len(s) = n /\ DOMAIN s = 1 .. n
<1>1. s \in Seq(S)
  OBVIOUS
<1>. QED
  BY <1>1, LenProperties

\* The slots of owners and of the head.
LEMMA HoldsOnlyOwned ==
    ASSUME RingInv, NEW t \in Threads, ~Owns(t)
    PROVE  ~Queue!Holds(SlotsBar, t)
<1>1. IInv
  BY DEF RingInv
<1>2. PICK o \in Nat, n \in Nat : Oldest = o /\ enqueue_pos = o + n /\ n <= cap
  BY <1>1, BarExists
<1>3. /\ SlotsBar \in [1 .. n -> Slot(Threads, Values)]
      /\ \A i \in 1 .. n : \A p \in Nat : p = o + i - 1 =>
            InRing(p) /\ SlotsBar[i] = SlotAt(p)
  BY <1>2, BarShape DEF BarShaped
<1>4. ASSUME NEW i \in 1 .. n PROVE SlotsBar[i].who # t
  <2>1. PICK p \in Nat : p = o + i - 1
    OBVIOUS
  <2>2. SlotsBar[i].who = OwnerOf(p)
    BY <2>1, <1>3 DEF SlotAt
  <2>. QED
    BY <2>2, <1>1, OwnerFacts, ThreadsAssumption
<1>. QED
  BY <1>3, <1>4 DEF Queue!Holds

LEMMA OwnedIndex ==
    ASSUME RingInv, NEW t \in Threads, Owns(t)
    PROVE  /\ Queue!Holds(SlotsBar, t)
           /\ \A i \in Nat : i = pos[t] - Oldest + 1 =>
                 i \in DOMAIN SlotsBar /\ Queue!OwnIndex(SlotsBar, t) = i
<1>1. IInv
  BY DEF RingInv
<1>2. PICK o \in Nat, n \in Nat : Oldest = o /\ enqueue_pos = o + n /\ n <= cap
  BY <1>1, BarExists
<1>3. /\ SlotsBar \in [1 .. n -> Slot(Threads, Values)]
      /\ \A i \in 1 .. n : \A p \in Nat : p = o + i - 1 =>
            InRing(p) /\ SlotsBar[i] = SlotAt(p)
  BY <1>2, BarShape DEF BarShaped
<1>4. pos[t] \in Nat /\ pos[t] < enqueue_pos /\ o <= pos[t]
  BY <1>1, <1>2, OwnPlace DEF InRing
<1>5. PICK k \in 1 .. n : k = pos[t] - o + 1
  BY <1>2, <1>4
<1>6. ASSUME NEW i \in 1 .. n PROVE SlotsBar[i].who = t <=> i = k
  <2>1. PICK p \in Nat : p = o + i - 1
    OBVIOUS
  <2>2. SlotsBar[i].who = OwnerOf(p)
    BY <2>1, <1>3 DEF SlotAt
  <2>3. OwnerOf(p) = t <=> p = pos[t]
    BY <1>1, OwnerFacts, ThreadsAssumption
  <2>. QED
    BY <2>1, <2>2, <2>3, <1>4, <1>5
<1>7. DOMAIN SlotsBar = 1 .. n
  BY <1>3
<1>8. Queue!OwnIndex(SlotsBar, t) = k
  BY <1>6, <1>7 DEF Queue!OwnIndex
<1>. QED
  BY <1>2, <1>5, <1>6, <1>7, <1>8 DEF Queue!Holds

\* The head is the slot of dequeue_pos.
LEMMA HeadPlace ==
    ASSUME RingInv, dequeue_pos < enqueue_pos
    PROVE  InRing(dequeue_pos) /\ Oldest <= dequeue_pos
<1>1. /\ cap \in Nat \ {0, 1} /\ enqueue_pos \in Nat /\ dequeue_pos \in Nat
      /\ enqueue_pos - cap <= dequeue_pos /\ IInv
  BY Numbers DEF RingInv
<1>2. InRing(dequeue_pos)
  BY <1>1 DEF InRing
<1>3. StateOf(dequeue_pos) # "free"
  BY <1>1, <1>2, StateFacts
<1>. QED
  BY <1>1, <1>2, <1>3, OldestFacts

LEMMA HeadReadyIs ==
    ASSUME RingInv
    PROVE  /\ Queue!HeadReady(SlotsBar) =>
                 dequeue_pos < enqueue_pos /\ StateOf(dequeue_pos) = "ready"
           /\ dequeue_pos < enqueue_pos /\ StateOf(dequeue_pos) = "ready" =>
                 /\ Queue!HeadReady(SlotsBar)
                 /\ \A i \in Nat : i = dequeue_pos - Oldest + 1 =>
                       i \in DOMAIN SlotsBar /\ Queue!HeadIndex(SlotsBar) = i
<1>1. /\ IInv /\ enqueue_pos \in Nat /\ dequeue_pos \in Nat /\ dequeue_pos <= enqueue_pos
  BY Numbers DEF RingInv
<1>2. PICK o \in Nat, n \in Nat : Oldest = o /\ enqueue_pos = o + n /\ n <= cap
  BY <1>1, BarExists
<1>3. /\ SlotsBar \in [1 .. n -> Slot(Threads, Values)]
      /\ \A i \in 1 .. n : \A p \in Nat : p = o + i - 1 =>
            InRing(p) /\ SlotsBar[i] = SlotAt(p)
  BY <1>2, BarShape DEF BarShaped
<1>4. DOMAIN SlotsBar = 1 .. n
  BY <1>3
<1>5. ASSUME NEW i \in 1 .. n
      PROVE  /\ SlotsBar[i].st \in SlotStates
             /\ SlotsBar[i].st \in {"claimed", "ready"} => dequeue_pos <= o + i - 1
             /\ SlotsBar[i].st \in {"reading", "free"} => o + i - 1 < dequeue_pos
             /\ \A p \in Nat : p = o + i - 1 => SlotsBar[i].st = StateOf(p)
  <2>1. PICK p \in Nat : p = o + i - 1
    OBVIOUS
  <2>2. SlotsBar[i].st = StateOf(p) /\ InRing(p)
    BY <2>1, <1>3 DEF SlotAt
  <2>3. /\ StateOf(p) \in SlotStates
        /\ StateOf(p) \in {"claimed", "ready"} => dequeue_pos <= p
        /\ StateOf(p) \in {"reading", "free"} => p < dequeue_pos
    BY <2>2, <1>1, StateFacts
  <2>. QED
    BY <2>1, <2>2, <2>3
\* A slot with nothing but reading and free ones before it is not past the head.
<1>6. ASSUME NEW i \in 1 .. n, \A j \in 1 .. (i - 1) : SlotsBar[j].st \in {"reading", "free"}
      PROVE  o + i - 1 <= dequeue_pos \/ i = 1
  <2>. SUFFICES ASSUME i # 1 PROVE o + i - 1 <= dequeue_pos
    OBVIOUS
  <2>1. PICK j \in 1 .. n : j = i - 1
    OBVIOUS
  <2>2. SlotsBar[j].st \in {"reading", "free"}
    BY <2>1, <1>6
  <2>3. o + j - 1 < dequeue_pos
    BY <2>2, <1>5
  <2>. QED
    BY <2>1, <2>3, <1>1
<1>7. dequeue_pos < enqueue_pos => o <= dequeue_pos
  BY <1>2, HeadPlace
<1>8. n >= 1 => o <= dequeue_pos
  BY <1>1, <1>2, <1>7
<1>9. ASSUME NEW i \in 1 .. n, SlotsBar[i].st \in {"claimed", "ready"},
             \A j \in 1 .. (i - 1) : SlotsBar[j].st \in {"reading", "free"}
      PROVE  o + i - 1 = dequeue_pos
  <2>1. dequeue_pos <= o + i - 1
    BY <1>5, <1>9
  <2>2. o + i - 1 <= dequeue_pos
    BY <1>6, <1>8, <1>9
  <2>. QED
    BY <2>1, <2>2, <1>1
<1>10. ASSUME Queue!HeadReady(SlotsBar)
       PROVE  dequeue_pos < enqueue_pos /\ StateOf(dequeue_pos) = "ready"
  <2>1. PICK i \in 1 .. n : /\ SlotsBar[i].st = "ready"
                            /\ \A j \in 1 .. (i - 1) : SlotsBar[j].st \in {"reading", "free"}
    BY <1>4, <1>10 DEF Queue!HeadReady
  <2>2. o + i - 1 = dequeue_pos
    BY <2>1, <1>9
  <2>. QED
    BY <2>1, <2>2, <1>1, <1>2, <1>5
<1>11. ASSUME dequeue_pos < enqueue_pos, StateOf(dequeue_pos) = "ready"
       PROVE  /\ Queue!HeadReady(SlotsBar)
              /\ \A i \in Nat : i = dequeue_pos - Oldest + 1 =>
                    i \in DOMAIN SlotsBar /\ Queue!HeadIndex(SlotsBar) = i
  <2>1. PICK k \in 1 .. n : k = dequeue_pos - o + 1
    BY <1>1, <1>2, <1>7, <1>11
  <2>2. SlotsBar[k].st = "ready"
    <3>1. dequeue_pos = o + k - 1
      BY <2>1, <1>1
    <3>. QED
      BY <3>1, <1>1, <1>5, <1>11
  <2>3. \A j \in 1 .. (k - 1) : SlotsBar[j].st \in {"reading", "free"}
    <3>. SUFFICES ASSUME NEW j \in 1 .. (k - 1) PROVE SlotsBar[j].st \in {"reading", "free"}
      OBVIOUS
    <3>1. j \in 1 .. n /\ o + j - 1 < dequeue_pos
      BY <2>1, <1>1
    <3>. QED
      BY <3>1, <1>1, <1>5 DEF SlotStates
  <2>4. Queue!HeadReady(SlotsBar)
    BY <1>4, <2>2, <2>3 DEF Queue!HeadReady
  <2>5. \A i \in 1 .. n :
           /\ SlotsBar[i].st \in {"claimed", "ready"}
           /\ \A j \in 1 .. (i - 1) : SlotsBar[j].st \in {"reading", "free"}
           <=> i = k
    <3>1. \A i \in 1 .. n : o + i - 1 = dequeue_pos => i = k
      BY <2>1, <1>1
    <3>. QED
      BY <3>1, <2>2, <2>3, <1>9
  <2>6. Queue!HeadIndex(SlotsBar) = k
    <3>1. Queue!HeadIndex(SlotsBar) =
             CHOOSE i \in 1 .. n :
                 /\ SlotsBar[i].st \in {"claimed", "ready"}
                 /\ \A j \in 1 .. (i - 1) : SlotsBar[j].st \in {"reading", "free"}
      BY <1>4 DEF Queue!HeadIndex
    <3>. QED
      BY <3>1, <2>5
  <2>. QED
    BY <2>1, <2>4, <2>6, <1>2, <1>4
<1>. QED
  BY <1>10, <1>11
---------------------------------------------------------------------------
\* How the four steps change the slots.
LEMMA PassIs ==
    ASSUME NEW n \in Nat, NEW s \in [1 .. n -> Slot(Threads, Values)],
           NEW k \in 1 .. n, NEW st \in SlotStates, NEW who \in Threads \cup {"nobody"}
    PROVE  /\ Queue!Pass(s, k, st, who) \in [1 .. n -> Slot(Threads, Values)]
           /\ \A i \in 1 .. n : i # k => Queue!Pass(s, k, st, who)[i] = s[i]
           /\ Queue!Pass(s, k, st, who)[k] = [val |-> s[k].val, st |-> st, who |-> who]
<1>. DEFINE e == [val |-> s[k].val, st |-> st, who |-> who]
<1>1. Queue!Pass(s, k, st, who) = [s EXCEPT ![k] = e]
  BY DEF Queue!Pass
<1>2. e \in Slot(Threads, Values)
  <2>1. s[k].val \in Values
    BY DEF Slot
  <2>. QED
    BY <2>1 DEF Slot
<1>. HIDE DEF e
<1>3. /\ [s EXCEPT ![k] = e] \in [1 .. n -> Slot(Threads, Values)]
      /\ \A i \in 1 .. n : i # k => [s EXCEPT ![k] = e][i] = s[i]
      /\ [s EXCEPT ![k] = e][k] = e
  BY <1>2
<1>. QED
  BY <1>1, <1>3 DEF e

\* One slot, that of position q, changes its state and its thread.
LEMMA PassSlots ==
    ASSUME RingInv, RingInv', UNCHANGED <<cap, enqueue_pos>>,
           NEW q \in Nat, InRing(q), Oldest <= q,
           NEW st \in SlotStates, NEW who \in Threads \cup {"nobody"}, st # "free",
           \A p \in Nat : InRing(p) /\ p # q =>
               StateOf(p)' = StateOf(p) /\ SlotAt(p)' = SlotAt(p),
           StateOf(q)' = st,
           SlotAt(q)' = [val |-> SlotAt(q).val, st |-> st, who |-> who],
           NEW k \in Nat, k = q - Oldest + 1
    PROVE  SlotsBar' = Queue!Pass(SlotsBar, k, st, who)
<1>1. IInv /\ IInv'
  BY DEF RingInv
<1>2. PICK o \in Nat, n \in Nat : Oldest = o /\ enqueue_pos = o + n /\ n <= cap
  BY <1>1, BarExists
<1>3. /\ o <= enqueue_pos /\ enqueue_pos - cap <= o
      /\ o < enqueue_pos => StateOf(o) # "free"
      /\ \A p \in Nat : InRing(p) /\ p < o => StateOf(p) = "free"
  BY <1>1, <1>2, OldestFacts
<1>4. \A p \in Nat : InRing(p)' <=> InRing(p)
  BY DEF InRing
<1>5. Oldest' = o
  <2>1. o < enqueue_pos => InRing(o)
    BY <1>3 DEF InRing
  <2>2. o < enqueue_pos' => StateOf(o)' # "free"
    <3>1. CASE o = q
      <4>1. StateOf(o)' = st
        BY <3>1
      <4>. QED
        BY <4>1
    <3>2. CASE o # q
      BY <1>3, <2>1, <3>2
    <3>. QED
      BY <3>1, <3>2
  <2>3. \A p \in Nat : InRing(p)' /\ p < o => StateOf(p)' = "free"
    BY <1>2, <1>3, <1>4
  <2>. QED
    BY <1>1, <1>3, <2>2, <2>3, OldestUniqueNext DEF OldestOnly
<1>6. /\ SlotsBar \in [1 .. n -> Slot(Threads, Values)]
      /\ \A i \in 1 .. n : \A p \in Nat : p = o + i - 1 =>
            InRing(p) /\ SlotsBar[i] = SlotAt(p)
  BY <1>2, BarShape DEF BarShaped
<1>7. /\ SlotsBar' \in [1 .. n -> Slot(Threads, Values)]
      /\ \A i \in 1 .. n : \A p \in Nat : p = o + i - 1 =>
            InRing(p)' /\ SlotsBar'[i] = SlotAt(p)'
  BY <1>2, <1>5, BarShapeNext DEF BarShaped
<1>8. k \in 1 .. n /\ q = o + k - 1
  BY <1>2 DEF InRing
<1>9. /\ Queue!Pass(SlotsBar, k, st, who) \in [1 .. n -> Slot(Threads, Values)]
      /\ \A i \in 1 .. n : i # k => Queue!Pass(SlotsBar, k, st, who)[i] = SlotsBar[i]
      /\ Queue!Pass(SlotsBar, k, st, who)[k] = [val |-> SlotsBar[k].val, st |-> st, who |-> who]
  BY <1>6, <1>8, PassIs
<1>10. SlotsBar'[k] = Queue!Pass(SlotsBar, k, st, who)[k]
  <2>1. SlotsBar'[k] = SlotAt(q)' /\ SlotsBar[k] = SlotAt(q)
    BY <1>6, <1>7, <1>8
  <2>. QED
    BY <2>1, <1>9
<1>11. ASSUME NEW i \in 1 .. n, i # k
       PROVE  SlotsBar'[i] = Queue!Pass(SlotsBar, k, st, who)[i]
  <2>1. PICK p \in Nat : p = o + i - 1
    OBVIOUS
  <2>2. p # q
    BY <1>8, <1>11, <2>1
  <2>3. SlotsBar'[i] = SlotAt(p)' /\ SlotsBar[i] = SlotAt(p) /\ InRing(p)
    BY <1>6, <1>7, <2>1
  <2>. QED
    BY <1>9, <1>11, <2>2, <2>3
<1>12. \A i \in 1 .. n : SlotsBar'[i] = Queue!Pass(SlotsBar, k, st, who)[i]
  BY <1>10, <1>11
<1>. HIDE DEF Queue!Pass
<1>. QED
  BY <1>7, <1>9, <1>12

LEMMA ClaimSlots ==
    ASSUME RingInv, RingInv', NEW t \in Threads, PushCas(t), enqueue_pos = pos[t]
    PROVE  /\ SlotsBar' = Queue!Claim(SlotsBar, arg[t], t)
           /\ ~Queue!Holds(SlotsBar, t) /\ ~Queue!Full(SlotsBar, cap)
<1>1. IInv /\ IInv'
  BY DEF RingInv
<1>2. PICK o \in Nat, n \in Nat : Oldest = o /\ enqueue_pos = o + n /\ n <= cap
  BY <1>1, BarExists
<1>3. /\ o <= enqueue_pos /\ enqueue_pos - cap <= o
      /\ o < enqueue_pos => StateOf(o) # "free"
      /\ \A p \in Nat : InRing(p) /\ p < o => StateOf(p) = "free"
      /\ cap \in Nat \ {0, 1} /\ enqueue_pos \in Nat
  BY <1>1, <1>2, OldestFacts, Numbers
<1>4. /\ enqueue_pos' = enqueue_pos + 1 /\ UNCHANGED <<cap, data, dequeue_pos, arg>>
      /\ ~Owns(t)
      /\ \A p \in Nat : InRing(p) =>
            StateOf(p)' = StateOf(p) /\ OwnerOf(p)' = OwnerOf(p)
      /\ \A p \in Nat : p = enqueue_pos =>
            StateOf(p)' = "claimed" /\ OwnerOf(p)' = t
      /\ \A p \in Nat : p = enqueue_pos - cap => StateOf(p) = "free"
  BY ClaimCells
<1>5. enqueue_pos - cap # o
  <2>. SUFFICES ASSUME enqueue_pos - cap = o PROVE FALSE
    OBVIOUS
  <2>. QED
    BY <1>3, <1>4
<1>6. n + 1 <= cap
  BY <1>2, <1>3, <1>5
<1>7. Oldest' = o
  <2>1. o <= enqueue_pos' /\ enqueue_pos' - cap' <= o
    BY <1>2, <1>3, <1>4, <1>6
  <2>2. o < enqueue_pos' => StateOf(o)' # "free"
    <3>1. CASE o = enqueue_pos
      BY <3>1, <1>4
    <3>2. CASE o # enqueue_pos
      BY <3>2, <1>3, <1>4 DEF InRing
    <3>. QED
      BY <3>1, <3>2
  <2>3. \A p \in Nat : InRing(p)' /\ p < o => InRing(p)
    BY <1>3, <1>4 DEF InRing
  <2>4. \A p \in Nat : InRing(p)' /\ p < o => StateOf(p)' = "free"
    BY <1>3, <1>4, <2>3
  <2>. QED
    BY <1>1, <2>1, <2>2, <2>4, OldestUniqueNext DEF OldestOnly
<1>8. /\ SlotsBar \in [1 .. n -> Slot(Threads, Values)]
      /\ \A i \in 1 .. n : \A p \in Nat : p = o + i - 1 =>
            InRing(p) /\ SlotsBar[i] = SlotAt(p)
  BY <1>2, BarShape DEF BarShaped
<1>9. PICK m \in Nat : m = n + 1
  OBVIOUS
<1>10. enqueue_pos' = o + m
  BY <1>2, <1>4, <1>9
<1>11. /\ SlotsBar' \in [1 .. m -> Slot(Threads, Values)]
       /\ \A i \in 1 .. m : \A p \in Nat : p = o + i - 1 =>
             InRing(p)' /\ SlotsBar'[i] = SlotAt(p)'
  BY <1>7, <1>10, BarShapeNext DEF BarShaped
<1>. DEFINE e == [val |-> arg[t], st |-> "claimed", who |-> t]
            q == Queue!Claim(SlotsBar, arg[t], t)
<1>12. q = Append(SlotsBar, e)
  BY DEF Queue!Claim
<1>13. e \in Slot(Threads, Values)
  <2>1. arg[t] \in Values
    BY <1>1 DEF IInv, TypeOK
  <2>. QED
    BY <2>1 DEF Slot, SlotStates
<1>. HIDE DEF e, q
<1>14. q \in [1 .. m -> Slot(Threads, Values)] /\ (\A i \in 1 .. n : q[i] = SlotsBar[i]) /\ q[m] = e
  <2>1. SlotsBar \in Seq(Slot(Threads, Values)) /\ Len(SlotsBar) = n
    BY <1>8, FunctionSeq
  <2>2. /\ q \in Seq(Slot(Threads, Values)) /\ Len(q) = Len(SlotsBar) + 1
        /\ \A i \in 1 .. Len(SlotsBar) : q[i] = SlotsBar[i]
        /\ q[Len(SlotsBar) + 1] = e
    BY <2>1, <1>12, <1>13, AppendProperties
  <2>3. Len(q) = m /\ (\A i \in 1 .. n : q[i] = SlotsBar[i]) /\ q[m] = e
    BY <2>1, <2>2, <1>9
  <2>4. q \in [1 .. m -> Slot(Threads, Values)]
    BY <2>2, <2>3, LenProperties
  <2>. QED
    BY <2>3, <2>4
<1>15. ASSUME NEW i \in 1 .. n PROVE SlotsBar'[i] = q[i]
  <2>1. PICK p \in Nat : p = o + i - 1
    OBVIOUS
  <2>2. InRing(p) /\ SlotsBar[i] = SlotAt(p) /\ SlotsBar'[i] = SlotAt(p)'
    BY <1>8, <1>9, <1>11, <2>1
  <2>3. SlotAt(p)' = SlotAt(p)
    BY <1>4, <2>2, SlotKept
  <2>. QED
    BY <1>14, <2>2, <2>3
<1>16. SlotsBar'[m] = q[m]
  <2>1. PICK p \in Nat : p = enqueue_pos
    BY <1>3
  <2>2. SlotsBar'[m] = SlotAt(p)'
    BY <1>2, <1>9, <1>11, <2>1
  <2>3. StateOf(p)' = "claimed" /\ OwnerOf(p)' = t
    BY <1>4, <2>1
  <2>4. arg'[OwnerOf(p)'] = arg[t]
    BY <1>4, <2>3
  <2>5. SlotAt(p)' = e
    BY <2>3, <2>4 DEF SlotAt, e
  <2>. QED
    BY <1>14, <2>2, <2>5
<1>17. SlotsBar' = q
  <2>1. \A i \in 1 .. m : SlotsBar'[i] = q[i]
    BY <1>9, <1>15, <1>16
  <2>. QED
    BY <1>11, <1>14, <2>1
<1>18. ~Queue!Full(SlotsBar, cap)
  <2>1. Len(SlotsBar) = n
    BY <1>8, FunctionSeq
  <2>. QED
    BY <2>1, <1>3, <1>6 DEF Queue!Full
<1>. QED
  BY <1>4, <1>17, <1>18, HoldsOnlyOwned DEF q

LEMMA PublishSlots ==
    ASSUME RingInv, RingInv', NEW t \in Threads, PushPublish(t)
    PROVE  SlotsBar' = Queue!Publish(SlotsBar, t) /\ Queue!Holds(SlotsBar, t)
<1>1. IInv
  BY DEF RingInv
<1>2. /\ UNCHANGED <<cap, data, enqueue_pos, dequeue_pos>>
      /\ Pushing(t) /\ Owns(t)
      /\ \A u \in Threads \ {t} : arg'[u] = arg[u]
      /\ \A p \in Nat : InRing(p) /\ p # pos[t] =>
            StateOf(p)' = StateOf(p) /\ OwnerOf(p)' = OwnerOf(p)
      /\ \A p \in Nat : p = pos[t] =>
            StateOf(p)' = "ready" /\ OwnerOf(p)' = "nobody"
      /\ data[CellOf(pos[t])] = arg[t]
  BY PublishCells
<1>3. PICK q \in Nat : q = pos[t] /\ InRing(q) /\ Oldest <= q /\ StateOf(q) = "claimed"
  BY <1>1, <1>2, OwnPlace
<1>4. PICK k \in Nat : k = q - Oldest + 1
  <2>1. Oldest \in Nat
    BY <1>1, OldestFacts
  <2>. QED
    BY <1>3, <2>1
<1>5. Queue!Holds(SlotsBar, t) /\ Queue!OwnIndex(SlotsBar, t) = k
  BY <1>2, <1>3, <1>4, OwnedIndex
<1>6. ASSUME NEW p \in Nat, InRing(p), p # q
      PROVE  StateOf(p)' = StateOf(p) /\ SlotAt(p)' = SlotAt(p)
  <2>1. \A u \in Threads : Pushing(u) /\ pos[u] = p => arg'[u] = arg[u]
    BY <1>2, <1>3, <1>6
  <2>. QED
    BY <1>2, <1>3, <1>6, <2>1, SlotKept
<1>7. StateOf(q)' = "ready" /\ OwnerOf(q)' = "nobody"
  BY <1>2, <1>3
<1>8. SlotAt(q)' = [val |-> SlotAt(q).val, st |-> "ready", who |-> "nobody"]
  <2>1. OwnerOf(q) = t
    BY <1>1, <1>2, <1>3, OwnerFacts
  <2>2. SlotAt(q).val = arg[t]
    BY <1>3, <2>1 DEF SlotAt
  <2>3. data'[CellOf(q)'] = arg[t]
    BY <1>2, <1>3 DEF CellOf
  <2>. QED
    BY <1>7, <2>2, <2>3 DEF SlotAt
<1>9. "ready" \in SlotStates /\ "nobody" \in Threads \cup {"nobody"} /\ "ready" # "free"
  BY DEF SlotStates
<1>10. SlotsBar' = Queue!Pass(SlotsBar, k, "ready", "nobody")
  BY <1>2, <1>3, <1>4, <1>6, <1>7, <1>8, <1>9, PassSlots
<1>. QED
  BY <1>5, <1>10 DEF Queue!Publish

LEMMA TakeSlots ==
    ASSUME RingInv, RingInv', NEW t \in Threads, DequeueCas(t), dequeue_pos = pos[t]
    PROVE  /\ SlotsBar' = Queue!Take(SlotsBar, t)
           /\ ~Queue!Holds(SlotsBar, t) /\ Queue!HeadReady(SlotsBar)
<1>1. IInv /\ dequeue_pos \in Nat
  BY Numbers DEF RingInv
<1>2. /\ UNCHANGED <<cap, data, enqueue_pos, arg>>
      /\ ~Owns(t)
      /\ \A p \in Nat : InRing(p) /\ p # dequeue_pos =>
            StateOf(p)' = StateOf(p) /\ OwnerOf(p)' = OwnerOf(p)
      /\ InRing(dequeue_pos) /\ StateOf(dequeue_pos) = "ready"
      /\ \A p \in Nat : p = dequeue_pos =>
            StateOf(p)' = "reading" /\ OwnerOf(p)' = t
  BY TakeCells
<1>3. dequeue_pos < enqueue_pos
  BY <1>2 DEF InRing
<1>4. PICK q \in Nat : q = dequeue_pos
  BY <1>1
<1>5. InRing(q) /\ Oldest <= q /\ StateOf(q) = "ready"
  BY <1>2, <1>3, <1>4, HeadPlace
<1>6. PICK k \in Nat : k = q - Oldest + 1
  <2>1. Oldest \in Nat
    BY <1>1, OldestFacts
  <2>. QED
    BY <1>5, <2>1
<1>7. Queue!HeadReady(SlotsBar) /\ Queue!HeadIndex(SlotsBar) = k
  BY <1>2, <1>3, <1>4, <1>6, HeadReadyIs
<1>8. ASSUME NEW p \in Nat, InRing(p), p # q
      PROVE  StateOf(p)' = StateOf(p) /\ SlotAt(p)' = SlotAt(p)
  BY <1>2, <1>4, <1>8, SlotKept
<1>9. StateOf(q)' = "reading" /\ OwnerOf(q)' = t
  BY <1>2, <1>4
<1>10. SlotAt(q)' = [val |-> SlotAt(q).val, st |-> "reading", who |-> t]
  <2>1. SlotAt(q).val = data[CellOf(q)]
    BY <1>5 DEF SlotAt
  <2>2. data'[CellOf(q)'] = data[CellOf(q)]
    BY <1>2 DEF CellOf
  <2>. QED
    BY <1>9, <2>1, <2>2 DEF SlotAt
<1>11. "reading" \in SlotStates /\ t \in Threads \cup {"nobody"} /\ "reading" # "free"
  BY DEF SlotStates
<1>12. SlotsBar' = Queue!Pass(SlotsBar, k, "reading", t)
  BY <1>2, <1>5, <1>6, <1>8, <1>9, <1>10, <1>11, PassSlots
<1>. QED
  BY <1>2, <1>7, <1>12, HoldsOnlyOwned DEF Queue!Take
\* What Trim forgets are the free slots before f.
LEMMA TrimIs ==
    ASSUME NEW n \in Nat, NEW s \in [1 .. n -> Slot(Threads, Values)],
           NEW f \in 1 .. (n + 1), f <= n => s[f].st # "free",
           \A i \in 1 .. n : i < f => s[i].st = "free"
    PROVE  /\ f = n + 1 => Queue!Trim(s) = << >>
           /\ f <= n => Queue!Trim(s) = SubSeq(s, f, n)
<1>1. DOMAIN s = 1 .. n /\ Len(s) = n
  BY FunctionSeq
<1>. DEFINE live == {i \in 1 .. n : s[i].st # "free"}
<1>2. Queue!Trim(s) = IF live = {} THEN << >>
                      ELSE LET first == CHOOSE i \in live : \A j \in live : i <= j
                           IN  SubSeq(s, first, n)
  BY <1>1 DEF Queue!Trim
<1>3. \A i \in live : f <= i /\ i \in 1 .. n
  OBVIOUS
<1>4. f = n + 1 => live = {}
  BY <1>3
<1>5. f <= n => f \in live
  OBVIOUS
<1>. HIDE DEF live
<1>6. ASSUME f <= n PROVE (CHOOSE i \in live : \A j \in live : i <= j) = f
  <2>1. \A i \in live : (\A j \in live : i <= j) => i = f
    BY <1>3, <1>5, <1>6
  <2>2. f \in live /\ \A j \in live : f <= j
    BY <1>3, <1>5, <1>6
  <2>. QED
    BY <2>1, <2>2
<1>. QED
  BY <1>2, <1>4, <1>5, <1>6

LEMMA ReleaseSlots ==
    ASSUME RingInv, RingInv', NEW t \in Threads, DequeueRelease(t)
    PROVE  /\ SlotsBar' = Queue!Release(SlotsBar, t)
           /\ Queue!Holds(SlotsBar, t) /\ Queue!OwnValue(SlotsBar, t) = result[t]
<1>1. IInv /\ IInv'
  BY DEF RingInv
<1>2. /\ UNCHANGED <<cap, data, enqueue_pos, dequeue_pos>>
      /\ Reading(t) /\ Owns(t)
      /\ \A u \in Threads \ {t} : arg'[u] = arg[u]
      /\ \A p \in Nat : InRing(p) /\ p # pos[t] =>
            StateOf(p)' = StateOf(p) /\ OwnerOf(p)' = OwnerOf(p)
      /\ \A p \in Nat : p = pos[t] =>
            StateOf(p)' = "free" /\ OwnerOf(p)' = "nobody"
      /\ data[CellOf(pos[t])] = result[t]
  BY ReleaseCells
<1>3. PICK o \in Nat, n \in Nat : Oldest = o /\ enqueue_pos = o + n /\ n <= cap
  BY <1>1, BarExists
<1>4. PICK q \in Nat : q = pos[t] /\ InRing(q) /\ Oldest <= q /\ StateOf(q) = "reading"
  BY <1>1, <1>2, OwnPlace
<1>5. PICK k \in 1 .. n : k = q - o + 1
  BY <1>3, <1>4 DEF InRing
<1>6. Queue!Holds(SlotsBar, t) /\ Queue!OwnIndex(SlotsBar, t) = k
  BY <1>2, <1>3, <1>4, <1>5, OwnedIndex
<1>7. /\ SlotsBar \in [1 .. n -> Slot(Threads, Values)]
      /\ \A i \in 1 .. n : \A p \in Nat : p = o + i - 1 =>
            InRing(p) /\ SlotsBar[i] = SlotAt(p)
  BY <1>3, BarShape DEF BarShaped
<1>8. SlotAt(q).val = data[CellOf(q)]
  BY <1>4 DEF SlotAt
<1>9. Queue!OwnValue(SlotsBar, t) = result[t]
  <2>1. q = o + k - 1
    BY <1>5
  <2>2. SlotsBar[k] = SlotAt(q)
    BY <1>7, <2>1
  <2>. QED
    BY <1>2, <1>4, <1>6, <1>8, <2>2 DEF Queue!OwnValue
<1>. DEFINE P == Queue!Pass(SlotsBar, k, "free", "nobody")
<1>10. "free" \in SlotStates /\ "nobody" \in Threads \cup {"nobody"}
  BY DEF SlotStates
<1>11. /\ P \in [1 .. n -> Slot(Threads, Values)]
       /\ \A i \in 1 .. n : i # k => P[i] = SlotsBar[i]
       /\ P[k] = [val |-> SlotsBar[k].val, st |-> "free", who |-> "nobody"]
  BY <1>7, <1>10, PassIs
<1>12. Queue!Release(SlotsBar, t) = Queue!Trim(P)
  BY <1>6 DEF Queue!Release
<1>. HIDE DEF P
\* The slots after the step, those before the new oldest one included.
<1>13. ASSUME NEW i \in 1 .. n, NEW p \in Nat, p = o + i - 1
       PROVE  P[i] = SlotAt(p)'
  <2>1. InRing(p) /\ SlotsBar[i] = SlotAt(p)
    BY <1>7, <1>13
  <2>2. CASE i = k
    <3>1. p = q
      BY <2>2, <1>5, <1>13
    <3>2. StateOf(q)' = "free" /\ OwnerOf(q)' = "nobody"
      BY <1>2, <1>4
    <3>3. data'[CellOf(q)'] = data[CellOf(q)]
      BY <1>2 DEF CellOf
    <3>4. SlotAt(q)' = [val |-> SlotAt(q).val, st |-> "free", who |-> "nobody"]
      BY <1>8, <3>2, <3>3 DEF SlotAt
    <3>5. SlotAt(p)' = SlotAt(q)'
      BY <3>1
    <3>6. SlotAt(q) = SlotsBar[k]
      BY <2>1, <2>2, <3>1
    <3>. QED
      BY <1>11, <2>2, <3>4, <3>5, <3>6
  <2>3. CASE i # k
    <3>1. p # q
      BY <2>3, <1>5, <1>13
    <3>2. \A u \in Threads : Pushing(u) /\ pos[u] = p => arg'[u] = arg[u]
      BY <1>2, <1>4, <3>1
    <3>3. SlotAt(p)' = SlotAt(p)
      BY <1>2, <1>4, <2>1, <3>1, <3>2, SlotKept
    <3>. QED
      BY <1>11, <2>1, <2>3, <3>3
  <2>. QED
    BY <2>2, <2>3
<1>14. ASSUME NEW i \in 1 .. n, NEW p \in Nat, p = o + i - 1
       PROVE  P[i].st = StateOf(p)'
  <2>1. P[i] = SlotAt(p)'
    BY <1>13, <1>14
  <2>2. SlotAt(p)'.st = StateOf(p)'
    BY DEF SlotAt
  <2>. QED
    BY <2>1, <2>2
<1>15. /\ Oldest' \in Nat /\ Oldest' <= enqueue_pos
       /\ \A p \in Nat : p = Oldest' /\ p < enqueue_pos => StateOf(p)' # "free"
       /\ \A p \in Nat : InRing(p)' /\ p < Oldest' => StateOf(p)' = "free"
       /\ enqueue_pos - cap <= Oldest'
  BY <1>1, <1>2, OldestPlaceNext DEF OldestPlaced
<1>16. PICK r \in Nat : r = Oldest'
  BY <1>15
<1>17. \A p \in Nat : InRing(p)' <=> InRing(p)
  BY <1>2 DEF InRing
<1>18. o <= r
  <2>. SUFFICES ASSUME r < o PROVE FALSE
    BY <1>16
  <2>1. InRing(r) /\ r < enqueue_pos
    BY <1>3, <1>15, <1>16 DEF InRing
  <2>2. StateOf(r) = "free"
    BY <1>1, <1>3, <2>1, OldestFacts
  <2>3. r # q
    BY <2>2, <1>4
  <2>4. StateOf(r)' = "free"
    BY <1>2, <1>4, <2>1, <2>2, <2>3
  <2>. QED
    BY <1>15, <1>16, <2>1, <2>4
<1>19. PICK f \in 1 .. (n + 1) : f = r - o + 1
  <2>1. r <= o + n
    BY <1>3, <1>15, <1>16
  <2>2. r - o + 1 \in 1 .. (n + 1)
    BY <2>1, <1>18
  <2>. QED
    BY <2>2
<1>20. f <= n => P[f].st # "free"
  <2>. SUFFICES ASSUME f <= n PROVE P[f].st # "free"
    OBVIOUS
  <2>1. r = o + f - 1 /\ f \in 1 .. n /\ r < enqueue_pos
    BY <1>3, <1>19
  <2>2. P[f].st = StateOf(r)'
    BY <2>1, <1>14
  <2>. QED
    BY <2>1, <2>2, <1>15, <1>16
<1>21. ASSUME NEW i \in 1 .. n, i < f PROVE P[i].st = "free"
  <2>1. PICK p \in Nat : p = o + i - 1
    OBVIOUS
  <2>2. p < r
    BY <2>1, <1>19, <1>21
  <2>3. InRing(p)
    BY <2>1, <1>7
  <2>4. StateOf(p)' = "free"
    BY <2>2, <2>3, <1>15, <1>16, <1>17
  <2>. QED
    BY <2>1, <2>4, <1>14
<1>22. /\ f = n + 1 => Queue!Trim(P) = << >>
       /\ f <= n => Queue!Trim(P) = SubSeq(P, f, n)
  BY <1>11, <1>20, <1>21, TrimIs
<1>23. PICK m \in Nat : m = n + 1 - f
  OBVIOUS
<1>24. enqueue_pos' = r + m
  BY <1>2, <1>3, <1>19, <1>23
<1>25. /\ SlotsBar' \in [1 .. m -> Slot(Threads, Values)]
       /\ \A i \in 1 .. m : \A p \in Nat : p = r + i - 1 =>
             InRing(p)' /\ SlotsBar'[i] = SlotAt(p)'
  BY <1>16, <1>24, BarShapeNext DEF BarShaped
<1>26. CASE f = n + 1
  <2>1. SlotsBar' \in Seq(Slot(Threads, Values)) /\ Len(SlotsBar') = 0
    BY <1>23, <1>25, <1>26, FunctionSeq
  <2>2. SlotsBar' = << >>
    BY <2>1, EmptySeq
  <2>. QED
    BY <1>6, <1>9, <1>12, <1>22, <1>26, <2>2
<1>27. CASE f <= n
  <2>. DEFINE T == SubSeq(P, f, n)
  <2>1. \A i \in f .. n : P[i] \in Slot(Threads, Values)
    BY <1>11
  <2>2. f \in Int /\ n \in Int
    OBVIOUS
  <2>3. /\ T \in Seq(Slot(Threads, Values))
        /\ Len(T) = IF f <= n THEN n - f + 1 ELSE 0
        /\ \A i \in 1 .. n - f + 1 : T[i] = P[f + i - 1]
    BY <2>1, <2>2, SubSeqProperties
  <2>. HIDE DEF T
  <2>4. Len(T) = m /\ n - f + 1 = m
    BY <1>23, <1>27, <2>3
  <2>5. T \in [1 .. m -> Slot(Threads, Values)]
    BY <2>3, <2>4, LenProperties
  <2>6. ASSUME NEW i \in 1 .. m PROVE SlotsBar'[i] = T[i]
    <3>1. PICK j \in 1 .. n : j = f + i - 1
      BY <1>23
    <3>2. PICK p \in Nat : p = o + j - 1
      OBVIOUS
    <3>3. p = r + i - 1
      BY <3>1, <3>2, <1>19
    <3>4. T[i] = P[j]
      BY <2>3, <2>4, <3>1
    <3>5. P[j] = SlotAt(p)'
      BY <3>2, <1>13
    <3>6. SlotsBar'[i] = SlotAt(p)'
      BY <3>3, <1>25
    <3>. QED
      BY <3>4, <3>5, <3>6
  <2>7. SlotsBar' = T
    BY <1>25, <2>5, <2>6
  <2>. QED
    BY <1>6, <1>9, <1>12, <1>22, <1>27, <2>7 DEF T
<1>. QED
  BY <1>26, <1>27

\* mpmc_queue_push_back finds dif < 0 only when no cell is left, ...
LEMMA FullIsFull ==
    ASSUME RingInv, NEW t \in Threads, pc[t] = "push_seq",
           sequence[CellOf(pos[t])] - pos[t] < 0
    PROVE  Queue!Full(SlotsBar, cap)
<1>1. /\ IInv /\ cap \in Nat \ {0, 1} /\ enqueue_pos \in Nat /\ dequeue_pos \in Nat
      /\ pos[t] \in Nat /\ sequence \in [0 .. (cap - 1) -> Nat]
  BY Numbers DEF RingInv
<1>2. CellOf(pos[t]) \in 0 .. (cap - 1)
  BY <1>1, CellFacts
<1>3. sequence[CellOf(pos[t])] \in Nat
  BY <1>1, <1>2
<1>4. pos[t] <= enqueue_pos
  BY <1>1 DEF IInv, CasJustified
<1>5. pos[t] = enqueue_pos
  <2>1. ~(pos[t] < enqueue_pos)
    BY <1>1, <1>3, SequenceBehind
  <2>. QED
    BY <1>1, <1>4, <2>1
<1>6. sequence[CellOf(enqueue_pos)] \in {enqueue_pos - cap, enqueue_pos - cap + 1}
  <2>1. enqueue_pos \in enqueue_pos .. (enqueue_pos + cap - 1)
    BY <1>1
  <2>2. sequence[CellOf(enqueue_pos)] # enqueue_pos
    BY <1>1, <1>3, <1>5
  <2>3. LET s == sequence[CellOf(enqueue_pos)]
        IN  \/ s = enqueue_pos /\ enqueue_pos - cap < dequeue_pos
            \/ s = enqueue_pos - cap /\ dequeue_pos <= enqueue_pos - cap
            \/ s = enqueue_pos - cap + 1
    BY <1>1, <2>1 DEF IInv, Window
  <2>. QED
    BY <2>2, <2>3
<1>7. enqueue_pos >= cap
  <2>1. enqueue_pos \in enqueue_pos .. (enqueue_pos + cap - 1)
    BY <1>1
  <2>2. sequence[CellOf(enqueue_pos)] = enqueue_pos - cap + 1 => enqueue_pos >= cap
    BY <2>1 DEF RingInv, CellsFilled
  <2>3. sequence[CellOf(enqueue_pos)] = enqueue_pos - cap => enqueue_pos >= cap
    BY <1>1, <1>3, <1>5
  <2>. QED
    BY <1>6, <2>2, <2>3
<1>8. PICK p \in Nat : p = enqueue_pos - cap
  BY <1>1, <1>7
<1>9. InRing(p) /\ enqueue_pos = p + cap
  BY <1>1, <1>8 DEF InRing
<1>10. CellOf(enqueue_pos) = CellOf(p)
  BY <1>1, <1>9, CellFacts
<1>11. StateOf(p) # "free"
  <2>1. sequence[CellOf(p)] # p + cap
    BY <1>1, <1>6, <1>8, <1>9, <1>10
  <2>. QED
    BY <1>1, <1>9, <2>1, StateFacts
<1>12. PICK o \in Nat, n \in Nat : Oldest = o /\ enqueue_pos = o + n /\ n <= cap
  BY <1>1, BarExists
<1>13. ~(p < o)
  BY <1>1, <1>9, <1>11, <1>12, OldestFacts
<1>14. n = cap
  BY <1>1, <1>9, <1>12, <1>13
<1>15. SlotsBar \in [1 .. n -> Slot(Threads, Values)]
  BY <1>12, BarShape DEF BarShaped
<1>16. Len(SlotsBar) = n
  BY <1>15, FunctionSeq
<1>. QED
  BY <1>1, <1>14, <1>16 DEF Queue!Full

\* ... and mpmc_queue_dequeue only when the head is not published.
LEMMA EmptyIsEmpty ==
    ASSUME RingInv, NEW t \in Threads, pc[t] = "deq_seq",
           sequence[CellOf(pos[t])] - (pos[t] + 1) < 0
    PROVE  ~Queue!HeadReady(SlotsBar)
<1>1. /\ IInv /\ cap \in Nat \ {0, 1} /\ enqueue_pos \in Nat /\ dequeue_pos \in Nat
      /\ pos[t] \in Nat /\ sequence \in [0 .. (cap - 1) -> Nat]
      /\ dequeue_pos <= enqueue_pos
  BY Numbers DEF RingInv
<1>2. CellOf(pos[t]) \in 0 .. (cap - 1)
  BY <1>1, CellFacts
<1>3. sequence[CellOf(pos[t])] \in Nat
  BY <1>1, <1>2
<1>4. pos[t] <= dequeue_pos
  BY <1>1 DEF IInv, CasJustified
<1>5. pos[t] = dequeue_pos
  <2>1. ~(pos[t] < dequeue_pos)
    BY <1>1, <1>3, SequenceBehind
  <2>. QED
    BY <1>1, <1>4, <2>1
<1>6. dequeue_pos < enqueue_pos => StateOf(dequeue_pos) # "ready"
  <2>. SUFFICES ASSUME dequeue_pos < enqueue_pos, StateOf(dequeue_pos) = "ready"
                PROVE  FALSE
    OBVIOUS
  <2>1. InRing(dequeue_pos)
    BY HeadPlace
  <2>2. sequence[CellOf(dequeue_pos)] = dequeue_pos + 1
    BY <1>1, <2>1, StateFacts
  <2>. QED
    BY <1>1, <1>3, <1>5, <2>2
<1>. QED
  BY <1>6, HeadReadyIs
---------------------------------------------------------------------------
\* Calls and results, as QueueSpec sees them.
LEMMA CallEnters ==
    ASSUME TypeOK, NEW t \in Threads, NEW l, Goto(t, l), NEW c,
           c = IF l \in PushPcs THEN "push" ELSE IF l \in DequeuePcs THEN "dequeue" ELSE "none"
    PROVE  CallBar' = [CallBar EXCEPT ![t] = c]
<1>1. /\ \A u \in Threads \ {t} : pc'[u] = pc[u]
      /\ pc'[t] = l
  BY DEF TypeOK, Goto
<1>. DEFINE Seen(k) == IF k \in PushPcs THEN "push"
                       ELSE IF k \in DequeuePcs THEN "dequeue" ELSE "none"
<1>2. CallBar = [u \in Threads |-> Seen(pc[u])] /\ CallBar' = [u \in Threads |-> Seen(pc'[u])]
  BY DEF CallBar
<1>3. Seen(l) = c
  OBVIOUS
<1>. HIDE DEF Seen
<1>. QED
  BY <1>1, <1>2, <1>3

LEMMA CallStays ==
    ASSUME TypeOK, NEW t \in Threads, NEW l, Goto(t, l), UNCHANGED result,
           \/ pc[t] \in PushPcs /\ l \in PushPcs
           \/ pc[t] \in DequeuePcs /\ l \in DequeuePcs
    PROVE  CallBar' = CallBar /\ ResultBar' = ResultBar
<1>1. /\ \A u \in Threads \ {t} : pc'[u] = pc[u]
      /\ pc'[t] = l
  BY DEF TypeOK, Goto
<1>2. \A u \in Threads : /\ pc'[u] \in PushPcs <=> pc[u] \in PushPcs
                         /\ pc'[u] \in DequeuePcs <=> pc[u] \in DequeuePcs
                         /\ pc'[u] = "idle" <=> pc[u] = "idle"
  BY <1>1 DEF PushPcs, DequeuePcs
<1>3. CallBar' = CallBar
  BY <1>2 DEF CallBar
<1>4. ResultBar' = ResultBar
  BY <1>2 DEF ResultBar
<1>. QED
  BY <1>3, <1>4

LEMMA ResultBarStep ==
    ASSUME TypeOK, NEW t \in Threads, NEW l, Goto(t, l), NEW r,
           \A u \in Threads \ {t} : result'[u] = result[u],
           l = "idle" => result'[t] = r,
           l # "idle" => r = "none"
    PROVE  ResultBar' = [ResultBar EXCEPT ![t] = r]
<1>1. /\ \A u \in Threads \ {t} : pc'[u] = pc[u]
      /\ pc'[t] = l
  BY DEF TypeOK, Goto
<1>2. \A u \in Threads : (IF pc'[u] = "idle" THEN result'[u] ELSE "none")
                         = [ResultBar EXCEPT ![t] = r][u]
  BY <1>1 DEF ResultBar
<1>3. ResultBar' = [u \in Threads |-> IF pc'[u] = "idle" THEN result'[u] ELSE "none"]
  BY DEF ResultBar
<1>4. [ResultBar EXCEPT ![t] = r] = [u \in Threads |-> [ResultBar EXCEPT ![t] = r][u]]
  BY DEF ResultBar
<1>. QED
  BY <1>2, <1>3, <1>4

\* A call ends with result r.
LEMMA ReturnsBar ==
    ASSUME TypeOK, NEW t \in Threads, Leave(t), NEW r,
           \A u \in Threads \ {t} : result'[u] = result[u], result'[t] = r
    PROVE  Queue!Returned(t, r)
<1>1. Goto(t, "idle") /\ arg' = [arg EXCEPT ![t] = NoValue]
  BY DEF Leave
<1>2. CallBar' = [CallBar EXCEPT ![t] = "none"]
  BY <1>1, CallEnters DEF PushPcs, DequeuePcs
<1>3. ResultBar' = [ResultBar EXCEPT ![t] = r]
  BY <1>1, ResultBarStep
<1>4. Queue!NoValue = NoValue
  BY DEF Queue!NoValue, NoValue
<1>. QED
  BY <1>1, <1>2, <1>3, <1>4 DEF Queue!Returned

---------------------------------------------------------------------------
\* Every step of a thread is one of the queue's or changes nothing it shows.
LEMMA PushRefines ==
    ASSUME RingInv, RingInv', NEW t \in Threads,
           (\E v \in Values : PushCall(t, v)) \/ PushStep(t)
    PROVE  [Queue!SpecNext]_(Queue!specVars)
<1>1. TypeOK /\ IInv
  BY DEF RingInv, IInv
<1>. SUFFICES \/ \E v \in Values : Queue!PushCalled(t, v)
              \/ Queue!Claimed(t) \/ Queue!Published(t) \/ Queue!Rejected(t)
              \/ UNCHANGED <<SlotsBar, cap, CallBar, arg, ResultBar>>
  BY DEF Queue!SpecNext, Queue!specVars
<1>2. CASE \E v \in Values : PushCall(t, v)
  <2>1. PICK v \in Values : PushCall(t, v)
    BY <1>2
  <2>2. Frame /\ UNCHANGED data /\ UNCHANGED cap
    BY <2>1, FrameActions DEF Frame
  <2>3. SlotsBar' = SlotsBar
    BY <2>2, FrameSlots
  <2>4. /\ Goto(t, "push_seq") /\ pc[t] = "idle"
        /\ result' = [result EXCEPT ![t] = "none"] /\ arg' = [arg EXCEPT ![t] = v]
    BY <2>1 DEF PushCall
  <2>5. CallBar' = [CallBar EXCEPT ![t] = "push"]
    BY <1>1, <2>4, CallEnters DEF PushPcs
  <2>6. ResultBar' = [ResultBar EXCEPT ![t] = "none"]
    <3>1. \A u \in Threads \ {t} : result'[u] = result[u]
      BY <1>1, <2>4 DEF TypeOK
    <3>. QED
      BY <1>1, <2>4, <3>1, ResultBarStep
  <2>7. CallBar[t] = "none"
    BY <2>4 DEF CallBar, PushPcs, DequeuePcs
  <2>. QED
    BY <2>2, <2>3, <2>4, <2>5, <2>6, <2>7 DEF Queue!PushCalled
<1>3. CASE PushReadSequence(t)
  <2>1. Frame /\ UNCHANGED data /\ UNCHANGED cap
    BY <1>3, FrameActions DEF Frame
  <2>2. SlotsBar' = SlotsBar
    BY <2>1, FrameSlots
  <2>3. pc[t] = "push_seq"
    BY <1>3 DEF PushReadSequence
  <2>4. \/ /\ Goto(t, "push_cas") \/ Goto(t, "push_reload")
           /\ UNCHANGED <<pos, arg, result>>
        \/ sequence[CellOf(pos[t])] - pos[t] < 0 /\ Return(t, "full")
    BY <1>3, Zenon DEF PushReadSequence
  <2>5. CASE /\ Goto(t, "push_cas") \/ Goto(t, "push_reload")
             /\ UNCHANGED <<pos, arg, result>>
    <3>1. CallBar' = CallBar /\ ResultBar' = ResultBar
      BY <1>1, <2>3, <2>5, CallStays DEF PushPcs
    <3>. QED
      BY <2>1, <2>2, <2>5, <3>1
  <2>6. CASE sequence[CellOf(pos[t])] - pos[t] < 0 /\ Return(t, "full")
    <3>1. Queue!Full(SlotsBar, cap)
      BY <2>3, <2>6, FullIsFull
    <3>2. ~Queue!Holds(SlotsBar, t)
      BY <2>3, HoldsOnlyOwned DEF Owns, Pushing, Reading
    <3>3. CallBar[t] = "push"
      BY <2>3 DEF CallBar, PushPcs
    <3>4. Queue!Returned(t, "full")
      <4>1. \A u \in Threads \ {t} : result'[u] = result[u]
        BY <1>1, <2>6 DEF Return, TypeOK
      <4>2. result'[t] = "full" /\ Leave(t)
        BY <1>1, <2>6 DEF Return, TypeOK
      <4>. QED
        BY <1>1, <4>1, <4>2, ReturnsBar
    <3>. QED
      BY <2>1, <2>2, <3>1, <3>2, <3>3, <3>4 DEF Queue!Rejected
  <2>. QED
    BY <2>4, <2>5, <2>6
<1>4. CASE PushCas(t) /\ enqueue_pos = pos[t]
  <2>1. /\ pc[t] = "push_cas" /\ Goto(t, "push_data") /\ UNCHANGED <<cap, arg, result>>
    BY <1>4 DEF PushCas
  <2>2. CallBar' = CallBar /\ ResultBar' = ResultBar
    BY <1>1, <2>1, CallStays DEF PushPcs
  <2>3. CallBar[t] = "push"
    BY <2>1 DEF CallBar, PushPcs
  <2>4. /\ SlotsBar' = Queue!Claim(SlotsBar, arg[t], t)
        /\ ~Queue!Holds(SlotsBar, t) /\ ~Queue!Full(SlotsBar, cap)
    BY <1>4, ClaimSlots
  <2>. QED
    BY <2>1, <2>2, <2>3, <2>4 DEF Queue!Claimed
<1>5. CASE PushCas(t) /\ enqueue_pos # pos[t]
  <2>1. Frame /\ UNCHANGED data /\ UNCHANGED cap
    BY <1>5, FrameActions DEF Frame
  <2>2. SlotsBar' = SlotsBar
    BY <2>1, FrameSlots
  <2>3. pc[t] = "push_cas" /\ Goto(t, "push_seq") /\ UNCHANGED <<arg, result>>
    BY <1>5 DEF PushCas
  <2>4. CallBar' = CallBar /\ ResultBar' = ResultBar
    BY <1>1, <2>3, CallStays DEF PushPcs
  <2>. QED
    BY <2>1, <2>2, <2>3, <2>4
<1>6. CASE PushReload(t)
  <2>1. Frame /\ UNCHANGED data /\ UNCHANGED cap
    BY <1>6, FrameActions DEF Frame
  <2>2. SlotsBar' = SlotsBar
    BY <2>1, FrameSlots
  <2>3. pc[t] = "push_reload" /\ Goto(t, "push_seq") /\ UNCHANGED <<arg, result>>
    BY <1>6 DEF PushReload
  <2>4. CallBar' = CallBar /\ ResultBar' = ResultBar
    BY <1>1, <2>3, CallStays DEF PushPcs
  <2>. QED
    BY <2>1, <2>2, <2>3, <2>4
<1>7. CASE PushWriteData(t)
  <2>1. pc[t] = "push_data" /\ Goto(t, "push_publish") /\ UNCHANGED <<cap, arg, result>>
    BY <1>7 DEF PushWriteData
  <2>2. /\ Frame
        /\ \A c : c # CellOf(pos[t]) => data'[c] = data[c]
    BY <1>7, WriteFrame
  <2>3. /\ InRing(pos[t]) /\ pos[t] \in Nat /\ StateOf(pos[t]) = "claimed"
    BY <1>1, <2>1, OwnPlace DEF Owns, Pushing
  <2>4. \A p \in Nat : InRing(p) => StateOf(p) = "claimed" \/ data'[CellOf(p)] = data[CellOf(p)]
    <3>. SUFFICES ASSUME NEW p \in Nat, InRing(p), StateOf(p) # "claimed"
                  PROVE  data'[CellOf(p)] = data[CellOf(p)]
      OBVIOUS
    <3>1. p # pos[t]
      BY <2>3
    <3>2. CellOf(p) # CellOf(pos[t])
      BY <1>1, <2>3, <3>1, OtherCell
    <3>. QED
      BY <2>2, <3>2
  <2>5. SlotsBar' = SlotsBar
    BY <2>2, <2>4, FrameSlots
  <2>6. CallBar' = CallBar /\ ResultBar' = ResultBar
    BY <1>1, <2>1, CallStays DEF PushPcs
  <2>. QED
    BY <2>1, <2>5, <2>6
<1>8. CASE PushPublish(t)
  <2>1. /\ pc[t] = "push_publish" /\ Leave(t) /\ UNCHANGED cap
        /\ result' = [result EXCEPT ![t] = "pushed"]
    BY <1>8 DEF PushPublish, Return
  <2>2. SlotsBar' = Queue!Publish(SlotsBar, t) /\ Queue!Holds(SlotsBar, t)
    BY <1>8, PublishSlots
  <2>3. CallBar[t] = "push"
    BY <2>1 DEF CallBar, PushPcs
  <2>4. Queue!Returned(t, "pushed")
    <3>1. (\A u \in Threads \ {t} : result'[u] = result[u]) /\ result'[t] = "pushed"
      BY <1>1, <2>1 DEF TypeOK
    <3>. QED
      BY <1>1, <2>1, <3>1, ReturnsBar
  <2>. QED
    BY <2>1, <2>2, <2>3, <2>4 DEF Queue!Published
<1>. QED
  BY <1>2, <1>3, <1>4, <1>5, <1>6, <1>7, <1>8 DEF PushStep

LEMMA DequeueRefines ==
    ASSUME RingInv, RingInv', NEW t \in Threads, DequeueCall(t) \/ DequeueStep(t)
    PROVE  [Queue!SpecNext]_(Queue!specVars)
<1>1. TypeOK /\ IInv
  BY DEF RingInv, IInv
<1>. SUFFICES \/ Queue!DequeueCalled(t)
              \/ Queue!Taken(t) \/ Queue!Released(t) \/ Queue!FoundEmpty(t)
              \/ UNCHANGED <<SlotsBar, cap, CallBar, arg, ResultBar>>
  BY DEF Queue!SpecNext, Queue!specVars
<1>2. CASE DequeueCall(t)
  <2>1. Frame /\ UNCHANGED data /\ UNCHANGED cap
    BY <1>2, FrameActions DEF Frame
  <2>2. SlotsBar' = SlotsBar
    BY <2>1, FrameSlots
  <2>3. /\ Goto(t, "deq_seq") /\ pc[t] = "idle"
        /\ result' = [result EXCEPT ![t] = "none"] /\ UNCHANGED arg
    BY <1>2 DEF DequeueCall
  <2>4. CallBar' = [CallBar EXCEPT ![t] = "dequeue"]
    BY <1>1, <2>3, CallEnters DEF PushPcs, DequeuePcs
  <2>5. ResultBar' = [ResultBar EXCEPT ![t] = "none"]
    <3>1. \A u \in Threads \ {t} : result'[u] = result[u]
      BY <1>1, <2>3 DEF TypeOK
    <3>. QED
      BY <1>1, <2>3, <3>1, ResultBarStep
  <2>6. CallBar[t] = "none"
    BY <2>3 DEF CallBar, PushPcs, DequeuePcs
  <2>. QED
    BY <2>1, <2>2, <2>3, <2>4, <2>5, <2>6 DEF Queue!DequeueCalled
<1>3. CASE DequeueReadSequence(t)
  <2>1. Frame /\ UNCHANGED data /\ UNCHANGED cap
    BY <1>3, FrameActions DEF Frame
  <2>2. SlotsBar' = SlotsBar
    BY <2>1, FrameSlots
  <2>3. pc[t] = "deq_seq"
    BY <1>3 DEF DequeueReadSequence
  <2>4. \/ /\ Goto(t, "deq_cas") \/ Goto(t, "deq_reload")
           /\ UNCHANGED <<pos, arg, result>>
        \/ sequence[CellOf(pos[t])] - (pos[t] + 1) < 0 /\ Return(t, "empty")
    BY <1>3, Zenon DEF DequeueReadSequence
  <2>5. CASE /\ Goto(t, "deq_cas") \/ Goto(t, "deq_reload")
             /\ UNCHANGED <<pos, arg, result>>
    <3>1. CallBar' = CallBar /\ ResultBar' = ResultBar
      BY <1>1, <2>3, <2>5, CallStays DEF DequeuePcs
    <3>. QED
      BY <2>1, <2>2, <2>5, <3>1
  <2>6. CASE sequence[CellOf(pos[t])] - (pos[t] + 1) < 0 /\ Return(t, "empty")
    <3>1. ~Queue!HeadReady(SlotsBar)
      BY <2>3, <2>6, EmptyIsEmpty
    <3>2. ~Queue!Holds(SlotsBar, t)
      BY <2>3, HoldsOnlyOwned DEF Owns, Pushing, Reading
    <3>3. CallBar[t] = "dequeue"
      BY <2>3 DEF CallBar, PushPcs, DequeuePcs
    <3>4. Queue!Returned(t, "empty")
      <4>1. \A u \in Threads \ {t} : result'[u] = result[u]
        BY <1>1, <2>6 DEF Return, TypeOK
      <4>2. result'[t] = "empty" /\ Leave(t)
        BY <1>1, <2>6 DEF Return, TypeOK
      <4>. QED
        BY <1>1, <4>1, <4>2, ReturnsBar
    <3>. QED
      BY <2>1, <2>2, <3>1, <3>2, <3>3, <3>4 DEF Queue!FoundEmpty
  <2>. QED
    BY <2>4, <2>5, <2>6
<1>4. CASE DequeueCas(t) /\ dequeue_pos = pos[t]
  <2>1. /\ pc[t] = "deq_cas" /\ Goto(t, "deq_data") /\ UNCHANGED <<cap, arg, result>>
    BY <1>4 DEF DequeueCas
  <2>2. CallBar' = CallBar /\ ResultBar' = ResultBar
    BY <1>1, <2>1, CallStays DEF DequeuePcs
  <2>3. CallBar[t] = "dequeue"
    BY <2>1 DEF CallBar, PushPcs, DequeuePcs
  <2>4. /\ SlotsBar' = Queue!Take(SlotsBar, t)
        /\ ~Queue!Holds(SlotsBar, t) /\ Queue!HeadReady(SlotsBar)
    BY <1>4, TakeSlots
  <2>. QED
    BY <2>1, <2>2, <2>3, <2>4 DEF Queue!Taken
<1>5. CASE DequeueCas(t) /\ dequeue_pos # pos[t]
  <2>1. Frame /\ UNCHANGED data /\ UNCHANGED cap
    BY <1>5, FrameActions DEF Frame
  <2>2. SlotsBar' = SlotsBar
    BY <2>1, FrameSlots
  <2>3. pc[t] = "deq_cas" /\ Goto(t, "deq_seq") /\ UNCHANGED <<arg, result>>
    BY <1>5 DEF DequeueCas
  <2>4. CallBar' = CallBar /\ ResultBar' = ResultBar
    BY <1>1, <2>3, CallStays DEF DequeuePcs
  <2>. QED
    BY <2>1, <2>2, <2>3, <2>4
<1>6. CASE DequeueReload(t)
  <2>1. Frame /\ UNCHANGED data /\ UNCHANGED cap
    BY <1>6, FrameActions DEF Frame
  <2>2. SlotsBar' = SlotsBar
    BY <2>1, FrameSlots
  <2>3. pc[t] = "deq_reload" /\ Goto(t, "deq_seq") /\ UNCHANGED <<arg, result>>
    BY <1>6 DEF DequeueReload
  <2>4. CallBar' = CallBar /\ ResultBar' = ResultBar
    BY <1>1, <2>3, CallStays DEF DequeuePcs
  <2>. QED
    BY <2>1, <2>2, <2>3, <2>4
\* The value read is not yet the call's result.
<1>7. CASE DequeueReadData(t)
  <2>1. /\ pc[t] = "deq_data" /\ Goto(t, "deq_release") /\ UNCHANGED <<cap, arg>>
        /\ result' = [result EXCEPT ![t] = data[CellOf(pos[t])]]
    BY <1>7 DEF DequeueReadData
  <2>2. Frame /\ UNCHANGED data
    BY <1>7, ReadFrame
  <2>3. SlotsBar' = SlotsBar
    BY <2>2, FrameSlots
  <2>4. /\ \A u \in Threads \ {t} : pc'[u] = pc[u] /\ result'[u] = result[u]
        /\ pc'[t] = "deq_release"
    BY <1>1, <2>1 DEF TypeOK, Goto
  <2>5. CallBar' = CallBar
    <3>1. \A u \in Threads : /\ pc'[u] \in PushPcs <=> pc[u] \in PushPcs
                             /\ pc'[u] \in DequeuePcs <=> pc[u] \in DequeuePcs
      BY <2>1, <2>4 DEF PushPcs, DequeuePcs
    <3>. QED
      BY <3>1 DEF CallBar
  <2>6. ResultBar' = ResultBar
    <3>1. \A u \in Threads : (IF pc'[u] = "idle" THEN result'[u] ELSE "none")
                             = (IF pc[u] = "idle" THEN result[u] ELSE "none")
      BY <2>1, <2>4
    <3>. QED
      BY <3>1 DEF ResultBar
  <2>. QED
    BY <2>1, <2>3, <2>5, <2>6
<1>8. CASE DequeueRelease(t)
  <2>1. pc[t] = "deq_release" /\ Leave(t) /\ UNCHANGED <<cap, result>>
    BY <1>8 DEF DequeueRelease
  <2>2. /\ SlotsBar' = Queue!Release(SlotsBar, t)
        /\ Queue!Holds(SlotsBar, t) /\ Queue!OwnValue(SlotsBar, t) = result[t]
    BY <1>8, ReleaseSlots
  <2>3. CallBar[t] = "dequeue"
    BY <2>1 DEF CallBar, PushPcs, DequeuePcs
  <2>4. Queue!Returned(t, Queue!OwnValue(SlotsBar, t))
    <3>1. (\A u \in Threads \ {t} : result'[u] = result[u]) /\ result'[t] = Queue!OwnValue(SlotsBar, t)
      BY <2>1, <2>2
    <3>. QED
      BY <1>1, <2>1, <3>1, ReturnsBar
  <2>. QED
    BY <2>1, <2>2, <2>3, <2>4 DEF Queue!Released
<1>. QED
  BY <1>2, <1>3, <1>4, <1>5, <1>6, <1>7, <1>8 DEF DequeueStep

\* A ring just made holds nothing.
LEMMA EmptyBar == RingInv /\ enqueue_pos = 0 => SlotsBar = << >>
<1>. SUFFICES ASSUME RingInv, enqueue_pos = 0 PROVE SlotsBar = << >>
  OBVIOUS
<1>1. PICK o \in Nat, n \in Nat : Oldest = o /\ enqueue_pos = o + n /\ n <= cap
  BY BarExists DEF RingInv
<1>2. n = 0
  BY <1>1
<1>3. SlotsBar \in [1 .. n -> Slot(Threads, Values)]
  BY <1>1, BarShape DEF BarShaped
<1>4. SlotsBar \in Seq(Slot(Threads, Values)) /\ Len(SlotsBar) = 0
  BY <1>2, <1>3, FunctionSeq
<1>. QED
  BY <1>4, EmptySeq

BarEmptied == enqueue_pos = 0 => SlotsBar = << >>

LEMMA EmptyBarNext == RingInv' => BarEmptied'
<1>1. RingInv => BarEmptied
  BY EmptyBar DEF BarEmptied
<1>. QED
  BY <1>1, PTL

LEMMA SameSize ==
    ASSUME NEW sz
    PROVE  Queue!PowerOfTwoSize(sz) = PowerOfTwoSize(sz)
  BY DEF Queue!PowerOfTwoSize, Queue!PowersOfTwo, PowerOfTwoSize, PowersOfTwo

LEMMA ReserveRefines ==
    ASSUME RingInv, RingInv', NEW sz \in Sizes, Reserve(sz)
    PROVE  Queue!Reserved(sz)
<1>1. /\ \A t \in Threads : pc[t] = "idle"
      /\ PowerOfTwoSize(sz) > cap /\ cap' = PowerOfTwoSize(sz)
      /\ enqueue_pos' = 0 /\ UNCHANGED <<pc, pos, arg, result>>
  BY DEF Reserve
<1>2. SlotsBar' = << >>
  BY <1>1, EmptyBarNext DEF BarEmptied
<1>3. \A t \in Threads : CallBar[t] = "none"
  BY <1>1 DEF CallBar, PushPcs, DequeuePcs
<1>4. CallBar' = CallBar
  BY <1>1 DEF CallBar
<1>5. ResultBar' = ResultBar
  BY <1>1 DEF ResultBar
<1>. QED
  BY <1>1, <1>2, <1>3, <1>4, <1>5, SameSize DEF Queue!Reserved

LEMMA InitRefines == Init => Queue!SpecInit
<1>. SUFFICES ASSUME Init PROVE Queue!SpecInit
  OBVIOUS
<1>1. SlotsBar = << >>
  BY InitRingInv, EmptyBar DEF Init
<1>2. CallBar = [t \in Threads |-> "none"]
  BY DEF Init, CallBar, PushPcs, DequeuePcs
<1>3. ResultBar = [t \in Threads |-> "none"]
  BY DEF Init, ResultBar
<1>4. Queue!NoValue = NoValue
  BY DEF Queue!NoValue, NoValue
<1>. QED
  BY <1>1, <1>2, <1>3, <1>4, SameSize DEF Init, Queue!SpecInit

LEMMA StepRefines == RingInv /\ RingInv' /\ [Next]_vars => [Queue!SpecNext]_(Queue!specVars)
<1>. SUFFICES ASSUME RingInv, RingInv', [Next]_vars
              PROVE  [Queue!SpecNext]_(Queue!specVars)
  OBVIOUS
<1>1. ASSUME NEW t \in Threads,
             \/ \E v \in Values : PushCall(t, v)
             \/ DequeueCall(t) \/ PushStep(t) \/ DequeueStep(t)
      PROVE  [Queue!SpecNext]_(Queue!specVars)
  BY <1>1, PushRefines, DequeueRefines
<1>2. ASSUME NEW sz \in Sizes, Reserve(sz)
      PROVE  [Queue!SpecNext]_(Queue!specVars)
  BY <1>2, ReserveRefines DEF Queue!SpecNext
<1>3. CASE UNCHANGED vars
  <2>1. Frame /\ UNCHANGED <<data, cap, arg, pc, result>>
    BY <1>3 DEF vars, Frame, Pushing, Reading
  <2>2. SlotsBar' = SlotsBar
    BY <2>1, FrameSlots
  <2>3. CallBar' = CallBar
    BY <2>1 DEF CallBar
  <2>4. ResultBar' = ResultBar
    BY <2>1 DEF ResultBar
  <2>. QED
    BY <2>1, <2>2, <2>3, <2>4 DEF Queue!specVars
<1>. QED
  BY <1>1, <1>2, <1>3 DEF Next

\* The lock-free ring is a first-in first-out queue of capacity cap, for any
\* number of threads, values and cells: each push takes its place at its
\* compare-and-swap and is seen from its store of the sequence number on, each
\* dequeue takes the oldest published element, "full" and "empty" are only
\* reported of a queue that is, and no element is lost, duplicated or overtaken
\* (mpmc_queue_push_back, mpmc_queue_dequeue, mpmc_queue_reserve).
THEOREM QueueImplemented == Spec => ImplementsQueueSpec
<1>1. Init => Queue!SpecInit
  BY InitRefines
<1>2. RingInv /\ RingInv' /\ [Next]_vars => [Queue!SpecNext]_(Queue!specVars)
  BY StepRefines
<1>. QED
  BY <1>1, <1>2, InitRingInv, RingInvInductive, PTL
     DEF Spec, ImplementsQueueSpec, Queue!SpecSpec
=============================================================================
