------------------------- MODULE UndoManagerProofs -------------------------
(***************************************************************************)
(* What holds of the undo manager whatever the length of its stacks,       *)
(* whatever is undone from a menu, whatever fails and however many actions *)
(* an operation has: the type of the state, that the undo stack is the end *)
(* of the document, and that a saved project brings the stacks back.       *)
(***************************************************************************)
EXTENDS UndoManager, SequenceTheorems, FiniteSetTheorems, NaturalsInduction,
        WellFoundedInduction, TLAPS

Undoable == [kind : Kinds, edit : Edits, num_actions : 1..MaxEdits]
Crashed == [name |-> "none", at |-> "crashed"]
Performing == [name : {"perform"}, at : {"wait", "holding"}, left : Nat \ {0}, made : Nat,
               counts : {"last", "each"}, before : Addrs \cup {Nil}, of : Nat \ {0}]
Asking == [name : {"undo", "redo"}, at : {"wait", "holding"}, again : Nat]
Acting == [name : {"undo", "redo"}, at : {"acting"}, again : Nat, i : Nat, n : 1..MaxEdits]
Saving == [name : {"autosave"}, at : {"wait", "holding"}]

U == undo_stack.elements
R == redo_stack.elements
Stacked(s) == s \in Seq(Addrs) /\ IsInjective(s) /\ (MaxLength # -1 => Len(s) <= MaxLength)
StacksInv == Stacked(U) /\ Stacked(R) /\ ToSet(U) \cap ToSet(R) = {}
ActionsInv == /\ action \in [Addrs -> {Nil} \cup Undoable]
              /\ \A a \in ToSet(U) \cup ToSet(R) : action[a] # Nil

(* An operation has room for the edits it will make, and a call that holds *)
(* the semaphore may post it.                                              *)
CallInv ==
  /\ call \in {Idle, Crashed} \cup Performing \cup Asking \cup Acting \cup Saving
  /\ call \in Performing => /\ Len(group) + call.left <= MaxEdits /\ call.made <= Len(group)
                            /\ call.made > 0 => U # << >>
  /\ call \in Acting => call.i <= call.n
SemInv ==
  /\ action_sem \in 0..MaxPosts
  /\ call.at \in {"holding", "acting"} => action_sem < MaxPosts
(* The redo stack is locked only while a drag is cancelled.                *)
LockedInv ==
  /\ redo_stack_locked \in BOOLEAN
  /\ redo_stack_locked => \/ call.name = "perform" \/ call = Crashed
                          \/ call.name = "undo" /\ call.again = 0
CountsInv == /\ doc \in Seq(Edits) /\ saved_doc \in Seq(Edits)
             /\ made_at \in Seq(Seq(Edits)) /\ group \in Seq(Nat \ {0})
             /\ Len(made_at) = Len(group) /\ Len(group) <= MaxEdits
             /\ last_saved_action \in Addrs \cup {Nil}

TypeInv == StacksInv /\ ActionsInv /\ CallInv /\ SemInv /\ LockedInv /\ CountsInv

-----------------------------------------------------------------------------
(* Stacks of addresses.                                                    *)
LEMMA Bounds == /\ MaxEdits \in Nat \ {0} /\ MaxGroup \in Nat \ {0} /\ MaxPosts \in Nat \ {0}
                /\ MenuRows \subseteq Nat
                /\ MaxLength = -1 \/ MaxLength \in Nat \ {0}
BY BoundsAssumption, MenuAssumption, MaxLengthAssumption

LEMMA ToSetOf ==
  ASSUME NEW S, NEW s \in Seq(S)
  PROVE  /\ ToSet(s) = {s[i] : i \in 1..Len(s)} /\ ToSet(s) \subseteq S
         /\ s = << >> <=> Len(s) = 0
         /\ Len(s) \in Nat
<1>1. Len(s) \in Nat /\ DOMAIN s = 1..Len(s) /\ \A i \in 1..Len(s) : s[i] \in S
  BY LenProperties, ElementOfSeq
<1>2. s = << >> <=> Len(s) = 0
  BY EmptySeq
<1>. QED
  BY <1>1, <1>2 DEF ToSet

LEMMA Pushed ==
  ASSUME NEW S, NEW s \in Seq(S), NEW a \in S, IsInjective(s), a \notin ToSet(s)
  PROVE  LET t == Append(s, a)
         IN /\ t \in Seq(S) /\ IsInjective(t) /\ Len(t) = Len(s) + 1
            /\ ToSet(t) = ToSet(s) \cup {a}
            /\ t[Len(s) + 1] = a /\ \A i \in 1..Len(s) : t[i] = s[i]
<1>. DEFINE t == Append(s, a)
<1>1. PICK n \in Nat : n = Len(s)
  BY LenProperties
<1>2. DOMAIN s = 1..n /\ ToSet(s) = {s[i] : i \in 1..n}
  BY <1>1, LenProperties, ToSetOf
<1>3. t \in Seq(S) /\ Len(t) = n + 1 /\ t[n + 1] = a /\ \A i \in 1..n : t[i] = s[i]
  BY <1>1, AppendProperties
<1>. HIDE DEF t
<1>4. DOMAIN t = 1..(n + 1) /\ ToSet(t) = {t[i] : i \in 1..(n + 1)}
  <2>1. DOMAIN t = 1..Len(t) /\ ToSet(t) = {t[i] : i \in 1..Len(t)}
    BY <1>3, LenProperties, ToSetOf
  <2>. QED
    BY <1>3, <2>1
<1>5. \A i : i \in 1..(n + 1) <=> i \in 1..n \/ i = n + 1
  BY SMT
<1>6. ToSet(t) = ToSet(s) \cup {a}
  BY <1>2, <1>3, <1>4, <1>5
<1>7. IsInjective(t)
  BY <1>2, <1>3, <1>4, <1>5 DEF IsInjective
<1>. QED
  BY <1>1, <1>3, <1>6, <1>7 DEF t

LEMMA Dropped ==
  ASSUME NEW S, NEW s \in Seq(S), IsInjective(s), s # << >>
  PROVE  LET t == Tail(s)
         IN /\ t \in Seq(S) /\ IsInjective(t) /\ Len(t) = Len(s) - 1
            /\ Head(s) \in ToSet(s) /\ ToSet(t) = ToSet(s) \ {Head(s)}
            /\ \A i \in 1..(Len(s) - 1) : t[i] = s[i + 1]
<1>. DEFINE t == Tail(s)
<1>1. PICK n \in Nat \ {0} : n = Len(s)
  BY EmptySeq
<1>2. DOMAIN s = 1..n /\ ToSet(s) = {s[i] : i \in 1..n}
  BY <1>1, LenProperties, ToSetOf
<1>3. t \in Seq(S) /\ Len(t) = n - 1 /\ \A i \in 1..(n - 1) : t[i] = s[i + 1]
  BY <1>1, HeadTailProperties
<1>4. DOMAIN t = 1..(n - 1) /\ ToSet(t) = {t[i] : i \in 1..(n - 1)}
  BY <1>3, LenProperties, ToSetOf
<1>5. Head(s) = s[1]
  BY <1>1, HeadTailOfSubSeq, SubSeqFull
<1>. HIDE DEF t
<1>6. 1 \in 1..n
  BY SMT
<1>7. ASSUME NEW i \in 1..(n - 1)
      PROVE  t[i] \in ToSet(s) /\ t[i] # s[1] /\ t[i] = s[i + 1] /\ i + 1 \in 1..n
  <2>1. i + 1 \in 1..n /\ i + 1 # 1
    BY SMT
  <2>. QED
    BY <1>2, <1>3, <1>6, <2>1 DEF IsInjective
<1>8. ASSUME NEW i \in 1..n, s[i] # s[1] PROVE s[i] \in ToSet(t)
  <2>1. i # 1
    BY <1>8
  <2>2. i - 1 \in 1..(n - 1) /\ (i - 1) + 1 = i
    BY <2>1, SMT
  <2>3. t[i - 1] = s[i]
    BY <1>3, <2>2
  <2>. QED
    BY <1>4, <2>2, <2>3
<1>9. IsInjective(t)
  <2>1. SUFFICES ASSUME NEW i \in 1..(n - 1), NEW j \in 1..(n - 1), t[i] = t[j]
                 PROVE  i = j
    BY <1>4 DEF IsInjective
  <2>2. i + 1 = j + 1
    BY <1>2, <1>7, <2>1 DEF IsInjective
  <2>. QED
    BY <2>2, SMT
<1>10. ToSet(t) = ToSet(s) \ {s[1]} /\ s[1] \in ToSet(s)
  BY <1>2, <1>4, <1>6, <1>7, <1>8
<1>. QED
  BY <1>1, <1>3, <1>5, <1>9, <1>10 DEF t

LEMMA Popped ==
  ASSUME NEW S, NEW s \in Seq(S), IsInjective(s), s # << >>
  PROVE  LET t == Front(s)
         IN /\ t \in Seq(S) /\ IsInjective(t) /\ Len(t) = Len(s) - 1
            /\ Last(s) \in ToSet(s) /\ ToSet(t) = ToSet(s) \ {Last(s)}
            /\ \A i \in 1..(Len(s) - 1) : t[i] = s[i]
<1>. DEFINE t == Front(s)
<1>1. PICK n \in Nat \ {0} : n = Len(s)
  BY EmptySeq
<1>2. DOMAIN s = 1..n /\ ToSet(s) = {s[i] : i \in 1..n} /\ \A i \in 1..n : s[i] \in S
  BY <1>1, LenProperties, ToSetOf, ElementOfSeq
<1>3. /\ \A i \in 1..(n - 1) : i \in 1..n /\ i # n
      /\ \A i \in 1..n : i # n => i \in 1..(n - 1)
      /\ n \in 1..n /\ n - 1 \in Int /\ (1 <= n - 1 => n - 1 - 1 + 1 = n - 1)
      /\ (~(1 <= n - 1) => n - 1 = 0) /\ n - 1 - 1 + 1 = n - 1
      /\ \A i \in 1..(n - 1) : 1 + i - 1 = i
  BY SMT
<1>4. t \in Seq(S) /\ Len(t) = n - 1 /\ \A i \in 1..(n - 1) : t[i] = s[i]
  <2>1. t = SubSeq(s, 1, n - 1) /\ 1 \in Int /\ \A i \in 1..(n - 1) : s[i] \in S
    BY <1>1, <1>2, <1>3 DEF Front
  <2>2. /\ SubSeq(s, 1, n - 1) \in Seq(S)
        /\ Len(SubSeq(s, 1, n - 1)) = IF 1 <= n - 1 THEN n - 1 - 1 + 1 ELSE 0
        /\ \A i \in 1..(n - 1 - 1 + 1) : SubSeq(s, 1, n - 1)[i] = s[1 + i - 1]
    BY <1>3, <2>1, SubSeqProperties
  <2>. QED
    BY <1>3, <2>1, <2>2
<1>5. DOMAIN t = 1..(n - 1) /\ ToSet(t) = {t[i] : i \in 1..(n - 1)}
  BY <1>4, LenProperties, ToSetOf
<1>6. Last(s) = s[n]
  BY <1>1 DEF Last
<1>. HIDE DEF t
<1>7. ToSet(t) = ToSet(s) \ {s[n]} /\ s[n] \in ToSet(s)
  BY <1>2, <1>3, <1>4, <1>5 DEF IsInjective
<1>8. IsInjective(t)
  BY <1>2, <1>3, <1>4, <1>5 DEF IsInjective
<1>. QED
  BY <1>1, <1>4, <1>6, <1>7, <1>8 DEF t

(* Room for one more, at the cost of the oldest.                           *)
Full(s) == MaxLength # -1 /\ Len(s) = MaxLength
Evicted(s) == IF Full(s) THEN {Head(s)} ELSE {}
Room(s) == IF Full(s) THEN Tail(s) ELSE s

LEMMA RoomMade ==
  ASSUME NEW s, Stacked(s)
  PROVE  /\ Stacked(Room(s)) /\ ToSet(Room(s)) = ToSet(s) \ Evicted(s)
         /\ Evicted(s) \subseteq ToSet(s) /\ ~Full(Room(s))
         /\ Len(Room(s)) = (IF Full(s) THEN Len(s) - 1 ELSE Len(s)) /\ Len(Room(s)) \in Nat
         /\ \A i \in 1..Len(Room(s)) : Room(s)[i] = s[i + Len(s) - Len(Room(s))]
<1>1. s \in Seq(Addrs) /\ IsInjective(s) /\ Len(s) \in Nat
  BY ToSetOf DEF Stacked
<1>2. CASE Full(s)
  <2>1. s # << >> /\ MaxLength \in Nat \ {0} /\ Len(s) = MaxLength /\ MaxLength # -1
    BY <1>2, Bounds, EmptySeq DEF Full
  <2>2. /\ Tail(s) \in Seq(Addrs) /\ IsInjective(Tail(s)) /\ Len(Tail(s)) = Len(s) - 1
        /\ Head(s) \in ToSet(s) /\ ToSet(Tail(s)) = ToSet(s) \ {Head(s)}
        /\ \A i \in 1..(Len(s) - 1) : Tail(s)[i] = s[i + 1]
    BY <1>1, <2>1, Dropped
  <2>3. Room(s) = Tail(s) /\ Evicted(s) = {Head(s)}
    BY <1>2 DEF Room, Evicted
  <2>4. PICK n \in Nat \ {0} : n = Len(s)
    BY <2>1
  <2>5. n - 1 \in Nat /\ n - 1 <= n /\ n - 1 # n /\ \A i \in 1..(n - 1) : i + n - (n - 1) = i + 1
    BY SMT
  <2>. QED
    BY <1>2, <2>1, <2>2, <2>3, <2>4, <2>5 DEF Stacked, Full
<1>3. CASE ~Full(s)
  <2>1. Room(s) = s /\ Evicted(s) = {}
    BY <1>3 DEF Room, Evicted
  <2>2. PICK n \in Nat : n = Len(s)
    BY <1>1
  <2>3. \A i \in 1..n : i + n - n = i
    BY SMT
  <2>. QED
    BY <1>3, <2>1, <2>2, <2>3
<1>. QED
  BY <1>2, <1>3

LEMMA PushedWithRoom ==
  ASSUME NEW s, Stacked(s), NEW a \in Addrs, a \notin ToSet(s)
  PROVE  LET t == Append(Room(s), a)
         IN /\ Stacked(t) /\ t # << >> /\ ToSet(t) = (ToSet(s) \ Evicted(s)) \cup {a}
            /\ Len(t) = Len(Room(s)) + 1 /\ t[Len(t)] = a
            /\ \A i \in 1..Len(Room(s)) : t[i] = s[i + Len(s) - Len(Room(s))]
<1>. DEFINE t == Append(Room(s), a)
<1>1. /\ Stacked(Room(s)) /\ ToSet(Room(s)) = ToSet(s) \ Evicted(s) /\ ~Full(Room(s))
      /\ Len(Room(s)) \in Nat
      /\ \A i \in 1..Len(Room(s)) : Room(s)[i] = s[i + Len(s) - Len(Room(s))]
  BY RoomMade
<1>2. /\ t \in Seq(Addrs) /\ IsInjective(t) /\ Len(t) = Len(Room(s)) + 1
      /\ ToSet(t) = ToSet(Room(s)) \cup {a}
      /\ t[Len(Room(s)) + 1] = a /\ \A i \in 1..Len(Room(s)) : t[i] = Room(s)[i]
  <2>1. Room(s) \in Seq(Addrs) /\ IsInjective(Room(s)) /\ a \notin ToSet(Room(s))
    BY <1>1 DEF Stacked
  <2>. QED
    BY <2>1, Pushed
<1>3. MaxLength # -1 => Len(t) <= MaxLength
  BY <1>1, <1>2, Bounds DEF Stacked, Full
<1>4. t # << >>
  BY <1>1, <1>2, EmptySeq
<1>. HIDE DEF t
<1>. QED
  BY <1>1, <1>2, <1>3, <1>4 DEF Stacked, t

(* undo_stack_push after undo_stack_pop_last, if it was full.              *)
LEMMA PushedElements ==
  ASSUME NEW s, Stacked(s.elements), NEW a, NEW k
  PROVE  Push(IF IsFull(s) THEN PopLast(s) ELSE s, a, k).elements = Append(Room(s.elements), a)
<1>1. IsFull(s) <=> Full(s.elements)
  BY DEF IsFull, Full
<1>2. PopLast(s).elements = Tail(s.elements)
  BY DEF PopLast, RemoveAction
<1>3. ~Full(Room(s.elements))
  BY RoomMade
<1>4. \A t : Push(t, a, k).elements = IF IsFull(t) THEN t.elements ELSE Append(t.elements, a)
  BY DEF Push
<1>5. CASE IsFull(s)
  <2>1. Room(s.elements) = PopLast(s).elements
    BY <1>1, <1>2, <1>5 DEF Room
  <2>2. ~IsFull(PopLast(s))
    BY <1>3, <2>1 DEF IsFull, Full
  <2>. QED
    BY <1>4, <1>5, <2>1, <2>2
<1>6. CASE ~IsFull(s)
  BY <1>1, <1>4, <1>6 DEF Room
<1>. QED
  BY <1>5, <1>6
-----------------------------------------------------------------------------
(* What the steps do to the stacks and to the actions on them.             *)
LEMMA InUndoable ==
  ASSUME NEW k \in Kinds, NEW e \in Edits, NEW n \in 1..MaxEdits
  PROVE  LET r == [kind |-> k, edit |-> e, num_actions |-> n]
         IN r \in Undoable /\ r # Nil /\ r.edit = e /\ r.num_actions = n /\ r.kind = k
BY NilAssumption DEF Undoable, Edits

LEMMA Renumber ==
  ASSUME NEW r \in Undoable, NEW n \in 1..MaxEdits
  PROVE  LET q == [r EXCEPT !.num_actions = n]
         IN q \in Undoable /\ q # Nil /\ q.edit = r.edit /\ q.num_actions = n /\ q.kind = r.kind
<1>1. /\ r.kind \in Kinds /\ r.edit \in Edits
      /\ [r EXCEPT !.num_actions = n] = [kind |-> r.kind, edit |-> r.edit, num_actions |-> n]
  BY DEF Undoable
<1>. QED
  BY <1>1, InUndoable

LEMMA NilIsNoAction == Nil \notin Undoable /\ Nil \notin Addrs
BY NilAssumption DEF Undoable, Edits

(* The actions in S keep their edits; only numbers of actions change.      *)
EditsKept(S) == \A b \in S : action'[b] # Nil /\ action'[b].edit = action[b].edit

LEMMA PerformEffect ==
  ASSUME TypeInv, NEW a \in Addrs, NEW k \in Kinds, PerformAction(a, k)
  PROVE  /\ call \in Performing /\ call.at = "holding" /\ a \notin ToSet(U) \cup ToSet(R)
         /\ Len(group) + 1 \in Edits /\ call.made + 1 \in 1..MaxEdits
         /\ U' = Append(Room(U), a) /\ R' = (IF redo_stack_locked THEN R ELSE << >>)
         /\ action' \in [Addrs -> {Nil} \cup Undoable]
         /\ action'[a] \in Undoable /\ action'[a].edit = Len(group) + 1 /\ action'[a].kind = k
         /\ call.left = 1 \/ call.counts = "each" => action'[a].num_actions = call.made + 1
         /\ \A b \in ToSet(Room(U)) \cup ToSet(R') : b # a /\ action'[b] = action[b]
<1>. DEFINE e == Len(group) + 1
            full == IsFull(undo_stack)
            evicted == IF full THEN {Head(undo_stack.elements)} ELSE {}
            undone == ToSet(redo_stack.elements) \ ToSet(RedoAfterPerform.elements)
            made == call.made + 1
            rec == [kind |-> k, edit |-> e,
                    num_actions |-> IF call.counts = "each" THEN made ELSE 1]
            freed == Free(evicted \cup undone)
            acts == [freed EXCEPT ![a] = rec]
<1>1. /\ call.name = "perform" /\ call.at = "holding" /\ a \notin Live
      /\ undo_stack' = Push(IF full THEN PopLast(undo_stack) ELSE undo_stack, a, k)
      /\ redo_stack' = RedoAfterPerform
      /\ IF call.left = 1 THEN EndPerform(a, acts, made) ELSE action' = acts
  BY DEF PerformAction
<1>2. call \in Performing
  BY <1>1 DEF TypeInv, CallInv, Idle, Crashed, Asking, Acting, Saving
<1>3. /\ Stacked(U) /\ Stacked(R) /\ ToSet(U) \cap ToSet(R) = {}
      /\ U \in Seq(Addrs) /\ R \in Seq(Addrs)
      /\ action \in [Addrs -> {Nil} \cup Undoable]
      /\ \A b \in ToSet(U) \cup ToSet(R) : action[b] # Nil
      /\ ToSet(U) \subseteq Addrs /\ ToSet(R) \subseteq Addrs
  BY ToSetOf DEF TypeInv, StacksInv, ActionsInv, Stacked
<1>4. a \notin ToSet(U) \cup ToSet(R)
  BY <1>1, <1>3 DEF Live
<1>5. e \in Edits /\ made \in 1..MaxEdits /\ 1 \in 1..MaxEdits
  <2>1. /\ call.left \in Nat \ {0} /\ call.made \in Nat /\ Len(group) \in Nat
        /\ Len(group) + call.left <= MaxEdits /\ call.made <= Len(group)
    BY <1>2, ToSetOf DEF TypeInv, CallInv, CountsInv, Performing
  <2>. QED
    BY <2>1, Bounds DEF Edits
<1>6. rec \in Undoable /\ rec # Nil /\ rec.edit = e /\ rec.kind = k
      /\ rec.num_actions = IF call.counts = "each" THEN made ELSE 1
  BY <1>5, InUndoable
<1>. HIDE DEF rec, made, e
<1>7. U' = Append(Room(U), a)
  BY <1>1, <1>3, PushedElements DEF U
<1>8. R' = (IF redo_stack_locked THEN R ELSE << >>)
  BY <1>1 DEF RedoAfterPerform, EmptyStack, R
<1>9. evicted = Evicted(U) /\ ToSet(Room(U)) = ToSet(U) \ Evicted(U) /\ Evicted(U) \subseteq ToSet(U)
  BY <1>3, RoomMade DEF IsFull, Full, Evicted, U
<1>10. undone = ToSet(R) \ ToSet(R') /\ ToSet(R') \subseteq ToSet(R)
  <2>1. ToSet(<< >>) = {}
    BY DEF ToSet
  <2>. QED
    BY <1>1, <1>8, <2>1 DEF R
<1>. HIDE DEF evicted, undone
<1>11. /\ acts \in [Addrs -> {Nil} \cup Undoable] /\ acts[a] = rec
       /\ \A b \in Addrs : b # a => acts[b] = IF b \in evicted \cup undone THEN Nil ELSE action[b]
  <2>1. /\ freed \in [Addrs -> {Nil} \cup Undoable]
        /\ \A b \in Addrs : freed[b] = IF b \in evicted \cup undone THEN Nil ELSE action[b]
    BY <1>3 DEF Free
  <2>. HIDE DEF freed
  <2>. QED
    BY <1>6, <2>1
<1>. HIDE DEF acts
<1>12. \A b \in ToSet(Room(U)) \cup ToSet(R') : b # a /\ b \in Addrs /\ acts[b] = action[b]
  BY <1>3, <1>4, <1>9, <1>10, <1>11
<1>13. \/ action' = acts /\ (call.left # 1 \/ made = 0)
       \/ action' = [acts EXCEPT ![a].num_actions = made]
  BY <1>1 DEF EndPerform
<1>14. CASE action' = acts /\ (call.left # 1 \/ made = 0)
  <2>1. call.left # 1
    BY <1>5, <1>14
  <2>. QED
    BY <1>1, <1>2, <1>4, <1>5, <1>6, <1>7, <1>8, <1>11, <1>12, <1>14, <2>1 DEF e, made
<1>15. CASE action' = [acts EXCEPT ![a].num_actions = made]
  <2>. DEFINE q == [rec EXCEPT !.num_actions = made]
  <2>1. q \in Undoable /\ q.edit = e /\ q.num_actions = made /\ q.kind = k
    BY <1>5, <1>6, Renumber
  <2>2. action' = [acts EXCEPT ![a] = q]
    BY <1>11, <1>15
  <2>. HIDE DEF q
  <2>3. /\ action' \in [Addrs -> {Nil} \cup Undoable] /\ action'[a] = q
        /\ \A b \in Addrs : b # a => action'[b] = acts[b]
    BY <1>11, <2>1, <2>2
  <2>. QED
    BY <1>1, <1>2, <1>4, <1>5, <1>7, <1>8, <1>12, <2>1, <2>3 DEF e, made
<1>. QED
  BY <1>13, <1>14, <1>15
(* Where an action is taken from, and where it goes.                       *)
Source == From.elements
Goal == To.elements
Top == Last(Source)
Withdrawn == redo_stack_locked /\ call.name = "undo"

LEMMA Sides ==
  ASSUME TypeInv
  PROVE  /\ call.name = "undo" => Source = U /\ Goal = R
         /\ call.name # "undo" => Source = R /\ Goal = U
         /\ Stacked(Source) /\ Stacked(Goal) /\ ToSet(Source) \cap ToSet(Goal) = {}
         /\ ToSet(Source) \cup ToSet(Goal) = OnStacks /\ OnStacks = ToSet(U) \cup ToSet(R)
         /\ OnStacks \subseteq Addrs /\ \A a \in OnStacks : action[a] \in Undoable
<1>1. /\ call.name = "undo" => Source = U /\ Goal = R
      /\ call.name # "undo" => Source = R /\ Goal = U
  BY DEF Source, Goal, From, To, U, R
<1>2. OnStacks = ToSet(U) \cup ToSet(R)
  BY DEF OnStacks, U, R
<1>3. /\ Stacked(U) /\ Stacked(R) /\ ToSet(U) \cap ToSet(R) = {}
      /\ ToSet(U) \subseteq Addrs /\ ToSet(R) \subseteq Addrs
  BY ToSetOf DEF TypeInv, StacksInv, Stacked
<1>4. \A a \in OnStacks : action[a] \in Undoable
  BY <1>2, <1>3 DEF TypeInv, ActionsInv
<1>. QED
  BY <1>1, <1>2, <1>3, <1>4

LEMMA MoveEffect ==
  ASSUME TypeInv, UndoOrRedoOne
  PROVE  /\ call \in Acting /\ call.i < call.n /\ Source # << >> /\ Top \in ToSet(Source)
         /\ call.name = "undo" => U' = Front(Source) /\ R' = (IF Withdrawn THEN Goal ELSE Append(Room(Goal), Top))
         /\ call.name # "undo" => R' = Front(Source) /\ U' = Append(Room(Goal), Top)
         /\ action' \in [Addrs -> {Nil} \cup Undoable]
         /\ \A b \in ToSet(U') \cup ToSet(R') :
              /\ b \in OnStacks /\ action'[b] \in Undoable
              /\ action'[b].edit = action[b].edit /\ action'[b].kind = action[b].kind
              /\ b # Top => action'[b] = action[b]
         /\ ~Withdrawn => action'[Top].num_actions =
                            IF call.i = 0 THEN 1 ELSE IF call.i = call.n - 1 THEN call.n
                            ELSE action[Top].num_actions
<1>. DEFINE a == Top
            moved == IF Withdrawn THEN Goal ELSE Append(Room(Goal), a)
            gone == (OnStacks \cup {a}) \ (ToSet(Moved(a).elements) \cup ToSet(From.elements))
<1>1. /\ call.at = "acting" /\ call.i < call.n /\ Source # << >>
      /\ action' = [b \in Addrs |-> IF b \in gone THEN Nil ELSE Renumbered(a)[b]]
      /\ undo_stack' = IF call.name = "undo" THEN Pop(undo_stack) ELSE Moved(a)
      /\ redo_stack' = IF call.name = "undo" THEN Moved(a) ELSE Pop(redo_stack)
  BY DEF UndoOrRedoOne, Source, Top, Peek
<1>2. call \in Acting
  BY <1>1 DEF TypeInv, CallInv, Idle, Crashed, Performing, Asking, Saving
<1>3. /\ call.name = "undo" => Source = U /\ Goal = R
      /\ call.name # "undo" => Source = R /\ Goal = U
      /\ Stacked(Source) /\ Stacked(Goal) /\ ToSet(Source) \cap ToSet(Goal) = {}
      /\ ToSet(Source) \cup ToSet(Goal) = OnStacks
      /\ OnStacks \subseteq Addrs /\ \A b \in OnStacks : action[b] \in Undoable
  BY Sides
<1>4. a \in ToSet(Source) /\ ToSet(Front(Source)) = ToSet(Source) \ {a} /\ a \in OnStacks
  BY <1>1, <1>3, Popped DEF Stacked, Top
<1>5. Moved(a).elements = moved
  <2>1. CASE Withdrawn
    BY <2>1 DEF Moved, Withdrawn, Goal
  <2>2. CASE ~Withdrawn
    <3>1. Moved(a) = Push(IF IsFull(To) THEN PopLast(To) ELSE To, a, action[a].kind)
      BY <2>2 DEF Moved, Withdrawn
    <3>2. Push(IF IsFull(To) THEN PopLast(To) ELSE To, a, action[a].kind).elements
            = Append(Room(Goal), a)
      BY <1>3, PushedElements DEF Goal
    <3>. QED
      BY <2>2, <3>1, <3>2
  <2>. QED
    BY <2>1, <2>2
<1>6. \A s : Pop(s).elements = Front(s.elements)
  BY DEF Pop, RemoveAction
<1>7. /\ call.name = "undo" => U' = Front(Source) /\ R' = moved
      /\ call.name # "undo" => R' = Front(Source) /\ U' = moved /\ ~Withdrawn
  BY <1>1, <1>3, <1>5, <1>6 DEF U, R, Withdrawn
<1>8. ToSet(moved) \subseteq ToSet(Goal) \cup {a}
  <2>1. a \in Addrs /\ a \notin ToSet(Goal)
    BY <1>3, <1>4
  <2>. QED
    BY <1>3, <2>1, PushedWithRoom
<1>9. ToSet(U') \cup ToSet(R') \subseteq ToSet(moved) \cup ToSet(Source)
  BY <1>4, <1>7
<1>10. \A b \in ToSet(U') \cup ToSet(R') : b \notin gone /\ b \in OnStacks
  BY <1>3, <1>4, <1>5, <1>8, <1>9 DEF Source
<1>. HIDE DEF gone, moved
<1>11. call.n \in 1..MaxEdits /\ 1 \in 1..MaxEdits /\ call.i \in Nat
  BY <1>2, Bounds DEF Acting
<1>. DEFINE num == IF call.i = 0 THEN 1 ELSE IF call.i = call.n - 1 THEN call.n
                   ELSE action[a].num_actions
<1>12. /\ Renumbered(a) \in [Addrs -> {Nil} \cup Undoable]
       /\ \A b \in Addrs : b # a => Renumbered(a)[b] = action[b]
       /\ Renumbered(a)[a] \in Undoable /\ Renumbered(a)[a].edit = action[a].edit
       /\ Renumbered(a)[a].kind = action[a].kind
       /\ Renumbered(a)[a].num_actions = num
  <2>1. action \in [Addrs -> {Nil} \cup Undoable] /\ a \in Addrs /\ action[a] \in Undoable
    BY <1>3, <1>4 DEF TypeInv, ActionsInv
  <2>2. PICK n \in 1..MaxEdits :
          /\ n = num
          /\ \/ Renumbered(a) = [action EXCEPT ![a].num_actions = n]
             \/ Renumbered(a) = action /\ action[a].num_actions = n
    <3>1. action[a].num_actions \in 1..MaxEdits
      BY <2>1 DEF Undoable
    <3>2. num \in 1..MaxEdits
      BY <1>11, <3>1
    <3>3. \/ Renumbered(a) = [action EXCEPT ![a].num_actions = num]
          \/ Renumbered(a) = action /\ action[a].num_actions = num
      <4>1. CASE call.i = 0
        BY <4>1 DEF Renumbered
      <4>2. CASE call.i # 0 /\ call.i = call.n - 1
        BY <4>2 DEF Renumbered
      <4>3. CASE call.i # 0 /\ call.i # call.n - 1
        BY <4>3 DEF Renumbered
      <4>. QED
        BY <4>1, <4>2, <4>3
    <3>. HIDE DEF num
    <3>. QED
      BY <3>2, <3>3
  <2>. DEFINE q == [action[a] EXCEPT !.num_actions = n]
  <2>3. q \in Undoable /\ q.edit = action[a].edit /\ q.num_actions = n /\ q.kind = action[a].kind
    BY <2>1, Renumber
  <2>4. [action EXCEPT ![a].num_actions = n] = [action EXCEPT ![a] = q]
    BY <2>1
  <2>. HIDE DEF q, num
  <2>. QED
    BY <2>1, <2>2, <2>3, <2>4
<1>. HIDE DEF num
<1>13. /\ action' \in [Addrs -> {Nil} \cup Undoable]
       /\ \A b \in Addrs : b \notin gone => action'[b] = Renumbered(a)[b]
  BY <1>1, <1>12
<1>14. \A b \in ToSet(U') \cup ToSet(R') :
         /\ b \in OnStacks /\ action'[b] \in Undoable
         /\ action'[b].edit = action[b].edit /\ action'[b].kind = action[b].kind
         /\ b # a => action'[b] = action[b]
  BY <1>3, <1>10, <1>12, <1>13
<1>15. ~Withdrawn => action'[a].num_actions = num
  <2>1. SUFFICES a \notin gone
    BY <1>3, <1>4, <1>12, <1>13
  <2>. QED
    BY <1>4 DEF gone, Source
<1>. QED
  BY <1>1, <1>2, <1>4, <1>7, <1>13, <1>14, <1>15 DEF moved, num

(* A call that only waits, or asks.                                        *)
Quiet == UNCHANGED <<undo_stack, redo_stack, action, doc, made_at, group>>
(* A call that fails changes at most the size of a group.                  *)
Renumbers == /\ UNCHANGED <<undo_stack, redo_stack, doc, made_at, group>>
             /\ action' \in [Addrs -> {Nil} \cup Undoable]
             /\ \A b \in Addrs : /\ action[b] = Nil <=> action'[b] = Nil
                                 /\ action[b] # Nil => /\ action'[b].edit = action[b].edit
                                                       /\ action'[b].kind = action[b].kind

LEMMA QuietRenumbers == TypeInv /\ Quiet => Renumbers
BY DEF TypeInv, ActionsInv, Quiet, Renumbers
LEMMA RenumberStacks ==
  ASSUME TypeInv, Renumbers
  PROVE  /\ StacksInv' /\ ActionsInv' /\ U' = U /\ R' = R
         /\ EditsKept(OnStacks) /\ UNCHANGED <<doc, made_at, group>>
<1>1. /\ U' = U /\ R' = R /\ UNCHANGED <<doc, made_at, group>>
      /\ action' \in [Addrs -> {Nil} \cup Undoable]
      /\ \A b \in Addrs : /\ action[b] = Nil <=> action'[b] = Nil
                          /\ action[b] # Nil => action'[b].edit = action[b].edit
  BY DEF Renumbers, U, R
<1>2. OnStacks = ToSet(U) \cup ToSet(R) /\ OnStacks \subseteq Addrs
  BY Sides
<1>3. \A b \in OnStacks : action[b] # Nil
  BY <1>2 DEF TypeInv, ActionsInv
<1>4. EditsKept(OnStacks)
  BY <1>1, <1>2, <1>3 DEF EditsKept
<1>5. StacksInv'
  BY <1>1 DEF TypeInv, StacksInv, Stacked
<1>6. ActionsInv'
  BY <1>1, <1>2, <1>4 DEF ActionsInv, EditsKept
<1>. QED
  BY <1>1, <1>4, <1>5, <1>6

LEMMA PerformStacks ==
  ASSUME TypeInv, NEW a \in Addrs, NEW k \in Kinds, PerformAction(a, k)
  PROVE  StacksInv' /\ ActionsInv' /\ U' # << >>
<1>1. /\ a \notin ToSet(U) \cup ToSet(R)
      /\ U' = Append(Room(U), a) /\ R' = (IF redo_stack_locked THEN R ELSE << >>)
      /\ action' \in [Addrs -> {Nil} \cup Undoable] /\ action'[a] \in Undoable
      /\ \A b \in ToSet(Room(U)) \cup ToSet(R') : b # a /\ action'[b] = action[b]
  BY PerformEffect
<1>2. /\ Stacked(U) /\ Stacked(R) /\ ToSet(U) \cap ToSet(R) = {}
      /\ \A b \in ToSet(U) \cup ToSet(R) : action[b] # Nil
  BY DEF TypeInv, StacksInv, ActionsInv
<1>3. Stacked(U') /\ U' # << >> /\ ToSet(U') = ToSet(Room(U)) \cup {a} /\ ToSet(Room(U)) \subseteq ToSet(U)
  <2>1. ToSet(Room(U)) = ToSet(U) \ Evicted(U)
    BY <1>2, RoomMade
  <2>2. Stacked(Append(Room(U), a)) /\ Append(Room(U), a) # << >>
    BY <1>1, <1>2, PushedWithRoom
  <2>3. ToSet(Append(Room(U), a)) = (ToSet(U) \ Evicted(U)) \cup {a}
    BY <1>1, <1>2, PushedWithRoom
  <2>. QED
    BY <1>1, <2>1, <2>2, <2>3
<1>4. Stacked(R') /\ ToSet(R') \subseteq ToSet(R)
  <2>1. ToSet(<< >>) = {} /\ IsInjective(<< >>) /\ << >> \in Seq(Addrs) /\ Len(<< >>) = 0
    BY EmptySeq DEF ToSet, IsInjective
  <2>2. Stacked(<< >>)
    BY <2>1, Bounds DEF Stacked
  <2>. QED
    BY <1>1, <1>2, <2>1, <2>2
<1>5. StacksInv'
  BY <1>1, <1>2, <1>3, <1>4 DEF StacksInv, Stacked
<1>6. \A b \in ToSet(U') \cup ToSet(R') : action'[b] # Nil
  BY <1>1, <1>2, <1>3, <1>4, NilIsNoAction
<1>. QED
  BY <1>1, <1>3, <1>5, <1>6 DEF ActionsInv

LEMMA MoveStacks ==
  ASSUME TypeInv, UndoOrRedoOne
  PROVE  StacksInv' /\ ActionsInv'
<1>1. /\ Source # << >> /\ Top \in ToSet(Source)
      /\ call.name = "undo" => U' = Front(Source) /\ R' = (IF Withdrawn THEN Goal ELSE Append(Room(Goal), Top))
      /\ call.name # "undo" => R' = Front(Source) /\ U' = Append(Room(Goal), Top)
      /\ action' \in [Addrs -> {Nil} \cup Undoable]
      /\ \A b \in ToSet(U') \cup ToSet(R') : action'[b] \in Undoable
  BY MoveEffect
<1>2. /\ Stacked(Source) /\ Stacked(Goal) /\ ToSet(Source) \cap ToSet(Goal) = {}
      /\ ToSet(Source) \subseteq Addrs
  BY Sides
<1>3. Stacked(Front(Source)) /\ ToSet(Front(Source)) = ToSet(Source) \ {Top}
  <2>1. PICK n \in Nat : n = Len(Source)
    BY <1>2, ToSetOf DEF Stacked
  <2>2. /\ Front(Source) \in Seq(Addrs) /\ IsInjective(Front(Source))
        /\ Len(Front(Source)) = n - 1 /\ ToSet(Front(Source)) = ToSet(Source) \ {Top}
    BY <1>1, <1>2, <2>1, Popped DEF Stacked, Top
  <2>3. n <= MaxLength => n - 1 <= MaxLength
    BY Bounds
  <2>. QED
    BY <1>2, <2>1, <2>2, <2>3 DEF Stacked
<1>4. /\ Stacked(Append(Room(Goal), Top))
      /\ ToSet(Append(Room(Goal), Top)) \subseteq ToSet(Goal) \cup {Top}
  BY <1>1, <1>2, PushedWithRoom
<1>5. StacksInv'
  BY <1>1, <1>2, <1>3, <1>4 DEF StacksInv, Stacked
<1>. QED
  BY <1>1, <1>5, NilIsNoAction DEF ActionsInv

-----------------------------------------------------------------------------
(* The call.                                                               *)
LEMMA CallShapes ==
  /\ Idle \notin Performing \cup Asking \cup Acting \cup Saving
  /\ Crashed \notin Performing \cup Asking \cup Acting \cup Saving
  /\ \A c \in Performing : c \notin Asking \cup Acting \cup Saving
  /\ \A c \in Asking : c \notin Performing \cup Acting \cup Saving
  /\ \A c \in Acting : c \notin Performing \cup Asking \cup Saving
  /\ \A c \in Saving : c \notin Performing \cup Asking \cup Acting
BY DEF Idle, Crashed, Performing, Asking, Acting, Saving

LEMMA Asked ==
  ASSUME NEW name \in {"undo", "redo"}, NEW again \in Nat
  PROVE  LET c == [name |-> name, at |-> "wait", again |-> again]
         IN c \in Asking /\ c.name = name /\ c.at = "wait" /\ c.again = again
BY DEF Asking

LEMMA AskedCall ==
  ASSUME call' \in Asking \cup {Idle, Crashed} \cup Saving
  PROVE  CallInv'
BY CallShapes DEF CallInv

LEMMA IdleCall == Idle.name = "none" /\ Idle.at = "idle" /\ Crashed.name = "none" /\ Crashed.at = "crashed"
BY DEF Idle, Crashed

LEMMA Returned ==
  ASSUME TypeInv, call \in Asking \cup Acting, Return
  PROVE  CallInv' /\ LockedInv' /\ call'.at \in {"wait", "idle"}
<1>1. call.name \in {"undo", "redo"} /\ call.again \in Nat
  BY DEF Asking, Acting
<1>2. CASE call.again > 0
  <2>1. /\ call' = [name |-> call.name, at |-> "wait", again |-> call.again - 1]
        /\ redo_stack_locked' = redo_stack_locked /\ call.again - 1 \in Nat
    BY <1>1, <1>2 DEF Return
  <2>2. call' \in Asking /\ call'.at = "wait"
    BY <1>1, <2>1, Asked
  <2>3. redo_stack_locked \in BOOLEAN /\ ~redo_stack_locked
    BY <1>1, <1>2, IdleCall DEF TypeInv, LockedInv
  <2>. QED
    BY <2>1, <2>2, <2>3, AskedCall DEF LockedInv
<1>3. CASE ~(call.again > 0)
  <2>1. call' = Idle /\ redo_stack_locked' = FALSE
    BY <1>3 DEF Return
  <2>. QED
    BY <2>1, AskedCall, IdleCall DEF LockedInv
<1>. QED
  BY <1>2, <1>3

LEMMA EndedPerform ==
  ASSUME TypeInv, call \in Performing, NEW last, NEW acts, NEW made, EndPerform(last, acts, made)
  PROVE  /\ CallInv' /\ LockedInv' /\ call'.at \in {"wait", "idle"}
         /\ \/ call' = Idle /\ redo_stack_locked' = FALSE
            \/ /\ redo_stack_locked /\ redo_stack_locked' = redo_stack_locked
               /\ last # call.before
               /\ call' = [name |-> "undo", at |-> "wait", again |-> 0]
<1>1. \/ call' = Idle /\ redo_stack_locked' = FALSE
      \/ /\ redo_stack_locked /\ redo_stack_locked' = redo_stack_locked
         /\ last # call.before
         /\ call' = [name |-> "undo", at |-> "wait", again |-> 0]
  BY DEF EndPerform
<1>2. CASE call' = Idle /\ redo_stack_locked' = FALSE
  BY <1>2, AskedCall, IdleCall DEF LockedInv
<1>3. CASE /\ redo_stack_locked /\ redo_stack_locked' = redo_stack_locked
           /\ last # call.before
           /\ call' = [name |-> "undo", at |-> "wait", again |-> 0]
  <2>1. call' \in Asking /\ call'.name = "undo" /\ call'.at = "wait" /\ call'.again = 0
    BY <1>3, Asked
  <2>. QED
    BY <1>3, <2>1, AskedCall DEF LockedInv, TypeInv
<1>. QED
  BY <1>1, <1>2, <1>3
-----------------------------------------------------------------------------
(* Every step keeps the types.                                             *)
LEMMA QuietTypes ==
  ASSUME TypeInv, Quiet, CallInv', SemInv', LockedInv',
         saved_doc' \in Seq(Edits), last_saved_action' \in Addrs \cup {Nil}
  PROVE  TypeInv'
<1>1. StacksInv' /\ ActionsInv'
  BY QuietRenumbers, RenumberStacks
<1>2. CountsInv'
  BY DEF TypeInv, CountsInv, Quiet
<1>. QED
  BY <1>1, <1>2 DEF TypeInv

LEMMA LastActionIs ==
  ASSUME TypeInv
  PROVE  /\ U = << >> => LastAction = Nil
         /\ U # << >> => LastAction \in ToSet(U) /\ LastAction = Last(U) /\ action[LastAction] \in Undoable
         /\ LastAction \in Addrs \cup {Nil}
<1>1. U = << >> => LastAction = Nil
  BY DEF LastAction, U
<1>2. ASSUME U # << >>
      PROVE  /\ LastAction \in ToSet(U) /\ LastAction = Last(U)
             /\ LastAction \in Addrs /\ action[LastAction] \in Undoable
  <2>1. LastAction = Last(U)
    BY <1>2 DEF LastAction, Peek, U
  <2>2. Last(U) \in ToSet(U)
    BY <1>2, Popped DEF TypeInv, StacksInv, Stacked
  <2>. QED
    BY <2>1, <2>2, Sides
<1>. QED
  BY <1>1, <1>2

LEMMA BeginPerformTypes ==
  ASSUME TypeInv, NEW n \in 1..MaxGroup, NEW counts \in {"last", "each"},
         NEW cancelled \in BOOLEAN, BeginPerform(n, counts, cancelled)
  PROVE  TypeInv'
<1>. DEFINE of == 1 + (IF group = << >> THEN 0 ELSE Last(group))
<1>1. /\ call = Idle /\ Len(group) + n <= MaxEdits
      /\ call' = [name |-> "perform", at |-> "wait", left |-> n, made |-> 0,
                  counts |-> counts, before |-> LastAction, of |-> of]
      /\ redo_stack_locked' = cancelled /\ Quiet
      /\ UNCHANGED <<action_sem, saved_doc, last_saved_action>>
  BY DEF BeginPerform, Quiet
<1>2. of \in Nat \ {0} /\ Len(group) \in Nat
  <2>1. group \in Seq(Nat \ {0})
    BY DEF TypeInv, CountsInv
  <2>2. group # << >> => Last(group) \in Nat
    <3>1. group # << >> => Len(group) \in 1..Len(group)
      BY <2>1, EmptySeq
    <3>. QED
      BY <2>1, <3>1, ElementOfSeq DEF Last
  <2>. QED
    BY <2>1, <2>2, LenProperties
<1>. HIDE DEF of
<1>3. /\ call' \in Performing /\ call'.at = "wait" /\ call'.name = "perform"
      /\ call'.left = n /\ call'.made = 0
  <2>1. n \in Nat \ {0} /\ LastAction \in Addrs \cup {Nil}
    BY LastActionIs, Bounds
  <2>. QED
    BY <1>1, <1>2, <2>1 DEF Performing
<1>4. CallInv'
  <2>1. /\ group' = group /\ 0 <= Len(group) /\ ~(0 > 0)
    BY <1>1, <1>2 DEF Quiet
  <2>. QED
    BY <1>1, <1>3, <2>1, CallShapes DEF CallInv
<1>5. SemInv' /\ LockedInv'
  BY <1>1, <1>3 DEF TypeInv, SemInv, LockedInv
<1>. QED
  BY <1>1, <1>4, <1>5, QuietTypes DEF TypeInv, CountsInv

LEMMA WaitTypes ==
  ASSUME TypeInv, Wait
  PROVE  TypeInv' /\ Quiet
<1>1. /\ call.at = "wait" /\ action_sem > 0 /\ action_sem' = action_sem - 1
      /\ call' = [call EXCEPT !.at = "holding"] /\ Quiet
      /\ UNCHANGED <<saved_doc, last_saved_action, redo_stack_locked>>
  BY DEF Wait, Quiet
<1>2. call \in Performing \cup Asking \cup Saving
  BY <1>1, IdleCall DEF TypeInv, CallInv, Acting
<1>3. SemInv'
  <2>1. action_sem \in 0..MaxPosts /\ MaxPosts \in Nat
    BY Bounds DEF TypeInv, SemInv
  <2>2. action_sem' \in 0..MaxPosts /\ action_sem' < MaxPosts
    BY <1>1, <2>1
  <2>. QED
    BY <2>2 DEF SemInv
<1>4. /\ call \in Performing => call' \in Performing /\ call'.left = call.left /\ call'.made = call.made
      /\ call \in Asking => call' \in Asking /\ call'.again = call.again
      /\ call \in Saving => call' \in Saving
      /\ call'.name = call.name
  <2>1. CASE call \in Performing
    BY <1>1, <2>1, CallShapes DEF Performing
  <2>2. CASE call \in Asking
    BY <1>1, <2>2, CallShapes DEF Asking
  <2>3. CASE call \in Saving
    BY <1>1, <2>3, CallShapes DEF Saving
  <2>. QED
    BY <1>2, <2>1, <2>2, <2>3
<1>5. CallInv'
  <2>1. group' = group /\ U' = U
    BY <1>1 DEF Quiet, U
  <2>. QED
    BY <1>2, <1>4, <2>1, CallShapes DEF TypeInv, CallInv
<1>6. LockedInv'
  <2>1. call # Crashed
    BY <1>2, CallShapes
  <2>2. call.name = "undo" => call \in Asking
    BY <1>2 DEF Performing, Saving
  <2>. QED
    BY <1>1, <1>4, <2>1, <2>2 DEF TypeInv, LockedInv
<1>. QED
  BY <1>1, <1>3, <1>5, <1>6, QuietTypes DEF TypeInv, CountsInv

LEMMA PerformTypes ==
  ASSUME TypeInv, NEW a \in Addrs, NEW k \in Kinds, PerformAction(a, k)
  PROVE  TypeInv'
<1>. DEFINE e == Len(group) + 1
<1>1. /\ call \in Performing /\ call.at = "holding" /\ e \in Edits
  BY PerformEffect
<1>2. StacksInv' /\ ActionsInv' /\ U' # << >>
  BY PerformStacks
<1>3. /\ doc' = Append(doc, e) /\ made_at' = Append(made_at, doc)
      /\ group' = Append(group, call.of) /\ action_sem' = action_sem + 1
      /\ UNCHANGED <<last_saved_action, saved_doc>>
  BY DEF PerformAction
<1>4. PICK n \in Nat : n = Len(group) /\ n + 1 \in 1..MaxEdits /\ n + 1 <= MaxEdits
  <2>1. Len(group) \in Nat
    BY LenProperties DEF TypeInv, CountsInv
  <2>. QED
    BY <1>1, <2>1, Bounds DEF Edits
<1>5. CountsInv' /\ Len(group') = n + 1
  <2>1. /\ doc \in Seq(Edits) /\ made_at \in Seq(Seq(Edits)) /\ group \in Seq(Nat \ {0})
        /\ Len(made_at) = n /\ call.of \in Nat \ {0}
    BY <1>1, <1>4 DEF TypeInv, CountsInv, Performing
  <2>2. doc' \in Seq(Edits)
    BY <1>1, <1>3, <2>1, AppendProperties
  <2>3. made_at' \in Seq(Seq(Edits)) /\ Len(made_at') = n + 1
    BY <1>3, <2>1, AppendProperties
  <2>4. group' \in Seq(Nat \ {0}) /\ Len(group') = n + 1
    BY <1>3, <1>4, <2>1, AppendProperties
  <2>. QED
    BY <1>3, <1>4, <2>2, <2>3, <2>4 DEF TypeInv, CountsInv
<1>6. SemInv'
  <2>1. action_sem' \in 0..MaxPosts
    BY <1>1, <1>3, Bounds DEF TypeInv, SemInv
  <2>2. call'.at \notin {"holding", "acting"}
    <3>1. CASE call.left = 1
      <4>1. PICK acts, made : EndPerform(a, acts, made)
        BY <3>1 DEF PerformAction
      <4>. QED
        BY <1>1, <4>1, EndedPerform
    <3>2. CASE call.left # 1
      <4>1. call' = [call EXCEPT !.at = "wait", !.left = @ - 1, !.made = call.made + 1]
        BY <3>2 DEF PerformAction
      <4>. QED
        BY <1>1, <4>1 DEF Performing
    <3>. QED
      BY <3>1, <3>2
  <2>. QED
    BY <2>1, <2>2 DEF SemInv
<1>7. CallInv' /\ LockedInv'
  <2>1. CASE call.left = 1
    <3>1. PICK acts, made : EndPerform(a, acts, made)
      BY <2>1 DEF PerformAction
    <3>. QED
      BY <1>1, <3>1, EndedPerform
  <2>2. CASE call.left # 1
    <3>1. /\ call' = [call EXCEPT !.at = "wait", !.left = call.left - 1, !.made = call.made + 1]
          /\ redo_stack_locked' = redo_stack_locked
      BY <2>2 DEF PerformAction
    <3>2. /\ call.left - 1 \in Nat \ {0} /\ call.made + 1 \in Nat
          /\ (n + 1) + (call.left - 1) <= MaxEdits /\ call.made + 1 <= n + 1
      <4>1. /\ call.left \in Nat \ {0} /\ call.made \in Nat
            /\ n + call.left <= MaxEdits /\ call.made <= n
        BY <1>1, <1>4 DEF Performing, TypeInv, CallInv
      <4>. QED
        BY <2>2, <4>1, Bounds
    <3>3. /\ call' \in Performing /\ call'.left = call.left - 1 /\ call'.made = call.made + 1
          /\ call'.name = "perform"
      BY <1>1, <3>1, <3>2 DEF Performing
    <3>4. CallInv'
      BY <1>2, <1>5, <3>2, <3>3, CallShapes DEF CallInv
    <3>. QED
      BY <3>1, <3>3, <3>4 DEF TypeInv, LockedInv
  <2>. QED
    BY <2>1, <2>2
<1>. QED
  BY <1>2, <1>5, <1>6, <1>7 DEF TypeInv
LEMMA RenumberTypes ==
  ASSUME TypeInv, Renumbers, CallInv', SemInv', LockedInv',
         UNCHANGED <<saved_doc, last_saved_action>>
  PROVE  TypeInv'
<1>1. StacksInv' /\ ActionsInv'
  BY RenumberStacks
<1>2. CountsInv'
  BY DEF TypeInv, CountsInv, Renumbers
<1>. QED
  BY <1>1, <1>2 DEF TypeInv

LEMMA Resized ==
  ASSUME TypeInv, NEW a \in Addrs, action[a] \in Undoable, NEW n \in 1..MaxEdits,
         action' = [action EXCEPT ![a].num_actions = n],
         UNCHANGED <<undo_stack, redo_stack, doc, made_at, group>>
  PROVE  Renumbers
<1>. DEFINE q == [action[a] EXCEPT !.num_actions = n]
<1>1. q \in Undoable /\ q # Nil /\ q.edit = action[a].edit /\ q.kind = action[a].kind
  BY Renumber
<1>2. action \in [Addrs -> {Nil} \cup Undoable] /\ action[a] # Nil
  BY NilIsNoAction DEF TypeInv, ActionsInv
<1>3. action' = [action EXCEPT ![a] = q]
  BY <1>2
<1>. HIDE DEF q
<1>. QED
  BY <1>1, <1>2, <1>3 DEF Renumbers

LEMMA PerformFailsTypes ==
  ASSUME TypeInv, PerformFails
  PROVE  TypeInv' /\ Renumbers /\ call \in Performing /\ EndPerform(LastAction, action, call.made)
<1>1. /\ call.name = "perform" /\ call.at = "holding"
      /\ action_sem + 2 <= MaxPosts /\ action_sem' = action_sem + 2
      /\ EndPerform(LastAction, action, call.made)
      /\ UNCHANGED <<undo_stack, redo_stack, doc, made_at, group, last_saved_action, saved_doc>>
  BY DEF PerformFails
<1>2. call \in Performing
  BY <1>1 DEF TypeInv, CallInv, Idle, Crashed, Asking, Acting, Saving
<1>3. CallInv' /\ LockedInv' /\ call'.at \in {"wait", "idle"}
  BY <1>1, <1>2, EndedPerform
<1>4. SemInv'
  BY <1>1, <1>3, Bounds DEF SemInv, TypeInv
<1>5. Renumbers
  <2>1. CASE call.made = 0
    <3>1. Quiet
      BY <1>1, <2>1 DEF EndPerform, Quiet
    <3>. QED
      BY <3>1, QuietRenumbers
  <2>2. CASE call.made # 0
    <3>1. action' = [action EXCEPT ![LastAction].num_actions = call.made]
      BY <1>1, <2>2 DEF EndPerform
    <3>2. call.made \in 1..MaxEdits /\ U # << >>
      <4>1. call.made \in Nat /\ call.made <= Len(group) /\ Len(group) <= MaxEdits /\ Len(group) \in Nat
        BY <1>2, LenProperties DEF TypeInv, CallInv, CountsInv, Performing
      <4>2. call.made > 0
        BY <2>2, <4>1
      <4>3. U # << >>
        BY <1>2, <4>2 DEF TypeInv, CallInv
      <4>. QED
        BY <4>1, <4>2, <4>3, Bounds
    <3>3. LastAction \in Addrs /\ action[LastAction] \in Undoable
      BY <3>2, LastActionIs, Sides
    <3>. QED
      BY <1>1, <3>1, <3>2, <3>3, Resized
  <2>. QED
    BY <2>1, <2>2
<1>. QED
  BY <1>1, <1>2, <1>3, <1>4, <1>5, RenumberTypes

LEMMA BeginUndoOrRedoTypes ==
  ASSUME TypeInv, NEW name \in {"undo", "redo"}, NEW again \in Nat, BeginUndoOrRedo(name, again)
  PROVE  TypeInv'
<1>1. /\ call = Idle /\ call' = [name |-> name, at |-> "wait", again |-> again] /\ Quiet
      /\ UNCHANGED <<action_sem, redo_stack_locked, last_saved_action, saved_doc>>
  BY DEF BeginUndoOrRedo, Quiet
<1>2. call' \in Asking /\ call'.at = "wait"
  BY <1>1, Asked
<1>3. ~redo_stack_locked
  BY <1>1, IdleCall DEF TypeInv, LockedInv, Idle, Crashed
<1>4. SemInv' /\ LockedInv' /\ CallInv'
  BY <1>1, <1>2, <1>3, AskedCall DEF TypeInv, SemInv, LockedInv
<1>. QED
  BY <1>1, <1>4, QuietTypes DEF TypeInv, CountsInv

LEMMA ReadGroupTypes ==
  ASSUME TypeInv, ReadGroup
  PROVE  /\ TypeInv' /\ Quiet /\ call \in Asking
         /\ UNCHANGED <<last_saved_action, saved_doc>>
         /\ \/ Source = << >> /\ Return
            \/ /\ Source # << >> /\ call' \in Acting /\ call'.name = call.name /\ call'.i = 0
               /\ call'.again = call.again /\ call'.at = "acting"
               /\ call'.n = action[Top].num_actions /\ redo_stack_locked' = redo_stack_locked
<1>1. /\ call.name \in {"undo", "redo"} /\ call.at = "holding"
      /\ IF Source = << >> THEN Return
         ELSE /\ call' = [name |-> call.name, at |-> "acting", again |-> call.again,
                          i |-> 0, n |-> action[Top].num_actions]
              /\ UNCHANGED redo_stack_locked
      /\ Quiet /\ UNCHANGED <<action_sem, last_saved_action, saved_doc>>
  BY DEF ReadGroup, Quiet, Source, Top, Peek
<1>2. call \in Asking
  BY <1>1 DEF TypeInv, CallInv, Idle, Crashed, Performing, Acting, Saving
<1>3. CASE Source = << >>
  <2>1. CallInv' /\ LockedInv' /\ call'.at \in {"wait", "idle"}
    BY <1>1, <1>2, <1>3, Returned
  <2>2. SemInv'
    BY <1>1, <2>1 DEF TypeInv, SemInv
  <2>. QED
    BY <1>1, <1>2, <1>3, <2>1, <2>2, QuietTypes DEF TypeInv, CountsInv
<1>4. CASE Source # << >>
  <2>1. action[Top].num_actions \in 1..MaxEdits
    <3>1. Top \in ToSet(Source)
      BY <1>4, Sides, Popped DEF Stacked, Top
    <3>2. action[Top] \in Undoable
      BY <3>1, Sides
    <3>. QED
      BY <3>2 DEF Undoable
  <2>2. /\ call' \in Acting /\ call'.name = call.name /\ call'.i = 0
        /\ call'.again = call.again /\ call'.at = "acting"
        /\ call'.n = action[Top].num_actions /\ redo_stack_locked' = redo_stack_locked
    BY <1>1, <1>2, <1>4, <2>1 DEF Asking, Acting
  <2>3. CallInv'
    BY <2>1, <2>2, CallShapes, Bounds DEF CallInv
  <2>4. SemInv'
    BY <1>1 DEF TypeInv, SemInv
  <2>5. LockedInv'
    BY <1>1, <1>2, <2>2, CallShapes DEF TypeInv, LockedInv
  <2>. QED
    BY <1>1, <1>2, <1>4, <2>2, <2>3, <2>4, <2>5, QuietTypes DEF TypeInv, CountsInv
<1>. QED
  BY <1>3, <1>4

LEMMA CrashTypes ==
  ASSUME TypeInv, Crash
  PROVE  TypeInv'
<1>1. /\ call' = Crashed /\ Quiet
      /\ UNCHANGED <<action_sem, redo_stack_locked, last_saved_action, saved_doc>>
  BY DEF Crash, Quiet, Crashed
<1>2. CallInv' /\ SemInv' /\ LockedInv'
  BY <1>1, AskedCall, IdleCall DEF TypeInv, SemInv, LockedInv
<1>. QED
  BY <1>1, <1>2, QuietTypes DEF TypeInv, CountsInv

LEMMA UndoOrRedoFailsTypes ==
  ASSUME TypeInv, UndoOrRedoFails
  PROVE  /\ TypeInv' /\ Renumbers /\ call \in Acting /\ call' = [call EXCEPT !.i = call.n]
         /\ redo_stack_locked' = redo_stack_locked
<1>1. /\ call.at = "acting" /\ call.i < call.n /\ Source # << >>
      /\ action_sem + 1 < MaxPosts /\ action_sem' = action_sem + 1
      /\ action' = Renumbered(Top) /\ call' = [call EXCEPT !.i = call.n]
      /\ UNCHANGED <<undo_stack, redo_stack, redo_stack_locked, doc, made_at,
                     group, last_saved_action, saved_doc>>
  BY DEF UndoOrRedoFails, Source, Top, Peek
<1>2. call \in Acting
  BY <1>1 DEF TypeInv, CallInv, Idle, Crashed, Performing, Asking, Saving
<1>3. Top \in Addrs /\ action[Top] \in Undoable
  <2>1. Top \in ToSet(Source)
    BY <1>1, Sides, Popped DEF Stacked, Top
  <2>. QED
    BY <2>1, Sides
<1>4. Renumbers
  <2>1. 1 \in 1..MaxEdits /\ call.n \in 1..MaxEdits
    BY <1>2, Bounds DEF Acting
  <2>2. CASE call.i = 0
    BY <1>1, <1>3, <2>1, <2>2, Resized DEF Renumbered
  <2>3. CASE call.i # 0 /\ call.i = call.n - 1
    BY <1>1, <1>3, <2>1, <2>3, Resized DEF Renumbered
  <2>4. CASE call.i # 0 /\ call.i # call.n - 1
    BY <1>1, <2>4, QuietRenumbers DEF Renumbered, Quiet
  <2>. QED
    BY <2>2, <2>3, <2>4
<1>5. /\ call' \in Acting /\ call'.i = call.n /\ call'.n = call.n /\ call'.name = call.name
      /\ call'.again = call.again /\ call.n \in Nat
  BY <1>1, <1>2, Bounds DEF Acting
<1>6. CallInv'
  BY <1>5, CallShapes DEF CallInv
<1>7. SemInv'
  BY <1>1, Bounds DEF TypeInv, SemInv
<1>8. LockedInv'
  BY <1>1, <1>2, <1>5, CallShapes DEF TypeInv, LockedInv
<1>. QED
  BY <1>1, <1>2, <1>4, <1>6, <1>7, <1>8, RenumberTypes

LEMMA EndUndoOrRedoTypes ==
  ASSUME TypeInv, EndUndoOrRedo
  PROVE  TypeInv' /\ Quiet /\ call \in Acting /\ call.i = call.n /\ Return
<1>1. /\ call.at = "acting" /\ call.i = call.n /\ action_sem' = action_sem + 1 /\ Return /\ Quiet
      /\ UNCHANGED <<last_saved_action, saved_doc>>
  BY DEF EndUndoOrRedo, Quiet
<1>2. call \in Acting
  BY <1>1 DEF TypeInv, CallInv, Idle, Crashed, Performing, Asking, Saving
<1>3. CallInv' /\ LockedInv' /\ call'.at \in {"wait", "idle"}
  BY <1>1, <1>2, Returned
<1>4. SemInv'
  BY <1>1, <1>3, Bounds DEF TypeInv, SemInv
<1>. QED
  BY <1>1, <1>2, <1>3, <1>4, QuietTypes DEF TypeInv, CountsInv

LEMMA SaveTypes ==
  ASSUME TypeInv, Save \/ BeginAutosave \/ EndAutosave
  PROVE  TypeInv' /\ Quiet /\ redo_stack_locked' = redo_stack_locked /\ ~redo_stack_locked
<1>1. CASE Save
  <2>1. /\ call = Idle /\ action_sem < MaxPosts /\ action_sem' = action_sem + 1
        /\ last_saved_action' = LastAction /\ saved_doc' = doc
        /\ Quiet /\ call' = call /\ redo_stack_locked' = redo_stack_locked
    BY <1>1 DEF Save, Quiet
  <2>2. SemInv' /\ CallInv' /\ LockedInv'
    BY <2>1, IdleCall, AskedCall, Bounds DEF TypeInv, SemInv, LockedInv
  <2>3. ~redo_stack_locked
    BY <2>1, IdleCall DEF TypeInv, LockedInv, Idle, Crashed
  <2>4. saved_doc' \in Seq(Edits) /\ last_saved_action' \in Addrs \cup {Nil}
    BY <2>1, LastActionIs DEF TypeInv, CountsInv
  <2>. QED
    BY <2>1, <2>2, <2>3, <2>4, QuietTypes
<1>2. CASE BeginAutosave
  <2>1. /\ call = Idle /\ call' = [name |-> "autosave", at |-> "wait"] /\ Quiet
        /\ UNCHANGED <<action_sem, last_saved_action, saved_doc, redo_stack_locked>>
    BY <1>2 DEF BeginAutosave, Quiet
  <2>2. call' \in Saving /\ call'.at = "wait"
    BY <2>1 DEF Saving
  <2>3. ~redo_stack_locked
    BY <2>1, IdleCall DEF TypeInv, LockedInv, Idle, Crashed
  <2>4. SemInv' /\ CallInv' /\ LockedInv'
    BY <2>1, <2>2, <2>3, AskedCall DEF TypeInv, SemInv, LockedInv
  <2>. QED
    BY <2>1, <2>3, <2>4, QuietTypes DEF TypeInv, CountsInv
<1>3. CASE EndAutosave
  <2>1. /\ call.name = "autosave" /\ call.at = "holding"
        /\ action_sem' = action_sem + 1 /\ call' = Idle /\ Quiet
        /\ UNCHANGED <<last_saved_action, saved_doc, redo_stack_locked>>
    BY <1>3 DEF EndAutosave, Quiet
  <2>2. ~redo_stack_locked
    BY <2>1 DEF TypeInv, LockedInv, Crashed
  <2>3. SemInv' /\ CallInv' /\ LockedInv'
    BY <2>1, <2>2, AskedCall, IdleCall, Bounds DEF TypeInv, SemInv, LockedInv
  <2>. QED
    BY <2>1, <2>2, <2>3, QuietTypes DEF TypeInv, CountsInv
<1>. QED
  BY <1>1, <1>2, <1>3
-----------------------------------------------------------------------------
(* The edits of the stacks, as sequences: what the steps do to them and to *)
(* the document.                                                           *)
Of(acts, s) == [i \in 1..Len(s) |-> acts[s[i]].edit]
UE == EditsOf(U)
RE == EditsOf(R)
Actions(acts, s) == acts \in [Addrs -> {Nil} \cup Undoable] /\ s \in Seq(Addrs)
                    /\ \A a \in ToSet(s) : acts[a] # Nil

LEMMA FunctionsAreSequences ==
  ASSUME NEW S, NEW n \in Nat, NEW f \in [1..n -> S]
  PROVE  f \in Seq(S) /\ Len(f) = n
<1>1. f \in Seq(S)
  BY SeqDef
<1>2. DOMAIN f = 1..Len(f) /\ Len(f) \in Nat
  BY <1>1, LenProperties
<1>3. PICK m \in Nat : m = Len(f) /\ 1..m = 1..n
  BY <1>2
<1>4. m = n
  <2>1. m > 0 => m \in 1..n
    BY <1>3
  <2>2. n > 0 => n \in 1..m
    BY <1>3
  <2>. QED
    BY <2>1, <2>2
<1>. QED
  BY <1>1, <1>3, <1>4

LEMMA FrontIs ==
  ASSUME NEW S, NEW s \in Seq(S), s # << >>
  PROVE  /\ Front(s) \in Seq(S) /\ Len(Front(s)) = Len(s) - 1 /\ Len(s) \in Nat \ {0}
         /\ \A i \in 1..(Len(s) - 1) : Front(s)[i] = s[i]
         /\ Last(s) = s[Len(s)] /\ Last(s) \in S
<1>1. PICK n \in Nat \ {0} : n = Len(s)
  BY EmptySeq
<1>2. \A i \in 1..n : s[i] \in S
  BY <1>1, ElementOfSeq
<1>3. /\ \A i \in 1..(n - 1) : i \in 1..n /\ 1 + i - 1 = i
      /\ n \in 1..n /\ n - 1 \in Int /\ n - 1 - 1 + 1 = n - 1
      /\ ~(1 <= n - 1) => n - 1 = 0
  BY SMT
<1>4. Front(s) = SubSeq(s, 1, n - 1) /\ 1 \in Int /\ \A i \in 1..(n - 1) : s[i] \in S
  BY <1>1, <1>2, <1>3 DEF Front
<1>5. /\ SubSeq(s, 1, n - 1) \in Seq(S)
      /\ Len(SubSeq(s, 1, n - 1)) = IF 1 <= n - 1 THEN n - 1 - 1 + 1 ELSE 0
      /\ \A i \in 1..(n - 1 - 1 + 1) : SubSeq(s, 1, n - 1)[i] = s[1 + i - 1]
  BY <1>3, <1>4, SubSeqProperties
<1>6. Last(s) = s[n] /\ s[n] \in S
  BY <1>1, <1>2, <1>3 DEF Last
<1>. QED
  BY <1>1, <1>3, <1>4, <1>5, <1>6

LEMMA RoomIs ==
  ASSUME NEW S, NEW s \in Seq(S)
  PROVE  /\ Room(s) \in Seq(S) /\ Len(s) \in Nat
         /\ Len(Room(s)) = (IF Full(s) THEN Len(s) - 1 ELSE Len(s)) /\ Len(Room(s)) \in Nat
         /\ \A i \in 1..Len(Room(s)) : /\ Room(s)[i] = s[i + Len(s) - Len(Room(s))]
                                       /\ i + Len(s) - Len(Room(s)) \in 1..Len(s)
<1>1. PICK n \in Nat : n = Len(s)
  BY LenProperties
<1>2. CASE Full(s)
  <2>1. s # << >> /\ Room(s) = Tail(s)
    BY <1>2, Bounds, EmptySeq DEF Full, Room
  <2>2. Tail(s) \in Seq(S) /\ Len(Tail(s)) = n - 1 /\ \A i \in 1..(n - 1) : Tail(s)[i] = s[i + 1]
    BY <1>1, <2>1, HeadTailProperties
  <2>3. n # 0
    BY <1>1, <2>1, EmptySeq
  <2>4. n - 1 \in Nat /\ \A i \in 1..(n - 1) : i + n - (n - 1) = i + 1 /\ i + 1 \in 1..n
    BY <2>3, SMT
  <2>. QED
    BY <1>1, <1>2, <2>1, <2>2, <2>4
<1>3. CASE ~Full(s)
  <2>1. Room(s) = s /\ \A i \in 1..n : i + n - n = i
    BY <1>3, SMT DEF Room
  <2>. QED
    BY <1>1, <1>3, <2>1
<1>. QED
  BY <1>2, <1>3

LEMMA EditsAre ==
  ASSUME NEW acts, NEW s, Actions(acts, s)
  PROVE  /\ Of(acts, s) \in Seq(Edits) /\ Len(Of(acts, s)) = Len(s) /\ Len(s) \in Nat
         /\ \A i \in 1..Len(s) : /\ Of(acts, s)[i] = acts[s[i]].edit
                                 /\ s[i] \in ToSet(s) /\ acts[s[i]].edit \in Edits
<1>1. PICK n \in Nat : n = Len(s)
  BY LenProperties DEF Actions
<1>2. ToSet(s) = {s[i] : i \in 1..n} /\ ToSet(s) \subseteq Addrs
  BY <1>1, ToSetOf DEF Actions
<1>3. \A i \in 1..n : s[i] \in ToSet(s) /\ acts[s[i]].edit \in Edits
  BY <1>2 DEF Actions, Undoable
<1>4. Of(acts, s) \in [1..n -> Edits] /\ \A i \in 1..n : Of(acts, s)[i] = acts[s[i]].edit
  BY <1>1, <1>3 DEF Of
<1>5. Of(acts, s) \in Seq(Edits) /\ Len(Of(acts, s)) = n
  BY <1>1, <1>4, FunctionsAreSequences
<1>. QED
  BY <1>1, <1>3, <1>4, <1>5

(* The same actions have the same edits, on a stack that lost its top or   *)
(* gained one.                                                             *)
LEMMA SameEdits ==
  ASSUME NEW f, NEW g, NEW s, Actions(f, s), Actions(g, s),
         \A a \in ToSet(s) : g[a].edit = f[a].edit
  PROVE  Of(g, s) = Of(f, s)
BY EditsAre DEF Of

LEMMA FrontEdits ==
  ASSUME NEW f, NEW g, NEW s, Actions(f, s), s # << >>, Actions(g, Front(s)),
         \A a \in ToSet(Front(s)) : g[a].edit = f[a].edit
  PROVE  /\ Of(g, Front(s)) = Front(Of(f, s)) /\ Of(f, s) # << >>
         /\ Last(Of(f, s)) = f[Last(s)].edit
<1>1. PICK n \in Nat \ {0} : n = Len(s)
  BY EmptySeq DEF Actions
<1>2. /\ Len(Front(s)) = n - 1 /\ \A i \in 1..(n - 1) : Front(s)[i] = s[i]
      /\ Last(s) = s[n] /\ s \in Seq(Addrs)
  BY <1>1, FrontIs DEF Actions
<1>3. /\ Of(f, s) \in Seq(Edits) /\ Len(Of(f, s)) = n
      /\ \A i \in 1..n : Of(f, s)[i] = f[s[i]].edit
  BY <1>1, EditsAre
<1>4. /\ Of(g, Front(s)) \in Seq(Edits) /\ Len(Of(g, Front(s))) = n - 1
      /\ \A i \in 1..(n - 1) : /\ Of(g, Front(s))[i] = g[Front(s)[i]].edit
                               /\ Front(s)[i] \in ToSet(Front(s))
  BY <1>2, EditsAre
<1>5. n \in 1..n /\ \A i \in 1..(n - 1) : i \in 1..n
  BY SMT
<1>6. Of(f, s) # << >>
  BY <1>3, EmptySeq
<1>7. /\ Front(Of(f, s)) \in Seq(Edits) /\ Len(Front(Of(f, s))) = n - 1
      /\ \A i \in 1..(n - 1) : Front(Of(f, s))[i] = Of(f, s)[i]
      /\ Last(Of(f, s)) = Of(f, s)[n]
  BY <1>3, <1>6, FrontIs
<1>8. \A i \in 1..(n - 1) : Of(g, Front(s))[i] = Front(Of(f, s))[i]
  BY <1>2, <1>3, <1>4, <1>5, <1>7
<1>9. Of(g, Front(s)) = Front(Of(f, s))
  BY <1>4, <1>7, <1>8, SeqEqual
<1>. QED
  BY <1>2, <1>3, <1>5, <1>6, <1>7, <1>9

LEMMA PushedEdits ==
  ASSUME NEW f, NEW g, NEW s, NEW a \in Addrs, Actions(f, s), Actions(g, Append(Room(s), a)),
         \A b \in ToSet(Room(s)) : g[b].edit = f[b].edit
  PROVE  Of(g, Append(Room(s), a)) = Append(Room(Of(f, s)), g[a].edit)
<1>. DEFINE t == Append(Room(s), a)
            o == Of(f, s)
            r == Room(o)
            q == Append(r, g[a].edit)
<1>1. /\ Room(s) \in Seq(Addrs) /\ s \in Seq(Addrs)
      /\ Len(Room(s)) = (IF Full(s) THEN Len(s) - 1 ELSE Len(s)) /\ Len(Room(s)) \in Nat
      /\ \A i \in 1..Len(Room(s)) : /\ Room(s)[i] = s[i + Len(s) - Len(Room(s))]
                                    /\ i + Len(s) - Len(Room(s)) \in 1..Len(s)
  BY RoomIs DEF Actions
<1>2. /\ o \in Seq(Edits) /\ Len(o) = Len(s) /\ Len(s) \in Nat
      /\ \A i \in 1..Len(s) : o[i] = f[s[i]].edit
  BY EditsAre
<1>3. PICK n \in Nat, m \in Nat : n = Len(Room(s)) /\ m = Len(s)
  BY <1>1, <1>2
<1>. HIDE DEF o
<1>4. Full(s) <=> Full(o)
  BY <1>2 DEF Full
<1>5. r \in Seq(Edits) /\ Len(r) = n /\ \A i \in 1..n : r[i] = o[i + m - n]
  <2>1. /\ Room(o) \in Seq(Edits) /\ Len(Room(o)) = (IF Full(o) THEN Len(o) - 1 ELSE Len(o))
        /\ \A i \in 1..Len(Room(o)) : Room(o)[i] = o[i + Len(o) - Len(Room(o))]
    BY <1>2, RoomIs
  <2>2. Len(Room(o)) = n
    BY <1>1, <1>2, <1>3, <1>4, <2>1
  <2>. QED
    BY <1>2, <1>3, <2>1, <2>2
<1>6. /\ Len(t) = n + 1 /\ t[n + 1] = a /\ \A i \in 1..n : t[i] = Room(s)[i]
  BY <1>1, <1>3, AppendProperties
<1>7. /\ Of(g, t) \in Seq(Edits) /\ Len(Of(g, t)) = n + 1
      /\ \A i \in 1..(n + 1) : Of(g, t)[i] = g[t[i]].edit /\ g[t[i]].edit \in Edits
  <2>1. Actions(g, t) /\ Len(t) = n + 1
    BY <1>6
  <2>. HIDE DEF t
  <2>2. /\ Of(g, t) \in Seq(Edits) /\ Len(Of(g, t)) = Len(t)
        /\ \A i \in 1..Len(t) : Of(g, t)[i] = g[t[i]].edit /\ g[t[i]].edit \in Edits
    BY <2>1, EditsAre
  <2>. QED
    BY <2>1, <2>2
<1>8. n + 1 \in 1..(n + 1) /\ \A i \in 1..(n + 1) : i = n + 1 \/ i \in 1..n
  BY SMT
<1>9. g[a].edit \in Edits
  BY <1>6, <1>7, <1>8
<1>10. /\ q \in Seq(Edits) /\ Len(q) = n + 1 /\ q[n + 1] = g[a].edit
       /\ \A i \in 1..n : q[i] = r[i]
  BY <1>5, <1>9, AppendProperties
<1>11. \A i \in 1..n : Room(s)[i] \in ToSet(Room(s)) /\ Room(s)[i] = s[i + m - n] /\ i + m - n \in 1..m
  <2>1. ToSet(Room(s)) = {Room(s)[i] : i \in 1..n}
    BY <1>1, <1>3, ToSetOf
  <2>. QED
    BY <1>1, <1>3, <2>1
<1>. HIDE DEF t, q, r
<1>12. ASSUME NEW i \in 1..n PROVE Of(g, t)[i] = q[i]
  <2>1. i \in 1..(n + 1)
    BY SMT
  <2>2. Of(g, t)[i] = g[Room(s)[i]].edit
    BY <1>6, <1>7, <2>1
  <2>3. q[i] = o[i + m - n]
    BY <1>5, <1>10
  <2>4. o[i + m - n] = f[Room(s)[i]].edit
    BY <1>2, <1>3, <1>11
  <2>. QED
    BY <1>11, <2>2, <2>3, <2>4
<1>13. Of(g, t)[n + 1] = q[n + 1]
  BY <1>6, <1>7, <1>8, <1>10
<1>14. \A i \in 1..(n + 1) : Of(g, t)[i] = q[i]
  BY <1>8, <1>12, <1>13
<1>15. Of(g, t) = q
  BY <1>7, <1>10, <1>14, SeqEqual
<1>. QED
  BY <1>15 DEF t, q, r, o
LEMMA StacksOfActions ==
  ASSUME TypeInv
  PROVE  /\ Actions(action, U) /\ Actions(action, R)
         /\ UE = Of(action, U) /\ RE = Of(action, R)
         /\ UE \in Seq(Edits) /\ RE \in Seq(Edits) /\ doc \in Seq(Edits)
         /\ Len(UE) = Len(U) /\ Len(RE) = Len(R)
<1>1. Actions(action, U) /\ Actions(action, R)
  BY DEF TypeInv, ActionsInv, StacksInv, Stacked, Actions
<1>2. UE = Of(action, U) /\ RE = Of(action, R)
  BY DEF UE, RE, EditsOf, Of
<1>3. doc \in Seq(Edits)
  BY DEF TypeInv, CountsInv
<1>. QED
  BY <1>1, <1>2, <1>3, EditsAre

LEMMA StacksOfActionsNext ==
  ASSUME StacksInv', ActionsInv'
  PROVE  /\ Actions(action', U') /\ Actions(action', R')
         /\ UE' = Of(action', U') /\ RE' = Of(action', R')
BY DEF ActionsInv, StacksInv, Stacked, Actions, UE, RE, EditsOf, Of

LEMMA RenumberEdits ==
  ASSUME TypeInv, Renumbers
  PROVE  UE' = UE /\ RE' = RE /\ UNCHANGED <<doc, made_at, group>>
<1>1. /\ StacksInv' /\ ActionsInv' /\ U' = U /\ R' = R
      /\ EditsKept(OnStacks) /\ UNCHANGED <<doc, made_at, group>>
  BY RenumberStacks
<1>2. /\ Actions(action, U) /\ Actions(action, R)
      /\ UE = Of(action, U) /\ RE = Of(action, R)
  BY StacksOfActions
<1>3. /\ Actions(action', U) /\ Actions(action', R)
      /\ UE' = Of(action', U) /\ RE' = Of(action', R)
  BY <1>1, StacksOfActionsNext
<1>4. /\ \A a \in ToSet(U) : action'[a].edit = action[a].edit
      /\ \A a \in ToSet(R) : action'[a].edit = action[a].edit
  BY <1>1, Sides DEF EditsKept
<1>. QED
  BY <1>1, <1>2, <1>3, <1>4, SameEdits

LEMMA PerformEdits ==
  ASSUME TypeInv, NEW a \in Addrs, NEW k \in Kinds, PerformAction(a, k)
  PROVE  LET e == Len(group) + 1
         IN /\ UE' = Append(Room(UE), e) /\ RE' = (IF redo_stack_locked THEN RE ELSE << >>)
            /\ doc' = Append(doc, e) /\ e \in Edits
            /\ made_at' = Append(made_at, doc) /\ group' = Append(group, call.of)
<1>. DEFINE e == Len(group) + 1
<1>1. /\ a \notin ToSet(U) \cup ToSet(R) /\ e \in Edits
      /\ U' = Append(Room(U), a) /\ R' = (IF redo_stack_locked THEN R ELSE << >>)
      /\ action'[a].edit = e
      /\ \A b \in ToSet(Room(U)) \cup ToSet(R') : action'[b] = action[b]
  BY PerformEffect
<1>. HIDE DEF e
<1>2. StacksInv' /\ ActionsInv'
  BY PerformStacks
<1>3. /\ Actions(action, U) /\ Actions(action, R)
      /\ UE = Of(action, U) /\ RE = Of(action, R)
  BY StacksOfActions
<1>4. /\ Actions(action', U') /\ Actions(action', R')
      /\ UE' = Of(action', U') /\ RE' = Of(action', R')
  BY <1>2, StacksOfActionsNext
<1>5. UE' = Append(Room(UE), e)
  BY <1>1, <1>3, <1>4, PushedEdits
<1>6. RE' = (IF redo_stack_locked THEN RE ELSE << >>)
  <2>1. CASE redo_stack_locked
    BY <1>1, <1>3, <1>4, <2>1, SameEdits
  <2>2. CASE ~redo_stack_locked
    <3>1. R' = << >> /\ Len(R') = 0
      BY <1>1, <2>2, EmptySeq
    <3>2. RE' \in Seq(Edits) /\ Len(RE') = 0
      BY <1>4, <3>1, EditsAre
    <3>. QED
      BY <2>2, <3>2, EmptySeq
  <2>. QED
    BY <2>1, <2>2
<1>7. doc' = Append(doc, e) /\ made_at' = Append(made_at, doc) /\ group' = Append(group, call.of)
  BY DEF PerformAction, e
<1>. QED
  BY <1>1, <1>5, <1>6, <1>7 DEF e

(* Which of two sequences of edits an undo or redo takes from.             *)
LEMMA MoveEdits ==
  ASSUME TypeInv, UndoOrRedoOne
  PROVE  /\ call.name = "undo" =>
              /\ UE # << >> /\ UE' = Front(UE)
              /\ RE' = (IF redo_stack_locked THEN RE ELSE Append(Room(RE), Last(UE)))
              /\ doc' = RemoveFirst(doc, Last(UE))
         /\ call.name # "undo" =>
              /\ RE # << >> /\ RE' = Front(RE) /\ UE' = Append(Room(UE), Last(RE))
              /\ doc' = Append(doc, Last(RE))
         /\ UNCHANGED <<made_at, group, redo_stack_locked>>
<1>1. /\ call \in Acting /\ call.i < call.n /\ Source # << >> /\ Top \in ToSet(Source)
      /\ call.name = "undo" => U' = Front(Source) /\ R' = (IF Withdrawn THEN Goal ELSE Append(Room(Goal), Top))
      /\ call.name # "undo" => R' = Front(Source) /\ U' = Append(Room(Goal), Top)
      /\ \A b \in ToSet(U') \cup ToSet(R') : action'[b].edit = action[b].edit
  BY MoveEffect
<1>2. StacksInv' /\ ActionsInv'
  BY MoveStacks
<1>3. /\ Actions(action, U) /\ Actions(action, R)
      /\ UE = Of(action, U) /\ RE = Of(action, R)
  BY StacksOfActions
<1>4. /\ Actions(action', U') /\ Actions(action', R')
      /\ UE' = Of(action', U') /\ RE' = Of(action', R')
  BY <1>2, StacksOfActionsNext
<1>5. /\ call.name = "undo" => Source = U /\ Goal = R
      /\ call.name # "undo" => Source = R /\ Goal = U
      /\ ToSet(Source) \subseteq Addrs /\ Stacked(Goal) /\ ToSet(Source) \cap ToSet(Goal) = {}
  BY Sides
<1>6. ToSet(Append(Room(Goal), Top)) = ToSet(Room(Goal)) \cup {Top}
  <2>1. Top \in Addrs /\ Top \notin ToSet(Goal)
    BY <1>1, <1>5
  <2>2. ToSet(Append(Room(Goal), Top)) = (ToSet(Goal) \ Evicted(Goal)) \cup {Top}
    BY <1>5, <2>1, PushedWithRoom
  <2>. QED
    BY <1>5, <2>2, RoomMade
<1>7. /\ doc' = (IF call.name = "undo" THEN RemoveFirst(doc, action[Top].edit)
                 ELSE Append(doc, action[Top].edit))
      /\ UNCHANGED <<made_at, group, redo_stack_locked>>
  BY DEF UndoOrRedoOne, Top, Source, Peek
<1>8. CASE call.name = "undo"
  <2>1. UE # << >> /\ UE' = Front(UE) /\ Last(UE) = action[Top].edit
    BY <1>1, <1>3, <1>4, <1>5, <1>8, FrontEdits DEF Top
  <2>2. CASE redo_stack_locked
    <3>1. R' = R
      BY <1>1, <1>5, <1>8, <2>2 DEF Withdrawn
    <3>2. \A b \in ToSet(R) : action'[b].edit = action[b].edit
      BY <1>1, <3>1
    <3>3. RE' = RE
      BY <1>3, <1>4, <3>1, <3>2, SameEdits
    <3>. QED
      BY <1>7, <1>8, <2>1, <2>2, <3>3
  <2>3. CASE ~redo_stack_locked
    <3>1. R' = Append(Room(R), Top)
      BY <1>1, <1>5, <1>8, <2>3 DEF Withdrawn
    <3>2. \A b \in ToSet(Room(R)) \cup {Top} : action'[b].edit = action[b].edit
      BY <1>1, <1>5, <1>6, <1>8, <3>1
    <3>3. RE' = Append(Room(RE), action'[Top].edit)
      <4>1. Top \in Addrs /\ Actions(action', Append(Room(R), Top))
        BY <1>1, <1>4, <1>5, <3>1
      <4>2. Of(action', Append(Room(R), Top)) = Append(Room(Of(action, R)), action'[Top].edit)
        BY <1>3, <3>2, <4>1, PushedEdits
      <4>. QED
        BY <1>3, <1>4, <3>1, <4>2
    <3>. QED
      BY <1>7, <1>8, <2>1, <2>3, <3>2, <3>3
  <2>. QED
    BY <2>2, <2>3
<1>9. CASE call.name # "undo"
  <2>1. RE # << >> /\ RE' = Front(RE) /\ Last(RE) = action[Top].edit
    BY <1>1, <1>3, <1>4, <1>5, <1>9, FrontEdits DEF Top
  <2>2. U' = Append(Room(U), Top)
    BY <1>1, <1>5, <1>9
  <2>3. \A b \in ToSet(Room(U)) \cup {Top} : action'[b].edit = action[b].edit
    BY <1>1, <1>5, <1>6, <1>9, <2>2
  <2>4. UE' = Append(Room(UE), action'[Top].edit)
    <3>1. Top \in Addrs /\ Actions(action', Append(Room(U), Top))
      BY <1>1, <1>4, <1>5, <2>2
    <3>2. Of(action', Append(Room(U), Top)) = Append(Room(Of(action, U)), action'[Top].edit)
      BY <1>3, <2>3, <3>1, PushedEdits
    <3>. QED
      BY <1>3, <1>4, <2>2, <3>2
  <2>. QED
    BY <1>7, <1>9, <2>1, <2>3, <2>4
<1>. QED
  BY <1>8, <1>9
-----------------------------------------------------------------------------
(* The undo stack is the end of the document; no edit is there twice, nor  *)
(* both in the document and on the redo stack.                             *)
EndOf(u, d) == /\ Len(u) <= Len(d)
               /\ MaxLength = -1 => Len(u) = Len(d)
               /\ \A i \in 1..Len(u) : u[i] = d[Len(d) - Len(u) + i]
DocInv == /\ EndOf(UE, doc)
          /\ IsInjective(doc) /\ IsInjective(RE) /\ ToSet(doc) \cap ToSet(RE) = {}
          /\ ToSet(doc) \cup ToSet(RE) \subseteq 1..Len(group)

LEMMA RemovedLast ==
  ASSUME NEW S, NEW s \in Seq(S), IsInjective(s), s # << >>
  PROVE  RemoveFirst(s, Last(s)) = Front(s)
<1>1. PICK n \in Nat \ {0} : n = Len(s)
  BY EmptySeq
<1>2. DOMAIN s = 1..n /\ Last(s) = s[n] /\ Front(s) = SubSeq(s, 1, n - 1) /\ Front(s) \in Seq(S)
  BY <1>1, LenProperties, FrontIs DEF Last, Front
<1>3. n \in 1..n /\ n \in Int /\ n + 1 \in Int /\ n < n + 1 /\ n <= n
  BY SMT
<1>4. {i \in 1..Len(s) : s[i] = Last(s)} = {n}
  BY <1>1, <1>2, <1>3 DEF IsInjective
<1>5. Min({n}) = n
  BY <1>3 DEF Min
<1>6. SelectInSeq(s, LAMBDA v : v = Last(s)) = n
  BY <1>4, <1>5 DEF SelectInSeq
<1>7. RemoveFirst(s, Last(s)) = RemoveAt(s, n)
  BY <1>1, <1>2, <1>3, <1>6 DEF RemoveFirst
<1>8. SubSeq(s, n + 1, Len(s)) = << >>
  BY <1>1, <1>3, SubSeqEmpty
<1>9. RemoveAt(s, n) = Front(s) \o << >>
  BY <1>2, <1>8 DEF RemoveAt
<1>. QED
  BY <1>2, <1>7, <1>9, ConcatEmptySeq

LEMMA EndPushed ==
  ASSUME NEW S, NEW u \in Seq(S), NEW d \in Seq(S), NEW e \in S, EndOf(u, d)
  PROVE  EndOf(Append(Room(u), e), Append(d, e))
<1>. DEFINE r == Room(u)
            v == Append(r, e)
            c == Append(d, e)
<1>1. PICK m \in Nat, n \in Nat : m = Len(u) /\ n = Len(d)
  BY LenProperties
<1>2. PICK k \in Nat : k = Len(r) /\ k = (IF Full(u) THEN m - 1 ELSE m)
  BY <1>1, RoomIs
<1>3. /\ r \in Seq(S)
      /\ \A i \in 1..k : r[i] = u[i + m - k] /\ i + m - k \in 1..m
  BY <1>1, <1>2, RoomIs
<1>. HIDE DEF r
<1>4. Len(v) = k + 1 /\ v[k + 1] = e /\ \A i \in 1..k : v[i] = r[i]
  <2>1. /\ Len(v) = Len(r) + 1 /\ v[Len(r) + 1] = e
        /\ \A i \in 1..Len(r) : v[i] = r[i]
    BY <1>3, AppendProperties
  <2>. QED
    BY <1>2, <2>1
<1>5. Len(c) = n + 1 /\ c[n + 1] = e /\ \A i \in 1..n : c[i] = d[i]
  BY <1>1, AppendProperties
<1>6. /\ m <= n /\ (MaxLength = -1 => m = n)
      /\ \A i \in 1..m : u[i] = d[n - m + i]
  BY <1>1 DEF EndOf
<1>7. MaxLength = -1 => k = m
  BY <1>2 DEF Full
<1>8. k <= m
  BY <1>2
<1>. HIDE DEF r, v, c
<1>9. ASSUME NEW i \in 1..(k + 1) PROVE v[i] = c[(n + 1) - (k + 1) + i]
  <2>1. CASE i = k + 1
    <3>1. (n + 1) - (k + 1) + i = n + 1
      BY <2>1
    <3>. QED
      BY <1>4, <1>5, <2>1, <3>1
  <2>2. CASE i # k + 1
    <3>1. i \in 1..k
      BY <2>2
    <3>2. v[i] = u[i + m - k] /\ i + m - k \in 1..m
      BY <1>3, <1>4, <3>1
    <3>3. n - m + (i + m - k) = (n + 1) - (k + 1) + i /\ (n + 1) - (k + 1) + i \in 1..n
      BY <1>6, <1>8, <3>1
    <3>. QED
      BY <1>5, <1>6, <3>2, <3>3
  <2>. QED
    BY <2>1, <2>2
<1>10. k + 1 <= n + 1 /\ (MaxLength = -1 => k + 1 = n + 1)
  BY <1>6, <1>7, <1>8
<1>. QED
  BY <1>4, <1>5, <1>9, <1>10 DEF EndOf, r, v, c

LEMMA EndPopped ==
  ASSUME NEW S, NEW u \in Seq(S), NEW d \in Seq(S), u # << >>, EndOf(u, d)
  PROVE  d # << >> /\ Last(u) = Last(d) /\ EndOf(Front(u), Front(d))
<1>1. PICK m \in Nat, n \in Nat : m = Len(u) /\ n = Len(d) /\ m # 0
  BY LenProperties, EmptySeq
<1>2. /\ m <= n /\ (MaxLength = -1 => m = n)
      /\ \A i \in 1..m : u[i] = d[n - m + i]
  BY <1>1 DEF EndOf
<1>3. n # 0 /\ d # << >>
  BY <1>1, <1>2, EmptySeq
<1>4. Len(Front(u)) = m - 1 /\ Last(u) = u[m] /\ \A i \in 1..(m - 1) : Front(u)[i] = u[i]
  BY <1>1, FrontIs
<1>5. Len(Front(d)) = n - 1 /\ Last(d) = d[n] /\ \A i \in 1..(n - 1) : Front(d)[i] = d[i]
  BY <1>1, <1>3, FrontIs
<1>6. m \in 1..m /\ n - m + m = n
  BY <1>1
<1>7. ASSUME NEW i \in 1..(m - 1) PROVE Front(u)[i] = Front(d)[(n - 1) - (m - 1) + i]
  <2>1. (n - 1) - (m - 1) + i = n - m + i /\ n - m + i \in 1..(n - 1) /\ i \in 1..m
    BY <1>2
  <2>. QED
    BY <1>2, <1>4, <1>5, <2>1
<1>8. m - 1 <= n - 1 /\ (MaxLength = -1 => m - 1 = n - 1)
  BY <1>2
<1>. QED
  BY <1>2, <1>3, <1>4, <1>5, <1>6, <1>7, <1>8 DEF EndOf

LEMMA RoomKeeps ==
  ASSUME NEW S, NEW s \in Seq(S), IsInjective(s)
  PROVE  Room(s) \in Seq(S) /\ IsInjective(Room(s)) /\ ToSet(Room(s)) \subseteq ToSet(s)
<1>1. CASE Full(s)
  <2>1. s # << >> /\ Room(s) = Tail(s)
    BY <1>1, Bounds, EmptySeq DEF Full, Room
  <2>. QED
    BY <2>1, Dropped
<1>2. CASE ~Full(s)
  BY <1>2 DEF Room
<1>. QED
  BY <1>1, <1>2

LEMMA PerformKeepsDoc ==
  ASSUME TypeInv, DocInv, NEW a \in Addrs, NEW k \in Kinds, PerformAction(a, k)
  PROVE  DocInv'
<1>. DEFINE e == Len(group) + 1
<1>1. /\ UE' = Append(Room(UE), e) /\ RE' = (IF redo_stack_locked THEN RE ELSE << >>)
      /\ doc' = Append(doc, e) /\ e \in Edits /\ group' = Append(group, call.of)
  BY PerformEdits
<1>2. UE \in Seq(Edits) /\ RE \in Seq(Edits) /\ doc \in Seq(Edits)
  BY StacksOfActions
<1>3. PICK n \in Nat : n = Len(group)
  BY LenProperties DEF TypeInv, CountsInv
<1>4. Len(group') = n + 1 /\ n + 1 \notin 1..n /\ 1..(n + 1) = 1..n \cup {n + 1} /\ e = n + 1
  <2>1. call \in Performing
    BY PerformEffect
  <2>2. group \in Seq(Nat \ {0}) /\ call.of \in Nat \ {0}
    BY <2>1 DEF TypeInv, CountsInv, Performing
  <2>3. Len(group') = n + 1
    BY <1>1, <1>3, <2>2, AppendProperties
  <2>. QED
    BY <1>3, <2>3
<1>. HIDE DEF e
<1>5. EndOf(UE', doc')
  BY <1>1, <1>2, EndPushed DEF DocInv
<1>6. e \notin ToSet(doc) \cup ToSet(RE)
  BY <1>3, <1>4 DEF DocInv
<1>7. IsInjective(doc') /\ ToSet(doc') = ToSet(doc) \cup {e}
  BY <1>1, <1>2, <1>6, Pushed DEF DocInv
<1>8. IsInjective(RE') /\ ToSet(RE') \subseteq ToSet(RE)
  <2>1. IsInjective(<< >>) /\ ToSet(<< >>) = {}
    BY DEF IsInjective, ToSet
  <2>. QED
    BY <1>1, <2>1 DEF DocInv
<1>. QED
  BY <1>3, <1>4, <1>5, <1>6, <1>7, <1>8 DEF DocInv

LEMMA MoveKeepsDoc ==
  ASSUME TypeInv, DocInv, UndoOrRedoOne
  PROVE  /\ DocInv' /\ doc' \in Seq(Edits)
         /\ call.name = "undo" => doc # << >> /\ doc' = Front(doc) /\ Last(UE) = Last(doc)
<1>1. UE \in Seq(Edits) /\ RE \in Seq(Edits) /\ doc \in Seq(Edits)
  BY StacksOfActions
<1>2. UNCHANGED group
  BY MoveEdits
<1>3. CASE call.name = "undo"
  <2>1. /\ UE # << >> /\ UE' = Front(UE) /\ doc' = RemoveFirst(doc, Last(UE))
        /\ RE' = (IF redo_stack_locked THEN RE ELSE Append(Room(RE), Last(UE)))
    BY <1>3, MoveEdits
  <2>2. doc # << >> /\ Last(UE) = Last(doc) /\ EndOf(Front(UE), Front(doc))
    BY <1>1, <2>1, EndPopped DEF DocInv
  <2>3. doc' = Front(doc)
    BY <1>1, <2>1, <2>2, RemovedLast DEF DocInv
  <2>4. /\ doc' \in Seq(Edits) /\ IsInjective(doc') /\ Last(doc) \in ToSet(doc)
        /\ ToSet(doc') = ToSet(doc) \ {Last(doc)}
    BY <1>1, <2>2, <2>3, Popped DEF DocInv
  <2>5. Room(RE) \in Seq(Edits) /\ IsInjective(Room(RE)) /\ ToSet(Room(RE)) \subseteq ToSet(RE)
    BY <1>1, RoomKeeps DEF DocInv
  <2>6. Last(doc) \notin ToSet(Room(RE)) /\ Last(doc) \in Edits
    BY <1>1, <2>2, <2>4, <2>5, FrontIs DEF DocInv
  <2>7. /\ IsInjective(Append(Room(RE), Last(doc)))
        /\ ToSet(Append(Room(RE), Last(doc))) = ToSet(Room(RE)) \cup {Last(doc)}
    BY <2>5, <2>6, Pushed
  <2>8. IsInjective(RE') /\ ToSet(RE') \subseteq ToSet(RE) \cup {Last(doc)}
    BY <2>1, <2>2, <2>5, <2>7 DEF DocInv
  <2>. QED
    BY <1>2, <1>3, <2>1, <2>2, <2>3, <2>4, <2>8 DEF DocInv
<1>4. CASE call.name # "undo"
  <2>1. RE # << >> /\ RE' = Front(RE) /\ UE' = Append(Room(UE), Last(RE)) /\ doc' = Append(doc, Last(RE))
    BY <1>4, MoveEdits
  <2>2. /\ IsInjective(RE') /\ Last(RE) \in ToSet(RE) /\ ToSet(RE') = ToSet(RE) \ {Last(RE)}
    BY <1>1, <2>1, Popped DEF DocInv
  <2>3. Last(RE) \in Edits /\ Last(RE) \notin ToSet(doc)
    BY <1>1, <2>1, <2>2, FrontIs DEF DocInv
  <2>4. doc' \in Seq(Edits) /\ IsInjective(doc') /\ ToSet(doc') = ToSet(doc) \cup {Last(RE)}
    BY <1>1, <2>1, <2>3, Pushed DEF DocInv
  <2>5. EndOf(UE', doc')
    BY <1>1, <2>1, <2>3, EndPushed DEF DocInv
  <2>. QED
    BY <1>2, <1>4, <2>2, <2>4, <2>5 DEF DocInv
<1>. QED
  BY <1>3, <1>4
LEMMA MoveTypes ==
  ASSUME TypeInv, DocInv, UndoOrRedoOne
  PROVE  TypeInv' /\ DocInv'
<1>1. /\ call \in Acting /\ call.i < call.n /\ call' = [call EXCEPT !.i = call.i + 1]
      /\ UNCHANGED <<action_sem, redo_stack_locked, made_at, group, last_saved_action, saved_doc>>
  BY MoveEffect DEF UndoOrRedoOne
<1>2. StacksInv' /\ ActionsInv'
  BY MoveStacks
<1>3. DocInv' /\ doc' \in Seq(Edits)
  BY MoveKeepsDoc
<1>4. /\ call' \in Acting /\ call'.i = call.i + 1 /\ call'.n = call.n /\ call'.name = call.name
      /\ call'.again = call.again /\ call.n \in Nat /\ call.i \in Nat /\ call.at = "acting"
  BY <1>1, Bounds DEF Acting
<1>5. CallInv'
  BY <1>1, <1>4, CallShapes DEF CallInv
<1>6. SemInv'
  BY <1>1, <1>4 DEF TypeInv, SemInv
<1>7. LockedInv'
  BY <1>1, <1>4, CallShapes DEF TypeInv, LockedInv
<1>8. CountsInv'
  BY <1>1, <1>3 DEF TypeInv, CountsInv
<1>. QED
  BY <1>2, <1>3, <1>5, <1>6, <1>7, <1>8 DEF TypeInv

(* A step that is neither a performed action nor one undone or redone.     *)
OtherStep ==
  \/ Wait \/ ReadGroup \/ EndUndoOrRedo \/ EndAutosave \/ UndoOrRedoFails \/ PerformFails \/ Crash
  \/ \E n \in 1..MaxGroup, c \in {"last", "each"}, b \in BOOLEAN : BeginPerform(n, c, b)
  \/ \E name \in {"undo", "redo"}, again \in Nat : BeginUndoOrRedo(name, again)
  \/ Save \/ BeginAutosave

LEMMA Steps ==
  Next => \/ \E a \in Addrs, k \in Kinds : PerformAction(a, k)
          \/ UndoOrRedoOne
          \/ OtherStep
<1>1. ASSUME NEW name \in {"undo", "redo"}, NEW row \in MenuRows, ChooseRow(name, row)
      PROVE  OtherStep
  BY <1>1, Bounds DEF ChooseRow, OtherStep
<1>2. ASSUME NEW name \in {"undo", "redo"}, BeginUndoOrRedo(name, 0)
      PROVE  OtherStep
  <2>1. 0 \in Nat
    OBVIOUS
  <2>. QED
    BY <1>2, <2>1 DEF OtherStep
<1>3. Begin => OtherStep
  BY <1>1, <1>2 DEF Begin, OtherStep
<1>. QED
  BY <1>3 DEF Next, Continue, OtherStep

LEMMA OtherTypes ==
  ASSUME TypeInv, OtherStep
  PROVE  TypeInv' /\ Renumbers
<1>1. CASE Wait
  BY <1>1, WaitTypes, QuietRenumbers
<1>2. CASE ReadGroup
  BY <1>2, ReadGroupTypes, QuietRenumbers
<1>3. CASE EndUndoOrRedo
  BY <1>3, EndUndoOrRedoTypes, QuietRenumbers
<1>4. CASE Save \/ BeginAutosave \/ EndAutosave
  BY <1>4, SaveTypes, QuietRenumbers
<1>5. CASE UndoOrRedoFails
  BY <1>5, UndoOrRedoFailsTypes
<1>6. CASE PerformFails
  BY <1>6, PerformFailsTypes
<1>7. CASE Crash
  <2>1. Quiet
    BY <1>7 DEF Crash, Quiet
  <2>. QED
    BY <1>7, <2>1, CrashTypes, QuietRenumbers
<1>8. ASSUME NEW n \in 1..MaxGroup, NEW c \in {"last", "each"}, NEW b \in BOOLEAN, BeginPerform(n, c, b)
      PROVE  TypeInv' /\ Renumbers
  <2>1. Quiet
    BY <1>8 DEF BeginPerform, Quiet
  <2>. QED
    BY <1>8, <2>1, BeginPerformTypes, QuietRenumbers
<1>9. ASSUME NEW name \in {"undo", "redo"}, NEW again \in Nat, BeginUndoOrRedo(name, again)
      PROVE  TypeInv' /\ Renumbers
  <2>1. Quiet
    BY <1>9 DEF BeginUndoOrRedo, Quiet
  <2>. QED
    BY <1>9, <2>1, BeginUndoOrRedoTypes, QuietRenumbers
<1>. QED
  BY <1>1, <1>2, <1>3, <1>4, <1>5, <1>6, <1>7, <1>8, <1>9 DEF OtherStep

LEMMA OtherKeepsDoc ==
  ASSUME TypeInv, DocInv, OtherStep
  PROVE  DocInv'
<1>1. UE' = UE /\ RE' = RE /\ UNCHANGED <<doc, group>>
  BY OtherTypes, RenumberEdits
<1>. QED
  BY <1>1 DEF DocInv

LEMMA InitTypes == Init => TypeInv /\ DocInv
<1>. SUFFICES ASSUME Init PROVE TypeInv /\ DocInv
  OBVIOUS
<1>1. /\ U = << >> /\ R = << >> /\ action = [a \in Addrs |-> Nil] /\ action_sem = 1
      /\ redo_stack_locked = FALSE /\ doc = << >> /\ made_at = << >> /\ group = << >>
      /\ last_saved_action = Nil /\ saved_doc = << >> /\ call = Idle
  BY DEF Init, U, R, EmptyStack
<1>2. /\ \A S : << >> \in Seq(S)
      /\ Len(<< >>) = 0 /\ IsInjective(<< >>) /\ ToSet(<< >>) = {}
  BY EmptySeq DEF IsInjective, ToSet
<1>3. StacksInv /\ ActionsInv
  BY <1>1, <1>2, Bounds DEF StacksInv, Stacked, ActionsInv
<1>4. CallInv /\ SemInv /\ LockedInv
  <2>1. CallInv
    BY <1>1, CallShapes DEF CallInv
  <2>2. SemInv
    BY <1>1, Bounds, IdleCall DEF SemInv
  <2>. QED
    BY <1>1, <2>1, <2>2 DEF LockedInv
<1>5. CountsInv
  BY <1>1, <1>2, Bounds DEF CountsInv
<1>6. TypeInv
  BY <1>3, <1>4, <1>5 DEF TypeInv
<1>7. UE = << >> /\ RE = << >>
  <2>1. UE \in Seq(Edits) /\ RE \in Seq(Edits) /\ Len(UE) = 0 /\ Len(RE) = 0
    BY <1>1, <1>2, <1>6, StacksOfActions
  <2>. QED
    BY <2>1, EmptySeq
<1>8. DocInv
  BY <1>1, <1>2, <1>7 DEF DocInv, EndOf
<1>. QED
  BY <1>6, <1>8

LEMMA Unmoved ==
  ASSUME UNCHANGED vars
  PROVE  (TypeInv /\ DocInv => TypeInv' /\ DocInv') /\ UE' = UE /\ RE' = RE
BY DEF vars, TypeInv, StacksInv, Stacked, ActionsInv, CallInv, SemInv, LockedInv, CountsInv,
       DocInv, UE, RE, U, R, EditsOf

(* The inductive invariant: types, and where the edits of the stacks are.  *)
THEOREM HistoryInvariance == Spec => [](TypeInv /\ DocInv)
<1>1. ASSUME TypeInv, DocInv, Next PROVE TypeInv' /\ DocInv'
  <2>1. CASE \E a \in Addrs, k \in Kinds : PerformAction(a, k)
    BY <1>1, <2>1, PerformTypes, PerformKeepsDoc
  <2>2. CASE UndoOrRedoOne
    BY <1>1, <2>2, MoveTypes
  <2>3. CASE OtherStep
    BY <1>1, <2>3, OtherTypes, OtherKeepsDoc
  <2>. QED
    BY <1>1, <2>1, <2>2, <2>3, Steps
<1>2. TypeInv /\ DocInv /\ [Next]_vars => (TypeInv /\ DocInv)'
  BY <1>1, Unmoved
<1>. QED
  BY InitTypes, <1>2, PTL DEF Spec

(* No action is on a stack twice or on both, none of those on a stack has  *)
(* been freed, and every variable has its type.                            *)
THEOREM TypeCorrect == Spec => []TypeOK
<1>1. TypeInv => TypeOK
  <2>. SUFFICES ASSUME TypeInv PROVE TypeOK
    OBVIOUS
  <2>1. /\ Stacked(U) /\ Stacked(R) /\ ToSet(U) \cap ToSet(R) = {}
        /\ \A a \in ToSet(U) \cup ToSet(R) : action[a] # Nil
        /\ action \in [Addrs -> {Nil} \cup Undoable]
    BY DEF TypeInv, StacksInv, ActionsInv
  <2>2. ASSUME NEW s, Stacked(s), ToSet(s) \subseteq ToSet(U) \cup ToSet(R)
        PROVE  s \in Seq(Live)
    <3>1. PICK n \in Nat : n = Len(s)
      BY <2>2, LenProperties DEF Stacked
    <3>2. s \in [1..n -> Addrs] /\ ToSet(s) = {s[i] : i \in 1..n}
      BY <2>2, <3>1, LenProperties, ToSetOf DEF Stacked
    <3>3. \A i \in 1..n : s[i] \in Live
      BY <2>1, <2>2, <3>2 DEF Live
    <3>4. s \in [1..n -> Live]
      BY <3>2, <3>3
    <3>. QED
      BY <3>1, <3>4, FunctionsAreSequences
  <2>3. U \in Seq(Live) /\ R \in Seq(Live) /\ IsInjective(U) /\ IsInjective(R)
    BY <2>1, <2>2 DEF Stacked
  <2>4. \A s \in {undo_stack, redo_stack} : s.elements \in Seq(Live) /\ IsInjective(s.elements)
    BY <2>3 DEF U, R
  <2>. QED
    BY <2>1, <2>4 DEF TypeOK, TypeInv, SemInv, LockedInv, CountsInv, Undoable, U, R
<1>. QED
  BY HistoryInvariance, <1>1, PTL

LEMMA Reversed ==
  ASSUME NEW S, NEW s \in Seq(S)
  PROVE  /\ Reverse(s) \in Seq(S) /\ Len(Reverse(s)) = Len(s) /\ Len(s) \in Nat
         /\ \A i \in 1..Len(s) : Reverse(s)[i] = s[Len(s) - i + 1]
<1>1. PICK n \in Nat : n = Len(s)
  BY LenProperties
<1>2. \A i \in 1..n : n - i + 1 \in 1..n
  BY SMT
<1>3. \A i \in 1..n : s[n - i + 1] \in S
  BY <1>1, <1>2, ElementOfSeq
<1>4. /\ Reverse(s) \in [1..n -> S]
      /\ \A i \in 1..n : Reverse(s)[i] = s[n - i + 1]
  BY <1>1, <1>3 DEF Reverse
<1>. QED
  BY <1>1, <1>4, FunctionsAreSequences

LEMMA EndIsSuffix ==
  ASSUME NEW S, NEW u \in Seq(S), NEW d \in Seq(S), EndOf(u, d)
  PROVE  IsSuffix(u, d)
<1>1. PICK m \in Nat, n \in Nat : m = Len(u) /\ n = Len(d)
  BY LenProperties
<1>2. m <= n /\ \A i \in 1..m : u[i] = d[n - m + i]
  BY <1>1 DEF EndOf
<1>. DEFINE v == Reverse(u)
            c == Reverse(d)
<1>3. v \in Seq(S) /\ Len(v) = m /\ \A i \in 1..m : v[i] = u[m - i + 1]
  BY <1>1, Reversed
<1>4. c \in Seq(S) /\ Len(c) = n /\ \A i \in 1..n : c[i] = d[n - i + 1]
  BY <1>1, Reversed
<1>. HIDE DEF v, c
<1>5. ASSUME NEW i \in 1..m PROVE v[i] = c[i] /\ v[i] \in S
  <2>1. m - i + 1 \in 1..m /\ i \in 1..n /\ n - m + (m - i + 1) = n - i + 1
    BY <1>2
  <2>2. v[i] = u[m - i + 1] /\ c[i] = d[n - i + 1]
    BY <1>3, <1>4, <2>1
  <2>3. u[m - i + 1] = d[n - i + 1]
    BY <1>2, <2>1
  <2>4. v[i] \in S
    BY <1>3, ElementOfSeq
  <2>. QED
    BY <2>2, <2>3, <2>4
<1>6. 1 \in Int /\ m \in Int /\ (1 <= m => m - 1 + 1 = m) /\ (~(1 <= m) => m = 0)
      /\ m - 1 + 1 = m /\ \A i \in 1..m : 1 + i - 1 = i
  BY SMT
<1>7. SubSeq(v, 1, m) = SubSeq(c, 1, m)
  <2>1. /\ SubSeq(v, 1, m) \in Seq(S) /\ Len(SubSeq(v, 1, m)) = m
        /\ \A i \in 1..m : SubSeq(v, 1, m)[i] = v[i]
    BY <1>5, <1>6, SubSeqProperties
  <2>2. \A i \in 1..m : c[i] \in S
    BY <1>5
  <2>3. /\ SubSeq(c, 1, m) \in Seq(S) /\ Len(SubSeq(c, 1, m)) = m
        /\ \A i \in 1..m : SubSeq(c, 1, m)[i] = c[i]
    BY <1>6, <2>2, SubSeqProperties
  <2>. QED
    BY <1>5, <2>1, <2>3, SeqEqual
<1>. QED
  BY <1>2, <1>3, <1>4, <1>7 DEF IsSuffix, IsPrefix, v, c

(* Undoing takes back what was done last, whatever fails, whatever is      *)
(* evicted and from whatever row of the menu it is asked.                  *)
THEOREM UndoTakesBackTheLast == Spec => []UndoMatchesDocument
<1>1. TypeInv /\ DocInv => UndoMatchesDocument
  BY StacksOfActions, EndIsSuffix DEF DocInv, UndoMatchesDocument, UE, U
<1>. QED
  BY HistoryInvariance, <1>1, PTL

-----------------------------------------------------------------------------
(***************************************************************************)
(* What is written to the project: the arrays, one per type of action.     *)
(***************************************************************************)
(* The array of a type has the actions of that type, in their order.       *)
Sorted(q, idx, S) == /\ ToSet(q) = S
                     /\ \A i, j \in 1..Len(q) : i < j => idx[q[i]] < idx[q[j]]
FiledAs(s, kind) ==
  /\ s.arrays \in [Kinds -> Seq(Addrs)]
  /\ DOMAIN s.stack_idx = ToSet(s.elements)
  /\ \A i \in 1..Len(s.elements) : s.stack_idx[s.elements[i]] = i - 1
  /\ \A k \in Kinds : Sorted(s.arrays[k], s.stack_idx, {a \in ToSet(s.elements) : kind[a] = k})
KindOf == [a \in Addrs |-> action[a].kind]
FiledInv == FiledAs(undo_stack, KindOf) /\ FiledAs(redo_stack, KindOf)

LEMMA LeastNatural ==
  ASSUME NEW S \in SUBSET Nat, S # {}
  PROVE  \E n \in S : \A k \in S : ~(k < n)
<1>1. \E n \in S : \A k \in S : ~(<<k, n>> \in OpToRel(<, Nat))
  BY WFMin, NatLessThanWellFounded, Zenon
<1>. QED
  BY <1>1 DEF OpToRel

LEMMA RemovedOne ==
  ASSUME NEW S, NEW q \in Seq(S), IsInjective(q), NEW p \in 1..Len(q)
  PROVE  LET r == RemoveFirst(q, q[p])
         IN /\ r \in Seq(S) /\ Len(r) = Len(q) - 1
            /\ \A j \in 1..(Len(q) - 1) : /\ j < p => r[j] = q[j]
                                          /\ ~(j < p) => r[j] = q[j + 1]
<1>1. PICK n \in Nat : n = Len(q)
  BY LenProperties
<1>2. DOMAIN q = 1..n /\ \A i \in 1..n : q[i] \in S
  BY <1>1, LenProperties, ElementOfSeq
<1>3. {i \in 1..Len(q) : q[i] = q[p]} = {p} /\ p \in Int
  BY <1>1, <1>2 DEF IsInjective
<1>4. Min({p}) = p
  BY <1>3 DEF Min
<1>5. SelectInSeq(q, LAMBDA v : v = q[p]) = p
  BY <1>3, <1>4 DEF SelectInSeq
<1>6. RemoveFirst(q, q[p]) = SubSeq(q, 1, p - 1) \o SubSeq(q, p + 1, n)
  BY <1>1, <1>5 DEF RemoveFirst, RemoveAt
<1>. DEFINE u == SubSeq(q, 1, p - 1)
            v == SubSeq(q, p + 1, n)
<1>7. p \in 1..n /\ p - 1 \in Nat /\ n - p \in Nat /\ 1 \in Int /\ p - 1 \in Int /\ p + 1 \in Int /\ n \in Int
  BY <1>1
<1>8. u \in Seq(S) /\ Len(u) = p - 1 /\ \A i \in 1..(p - 1) : u[i] = q[i]
  <2>1. \A i \in 1..(p - 1) : q[i] \in S
    BY <1>2, <1>7
  <2>2. /\ u \in Seq(S) /\ Len(u) = IF 1 <= p - 1 THEN p - 1 - 1 + 1 ELSE 0
        /\ \A i \in 1..(p - 1 - 1 + 1) : u[i] = q[1 + i - 1]
    BY <1>7, <2>1, SubSeqProperties
  <2>3. p - 1 - 1 + 1 = p - 1 /\ (~(1 <= p - 1) => p - 1 = 0) /\ \A i \in 1..(p - 1) : 1 + i - 1 = i
    BY <1>7
  <2>. HIDE DEF u
  <2>. QED
    BY <2>2, <2>3
<1>9. v \in Seq(S) /\ Len(v) = n - p /\ \A i \in 1..(n - p) : v[i] = q[i + p]
  <2>1. \A i \in p + 1..n : q[i] \in S
    BY <1>2, <1>7
  <2>2. /\ v \in Seq(S) /\ Len(v) = IF p + 1 <= n THEN n - (p + 1) + 1 ELSE 0
        /\ \A i \in 1..(n - (p + 1) + 1) : v[i] = q[p + 1 + i - 1]
    BY <1>7, <2>1, SubSeqProperties
  <2>3. n - (p + 1) + 1 = n - p /\ (~(p + 1 <= n) => n - p = 0) /\ \A i \in 1..(n - p) : p + 1 + i - 1 = i + p
    BY <1>7
  <2>. HIDE DEF v
  <2>. QED
    BY <2>2, <2>3
<1>. DEFINE r == u \o v
<1>. HIDE DEF u, v
<1>10. /\ r \in Seq(S) /\ Len(r) = Len(u) + Len(v)
       /\ \A k \in 1..Len(u) + Len(v) : r[k] = IF k <= Len(u) THEN u[k] ELSE v[k - Len(u)]
  BY <1>8, <1>9, ConcatProperties
<1>. HIDE DEF r
<1>11. Len(u) + Len(v) = n - 1
  BY <1>7, <1>8, <1>9
<1>12. ASSUME NEW j \in 1..(n - 1) PROVE r[j] = q[IF j < p THEN j ELSE j + 1]
  <2>1. CASE j < p
    <3>1. j \in 1..(p - 1) /\ j <= p - 1
      BY <1>7, <2>1
    <3>. QED
      BY <1>8, <1>10, <1>11, <2>1, <3>1
  <2>2. CASE ~(j < p)
    <3>1. ~(j <= p - 1) /\ j - (p - 1) \in 1..(n - p) /\ j - (p - 1) + p = j + 1
      BY <1>7, <2>2
    <3>. QED
      BY <1>8, <1>9, <1>10, <1>11, <2>2, <3>1
  <2>. QED
    BY <2>1, <2>2
<1>. QED
  BY <1>1, <1>6, <1>10, <1>11, <1>12 DEF r, u, v

LEMMA SortedInjective ==
  ASSUME NEW S, NEW q \in Seq(S), NEW idx, NEW T, Sorted(q, idx, T), \A b \in T : idx[b] \in Int
  PROVE  IsInjective(q)
<1>1. DOMAIN q = 1..Len(q) /\ ToSet(q) = {q[i] : i \in 1..Len(q)} /\ Len(q) \in Nat
  BY LenProperties, ToSetOf
<1>2. \A i, j \in 1..Len(q) : i < j => idx[q[i]] < idx[q[j]] /\ idx[q[i]] \in Int /\ idx[q[j]] \in Int
  BY <1>1 DEF Sorted
<1>3. \A i, j \in 1..Len(q) : i < j => q[i] # q[j]
  <2>1. \A x, y \in Int : x < y => x # y
    OBVIOUS
  <2>. QED
    BY <1>2, <2>1
<1>4. \A i, j \in 1..Len(q) : i # j => i < j \/ j < i
  BY <1>1
<1>. QED
  BY <1>1, <1>3, <1>4 DEF IsInjective

LEMMA SortedRemoved ==
  ASSUME NEW q \in Seq(Addrs), NEW idx, NEW T, Sorted(q, idx, T), \A b \in T : idx[b] \in Int,
         NEW a, NEW new, \A b, c \in T \ {a} : idx[b] < idx[c] => new[b] < new[c]
  PROVE  RemoveFirst(q, a) \in Seq(Addrs) /\ Sorted(RemoveFirst(q, a), new, T \ {a})
<1>1. IsInjective(q)
  BY SortedInjective
<1>2. DOMAIN q = 1..Len(q) /\ ToSet(q) = {q[i] : i \in 1..Len(q)} /\ ToSet(q) = T
  BY LenProperties, ToSetOf DEF Sorted
<1>3. PICK n \in Nat : n = Len(q)
  BY LenProperties
<1>4. \A i, j \in 1..n : i < j => idx[q[i]] < idx[q[j]]
  BY <1>3 DEF Sorted
<1>5. CASE a \notin T
  <2>1. RemoveFirst(q, a) = q
    BY <1>2, <1>5 DEF RemoveFirst
  <2>2. T \ {a} = T
    BY <1>5
  <2>3. \A i, j \in 1..n : i < j => new[q[i]] < new[q[j]]
    <3>1. TAKE i, j \in 1..n
    <3>2. q[i] \in T \ {a} /\ q[j] \in T \ {a}
      BY <1>2, <1>3, <2>2
    <3>. QED
      BY <1>4, <3>2
  <2>. QED
    BY <1>2, <1>3, <2>1, <2>2, <2>3 DEF Sorted
<1>6. CASE a \in T
  <2>. DEFINE r == RemoveFirst(q, a)
  <2>1. PICK p \in 1..n : q[p] = a
    BY <1>2, <1>3, <1>6
  <2>2. /\ r \in Seq(Addrs) /\ Len(r) = n - 1
        /\ \A j \in 1..(n - 1) : /\ j < p => r[j] = q[j]
                                 /\ ~(j < p) => r[j] = q[j + 1]
    <3>1. r = RemoveFirst(q, q[p]) /\ p \in 1..Len(q)
      BY <1>3, <2>1
    <3>2. /\ RemoveFirst(q, q[p]) \in Seq(Addrs)
          /\ Len(RemoveFirst(q, q[p])) = Len(q) - 1
          /\ \A j \in 1..(Len(q) - 1) : /\ j < p => RemoveFirst(q, q[p])[j] = q[j]
                                        /\ ~(j < p) => RemoveFirst(q, q[p])[j] = q[j + 1]
      BY <1>1, <3>1, RemovedOne
    <3>. HIDE DEF r
    <3>. QED
      BY <1>3, <3>1, <3>2
  <2>. HIDE DEF r
  <2>3. ToSet(r) = {r[j] : j \in 1..(n - 1)}
    BY <2>2, ToSetOf
  <2>. DEFINE at == [j \in 1..(n - 1) |-> IF j < p THEN j ELSE j + 1]
  <2>4. \A j \in 1..(n - 1) : at[j] \in 1..n /\ at[j] # p
    BY <1>3, <2>1
  <2>5. \A i, j \in 1..(n - 1) : i < j => at[i] < at[j]
    BY <1>3, <2>1
  <2>6. \A i \in 1..n : i # p => \E j \in 1..(n - 1) : at[j] = i
    <3>1. TAKE i \in 1..n
    <3>2. CASE i < p
      <4>1. i \in 1..(n - 1) /\ at[i] = i
        BY <1>3, <2>1, <3>2
      <4>. QED
        BY <4>1
    <3>3. CASE i > p
      <4>1. i - 1 \in 1..(n - 1) /\ at[i - 1] = i
        BY <1>3, <2>1, <3>3
      <4>. QED
        BY <4>1
    <3>. QED
      BY <1>3, <2>1, <3>2, <3>3
  <2>7. \A j \in 1..(n - 1) : r[j] = q[at[j]]
    <3>1. TAKE j \in 1..(n - 1)
    <3>2. CASE j < p
      <4>1. at[j] = j
        BY <3>2
      <4>2. r[j] = q[j]
        BY <2>2, <3>2
      <4>. HIDE DEF at
      <4>. QED
        BY <4>1, <4>2
    <3>3. CASE ~(j < p)
      <4>1. at[j] = j + 1
        BY <3>3
      <4>2. r[j] = q[j + 1]
        BY <2>2, <3>3
      <4>. HIDE DEF at
      <4>. QED
        BY <4>1, <4>2
    <3>. QED
      BY <3>2, <3>3
  <2>. HIDE DEF at
  <2>8. \A j \in 1..(n - 1) : r[j] \in T \ {a}
    BY <1>1, <1>2, <1>3, <2>1, <2>4, <2>7 DEF IsInjective
  <2>9. T \ {a} \subseteq ToSet(r)
    <3>1. SUFFICES ASSUME NEW b \in T, b # a PROVE b \in ToSet(r)
      OBVIOUS
    <3>2. PICK i \in 1..n : q[i] = b
      BY <1>2, <1>3
    <3>3. PICK j \in 1..(n - 1) : at[j] = i
      BY <2>1, <2>6, <3>1, <3>2
    <3>. QED
      BY <2>3, <2>7, <3>2, <3>3
  <2>10. ASSUME NEW i \in 1..(n - 1), NEW j \in 1..(n - 1), i < j PROVE new[r[i]] < new[r[j]]
    <3>1. idx[r[i]] < idx[r[j]]
      BY <1>4, <2>4, <2>5, <2>7, <2>10
    <3>. QED
      BY <2>8, <3>1
  <2>11. ToSet(r) = T \ {a}
    BY <2>3, <2>8, <2>9
  <2>. QED
    BY <2>2, <2>10, <2>11 DEF Sorted, r
<1>. QED
  BY <1>5, <1>6
LEMMA IndexedIs ==
  ASSUME NEW s \in Seq(Addrs), IsInjective(s)
  PROVE  /\ DOMAIN Indexed(s) = ToSet(s)
         /\ \A i \in 1..Len(s) : Indexed(s)[s[i]] = i - 1
<1>1. DOMAIN s = 1..Len(s) /\ ToSet(s) = {s[i] : i \in 1..Len(s)}
  BY LenProperties, ToSetOf
<1>2. ASSUME NEW i \in 1..Len(s) PROVE Indexed(s)[s[i]] = i - 1
  <2>1. \A l \in 1..Len(s) : s[l] = s[i] <=> l = i
    BY <1>1 DEF IsInjective
  <2>2. (CHOOSE l \in 1..Len(s) : s[l] = s[i]) = i
    BY <2>1
  <2>3. s[i] \in ToSet(s)
    BY <1>1
  <2>. QED
    BY <2>2, <2>3 DEF Indexed
<1>. QED
  BY <1>2 DEF Indexed

(* The last or the first of a stack is taken off.                          *)
LEMMA FiledRemoved ==
  ASSUME NEW s, NEW kind, s.elements \in Seq(Addrs), FiledAs(s, kind),
         NEW t \in Seq(Addrs), IsInjective(t), NEW a,
         ToSet(t) = ToSet(s.elements) \ {a}, Len(t) = Len(s.elements) - 1,
         \/ \A i \in 1..Len(t) : t[i] = s.elements[i]
         \/ \A i \in 1..Len(t) : t[i] = s.elements[i + 1]
  PROVE  FiledAs(RemoveAction(s, t, a), kind)
<1>. DEFINE r == RemoveAction(s, t, a)
            new == Indexed(t)
            old == s.stack_idx
<1>1. /\ r.elements = t /\ r.stack_idx = new
      /\ r.arrays = [k \in Kinds |-> RemoveFirst(s.arrays[k], a)]
  BY DEF RemoveAction
<1>2. /\ s.arrays \in [Kinds -> Seq(Addrs)] /\ DOMAIN old = ToSet(s.elements)
      /\ \A i \in 1..Len(s.elements) : old[s.elements[i]] = i - 1
      /\ \A k \in Kinds : Sorted(s.arrays[k], old, {b \in ToSet(s.elements) : kind[b] = k})
  BY DEF FiledAs
<1>3. DOMAIN new = ToSet(t) /\ \A i \in 1..Len(t) : new[t[i]] = i - 1
  BY IndexedIs
<1>. HIDE DEF r, new, old
<1>4. PICK n \in Nat : n = Len(t) /\ Len(s.elements) = n + 1
  BY ToSetOf
<1>. PICK d \in {0, 1} : \A i \in 1..n : t[i] = s.elements[i + d]
  <2>1. \A i \in 1..n : i + 0 = i
    OBVIOUS
  <2>2. CASE \A i \in 1..Len(t) : t[i] = s.elements[i]
    BY <1>4, <2>1, <2>2
  <2>3. CASE \A i \in 1..Len(t) : t[i] = s.elements[i + 1]
    BY <1>4, <2>3
  <2>. QED
    BY <2>2, <2>3
<1>5. /\ ToSet(t) = {t[i] : i \in 1..n}
      /\ ToSet(s.elements) = {s.elements[i] : i \in 1..(n + 1)}
  BY <1>4, ToSetOf
<1>6. ASSUME NEW b \in ToSet(t) PROVE new[b] = old[b] - d /\ old[b] \in Int
  <2>1. PICK i \in 1..n : t[i] = b
    BY <1>5
  <2>2. b = s.elements[i + d] /\ i + d \in 1..(n + 1) /\ i - 1 = (i + d) - 1 - d
    BY <1>4, <2>1
  <2>3. new[b] = i - 1 /\ old[b] = (i + d) - 1
    BY <1>2, <1>3, <1>4, <2>1, <2>2
  <2>. QED
    BY <2>2, <2>3
<1>7. \A b \in ToSet(s.elements) : old[b] \in Int
  <2>1. SUFFICES ASSUME NEW i \in 1..(n + 1) PROVE old[s.elements[i]] \in Int
    BY <1>5
  <2>. QED
    BY <1>2, <1>4
<1>8. ASSUME NEW k \in Kinds
      PROVE  /\ RemoveFirst(s.arrays[k], a) \in Seq(Addrs)
             /\ Sorted(RemoveFirst(s.arrays[k], a), new, {b \in ToSet(t) : kind[b] = k})
  <2>. DEFINE T == {b \in ToSet(s.elements) : kind[b] = k}
  <2>1. s.arrays[k] \in Seq(Addrs) /\ Sorted(s.arrays[k], old, T)
    BY <1>2
  <2>2. \A b \in T : old[b] \in Int
    BY <1>7
  <2>3. {b \in ToSet(t) : kind[b] = k} = T \ {a}
    OBVIOUS
  <2>4. \A b, c \in T \ {a} : old[b] < old[c] => new[b] < new[c]
    BY <1>6, <2>3
  <2>. HIDE DEF T
  <2>5. RemoveFirst(s.arrays[k], a) \in Seq(Addrs) /\ Sorted(RemoveFirst(s.arrays[k], a), new, T \ {a})
    BY <2>1, <2>2, <2>4, SortedRemoved
  <2>. QED
    BY <2>3, <2>5
<1>. QED
  BY <1>1, <1>3, <1>8 DEF FiledAs, r

LEMMA FiledPop ==
  ASSUME NEW s, NEW kind, Stacked(s.elements), s.elements # << >>, FiledAs(s, kind)
  PROVE  FiledAs(Pop(s), kind)
<1>. DEFINE e == s.elements
            t == Front(e)
<1>1. e \in Seq(Addrs) /\ IsInjective(e)
  BY DEF Stacked
<1>2. /\ t \in Seq(Addrs) /\ IsInjective(t) /\ Len(t) = Len(e) - 1
      /\ ToSet(t) = ToSet(e) \ {Last(e)} /\ \A i \in 1..(Len(e) - 1) : t[i] = e[i]
  BY <1>1, Popped
<1>3. Pop(s) = RemoveAction(s, t, Last(e))
  BY DEF Pop
<1>. HIDE DEF t
<1>4. FiledAs(RemoveAction(s, t, Last(e)), kind)
  BY <1>1, <1>2, FiledRemoved
<1>. QED
  BY <1>3, <1>4

LEMMA FiledRoom ==
  ASSUME NEW s, NEW kind, Stacked(s.elements), FiledAs(s, kind)
  PROVE  FiledAs(IF IsFull(s) THEN PopLast(s) ELSE s, kind)
<1>1. CASE ~IsFull(s)
  BY <1>1
<1>2. CASE IsFull(s)
  <2>. DEFINE e == s.elements
              t == Tail(e)
  <2>1. e \in Seq(Addrs) /\ IsInjective(e)
    BY DEF Stacked
  <2>2. e # << >>
    BY <1>2, Bounds, EmptySeq DEF IsFull
  <2>3. /\ t \in Seq(Addrs) /\ IsInjective(t) /\ Len(t) = Len(e) - 1
        /\ ToSet(t) = ToSet(e) \ {Head(e)} /\ \A i \in 1..(Len(e) - 1) : t[i] = e[i + 1]
    BY <2>1, <2>2, Dropped
  <2>4. PopLast(s) = RemoveAction(s, t, Head(e))
    BY DEF PopLast
  <2>. HIDE DEF t
  <2>5. FiledAs(RemoveAction(s, t, Head(e)), kind)
    BY <2>1, <2>3, FiledRemoved
  <2>. QED
    BY <1>2, <2>4, <2>5
<1>. QED
  BY <1>1, <1>2

(* An action is put on top of a stack that has room for it.                *)
LEMMA FiledPush ==
  ASSUME NEW s, NEW kind, Stacked(s.elements), FiledAs(s, kind), ~IsFull(s),
         NEW a \in Addrs, a \notin ToSet(s.elements), NEW k \in Kinds,
         NEW new, new[a] = k, \A b \in ToSet(s.elements) : new[b] = kind[b]
  PROVE  FiledAs(Push(s, a, k), new)
<1>. DEFINE e == s.elements
            t == Append(e, a)
            old == s.stack_idx
            idx == [b \in DOMAIN old \cup {a} |-> IF b = a THEN Len(t) - 1 ELSE old[b]]
            p == Push(s, a, k)
<1>1. /\ p.elements = t /\ p.stack_idx = idx
      /\ p.arrays = [s.arrays EXCEPT ![k] = Append(@, a)]
  BY DEF Push
<1>2. /\ s.arrays \in [Kinds -> Seq(Addrs)] /\ DOMAIN old = ToSet(e)
      /\ \A i \in 1..Len(e) : old[e[i]] = i - 1
      /\ \A l \in Kinds : Sorted(s.arrays[l], old, {b \in ToSet(e) : kind[b] = l})
  BY DEF FiledAs
<1>3. PICK n \in Nat : n = Len(e)
  BY ToSetOf DEF Stacked
<1>4. e \in Seq(Addrs) /\ IsInjective(e) /\ ToSet(e) = {e[i] : i \in 1..n}
  BY <1>3, ToSetOf DEF Stacked
<1>5. /\ t \in Seq(Addrs) /\ Len(t) = n + 1 /\ ToSet(t) = ToSet(e) \cup {a}
      /\ t[n + 1] = a /\ \A i \in 1..n : t[i] = e[i]
  BY <1>3, <1>4, Pushed
<1>. HIDE DEF t, p, old
<1>6. /\ DOMAIN idx = ToSet(t) /\ idx[a] = n
      /\ \A b \in ToSet(e) : idx[b] = old[b]
  BY <1>2, <1>5
<1>. HIDE DEF idx
<1>7. \A b \in ToSet(e) : old[b] \in Int /\ old[b] < n
  <2>1. SUFFICES ASSUME NEW i \in 1..n PROVE old[e[i]] \in Int /\ old[e[i]] < n
    BY <1>4
  <2>. QED
    BY <1>2, <1>3
<1>8. ASSUME NEW i \in 1..(n + 1) PROVE idx[t[i]] = i - 1
  <2>1. CASE i = n + 1
    BY <1>5, <1>6, <2>1
  <2>2. CASE i # n + 1
    <3>1. i \in 1..n
      BY <2>2
    <3>. QED
      BY <1>2, <1>3, <1>4, <1>5, <1>6, <3>1
  <2>. QED
    BY <2>1, <2>2
<1>9. ASSUME NEW l \in Kinds
      PROVE  /\ p.arrays[l] \in Seq(Addrs)
             /\ Sorted(p.arrays[l], idx, {b \in ToSet(t) : new[b] = l})
  <2>. DEFINE q == s.arrays[l]
              T == {b \in ToSet(e) : kind[b] = l}
  <2>1. q \in Seq(Addrs) /\ ToSet(q) = T /\ \A i, j \in 1..Len(q) : i < j => old[q[i]] < old[q[j]]
    BY <1>2 DEF Sorted
  <2>2. PICK m \in Nat : m = Len(q)
    BY <2>1, LenProperties
  <2>3. \A i \in 1..m : q[i] \in T
    BY <2>1, <2>2, ToSetOf
  <2>4. T \subseteq ToSet(e)
    OBVIOUS
  <2>5. CASE l # k
    <3>1. p.arrays[l] = q
      BY <1>1, <1>2, <2>5
    <3>2. {b \in ToSet(t) : new[b] = l} = T
      BY <1>5, <2>5
    <3>. HIDE DEF q, T
    <3>3. \A i, j \in 1..m : i < j => idx[q[i]] < idx[q[j]]
      BY <1>6, <2>1, <2>2, <2>3, <2>4
    <3>. QED
      BY <2>1, <2>2, <3>1, <3>2, <3>3 DEF Sorted
  <2>6. CASE l = k
    <3>. DEFINE z == Append(q, a)
    <3>1. p.arrays[l] = z
      BY <1>1, <1>2, <2>6
    <3>2. {b \in ToSet(t) : new[b] = l} = T \cup {a}
      BY <1>5, <2>6
    <3>3. /\ z \in Seq(Addrs) /\ Len(z) = m + 1
          /\ z[m + 1] = a /\ \A i \in 1..m : z[i] = q[i]
      BY <2>1, <2>2, AppendProperties
    <3>. HIDE DEF q, T, z
    <3>4. ToSet(z) = {z[i] : i \in 1..(m + 1)} /\ ToSet(q) = {q[i] : i \in 1..m}
      BY <2>1, <2>2, <3>3, ToSetOf
    <3>5. \A i : i \in 1..(m + 1) <=> i \in 1..m \/ i = m + 1
      BY <2>2
    <3>6. ToSet(z) = T \cup {a}
      BY <2>1, <3>3, <3>4, <3>5
    <3>7. ASSUME NEW i \in 1..(m + 1), NEW j \in 1..(m + 1), i < j PROVE idx[z[i]] < idx[z[j]]
      <4>1. i \in 1..m
        BY <3>7
      <4>2. z[i] = q[i] /\ q[i] \in ToSet(e) /\ idx[q[i]] = old[q[i]]
        BY <1>6, <2>3, <2>4, <3>3, <4>1
      <4>3. CASE j = m + 1
        BY <1>6, <1>7, <3>3, <4>2, <4>3
      <4>4. CASE j # m + 1
        <5>1. j \in 1..m
          BY <4>4
        <5>2. z[j] = q[j] /\ q[j] \in ToSet(e) /\ idx[q[j]] = old[q[j]]
          BY <1>6, <2>3, <2>4, <3>3, <5>1
        <5>. QED
          BY <2>1, <2>2, <3>7, <4>1, <4>2, <5>1, <5>2
      <4>. QED
        BY <4>3, <4>4
    <3>. QED
      BY <3>1, <3>2, <3>3, <3>6, <3>7 DEF Sorted
  <2>. QED
    BY <2>5, <2>6
<1>10. p.arrays \in [Kinds -> Seq(Addrs)]
  <2>1. p.arrays = [l \in Kinds |-> p.arrays[l]]
    BY <1>1, <1>2
  <2>. QED
    BY <1>9, <2>1
<1>. QED
  BY <1>1, <1>5, <1>6, <1>8, <1>9, <1>10 DEF FiledAs, p
-----------------------------------------------------------------------------
(* A recursion over 0..n, from b by the n steps of F.                      *)
Stepwise(S, b, n, F) == b \in S /\ n \in Nat /\ F \in [1..n -> [S -> S]]
Computes(S, b, n, F, g) == /\ g \in [0..n -> S] /\ g[0] = b
                           /\ \A i \in 1..n : g[i] = F[i][g[i - 1]]
LEMMA RecursionExists ==
  ASSUME NEW S, NEW b, NEW n, NEW F, Stepwise(S, b, n, F)
  PROVE  \E g : Computes(S, b, n, F, g)
<1>. b \in S /\ n \in Nat /\ F \in [1..n -> [S -> S]]
  BY DEF Stepwise
<1>. DEFINE Good(m) == \E g \in [0..m -> S] : /\ g[0] = b
                                              /\ \A i \in 1..m : g[i] = F[i][g[i - 1]]
            Bad == {m \in 0..n : ~Good(m)}
<1>1. SUFFICES ASSUME Bad # {} PROVE FALSE
  <2>1. n \in 0..n /\ (Good(n) => \E g : Computes(S, b, n, F, g))
    BY DEF Computes
  <2>2. Bad = {} => Good(n)
    BY <2>1
  <2>. HIDE DEF Bad, Good
  <2>. QED
    BY <2>1, <2>2
<1>2. PICK m \in Bad : \A k \in Bad : ~(k < m)
  <2>1. Bad \in SUBSET Nat
    OBVIOUS
  <2>. HIDE DEF Bad
  <2>. QED
    BY <1>1, <2>1, LeastNatural
<1>3. m \in 0..n /\ ~Good(m)
  OBVIOUS
<1>4. CASE m = 0
  <2>. DEFINE g == [i \in 0..0 |-> b]
  <2>1. g \in [0..0 -> S] /\ g[0] = b /\ \A i \in 1..0 : g[i] = F[i][g[i - 1]]
    OBVIOUS
  <2>. QED
    BY <1>3, <1>4, <2>1
<1>5. CASE m # 0
  <2>1. m - 1 \in 0..n /\ m - 1 < m /\ m \in 1..n
    BY <1>3, <1>5
  <2>2. Good(m - 1)
    BY <1>2, <2>1
  <2>3. PICK g \in [0..(m - 1) -> S] : g[0] = b /\ \A i \in 1..(m - 1) : g[i] = F[i][g[i - 1]]
    BY <2>2
  <2>. DEFINE h == [i \in 0..m |-> IF i = m THEN F[m][g[m - 1]] ELSE g[i]]
  <2>4. /\ 0 \in 0..m /\ 0 # m /\ m \in 0..m /\ m - 1 \in 0..(m - 1) /\ m - 1 \in 0..m /\ m - 1 # m
        /\ \A i \in 0..m : i # m => i \in 0..(m - 1)
        /\ \A i \in 1..m : i # m => /\ i \in 1..(m - 1) /\ i - 1 \in 0..m /\ i - 1 # m
                                    /\ i \in 0..m
    BY <2>1
  <2>5. F[m][g[m - 1]] \in S
    BY <2>1, <2>3, <2>4
  <2>6. h \in [0..m -> S] /\ h[m] = F[m][g[m - 1]] /\ \A i \in 0..m : i # m => h[i] = g[i]
    BY <2>3, <2>4, <2>5
  <2>. HIDE DEF h
  <2>7. h[0] = b
    BY <2>3, <2>4, <2>6
  <2>8. ASSUME NEW i \in 1..m PROVE h[i] = F[i][h[i - 1]]
    <3>1. CASE i = m
      BY <2>4, <2>6, <3>1
    <3>2. CASE i # m
      BY <2>3, <2>4, <2>6, <3>2
    <3>. QED
      BY <3>1, <3>2
  <2>9. Good(m)
    BY <2>6, <2>7, <2>8
  <2>. QED
    BY <1>3, <2>9
<1>. QED
  BY <1>4, <1>5

LEMMA Climb ==
  ASSUME NEW n \in Nat, NEW A, A \subseteq 0..n, 0 \in A,
         \A i \in 1..n : i - 1 \in A => i \in A
  PROVE  A = 0..n
<1>1. SUFFICES ASSUME 0..n \ A # {} PROVE FALSE
  OBVIOUS
<1>2. PICK m \in 0..n \ A : \A k \in 0..n \ A : ~(k < m)
  <2>1. 0..n \ A \in SUBSET Nat
    OBVIOUS
  <2>. QED
    BY <1>1, <2>1, LeastNatural
<1>3. m # 0
  OBVIOUS
<1>4. m \in 1..n /\ m - 1 \in 0..n /\ m - 1 < m
  BY <1>3
<1>5. m - 1 \in A
  BY <1>2, <1>4
<1>. QED
  BY <1>4, <1>5

LEMMA KindsAre == /\ Len(Types) \in Nat /\ \A i \in 1..Len(Types) : Types[i] \in Kinds
                  /\ \A k \in Kinds : \E i \in 1..Len(Types) : Types[i] = k
<1>1. Types \in Seq(STRING)
  BY TypesAssumption
<1>2. Kinds = {Types[i] : i \in 1..Len(Types)} /\ Len(Types) \in Nat
  BY <1>1, ToSetOf DEF Kinds
<1>. QED
  BY <1>2

(* undo_stack_get_total_cached_actions adds up the lengths.                *)
LEMMA TotalIs ==
  ASSUME NEW s, s.arrays \in [Kinds -> Seq(Addrs)]
  PROVE  \E g \in [0..Len(Types) -> Nat] :
           /\ g[0] = 0 /\ g[Len(Types)] = Total(s)
           /\ \A i \in 1..Len(Types) : g[i] = g[i - 1] + Len(s.arrays[Types[i]])
<1>1. PICK n \in Nat : n = Len(Types)
  BY KindsAre
<1>. DEFINE len(i) == Len(s.arrays[Types[i]])
            F == [i \in 1..n |-> [x \in Nat |-> x + len(i)]]
            Eqn(g) == g = [i \in 0..n |-> IF i = 0 THEN 0 ELSE g[i - 1] + len(i)]
<1>2. \A i \in 1..n : len(i) \in Nat
  BY <1>1, KindsAre, LenProperties
<1>. HIDE DEF len
<1>3. F \in [1..n -> [Nat -> Nat]] /\ \A i \in 1..n : \A x \in Nat : F[i][x] = x + len(i)
  BY <1>2
<1>. HIDE DEF F
<1>4. PICK g : g \in [0..n -> Nat] /\ g[0] = 0 /\ \A i \in 1..n : g[i] = F[i][g[i - 1]]
  <2>1. Stepwise(Nat, 0, n, F)
    BY <1>3 DEF Stepwise
  <2>2. \E g : Computes(Nat, 0, n, F, g)
    BY <2>1, RecursionExists
  <2>. QED
    BY <2>2 DEF Computes
<1>5. \A i \in 1..n : i - 1 \in 0..n
  OBVIOUS
<1>6. \A i \in 1..n : g[i] = g[i - 1] + len(i)
  BY <1>3, <1>4, <1>5
<1>7. Eqn(g)
  <2>1. \A i \in 0..n : g[i] = IF i = 0 THEN 0 ELSE g[i - 1] + len(i)
    <3>1. TAKE i \in 0..n
    <3>2. i # 0 => i \in 1..n
      OBVIOUS
    <3>. QED
      BY <1>4, <1>6, <3>2
  <2>. QED
    BY <1>4, <2>1
<1>. DEFINE h == CHOOSE x : Eqn(x)
<1>8. Eqn(h)
  <2>. HIDE DEF Eqn
  <2>. QED
    BY <1>7
<1>9. Total(s) = h[n]
  BY <1>1 DEF Total, len
<1>. HIDE DEF h
<1>10. h[0] = 0 /\ \A i \in 1..n : h[i] = h[i - 1] + len(i)
  BY <1>8
<1>11. h \in [0..n -> Nat]
  <2>. DEFINE A == {i \in 0..n : h[i] \in Nat}
  <2>1. A = 0..n
    <3>1. A \subseteq 0..n /\ 0 \in A
      BY <1>10
    <3>2. \A i \in 1..n : i - 1 \in A => i \in A
      BY <1>2, <1>10
    <3>. HIDE DEF A
    <3>. QED
      BY <3>1, <3>2, Climb
  <2>2. DOMAIN h = 0..n /\ h = [i \in 0..n |-> h[i]]
    BY <1>8
  <2>. HIDE DEF Eqn
  <2>. QED
    BY <2>1, <2>2
<1>. QED
  BY <1>1, <1>9, <1>10, <1>11 DEF len
(* How far a reload is: what it has pushed, and where it is in each array. *)
Progress == [elements : Seq(Addrs), next : [Kinds -> Nat \ {0}]]
Start == [elements |-> << >>, next |-> [k \in Kinds |-> 1]]

LEMMA Offered ==
  ASSUME NEW s, s.arrays \in [Kinds -> Seq(Addrs)], NEW r \in Progress, NEW k \in Kinds
  PROVE  LET a == s.arrays[k][r.next[k]]
             o == Offer(s, r, k)
         IN /\ o \in Progress
            /\ \/ /\ r.next[k] <= Len(s.arrays[k]) /\ s.stack_idx[a] = Len(r.elements)
                  /\ o.elements = Append(r.elements, a)
                  /\ o.next[k] = r.next[k] + 1 /\ \A l \in Kinds : l # k => o.next[l] = r.next[l]
               \/ /\ ~(r.next[k] <= Len(s.arrays[k]) /\ s.stack_idx[a] = Len(r.elements))
                  /\ o = r
<1>. DEFINE a == s.arrays[k][r.next[k]]
            o == Offer(s, r, k)
<1>1. /\ s.arrays[k] \in Seq(Addrs) /\ r.elements \in Seq(Addrs) /\ r.next \in [Kinds -> Nat \ {0}]
      /\ r.next[k] \in Nat \ {0}
  BY DEF Progress
<1>2. CASE r.next[k] <= Len(s.arrays[k]) /\ s.stack_idx[a] = Len(r.elements)
  <2>. DEFINE next == [r.next EXCEPT ![k] = @ + 1]
  <2>1. o = [elements |-> Append(r.elements, a), next |-> next]
    BY <1>2 DEF Offer
  <2>2. a \in Addrs
    <3>1. r.next[k] \in 1..Len(s.arrays[k])
      BY <1>1, <1>2, LenProperties
    <3>. QED
      BY <1>1, <3>1, ElementOfSeq
  <2>3. Append(r.elements, a) \in Seq(Addrs)
    BY <1>1, <2>2, AppendProperties
  <2>4. r.next[k] + 1 \in Nat \ {0}
    BY <1>1
  <2>5. next \in [Kinds -> Nat \ {0}] /\ next[k] = r.next[k] + 1 /\ \A l \in Kinds : l # k => next[l] = r.next[l]
    BY <1>1, <2>4
  <2>. HIDE DEF next, a, o
  <2>6. o \in Progress /\ o.elements = Append(r.elements, a) /\ o.next = next
    BY <2>1, <2>3, <2>5 DEF Progress
  <2>. QED
    BY <1>2, <2>5, <2>6 DEF a, o
<1>3. CASE ~(r.next[k] <= Len(s.arrays[k]) /\ s.stack_idx[a] = Len(r.elements))
  <2>1. o = r
    BY <1>3 DEF Offer
  <2>. HIDE DEF o, a
  <2>. QED
    BY <1>3, <2>1 DEF o, a
<1>. QED
  BY <1>2, <1>3

(* One round offers an action of each type in turn.                        *)
LEMMA RoundIs ==
  ASSUME NEW s, s.arrays \in [Kinds -> Seq(Addrs)], NEW r \in Progress
  PROVE  \E g : /\ g \in [0..Len(Types) -> Progress] /\ g[0] = r /\ g[Len(Types)] = Round(s, r)
                /\ \A i \in 1..Len(Types) : g[i] = Offer(s, g[i - 1], Types[i])
<1>1. PICK n \in Nat : n = Len(Types)
  BY KindsAre
<1>. DEFINE F == [i \in 1..n |-> [x \in Progress |-> Offer(s, x, Types[i])]]
            Eqn(g) == g = [i \in 0..n |-> IF i = 0 THEN r ELSE Offer(s, g[i - 1], Types[i])]
<1>2. \A i \in 1..n : \A x \in Progress : Offer(s, x, Types[i]) \in Progress
  BY <1>1, KindsAre, Offered
<1>3. F \in [1..n -> [Progress -> Progress]] /\ \A i \in 1..n : \A x \in Progress : F[i][x] = Offer(s, x, Types[i])
  BY <1>2
<1>. HIDE DEF F
<1>4. PICK g : g \in [0..n -> Progress] /\ g[0] = r /\ \A i \in 1..n : g[i] = F[i][g[i - 1]]
  <2>1. Stepwise(Progress, r, n, F)
    BY <1>3 DEF Stepwise
  <2>2. \E g : Computes(Progress, r, n, F, g)
    BY <2>1, RecursionExists
  <2>. QED
    BY <2>2 DEF Computes
<1>5. \A i \in 1..n : i - 1 \in 0..n
  OBVIOUS
<1>6. \A i \in 1..n : g[i] = Offer(s, g[i - 1], Types[i])
  BY <1>3, <1>4, <1>5
<1>7. Eqn(g)
  <2>1. \A i \in 0..n : g[i] = IF i = 0 THEN r ELSE Offer(s, g[i - 1], Types[i])
    <3>1. TAKE i \in 0..n
    <3>2. i # 0 => i \in 1..n
      OBVIOUS
    <3>. QED
      BY <1>4, <1>6, <3>2
  <2>. QED
    BY <1>4, <2>1
<1>. DEFINE h == CHOOSE x : Eqn(x)
<1>8. Eqn(h)
  <2>. HIDE DEF Eqn
  <2>. QED
    BY <1>7
<1>9. Round(s, r) = h[n]
  BY <1>1 DEF Round
<1>. HIDE DEF h
<1>10. h[0] = r /\ \A i \in 1..n : h[i] = Offer(s, h[i - 1], Types[i])
  BY <1>8
<1>11. h \in [0..n -> Progress]
  <2>. DEFINE A == {i \in 0..n : h[i] \in Progress}
  <2>1. A = 0..n
    <3>1. A \subseteq 0..n /\ 0 \in A
      BY <1>10
    <3>2. \A i \in 1..n : i - 1 \in A => i \in A
      BY <1>2, <1>10
    <3>. HIDE DEF A
    <3>. QED
      BY <3>1, <3>2, Climb
  <2>2. DOMAIN h = 0..n /\ h = [i \in 0..n |-> h[i]]
    BY <1>8
  <2>. HIDE DEF Eqn
  <2>. QED
    BY <2>1, <2>2
<1>. QED
  BY <1>1, <1>9, <1>10, <1>11

LEMMA RoundType ==
  ASSUME NEW s, s.arrays \in [Kinds -> Seq(Addrs)], NEW r \in Progress
  PROVE  Round(s, r) \in Progress
<1>1. PICK g : g \in [0..Len(Types) -> Progress] /\ g[Len(Types)] = Round(s, r)
  BY RoundIs
<1>2. Len(Types) \in 0..Len(Types)
  BY KindsAre
<1>. QED
  BY <1>1, <1>2

(* As many rounds as there are actions.                                    *)
LEMMA LoadedIs ==
  ASSUME NEW s, s.arrays \in [Kinds -> Seq(Addrs)], Total(s) \in Nat
  PROVE  \E g : /\ g \in [0..Total(s) -> Progress] /\ g[0] = Start
                /\ g[Total(s)].elements = InitLoaded(s)
                /\ \A i \in 1..Total(s) : g[i] = Round(s, g[i - 1])
<1>1. PICK n \in Nat : n = Total(s)
  OBVIOUS
<1>2. Start \in Progress
  BY EmptySeq DEF Start, Progress
<1>. DEFINE F == [i \in 1..n |-> [x \in Progress |-> Round(s, x)]]
            Eqn(g) == g = [i \in 0..n |-> IF i = 0 THEN Start ELSE Round(s, g[i - 1])]
<1>3. \A x \in Progress : Round(s, x) \in Progress
  BY RoundType
<1>4. F \in [1..n -> [Progress -> Progress]] /\ \A i \in 1..n : \A x \in Progress : F[i][x] = Round(s, x)
  BY <1>3
<1>. HIDE DEF F
<1>5. PICK g : g \in [0..n -> Progress] /\ g[0] = Start /\ \A i \in 1..n : g[i] = F[i][g[i - 1]]
  <2>1. Stepwise(Progress, Start, n, F)
    BY <1>2, <1>4 DEF Stepwise
  <2>2. \E g : Computes(Progress, Start, n, F, g)
    BY <2>1, RecursionExists
  <2>. QED
    BY <2>2 DEF Computes
<1>6. \A i \in 1..n : g[i] = Round(s, g[i - 1])
  <2>1. \A i \in 1..n : i - 1 \in 0..n
    OBVIOUS
  <2>. QED
    BY <1>4, <1>5, <2>1
<1>7. Eqn(g)
  <2>1. \A i \in 0..n : g[i] = IF i = 0 THEN Start ELSE Round(s, g[i - 1])
    <3>1. TAKE i \in 0..n
    <3>2. i # 0 => i \in 1..n
      OBVIOUS
    <3>. QED
      BY <1>5, <1>6, <3>2
  <2>. QED
    BY <1>5, <2>1
<1>. DEFINE h == CHOOSE x : Eqn(x)
<1>8. Eqn(h)
  <2>. HIDE DEF Eqn
  <2>. QED
    BY <1>7
<1>9. InitLoaded(s) = h[n].elements
  BY <1>1 DEF InitLoaded, Start
<1>. HIDE DEF h
<1>10. h[0] = Start /\ \A i \in 1..n : h[i] = Round(s, h[i - 1])
  BY <1>8
<1>11. h \in [0..n -> Progress]
  <2>. DEFINE A == {i \in 0..n : h[i] \in Progress}
  <2>1. A = 0..n
    <3>1. A \subseteq 0..n /\ 0 \in A
      BY <1>2, <1>10
    <3>2. \A i \in 1..n : i - 1 \in A => i \in A
      BY <1>3, <1>10
    <3>. HIDE DEF A
    <3>. QED
      BY <3>1, <3>2, Climb
  <2>2. DOMAIN h = 0..n /\ h = [i \in 0..n |-> h[i]]
    BY <1>8
  <2>. HIDE DEF Eqn
  <2>. QED
    BY <2>1, <2>2
<1>. QED
  BY <1>1, <1>9, <1>10, <1>11
(* A stack that can be written: every action has its place in an array.    *)
Written(s, kind) == /\ s.elements \in Seq(Addrs) /\ IsInjective(s.elements) /\ FiledAs(s, kind)
                    /\ \A a \in ToSet(s.elements) : kind[a] \in Kinds

LEMMA PlaceOf ==
  ASSUME NEW s, NEW kind, Written(s, kind), NEW k \in Kinds, NEW j \in 1..Len(s.arrays[k])
  PROVE  \E i \in 1..Len(s.elements) : /\ s.elements[i] = s.arrays[k][j]
                                       /\ s.stack_idx[s.arrays[k][j]] = i - 1
                                       /\ kind[s.arrays[k][j]] = k
<1>1. /\ s.arrays[k] \in Seq(Addrs) /\ s.elements \in Seq(Addrs)
      /\ ToSet(s.arrays[k]) = {a \in ToSet(s.elements) : kind[a] = k}
      /\ \A i \in 1..Len(s.elements) : s.stack_idx[s.elements[i]] = i - 1
  BY DEF Written, FiledAs, Sorted
<1>2. s.arrays[k][j] \in ToSet(s.elements) /\ kind[s.arrays[k][j]] = k
  BY <1>1, ToSetOf
<1>3. PICK i \in 1..Len(s.elements) : s.elements[i] = s.arrays[k][j]
  BY <1>1, <1>2, ToSetOf
<1>. QED
  BY <1>1, <1>2, <1>3

LEMMA PlaceIn ==
  ASSUME NEW s, NEW kind, Written(s, kind), NEW i \in 1..Len(s.elements)
  PROVE  \E k \in Kinds : /\ kind[s.elements[i]] = k /\ s.stack_idx[s.elements[i]] = i - 1
                          /\ \E j \in 1..Len(s.arrays[k]) : s.arrays[k][j] = s.elements[i]
<1>. DEFINE a == s.elements[i]
            k == kind[a]
<1>1. a \in ToSet(s.elements)
  BY ToSetOf DEF Written
<1>2. k \in Kinds /\ s.stack_idx[a] = i - 1
  BY <1>1 DEF Written, FiledAs
<1>3. s.arrays[k] \in Seq(Addrs) /\ ToSet(s.arrays[k]) = {b \in ToSet(s.elements) : kind[b] = k}
  BY <1>2 DEF Written, FiledAs, Sorted
<1>4. a \in ToSet(s.arrays[k])
  BY <1>1, <1>3
<1>. HIDE DEF a, k
<1>5. \E j \in 1..Len(s.arrays[k]) : s.arrays[k][j] = a
  BY <1>3, <1>4, ToSetOf
<1>. QED
  BY <1>2, <1>5 DEF a, k

(* What a reload has pushed is the bottom of the stack, and in each array  *)
(* it has passed the actions that are there.                               *)
Restored(s, r) ==
  /\ r \in Progress /\ Len(r.elements) \in Nat
  /\ Len(r.elements) <= Len(s.elements)
  /\ \A i \in 1..Len(r.elements) : r.elements[i] = s.elements[i]
  /\ \A k \in Kinds : \A j \in 1..Len(s.arrays[k]) :
       j < r.next[k] <=> s.stack_idx[s.arrays[k][j]] < Len(r.elements)

LEMMA OfferRestores ==
  ASSUME NEW s, NEW kind, Written(s, kind), NEW r, Restored(s, r), NEW k \in Kinds
  PROVE  /\ Restored(s, Offer(s, r, k))
         /\ Len(r.elements) <= Len(Offer(s, r, k).elements)
<1>. DEFINE a == s.arrays[k][r.next[k]]
            o == Offer(s, r, k)
<1>1. /\ s.arrays \in [Kinds -> Seq(Addrs)] /\ r \in Progress /\ s.elements \in Seq(Addrs)
      /\ r.elements \in Seq(Addrs) /\ r.next \in [Kinds -> Nat \ {0}]
      /\ r.next[k] \in Nat \ {0} /\ s.arrays[k] \in Seq(Addrs)
  BY DEF Written, FiledAs, Restored, Progress
<1>2. /\ o \in Progress
      /\ \/ /\ r.next[k] <= Len(s.arrays[k]) /\ s.stack_idx[a] = Len(r.elements)
            /\ o.elements = Append(r.elements, a)
            /\ o.next[k] = r.next[k] + 1 /\ \A l \in Kinds : l # k => o.next[l] = r.next[l]
         \/ /\ ~(r.next[k] <= Len(s.arrays[k]) /\ s.stack_idx[a] = Len(r.elements))
            /\ o = r
  BY <1>1, Offered
<1>. HIDE DEF o
<1>3. PICK m \in Nat : m = Len(r.elements)
  BY <1>1, LenProperties
<1>4. PICK n \in Nat : n = Len(s.elements)
  BY <1>1, LenProperties
<1>5. CASE o = r
  BY <1>3, <1>5 DEF o
<1>6. CASE o # r
  <2>. DEFINE x == r.next[k]
  <2>1. x \in 1..Len(s.arrays[k])
    BY <1>1, <1>2, <1>6, LenProperties
  <2>2. PICK p \in 1..n : s.elements[p] = a /\ s.stack_idx[a] = p - 1 /\ kind[a] = k
    <3>. HIDE DEF a
    <3>1. a = s.arrays[k][x]
      BY DEF a
    <3>. HIDE DEF x
    <3>. QED
      BY <1>4, <2>1, <3>1, PlaceOf
  <2>3. /\ s.stack_idx[a] = m /\ o.elements = Append(r.elements, a)
        /\ o.next[k] = x + 1 /\ \A l \in Kinds : l # k => o.next[l] = r.next[l]
    BY <1>2, <1>3, <1>6
  <2>4. p = m + 1
    BY <1>3, <1>4, <2>2, <2>3
  <2>5. a \in Addrs
    BY <1>1, <2>1, ElementOfSeq
  <2>6. /\ Len(o.elements) = m + 1 /\ o.elements[m + 1] = a
        /\ \A i \in 1..m : o.elements[i] = r.elements[i]
    BY <1>1, <1>3, <2>3, <2>5, AppendProperties
  <2>. HIDE DEF a, x
  <2>7. ASSUME NEW i \in 1..(m + 1) PROVE o.elements[i] = s.elements[i]
    <3>1. CASE i = m + 1
      BY <2>2, <2>4, <2>6, <3>1
    <3>2. CASE i # m + 1
      <4>1. i \in 1..m
        BY <3>2
      <4>. QED
        BY <1>3, <2>6, <4>1 DEF Restored
    <3>. QED
      BY <3>1, <3>2
  <2>8. ASSUME NEW l \in Kinds, NEW j \in 1..Len(s.arrays[l])
        PROVE  j < o.next[l] <=> s.stack_idx[s.arrays[l][j]] < m + 1
    <3>. DEFINE y == s.stack_idx[s.arrays[l][j]]
    <3>1. PICK i \in 1..n : s.elements[i] = s.arrays[l][j] /\ y = i - 1 /\ kind[s.arrays[l][j]] = l
      BY <1>4, PlaceOf
    <3>2. j < r.next[l] <=> y < m
      BY <1>3 DEF Restored
    <3>. HIDE DEF y
    <3>3. CASE l # k
      <4>1. y # m
        <5>1. SUFFICES ASSUME y = m PROVE FALSE
          OBVIOUS
        <5>2. i = m + 1
          BY <3>1, <5>1
        <5>. QED
          BY <2>2, <2>4, <3>1, <3>3, <5>2
      <4>2. y < m <=> y < m + 1
        BY <3>1, <4>1
      <4>. QED
        BY <2>3, <3>2, <3>3, <4>2 DEF y
    <3>4. CASE l = k
      <4>1. \A u, v \in 1..Len(s.arrays[k]) :
              u < v => s.stack_idx[s.arrays[k][u]] < s.stack_idx[s.arrays[k][v]]
        BY DEF Written, FiledAs, Sorted
      <4>2. x \in Nat /\ x = r.next[k] /\ s.stack_idx[s.arrays[k][x]] = m /\ j \in Nat /\ j \in 1..Len(s.arrays[k])
        BY <1>1, <2>3, <3>4 DEF x, a
      <4>3. CASE j < x
        <5>1. y < m /\ y < m + 1 /\ j < x + 1
          BY <3>1, <3>2, <3>4, <4>2, <4>3
        <5>. QED
          BY <2>3, <3>4, <5>1 DEF y
      <4>4. CASE j = x
        <5>1. y = m
          BY <3>4, <4>2, <4>4 DEF y
        <5>2. y < m + 1 /\ j < x + 1
          BY <4>2, <4>4, <5>1
        <5>. QED
          BY <2>3, <3>4, <5>2 DEF y
      <4>5. CASE x < j
        <5>1. m < y
          BY <2>1, <3>4, <4>1, <4>2, <4>5 DEF y
        <5>2. ~(y < m + 1) /\ ~(j < x + 1)
          BY <3>1, <4>2, <4>5, <5>1
        <5>. QED
          BY <2>3, <3>4, <5>2 DEF y
      <4>. QED
        BY <4>2, <4>3, <4>4, <4>5
    <3>. QED
      BY <3>3, <3>4
  <2>9. m + 1 \in Nat /\ m + 1 <= n /\ m <= m + 1
    BY <1>3, <2>4
  <2>10. Restored(s, o)
    BY <1>2, <1>4, <2>6, <2>7, <2>8, <2>9 DEF Restored
  <2>. QED
    BY <1>3, <2>6, <2>9, <2>10 DEF o
<1>. QED
  BY <1>5, <1>6

(* The type of the next action is offered it.                              *)
LEMMA OfferAdvances ==
  ASSUME NEW s, NEW kind, Written(s, kind), NEW r, Restored(s, r),
         Len(r.elements) < Len(s.elements)
  PROVE  LET k == kind[s.elements[Len(r.elements) + 1]]
         IN k \in Kinds /\ Len(Offer(s, r, k).elements) = Len(r.elements) + 1
<1>1. /\ s.arrays \in [Kinds -> Seq(Addrs)] /\ r \in Progress /\ s.elements \in Seq(Addrs)
      /\ r.elements \in Seq(Addrs) /\ r.next \in [Kinds -> Nat \ {0}]
  BY DEF Written, FiledAs, Restored, Progress
<1>2. PICK m \in Nat : m = Len(r.elements)
  BY <1>1, LenProperties
<1>3. PICK n \in Nat : n = Len(s.elements)
  BY <1>1, LenProperties
<1>4. m + 1 \in 1..n
  BY <1>2, <1>3
<1>. DEFINE b == s.elements[m + 1]
            k == kind[b]
            q == s.arrays[k]
            x == r.next[k]
<1>5. /\ k \in Kinds /\ s.stack_idx[b] = m /\ \E j \in 1..Len(q) : q[j] = b
  <2>1. PICK p \in 1..Len(s.elements) : p = m + 1 /\ p - 1 = m
    BY <1>2, <1>3, <1>4
  <2>2. \E l \in Kinds : /\ kind[s.elements[p]] = l /\ s.stack_idx[s.elements[p]] = p - 1
                         /\ \E j \in 1..Len(s.arrays[l]) : s.arrays[l][j] = s.elements[p]
    BY PlaceIn
  <2>. QED
    BY <2>1, <2>2
<1>. HIDE DEF b, k, q, x
<1>6. PICK j \in 1..Len(q) : q[j] = b
  BY <1>5
<1>7. /\ q \in Seq(Addrs) /\ Len(q) \in Nat /\ x \in Nat \ {0}
      /\ \A u, v \in 1..Len(q) : u < v => s.stack_idx[q[u]] < s.stack_idx[q[v]]
      /\ \A u \in 1..Len(q) : u < x <=> s.stack_idx[q[u]] < m
  <2>1. q \in Seq(Addrs) /\ x \in Nat \ {0}
    BY <1>1, <1>5 DEF q, x
  <2>2. Len(q) \in Nat
    BY <2>1, LenProperties
  <2>3. \A u, v \in 1..Len(q) : u < v => s.stack_idx[q[u]] < s.stack_idx[q[v]]
    BY <1>5 DEF Written, FiledAs, Sorted, q
  <2>4. \A u \in 1..Len(q) : u < x <=> s.stack_idx[q[u]] < m
    BY <1>2, <1>5 DEF Restored, q, x
  <2>. QED
    BY <2>1, <2>2, <2>3, <2>4
<1>8. x = j
  <2>1. ~(j < x)
    BY <1>5, <1>6, <1>7
  <2>2. ~(x < j)
    <3>1. SUFFICES ASSUME x < j PROVE FALSE
      OBVIOUS
    <3>2. x \in 1..Len(q) /\ ~(x < x)
      BY <1>6, <1>7, <3>1
    <3>3. s.stack_idx[q[x]] < m
      BY <1>5, <1>6, <1>7, <3>1, <3>2
    <3>. QED
      BY <1>7, <3>2, <3>3
  <2>. QED
    BY <1>7, <2>1, <2>2
<1>9. r.next[k] <= Len(s.arrays[k]) /\ s.stack_idx[s.arrays[k][r.next[k]]] = Len(r.elements)
  BY <1>2, <1>5, <1>6, <1>7, <1>8 DEF q, x
<1>10. Offer(s, r, k).elements = Append(r.elements, s.arrays[k][r.next[k]])
  BY <1>9 DEF Offer
<1>11. s.arrays[k][r.next[k]] \in Addrs
  <2>1. q[j] \in Addrs
    BY <1>7, ElementOfSeq
  <2>. QED
    BY <1>8, <2>1 DEF q, x
<1>12. Len(Offer(s, r, k).elements) = m + 1
  BY <1>1, <1>2, <1>10, <1>11, AppendProperties
<1>. QED
  BY <1>2, <1>5, <1>12 DEF k, b
LEMMA RoundAdvances ==
  ASSUME NEW s, NEW kind, Written(s, kind), NEW r, Restored(s, r)
  PROVE  /\ Restored(s, Round(s, r))
         /\ Len(r.elements) <= Len(Round(s, r).elements)
         /\ Len(r.elements) < Len(s.elements) => Len(r.elements) < Len(Round(s, r).elements)
<1>1. PICK n \in Nat : n = Len(Types)
  BY KindsAre
<1>2. s.arrays \in [Kinds -> Seq(Addrs)] /\ r \in Progress
  BY DEF Written, FiledAs, Restored
<1>3. PICK g : /\ g \in [0..n -> Progress] /\ g[0] = r /\ g[n] = Round(s, r)
               /\ \A i \in 1..n : g[i] = Offer(s, g[i - 1], Types[i])
  BY <1>1, <1>2, RoundIs
<1>4. PICK m \in Nat : m = Len(r.elements)
  BY DEF Restored
<1>. DEFINE len(i) == Len(g[i].elements)
            A == {i \in 0..n : Restored(s, g[i]) /\ m <= len(i)}
<1>5. A = 0..n
  <2>1. A \subseteq 0..n /\ 0 \in A
    BY <1>3, <1>4
  <2>2. ASSUME NEW i \in 1..n, i - 1 \in A PROVE i \in A
    <3>1. Restored(s, g[i - 1]) /\ m <= len(i - 1) /\ Types[i] \in Kinds /\ g[i] = Offer(s, g[i - 1], Types[i])
      BY <1>1, <1>3, <2>2, KindsAre
    <3>2. Restored(s, g[i]) /\ len(i - 1) <= len(i)
      BY <3>1, OfferRestores
    <3>3. len(i - 1) \in Nat /\ len(i) \in Nat
      BY <3>1, <3>2 DEF Restored
    <3>. QED
      BY <3>1, <3>2, <3>3
  <2>. HIDE DEF A
  <2>. QED
    BY <2>1, <2>2, Climb
<1>6. \A i \in 0..n : Restored(s, g[i]) /\ m <= len(i) /\ len(i) \in Nat
  <2>1. \A i \in 0..n : Restored(s, g[i]) /\ m <= len(i)
    BY <1>5
  <2>. QED
    BY <2>1 DEF Restored
<1>7. n \in 0..n
  OBVIOUS
<1>8. ASSUME m < Len(s.elements) PROVE m < len(n)
  <2>. DEFINE k == kind[s.elements[m + 1]]
  <2>1. k \in Kinds /\ \A q : Restored(s, q) /\ Len(q.elements) = m => Len(Offer(s, q, k).elements) = m + 1
    <3>1. ASSUME NEW q, Restored(s, q), Len(q.elements) = m
          PROVE  k \in Kinds /\ Len(Offer(s, q, k).elements) = m + 1
      BY <1>8, <3>1, OfferAdvances
    <3>2. Restored(s, r)
      OBVIOUS
    <3>. HIDE DEF k
    <3>. QED
      BY <1>4, <3>1, <3>2
  <2>. HIDE DEF k
  <2>2. PICK t \in 1..n : Types[t] = k
    BY <1>1, <2>1, KindsAre
  <2>. DEFINE B == {i \in 0..n : t <= i => m < len(i)}
  <2>3. B = 0..n
    <3>1. B \subseteq 0..n /\ 0 \in B
      OBVIOUS
    <3>2. ASSUME NEW i \in 1..n, i - 1 \in B PROVE i \in B
      <4>. DEFINE o == g[i - 1]
      <4>1. /\ Restored(s, o) /\ m <= Len(o.elements) /\ Len(o.elements) \in Nat /\ len(i) \in Nat
            /\ g[i] = Offer(s, o, Types[i]) /\ Types[i] \in Kinds /\ i \in 0..n
        BY <1>1, <1>3, <1>6, KindsAre
      <4>2. t <= i - 1 => m < Len(o.elements)
        BY <3>2
      <4>. HIDE DEF o
      <4>3. Len(o.elements) <= len(i)
        BY <4>1, OfferRestores
      <4>4. CASE m < Len(o.elements)
        BY <4>1, <4>3, <4>4
      <4>5. CASE ~(m < Len(o.elements))
        <5>1. Len(o.elements) = m /\ ~(t <= i - 1)
          BY <4>1, <4>2, <4>5
        <5>2. CASE t = i
          <6>1. len(i) = m + 1
            BY <2>1, <2>2, <4>1, <5>1, <5>2
          <6>. QED
            BY <4>1, <6>1
        <5>3. CASE t # i
          <6>1. ~(t <= i)
            BY <5>1, <5>3
          <6>. QED
            BY <4>1, <6>1
        <5>. QED
          BY <5>2, <5>3
      <4>. QED
        BY <4>4, <4>5
    <3>. HIDE DEF B
    <3>. QED
      BY <3>1, <3>2, Climb
  <2>. QED
    BY <1>7, <2>3
<1>. QED
  BY <1>3, <1>4, <1>6, <1>7, <1>8

(* There are as many rounds as actions: each is in one of the arrays, once. *)
LEMMA Distinct ==
  ASSUME NEW q \in Seq(Addrs), IsInjective(q)
  PROVE  IsFiniteSet(ToSet(q)) /\ Cardinality(ToSet(q)) = Len(q)
<1>1. PICK n \in Nat : n = Len(q)
  BY LenProperties
<1>2. DOMAIN q = 1..n /\ ToSet(q) = {q[j] : j \in 1..n}
  BY <1>1, LenProperties, ToSetOf
<1>. DEFINE X(i) == {q[j] : j \in 1..i}
            A == {i \in 0..n : IsFiniteSet(X(i)) /\ Cardinality(X(i)) = i}
<1>3. 0 \in A
  <2>1. X(0) = {} /\ 0 \in 0..n
    OBVIOUS
  <2>2. IsFiniteSet({}) /\ Cardinality({}) = 0
    BY FS_EmptySet
  <2>3. IsFiniteSet(X(0)) /\ Cardinality(X(0)) = 0
    BY <2>1, <2>2
  <2>. HIDE DEF X
  <2>. QED
    BY <2>1, <2>3
<1>4. ASSUME NEW i \in 1..n, i - 1 \in A PROVE i \in A
  <2>1. X(i) = X(i - 1) \cup {q[i]} /\ i \in 0..n
    <3>1. /\ i \in 0..n
          /\ \A j : j \in 1..i <=> j \in 1..(i - 1) \/ j = i
      OBVIOUS
    <3>. QED
      BY <3>1
  <2>2. q[i] \notin X(i - 1)
    <3>1. \A j \in 1..(i - 1) : j \in 1..n /\ j # i
      OBVIOUS
    <3>. QED
      BY <1>2, <3>1 DEF IsInjective
  <2>3. IsFiniteSet(X(i - 1)) /\ Cardinality(X(i - 1)) = i - 1
    BY <1>4
  <2>. HIDE DEF X
  <2>4. /\ IsFiniteSet(X(i - 1) \cup {q[i]})
        /\ Cardinality(X(i - 1) \cup {q[i]}) = IF q[i] \in X(i - 1) THEN Cardinality(X(i - 1)) ELSE Cardinality(X(i - 1)) + 1
    BY <2>3, FS_AddElement
  <2>5. Cardinality(X(i - 1) \cup {q[i]}) = i
    BY <2>2, <2>3, <2>4
  <2>. QED
    BY <2>1, <2>4, <2>5
<1>5. A = 0..n
  <2>1. A \subseteq 0..n
    OBVIOUS
  <2>. HIDE DEF A
  <2>. QED
    BY <1>3, <1>4, <2>1, Climb
<1>6. IsFiniteSet(X(n)) /\ Cardinality(X(n)) = n
  <2>. HIDE DEF X
  <2>1. n \in 0..n
    OBVIOUS
  <2>. QED
    BY <1>5, <2>1
<1>. QED
  BY <1>1, <1>2, <1>6

LEMMA TotalIsLength ==
  ASSUME NEW s, NEW kind, Written(s, kind)
  PROVE  Total(s) = Len(s.elements)
<1>1. PICK n \in Nat : n = Len(Types)
  BY KindsAre
<1>2. s.arrays \in [Kinds -> Seq(Addrs)] /\ s.elements \in Seq(Addrs) /\ IsInjective(s.elements)
  BY DEF Written, FiledAs
<1>3. PICK g \in [0..n -> Nat] : /\ g[0] = 0 /\ g[n] = Total(s)
                                 /\ \A i \in 1..n : g[i] = g[i - 1] + Len(s.arrays[Types[i]])
  BY <1>1, <1>2, TotalIs
<1>. DEFINE set(i) == ToSet(s.arrays[Types[i]])
            Upto(i) == UNION {set(j) : j \in 1..i}
            A == {i \in 0..n : IsFiniteSet(Upto(i)) /\ Cardinality(Upto(i)) = g[i]}
<1>4. 0 \in A
  <2>1. Upto(0) = {} /\ 0 \in 0..n
    OBVIOUS
  <2>2. IsFiniteSet({}) /\ Cardinality({}) = 0
    BY FS_EmptySet
  <2>3. IsFiniteSet(Upto(0)) /\ Cardinality(Upto(0)) = 0
    BY <2>1, <2>2
  <2>. HIDE DEF Upto
  <2>4. Cardinality(Upto(0)) = g[0]
    BY <1>3, <2>3
  <2>. QED
    BY <2>1, <2>3, <2>4
<1>5. ASSUME NEW i \in 1..n
      PROVE  /\ s.arrays[Types[i]] \in Seq(Addrs)
             /\ IsFiniteSet(set(i)) /\ Cardinality(set(i)) = Len(s.arrays[Types[i]])
             /\ set(i) = {a \in ToSet(s.elements) : kind[a] = Types[i]}
  <2>. DEFINE q == s.arrays[Types[i]]
              idx == s.stack_idx
              E == {a \in ToSet(s.elements) : kind[a] = Types[i]}
  <2>1. Types[i] \in Kinds
    BY <1>1, KindsAre
  <2>2. q \in Seq(Addrs) /\ Sorted(q, idx, E)
    BY <1>2, <2>1 DEF Written, FiledAs
  <2>3. \A b \in E : idx[b] \in Int
    <3>1. \A b \in ToSet(s.elements) : \E l \in 1..Len(s.elements) : s.elements[l] = b
      BY <1>2, ToSetOf
    <3>2. \A l \in 1..Len(s.elements) : idx[s.elements[l]] = l - 1
      BY DEF Written, FiledAs
    <3>. QED
      BY <3>1, <3>2
  <2>. HIDE DEF q, E, idx
  <2>4. IsInjective(q)
    BY <2>2, <2>3, SortedInjective
  <2>5. IsFiniteSet(ToSet(q)) /\ Cardinality(ToSet(q)) = Len(q)
    BY <2>2, <2>4, Distinct
  <2>. QED
    BY <2>2, <2>5 DEF q, E, Sorted
<1>6. ASSUME NEW i \in 1..n, i - 1 \in A PROVE i \in A
  <2>1. Upto(i) = Upto(i - 1) \cup set(i)
    <3>1. \A j : j \in 1..i <=> j \in 1..(i - 1) \/ j = i
      OBVIOUS
    <3>. HIDE DEF set
    <3>. QED
      BY <3>1
  <2>2. IsFiniteSet(set(i)) /\ Cardinality(set(i)) = Len(s.arrays[Types[i]])
    BY <1>5
  <2>3. IsFiniteSet(Upto(i - 1)) /\ Cardinality(Upto(i - 1)) = g[i - 1] /\ i - 1 \in 0..n
    BY <1>6
  <2>. DEFINE X == Upto(i - 1)
              Y == set(i)
  <2>4. IsFiniteSet(X) /\ IsFiniteSet(Y)
    BY <2>2, <2>3
  <2>5. X \cup Y = Upto(i) /\ Cardinality(X) = g[i - 1] /\ Cardinality(Y) = Len(s.arrays[Types[i]])
    BY <2>1, <2>2, <2>3
  <2>6. X \cap Y = {}
    <3>1. \A j \in 1..(i - 1) : j \in 1..n /\ Types[j] # Types[i]
      <4>1. DOMAIN Types = 1..n /\ \A j \in 1..(i - 1) : j \in 1..n /\ j # i
        BY <1>1, TypesAssumption, LenProperties
      <4>. QED
        BY <4>1, TypesAssumption DEF IsInjective
    <3>2. \A j \in 1..n : \A a \in set(j) : kind[a] = Types[j]
      BY <1>5
    <3>. HIDE DEF set
    <3>. QED
      BY <3>1, <3>2
  <2>. HIDE DEF X, Y
  <2>7. /\ IsFiniteSet(X \cup Y)
        /\ Cardinality(X \cup Y) = Cardinality(X) + Cardinality(Y) - Cardinality({})
    BY <2>4, <2>6, FS_Union
  <2>8. Cardinality({}) = 0
    BY FS_EmptySet
  <2>9. g[i] = g[i - 1] + Len(s.arrays[Types[i]]) /\ g[i - 1] \in Nat /\ Len(s.arrays[Types[i]]) \in Nat
    BY <1>3, <1>5, <2>3, LenProperties
  <2>. HIDE DEF Upto
  <2>10. Cardinality(X \cup Y) = g[i]
    BY <2>5, <2>7, <2>8, <2>9
  <2>11. IsFiniteSet(Upto(i)) /\ Cardinality(Upto(i)) = g[i] /\ i \in 0..n
    <3>. DEFINE Z == X \cup Y
    <3>1. Z = Upto(i) /\ IsFiniteSet(Z) /\ Cardinality(Z) = g[i]
      BY <2>5, <2>7, <2>10
    <3>2. i \in 0..n
      OBVIOUS
    <3>. HIDE DEF Z
    <3>. QED
      BY <3>1, <3>2
  <2>. QED
    BY <2>11
<1>7. A = 0..n
  <2>1. A \subseteq 0..n
    OBVIOUS
  <2>. HIDE DEF A
  <2>. QED
    BY <1>4, <1>6, <2>1, Climb
<1>8. Cardinality(Upto(n)) = g[n]
  <2>1. n \in 0..n
    OBVIOUS
  <2>. HIDE DEF Upto
  <2>. QED
    BY <1>7, <2>1
<1>9. ToSet(s.elements) = Upto(n)
  <2>1. \A i \in 1..n : set(i) = {a \in ToSet(s.elements) : kind[a] = Types[i]}
    BY <1>5
  <2>2. \A a \in ToSet(s.elements) : \E i \in 1..n : Types[i] = kind[a]
    BY <1>1, KindsAre DEF Written
  <2>. HIDE DEF set
  <2>. QED
    BY <2>1, <2>2
<1>. HIDE DEF Upto
<1>10. Cardinality(ToSet(s.elements)) = Len(s.elements)
  BY <1>2, Distinct
<1>. QED
  BY <1>3, <1>8, <1>9, <1>10

(* Reading back what was written gives the stack.                          *)
LEMMA LoadedRestores ==
  ASSUME NEW s, NEW kind, Written(s, kind)
  PROVE  InitLoaded(s) = s.elements /\ Total(s) = Len(s.elements)
<1>1. PICK T \in Nat : T = Total(s) /\ T = Len(s.elements)
  BY TotalIsLength, LenProperties DEF Written
<1>2. PICK n \in Nat : n = Len(s.elements)
  BY <1>1
<1>3. n <= T
  BY <1>1, <1>2
<1>4. PICK g : /\ g \in [0..T -> Progress] /\ g[0] = Start /\ g[T].elements = InitLoaded(s)
               /\ \A i \in 1..T : g[i] = Round(s, g[i - 1])
  <2>1. s.arrays \in [Kinds -> Seq(Addrs)]
    BY DEF Written, FiledAs
  <2>. QED
    BY <1>1, <2>1, LoadedIs
<1>5. Restored(s, Start)
  <2>1. Start.elements = << >> /\ \A k \in Kinds : Start.next[k] = 1
    BY DEF Start
  <2>2. Start \in Progress /\ Len(<< >>) = 0
    BY EmptySeq DEF Start, Progress
  <2>3. ASSUME NEW k \in Kinds, NEW j \in 1..Len(s.arrays[k])
        PROVE  j < 1 <=> s.stack_idx[s.arrays[k][j]] < 0
    <3>1. PICK i \in 1..Len(s.elements) : /\ s.elements[i] = s.arrays[k][j]
                                          /\ s.stack_idx[s.arrays[k][j]] = i - 1
                                          /\ kind[s.arrays[k][j]] = k
      BY PlaceOf
    <3>2. ~(i - 1 < 0) /\ ~(j < 1)
      BY <1>2
    <3>. QED
      BY <3>1, <3>2
  <2>4. 0 \in Nat /\ 0 <= n /\ 1..0 = {}
    BY <1>2
  <2>. HIDE DEF Start
  <2>. QED
    BY <1>2, <2>1, <2>2, <2>3, <2>4 DEF Restored
<1>. DEFINE len(i) == Len(g[i].elements)
            A == {i \in 0..T : Restored(s, g[i]) /\ (i <= len(i) \/ len(i) = n)}
<1>6. 0 \in A
  <2>1. Restored(s, g[0]) /\ len(0) \in Nat
    BY <1>4, <1>5 DEF Restored
  <2>. QED
    BY <2>1
<1>7. ASSUME NEW i \in 1..T, i - 1 \in A PROVE i \in A
  <2>. DEFINE r == g[i - 1]
  <2>1. Restored(s, r) /\ (i - 1 <= Len(r.elements) \/ Len(r.elements) = n)
    BY <1>7
  <2>2. g[i] = Round(s, r) /\ i \in 0..T
    BY <1>4
  <2>. HIDE DEF r
  <2>3. /\ Restored(s, g[i]) /\ Len(r.elements) <= len(i)
        /\ Len(r.elements) < n => Len(r.elements) < len(i)
    BY <1>2, <2>1, <2>2, RoundAdvances
  <2>4. /\ Len(r.elements) \in Nat /\ Len(r.elements) <= n
        /\ len(i) \in Nat /\ len(i) <= n
    BY <1>2, <2>1, <2>3 DEF Restored
  <2>5. i <= len(i) \/ len(i) = n
    BY <2>1, <2>3, <2>4
  <2>. QED
    BY <2>2, <2>3, <2>5
<1>8. A = 0..T
  <2>1. A \subseteq 0..T
    OBVIOUS
  <2>. HIDE DEF A
  <2>. QED
    BY <1>6, <1>7, <2>1, Climb
<1>9. Restored(s, g[T]) /\ (T <= len(T) \/ len(T) = n)
  <2>1. T \in 0..T
    OBVIOUS
  <2>. QED
    BY <1>8, <2>1
<1>10. /\ len(T) = n /\ InitLoaded(s) \in Seq(Addrs) /\ s.elements \in Seq(Addrs)
       /\ \A i \in 1..n : InitLoaded(s)[i] = s.elements[i]
  <2>1. len(T) \in Nat /\ len(T) <= n /\ g[T].elements \in Seq(Addrs)
    BY <1>2, <1>9 DEF Restored, Progress
  <2>2. len(T) = n
    BY <1>3, <1>9, <2>1
  <2>. QED
    BY <1>4, <1>9, <2>1, <2>2 DEF Restored, Written
<1>. QED
  BY <1>1, <1>2, <1>4, <1>10, SeqEqual

-----------------------------------------------------------------------------
(* Every step keeps the arrays and the indices of both stacks.             *)
LEMMA FiledSame ==
  ASSUME NEW s, NEW kind, NEW new, FiledAs(s, kind), \A a \in ToSet(s.elements) : new[a] = kind[a]
  PROVE  FiledAs(s, new)
<1>1. \A k \in Kinds : {a \in ToSet(s.elements) : kind[a] = k} = {a \in ToSet(s.elements) : new[a] = k}
  OBVIOUS
<1>. QED
  BY <1>1 DEF FiledAs

LEMMA EmptyFiled == \A kind : FiledAs(EmptyStack, kind)
<1>1. /\ EmptyStack.elements = << >> /\ EmptyStack.stack_idx = << >>
      /\ EmptyStack.arrays = [k \in Kinds |-> << >>]
  BY DEF EmptyStack
<1>2. ToSet(<< >>) = {} /\ DOMAIN << >> = {} /\ Len(<< >>) = 0 /\ 1..0 = {} /\ << >> \in Seq(Addrs)
  BY EmptySeq DEF ToSet
<1>. HIDE DEF EmptyStack
<1>3. \A idx : Sorted(<< >>, idx, {})
  BY <1>2 DEF Sorted
<1>. QED
  BY <1>1, <1>2, <1>3 DEF FiledAs

LEMMA PerformFiles ==
  ASSUME TypeInv, FiledInv, NEW a \in Addrs, NEW k \in Kinds, PerformAction(a, k)
  PROVE  FiledInv'
<1>1. /\ a \notin ToSet(U) \cup ToSet(R) /\ action'[a].kind = k
      /\ R' = (IF redo_stack_locked THEN R ELSE << >>)
      /\ \A b \in ToSet(Room(U)) \cup ToSet(R') : b # a /\ action'[b] = action[b]
  BY PerformEffect
<1>. DEFINE room == IF IsFull(undo_stack) THEN PopLast(undo_stack) ELSE undo_stack
<1>2. undo_stack' = Push(room, a, k) /\ redo_stack' = (IF redo_stack_locked THEN redo_stack ELSE EmptyStack)
  BY DEF PerformAction, RedoAfterPerform
<1>3. Stacked(U) /\ Stacked(R) /\ FiledAs(undo_stack, KindOf) /\ FiledAs(redo_stack, KindOf)
  BY DEF TypeInv, StacksInv, FiledInv
<1>4. room.elements = Room(U) /\ ~IsFull(room) /\ Stacked(room.elements)
  <2>1. room.elements = Room(U)
    BY DEF IsFull, PopLast, RemoveAction, Room, Full, U
  <2>2. Stacked(Room(U)) /\ ~Full(Room(U))
    BY <1>3, RoomMade
  <2>. HIDE DEF room
  <2>. QED
    BY <2>1, <2>2 DEF IsFull, Full
<1>5. FiledAs(room, KindOf)
  <2>1. Stacked(undo_stack.elements)
    BY <1>3 DEF U
  <2>. QED
    BY <1>3, <2>1, FiledRoom
<1>. HIDE DEF room
<1>6. /\ KindOf'[a] = k /\ a \notin ToSet(room.elements)
      /\ \A b \in ToSet(room.elements) \cup ToSet(R') : KindOf'[b] = KindOf[b]
  <2>1. ToSet(Room(U)) \subseteq ToSet(U) /\ ToSet(U) \subseteq Addrs /\ ToSet(R) \subseteq Addrs
    BY <1>3, RoomMade, ToSetOf DEF Stacked
  <2>2. ToSet(R') \subseteq ToSet(R)
    BY <1>1 DEF ToSet
  <2>3. \A b \in Addrs : KindOf[b] = action[b].kind /\ KindOf'[b] = action'[b].kind
    BY DEF KindOf
  <2>. QED
    BY <1>1, <1>4, <2>1, <2>2, <2>3
<1>7. FiledAs(undo_stack', KindOf')
  BY <1>2, <1>4, <1>5, <1>6, FiledPush
<1>8. FiledAs(redo_stack', KindOf')
  <2>1. CASE redo_stack_locked
    <3>1. redo_stack' = redo_stack /\ \A b \in ToSet(redo_stack.elements) : KindOf'[b] = KindOf[b]
      BY <1>2, <1>6, <2>1 DEF R
    <3>. QED
      BY <1>3, <3>1, FiledSame
  <2>2. CASE ~redo_stack_locked
    BY <1>2, <2>2, EmptyFiled
  <2>. QED
    BY <2>1, <2>2
<1>. QED
  BY <1>7, <1>8 DEF FiledInv

LEMMA MoveFiles ==
  ASSUME TypeInv, FiledInv, UndoOrRedoOne
  PROVE  FiledInv'
<1>. DEFINE a == Top
            room == IF IsFull(To) THEN PopLast(To) ELSE To
<1>1. /\ Source # << >> /\ Top \in ToSet(Source)
      /\ \A b \in ToSet(U') \cup ToSet(R') :
           b \in OnStacks /\ action'[b] \in Undoable /\ action'[b].kind = action[b].kind
  BY MoveEffect
<1>2. /\ Stacked(Source) /\ Stacked(Goal) /\ ToSet(Source) \cap ToSet(Goal) = {}
      /\ ToSet(Source) \cup ToSet(Goal) = OnStacks /\ OnStacks \subseteq Addrs
      /\ \A b \in OnStacks : action[b] \in Undoable
  BY Sides
<1>3. /\ call.name = "undo" => undo_stack' = Pop(From) /\ redo_stack' = Moved(a)
      /\ call.name # "undo" => undo_stack' = Moved(a) /\ redo_stack' = Pop(From)
  BY DEF UndoOrRedoOne, From, Top, Source, Peek
<1>4. FiledAs(From, KindOf) /\ FiledAs(To, KindOf)
  BY DEF FiledInv, From, To
<1>5. FiledAs(Pop(From), KindOf)
  BY <1>1, <1>2, <1>4, FiledPop DEF Source
<1>6. room.elements = Room(Goal) /\ ~IsFull(room) /\ Stacked(room.elements)
  <2>1. room.elements = Room(Goal)
    BY DEF IsFull, PopLast, RemoveAction, Room, Full, Goal
  <2>2. Stacked(Room(Goal)) /\ ~Full(Room(Goal))
    BY <1>2, RoomMade
  <2>. HIDE DEF room
  <2>. QED
    BY <2>1, <2>2 DEF IsFull, Full
<1>7. FiledAs(room, KindOf)
  <2>1. Stacked(To.elements)
    BY <1>2 DEF Goal
  <2>. QED
    BY <1>4, <2>1, FiledRoom
<1>8. a \in Addrs /\ KindOf[a] = action[a].kind /\ action[a].kind \in Kinds
  BY <1>1, <1>2 DEF KindOf, Undoable
<1>9. Moved(a) = To \/ Moved(a) = Push(room, a, action[a].kind)
  BY DEF Moved
<1>. HIDE DEF room, a
<1>10. a \notin ToSet(room.elements)
  <2>1. ToSet(Room(Goal)) \subseteq ToSet(Goal)
    BY <1>2, RoomMade
  <2>. QED
    BY <1>1, <1>2, <1>6, <2>1 DEF a
<1>11. FiledAs(Moved(a), KindOf)
  <2>1. CASE Moved(a) = To
    BY <1>4, <2>1
  <2>2. CASE Moved(a) = Push(room, a, action[a].kind)
    <3>1. \A b \in ToSet(room.elements) : KindOf[b] = KindOf[b]
      OBVIOUS
    <3>2. FiledAs(Push(room, a, action[a].kind), KindOf)
      BY <1>6, <1>7, <1>8, <1>10, <3>1, FiledPush
    <3>. QED
      BY <2>2, <3>2
  <2>. QED
    BY <1>9, <2>1, <2>2
<1>12. FiledAs(undo_stack', KindOf) /\ FiledAs(redo_stack', KindOf)
  BY <1>3, <1>5, <1>11
<1>13. \A b \in ToSet(U') \cup ToSet(R') : KindOf'[b] = KindOf[b]
  <2>1. \A b \in Addrs : KindOf[b] = action[b].kind /\ KindOf'[b] = action'[b].kind
    BY DEF KindOf
  <2>. QED
    BY <1>1, <1>2, <2>1
<1>14. FiledAs(undo_stack', KindOf') /\ FiledAs(redo_stack', KindOf')
  BY <1>12, <1>13, FiledSame DEF U, R
<1>. QED
  BY <1>14 DEF FiledInv

LEMMA OtherFiles ==
  ASSUME TypeInv, FiledInv, OtherStep
  PROVE  FiledInv'
<1>1. /\ undo_stack' = undo_stack /\ redo_stack' = redo_stack
      /\ \A b \in Addrs : action[b] # Nil => action'[b].kind = action[b].kind
  BY OtherTypes DEF Renumbers
<1>2. \A b \in OnStacks : b \in Addrs /\ action[b] # Nil
  BY Sides, NilIsNoAction
<1>3. \A b \in Addrs : KindOf[b] = action[b].kind /\ KindOf'[b] = action'[b].kind
  BY DEF KindOf
<1>4. \A b \in OnStacks : KindOf'[b] = KindOf[b]
  BY <1>1, <1>2, <1>3
<1>5. FiledAs(undo_stack, KindOf') /\ FiledAs(redo_stack, KindOf')
  BY <1>4, FiledSame DEF FiledInv, OnStacks
<1>. QED
  BY <1>1, <1>5 DEF FiledInv

LEMMA FiledRestores ==
  ASSUME TypeInv, FiledInv
  PROVE  ReloadRestores
<1>1. /\ Stacked(undo_stack.elements) /\ Stacked(redo_stack.elements)
      /\ FiledAs(undo_stack, KindOf) /\ FiledAs(redo_stack, KindOf)
  BY DEF TypeInv, StacksInv, FiledInv, U, R
<1>2. \A b \in OnStacks : KindOf[b] \in Kinds
  BY Sides DEF KindOf, Undoable
<1>3. Written(undo_stack, KindOf) /\ Written(redo_stack, KindOf)
  BY <1>1, <1>2 DEF Written, Stacked, OnStacks
<1>. QED
  BY <1>3, LoadedRestores DEF ReloadRestores

(* The project file brings back the stacks it was saved from, whatever was *)
(* done before: at every moment the arrays and the indices of a stack      *)
(* determine its order, and the loader's rounds find it.                   *)
THEOREM ReloadBringsBack == Spec => []ReloadRestores
<1>1. Init => FiledInv
  BY EmptyFiled DEF Init, FiledInv
<1>2. ASSUME TypeInv, FiledInv, Next PROVE FiledInv'
  <2>1. CASE \E a \in Addrs, k \in Kinds : PerformAction(a, k)
    BY <1>2, <2>1, PerformFiles
  <2>2. CASE UndoOrRedoOne
    BY <1>2, <2>2, MoveFiles
  <2>3. CASE OtherStep
    BY <1>2, <2>3, OtherFiles
  <2>. QED
    BY <1>2, <2>1, <2>2, <2>3, Steps
<1>3. UNCHANGED vars /\ FiledInv => FiledInv'
  BY DEF vars, FiledInv, KindOf
<1>4. TypeInv /\ FiledInv /\ [Next]_vars => FiledInv'
  BY <1>2, <1>3
<1>5. TypeInv /\ FiledInv => ReloadRestores
  BY FiledRestores
<1>. QED
  BY HistoryInvariance, <1>1, <1>4, <1>5, PTL DEF Spec
=============================================================================
