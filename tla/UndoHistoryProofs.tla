------------------------- MODULE UndoHistoryProofs -------------------------
(***************************************************************************)
(* What undo and redo promise the user, for every number of edits, actions *)
(* and operations: with stacks of no bounded length they move a cursor     *)
(* along one line of edits, each met in the document it was made in, and   *)
(* what belongs to one operation moves as a whole; with bounded stacks an  *)
(* undo or a redo forgets nothing.                                         *)
(***************************************************************************)
EXTENDS UndoManagerProofs

(* The document an edit was made in holds only earlier edits.              *)
MadeInv == \A x \in 1..Len(group) : \A l \in 1..Len(made_at[x]) : made_at[x][l] \in 1..(x - 1)

(* An operation remembers the action that was on top when it began.        *)
BeforeInv == call \in Performing => /\ call.made = 0 => call.before = LastAction
                                    /\ MaxLength = -1 => call.before \in {Nil} \cup ToSet(U)

(* While a drag is cancelled: what it has put on the undo stack and its    *)
(* undo has yet to withdraw.                                               *)
Pending == IF ~redo_stack_locked THEN 0
           ELSE IF call.name = "perform" THEN call.made
           ELSE IF call.at = "acting" THEN call.n - call.i
           ELSE IF call.name = "undo" /\ U # << >> THEN action[Last(U)].num_actions
           ELSE 0

LEMMA PendingType == TypeInv => Pending \in Nat
<1>. SUFFICES ASSUME TypeInv PROVE Pending \in Nat
  OBVIOUS
<1>1. CASE ~redo_stack_locked
  BY <1>1 DEF Pending
<1>2. CASE redo_stack_locked /\ call.name = "perform"
  <2>1. call \in Performing
    BY <1>2, IdleCall DEF TypeInv, CallInv, Asking, Acting, Saving
  <2>. QED
    BY <1>2, <2>1 DEF Pending, Performing
<1>3. CASE redo_stack_locked /\ call.name # "perform" /\ call.at = "acting"
  <2>1. call \in Acting
    BY <1>3, IdleCall DEF TypeInv, CallInv, Asking, Performing, Saving
  <2>2. call.i \in Nat /\ call.n \in Nat /\ call.i <= call.n
    BY <2>1, Bounds DEF Acting, TypeInv, CallInv
  <2>. QED
    BY <1>3, <2>2 DEF Pending
<1>4. CASE redo_stack_locked /\ call.name # "perform" /\ call.at # "acting"
  <2>1. U # << >> => action[Last(U)].num_actions \in Nat
    BY LastActionIs, Bounds DEF Undoable
  <2>. QED
    BY <1>4, <2>1 DEF Pending
<1>. QED
  BY <1>1, <1>2, <1>3, <1>4

LEMMA IdleUnlocked ==
  ASSUME TypeInv, call = Idle
  PROVE  redo_stack_locked = FALSE
BY IdleCall DEF TypeInv, LockedInv, Idle, Crashed

LEMMA LastActionKept == UNCHANGED undo_stack => LastAction' = LastAction /\ U' = U
BY DEF LastAction, Peek, U

(* How a step that makes, undoes and redoes nothing changes the lock.      *)
LockStep ==
  \/ ~redo_stack_locked /\ ~redo_stack_locked'
  \/ ~redo_stack_locked /\ redo_stack_locked' /\ Pending' = 0
  \/ redo_stack_locked /\ redo_stack_locked' /\ Pending' = Pending
  \/ /\ redo_stack_locked /\ redo_stack_locked' /\ Pending' = 0
     /\ MayFail \/ call' = Crashed
  \/ redo_stack_locked /\ ~redo_stack_locked' /\ (MayFail \/ Pending = 0)

LEMMA LockKept ==
  ASSUME TypeInv, redo_stack_locked' = redo_stack_locked, redo_stack_locked => Pending' = Pending
  PROVE  LockStep
BY DEF LockStep, TypeInv, LockedInv

LEMMA LockLeft ==
  ASSUME redo_stack_locked' = FALSE, redo_stack_locked => MayFail \/ Pending = 0
  PROVE  LockStep
BY DEF LockStep

LEMMA OtherPending ==
  ASSUME TypeInv, BeforeInv, OtherStep
  PROVE  BeforeInv' /\ LockStep
<1>. DEFINE P == BeforeInv'
            Q == LockStep
<1>a. call' \notin Performing => P
  BY DEF BeforeInv
<1>1. CASE Wait
  <2>1. /\ call.at = "wait" /\ call' = [call EXCEPT !.at = "holding"] /\ Quiet
        /\ redo_stack_locked' = redo_stack_locked
    BY <1>1 DEF Wait, Quiet
  <2>2. call \in Performing \cup Asking \cup Saving
    BY <2>1, IdleCall DEF TypeInv, CallInv, Acting
  <2>3. LastAction' = LastAction /\ U' = U /\ action' = action
    BY <2>1, LastActionKept DEF Quiet
  <2>4. CASE call \in Performing
    <3>1. call' \in Performing /\ call'.name = "perform" /\ call'.made = call.made /\ call'.before = call.before
      BY <2>1, <2>4 DEF Performing
    <3>2. P
      BY <2>3, <2>4, <3>1 DEF BeforeInv
    <3>3. call.name = "perform"
      BY <2>4 DEF Performing
    <3>4. Pending' = Pending
      BY <2>1, <3>1, <3>3 DEF Pending
    <3>. QED
      BY <2>1, <3>2, <3>4, LockKept
  <2>5. CASE call \in Asking
    <3>1. call' \in Asking /\ call'.name = call.name /\ call'.at # "acting" /\ call.at # "acting"
          /\ call.name # "perform"
      BY <2>1, <2>5 DEF Asking
    <3>2. Pending' = Pending
      BY <2>1, <2>3, <3>1 DEF Pending
    <3>. QED
      BY <1>a, <2>1, <3>1, <3>2, CallShapes, LockKept
  <2>6. CASE call \in Saving
    <3>1. call' \in Saving /\ call.name = "autosave"
      BY <2>1, <2>6 DEF Saving
    <3>2. ~redo_stack_locked
      BY <3>1, IdleCall DEF TypeInv, LockedInv
    <3>. QED
      BY <1>a, <2>1, <3>1, <3>2, CallShapes, LockKept
  <2>. QED
    BY <2>2, <2>4, <2>5, <2>6
<1>2. CASE ReadGroup
  <2>1. /\ Quiet /\ call \in Asking
        /\ \/ Source = << >> /\ Return
           \/ /\ Source # << >> /\ call' \in Acting /\ call'.name = call.name /\ call'.i = 0
              /\ call'.at = "acting" /\ call'.n = action[Top].num_actions
              /\ redo_stack_locked' = redo_stack_locked
    BY <1>2, ReadGroupTypes
  <2>2. redo_stack_locked => call.name = "undo" /\ call.again = 0 /\ Source = U
    BY <2>1, CallShapes, Sides DEF TypeInv, LockedInv, Asking
  <2>3. call.name # "perform" /\ call.at # "acting"
    BY <2>1 DEF Asking
  <2>4. CASE Source = << >> /\ Return
    <3>1. \/ call' = [name |-> call.name, at |-> "wait", again |-> call.again - 1]
             /\ redo_stack_locked' = redo_stack_locked /\ call.again > 0
          \/ call' = Idle /\ redo_stack_locked' = FALSE
      BY <2>4 DEF Return
    <3>2. call' \notin Performing
      <4>1. call.again > 0 => call.again - 1 \in Nat /\ call.name \in {"undo", "redo"}
        BY <2>1 DEF Asking
      <4>. QED
        BY <3>1, <4>1, Asked, CallShapes
    <3>3. CASE redo_stack_locked
      <4>1. ~(call.again > 0) /\ call.name = "undo" /\ U = << >>
        BY <2>2, <2>4, <3>3
      <4>2. redo_stack_locked' = FALSE
        BY <3>1, <4>1
      <4>3. Pending = 0
        BY <2>3, <4>1 DEF Pending
      <4>. QED
        BY <1>a, <3>2, <4>2, <4>3, LockLeft
    <3>4. CASE ~redo_stack_locked
      BY <1>a, <3>1, <3>2, <3>4, LockLeft, LockKept
    <3>. QED
      BY <3>3, <3>4
  <2>5. CASE /\ Source # << >> /\ call' \in Acting /\ call'.name = call.name /\ call'.i = 0
             /\ call'.at = "acting" /\ call'.n = action[Top].num_actions
             /\ redo_stack_locked' = redo_stack_locked
    <3>1. redo_stack_locked => Pending' = Pending
      <4>. SUFFICES ASSUME redo_stack_locked PROVE Pending' = Pending
        OBVIOUS
      <4>1. Pending = action[Last(U)].num_actions /\ Pending \in Nat
        BY <2>2, <2>3, <2>5, PendingType DEF Pending
      <4>2. Pending' = action[Last(U)].num_actions - 0
        BY <2>2, <2>3, <2>5 DEF Pending, Top
      <4>. QED
        BY <4>1, <4>2
    <3>. QED
      BY <1>a, <2>5, <3>1, CallShapes, LockKept
  <2>. QED
    BY <2>1, <2>4, <2>5
<1>3. CASE EndUndoOrRedo
  <2>1. call \in Acting /\ call.i = call.n /\ Return
    BY <1>3, EndUndoOrRedoTypes
  <2>2. redo_stack_locked => call.name = "undo" /\ call.again = 0
    BY <2>1, CallShapes DEF TypeInv, LockedInv, Acting
  <2>3. call.name # "perform" /\ call.at = "acting" /\ call.n - call.i = 0
    BY <2>1, Bounds DEF Acting
  <2>4. \/ call' = [name |-> call.name, at |-> "wait", again |-> call.again - 1]
           /\ redo_stack_locked' = redo_stack_locked /\ call.again > 0
        \/ call' = Idle /\ redo_stack_locked' = FALSE
    BY <2>1 DEF Return
  <2>5. call' \notin Performing
    <3>1. call.again > 0 => call.again - 1 \in Nat /\ call.name \in {"undo", "redo"}
      BY <2>1 DEF Acting
    <3>. QED
      BY <2>4, <3>1, Asked, CallShapes
  <2>6. CASE redo_stack_locked
    <3>1. ~(call.again > 0)
      BY <2>2, <2>6
    <3>2. redo_stack_locked' = FALSE
      BY <2>4, <3>1
    <3>3. Pending = 0
      BY <2>3 DEF Pending
    <3>. QED
      BY <1>a, <2>5, <3>2, <3>3, LockLeft
  <2>7. CASE ~redo_stack_locked
    BY <1>a, <2>4, <2>5, <2>7, LockLeft, LockKept
  <2>. QED
    BY <2>6, <2>7
<1>4. CASE Save \/ BeginAutosave \/ EndAutosave
  <2>1. redo_stack_locked' = redo_stack_locked /\ ~redo_stack_locked
    BY <1>4, SaveTypes
  <2>2. call' \in {Idle} \cup Saving
    BY <1>4 DEF Save, BeginAutosave, EndAutosave, Saving
  <2>. QED
    BY <1>a, <2>1, <2>2, CallShapes, LockKept
<1>5. CASE UndoOrRedoFails
  <2>1. call \in Acting /\ call' = [call EXCEPT !.i = call.n] /\ redo_stack_locked' = redo_stack_locked
    BY <1>5, UndoOrRedoFailsTypes
  <2>2. call' \in Acting /\ call'.name # "perform" /\ call'.at = "acting" /\ call'.n - call'.i = 0
    BY <2>1, Bounds DEF Acting
  <2>3. MayFail
    BY <1>5 DEF UndoOrRedoFails
  <2>4. redo_stack_locked => Pending' = 0
    BY <2>1, <2>2 DEF Pending
  <2>. QED
    BY <1>a, <2>1, <2>2, <2>3, <2>4, CallShapes, LockKept DEF LockStep
<1>6. CASE PerformFails
  <2>1. /\ call \in Performing /\ EndPerform(LastAction, action, call.made) /\ undo_stack' = undo_stack
    BY <1>6, PerformFailsTypes DEF PerformFails
  <2>2. MayFail
    BY <1>6 DEF PerformFails
  <2>3. \/ call' = Idle /\ redo_stack_locked' = FALSE
        \/ /\ redo_stack_locked /\ redo_stack_locked' = redo_stack_locked /\ LastAction # call.before
           /\ call' = [name |-> "undo", at |-> "wait", again |-> 0]
    BY <2>1, EndedPerform
  <2>4. CASE call' = Idle /\ redo_stack_locked' = FALSE
    BY <1>a, <2>2, <2>4, CallShapes, LockLeft
  <2>5. CASE /\ redo_stack_locked /\ redo_stack_locked' = redo_stack_locked /\ LastAction # call.before
             /\ call' = [name |-> "undo", at |-> "wait", again |-> 0]
    <3>1. call' \in Asking /\ call'.name = "undo" /\ call'.at = "wait"
      BY <2>5, Asked
    <3>2. call.made \in Nat /\ call.made # 0 /\ call.name = "perform"
      BY <2>1, <2>5 DEF BeforeInv, Performing
    <3>3. U # << >> /\ U' = U
      BY <2>1, <3>2, LastActionKept DEF TypeInv, CallInv
    <3>4. LastAction \in Addrs /\ LastAction = Last(U) /\ action[LastAction] \in Undoable
      BY <3>3, LastActionIs, Sides
    <3>5. action' = [action EXCEPT ![LastAction].num_actions = call.made]
      BY <2>1, <3>2 DEF EndPerform
    <3>6. action'[Last(U)].num_actions = call.made
      <4>1. action \in [Addrs -> {Nil} \cup Undoable]
        BY DEF TypeInv, ActionsInv
      <4>2. action'[LastAction] = [action[LastAction] EXCEPT !.num_actions = call.made]
        BY <3>4, <3>5, <4>1
      <4>3. [action[LastAction] EXCEPT !.num_actions = call.made].num_actions = call.made
        BY <3>4 DEF Undoable
      <4>. QED
        BY <3>4, <4>2, <4>3
    <3>7. Pending' = Pending
      BY <2>5, <3>1, <3>2, <3>3, <3>6 DEF Pending
    <3>. QED
      BY <1>a, <2>5, <3>1, <3>7, CallShapes, LockKept
  <2>. QED
    BY <2>3, <2>4, <2>5
<1>7. CASE Crash
  <2>1. call' = Crashed /\ redo_stack_locked' = redo_stack_locked
    BY <1>7 DEF Crash, Crashed
  <2>2. Pending' = 0
    BY <2>1, IdleCall DEF Pending
  <2>. QED
    BY <1>a, <2>1, <2>2, CallShapes, LockKept DEF LockStep
<1>8. ASSUME NEW n \in 1..MaxGroup, NEW c \in {"last", "each"}, NEW b \in BOOLEAN, BeginPerform(n, c, b)
      PROVE  P /\ Q
  <2>1. /\ call = Idle /\ redo_stack_locked' = b /\ undo_stack' = undo_stack
        /\ call'.name = "perform" /\ call'.made = 0 /\ call'.before = LastAction
    BY <1>8 DEF BeginPerform
  <2>2. ~redo_stack_locked
    BY <2>1, IdleUnlocked
  <2>3. LastAction' = LastAction /\ U' = U /\ LastAction \in {Nil} \cup ToSet(U)
    BY <2>1, LastActionKept, LastActionIs
  <2>4. P
    BY <2>1, <2>3 DEF BeforeInv
  <2>5. Pending' = 0
    BY <2>1 DEF Pending
  <2>. QED
    BY <2>1, <2>2, <2>4, <2>5 DEF LockStep
<1>9. ASSUME NEW name \in {"undo", "redo"}, NEW again \in Nat, BeginUndoOrRedo(name, again)
      PROVE  P /\ Q
  <2>1. /\ call = Idle /\ call' = [name |-> name, at |-> "wait", again |-> again]
        /\ redo_stack_locked' = redo_stack_locked
    BY <1>9 DEF BeginUndoOrRedo
  <2>2. ~redo_stack_locked /\ call' \in Asking
    BY <2>1, IdleUnlocked, Asked
  <2>. QED
    BY <1>a, <2>1, <2>2, CallShapes, LockKept
<1>. QED
  BY <1>1, <1>2, <1>3, <1>4, <1>5, <1>6, <1>7, <1>8, <1>9 DEF OtherStep

LEMMA MovePending ==
  ASSUME TypeInv, UndoOrRedoOne
  PROVE  /\ BeforeInv' /\ redo_stack_locked' = redo_stack_locked
         /\ redo_stack_locked => call.name = "undo" /\ Pending \in Nat \ {0} /\ Pending' = Pending - 1
<1>1. /\ call \in Acting /\ call.i < call.n /\ call' = [call EXCEPT !.i = call.i + 1]
      /\ redo_stack_locked' = redo_stack_locked
  BY MoveEffect DEF UndoOrRedoOne
<1>2. /\ call' \in Acting /\ call'.at = "acting" /\ call'.name # "perform" /\ call'.i = call.i + 1
      /\ call'.n = call.n /\ call.at = "acting" /\ call.name # "perform"
      /\ call.i \in Nat /\ call.n \in Nat
  BY <1>1, Bounds DEF Acting
<1>3. BeforeInv'
  BY <1>2, CallShapes DEF BeforeInv
<1>4. ASSUME redo_stack_locked
      PROVE  call.name = "undo" /\ Pending \in Nat \ {0} /\ Pending' = Pending - 1
  <2>1. call.name = "undo"
    BY <1>1, <1>4, CallShapes DEF TypeInv, LockedInv, Acting
  <2>2. Pending = call.n - call.i /\ Pending' = call.n - (call.i + 1)
    BY <1>1, <1>2, <1>4 DEF Pending
  <2>. QED
    BY <1>1, <1>2, <2>1, <2>2
<1>. QED
  BY <1>1, <1>3, <1>4

LEMMA PerformPending ==
  ASSUME TypeInv, BeforeInv, NEW a \in Addrs, NEW k \in Kinds, PerformAction(a, k)
  PROVE  /\ BeforeInv' /\ redo_stack_locked' \in BOOLEAN
         /\ ~redo_stack_locked => redo_stack_locked' = FALSE
         /\ redo_stack_locked /\ MaxLength = -1 => redo_stack_locked'
         /\ redo_stack_locked /\ redo_stack_locked' => Pending' = Pending + 1
<1>1. /\ call \in Performing /\ a \notin ToSet(U) \cup ToSet(R) /\ U' = Append(Room(U), a)
      /\ call.left = 1 \/ call.counts = "each" => action'[a].num_actions = call.made + 1
  BY PerformEffect
<1>2. redo_stack_locked \in BOOLEAN /\ call.made \in Nat /\ call.name = "perform"
  BY <1>1 DEF TypeInv, LockedInv, Performing
<1>3. /\ U' # << >> /\ ToSet(U') = (ToSet(U) \ Evicted(U)) \cup {a} /\ Last(U') = a
  <2>1. /\ Append(Room(U), a) # << >> /\ Last(Append(Room(U), a)) = a
        /\ ToSet(Append(Room(U), a)) = (ToSet(U) \ Evicted(U)) \cup {a}
    BY <1>1, PushedWithRoom DEF TypeInv, StacksInv, Last
  <2>. QED
    BY <1>1, <2>1
<1>4. CASE call.left = 1
  <2>1. PICK acts, made : EndPerform(a, acts, made)
    BY <1>4 DEF PerformAction
  <2>2. \/ call' = Idle /\ redo_stack_locked' = FALSE
        \/ /\ redo_stack_locked /\ redo_stack_locked' = redo_stack_locked /\ a # call.before
           /\ call' = [name |-> "undo", at |-> "wait", again |-> 0]
    BY <1>1, <2>1, EndedPerform
  <2>3. call' \in {Idle} \cup Asking
    BY <2>2, Asked
  <2>4. BeforeInv'
    BY <2>3, CallShapes DEF BeforeInv
  <2>5. redo_stack_locked /\ MaxLength = -1 => redo_stack_locked'
    <3>1. MaxLength = -1 => a # call.before
      BY <1>1, NilIsNoAction DEF BeforeInv
    <3>. QED
      BY <2>1, <3>1 DEF EndPerform
  <2>6. redo_stack_locked /\ redo_stack_locked' => Pending' = Pending + 1
    <3>. SUFFICES ASSUME redo_stack_locked, redo_stack_locked' PROVE Pending' = Pending + 1
      OBVIOUS
    <3>1. call'.name = "undo" /\ call'.at = "wait"
      BY <2>2, Asked
    <3>2. Pending' = action'[Last(U')].num_actions
      BY <1>3, <3>1 DEF Pending
    <3>. QED
      BY <1>1, <1>2, <1>3, <1>4, <3>2 DEF Pending
  <2>. QED
    BY <1>2, <2>2, <2>4, <2>5, <2>6
<1>5. CASE call.left # 1
  <2>1. /\ call' = [call EXCEPT !.at = "wait", !.left = call.left - 1, !.made = call.made + 1]
        /\ redo_stack_locked' = redo_stack_locked
    BY <1>5 DEF PerformAction
  <2>2. call'.made = call.made + 1 /\ call'.before = call.before /\ call'.name = "perform"
    BY <1>1, <2>1 DEF Performing
  <2>3. BeforeInv'
    <3>1. call'.made # 0
      BY <1>2, <2>2
    <3>2. MaxLength = -1 => Evicted(U) = {}
      BY DEF Evicted, Full
    <3>. QED
      BY <1>1, <1>3, <2>2, <3>1, <3>2 DEF BeforeInv
  <2>4. redo_stack_locked => Pending' = Pending + 1
    BY <1>2, <2>1, <2>2 DEF Pending
  <2>. QED
    BY <1>2, <2>1, <2>3, <2>4
<1>. QED
  BY <1>4, <1>5
-----------------------------------------------------------------------------
(* The line of edits: the document and, after it, what can be redone.      *)
Line(d, r) == d \o Reverse(r)

LEMMA LineIs ==
  ASSUME NEW S, NEW d \in Seq(S), NEW r \in Seq(S)
  PROVE  /\ Line(d, r) \in Seq(S) /\ Len(d) \in Nat /\ Len(r) \in Nat
         /\ Len(Line(d, r)) = Len(d) + Len(r)
         /\ \A i \in 1..(Len(d) + Len(r)) :
              Line(d, r)[i] = IF i <= Len(d) THEN d[i] ELSE r[Len(d) + Len(r) + 1 - i]
<1>1. PICK n \in Nat, m \in Nat : n = Len(d) /\ m = Len(r)
  BY LenProperties
<1>2. Reverse(r) \in Seq(S) /\ Len(Reverse(r)) = m /\ \A i \in 1..m : Reverse(r)[i] = r[m - i + 1]
  BY <1>1, Reversed
<1>. DEFINE v == Reverse(r)
<1>. HIDE DEF v
<1>3. /\ Line(d, r) \in Seq(S) /\ Len(Line(d, r)) = n + m
      /\ \A i \in 1..(n + m) : Line(d, r)[i] = IF i <= n THEN d[i] ELSE Reverse(r)[i - n]
  <2>1. v \in Seq(S) /\ Len(v) = m
    BY <1>2 DEF v
  <2>2. /\ d \o v \in Seq(S) /\ Len(d \o v) = Len(d) + Len(v)
        /\ \A i \in 1..Len(d) + Len(v) : (d \o v)[i] = IF i <= Len(d) THEN d[i] ELSE v[i - Len(d)]
    BY <2>1, ConcatProperties
  <2>. QED
    BY <1>1, <2>1, <2>2 DEF Line, v
<1>4. ASSUME NEW i \in 1..(n + m)
      PROVE  Line(d, r)[i] = IF i <= n THEN d[i] ELSE r[n + m + 1 - i]
  <2>1. CASE i <= n
    BY <1>3, <2>1
  <2>2. CASE ~(i <= n)
    <3>1. i - n \in 1..m /\ m - (i - n) + 1 = n + m + 1 - i
      BY <2>2
    <3>. QED
      BY <1>2, <1>3, <2>2, <3>1
  <2>. QED
    BY <2>1, <2>2
<1>. QED
  BY <1>1, <1>3, <1>4

(* Undoing and redoing one edit move along the line.                       *)
LEMMA LineMoved ==
  ASSUME NEW S, NEW d \in Seq(S), NEW r \in Seq(S), d # << >>
  PROVE  Line(Front(d), Append(r, Last(d))) = Line(d, r)
<1>. DEFINE c == Front(d)
            q == Append(r, Last(d))
<1>1. PICK n \in Nat \ {0}, m \in Nat : n = Len(d) /\ m = Len(r)
  BY LenProperties, EmptySeq
<1>2. /\ c \in Seq(S) /\ Len(c) = n - 1 /\ \A i \in 1..(n - 1) : c[i] = d[i]
      /\ Last(d) = d[n] /\ Last(d) \in S
  BY <1>1, FrontIs
<1>3. q \in Seq(S) /\ Len(q) = m + 1 /\ q[m + 1] = d[n] /\ \A i \in 1..m : q[i] = r[i]
  BY <1>1, <1>2, AppendProperties
<1>. HIDE DEF c, q
<1>4. /\ Line(d, r) \in Seq(S) /\ Len(Line(d, r)) = n + m
      /\ \A i \in 1..(n + m) : Line(d, r)[i] = IF i <= n THEN d[i] ELSE r[n + m + 1 - i]
  BY <1>1, LineIs
<1>5. /\ Line(c, q) \in Seq(S) /\ Len(Line(c, q)) = n + m
      /\ \A i \in 1..(n + m) : Line(c, q)[i] = IF i <= n - 1 THEN c[i] ELSE q[n + m + 1 - i]
  <2>1. (n - 1) + (m + 1) = n + m
    OBVIOUS
  <2>2. c \in Seq(S) /\ q \in Seq(S) /\ Len(c) = n - 1 /\ Len(q) = m + 1
    BY <1>2, <1>3
  <2>3. /\ Line(c, q) \in Seq(S) /\ Len(Line(c, q)) = Len(c) + Len(q)
        /\ \A i \in 1..(Len(c) + Len(q)) :
             Line(c, q)[i] = IF i <= Len(c) THEN c[i] ELSE q[Len(c) + Len(q) + 1 - i]
    BY <2>2, LineIs
  <2>. QED
    BY <2>1, <2>2, <2>3
<1>6. ASSUME NEW i \in 1..(n + m) PROVE Line(c, q)[i] = Line(d, r)[i]
  <2>1. CASE i <= n - 1
    <3>1. i \in 1..(n - 1) /\ i <= n
      BY <2>1
    <3>. QED
      BY <1>2, <1>4, <1>5, <2>1, <3>1
  <2>2. CASE i = n
    <3>1. ~(i <= n - 1) /\ i <= n /\ n + m + 1 - i = m + 1
      BY <2>2
    <3>. QED
      BY <1>3, <1>4, <1>5, <2>2, <3>1
  <2>3. CASE i > n
    <3>1. ~(i <= n - 1) /\ ~(i <= n) /\ n + m + 1 - i \in 1..m
      BY <2>3
    <3>. QED
      BY <1>3, <1>4, <1>5, <3>1
  <2>. QED
    BY <2>1, <2>2, <2>3
<1>7. Line(c, q) = Line(d, r)
  BY <1>4, <1>5, <1>6, SeqEqual
<1>. QED
  BY <1>7 DEF c, q

LEMMA FrontOfAppend ==
  ASSUME NEW S, NEW d \in Seq(S), NEW e \in S
  PROVE  /\ Front(Append(d, e)) = d /\ Last(Append(d, e)) = e
         /\ Append(d, e) # << >> /\ Append(d, e) \in Seq(S)
<1>1. /\ Append(d, e) \in Seq(S) /\ Append(d, e) # << >> /\ Len(Append(d, e)) = Len(d) + 1
      /\ \A i \in 1..Len(d) : Append(d, e)[i] = d[i]
      /\ Append(d, e)[Len(d) + 1] = e
  BY AppendProperties
<1>2. PICK n \in Nat : n = Len(d)
  BY LenProperties
<1>. DEFINE t == Append(d, e)
<1>. HIDE DEF t
<1>3. /\ Front(t) \in Seq(S) /\ Len(Front(t)) = n /\ \A i \in 1..n : Front(t)[i] = t[i]
      /\ Last(t) = t[n + 1]
  <2>1. t \in Seq(S) /\ t # << >> /\ Len(t) = n + 1 /\ (n + 1) - 1 = n
    BY <1>1, <1>2 DEF t
  <2>2. /\ Front(t) \in Seq(S) /\ Len(Front(t)) = Len(t) - 1
        /\ \A i \in 1..(Len(t) - 1) : Front(t)[i] = t[i]
        /\ Last(t) = t[Len(t)]
    BY <2>1, FrontIs
  <2>. QED
    BY <2>1, <2>2
<1>4. Front(t) = d
  BY <1>1, <1>2, <1>3, SeqEqual DEF t
<1>. QED
  BY <1>1, <1>2, <1>3, <1>4 DEF t

LEMMA AppendFront ==
  ASSUME NEW S, NEW r \in Seq(S), r # << >>
  PROVE  Append(Front(r), Last(r)) = r
<1>1. PICK n \in Nat \ {0} : n = Len(r)
  BY EmptySeq
<1>2. /\ Front(r) \in Seq(S) /\ Len(Front(r)) = n - 1 /\ \A i \in 1..(n - 1) : Front(r)[i] = r[i]
      /\ Last(r) = r[n] /\ Last(r) \in S
  BY <1>1, FrontIs
<1>. DEFINE f == Front(r)
            t == Append(f, Last(r))
<1>3. t \in Seq(S) /\ Len(t) = n /\ t[n] = r[n] /\ \A i \in 1..(n - 1) : t[i] = r[i]
  <2>1. /\ t \in Seq(S) /\ Len(t) = Len(f) + 1 /\ t[Len(f) + 1] = Last(r)
        /\ \A i \in 1..Len(f) : t[i] = f[i]
    BY <1>2, AppendProperties
  <2>2. (n - 1) + 1 = n
    OBVIOUS
  <2>. QED
    BY <1>2, <2>1, <2>2
<1>. HIDE DEF t
<1>4. \A i \in 1..n : i = n \/ i \in 1..(n - 1)
  BY SMT
<1>5. t = r
  BY <1>1, <1>3, <1>4, SeqEqual
<1>. QED
  BY <1>5 DEF t

LEMMA LineMovedBack ==
  ASSUME NEW S, NEW d \in Seq(S), NEW r \in Seq(S), r # << >>
  PROVE  Line(Append(d, Last(r)), Front(r)) = Line(d, r)
<1>1. Front(r) \in Seq(S) /\ Last(r) \in S
  BY FrontIs
<1>2. /\ Front(Append(d, Last(r))) = d /\ Last(Append(d, Last(r))) = Last(r)
      /\ Append(d, Last(r)) # << >> /\ Append(d, Last(r)) \in Seq(S)
  BY <1>1, FrontOfAppend
<1>3. Line(Front(Append(d, Last(r))), Append(Front(r), Last(Append(d, Last(r)))))
        = Line(Append(d, Last(r)), Front(r))
  BY <1>1, <1>2, LineMoved
<1>. QED
  BY <1>2, <1>3, AppendFront

(* What lies before the cursor, and after it.                              *)
LEMMA LineParts ==
  ASSUME NEW S, NEW d \in Seq(S), NEW r \in Seq(S)
  PROVE  LET l == Line(d, r)
         IN /\ SubSeq(l, 1, Len(d)) = d
            /\ SubSeq(l, Len(d) + 1, Len(l)) = Reverse(r)
            /\ d # << >> => SubSeq(l, 1, Len(d) - 1) = Front(d)
<1>. DEFINE l == Line(d, r)
            v == Reverse(r)
<1>1. PICK n \in Nat, m \in Nat : n = Len(d) /\ m = Len(r)
  BY LenProperties
<1>2. v \in Seq(S) /\ Len(v) = m
  BY <1>1, Reversed
<1>3. /\ l \in Seq(S) /\ Len(l) = n + m
      /\ \A i \in 1..(n + m) : l[i] = IF i <= n THEN d[i] ELSE v[i - n]
  <2>. HIDE DEF v
  <2>1. /\ d \o v \in Seq(S) /\ Len(d \o v) = Len(d) + Len(v)
        /\ \A i \in 1..Len(d) + Len(v) : (d \o v)[i] = IF i <= Len(d) THEN d[i] ELSE v[i - Len(d)]
    BY <1>2, ConcatProperties
  <2>2. l = d \o v
    BY DEF Line, v
  <2>. QED
    BY <1>1, <1>2, <2>1, <2>2
<1>. HIDE DEF l, v
<1>4. \A i \in 1..(n + m) : l[i] \in S
  BY <1>3, ElementOfSeq
<1>5. ASSUME NEW j \in 0..n
      PROVE  /\ SubSeq(l, 1, j) \in Seq(S) /\ Len(SubSeq(l, 1, j)) = j
             /\ \A i \in 1..j : SubSeq(l, 1, j)[i] = d[i]
  <2>1. /\ 1 \in Int /\ j \in Int /\ j - 1 + 1 = j /\ (~(1 <= j) => j = 0)
        /\ \A i \in 1..j : i \in 1..(n + m) /\ 1 + i - 1 = i /\ i <= n
    BY SMT
  <2>2. \A i \in 1..j : l[i] \in S
    BY <1>4, <2>1
  <2>3. /\ SubSeq(l, 1, j) \in Seq(S)
        /\ Len(SubSeq(l, 1, j)) = IF 1 <= j THEN j - 1 + 1 ELSE 0
        /\ \A i \in 1..(j - 1 + 1) : SubSeq(l, 1, j)[i] = l[1 + i - 1]
    BY <2>1, <2>2, SubSeqProperties
  <2>. QED
    BY <1>3, <2>1, <2>3
<1>6. SubSeq(l, 1, n) = d
  <2>1. n \in 0..n
    OBVIOUS
  <2>. QED
    BY <1>1, <1>5, <2>1, SeqEqual
<1>7. d # << >> => SubSeq(l, 1, n - 1) = Front(d)
  <2>. SUFFICES ASSUME d # << >> PROVE SubSeq(l, 1, n - 1) = Front(d)
    OBVIOUS
  <2>1. /\ Front(d) \in Seq(S) /\ Len(Front(d)) = n - 1 /\ n # 0
        /\ \A i \in 1..(n - 1) : Front(d)[i] = d[i]
    BY <1>1, FrontIs
  <2>2. PICK j \in 0..n : j = n - 1
    BY <2>1
  <2>3. /\ SubSeq(l, 1, j) \in Seq(S) /\ Len(SubSeq(l, 1, j)) = j
        /\ \A i \in 1..j : SubSeq(l, 1, j)[i] = d[i]
    BY <1>5
  <2>4. PICK f \in Seq(S) : f = Front(d)
    BY <2>1
  <2>5. Len(f) = j /\ \A i \in 1..j : f[i] = d[i]
    BY <2>1, <2>2, <2>4
  <2>6. SubSeq(l, 1, j) = f
    BY <2>3, <2>5, SeqEqual
  <2>. QED
    BY <2>2, <2>4, <2>6
<1>8. SubSeq(l, n + 1, n + m) = v
  <2>1. /\ n + 1 \in Int /\ n + m \in Int /\ (n + m) - (n + 1) + 1 = m
        /\ (~(n + 1 <= n + m) => m = 0)
        /\ \A i \in (n + 1)..(n + m) : i \in 1..(n + m)
        /\ \A i \in 1..m : /\ (n + 1) + i - 1 = n + i /\ n + i \in 1..(n + m)
                           /\ ~(n + i <= n) /\ (n + i) - n = i
    BY SMT
  <2>2. \A i \in (n + 1)..(n + m) : l[i] \in S
    BY <1>4, <2>1
  <2>3. /\ SubSeq(l, n + 1, n + m) \in Seq(S)
        /\ Len(SubSeq(l, n + 1, n + m)) = IF n + 1 <= n + m THEN (n + m) - (n + 1) + 1 ELSE 0
        /\ \A i \in 1..((n + m) - (n + 1) + 1) : SubSeq(l, n + 1, n + m)[i] = l[(n + 1) + i - 1]
    BY <2>1, <2>2, SubSeqProperties
  <2>4. Len(SubSeq(l, n + 1, n + m)) = m
    BY <2>1, <2>3
  <2>5. \A i \in 1..m : SubSeq(l, n + 1, n + m)[i] = v[i]
    BY <1>3, <2>1, <2>3
  <2>. QED
    BY <1>2, <2>3, <2>4, <2>5, SeqEqual
<1>. QED
  BY <1>1, <1>3, <1>6, <1>7, <1>8 DEF l, v
-----------------------------------------------------------------------------
HistoryInv == TypeInv /\ DocInv /\ BeforeInv /\ MadeInv

LEMMA PerformMade ==
  ASSUME TypeInv, DocInv, MadeInv, NEW a \in Addrs, NEW k \in Kinds, PerformAction(a, k)
  PROVE  /\ MadeInv' /\ Len(group') = Len(group) + 1 /\ Len(made_at) = Len(group)
         /\ \A x \in 1..Len(group) : made_at'[x] = made_at[x]
         /\ made_at'[Len(group) + 1] = doc
<1>1. PICK n \in Nat : n = Len(group) /\ n = Len(made_at)
  BY LenProperties DEF TypeInv, CountsInv
<1>2. made_at' = Append(made_at, doc) /\ group' = Append(group, call.of)
  BY PerformEdits
<1>3. made_at \in Seq(Seq(Edits)) /\ group \in Seq(Nat \ {0}) /\ doc \in Seq(Edits)
  BY DEF TypeInv, CountsInv
<1>4. call.of \in Nat \ {0}
  BY PerformEffect DEF Performing
<1>5. Len(group') = n + 1
  <2>1. group \in Seq(Nat \ {0}) /\ call.of \in Nat \ {0}
    BY <1>3, <1>4
  <2>2. Len(Append(group, call.of)) = Len(group) + 1
    BY <2>1, AppendProperties
  <2>. QED
    BY <1>1, <1>2, <2>2
<1>6. made_at'[n + 1] = doc /\ \A x \in 1..n : made_at'[x] = made_at[x]
  BY <1>1, <1>2, <1>3, AppendProperties
<1>7. \A l \in 1..Len(doc) : doc[l] \in 1..n
  BY <1>1, <1>3, ToSetOf DEF DocInv
<1>8. MadeInv'
  <2>1. SUFFICES ASSUME NEW x \in 1..(n + 1), NEW l \in 1..Len(made_at'[x])
                 PROVE  made_at'[x][l] \in 1..(x - 1)
    BY <1>5 DEF MadeInv
  <2>2. CASE x = n + 1
    BY <1>6, <1>7, <2>1, <2>2
  <2>3. CASE x # n + 1
    <3>1. x \in 1..n
      BY <2>3
    <3>. QED
      BY <1>1, <1>6, <2>1, <3>1 DEF MadeInv
  <2>. QED
    BY <2>2, <2>3
<1>. QED
  BY <1>1, <1>5, <1>6, <1>8

LEMMA HistoryStep ==
  ASSUME HistoryInv, [Next]_vars
  PROVE  HistoryInv'
<1>1. TypeInv' /\ DocInv'
  BY PerformTypes, PerformKeepsDoc, MoveTypes, OtherTypes, OtherKeepsDoc, Unmoved, Steps DEF HistoryInv
<1>2. BeforeInv' /\ MadeInv'
  <2>1. ASSUME NEW a \in Addrs, NEW k \in Kinds, PerformAction(a, k) PROVE BeforeInv' /\ MadeInv'
    BY <2>1, PerformPending, PerformMade DEF HistoryInv
  <2>2. CASE UndoOrRedoOne
    <3>1. UNCHANGED <<made_at, group>>
      BY <2>2, MoveEdits DEF HistoryInv
    <3>. QED
      BY <2>2, <3>1, MovePending DEF HistoryInv, MadeInv
  <2>3. CASE OtherStep
    <3>1. UNCHANGED <<made_at, group>>
      BY <2>3, OtherTypes, RenumberEdits DEF HistoryInv
    <3>. QED
      BY <2>3, <3>1, OtherPending DEF HistoryInv, MadeInv
  <2>4. CASE UNCHANGED vars
    BY <2>4, LastActionKept DEF HistoryInv, BeforeInv, MadeInv, U, vars
  <2>. QED
    BY <2>1, <2>2, <2>3, <2>4, Steps
<1>. QED
  BY <1>1, <1>2 DEF HistoryInv

LEMMA InitHistory == Init => HistoryInv
<1>1. Init => BeforeInv /\ MadeInv
  <2>. SUFFICES ASSUME Init PROVE BeforeInv /\ MadeInv
    OBVIOUS
  <2>1. call = Idle /\ group = << >> /\ Len(<< >>) = 0
    BY EmptySeq DEF Init
  <2>. QED
    BY <2>1, CallShapes DEF BeforeInv, MadeInv
<1>. QED
  BY <1>1, InitTypes DEF HistoryInv

LEMMA HistoryAlways == Spec => []HistoryInv
<1>1. HistoryInv /\ [Next]_vars => HistoryInv'
  BY HistoryStep
<1>. QED
  BY InitHistory, <1>1, PTL DEF Spec

-----------------------------------------------------------------------------
(* The refinement.                                                         *)
Timeline == Line(doc, RE)

LEMMA TimelineIs ==
  /\ doc \o Reverse(EditsOf(redo_stack.elements)) = Timeline
  /\ (doc \o Reverse(EditsOf(redo_stack.elements)))' = Timeline'
BY DEF Timeline, Line, RE, R

LEMMA NoRoomNeeded == MaxLength = -1 => \A s : Room(s) = s
BY DEF Room, Full

LEMMA NotOnTheLine ==
  ASSUME NEW S, NEW d \in Seq(S), NEW r \in Seq(S), NEW e, e \notin ToSet(d) \cup ToSet(r)
  PROVE  e \notin {Line(d, r)[i] : i \in 1..Len(Line(d, r))}
<1>1. PICK n \in Nat, m \in Nat : n = Len(d) /\ m = Len(r)
  BY LenProperties
<1>2. /\ Len(Line(d, r)) = n + m
      /\ \A i \in 1..(n + m) : Line(d, r)[i] = IF i <= n THEN d[i] ELSE r[n + m + 1 - i]
  BY <1>1, LineIs
<1>3. ToSet(d) = {d[i] : i \in 1..n} /\ ToSet(r) = {r[i] : i \in 1..m}
  BY <1>1, ToSetOf
<1>4. ASSUME NEW i \in 1..(n + m) PROVE Line(d, r)[i] # e
  <2>1. CASE i <= n
    BY <1>2, <1>3, <2>1
  <2>2. CASE ~(i <= n)
    <3>1. n + m + 1 - i \in 1..m
      BY <2>2
    <3>. QED
      BY <1>2, <1>3, <2>2, <3>1
  <2>. QED
    BY <2>1, <2>2
<1>. QED
  BY <1>2, <1>4

LEMMA RefinedPerform ==
  ASSUME MaxLength = -1, HistoryInv, NEW a \in Addrs, NEW k \in Kinds, PerformAction(a, k)
  PROVE  History!Next
<1>. DEFINE e == Len(group) + 1
            t == Timeline
<1>0. TypeInv /\ DocInv /\ BeforeInv
  BY DEF HistoryInv
<1>1. /\ RE' = (IF redo_stack_locked THEN RE ELSE << >>) /\ doc' = Append(doc, e) /\ e \in Edits
  BY <1>0, PerformEdits
<1>2. doc \in Seq(Edits) /\ RE \in Seq(Edits)
  BY <1>0, StacksOfActions
<1>3. e \notin ToSet(doc) \cup ToSet(RE)
  <2>1. PICK n \in Nat : n = Len(group)
    BY <1>0, LenProperties DEF TypeInv, CountsInv
  <2>2. e \notin 1..n
    BY <2>1
  <2>. QED
    BY <1>0, <2>1, <2>2 DEF DocInv
<1>. HIDE DEF e
<1>4. e \notin {t[i] : i \in 1..Len(t)}
  BY <1>2, <1>3, NotOnTheLine DEF Timeline
<1>5. /\ SubSeq(t, 1, Len(doc)) = doc
      /\ SubSeq(t, Len(doc) + 1, Len(t)) = Reverse(RE)
  BY <1>2, LineParts DEF Timeline
<1>6. Len(doc') = Len(doc) + 1 /\ doc' = doc \o <<e>> /\ doc' \in Seq(Edits)
  BY <1>1, <1>2, AppendProperties, AppendIsConcat
<1>7. /\ redo_stack_locked' \in BOOLEAN /\ redo_stack_locked \in BOOLEAN
      /\ ~redo_stack_locked => redo_stack_locked' = FALSE
      /\ redo_stack_locked => redo_stack_locked'
  BY <1>0, PerformPending DEF TypeInv, LockedInv
<1>8. CASE ~redo_stack_locked
  <2>1. Timeline' = doc'
    <3>1. RE' = << >> /\ Reverse(<< >>) = << >>
      <4>1. << >> \in Seq(Edits) /\ Len(<< >>) = 0
        BY EmptySeq
      <4>2. Reverse(<< >>) \in Seq(Edits) /\ Len(Reverse(<< >>)) = 0
        BY <4>1, Reversed
      <4>. QED
        BY <1>1, <1>8, <4>2, EmptySeq
    <3>. QED
      BY <1>6, <3>1, ConcatEmptySeq DEF Timeline, Line
  <2>2. Timeline' = Append(SubSeq(t, 1, Len(doc)), e)
    BY <1>1, <1>5, <2>1
  <2>3. History!Perform(e)
    BY <1>4, <1>6, <1>7, <1>8, <2>2, TimelineIs DEF History!Perform, History!Past
  <2>. QED
    BY <1>1, <2>3 DEF History!Next
<1>9. CASE redo_stack_locked
  <2>1. Timeline' = (doc \o <<e>>) \o Reverse(RE)
    BY <1>1, <1>6, <1>9 DEF Timeline, Line
  <2>2. Timeline' = SubSeq(t, 1, Len(doc)) \o <<e>> \o SubSeq(t, Len(doc) + 1, Len(t))
    BY <1>5, <2>1
  <2>3. History!Try(e)
    BY <1>4, <1>6, <1>7, <1>9, <2>2, TimelineIs DEF History!Try, History!Past, History!Future
  <2>. QED
    BY <1>1, <2>3 DEF History!Next
<1>. QED
  BY <1>7, <1>8, <1>9

LEMMA RefinedMove ==
  ASSUME MaxLength = -1, HistoryInv, UndoOrRedoOne
  PROVE  History!Next
<1>. DEFINE t == Timeline
<1>0. TypeInv /\ DocInv
  BY DEF HistoryInv
<1>1. doc \in Seq(Edits) /\ RE \in Seq(Edits) /\ UE \in Seq(Edits)
  BY <1>0, StacksOfActions
<1>2. redo_stack_locked' = redo_stack_locked /\ (redo_stack_locked => call.name = "undo")
  BY <1>0, MovePending
<1>3. CASE call.name = "undo" /\ ~redo_stack_locked
  <2>1. /\ RE' = Append(RE, Last(doc)) /\ doc # << >> /\ doc' = Front(doc)
    BY <1>0, <1>3, MoveEdits, MoveKeepsDoc, NoRoomNeeded
  <2>2. Timeline' = t
    BY <1>1, <2>1, LineMoved DEF Timeline
  <2>3. Len(doc) > 0 /\ Len(doc') = Len(doc) - 1
    <3>1. Len(Front(doc)) = Len(doc) - 1 /\ Len(doc) \in Nat \ {0}
      BY <1>1, <2>1, FrontIs
    <3>. QED
      BY <2>1, <3>1
  <2>4. History!Undo
    BY <1>2, <1>3, <2>2, <2>3, TimelineIs DEF History!Undo
  <2>. QED
    BY <2>4 DEF History!Next
<1>4. CASE call.name = "undo" /\ redo_stack_locked
  <2>1. /\ RE' = RE /\ doc # << >> /\ doc' = Front(doc)
    BY <1>0, <1>4, MoveEdits, MoveKeepsDoc
  <2>2. /\ SubSeq(t, 1, Len(doc) - 1) = Front(doc)
        /\ SubSeq(t, Len(doc) + 1, Len(t)) = Reverse(RE)
    BY <1>1, <2>1, LineParts DEF Timeline
  <2>3. Timeline' = SubSeq(t, 1, Len(doc) - 1) \o SubSeq(t, Len(doc) + 1, Len(t))
    BY <2>1, <2>2 DEF Timeline, Line
  <2>4. Len(doc) > 0 /\ Len(doc') = Len(doc) - 1
    <3>1. Len(Front(doc)) = Len(doc) - 1 /\ Len(doc) \in Nat \ {0}
      BY <1>1, <2>1, FrontIs
    <3>. QED
      BY <2>1, <3>1
  <2>5. History!Withdraw
    BY <1>2, <1>4, <2>3, <2>4, TimelineIs DEF History!Withdraw, History!Future
  <2>. QED
    BY <2>5 DEF History!Next
<1>5. CASE call.name # "undo"
  <2>1. RE # << >> /\ RE' = Front(RE) /\ doc' = Append(doc, Last(RE))
    BY <1>0, <1>5, MoveEdits
  <2>2. Timeline' = t
    BY <1>1, <2>1, LineMovedBack DEF Timeline
  <2>3. Last(RE) \in Edits /\ Len(RE) \in Nat \ {0}
    BY <1>1, <2>1, FrontIs
  <2>4. Len(doc') = Len(doc) + 1 /\ Len(doc) < Len(t)
    <3>1. Len(t) = Len(doc) + Len(RE) /\ Len(doc) \in Nat
      BY <1>1, LineIs DEF Timeline
    <3>. QED
      BY <1>1, <2>1, <2>3, <3>1, AppendProperties
  <2>5. History!Redo
    BY <1>2, <1>5, <2>2, <2>4, TimelineIs DEF History!Redo
  <2>. QED
    BY <2>5 DEF History!Next
<1>. QED
  BY <1>3, <1>4, <1>5

LEMMA RefinedOther ==
  ASSUME HistoryInv, OtherStep \/ UNCHANGED vars
  PROVE  [History!Next]_History!vars
<1>0. TypeInv /\ DocInv
  BY DEF HistoryInv
<1>1. RE' = RE /\ doc' = doc
  <2>1. CASE OtherStep
    BY <1>0, <2>1, OtherTypes, RenumberEdits
  <2>2. CASE UNCHANGED vars
    BY <2>2, Unmoved DEF vars
  <2>. QED
    BY <2>1, <2>2
<1>2. Timeline' = Timeline /\ Len(doc') = Len(doc)
  BY <1>1 DEF Timeline
<1>3. redo_stack_locked \in BOOLEAN /\ redo_stack_locked' \in BOOLEAN
  <2>1. CASE OtherStep
    BY <1>0, <2>1, OtherTypes DEF TypeInv, LockedInv
  <2>2. CASE UNCHANGED vars
    BY <1>0, <2>2 DEF vars, TypeInv, LockedInv
  <2>. QED
    BY <2>1, <2>2
<1>4. \/ redo_stack_locked' = redo_stack_locked
      \/ redo_stack_locked' = ~redo_stack_locked
  BY <1>3
<1>5. CASE redo_stack_locked' = redo_stack_locked
  BY <1>2, <1>5, TimelineIs DEF History!vars
<1>6. CASE redo_stack_locked' = ~redo_stack_locked
  BY <1>2, <1>6, TimelineIs DEF History!Next, History!SetTentative
<1>. QED
  BY <1>4, <1>5, <1>6

(* With stacks of no bounded length the undo manager, whatever fails and   *)
(* whatever rows of the menus are chosen, moves along one line of edits:   *)
(* performing drops what could be redone and nothing else does.            *)
THEOREM HistoryRefined == MaxLength = -1 => (Spec => ImplementsHistory)
<1>. SUFFICES ASSUME MaxLength = -1 PROVE Spec => ImplementsHistory
  OBVIOUS
<1>1. Init => History!Init
  <2>. SUFFICES ASSUME Init PROVE History!Init
    OBVIOUS
  <2>1. doc = << >> /\ redo_stack.elements = << >> /\ redo_stack_locked = FALSE
    BY DEF Init, EmptyStack
  <2>2. << >> \in Seq(Edits) /\ Len(<< >>) = 0
    BY EmptySeq
  <2>3. EditsOf(<< >>) = << >>
    <3>1. EditsOf(<< >>) \in [1..0 -> Edits]
      BY <2>2 DEF EditsOf
    <3>2. EditsOf(<< >>) \in Seq(Edits) /\ Len(EditsOf(<< >>)) = 0
      BY <3>1, FunctionsAreSequences
    <3>. QED
      BY <3>2, EmptySeq
  <2>4. Reverse(<< >>) = << >>
    <3>1. Reverse(<< >>) \in Seq(Edits) /\ Len(Reverse(<< >>)) = 0
      BY <2>2, Reversed
    <3>. QED
      BY <3>1, EmptySeq
  <2>5. << >> \o << >> = << >>
    BY <2>2, ConcatEmptySeq
  <2>. QED
    BY <2>1, <2>2, <2>3, <2>4, <2>5 DEF History!Init
<1>2. HistoryInv /\ [Next]_vars => [History!Next]_History!vars
  BY RefinedPerform, RefinedMove, RefinedOther, Steps
<1>. QED
  BY <1>1, <1>2, HistoryAlways, PTL DEF Spec, ImplementsHistory, History!Spec
-----------------------------------------------------------------------------
(* Edits that meet the document they were made in: position p of a line    *)
(* holds an edit that was made in the document before it.                  *)
Met(made, line, p) == /\ Len(made[line[p]]) = p - 1
                      /\ \A i \in 1..(p - 1) : made[line[p]][i] = line[i]

(* The document without its last k edits.                                  *)
Kept(d, k) == SubSeq(d, 1, Len(d) - k)

LEMMA KeptIs ==
  ASSUME NEW S, NEW d \in Seq(S), NEW k \in 0..Len(d)
  PROVE  /\ Kept(d, k) \in Seq(S) /\ Len(d) \in Nat /\ Len(Kept(d, k)) = Len(d) - k
         /\ \A i \in 1..(Len(d) - k) : Kept(d, k)[i] = d[i]
<1>1. PICK n \in Nat : n = Len(d)
  BY LenProperties
<1>2. PICK j \in Nat : j = n - k /\ j <= n
  <2>1. k \in 0..n
    BY <1>1
  <2>2. n - k \in Nat /\ n - k <= n
    BY <2>1
  <2>. QED
    BY <2>2
<1>3. /\ 1 \in Int /\ j \in Int /\ j - 1 + 1 = j /\ (~(1 <= j) => j = 0)
      /\ \A i \in 1..j : i \in 1..n /\ 1 + i - 1 = i
  BY <1>2
<1>4. \A i \in 1..j : d[i] \in S
  BY <1>1, <1>3, ElementOfSeq
<1>5. /\ SubSeq(d, 1, j) \in Seq(S)
      /\ Len(SubSeq(d, 1, j)) = IF 1 <= j THEN j - 1 + 1 ELSE 0
      /\ \A i \in 1..(j - 1 + 1) : SubSeq(d, 1, j)[i] = d[1 + i - 1]
  BY <1>3, <1>4, SubSeqProperties
<1>6. Kept(d, k) = SubSeq(d, 1, j)
  BY <1>1, <1>2 DEF Kept
<1>. QED
  BY <1>1, <1>2, <1>3, <1>5, <1>6

LEMMA KeptEqual ==
  ASSUME NEW S, NEW d \in Seq(S), NEW c \in Seq(S), NEW k \in 0..Len(d), NEW j \in 0..Len(c),
         Len(d) - k = Len(c) - j, \A i \in 1..(Len(d) - k) : d[i] = c[i]
  PROVE  Kept(d, k) = Kept(c, j)
<1>1. /\ Kept(d, k) \in Seq(S) /\ Len(Kept(d, k)) = Len(d) - k
      /\ \A i \in 1..(Len(d) - k) : Kept(d, k)[i] = d[i]
  BY KeptIs
<1>2. /\ Kept(c, j) \in Seq(S) /\ Len(Kept(c, j)) = Len(c) - j
      /\ \A i \in 1..(Len(c) - j) : Kept(c, j)[i] = c[i]
  BY KeptIs
<1>3. PICK n : n = Len(d) - k
  OBVIOUS
<1>4. \A i \in 1..n : Kept(d, k)[i] = Kept(c, j)[i]
  BY <1>1, <1>2, <1>3
<1>. QED
  BY <1>1, <1>2, <1>3, <1>4, SeqEqual

LEMMA KeptPushed ==
  ASSUME NEW S, NEW d \in Seq(S), NEW e \in S, NEW k \in 0..Len(d)
  PROVE  Kept(Append(d, e), k + 1) = Kept(d, k) /\ k + 1 \in 0..Len(Append(d, e))
<1>. DEFINE c == Append(d, e)
<1>1. /\ c \in Seq(S) /\ Len(c) = Len(d) + 1 /\ \A i \in 1..Len(d) : c[i] = d[i]
  BY AppendProperties
<1>2. PICK n \in Nat : n = Len(d)
  BY LenProperties
<1>. HIDE DEF c
<1>3. k + 1 \in 0..Len(c) /\ Len(c) - (k + 1) = n - k /\ \A i \in 1..(n - k) : i \in 1..n
  BY <1>1, <1>2
<1>4. \A i \in 1..(n - k) : c[i] = d[i]
  BY <1>1, <1>2, <1>3
<1>5. Kept(c, k + 1) = Kept(d, k)
  <2>1. /\ c \in Seq(S) /\ k + 1 \in 0..Len(c) /\ Len(c) - (k + 1) = Len(d) - k
        /\ \A i \in 1..(Len(c) - (k + 1)) : c[i] = d[i]
    BY <1>1, <1>2, <1>3, <1>4
  <2>. QED
    BY <2>1, KeptEqual, ZenonT(30)
<1>. QED
  BY <1>3, <1>5 DEF c

LEMMA KeptPopped ==
  ASSUME NEW S, NEW d \in Seq(S), NEW k \in 1..Len(d)
  PROVE  /\ d # << >> /\ Kept(Front(d), k - 1) = Kept(d, k)
         /\ k - 1 \in 0..Len(Front(d)) /\ Len(Front(d)) = Len(d) - 1
<1>1. PICK n \in Nat : n = Len(d)
  BY LenProperties
<1>2. d # << >> /\ n # 0
  <2>1. n # 0
    BY <1>1
  <2>. QED
    BY <1>1, <2>1, EmptySeq
<1>3. Front(d) \in Seq(S) /\ Len(Front(d)) = n - 1 /\ \A i \in 1..(n - 1) : Front(d)[i] = d[i]
  BY <1>1, <1>2, FrontIs
<1>4. /\ k - 1 \in 0..(n - 1) /\ (n - 1) - (k - 1) = n - k /\ k \in 0..n
      /\ \A i \in 1..(n - k) : i \in 1..(n - 1)
  BY <1>1, <1>2
<1>5. Kept(Front(d), k - 1) = Kept(d, k)
  <2>. DEFINE c == Front(d)
            j == k - 1
  <2>1. c \in Seq(S) /\ j \in 0..Len(c) /\ j + 1 = k /\ Last(d) \in S
    BY <1>1, <1>2, <1>3, <1>4, FrontIs
  <2>2. Append(c, Last(d)) = d
    BY <1>2, AppendFront
  <2>. HIDE DEF c, j
  <2>3. Kept(Append(c, Last(d)), j + 1) = Kept(c, j)
    BY <2>1, KeptPushed
  <2>. QED
    BY <2>1, <2>2, <2>3 DEF c, j
<1>. QED
  BY <1>1, <1>2, <1>3, <1>4, <1>5

LEMMA KeptAll ==
  ASSUME NEW S, NEW d \in Seq(S)
  PROVE  Kept(d, 0) = d
<1>1. PICK n \in Nat : n = Len(d)
  BY LenProperties
<1>2. Kept(d, 0) = SubSeq(d, 1, n)
  BY <1>1 DEF Kept
<1>. QED
  BY <1>1, <1>2, SubSeqFull

(* Every edit of the line is in the document or can be redone.             *)
LEMMA OnTheLine ==
  ASSUME NEW S, NEW d \in Seq(S), NEW r \in Seq(S), NEW k \in 0..Len(d),
         NEW p \in 1..(Len(d) - k + Len(r))
  PROVE  /\ Line(Kept(d, k), r)[p] \in ToSet(d) \cup ToSet(r)
         /\ Len(Line(Kept(d, k), r)) = Len(d) - k + Len(r)
<1>1. PICK n \in Nat, m \in Nat : n = Len(d) /\ m = Len(r)
  BY LenProperties
<1>2. PICK j \in Nat : j = n - k /\ j <= n
  <2>1. k \in 0..n
    BY <1>1
  <2>2. n - k \in Nat /\ n - k <= n
    BY <2>1
  <2>. QED
    BY <2>2
<1>. DEFINE c == Kept(d, k)
<1>3. c \in Seq(S) /\ Len(c) = j /\ \A i \in 1..j : c[i] = d[i]
  BY <1>1, <1>2, KeptIs
<1>. HIDE DEF c
<1>4. /\ Len(Line(c, r)) = j + m
      /\ \A i \in 1..(j + m) : Line(c, r)[i] = IF i <= j THEN c[i] ELSE r[j + m + 1 - i]
  <2>1. c \in Seq(S)
    BY <1>3
  <2>2. /\ Len(Line(c, r)) = Len(c) + Len(r)
        /\ \A i \in 1..(Len(c) + Len(r)) :
             Line(c, r)[i] = IF i <= Len(c) THEN c[i] ELSE r[Len(c) + Len(r) + 1 - i]
    BY <2>1, LineIs
  <2>. QED
    BY <1>1, <1>3, <2>2
<1>5. ToSet(d) = {d[i] : i \in 1..n} /\ ToSet(r) = {r[i] : i \in 1..m}
  BY <1>1, ToSetOf
<1>6. p \in 1..(j + m)
  BY <1>1, <1>2
<1>7. CASE p <= j
  <2>1. p \in 1..j /\ p \in 1..n
    BY <1>2, <1>6, <1>7
  <2>. QED
    BY <1>1, <1>2, <1>3, <1>4, <1>5, <1>6, <1>7, <2>1 DEF c
<1>8. CASE ~(p <= j)
  <2>1. j + m + 1 - p \in 1..m
    BY <1>6, <1>8
  <2>. QED
    BY <1>1, <1>2, <1>4, <1>5, <1>6, <1>8, <2>1 DEF c
<1>. QED
  BY <1>7, <1>8

(* The line of a document of d, an undo stack of length u and a redo stack *)
(* of r, k edits being pending: the stacks together are no longer than one *)
(* may be, but for the pending edits and for m edits at the bottom of the  *)
(* redo stack; and above those some edit does not meet its document.       *)
Fits(d, u, r, made, k, m) ==
  /\ k \in 0..Len(d) /\ m \in 0..Len(r)
  /\ \A i \in (Len(d) - k + 1)..Len(d), j \in 1..Len(r) : d[i] > r[j]
  /\ u + Len(r) <= MaxLength + m + k
  /\ m > 0 => \E p \in 1..(Len(d) - k + Len(r) - m + 1) : ~Met(made, Line(Kept(d, k), r), p)

LEMMA FitsPushed ==
  ASSUME NEW S, NEW d \in Seq(S), NEW r \in Seq(S), NEW e \in S, NEW u \in Nat, NEW v \in Nat,
         NEW made, NEW new, NEW k, NEW m, Fits(d, u, r, made, k, m), MaxLength \in Nat,
         v <= u + 1, \A j \in 1..Len(r) : e > r[j],
         \A x \in ToSet(d) \cup ToSet(r) : new[x] = made[x]
  PROVE  Fits(Append(d, e), v, r, new, k + 1, m)
<1>. DEFINE c == Append(d, e)
<1>1. PICK n \in Nat, h \in Nat : n = Len(d) /\ h = Len(r)
  BY LenProperties
<1>2. /\ k \in 0..n /\ m \in 0..h /\ u + h <= MaxLength + m + k
      /\ \A i \in (n - k + 1)..n, j \in 1..h : d[i] > r[j]
      /\ m > 0 => \E p \in 1..(n - k + h - m + 1) : ~Met(made, Line(Kept(d, k), r), p)
  BY <1>1 DEF Fits
<1>3. c \in Seq(S) /\ Len(c) = n + 1 /\ c[n + 1] = e /\ \A i \in 1..n : c[i] = d[i]
  BY <1>1, AppendProperties
<1>4. Kept(c, k + 1) = Kept(d, k)
  BY <1>1, <1>2, KeptPushed
<1>. HIDE DEF c
<1>5. ASSUME NEW i \in ((n + 1) - (k + 1) + 1)..(n + 1), NEW j \in 1..h
      PROVE  c[i] > r[j]
  <2>1. i = n + 1 \/ (i \in (n - k + 1)..n /\ i \in 1..n)
    <3>1. k \in 0..n /\ n \in Nat
      BY <1>1, <1>2
    <3>. QED
      BY <3>1
  <2>. QED
    BY <1>1, <1>2, <1>3, <2>1
<1>6. ASSUME m > 0
      PROVE  \E p \in 1..((n + 1) - (k + 1) + h - m + 1) : ~Met(new, Line(Kept(c, k + 1), r), p)
  <2>1. PICK p \in 1..(n - k + h - m + 1) : ~Met(made, Line(Kept(d, k), r), p)
    BY <1>2, <1>6
  <2>2. p \in 1..(n - k + h) /\ p \in 1..((n + 1) - (k + 1) + h - m + 1)
    BY <1>2, <1>6
  <2>3. Line(Kept(d, k), r)[p] \in ToSet(d) \cup ToSet(r)
    BY <1>1, <1>2, <2>2, OnTheLine
  <2>4. ~Met(new, Line(Kept(c, k + 1), r), p)
    BY <1>4, <2>1, <2>3 DEF Met
  <2>. QED
    BY <2>2, <2>4
<1>7. k + 1 \in 0..(n + 1) /\ v + h <= MaxLength + m + (k + 1)
  <2>1. k \in 0..n /\ m \in 0..h /\ u + h <= MaxLength + m + k
    BY <1>2
  <2>. QED
    BY <2>1
<1>. QED
  BY <1>1, <1>2, <1>3, <1>5, <1>6, <1>7 DEF Fits, c

LEMMA FitsWithdrawn ==
  ASSUME NEW S, NEW d \in Seq(S), NEW r \in Seq(S), NEW u \in Nat,
         NEW made, NEW k, NEW m, Fits(d, u, r, made, k, m), MaxLength \in Nat, k # 0
  PROVE  Fits(Front(d), u - 1, r, made, k - 1, m)
<1>. DEFINE c == Front(d)
<1>1. PICK n \in Nat, h \in Nat : n = Len(d) /\ h = Len(r)
  BY LenProperties
<1>2. /\ k \in 1..n /\ m \in 0..h /\ u + h <= MaxLength + m + k
      /\ \A i \in (n - k + 1)..n, j \in 1..h : d[i] > r[j]
      /\ m > 0 => \E p \in 1..(n - k + h - m + 1) : ~Met(made, Line(Kept(d, k), r), p)
  BY <1>1 DEF Fits
<1>3. /\ d # << >> /\ Kept(c, k - 1) = Kept(d, k) /\ Len(c) = n - 1
  BY <1>1, <1>2, KeptPopped
<1>4. \A i \in 1..(n - 1) : c[i] = d[i]
  BY <1>1, <1>3, FrontIs
<1>. HIDE DEF c
<1>5. ASSUME NEW i \in ((n - 1) - (k - 1) + 1)..(n - 1), NEW j \in 1..h
      PROVE  c[i] > r[j]
  <2>1. i \in (n - k + 1)..n /\ i \in 1..(n - 1)
    BY <1>2
  <2>. QED
    BY <1>2, <1>4, <2>1
<1>6. /\ k - 1 \in 0..(n - 1) /\ (u - 1) + h <= MaxLength + m + (k - 1)
      /\ (n - 1) - (k - 1) + h - m + 1 = n - k + h - m + 1
  BY <1>2
<1>. QED
  BY <1>1, <1>2, <1>3, <1>5, <1>6 DEF Fits, c
LEMMA FitsUndone ==
  ASSUME NEW S, NEW d \in Seq(S), NEW r \in Seq(S), d # << >>, NEW u \in Nat \ {0},
         NEW made, NEW m, Fits(d, u, r, made, 0, m), MaxLength \in Nat \ {0}
  PROVE  \E q : Fits(Front(d), u - 1, Append(Room(r), Last(d)), made, 0, q)
<1>. DEFINE c == Front(d)
            t == Room(r)
            s == Append(t, Last(d))
<1>1. PICK n \in Nat, h \in Nat : n = Len(d) /\ h = Len(r) /\ n # 0
  BY LenProperties, EmptySeq
<1>2. /\ m \in 0..h /\ u + h <= MaxLength + m
      /\ m > 0 => \E p \in 1..(n + h - m + 1) : ~Met(made, Line(d, r), p)
  <2>1. /\ m \in 0..h /\ u + h <= MaxLength + m + 0
        /\ m > 0 => \E p \in 1..(n - 0 + h - m + 1) : ~Met(made, Line(Kept(d, 0), r), p)
    BY <1>1 DEF Fits
  <2>. QED
    BY <1>1, <2>1, KeptAll
<1>3. PICK g \in Nat :
        /\ g = Len(t) /\ g = (IF Full(r) THEN h - 1 ELSE h) /\ t \in Seq(S)
        /\ \A i \in 1..g : t[i] = r[i + h - g]
  BY <1>1, RoomIs
<1>4. c \in Seq(S) /\ Len(c) = n - 1 /\ Last(d) \in S
  BY <1>1, FrontIs
<1>. HIDE DEF c, t
<1>5. s \in Seq(S) /\ Len(s) = g + 1
  <2>1. t \in Seq(S) /\ Last(d) \in S
    BY <1>3, <1>4
  <2>2. Append(t, Last(d)) \in Seq(S) /\ Len(Append(t, Last(d))) = Len(t) + 1
    BY <2>1, AppendProperties
  <2>. QED
    BY <1>3, <2>2
<1>6. Line(c, s) = Line(d, t)
  BY <1>3, LineMoved DEF c
<1>. HIDE DEF s
<1>7. \A i \in 1..(n + g) : Line(c, s)[i] = Line(d, r)[i]
  <2>1. \A i \in 1..(n + h) : Line(d, r)[i] = IF i <= n THEN d[i] ELSE r[n + h + 1 - i]
    BY <1>1, LineIs
  <2>2. \A i \in 1..(n + g) : Line(d, t)[i] = IF i <= n THEN d[i] ELSE t[n + g + 1 - i]
    <3>1. t \in Seq(S)
      BY <1>3
    <3>2. \A i \in 1..(Len(d) + Len(t)) :
            Line(d, t)[i] = IF i <= Len(d) THEN d[i] ELSE t[Len(d) + Len(t) + 1 - i]
      BY <3>1, LineIs
    <3>. QED
      BY <1>1, <1>3, <3>2
  <2>3. SUFFICES ASSUME NEW i \in 1..(n + g) PROVE Line(d, t)[i] = Line(d, r)[i]
    BY <1>6
  <2>4. i \in 1..(n + h)
    BY <1>1, <1>3
  <2>5. CASE i <= n
    BY <2>1, <2>2, <2>4, <2>5
  <2>6. CASE ~(i <= n)
    <3>1. n + g + 1 - i \in 1..g /\ (n + g + 1 - i) + h - g = n + h + 1 - i
      BY <1>1, <1>3, <2>6
    <3>2. t[n + g + 1 - i] = r[n + h + 1 - i]
      BY <1>3, <3>1
    <3>. QED
      BY <2>1, <2>2, <2>4, <2>6, <3>2
  <2>. QED
    BY <2>5, <2>6
<1>8. Full(r) => h = MaxLength
  BY <1>1 DEF Full
<1>9. PICK q : q = m - (h - g)
  OBVIOUS
<1>10. /\ q \in 0..(g + 1) /\ (u - 1) + (g + 1) <= MaxLength + q + 0
       /\ q > 0 => m > 0
       /\ (n - 1) - 0 + (g + 1) - q + 1 = n + h - m + 1
       /\ q > 0 => n + h - m + 1 <= n + g
  <2>1. /\ m \in 0..h /\ u + h <= MaxLength + m /\ n \in Nat /\ h \in Nat /\ g \in Nat
        /\ u \in Nat \ {0} /\ MaxLength \in Nat \ {0}
    BY <1>1, <1>2, <1>3
  <2>2. CASE Full(r)
    <3>1. g = h - 1 /\ h = MaxLength
      BY <1>3, <1>8, <2>2
    <3>2. q = m - 1
      BY <1>9, <2>1, <3>1
    <3>. QED
      BY <2>1, <3>1, <3>2
  <2>3. CASE ~Full(r)
    <3>1. g = h
      BY <1>3, <2>3
    <3>2. q = m
      BY <1>9, <2>1, <3>1
    <3>. QED
      BY <2>1, <3>1, <3>2
  <2>. QED
    BY <2>2, <2>3
<1>11. ASSUME q > 0
       PROVE  \E p \in 1..((n - 1) - 0 + (g + 1) - q + 1) : ~Met(made, Line(Kept(c, 0), s), p)
  <2>1. PICK p \in 1..(n + h - m + 1) : ~Met(made, Line(d, r), p)
    BY <1>2, <1>10, <1>11
  <2>2. p \in 1..(n + g) /\ \A i \in 1..(p - 1) : i \in 1..(n + g)
    <3>1. /\ n \in Nat /\ g \in Nat /\ h \in Nat /\ m \in 0..h
          /\ n + h - m + 1 <= n + g
      BY <1>1, <1>2, <1>3, <1>10, <1>11
    <3>2. p \in Nat /\ 1 <= p /\ p <= n + h - m + 1
      BY <2>1, <3>1
    <3>. QED
      BY <3>1, <3>2
  <2>3. ~Met(made, Line(c, s), p)
    BY <1>7, <2>1, <2>2 DEF Met
  <2>. QED
    BY <1>4, <1>10, <2>1, <2>3, KeptAll
<1>12. \A i \in ((n - 1) - 0 + 1)..(n - 1) : FALSE
  BY <1>1
<1>13. Fits(c, u - 1, s, made, 0, q)
  BY <1>1, <1>4, <1>5, <1>10, <1>11, <1>12 DEF Fits
<1>. QED
  BY <1>13 DEF c, s, t

LEMMA FitsRedone ==
  ASSUME NEW S, NEW d \in Seq(S), NEW r \in Seq(S), r # << >>, NEW u \in Nat, NEW v \in Nat,
         NEW made, NEW m, Fits(d, u, r, made, 0, m), MaxLength \in Nat,
         v <= u + 1, v <= MaxLength
  PROVE  \E q : Fits(Append(d, Last(r)), v, Front(r), made, 0, q)
<1>. DEFINE c == Append(d, Last(r))
            s == Front(r)
<1>1. PICK n \in Nat, h \in Nat : n = Len(d) /\ h = Len(r) /\ h # 0
  BY LenProperties, EmptySeq
<1>2. /\ m \in 0..h /\ u + h <= MaxLength + m
      /\ m > 0 => \E p \in 1..(n + h - m + 1) : ~Met(made, Line(d, r), p)
  <2>1. /\ m \in 0..h /\ u + h <= MaxLength + m + 0
        /\ m > 0 => \E p \in 1..(n - 0 + h - m + 1) : ~Met(made, Line(Kept(d, 0), r), p)
    BY <1>1 DEF Fits
  <2>. QED
    BY <1>1, <2>1, KeptAll
<1>3. s \in Seq(S) /\ Len(s) = h - 1 /\ Last(r) \in S
  BY <1>1, FrontIs
<1>4. c \in Seq(S) /\ Len(c) = n + 1
  BY <1>1, <1>3, AppendProperties
<1>5. Line(c, s) = Line(d, r)
  BY LineMovedBack
<1>. HIDE DEF c, s
<1>6. PICK q : q = IF m = h THEN h - 1 ELSE m
  OBVIOUS
<1>7. /\ q \in 0..(h - 1) /\ v + (h - 1) <= MaxLength + q + 0
      /\ q > 0 => m > 0
      /\ n + h - m + 1 <= (n + 1) - 0 + (h - 1) - q + 1
  <2>1. /\ m \in 0..h /\ u + h <= MaxLength + m /\ n \in Nat /\ h \in Nat /\ h # 0
        /\ u \in Nat /\ v \in Nat /\ MaxLength \in Nat /\ v <= u + 1 /\ v <= MaxLength
    BY <1>1, <1>2
  <2>2. CASE m = h
    <3>1. q = h - 1
      BY <1>6, <2>2
    <3>. QED
      BY <2>1, <2>2, <3>1
  <2>3. CASE m # h
    <3>1. q = m
      BY <1>6, <2>3
    <3>. QED
      BY <2>1, <2>3, <3>1
  <2>. QED
    BY <2>2, <2>3
<1>8. ASSUME q > 0
      PROVE  \E p \in 1..((n + 1) - 0 + (h - 1) - q + 1) : ~Met(made, Line(Kept(c, 0), s), p)
  <2>1. PICK p \in 1..(n + h - m + 1) : ~Met(made, Line(d, r), p)
    BY <1>2, <1>7, <1>8
  <2>2. p \in 1..((n + 1) - 0 + (h - 1) - q + 1)
    BY <1>1, <1>2, <1>7, <2>1
  <2>. QED
    BY <1>4, <1>5, <2>1, <2>2, KeptAll
<1>9. \A i \in ((n + 1) - 0 + 1)..(n + 1) : FALSE
  BY <1>1
<1>10. Fits(c, v, s, made, 0, q)
  BY <1>1, <1>3, <1>4, <1>7, <1>8, <1>9 DEF Fits
<1>. QED
  BY <1>10 DEF c, s

(* The edits that could be redone before a drag do not meet what a drag    *)
(* has left in the document.                                               *)
LEMMA FitsUnlocked ==
  ASSUME NEW S, S \subseteq Nat, NEW d \in Seq(S), NEW r \in Seq(S), NEW u \in Nat, u <= MaxLength,
         NEW made, NEW k, NEW m, Fits(d, u, r, made, k, m), MaxLength \in Nat,
         \A x \in ToSet(r) : \A l \in 1..Len(made[x]) : made[x][l] \in 1..(x - 1)
  PROVE  \E q : Fits(d, u, r, made, 0, q)
<1>1. PICK n \in Nat, h \in Nat : n = Len(d) /\ h = Len(r)
  BY LenProperties
<1>2. k \in 0..n /\ \A i \in (n - k + 1)..n, j \in 1..h : d[i] > r[j]
  BY <1>1 DEF Fits
<1>3. CASE k = 0
  BY <1>3
<1>4. CASE k # 0
  <2>1. n \in (n - k + 1)..n /\ n # 0
    BY <1>1, <1>2, <1>4
  <2>2. ASSUME h > 0
        PROVE  \E p \in 1..(n - 0 + h - h + 1) : ~Met(made, Line(Kept(d, 0), r), p)
    <3>1. /\ n + 1 \in 1..(n - 0 + h - h + 1) /\ n + 1 \in 1..(n + h) /\ ~(n + 1 <= n)
          /\ n + h + 1 - (n + 1) = h /\ h \in 1..h /\ n \in 1..(n + h) /\ (n + 1) - 1 = n
          /\ n \in 1..n /\ n <= n
      BY <1>1, <2>1, <2>2
    <3>2. /\ \A i \in 1..(n + h) : Line(d, r)[i] = IF i <= n THEN d[i] ELSE r[n + h + 1 - i]
      BY <1>1, LineIs
    <3>3. Line(d, r)[n + 1] = r[h] /\ Line(d, r)[n] = d[n]
      BY <3>1, <3>2
    <3>4. r[h] \in ToSet(r) /\ r[h] \in Nat
      <4>1. ToSet(r) = {r[i] : i \in 1..h} /\ ToSet(r) \subseteq S
        BY <1>1, ToSetOf
      <4>2. r[h] \in ToSet(r)
        BY <3>1, <4>1
      <4>. QED
        BY <4>1, <4>2
    <3>5. d[n] > r[h]
      BY <1>2, <2>1, <3>1
    <3>6. ~Met(made, Line(d, r), n + 1)
      <4>1. SUFFICES ASSUME Met(made, Line(d, r), n + 1) PROVE FALSE
        OBVIOUS
      <4>2. Len(made[r[h]]) = n /\ made[r[h]][n] = d[n]
        BY <3>1, <3>3, <4>1 DEF Met
      <4>3. d[n] \in 1..(r[h] - 1)
        BY <3>1, <3>4, <4>2
      <4>. QED
        BY <3>4, <3>5, <4>3
    <3>. QED
      BY <3>1, <3>6, KeptAll
  <2>3. \A i \in (n - 0 + 1)..n : FALSE
    BY <1>1
  <2>4. 0 \in 0..n /\ h \in 0..h /\ u + h <= MaxLength + h + 0
    BY <1>1
  <2>5. Fits(d, u, r, made, 0, h)
    BY <1>1, <2>2, <2>3, <2>4 DEF Fits
  <2>. QED
    BY <2>5
<1>. QED
  BY <1>3, <1>4
-----------------------------------------------------------------------------
(* With stacks of a bounded length.                                        *)
LimInv ==
  MaxLength # -1 =>
    \E k, m : /\ Fits(doc, Len(UE), RE, made_at, k, m)
              /\ IF redo_stack_locked THEN Pending <= k ELSE k = 0

LEMMA FitsEmpty ==
  ASSUME NEW S, NEW d \in Seq(S), NEW u \in Nat, u <= MaxLength, NEW made, MaxLength \in Nat
  PROVE  Fits(d, u, << >>, made, 0, 0)
<1>1. PICK n \in Nat : n = Len(d)
  BY LenProperties
<1>2. Len(<< >>) = 0
  BY EmptySeq
<1>3. /\ 0 \in 0..n /\ 0 \in 0..0 /\ u + 0 <= MaxLength + 0 + 0 /\ ~(0 > 0)
      /\ \A j \in 1..0 : FALSE
  OBVIOUS
<1>. QED
  BY <1>1, <1>2, <1>3 DEF Fits

LEMMA Limited == MaxLength # -1 => MaxLength \in Nat \ {0}
BY MaxLengthAssumption

LEMMA LengthsNext ==
  ASSUME StacksInv', ActionsInv'
  PROVE  /\ UE' \in Seq(Edits) /\ Len(UE') \in Nat /\ RE' \in Seq(Edits)
         /\ MaxLength # -1 => Len(UE') <= MaxLength
<1>1. /\ Actions(action', U') /\ Actions(action', R')
      /\ UE' = Of(action', U') /\ RE' = Of(action', R')
  BY StacksOfActionsNext
<1>2. /\ UE' \in Seq(Edits) /\ Len(UE') = Len(U') /\ Len(U') \in Nat /\ RE' \in Seq(Edits)
  BY <1>1, EditsAre
<1>. QED
  BY <1>2 DEF StacksInv, Stacked

LEMMA UnlockedNext ==
  ASSUME HistoryInv', MaxLength # -1, NEW k, NEW m, Fits(doc', Len(UE'), RE', made_at', k, m)
  PROVE  \E q : Fits(doc', Len(UE'), RE', made_at', 0, q)
<1>1. /\ UE' \in Seq(Edits) /\ Len(UE') \in Nat /\ RE' \in Seq(Edits) /\ Len(UE') <= MaxLength
      /\ MaxLength \in Nat /\ doc' \in Seq(Edits)
  BY LengthsNext, Limited DEF HistoryInv, TypeInv, CountsInv
<1>2. Edits \subseteq Nat
  BY Bounds DEF Edits
<1>3. \A x \in ToSet(RE') : \A l \in 1..Len(made_at'[x]) : made_at'[x][l] \in 1..(x - 1)
  BY DEF HistoryInv, DocInv, MadeInv
<1>. QED
  BY <1>1, <1>2, <1>3, FitsUnlocked

LEMMA PerformFits ==
  ASSUME HistoryInv, HistoryInv', LimInv, NEW a \in Addrs, NEW c \in Kinds, PerformAction(a, c)
  PROVE  LimInv'
<1>. SUFFICES ASSUME MaxLength # -1
              PROVE  \E k, m : /\ Fits(doc', Len(UE'), RE', made_at', k, m)
                               /\ IF redo_stack_locked' THEN Pending' <= k ELSE k = 0
  BY DEF LimInv
<1>. DEFINE e == Len(group) + 1
<1>0. TypeInv /\ DocInv /\ BeforeInv /\ MadeInv /\ MaxLength \in Nat
  BY Limited DEF HistoryInv
<1>1. /\ UE' = Append(Room(UE), e) /\ RE' = (IF redo_stack_locked THEN RE ELSE << >>)
      /\ doc' = Append(doc, e) /\ e \in Edits
  BY <1>0, PerformEdits
<1>2. UE \in Seq(Edits) /\ RE \in Seq(Edits) /\ doc \in Seq(Edits) /\ Len(UE) \in Nat
  BY <1>0, StacksOfActions, LenProperties
<1>3. /\ redo_stack_locked' \in BOOLEAN
      /\ ~redo_stack_locked => redo_stack_locked' = FALSE
      /\ redo_stack_locked /\ redo_stack_locked' => Pending' = Pending + 1
  BY <1>0, PerformPending
<1>4. PICK n \in Nat : n = Len(group)
  BY <1>0, LenProperties DEF TypeInv, CountsInv
<1>5. ToSet(doc) \cup ToSet(RE) \subseteq 1..n /\ e = n + 1
  BY <1>0, <1>4 DEF DocInv
<1>. HIDE DEF e
<1>6. /\ Len(UE') \in Nat /\ Len(UE') <= MaxLength /\ doc' \in Seq(Edits)
  BY LengthsNext DEF HistoryInv, TypeInv, CountsInv
<1>7. Len(UE') <= Len(UE) + 1
  <2>1. /\ Room(UE) \in Seq(Edits) /\ Len(Room(UE)) \in Nat
        /\ Len(Room(UE)) = (IF Full(UE) THEN Len(UE) - 1 ELSE Len(UE))
    BY <1>2, RoomIs
  <2>2. Len(Append(Room(UE), e)) = Len(Room(UE)) + 1
    BY <1>1, <2>1, AppendProperties
  <2>. QED
    BY <1>1, <1>2, <2>1, <2>2
<1>8. CASE ~redo_stack_locked
  <2>1. RE' = << >> /\ redo_stack_locked' = FALSE
    BY <1>1, <1>3, <1>8
  <2>2. Fits(doc', Len(UE'), RE', made_at', 0, 0)
    BY <1>0, <1>6, <2>1, FitsEmpty
  <2>. QED
    BY <2>1, <2>2
<1>9. CASE redo_stack_locked
  <2>1. PICK k, m : Fits(doc, Len(UE), RE, made_at, k, m) /\ Pending <= k
    BY <1>9 DEF LimInv
  <2>2. \A j \in 1..Len(RE) : e > RE[j]
    <3>1. ToSet(RE) = {RE[j] : j \in 1..Len(RE)}
      BY <1>2, ToSetOf
    <3>2. SUFFICES ASSUME NEW j \in 1..Len(RE) PROVE e > RE[j]
      OBVIOUS
    <3>3. RE[j] \in 1..n
      BY <1>5, <3>1, <3>2
    <3>. QED
      BY <1>4, <1>5, <3>3
  <2>3. \A x \in ToSet(doc) \cup ToSet(RE) : made_at'[x] = made_at[x]
    BY <1>0, <1>4, <1>5, PerformMade
  <2>4. RE' = RE
    BY <1>1, <1>9
  <2>5. Fits(Append(doc, e), Len(UE'), RE, made_at', k + 1, m)
    BY <1>0, <1>1, <1>2, <1>6, <1>7, <2>1, <2>2, <2>3, FitsPushed
  <2>6. Fits(doc', Len(UE'), RE', made_at', k + 1, m)
    BY <1>1, <2>4, <2>5
  <2>7. CASE redo_stack_locked'
    <3>1. k \in 0..Len(doc) /\ Len(doc) \in Nat
      BY <1>2, <2>1, LenProperties DEF Fits
    <3>2. Pending \in Nat
      BY <1>0, PendingType
    <3>3. Pending' <= k + 1
      BY <1>3, <1>9, <2>1, <2>7, <3>1, <3>2
    <3>. QED
      BY <2>6, <2>7, <3>3
  <2>8. CASE ~redo_stack_locked'
    <3>1. PICK q : Fits(doc', Len(UE'), RE', made_at', 0, q)
      BY <2>6, UnlockedNext
    <3>. QED
      BY <2>8, <3>1
  <2>. QED
    BY <2>7, <2>8
<1>. QED
  BY <1>8, <1>9

LEMMA MoveFits ==
  ASSUME HistoryInv, HistoryInv', LimInv, UndoOrRedoOne
  PROVE  LimInv'
<1>. SUFFICES ASSUME MaxLength # -1
              PROVE  \E k, m : /\ Fits(doc', Len(UE'), RE', made_at', k, m)
                               /\ IF redo_stack_locked' THEN Pending' <= k ELSE k = 0
  BY DEF LimInv
<1>0. TypeInv /\ DocInv /\ BeforeInv /\ MadeInv /\ MaxLength \in Nat /\ MaxLength \in Nat \ {0}
  BY Limited DEF HistoryInv
<1>1. PICK k, m : /\ Fits(doc, Len(UE), RE, made_at, k, m)
                  /\ IF redo_stack_locked THEN Pending <= k ELSE k = 0
  BY DEF LimInv
<1>2. UE \in Seq(Edits) /\ RE \in Seq(Edits) /\ doc \in Seq(Edits) /\ Len(UE) \in Nat
  BY <1>0, StacksOfActions, LenProperties
<1>3. Len(UE') \in Nat /\ Len(UE') <= MaxLength
  BY LengthsNext DEF HistoryInv, TypeInv
<1>4. /\ redo_stack_locked' = redo_stack_locked /\ made_at' = made_at
      /\ redo_stack_locked => call.name = "undo" /\ Pending \in Nat \ {0} /\ Pending' = Pending - 1
  BY <1>0, MovePending, MoveEdits
<1>5. CASE call.name = "undo"
  <2>1. /\ UE # << >> /\ UE' = Front(UE) /\ doc # << >> /\ doc' = Front(doc)
        /\ Last(UE) = Last(doc)
        /\ RE' = (IF redo_stack_locked THEN RE ELSE Append(Room(RE), Last(UE)))
    BY <1>0, <1>5, MoveEdits, MoveKeepsDoc
  <2>2. Len(UE') = Len(UE) - 1 /\ Len(UE) \in Nat \ {0}
    BY <1>2, <2>1, FrontIs
  <2>3. CASE redo_stack_locked
    <3>1. k \in 0..Len(doc) /\ Len(doc) \in Nat /\ Pending <= k
      BY <1>1, <1>2, <2>3, LenProperties DEF Fits
    <3>2. k # 0 /\ Pending' <= k - 1
      BY <1>4, <2>3, <3>1
    <3>3. Fits(Front(doc), Len(UE) - 1, RE, made_at, k - 1, m)
      BY <1>0, <1>1, <1>2, <3>2, FitsWithdrawn
    <3>4. Fits(doc', Len(UE'), RE', made_at', k - 1, m)
      BY <1>4, <2>1, <2>2, <2>3, <3>3
    <3>. QED
      BY <1>4, <2>3, <3>2, <3>4
  <2>4. CASE ~redo_stack_locked
    <3>1. k = 0
      BY <1>1, <2>4
    <3>2. PICK q : Fits(Front(doc), Len(UE) - 1, Append(Room(RE), Last(doc)), made_at, 0, q)
      BY <1>0, <1>1, <1>2, <2>1, <2>2, <3>1, FitsUndone
    <3>3. Fits(doc', Len(UE'), RE', made_at', 0, q)
      BY <1>4, <2>1, <2>2, <2>4, <3>2
    <3>. QED
      BY <1>4, <2>4, <3>3
  <2>. QED
    BY <2>3, <2>4
<1>6. CASE call.name # "undo"
  <2>1. /\ RE # << >> /\ RE' = Front(RE) /\ UE' = Append(Room(UE), Last(RE))
        /\ doc' = Append(doc, Last(RE))
    BY <1>0, <1>6, MoveEdits
  <2>2. ~redo_stack_locked /\ k = 0
    BY <1>1, <1>4, <1>6
  <2>3. Len(UE') <= Len(UE) + 1
    <3>1. /\ Room(UE) \in Seq(Edits) /\ Len(Room(UE)) \in Nat
          /\ Len(Room(UE)) = (IF Full(UE) THEN Len(UE) - 1 ELSE Len(UE))
      BY <1>2, RoomIs
    <3>2. Last(RE) \in Edits
      BY <1>2, <2>1, FrontIs
    <3>3. Len(Append(Room(UE), Last(RE))) = Len(Room(UE)) + 1
      BY <3>1, <3>2, AppendProperties
    <3>. QED
      BY <1>2, <2>1, <3>1, <3>3
  <2>4. PICK q : Fits(Append(doc, Last(RE)), Len(UE'), Front(RE), made_at, 0, q)
    BY <1>0, <1>1, <1>2, <1>3, <2>1, <2>2, <2>3, FitsRedone
  <2>5. Fits(doc', Len(UE'), RE', made_at', 0, q)
    BY <1>4, <2>1, <2>4
  <2>. QED
    BY <1>4, <2>2, <2>5
<1>. QED
  BY <1>5, <1>6

LEMMA OtherFits ==
  ASSUME HistoryInv, HistoryInv', LimInv, OtherStep
  PROVE  LimInv'
<1>. SUFFICES ASSUME MaxLength # -1
              PROVE  \E k, m : /\ Fits(doc', Len(UE'), RE', made_at', k, m)
                               /\ IF redo_stack_locked' THEN Pending' <= k ELSE k = 0
  BY DEF LimInv
<1>0. TypeInv /\ BeforeInv
  BY DEF HistoryInv
<1>1. PICK k, m : /\ Fits(doc, Len(UE), RE, made_at, k, m)
                  /\ IF redo_stack_locked THEN Pending <= k ELSE k = 0
  BY DEF LimInv
<1>2. UE' = UE /\ RE' = RE /\ doc' = doc /\ made_at' = made_at
  BY <1>0, OtherTypes, RenumberEdits
<1>3. Fits(doc', Len(UE'), RE', made_at', k, m)
  BY <1>1, <1>2
<1>4. LockStep
  BY <1>0, OtherPending
<1>5. CASE ~redo_stack_locked'
  <2>1. PICK q : Fits(doc', Len(UE'), RE', made_at', 0, q)
    BY <1>3, UnlockedNext
  <2>. QED
    BY <1>5, <2>1
<1>6. CASE redo_stack_locked'
  <2>1. k \in Nat
    <3>1. k \in 0..Len(doc) /\ Len(doc) \in Nat
      BY <1>0, <1>1, StacksOfActions, LenProperties DEF Fits
    <3>. QED
      BY <3>1
  <2>2. Pending' = 0 \/ (redo_stack_locked /\ Pending' = Pending)
    BY <1>4, <1>6 DEF LockStep
  <2>3. Pending' <= k
    BY <1>1, <2>1, <2>2
  <2>. QED
    BY <1>3, <1>6, <2>3
<1>. QED
  BY <1>5, <1>6

LEMMA LimitsAlways == Spec => [](HistoryInv /\ LimInv)
<1>1. Init => HistoryInv /\ LimInv
  <2>. SUFFICES ASSUME Init PROVE LimInv
    BY InitHistory
  <2>1. TypeInv /\ doc = << >> /\ redo_stack_locked = FALSE /\ U = << >> /\ R = << >>
    BY InitTypes DEF Init, EmptyStack, U, R
  <2>2. << >> \in Seq(Edits) /\ Len(<< >>) = 0
    BY EmptySeq
  <2>3. Len(UE) = 0 /\ RE = << >>
    BY <2>1, <2>2, StacksOfActions, EmptySeq
  <2>4. MaxLength # -1 => Fits(doc, Len(UE), RE, made_at, 0, 0)
    <3>1. MaxLength # -1 => MaxLength \in Nat /\ 0 \in Nat /\ 0 <= MaxLength
      BY Limited
    <3>. QED
      BY <2>1, <2>2, <2>3, <3>1, FitsEmpty
  <2>. QED
    BY <2>1, <2>4 DEF LimInv
<1>2. HistoryInv /\ LimInv /\ [Next]_vars => (HistoryInv /\ LimInv)'
  <2>. SUFFICES ASSUME HistoryInv, LimInv, [Next]_vars PROVE HistoryInv' /\ LimInv'
    OBVIOUS
  <2>1. HistoryInv'
    BY HistoryStep
  <2>2. CASE UNCHANGED vars
    <3>1. UE' = UE /\ RE' = RE /\ UNCHANGED <<doc, made_at, redo_stack_locked>>
      BY <2>2, Unmoved DEF vars
    <3>2. Pending' = Pending
      BY <2>2 DEF vars, Pending, U
    <3>3. SUFFICES ASSUME MaxLength # -1
                   PROVE  \E k, m : /\ Fits(doc', Len(UE'), RE', made_at', k, m)
                                    /\ IF redo_stack_locked' THEN Pending' <= k ELSE k = 0
      BY <2>1 DEF LimInv
    <3>4. PICK k, m : /\ Fits(doc, Len(UE), RE, made_at, k, m)
                      /\ IF redo_stack_locked THEN Pending <= k ELSE k = 0
      BY <3>3 DEF LimInv
    <3>5. Fits(doc', Len(UE'), RE', made_at', k, m)
      BY <3>1, <3>4
    <3>. QED
      BY <3>1, <3>2, <3>4, <3>5
  <2>. QED
    BY <2>1, <2>2, PerformFits, MoveFits, OtherFits, Steps
<1>. QED
  BY <1>1, <1>2, PTL DEF Spec
-----------------------------------------------------------------------------
(* An edit meets its document exactly when it was made in what precedes it *)
(* on the line.                                                            *)
LEMMA MetIs ==
  ASSUME NEW S, NEW l \in Seq(S), NEW p \in 1..Len(l), NEW made, made[l[p]] \in Seq(S)
  PROVE  Met(made, l, p) <=> made[l[p]] = SubSeq(l, 1, p - 1)
<1>. DEFINE q == SubSeq(l, 1, p - 1)
<1>1. PICK n \in Nat : n = Len(l)
  BY LenProperties
<1>2. PICK j \in Nat : j = p - 1 /\ j <= n /\ n - j \in 0..n /\ n - (n - j) = j
  <2>1. p \in 1..n
    BY <1>1
  <2>2. p - 1 \in Nat /\ p - 1 <= n /\ n - (p - 1) \in 0..n /\ n - (n - (p - 1)) = p - 1
    BY <2>1
  <2>. QED
    BY <2>2
<1>3. q \in Seq(S) /\ Len(q) = j /\ \A i \in 1..j : q[i] = l[i]
  <2>1. n - j \in 0..Len(l)
    BY <1>1, <1>2
  <2>2. Kept(l, n - j) = q
    BY <1>1, <1>2 DEF Kept
  <2>3. /\ Kept(l, n - j) \in Seq(S) /\ Len(Kept(l, n - j)) = Len(l) - (n - j)
        /\ \A i \in 1..(Len(l) - (n - j)) : Kept(l, n - j)[i] = l[i]
    BY <2>1, KeptIs
  <2>. QED
    BY <1>1, <1>2, <2>2, <2>3
<1>. HIDE DEF q
<1>4. CASE made[l[p]] = q
  BY <1>2, <1>3, <1>4 DEF Met, q
<1>5. CASE Met(made, l, p)
  <2>1. Len(made[l[p]]) = j /\ \A i \in 1..j : made[l[p]][i] = l[i]
    BY <1>2, <1>5 DEF Met
  <2>2. made[l[p]] = q
    BY <1>3, <2>1, SeqEqual
  <2>. QED
    BY <1>5, <2>2 DEF q
<1>. QED
  BY <1>4, <1>5 DEF q

LEMMA MetOnTheLine ==
  ASSUME HistoryInv
  PROVE  /\ Timeline \in Seq(Edits) /\ Len(Timeline) = Len(doc) + Len(RE)
         /\ \A p \in 1..Len(Timeline) :
              Met(made_at, Timeline, p) <=> made_at[Timeline[p]] = SubSeq(Timeline, 1, p - 1)
<1>1. /\ doc \in Seq(Edits) /\ RE \in Seq(Edits) /\ made_at \in Seq(Seq(Edits))
      /\ ToSet(doc) \cup ToSet(RE) \subseteq 1..Len(group) /\ Len(made_at) = Len(group)
  BY StacksOfActions DEF HistoryInv, TypeInv, DocInv, CountsInv
<1>2. Timeline \in Seq(Edits) /\ Len(Timeline) = Len(doc) + Len(RE)
  BY <1>1, LineIs DEF Timeline
<1>3. ASSUME NEW p \in 1..Len(Timeline)
      PROVE  Met(made_at, Timeline, p) <=> made_at[Timeline[p]] = SubSeq(Timeline, 1, p - 1)
  <2>1. Timeline[p] \in ToSet(doc) \cup ToSet(RE)
    <3>1. PICK n \in Nat, h \in Nat : n = Len(doc) /\ h = Len(RE)
      BY <1>1, LenProperties
    <3>2. 0 \in 0..Len(doc) /\ p \in 1..(Len(doc) - 0 + Len(RE)) /\ Kept(doc, 0) = doc
      <4>1. 0 \in 0..n /\ n - 0 = n
        BY SMT
      <4>. QED
        BY <1>1, <1>2, <3>1, <4>1, KeptAll
    <3>3. Line(Kept(doc, 0), RE)[p] \in ToSet(doc) \cup ToSet(RE)
      BY <1>1, <3>2, OnTheLine
    <3>. QED
      BY <3>2, <3>3 DEF Timeline
  <2>2. made_at[Timeline[p]] \in Seq(Edits)
    <3>1. Timeline[p] \in 1..Len(made_at)
      BY <1>1, <2>1
    <3>. QED
      BY <1>1, <3>1, ElementOfSeq
  <2>. HIDE DEF Timeline
  <2>. QED
    BY <1>2, <2>2, MetIs
<1>. QED
  BY <1>2, <1>3

LEMMA MeetingEdits ==
  ASSUME HistoryInv
  PROVE  EditsMeetTheirDocument <=>
           (~redo_stack_locked => \A p \in 1..Len(Timeline) : Met(made_at, Timeline, p))
<1>1. EditsMeetTheirDocument <=>
        (~redo_stack_locked =>
           \A p \in 1..Len(Timeline) : made_at[Timeline[p]] = SubSeq(Timeline, 1, p - 1))
  BY TimelineIs DEF EditsMeetTheirDocument
<1>. QED
  BY <1>1, MetOnTheLine

(* Undoing or redoing frees nothing when there is room on the other stack. *)
LEMMA NothingGone ==
  ASSUME TypeInv, TypeInv', UndoOrRedoOne, ~redo_stack_locked, ~Full(Goal)
  PROVE  Live' = Live /\ OnStacks' = OnStacks
<1>. DEFINE a == Top
            gone == (OnStacks \cup {a}) \ (ToSet(Moved(a).elements) \cup ToSet(From.elements))
<1>1. /\ Source # << >> /\ Top \in ToSet(Source)
      /\ call.name = "undo" => U' = Front(Source) /\ R' = Append(Room(Goal), Top)
      /\ call.name # "undo" => R' = Front(Source) /\ U' = Append(Room(Goal), Top)
      /\ \A b \in ToSet(U') \cup ToSet(R') : action'[b] \in Undoable
  BY MoveEffect DEF Withdrawn
<1>2. /\ Stacked(Source) /\ Stacked(Goal) /\ ToSet(Source) \cap ToSet(Goal) = {}
      /\ ToSet(Source) \cup ToSet(Goal) = OnStacks
      /\ OnStacks \subseteq Addrs /\ \A b \in OnStacks : action[b] \in Undoable
  BY Sides
<1>3. ToSet(Front(Source)) = ToSet(Source) \ {a}
  BY <1>1, <1>2, Popped DEF Stacked, Top
<1>4. ToSet(Append(Room(Goal), a)) = ToSet(Goal) \cup {a}
  <2>1. a \in Addrs /\ a \notin ToSet(Goal)
    BY <1>1, <1>2
  <2>2. ToSet(Append(Room(Goal), a)) = (ToSet(Goal) \ Evicted(Goal)) \cup {a}
    BY <1>2, <2>1, PushedWithRoom
  <2>3. Evicted(Goal) = {}
    BY DEF Evicted
  <2>. QED
    BY <2>2, <2>3
<1>5. ToSet(U') \cup ToSet(R') = OnStacks
  BY <1>1, <1>2, <1>3, <1>4
<1>6. OnStacks' = ToSet(U') \cup ToSet(R')
  BY DEF OnStacks, U, R
<1>7. action' = [b \in Addrs |-> IF b \in gone THEN Nil ELSE Renumbered(a)[b]]
  BY DEF UndoOrRedoOne, Source, Top, Peek
<1>8. gone \subseteq OnStacks
  BY <1>1, <1>2
<1>9. \A b \in Addrs : b # a => Renumbered(a)[b] = action[b]
  BY DEF Renumbered, TypeInv, ActionsInv
<1>. HIDE DEF gone
<1>10. \A b \in Addrs \ OnStacks : action'[b] = action[b]
  BY <1>1, <1>2, <1>7, <1>8, <1>9
<1>11. \A b \in OnStacks : action'[b] # Nil /\ action[b] # Nil
  BY <1>1, <1>2, <1>5, NilIsNoAction
<1>12. \A b \in Addrs : action'[b] # Nil <=> action[b] # Nil
  BY <1>10, <1>11
<1>. QED
  BY <1>5, <1>6, <1>12 DEF Live

(* Undoing and redoing forget nothing: no action is freed, none leaves the *)
(* stacks, whatever their length, as long as no call that fails has put    *)
(* edits out of the order they were made in.                               *)
THEOREM OnlyPerformingForgets == Spec => OnlyPerformForgets
<1>1. ASSUME HistoryInv, LimInv, HistoryInv', Next, call.at = "acting", ~redo_stack_locked,
             EditsMeetTheirDocument
      PROVE  Live = Live' /\ OnStacks = OnStacks'
  <2>0. TypeInv /\ TypeInv'
    BY <1>1 DEF HistoryInv
  <2>1. ASSUME NEW a \in Addrs, NEW k \in Kinds, PerformAction(a, k) PROVE FALSE
    BY <1>1, <2>1 DEF PerformAction
  <2>2. CASE OtherStep
    <3>1. Renumbers
      BY <2>0, <2>2, OtherTypes
    <3>2. U' = U /\ R' = R /\ \A b \in Addrs : action'[b] # Nil <=> action[b] # Nil
      BY <3>1 DEF Renumbers, U, R
    <3>. QED
      BY <3>2 DEF Live, OnStacks, U, R
  <2>3. CASE UndoOrRedoOne
    <3>1. ~Full(Goal)
      <4>. SUFFICES ASSUME MaxLength # -1 PROVE Len(Goal) # MaxLength
        BY DEF Full
      <4>1. PICK m : Fits(doc, Len(UE), RE, made_at, 0, m)
        BY <1>1 DEF LimInv
      <4>2. /\ Len(UE) = Len(U) /\ Len(RE) = Len(R) /\ doc \in Seq(Edits)
        BY <2>0, StacksOfActions
      <4>3. PICK u \in Nat, h \in Nat, n \in Nat : u = Len(U) /\ h = Len(R) /\ n = Len(doc)
        BY <2>0, <4>2, LenProperties DEF TypeInv, StacksInv, Stacked
      <4>4. /\ m \in 0..h /\ u + h <= MaxLength + m + 0
            /\ m > 0 => \E p \in 1..(n - 0 + h - m + 1) : ~Met(made_at, Line(Kept(doc, 0), RE), p)
        BY <4>1, <4>2, <4>3 DEF Fits
      <4>5. \A p \in 1..(n + h) : Met(made_at, Line(Kept(doc, 0), RE), p)
        BY <1>1, <4>2, <4>3, MeetingEdits, MetOnTheLine, KeptAll DEF Timeline
      <4>6. m = 0
        <5>1. m > 0 => \A p \in 1..(n - 0 + h - m + 1) : p \in 1..(n + h)
          BY <4>4
        <5>. QED
          BY <4>4, <4>5, <5>1
      <4>7. Len(Source) # 0 /\ Len(Source) \in Nat
        BY <2>0, <2>3, MoveEffect, Sides, ToSetOf DEF Stacked
      <4>8. \/ Len(Source) = u /\ Len(Goal) = h
            \/ Len(Source) = h /\ Len(Goal) = u
        BY <2>0, <4>3, Sides
      <4>. QED
        BY <4>3, <4>4, <4>6, <4>7, <4>8, Limited
    <3>. QED
      BY <1>1, <2>0, <2>3, <3>1, NothingGone
  <2>. QED
    BY <1>1, <2>1, <2>2, <2>3, Steps
<1>2. /\ HistoryInv /\ LimInv /\ (HistoryInv /\ LimInv)' /\ [Next]_vars
      => [call.at = "acting" /\ ~redo_stack_locked /\ EditsMeetTheirDocument
            => Live = Live' /\ OnStacks = OnStacks']_vars
  BY <1>1
<1>. QED
  BY <1>2, LimitsAlways, PTL DEF Spec, OnlyPerformForgets
-----------------------------------------------------------------------------
(* Without failures and with stacks of no bounded length.  Each edit of    *)
(* the line, the pending ones left out, meets its document.                *)
Meets(d, r, made, k) ==
  /\ k \in 0..Len(d)
  /\ \A p \in 1..(Len(d) - k + Len(r)) : Met(made, Line(Kept(d, k), r), p)

LineInv == MaxLength = -1 /\ ~MayFail /\ ~(redo_stack_locked /\ call = Crashed)
             => Meets(doc, RE, made_at, Pending)

LEMMA MetAgain ==
  ASSUME NEW made, NEW new, NEW l, NEW c, NEW p \in Nat \ {0},
         Met(made, l, p), \A i \in 1..p : c[i] = l[i], new[l[p]] = made[l[p]]
  PROVE  Met(new, c, p)
<1>1. p \in 1..p /\ \A i \in 1..(p - 1) : i \in 1..p
  OBVIOUS
<1>2. c[p] = l[p] /\ \A i \in 1..(p - 1) : c[i] = l[i]
  BY <1>1
<1>. QED
  BY <1>2 DEF Met

LEMMA LineAlone ==
  ASSUME NEW S, NEW d \in Seq(S)
  PROVE  \A i \in 1..Len(d) : Line(d, << >>)[i] = d[i]
<1>1. PICK z \in Seq(S) : z = << >> /\ Len(z) = 0
  BY EmptySeq
<1>2. PICK n \in Nat : n = Len(d)
  BY LenProperties
<1>3. \A i \in 1..(Len(d) + Len(z)) :
        Line(d, z)[i] = IF i <= Len(d) THEN d[i] ELSE z[Len(d) + Len(z) + 1 - i]
  BY LineIs
<1>4. \A i \in 1..n : Line(d, z)[i] = d[i]
  BY <1>1, <1>2, <1>3
<1>. QED
  BY <1>1, <1>2, <1>4

LEMMA MeetsPushed ==
  ASSUME NEW S, NEW d \in Seq(S), NEW r \in Seq(S), NEW e \in S, NEW made, NEW new, NEW k,
         Meets(d, r, made, k), new[e] = d,
         \A x \in ToSet(d) \cup ToSet(r) : new[x] = made[x]
  PROVE  /\ Meets(Append(d, e), r, new, k + 1)
         /\ k = 0 => Meets(Append(d, e), << >>, new, 0)
<1>. DEFINE c == Append(d, e)
<1>1. PICK n \in Nat, h \in Nat : n = Len(d) /\ h = Len(r)
  BY LenProperties
<1>2. k \in 0..n /\ \A p \in 1..(n - k + h) : Met(made, Line(Kept(d, k), r), p)
  BY <1>1 DEF Meets
<1>3. c \in Seq(S) /\ Len(c) = n + 1 /\ c[n + 1] = e /\ \A i \in 1..n : c[i] = d[i]
  BY <1>1, AppendProperties
<1>4. Kept(c, k + 1) = Kept(d, k)
  BY <1>1, <1>2, KeptPushed
<1>. HIDE DEF c
<1>5. \A p \in 1..(n - k + h) : Met(new, Line(Kept(c, k + 1), r), p)
  <2>1. SUFFICES ASSUME NEW p \in 1..(n - k + h) PROVE Met(new, Line(Kept(d, k), r), p)
    BY <1>4
  <2>2. Line(Kept(d, k), r)[p] \in ToSet(d) \cup ToSet(r)
    BY <1>1, <1>2, <2>1, OnTheLine
  <2>. QED
    BY <1>2, <2>2 DEF Met
<1>6. k + 1 \in 0..(n + 1) /\ (n + 1) - (k + 1) + h = n - k + h
  BY <1>2
<1>7. Meets(c, r, new, k + 1)
  BY <1>1, <1>3, <1>5, <1>6 DEF Meets
<1>8. ASSUME k = 0
      PROVE  Meets(c, << >>, new, 0)
  <2>1. << >> \in Seq(S) /\ Len(<< >>) = 0
    BY EmptySeq
  <2>2. Kept(c, 0) = c /\ Kept(d, 0) = d
    BY <1>3, KeptAll
  <2>3. \A i \in 1..(n + 1) : Line(c, << >>)[i] = c[i]
    BY <1>3, LineAlone
  <2>4. \A i \in 1..n : Line(d, r)[i] = d[i]
    <3>1. \A i \in 1..(Len(d) + Len(r)) :
            Line(d, r)[i] = IF i <= Len(d) THEN d[i] ELSE r[Len(d) + Len(r) + 1 - i]
      BY LineIs
    <3>2. \A i \in 1..n : i \in 1..(n + h) /\ i <= n
      OBVIOUS
    <3>. QED
      BY <1>1, <3>1, <3>2
  <2>5. ASSUME NEW p \in 1..(n + 1)
        PROVE  Met(new, Line(c, << >>), p)
    <3>1. CASE p = n + 1
      <4>1. Line(c, << >>)[p] = e /\ \A i \in 1..(p - 1) : Line(c, << >>)[i] = d[i]
        BY <1>3, <2>3, <3>1
      <4>2. Len(d) = p - 1
        BY <1>1, <3>1
      <4>. QED
        BY <4>1, <4>2 DEF Met
    <3>2. CASE p # n + 1
      <4>1. /\ p \in 1..n /\ p \in 1..(n - k + h) /\ p \in Nat \ {0}
            /\ \A i \in 1..p : i \in 1..n /\ i \in 1..(n + 1)
        BY <1>8, <3>2
      <4>2. Met(made, Line(d, r), p)
        BY <1>2, <1>8, <2>2, <4>1
      <4>3. \A i \in 1..p : Line(c, << >>)[i] = Line(d, r)[i]
        BY <1>3, <2>3, <2>4, <4>1
      <4>4. new[Line(d, r)[p]] = made[Line(d, r)[p]]
        <5>1. Line(Kept(d, k), r)[p] \in ToSet(d) \cup ToSet(r)
          BY <1>1, <1>2, <4>1, OnTheLine
        <5>. QED
          BY <1>8, <2>2, <5>1
      <4>. QED
        BY <4>1, <4>2, <4>3, <4>4, MetAgain
    <3>. QED
      BY <3>1, <3>2
  <2>6. 0 \in 0..(n + 1) /\ (n + 1) - 0 + 0 = n + 1
    OBVIOUS
  <2>. QED
    BY <1>3, <2>1, <2>2, <2>5, <2>6 DEF Meets
<1>. QED
  BY <1>7, <1>8 DEF c

LEMMA MeetsWithdrawn ==
  ASSUME NEW S, NEW d \in Seq(S), NEW r \in Seq(S), NEW made, NEW k,
         Meets(d, r, made, k), k # 0
  PROVE  Meets(Front(d), r, made, k - 1)
<1>1. PICK n \in Nat, h \in Nat : n = Len(d) /\ h = Len(r)
  BY LenProperties
<1>2. k \in 1..n /\ \A p \in 1..(n - k + h) : Met(made, Line(Kept(d, k), r), p)
  BY <1>1 DEF Meets
<1>3. Kept(Front(d), k - 1) = Kept(d, k) /\ Len(Front(d)) = n - 1
  BY <1>1, <1>2, KeptPopped
<1>4. k - 1 \in 0..(n - 1) /\ (n - 1) - (k - 1) + h = n - k + h
  BY <1>2
<1>. QED
  BY <1>1, <1>2, <1>3, <1>4 DEF Meets

(* A line of the same edits, cut elsewhere.                                *)
LEMMA MeetsMoved ==
  ASSUME NEW S, NEW d \in Seq(S), NEW r \in Seq(S), NEW c \in Seq(S), NEW s \in Seq(S),
         NEW made, Meets(d, r, made, 0), Line(c, s) = Line(d, r)
  PROVE  Meets(c, s, made, 0)
<1>1. PICK n \in Nat, h \in Nat, m \in Nat, g \in Nat :
        n = Len(d) /\ h = Len(r) /\ m = Len(c) /\ g = Len(s)
  BY LenProperties
<1>2. n + h = m + g
  <2>1. Len(Line(d, r)) = n + h
    BY <1>1, LineIs
  <2>2. Len(Line(c, s)) = m + g
    BY <1>1, LineIs
  <2>. QED
    BY <2>1, <2>2
<1>3. Kept(d, 0) = d /\ Kept(c, 0) = c
  BY KeptAll
<1>4. \A p \in 1..(n - 0 + h) : Met(made, Line(c, s), p)
  BY <1>1, <1>3 DEF Meets
<1>5. 0 \in 0..m /\ m - 0 + g = n - 0 + h
  BY <1>2
<1>. QED
  BY <1>1, <1>3, <1>4, <1>5 DEF Meets

LEMMA PerformMeets ==
  ASSUME HistoryInv, LineInv, NEW a \in Addrs, NEW c \in Kinds, PerformAction(a, c)
  PROVE  LineInv'
<1>. SUFFICES ASSUME MaxLength = -1, ~MayFail
              PROVE  Meets(doc', RE', made_at', Pending')
  BY DEF LineInv
<1>. DEFINE e == Len(group) + 1
<1>0. TypeInv /\ DocInv /\ BeforeInv /\ MadeInv
  BY DEF HistoryInv
<1>1. /\ RE' = (IF redo_stack_locked THEN RE ELSE << >>)
      /\ doc' = Append(doc, e) /\ e \in Edits
  BY <1>0, PerformEdits
<1>2. RE \in Seq(Edits) /\ doc \in Seq(Edits)
  BY <1>0, StacksOfActions
<1>3. /\ ~redo_stack_locked => redo_stack_locked' = FALSE
      /\ redo_stack_locked => redo_stack_locked' /\ Pending' = Pending + 1
  BY <1>0, PerformPending
<1>4. PICK n \in Nat : n = Len(group)
  BY <1>0, LenProperties DEF TypeInv, CountsInv
<1>5. ToSet(doc) \cup ToSet(RE) \subseteq 1..n /\ made_at'[e] = doc
      /\ \A x \in 1..n : made_at'[x] = made_at[x]
  BY <1>0, <1>4, PerformMade DEF DocInv
<1>. HIDE DEF e
<1>6. Meets(doc, RE, made_at, Pending)
  <2>1. call # Crashed
    BY <1>0, PerformEffect, CallShapes
  <2>. QED
    BY <2>1 DEF LineInv
<1>7. /\ Meets(doc', RE, made_at', Pending + 1)
      /\ Pending = 0 => Meets(doc', << >>, made_at', 0)
  BY <1>1, <1>2, <1>5, <1>6, MeetsPushed
<1>8. CASE redo_stack_locked
  BY <1>1, <1>3, <1>7, <1>8
<1>9. CASE ~redo_stack_locked
  <2>1. Pending = 0 /\ Pending' = 0
    BY <1>3, <1>9 DEF Pending
  <2>. QED
    BY <1>1, <1>7, <1>9, <2>1
<1>. QED
  BY <1>8, <1>9

LEMMA MoveMeets ==
  ASSUME HistoryInv, HistoryInv', LineInv, UndoOrRedoOne
  PROVE  LineInv'
<1>. SUFFICES ASSUME MaxLength = -1, ~MayFail
              PROVE  Meets(doc', RE', made_at', Pending')
  BY DEF LineInv
<1>0. TypeInv /\ DocInv /\ BeforeInv /\ MadeInv
  BY DEF HistoryInv
<1>1. UE \in Seq(Edits) /\ RE \in Seq(Edits) /\ doc \in Seq(Edits) /\ doc' \in Seq(Edits)
      /\ RE' \in Seq(Edits)
  BY <1>0, StacksOfActions, LengthsNext DEF HistoryInv, TypeInv, CountsInv
<1>2. /\ redo_stack_locked' = redo_stack_locked /\ made_at' = made_at
      /\ redo_stack_locked => call.name = "undo" /\ Pending \in Nat \ {0} /\ Pending' = Pending - 1
      /\ ~redo_stack_locked => Pending = 0 /\ Pending' = 0
  BY <1>0, MovePending, MoveEdits DEF Pending
<1>3. Meets(doc, RE, made_at, Pending)
  <2>1. call # Crashed
    BY <1>0, MoveEffect, CallShapes
  <2>. QED
    BY <2>1 DEF LineInv
<1>4. CASE redo_stack_locked
  <2>1. RE' = RE /\ doc' = Front(doc)
    BY <1>0, <1>2, <1>4, MoveEdits, MoveKeepsDoc
  <2>. QED
    BY <1>1, <1>2, <1>3, <1>4, <2>1, MeetsWithdrawn
<1>5. CASE ~redo_stack_locked /\ call.name = "undo"
  <2>1. RE' = Append(RE, Last(doc)) /\ doc # << >> /\ doc' = Front(doc)
    BY <1>0, <1>5, MoveEdits, MoveKeepsDoc, NoRoomNeeded
  <2>2. Line(doc', RE') = Line(doc, RE)
    BY <1>1, <2>1, LineMoved
  <2>. QED
    BY <1>1, <1>2, <1>3, <1>5, <2>2, MeetsMoved
<1>6. CASE ~redo_stack_locked /\ call.name # "undo"
  <2>1. RE # << >> /\ RE' = Front(RE) /\ doc' = Append(doc, Last(RE))
    BY <1>0, <1>6, MoveEdits
  <2>2. Line(doc', RE') = Line(doc, RE)
    BY <1>1, <2>1, LineMovedBack
  <2>. QED
    BY <1>1, <1>2, <1>3, <1>6, <2>2, MeetsMoved
<1>. QED
  BY <1>4, <1>5, <1>6

LEMMA CrashedStays == OtherStep => call # Crashed
<1>. SUFFICES ASSUME OtherStep, call = Crashed PROVE FALSE
  OBVIOUS
<1>1. call.at = "crashed" /\ call # Idle
  BY IdleCall
<1>. QED
  BY <1>1 DEF OtherStep, Wait, ReadGroup, EndUndoOrRedo, EndAutosave, UndoOrRedoFails,
              PerformFails, Crash, BeginPerform, BeginUndoOrRedo, Save, BeginAutosave

LEMMA OtherMeets ==
  ASSUME HistoryInv, LineInv, OtherStep
  PROVE  LineInv'
<1>. SUFFICES ASSUME MaxLength = -1, ~MayFail, ~(redo_stack_locked' /\ call' = Crashed)
              PROVE  Meets(doc', RE', made_at', Pending')
  BY DEF LineInv
<1>0. TypeInv /\ BeforeInv
  BY DEF HistoryInv
<1>1. RE' = RE /\ doc' = doc /\ made_at' = made_at
  BY <1>0, OtherTypes, RenumberEdits
<1>2. Meets(doc, RE, made_at, Pending)
  BY CrashedStays DEF LineInv
<1>3. LockStep
  BY <1>0, OtherPending
<1>4. /\ ~redo_stack_locked => Pending = 0
      /\ ~redo_stack_locked' => Pending' = 0
  BY DEF Pending
<1>5. Pending' = Pending
  BY <1>3, <1>4 DEF LockStep
<1>. QED
  BY <1>1, <1>2, <1>5

(* With stacks of no bounded length, as the preferences allow, and when no *)
(* action fails, an action is only undone or redone in the document it was *)
(* made in: cancelled drags and the rows of the menus included.            *)
THEOREM EditsMeet ==
  MaxLength = -1 /\ ~MayFail => (Spec => []EditsMeetTheirDocument)
<1>. SUFFICES ASSUME MaxLength = -1, ~MayFail PROVE Spec => []EditsMeetTheirDocument
  OBVIOUS
<1>1. Init => LineInv
  <2>. SUFFICES ASSUME Init PROVE LineInv
    OBVIOUS
  <2>1. TypeInv /\ doc = << >> /\ redo_stack_locked = FALSE /\ R = << >>
    BY InitTypes DEF Init, EmptyStack, R
  <2>2. << >> \in Seq(Edits) /\ Len(<< >>) = 0
    BY EmptySeq
  <2>3. RE = << >> /\ Pending = 0
    BY <2>1, <2>2, StacksOfActions, EmptySeq DEF Pending
  <2>4. 0 \in 0..0 /\ \A p \in 1..(0 - 0 + 0) : FALSE
    OBVIOUS
  <2>5. Meets(doc, RE, made_at, Pending)
    BY <2>1, <2>2, <2>3, <2>4 DEF Meets
  <2>. QED
    BY <2>5 DEF LineInv
<1>2. HistoryInv /\ HistoryInv' /\ LineInv /\ [Next]_vars => LineInv'
  <2>. SUFFICES ASSUME HistoryInv, HistoryInv', LineInv, [Next]_vars PROVE LineInv'
    OBVIOUS
  <2>1. CASE UNCHANGED vars
    <3>1. RE' = RE /\ UNCHANGED <<doc, made_at, redo_stack_locked, call>>
      BY <2>1, Unmoved DEF vars
    <3>2. Pending' = Pending
      BY <2>1 DEF vars, Pending, U
    <3>. QED
      BY <3>1, <3>2 DEF LineInv
  <2>. QED
    BY <2>1, PerformMeets, MoveMeets, OtherMeets, Steps
<1>3. HistoryInv /\ LineInv => EditsMeetTheirDocument
  <2>. SUFFICES ASSUME HistoryInv, LineInv, ~redo_stack_locked
                PROVE  \A p \in 1..Len(Timeline) : Met(made_at, Timeline, p)
    BY MeetingEdits
  <2>1. Meets(doc, RE, made_at, 0)
    BY DEF LineInv, Pending
  <2>2. PICK n \in Nat, h \in Nat : n = Len(doc) /\ h = Len(RE)
    BY StacksOfActions, LenProperties DEF HistoryInv
  <2>3. Kept(doc, 0) = doc
    BY StacksOfActions, KeptAll DEF HistoryInv
  <2>4. \A p \in 1..(n - 0 + h) : Met(made_at, Timeline, p)
    BY <2>1, <2>2, <2>3 DEF Meets, Timeline
  <2>5. Len(Timeline) = n - 0 + h
    BY <2>2, MetOnTheLine
  <2>. QED
    BY <2>4, <2>5
<1>. QED
  BY HistoryAlways, <1>1, <1>2, <1>3, PTL DEF Spec
-----------------------------------------------------------------------------
(* The groups stay whole.  A stack is two sequences here: the operations   *)
(* its actions belong to, and the sizes the actions hold.                  *)
UG == [i \in 1..Len(UE) |-> group[UE[i]]]
RG == [i \in 1..Len(RE) |-> group[RE[i]]]
US == [i \in 1..Len(U) |-> action[U[i]].num_actions]
RS == [i \in 1..Len(R) |-> action[R[i]].num_actions]

(* Among the first k actions, the one on top of a group holds the size of  *)
(* the group, and the group is next to it.                                 *)
Whole(g, n, k) ==
  \A p \in 1..k : p = k \/ g[p + 1] # g[p] =>
    n[p] \in 1..p /\ \A j \in 1..k : g[j] = g[p] <=> p - n[p] < j /\ j <= p
Apart(g, k, h, l) == \A i \in 1..k, j \in 1..l : g[i] # h[j]
(* What lies above the first k actions is of operation x, and nothing else *)
(* is.                                                                     *)
Run(g, k, x) == /\ \A j \in 1..k : g[j] # x
                /\ \A j \in (k + 1)..Len(g) : g[j] = x
Split(g, n, k, h, m, l, x) ==
  /\ k \in 0..Len(g) /\ l \in 0..Len(h)
  /\ Whole(g, n, k) /\ Whole(h, m, l) /\ Apart(g, k, h, l)
  /\ Run(g, k, x) /\ Run(h, l, x)

(* The first k actions stay, and only operation x is above them.           *)
Above(a, c, g, n, k, x) ==
  /\ Len(a) \in Nat /\ k <= Len(a)
  /\ \A j \in 1..k : a[j] = g[j] /\ c[j] = n[j]
  /\ \A j \in (k + 1)..Len(a) : a[j] = x

LEMMA SplitSame ==
  ASSUME NEW g, NEW n, NEW k, NEW h, NEW m, NEW l, NEW x, Split(g, n, k, h, m, l, x),
         Len(g) \in Nat, Len(h) \in Nat, NEW a, NEW c, NEW b, NEW d, NEW i, i = 0 \/ i = l,
         Above(a, c, g, n, k, x), Above(b, d, h, m, i, x)
  PROVE  Split(a, c, k, b, d, i, x)
<1>0. /\ Len(a) \in Nat /\ k <= Len(a) /\ Len(b) \in Nat /\ i <= Len(b)
      /\ \A j \in 1..k : a[j] = g[j] /\ c[j] = n[j]
      /\ \A j \in 1..i : b[j] = h[j] /\ d[j] = m[j]
      /\ \A j \in (k + 1)..Len(a) : a[j] = x
      /\ \A j \in (i + 1)..Len(b) : b[j] = x
  BY DEF Above
<1>1. k \in Nat /\ l \in Nat /\ i \in 0..Len(b) /\ k \in 0..Len(a)
  BY <1>0 DEF Split
<1>2. Run(a, k, x) /\ Run(b, i, x) /\ Apart(a, k, b, i)
  <2>1. \A j \in 1..i : j \in 1..l
    BY <1>1
  <2>2. \A j \in 1..k : a[j] # x
    BY <1>0 DEF Split, Run
  <2>3. \A j \in 1..i : b[j] # x
    BY <1>0, <2>1 DEF Split, Run
  <2>4. \A p \in 1..k, j \in 1..i : a[p] # b[j]
    BY <1>0, <2>1 DEF Split, Apart
  <2>. QED
    BY <1>0, <2>2, <2>3, <2>4 DEF Run, Apart
<1>3. Whole(a, c, k)
  <2>. SUFFICES ASSUME NEW p \in 1..k, p = k \/ a[p + 1] # a[p]
                PROVE  c[p] \in 1..p /\ \A j \in 1..k : a[j] = a[p] <=> p - c[p] < j /\ j <= p
    BY DEF Whole
  <2>1. p = k \/ p + 1 \in 1..k
    BY <1>1
  <2>2. p = k \/ g[p + 1] # g[p]
    BY <1>0, <2>1
  <2>3. n[p] \in 1..p /\ \A j \in 1..k : g[j] = g[p] <=> p - n[p] < j /\ j <= p
    BY <2>2 DEF Split, Whole
  <2>. QED
    BY <1>0, <2>3
<1>4. Whole(b, d, i)
  <2>1. CASE i = 0
    BY <2>1 DEF Whole
  <2>2. CASE i = l
    <3>. SUFFICES ASSUME NEW p \in 1..i, p = i \/ b[p + 1] # b[p]
                  PROVE  d[p] \in 1..p /\ \A j \in 1..i : b[j] = b[p] <=> p - d[p] < j /\ j <= p
      BY DEF Whole
    <3>1. p = i \/ p + 1 \in 1..i
      BY <1>1
    <3>2. p = i \/ h[p + 1] # h[p]
      BY <1>0, <3>1
    <3>3. m[p] \in 1..p /\ \A j \in 1..i : h[j] = h[p] <=> p - m[p] < j /\ j <= p
      BY <2>2, <3>2 DEF Split, Whole
    <3>. QED
      BY <1>0, <3>3
  <2>. QED
    BY <2>1, <2>2
<1>. QED
  BY <1>1, <1>2, <1>3, <1>4 DEF Split

(* The group on top, from the size its top holds.                          *)
LEMMA Opened ==
  ASSUME NEW g, NEW n, NEW h, NEW m, NEW y, Len(g) \in Nat \ {0}, Len(h) \in Nat,
         Split(g, n, Len(g), h, m, Len(h), y)
  PROVE  /\ n[Len(g)] \in 1..Len(g)
         /\ Split(g, n, Len(g) - n[Len(g)], h, m, Len(h), g[Len(g)])
<1>. DEFINE L == Len(g)
            s == n[L]
            k == L - s
            x == g[L]
<1>1. s \in 1..L /\ \A j \in 1..L : g[j] = x <=> k < j
  BY DEF Split, Whole
<1>2. k \in 0..L /\ k \in Nat
  BY <1>1
<1>3. Run(g, k, x)
  BY <1>1, <1>2 DEF Run
<1>4. Run(h, Len(h), x) /\ Apart(g, k, h, Len(h))
  BY <1>1, <1>2 DEF Run, Apart, Split
<1>5. Whole(g, n, k)
  <2>. SUFFICES ASSUME NEW p \in 1..k, p = k \/ g[p + 1] # g[p]
                PROVE  n[p] \in 1..p /\ \A j \in 1..k : g[j] = g[p] <=> p - n[p] < j /\ j <= p
    BY DEF Whole
  <2>1. p \in 1..L /\ p + 1 \in 1..L
    BY <1>1, <1>2
  <2>2. g[p + 1] # g[p]
    <3>1. CASE p = k
      BY <1>1, <1>2, <2>1, <3>1
    <3>. QED
      BY <3>1
  <2>3. n[p] \in 1..p /\ \A j \in 1..L : g[j] = g[p] <=> p - n[p] < j /\ j <= p
    BY <2>1, <2>2 DEF Split, Whole
  <2>. QED
    BY <2>3, <1>2
<1>. QED
  BY <1>1, <1>2, <1>3, <1>4, <1>5 DEF Split

(* The whole of the operation is on top of the stack, and its top says so. *)
LEMMA Closed ==
  ASSUME NEW g, NEW n, NEW k, NEW x, Len(g) \in Nat, k \in 0..(Len(g) - 1),
         Whole(g, n, k), Run(g, k, x), n[Len(g)] = Len(g) - k
  PROVE  Whole(g, n, Len(g))
<1>. DEFINE L == Len(g)
<1>1. k \in Nat /\ L \in Nat \ {0} /\ k < L
  OBVIOUS
<1>2. \A j \in 1..L : IF j <= k THEN g[j] # x ELSE g[j] = x
  BY <1>1 DEF Run
<1>. SUFFICES ASSUME NEW p \in 1..L, p = L \/ g[p + 1] # g[p]
              PROVE  n[p] \in 1..p /\ \A j \in 1..L : g[j] = g[p] <=> p - n[p] < j /\ j <= p
  BY DEF Whole
<1>3. CASE p = L
  BY <1>1, <1>2, <1>3
<1>4. CASE p # L
  <2>1. p + 1 \in 1..L /\ g[p + 1] # g[p]
    BY <1>1, <1>4
  <2>2. p \in 1..k
    BY <1>1, <1>2, <2>1
  <2>3. n[p] \in 1..p /\ \A j \in 1..k : g[j] = g[p] <=> p - n[p] < j /\ j <= p
    BY <2>1, <2>2 DEF Whole
  <2>4. \A j \in 1..L : j \in 1..k \/ (g[j] # g[p] /\ j > p)
    BY <1>1, <1>2, <2>2
  <2>. QED
    BY <1>1, <2>2, <2>3, <2>4
<1>. QED
  BY <1>3, <1>4

(* Between two calls nothing is above the whole groups.                    *)
LEMMA Rejoined ==
  ASSUME NEW g, NEW n, NEW k, NEW h, NEW m, NEW l, NEW x, Split(g, n, k, h, m, l, x),
         Len(g) \in Nat, Len(h) \in Nat, k = Len(g) \/ l = Len(h),
         k # Len(g) => n[Len(g)] = Len(g) - k, l # Len(h) => m[Len(h)] = Len(h) - l,
         NEW y, \A j \in 1..Len(g) : g[j] # y, \A j \in 1..Len(h) : h[j] # y
  PROVE  Split(g, n, Len(g), h, m, Len(h), y)
<1>1. k \in 0..Len(g) /\ l \in 0..Len(h)
  BY DEF Split
<1>2. Whole(g, n, Len(g))
  <2>1. CASE k # Len(g)
    BY <1>1, <2>1, Closed DEF Split
  <2>. QED
    BY <2>1 DEF Split
<1>3. Whole(h, m, Len(h))
  <2>1. CASE l # Len(h)
    BY <1>1, <2>1, Closed DEF Split
  <2>. QED
    BY <2>1 DEF Split
<1>4. Apart(g, Len(g), h, Len(h))
  BY <1>1 DEF Split, Apart, Run
<1>5. Run(g, Len(g), y) /\ Run(h, Len(h), y)
  <2>1. (Len(g) + 1)..Len(g) = {} /\ (Len(h) + 1)..Len(h) = {}
    OBVIOUS
  <2>. QED
    BY <2>1 DEF Run
<1>6. Len(g) \in 0..Len(g) /\ Len(h) \in 0..Len(h)
  OBVIOUS
<1>. QED
  BY <1>2, <1>3, <1>4, <1>5, <1>6 DEF Split
LEMMA SplitSwapped ==
  ASSUME NEW g, NEW n, NEW k, NEW h, NEW m, NEW l, NEW x, Split(g, n, k, h, m, l, x)
  PROVE  Split(h, m, l, g, n, k, x)
BY DEF Split, Apart

(* An undo or a redo has still to move `left' actions of its operation and *)
(* has put `put' of them on the other stack.                               *)
Moving(g, n, h, m, left, put) ==
  \E x : /\ Split(g, n, Len(g) - left, h, m, Len(h) - put, x)
         /\ left = 0 /\ put # 0 => m[Len(h)] = put
Between == Split(UG, US, Len(UG), RG, RS, Len(RG), 0)
GroupsInv ==
  /\ call.at # "crashed"
  /\ \A y \in 1..Len(group) : group[y] <= Last(group)
  /\ call.name = "perform" => /\ \A y \in 1..Len(group) : group[y] <= call.of
                              /\ Split(UG, US, Len(UG) - call.made, RG, RS, Len(RG), call.of)
  /\ call.name = "undo" /\ call.at = "acting" =>
       Moving(UG, US, RG, RS, call.n - call.i, IF redo_stack_locked THEN 0 ELSE call.i)
  /\ call.name = "redo" /\ call.at = "acting" => Moving(RG, RS, UG, US, call.n - call.i, call.i)
  /\ call.name # "perform" /\ call.at # "acting" => Between

(* The operations are numbered from 1.                                     *)
Numbered == /\ group \in Seq(Nat \ {0}) /\ Len(group) \in Nat
            /\ Len(UG) = Len(U) /\ Len(U) \in Nat /\ Len(UE) = Len(U)
            /\ Len(RG) = Len(R) /\ Len(R) \in Nat /\ Len(RE) = Len(R)
            /\ \A i \in 1..Len(U) : /\ UG[i] = group[UE[i]] /\ UE[i] \in 1..Len(group)
                                    /\ UG[i] \in Nat \ {0} /\ US[i] = action[U[i]].num_actions
            /\ \A i \in 1..Len(R) : /\ RG[i] = group[RE[i]] /\ RE[i] \in 1..Len(group)
                                    /\ RG[i] \in Nat \ {0} /\ RS[i] = action[R[i]].num_actions

LEMMA NumbersAre == HistoryInv => Numbered
<1>. SUFFICES ASSUME HistoryInv PROVE Numbered
  OBVIOUS
<1>1. TypeInv /\ DocInv
  BY DEF HistoryInv
<1>2. /\ UE \in Seq(Edits) /\ RE \in Seq(Edits) /\ doc \in Seq(Edits)
      /\ Len(UE) = Len(U) /\ Len(RE) = Len(R)
  BY <1>1, StacksOfActions
<1>3. Len(UE) \in Nat /\ Len(RE) \in Nat /\ Len(doc) \in Nat
  BY <1>2, LenProperties
<1>4. group \in Seq(Nat \ {0}) /\ Len(group) \in Nat
  BY <1>1, LenProperties DEF TypeInv, CountsInv
<1>5. ToSet(doc) = {doc[i] : i \in 1..Len(doc)} /\ ToSet(RE) = {RE[i] : i \in 1..Len(RE)}
  BY <1>2, ToSetOf
<1>6. \A i \in 1..Len(UE) : UE[i] \in 1..Len(group)
  <2>1. \A i \in 1..Len(UE) : /\ UE[i] = doc[Len(doc) - Len(UE) + i]
                              /\ Len(doc) - Len(UE) + i \in 1..Len(doc)
    BY <1>1, <1>3 DEF DocInv, EndOf
  <2>. QED
    BY <1>1, <1>5, <2>1 DEF DocInv
<1>7. \A i \in 1..Len(RE) : RE[i] \in 1..Len(group)
  BY <1>1, <1>5 DEF DocInv
<1>8. \A y \in 1..Len(group) : group[y] \in Nat \ {0}
  BY <1>4, ElementOfSeq
<1>9. UG \in [1..Len(UE) -> Nat \ {0}] /\ RG \in [1..Len(RE) -> Nat \ {0}]
  BY <1>6, <1>7, <1>8 DEF UG, RG
<1>10. Len(UG) = Len(UE) /\ Len(RG) = Len(RE)
  BY <1>3, <1>9, FunctionsAreSequences
<1>11. \A i \in 1..Len(U) : /\ UG[i] = group[UE[i]] /\ UE[i] \in 1..Len(group)
                            /\ UG[i] \in Nat \ {0} /\ US[i] = action[U[i]].num_actions
  BY <1>2, <1>6, <1>8 DEF UG, US
<1>12. \A i \in 1..Len(R) : /\ RG[i] = group[RE[i]] /\ RE[i] \in 1..Len(group)
                            /\ RG[i] \in Nat \ {0} /\ RS[i] = action[R[i]].num_actions
  BY <1>2, <1>7, <1>8 DEF RG, RS
<1>. QED
  BY <1>2, <1>3, <1>4, <1>10, <1>11, <1>12 DEF Numbered

LEMMA NumbersNext == HistoryInv' => Numbered'
BY NumbersAre, PTL

(* What performing an action does to the groups.                           *)
LEMMA PerformGroups ==
  ASSUME MaxLength = -1, HistoryInv, HistoryInv', NEW a \in Addrs, NEW c \in Kinds, PerformAction(a, c)
  PROVE  /\ Len(UG') = Len(UG) + 1 /\ UG'[Len(UG) + 1] = call.of
         /\ \A j \in 1..Len(UG) : UG'[j] = UG[j] /\ US'[j] = US[j]
         /\ call.left = 1 \/ call.counts = "each" => US'[Len(UG) + 1] = call.made + 1
         /\ Len(RG') \in {0, Len(RG)}
         /\ \A j \in 1..Len(RG') : RG'[j] = RG[j] /\ RS'[j] = RS[j]
<1>0. TypeInv /\ Numbered /\ Numbered'
  BY NumbersAre, NumbersNext DEF HistoryInv
<1>1. /\ U' = Append(U, a) /\ R' = (IF redo_stack_locked THEN R ELSE << >>)
      /\ call.left = 1 \/ call.counts = "each" => action'[a].num_actions = call.made + 1
      /\ \A b \in ToSet(U) \cup ToSet(R') : action'[b] = action[b]
  BY <1>0, PerformEffect, NoRoomNeeded
<1>2. LET e == Len(group) + 1
      IN /\ UE' = Append(UE, e) /\ RE' = (IF redo_stack_locked THEN RE ELSE << >>)
         /\ group' = Append(group, call.of) /\ e \in Edits
  BY <1>0, PerformEdits, NoRoomNeeded
<1>3. U \in Seq(Addrs) /\ R \in Seq(Addrs) /\ UE \in Seq(Edits) /\ call.of \in Nat \ {0}
  BY <1>0, StacksOfActions, PerformEffect DEF TypeInv, StacksInv, Stacked, Performing
<1>4. /\ Len(U') = Len(U) + 1 /\ U'[Len(U) + 1] = a /\ \A j \in 1..Len(U) : U'[j] = U[j]
  BY <1>1, <1>3, AppendProperties
<1>5. /\ UE'[Len(UE) + 1] = Len(group) + 1 /\ \A j \in 1..Len(UE) : UE'[j] = UE[j]
  BY <1>2, <1>3, AppendProperties
<1>6. /\ group'[Len(group) + 1] = call.of
      /\ \A y \in 1..Len(group) : group'[y] = group[y]
  BY <1>0, <1>2, <1>3, AppendProperties DEF Numbered
<1>7. \A j \in 1..Len(U) : action'[U[j]] = action[U[j]]
  BY <1>1, <1>3, ToSetOf
<1>8. Len(UG') = Len(UG) + 1 /\ Len(UG) = Len(U) /\ Len(U) \in Nat
  BY <1>0, <1>4 DEF Numbered
<1>9. /\ \A j \in 1..Len(U') : UG'[j] = group'[UE'[j]] /\ US'[j] = action'[U'[j]].num_actions
      /\ \A j \in 1..Len(R') : RG'[j] = group'[RE'[j]] /\ RS'[j] = action'[R'[j]].num_actions
  BY <1>0 DEF Numbered
<1>10. \A j \in 1..Len(U) : UG'[j] = UG[j] /\ US'[j] = US[j]
  <2>. SUFFICES ASSUME NEW j \in 1..Len(U) PROVE UG'[j] = UG[j] /\ US'[j] = US[j]
    OBVIOUS
  <2>1. j \in 1..Len(U') /\ j \in 1..Len(UE)
    BY <1>0, <1>4, <1>8 DEF Numbered
  <2>2. UG'[j] = group'[UE[j]] /\ US'[j] = action'[U[j]].num_actions
    BY <1>4, <1>5, <1>9, <2>1
  <2>3. UG[j] = group[UE[j]] /\ UE[j] \in 1..Len(group) /\ US[j] = action[U[j]].num_actions
    BY <1>0 DEF Numbered
  <2>. QED
    BY <1>6, <1>7, <2>2, <2>3
<1>11. UG'[Len(U) + 1] = call.of /\ US'[Len(U) + 1] = action'[a].num_actions
  <2>1. Len(U) + 1 \in 1..Len(U') /\ Len(UE) = Len(U)
    BY <1>0, <1>4, <1>8 DEF Numbered
  <2>2. UE'[Len(U) + 1] = Len(group) + 1
    BY <1>5, <2>1
  <2>. QED
    BY <1>4, <1>6, <1>9, <2>1, <2>2
<1>12. Len(RG') \in {0, Len(RG)} /\ \A j \in 1..Len(RG') : RG'[j] = RG[j] /\ RS'[j] = RS[j]
  <2>1. CASE redo_stack_locked
    <3>1. R' = R /\ RE' = RE
      BY <1>1, <1>2, <2>1
    <3>2. \A j \in 1..Len(R) : action'[R[j]] = action[R[j]]
      BY <1>1, <1>3, <3>1, ToSetOf
    <3>3. Len(RG') = Len(R) /\ Len(RG) = Len(R)
      BY <1>0, <3>1 DEF Numbered
    <3>. SUFFICES ASSUME NEW j \in 1..Len(R) PROVE RG'[j] = RG[j] /\ RS'[j] = RS[j]
      BY <3>3
    <3>4. RG'[j] = group'[RE[j]] /\ RS'[j] = action'[R[j]].num_actions
      BY <1>9, <3>1
    <3>5. RG[j] = group[RE[j]] /\ RE[j] \in 1..Len(group) /\ RS[j] = action[R[j]].num_actions
      BY <1>0 DEF Numbered
    <3>. QED
      BY <1>6, <3>2, <3>4, <3>5
  <2>2. CASE ~redo_stack_locked
    <3>1. Len(RG') = 0
      BY <1>0, <1>1, <2>2, EmptySeq DEF Numbered
    <3>. QED
      BY <3>1
  <2>. QED
    BY <2>1, <2>2
<1>. QED
  BY <1>1, <1>8, <1>10, <1>11, <1>12
(* What undoing or redoing one does to them.                               *)
LEMMA MoveGroups ==
  ASSUME MaxLength = -1, HistoryInv, HistoryInv', UndoOrRedoOne
  PROVE  LET size == IF call.i = call.n - 1 THEN call.n ELSE 0
         IN /\ call.name = "undo" =>
                 /\ Len(UG) \in Nat \ {0} /\ Len(UG') = Len(UG) - 1
                 /\ \A j \in 1..Len(UG') : UG'[j] = UG[j] /\ US'[j] = US[j]
                 /\ \A j \in 1..Len(RG) : RG'[j] = RG[j] /\ RS'[j] = RS[j]
                 /\ redo_stack_locked => Len(RG') = Len(RG)
                 /\ ~redo_stack_locked => /\ Len(RG') = Len(RG) + 1
                                          /\ RG'[Len(RG) + 1] = UG[Len(UG)]
                                          /\ size # 0 => RS'[Len(RG) + 1] = size
            /\ call.name # "undo" =>
                 /\ Len(RG) \in Nat \ {0} /\ Len(RG') = Len(RG) - 1 /\ Len(UG') = Len(UG) + 1
                 /\ \A j \in 1..Len(RG') : RG'[j] = RG[j] /\ RS'[j] = RS[j]
                 /\ \A j \in 1..Len(UG) : UG'[j] = UG[j] /\ US'[j] = US[j]
                 /\ UG'[Len(UG) + 1] = RG[Len(RG)]
                 /\ size # 0 => US'[Len(UG) + 1] = size
<1>0. TypeInv /\ DocInv /\ Numbered /\ Numbered'
  BY NumbersAre, NumbersNext DEF HistoryInv
<1>. DEFINE a == Top
            size == IF call.i = call.n - 1 THEN call.n ELSE 0
<1>1. /\ call \in Acting /\ call.i < call.n /\ Source # << >> /\ a \in ToSet(Source)
      /\ call.name = "undo" => U' = Front(Source) /\ R' = (IF Withdrawn THEN Goal ELSE Append(Goal, a))
      /\ call.name # "undo" => R' = Front(Source) /\ U' = Append(Goal, a)
      /\ \A b \in ToSet(U') \cup ToSet(R') : b # a => action'[b] = action[b]
      /\ ~Withdrawn => action'[a].num_actions =
                            IF call.i = 0 THEN 1 ELSE IF call.i = call.n - 1 THEN call.n
                            ELSE action[a].num_actions
  BY <1>0, MoveEffect, NoRoomNeeded
<1>2. /\ call.name = "undo" => Source = U /\ Goal = R
      /\ call.name # "undo" => Source = R /\ Goal = U
      /\ Stacked(Source) /\ Stacked(Goal) /\ ToSet(Source) \cap ToSet(Goal) = {}
      /\ a \in Addrs
  BY <1>0, <1>1, Sides
<1>3. /\ call.name = "undo" =>
              /\ UE # << >> /\ UE' = Front(UE)
              /\ RE' = (IF redo_stack_locked THEN RE ELSE Append(RE, Last(UE)))
      /\ call.name # "undo" =>
              /\ RE # << >> /\ RE' = Front(RE) /\ UE' = Append(UE, Last(RE))
      /\ group' = group
  BY <1>0, MoveEdits, NoRoomNeeded
<1>4. UE \in Seq(Edits) /\ RE \in Seq(Edits) /\ Source \in Seq(Addrs) /\ Goal \in Seq(Addrs)
      /\ IsInjective(Source)
  BY <1>0, <1>2, StacksOfActions DEF Stacked
<1>5. PICK s \in Seq(Addrs) : s = Source
  BY <1>4
<1>6. PICK t \in Seq(Addrs) : t = Goal
  BY <1>4
<1>7. /\ Len(Front(s)) = Len(s) - 1 /\ Len(s) \in Nat \ {0} /\ Last(s) = s[Len(s)]
      /\ \A j \in 1..(Len(s) - 1) : Front(s)[j] = s[j]
  BY <1>1, <1>5, FrontIs
<1>8. /\ Len(Append(t, a)) = Len(t) + 1 /\ Append(t, a)[Len(t) + 1] = a /\ Len(t) \in Nat
      /\ \A j \in 1..Len(t) : Append(t, a)[j] = t[j]
  BY <1>2, <1>6, AppendProperties, LenProperties
<1>9. /\ ToSet(Front(s)) = ToSet(s) \ {a} /\ ToSet(Front(s)) = {Front(s)[j] : j \in 1..Len(Front(s))}
      /\ ToSet(t) = {t[j] : j \in 1..Len(t)} /\ a \notin ToSet(t)
  <2>1. s # << >> /\ IsInjective(s)
    BY <1>1, <1>4, <1>5
  <2>2. Last(s) = a
    BY <1>5 DEF Top
  <2>3. ToSet(Front(s)) = ToSet(s) \ {a}
    BY <2>1, <2>2, Popped
  <2>4. Front(s) \in Seq(Addrs)
    BY <2>1, FrontIs
  <2>5. ToSet(Front(s)) = {Front(s)[j] : j \in 1..Len(Front(s))}
    BY <2>4, ToSetOf
  <2>6. ToSet(t) = {t[j] : j \in 1..Len(t)}
    BY ToSetOf
  <2>7. a \notin ToSet(t)
    BY <1>1, <1>2, <1>6
  <2>. QED
    BY <2>3, <2>5, <2>6, <2>7
<1>10. ToSet(Append(t, a)) = ToSet(t) \cup {a}
  <2>1. IsInjective(t)
    BY <1>2, <1>6 DEF Stacked
  <2>. QED
    BY <1>2, <1>9, <2>1, Pushed
<1>11. /\ \A j \in 1..(Len(s) - 1) : action'[s[j]] = action[s[j]]
       /\ \A j \in 1..Len(t) : action'[t[j]] = action[t[j]]
  <2>1. Front(s) \in {U', R'} /\ (t \in {U', R'} \/ Append(t, a) \in {U', R'})
    BY <1>1, <1>5, <1>6
  <2>2. \A b \in ToSet(Front(s)) \cup ToSet(t) : b # a /\ b \in ToSet(U') \cup ToSet(R')
    BY <1>9, <1>10, <2>1
  <2>3. \A b \in ToSet(Front(s)) \cup ToSet(t) : action'[b] = action[b]
    BY <1>1, <2>2
  <2>. QED
    BY <1>7, <1>9, <2>3
<1>12. ~Withdrawn /\ size # 0 => action'[a].num_actions = size
  BY <1>1, Bounds DEF Acting
<1>13. \A q \in Seq(Edits) : q # << >> =>
           /\ \A j \in 1..(Len(q) - 1) : Front(q)[j] = q[j]
           /\ Last(q) = q[Len(q)] /\ Last(q) \in Edits
  BY FrontIs
<1>14. \A q \in Seq(Edits), e \in Edits : /\ \A j \in 1..Len(q) : Append(q, e)[j] = q[j]
                                          /\ Append(q, e)[Len(q) + 1] = e
  BY AppendProperties
<1>15. /\ \A j \in 1..Len(U') : UG'[j] = group[UE'[j]] /\ US'[j] = action'[U'[j]].num_actions
       /\ \A j \in 1..Len(R') : RG'[j] = group[RE'[j]] /\ RS'[j] = action'[R'[j]].num_actions
       /\ Len(UG') = Len(U') /\ Len(RG') = Len(R')
  BY <1>0, <1>3 DEF Numbered
<1>16. /\ \A j \in 1..Len(U) : UG[j] = group[UE[j]] /\ US[j] = action[U[j]].num_actions
       /\ \A j \in 1..Len(R) : RG[j] = group[RE[j]] /\ RS[j] = action[R[j]].num_actions
       /\ Len(UG) = Len(U) /\ Len(RG) = Len(R) /\ Len(UE) = Len(U) /\ Len(RE) = Len(R)
  BY <1>0 DEF Numbered
<1>17. CASE call.name = "undo"
  <2>1. /\ s = U /\ t = R /\ U' = Front(s) /\ (redo_stack_locked => R' = R)
        /\ (~redo_stack_locked => R' = Append(t, a))
    BY <1>1, <1>2, <1>5, <1>6, <1>17 DEF Withdrawn
  <2>2. /\ Len(UG) = Len(s) /\ Len(RG) = Len(t) /\ Len(UG') = Len(s) - 1
        /\ redo_stack_locked => Len(RG') = Len(t)
        /\ ~redo_stack_locked => Len(RG') = Len(t) + 1
    BY <1>7, <1>8, <1>15, <1>16, <2>1
  <2>3. /\ UE # << >> /\ UE' = Front(UE)
        /\ RE' = (IF redo_stack_locked THEN RE ELSE Append(RE, Last(UE)))
        /\ Len(UE) = Len(s) /\ Len(RE) = Len(t)
    BY <1>3, <1>16, <1>17, <2>1
  <2>4. ASSUME NEW j \in 1..(Len(s) - 1) PROVE UG'[j] = UG[j] /\ US'[j] = US[j]
    <3>1. U'[j] = U[j] /\ j \in 1..Len(U) /\ j \in 1..Len(U')
      BY <1>7, <2>1
    <3>2. UE'[j] = UE[j]
      BY <1>4, <1>13, <2>3
    <3>3. action'[U[j]] = action[U[j]]
      BY <1>11, <2>1
    <3>4. UG'[j] = group[UE[j]] /\ US'[j] = action'[U[j]].num_actions
      BY <1>15, <3>1, <3>2
    <3>. QED
      BY <1>16, <3>1, <3>3, <3>4
  <2>5. ASSUME NEW j \in 1..Len(t) PROVE RG'[j] = RG[j] /\ RS'[j] = RS[j]
    <3>1. R'[j] = R[j] /\ j \in 1..Len(R') /\ j \in 1..Len(R)
      BY <1>8, <2>1
    <3>2. Last(UE) \in Edits
      BY <1>4, <1>13, <2>3
    <3>3. RE'[j] = RE[j]
      BY <1>4, <1>14, <2>3, <3>2
    <3>4. action'[R[j]] = action[R[j]]
      BY <1>11, <2>1
    <3>5. RG'[j] = group[RE[j]] /\ RS'[j] = action'[R[j]].num_actions
      BY <1>15, <3>1, <3>3
    <3>. QED
      BY <1>16, <3>1, <3>4, <3>5
  <2>6. ASSUME ~redo_stack_locked
        PROVE  /\ RG'[Len(t) + 1] = UG[Len(s)]
               /\ size # 0 => RS'[Len(t) + 1] = size
    <3>1. Len(t) + 1 \in 1..Len(R') /\ R'[Len(t) + 1] = a /\ Len(s) \in 1..Len(U)
      BY <1>7, <1>8, <2>1, <2>6
    <3>2. Last(UE) = UE[Len(s)] /\ Last(UE) \in Edits
      BY <1>4, <1>13, <2>3
    <3>3. RE'[Len(t) + 1] = UE[Len(s)]
      BY <1>4, <1>14, <2>3, <2>6, <3>2
    <3>4. RG'[Len(t) + 1] = group[UE[Len(s)]] /\ RS'[Len(t) + 1] = action'[a].num_actions
      BY <1>15, <3>1, <3>3
    <3>5. UG[Len(s)] = group[UE[Len(s)]]
      BY <1>16, <3>1
    <3>. QED
      BY <1>12, <2>6, <3>4, <3>5 DEF Withdrawn
  <2>. QED
    BY <1>7, <1>17, <2>2, <2>4, <2>5, <2>6
<1>18. CASE call.name # "undo"
  <2>1. s = R /\ t = U /\ R' = Front(s) /\ U' = Append(t, a) /\ ~Withdrawn
    BY <1>1, <1>2, <1>5, <1>6, <1>18 DEF Withdrawn
  <2>2. Len(RG) = Len(s) /\ Len(UG) = Len(t) /\ Len(RG') = Len(s) - 1 /\ Len(UG') = Len(t) + 1
    BY <1>7, <1>8, <1>15, <1>16, <2>1
  <2>3. /\ RE # << >> /\ RE' = Front(RE) /\ UE' = Append(UE, Last(RE))
        /\ Len(RE) = Len(s) /\ Len(UE) = Len(t)
    BY <1>3, <1>16, <1>18, <2>1
  <2>4. ASSUME NEW j \in 1..(Len(s) - 1) PROVE RG'[j] = RG[j] /\ RS'[j] = RS[j]
    <3>1. R'[j] = R[j] /\ j \in 1..Len(R) /\ j \in 1..Len(R')
      BY <1>7, <2>1
    <3>2. RE'[j] = RE[j]
      BY <1>4, <1>13, <2>3
    <3>3. action'[R[j]] = action[R[j]]
      BY <1>11, <2>1
    <3>4. RG'[j] = group[RE[j]] /\ RS'[j] = action'[R[j]].num_actions
      BY <1>15, <3>1, <3>2
    <3>. QED
      BY <1>16, <3>1, <3>3, <3>4
  <2>5. Last(RE) = RE[Len(s)] /\ Last(RE) \in Edits
    BY <1>4, <1>13, <2>3
  <2>6. ASSUME NEW j \in 1..Len(t) PROVE UG'[j] = UG[j] /\ US'[j] = US[j]
    <3>1. U'[j] = U[j] /\ j \in 1..Len(U') /\ j \in 1..Len(U)
      BY <1>8, <2>1
    <3>2. UE'[j] = UE[j]
      BY <1>4, <1>14, <2>3, <2>5
    <3>3. action'[U[j]] = action[U[j]]
      BY <1>11, <2>1
    <3>4. UG'[j] = group[UE[j]] /\ US'[j] = action'[U[j]].num_actions
      BY <1>15, <3>1, <3>2
    <3>. QED
      BY <1>16, <3>1, <3>3, <3>4
  <2>7. UG'[Len(t) + 1] = RG[Len(s)] /\ (size # 0 => US'[Len(t) + 1] = size)
    <3>1. Len(t) + 1 \in 1..Len(U') /\ U'[Len(t) + 1] = a /\ Len(s) \in 1..Len(R)
      BY <1>7, <1>8, <2>1
    <3>2. UE'[Len(t) + 1] = RE[Len(s)]
      BY <1>4, <1>14, <2>3, <2>5
    <3>3. UG'[Len(t) + 1] = group[RE[Len(s)]] /\ US'[Len(t) + 1] = action'[a].num_actions
      BY <1>15, <3>1, <3>2
    <3>4. RG[Len(s)] = group[RE[Len(s)]]
      BY <1>16, <3>1
    <3>. QED
      BY <1>12, <2>1, <3>3, <3>4
  <2>. QED
    BY <1>7, <1>18, <2>2, <2>4, <2>6, <2>7
<1>. QED
  BY <1>17, <1>18

LEMMA PerformJoins ==
  ASSUME MaxLength = -1, HistoryInv, HistoryInv', GroupsInv,
         NEW a \in Addrs, NEW c \in Kinds, PerformAction(a, c)
  PROVE  GroupsInv'
<1>0. TypeInv /\ Numbered /\ Numbered'
  BY NumbersAre, NumbersNext DEF HistoryInv
<1>1. /\ call \in Performing /\ call.name = "perform" /\ call.made \in Nat
      /\ call.of \in Nat \ {0}
  BY <1>0, PerformEffect DEF Performing
<1>2. /\ Len(UG') = Len(UG) + 1 /\ UG'[Len(UG) + 1] = call.of
      /\ \A j \in 1..Len(UG) : UG'[j] = UG[j] /\ US'[j] = US[j]
      /\ call.left = 1 \/ call.counts = "each" => US'[Len(UG) + 1] = call.made + 1
      /\ Len(RG') \in {0, Len(RG)}
      /\ \A j \in 1..Len(RG') : RG'[j] = RG[j] /\ RS'[j] = RS[j]
  BY PerformGroups
<1>3. /\ \A y \in 1..Len(group) : group[y] <= call.of
      /\ Split(UG, US, Len(UG) - call.made, RG, RS, Len(RG), call.of)
  BY <1>1 DEF GroupsInv
<1>4. Len(UG) \in Nat /\ Len(RG) \in Nat /\ Len(UG') \in Nat /\ Len(RG') \in Nat
  BY <1>0 DEF Numbered
<1>5. PICK k \in Nat : k = Len(UG) - call.made /\ k = Len(UG') - (call.made + 1) /\ k <= Len(UG)
  BY <1>1, <1>2, <1>3, <1>4 DEF Split
<1>6. \A j \in (k + 1)..Len(UG') : UG'[j] = call.of
  <2>1. \A j \in (k + 1)..Len(UG') : j = Len(UG) + 1 \/ j \in (k + 1)..Len(UG)
    BY <1>2, <1>4
  <2>2. \A j \in (k + 1)..Len(UG) : UG[j] = call.of /\ j \in 1..Len(UG)
    BY <1>3, <1>4, <1>5 DEF Split, Run
  <2>. QED
    BY <1>2, <2>1, <2>2
<1>7. Split(UG', US', k, RG', RS', Len(RG'), call.of)
  <2>1. Split(UG, US, k, RG, RS, Len(RG), call.of)
    BY <1>3, <1>5
  <2>2. \A j \in 1..k : UG'[j] = UG[j] /\ US'[j] = US[j]
    BY <1>2, <1>4, <1>5
  <2>3. Above(UG', US', UG, US, k, call.of)
    BY <1>2, <1>4, <1>5, <1>6, <2>2 DEF Above
  <2>4. Above(RG', RS', RG, RS, Len(RG'), call.of)
    <3>1. \A j \in (Len(RG') + 1)..Len(RG') : FALSE
      BY <1>4
    <3>. QED
      BY <1>2, <1>4, <3>1 DEF Above
  <2>. QED
    BY <1>2, <1>4, <2>1, <2>3, <2>4, SplitSame
<1>8. \A y \in 1..Len(group') : group'[y] <= call.of /\ group'[y] <= Last(group')
  <2>1. group' = Append(group, call.of) /\ group \in Seq(Nat \ {0})
    BY <1>0, PerformEdits DEF Numbered
  <2>2. /\ Len(group') = Len(group) + 1 /\ group'[Len(group) + 1] = call.of
        /\ \A y \in 1..Len(group) : group'[y] = group[y]
    BY <1>1, <2>1, AppendProperties
  <2>3. Last(group') = call.of
    BY <1>1, <2>1, FrontOfAppend
  <2>4. \A y \in 1..Len(group') : y = Len(group) + 1 \/ y \in 1..Len(group)
    BY <1>0, <2>2 DEF Numbered
  <2>. QED
    BY <1>1, <1>3, <2>2, <2>3, <2>4
<1>9. CASE call.left = 1
  <2>1. PICK last, acts, made : EndPerform(last, acts, made)
    BY <1>9 DEF PerformAction
  <2>2. call' = Idle \/ call' = [name |-> "undo", at |-> "wait", again |-> 0]
    BY <1>0, <1>1, <2>1, EndedPerform
  <2>3. call'.name # "perform" /\ call'.at \notin {"acting", "crashed"}
    BY <2>2, IdleCall
  <2>4. Between'
    <3>1. k # Len(UG') /\ US'[Len(UG')] = Len(UG') - k
      BY <1>1, <1>2, <1>4, <1>5, <1>9
    <3>2. /\ \A j \in 1..Len(UG') : UG'[j] # 0
          /\ \A j \in 1..Len(RG') : RG'[j] # 0
      BY <1>0 DEF Numbered
    <3>3. Split(UG', US', Len(UG'), RG', RS', Len(RG'), 0)
      BY <1>4, <1>7, <3>1, <3>2, Rejoined
    <3>. QED
      BY <3>3 DEF Between
  <2>. QED
    BY <1>8, <2>3, <2>4 DEF GroupsInv
<1>10. CASE call.left # 1
  <2>1. call' = [call EXCEPT !.at = "wait", !.left = @ - 1, !.made = call.made + 1]
    BY <1>10 DEF PerformAction
  <2>2. call'.name = "perform" /\ call'.at = "wait" /\ call'.made = call.made + 1 /\ call'.of = call.of
    BY <1>1, <2>1 DEF Performing
  <2>. QED
    BY <1>5, <1>7, <1>8, <2>2 DEF GroupsInv
<1>. QED
  BY <1>9, <1>10

(* One move of a group from one stack to another, or off a stack.          *)
LEMMA Shifted ==
  ASSUME NEW g, NEW n, NEW h, NEW m, NEW c, NEW d, NEW b, NEW e,
         NEW left \in Nat \ {0}, NEW put \in Nat, NEW down \in {0, 1},
         Len(g) \in Nat \ {0}, Len(h) \in Nat, Moving(g, n, h, m, left, put),
         Len(c) = Len(g) - 1, \A j \in 1..Len(c) : c[j] = g[j] /\ d[j] = n[j],
         Len(b) = Len(h) + down, \A j \in 1..Len(h) : b[j] = h[j] /\ e[j] = m[j],
         down = 1 => b[Len(h) + 1] = g[Len(g)],
         left = 1 /\ put + down # 0 => e[Len(b)] = put + down
  PROVE  Moving(c, d, b, e, left - 1, put + down)
<1>1. PICK x : Split(g, n, Len(g) - left, h, m, Len(h) - put, x)
  BY DEF Moving
<1>. DEFINE k == Len(g) - left
            l == Len(h) - put
<1>2. k = Len(g) - left /\ l = Len(h) - put /\ k \in 0..Len(g) /\ l \in 0..Len(h)
  BY <1>1 DEF Split
<1>. HIDE DEF k, l
<1>3. \A j \in (k + 1)..Len(g) : g[j] = x
  BY <1>1, <1>2 DEF Split, Run
<1>4. \A j \in (l + 1)..Len(h) : h[j] = x
  BY <1>1, <1>2 DEF Split, Run
<1>5. k <= Len(c) /\ l <= Len(b) /\ Len(c) \in Nat /\ Len(b) \in Nat
      /\ k = Len(c) - (left - 1) /\ l = Len(b) - (put + down)
  BY <1>2
<1>6. \A j \in (k + 1)..Len(c) : c[j] = x
  BY <1>2, <1>3
<1>7. \A j \in (l + 1)..Len(b) : b[j] = x
  <2>1. \A j \in (l + 1)..Len(b) : j \in (l + 1)..Len(h) \/ (down = 1 /\ j = Len(h) + 1)
    BY <1>2
  <2>2. g[Len(g)] = x
    BY <1>2, <1>3
  <2>3. \A j \in (l + 1)..Len(h) : j \in 1..Len(h)
    BY <1>2
  <2>. QED
    BY <1>4, <2>1, <2>2, <2>3
<1>8. /\ \A j \in 1..k : c[j] = g[j] /\ d[j] = n[j]
      /\ \A j \in 1..l : b[j] = h[j] /\ e[j] = m[j]
  BY <1>2, <1>5
<1>9. Split(c, d, k, b, e, l, x)
  <2>1. Split(g, n, k, h, m, l, x)
    BY <1>1, <1>2
  <2>2. Above(c, d, g, n, k, x)
    BY <1>5, <1>6, <1>8 DEF Above
  <2>3. Above(b, e, h, m, l, x)
    BY <1>5, <1>7, <1>8 DEF Above
  <2>. QED
    BY <2>1, <2>2, <2>3, SplitSame
<1>10. left - 1 = 0 /\ put + down # 0 => e[Len(b)] = put + down
  OBVIOUS
<1>. QED
  BY <1>5, <1>9, <1>10 DEF Moving

LEMMA MoveShifts ==
  ASSUME MaxLength = -1, HistoryInv, HistoryInv', GroupsInv, UndoOrRedoOne
  PROVE  GroupsInv'
<1>0. TypeInv /\ Numbered
  BY NumbersAre DEF HistoryInv
<1>1. /\ call \in Acting /\ call.i < call.n /\ call' = [call EXCEPT !.i = call.i + 1]
      /\ call.at = "acting" /\ call.name \in {"undo", "redo"}
      /\ call.i \in Nat /\ call.n \in Nat
  BY <1>0, MoveEffect, Bounds DEF Acting, UndoOrRedoOne
<1>2. call'.name = call.name /\ call'.at = "acting" /\ call'.n = call.n /\ call'.i = call.i + 1
  BY <1>1 DEF Acting
<1>3. redo_stack_locked' = redo_stack_locked /\ group' = group
  BY <1>0, MoveEdits
<1>4. Len(UG) \in Nat /\ Len(RG) \in Nat
  BY <1>0 DEF Numbered
<1>. DEFINE left == call.n - call.i
            put == IF call.name = "undo" /\ redo_stack_locked THEN 0 ELSE call.i
            down == IF call.name = "undo" /\ redo_stack_locked THEN 0 ELSE 1
<1>5. left \in Nat \ {0} /\ put \in Nat /\ down \in {0, 1} /\ left - 1 = call'.n - call'.i
      /\ put + down = (IF call.name = "undo" /\ redo_stack_locked THEN 0 ELSE call'.i)
      /\ (left = 1 /\ put + down # 0 => call.i = call.n - 1 /\ put + down = call.n /\ call.n # 0 /\ down = 1)
  BY <1>1, <1>2
<1>6. CASE call.name = "undo"
  <2>1. Moving(UG, US, RG, RS, left, put)
    BY <1>1, <1>6 DEF GroupsInv
  <2>2. /\ Len(UG) \in Nat \ {0} /\ Len(UG') = Len(UG) - 1
        /\ \A j \in 1..Len(UG') : UG'[j] = UG[j] /\ US'[j] = US[j]
        /\ \A j \in 1..Len(RG) : RG'[j] = RG[j] /\ RS'[j] = RS[j]
        /\ Len(RG') = Len(RG) + down /\ (down = 1 => RG'[Len(RG) + 1] = UG[Len(UG)])
        /\ down = 1 /\ call.i = call.n - 1 /\ call.n # 0 => RS'[Len(RG')] = call.n
    BY <1>4, <1>6, MoveGroups
  <2>3. left = 1 /\ put + down # 0 => RS'[Len(RG')] = put + down
    BY <1>5, <2>2
  <2>. HIDE DEF left, put, down
  <2>4. Moving(UG', US', RG', RS', left - 1, put + down)
    BY <1>4, <1>5, <2>1, <2>2, <2>3, Shifted
  <2>5. Moving(UG', US', RG', RS', call'.n - call'.i, IF redo_stack_locked' THEN 0 ELSE call'.i)
    BY <1>3, <1>5, <1>6, <2>4
  <2>. QED
    BY <1>2, <1>3, <1>6, <2>5 DEF GroupsInv
<1>7. CASE call.name = "redo"
  <2>1. Moving(RG, RS, UG, US, left, put)
    BY <1>1, <1>7 DEF GroupsInv
  <2>2. /\ Len(RG) \in Nat \ {0} /\ Len(RG') = Len(RG) - 1
        /\ \A j \in 1..Len(RG') : RG'[j] = RG[j] /\ RS'[j] = RS[j]
        /\ \A j \in 1..Len(UG) : UG'[j] = UG[j] /\ US'[j] = US[j]
        /\ Len(UG') = Len(UG) + down /\ UG'[Len(UG) + 1] = RG[Len(RG)]
        /\ call.i = call.n - 1 /\ call.n # 0 => US'[Len(UG')] = call.n
    BY <1>4, <1>7, MoveGroups
  <2>3. left = 1 /\ put + down # 0 => US'[Len(UG')] = put + down
    BY <1>5, <2>2
  <2>. HIDE DEF left, put, down
  <2>4. Moving(RG', RS', UG', US', left - 1, put + down)
    BY <1>4, <1>5, <2>1, <2>2, <2>3, Shifted
  <2>5. Moving(RG', RS', UG', US', call'.n - call'.i, call'.i)
    BY <1>5, <1>7, <2>4
  <2>. QED
    BY <1>2, <1>3, <1>7, <2>5 DEF GroupsInv
<1>. QED
  BY <1>1, <1>6, <1>7
LEMMA QuietSequences ==
  ASSUME Quiet
  PROVE  UG' = UG /\ RG' = RG /\ US' = US /\ RS' = RS /\ group' = group
BY DEF Quiet, UG, RG, US, RS, UE, RE, EditsOf, U, R

(* When nothing is being moved or performed, and stays so.                 *)
LEMMA StaysBetween ==
  ASSUME GroupsInv, Between, Quiet,
         call'.name # "perform", call'.at \notin {"acting", "crashed"}
  PROVE  GroupsInv'
<1>1. Between'
  BY QuietSequences DEF Between
<1>. QED
  BY <1>1, QuietSequences DEF GroupsInv

LEMMA ReturnsTo ==
  ASSUME Return
  PROVE  call'.name # "perform" /\ call'.at \notin {"acting", "crashed"}
BY IdleCall DEF Return

LEMMA BeginPerformBetween ==
  ASSUME MaxLength = -1, HistoryInv, GroupsInv, NEW n \in 1..MaxGroup, NEW counts \in {"last", "each"},
         NEW cancelled \in BOOLEAN, BeginPerform(n, counts, cancelled)
  PROVE  GroupsInv'
<1>0. TypeInv /\ Numbered
  BY NumbersAre DEF HistoryInv
<1>1. Quiet /\ Between
  BY IdleCall DEF BeginPerform, Quiet, GroupsInv
<1>. DEFINE of == 1 + (IF group = << >> THEN 0 ELSE Last(group))
<1>2. call'.name = "perform" /\ call'.at = "wait" /\ call'.made = 0 /\ call'.of = of
  BY DEF BeginPerform
<1>3. of \in Nat /\ \A y \in 1..Len(group) : group[y] < of
  <2>1. CASE group = << >>
    <3>1. 1..Len(group) = {}
      BY <2>1, EmptySeq
    <3>. QED
      BY <2>1, <3>1
  <2>2. CASE group # << >>
    <3>1. group \in Seq(Nat \ {0})
      BY <1>0 DEF Numbered
    <3>2. Last(group) \in Nat \ {0}
      BY <2>2, <3>1, FrontIs
    <3>3. \A y \in 1..Len(group) : group[y] \in Nat /\ group[y] <= Last(group)
      BY <3>1, ElementOfSeq DEF GroupsInv
    <3>. QED
      BY <2>2, <3>2, <3>3
  <2>. QED
    BY <2>1, <2>2
<1>4. Split(UG, US, Len(UG), RG, RS, Len(RG), of)
  <2>0. \A y \in 1..Len(group) : group[y] # of
    <3>1. \A y \in 1..Len(group) : group[y] \in Nat
      BY <1>0, ElementOfSeq DEF Numbered
    <3>. HIDE DEF of
    <3>. QED
      BY <1>3, <3>1
  <2>1. \A j \in 1..Len(UG) : UG[j] # of
    <3>1. \A j \in 1..Len(UG) : UG[j] = group[UE[j]] /\ UE[j] \in 1..Len(group)
      BY <1>0 DEF Numbered
    <3>. HIDE DEF of
    <3>. QED
      BY <2>0, <3>1
  <2>2. \A j \in 1..Len(RG) : RG[j] # of
    <3>1. \A j \in 1..Len(RG) : RG[j] = group[RE[j]] /\ RE[j] \in 1..Len(group)
      BY <1>0 DEF Numbered
    <3>. HIDE DEF of
    <3>. QED
      BY <2>0, <3>1
  <2>3. Len(UG) \in Nat /\ Len(RG) \in Nat
    BY <1>0 DEF Numbered
  <2>. HIDE DEF of
  <2>. QED
    BY <1>1, <2>1, <2>2, <2>3, Rejoined DEF Between
<1>. HIDE DEF of
<1>5. Len(UG) - 0 = Len(UG)
  BY <1>0 DEF Numbered
<1>6. /\ UG' = UG /\ RG' = RG /\ US' = US /\ RS' = RS /\ group' = group
      /\ Len(UG) - call'.made = Len(UG)
  BY <1>1, <1>2, <1>5, QuietSequences
<1>7. \A y \in 1..Len(group) : group[y] <= of
  BY <1>0, <1>3, ElementOfSeq DEF Numbered
<1>. QED
  BY <1>2, <1>4, <1>6, <1>7 DEF GroupsInv

LEMMA ReadGroupOpens ==
  ASSUME MaxLength = -1, HistoryInv, GroupsInv, ReadGroup
  PROVE  GroupsInv'
<1>0. TypeInv /\ Numbered
  BY NumbersAre DEF HistoryInv
<1>1. /\ Quiet /\ call \in Asking
      /\ \/ Source = << >> /\ Return
         \/ /\ Source # << >> /\ call' \in Acting /\ call'.name = call.name /\ call'.i = 0
            /\ call'.again = call.again /\ call'.at = "acting"
            /\ call'.n = action[Top].num_actions /\ redo_stack_locked' = redo_stack_locked
  BY <1>0, ReadGroupTypes
<1>2. call.name \in {"undo", "redo"} /\ call.at = "holding" /\ Between
  BY DEF ReadGroup, GroupsInv
<1>3. CASE Source = << >> /\ Return
  BY <1>1, <1>2, <1>3, ReturnsTo, StaysBetween
<1>4. CASE Source # << >> /\ call'.at = "acting"
  <2>1. /\ call'.name = call.name /\ call'.i = 0 /\ call'.n = action[Top].num_actions
        /\ redo_stack_locked' = redo_stack_locked /\ call'.n \in Nat
    BY <1>1, <1>4, ReturnsTo, Bounds DEF Acting
  <2>2. /\ call.name = "undo" => Source = U
        /\ call.name # "undo" => Source = R
        /\ Source \in Seq(Addrs)
    BY <1>0, Sides DEF Stacked
  <2>3. Len(Source) \in Nat \ {0} /\ Top = Source[Len(Source)]
    <3>1. PICK q \in Seq(Addrs) : q = Source
      BY <2>2
    <3>2. Len(q) \in Nat \ {0} /\ Last(q) = q[Len(q)]
      BY <1>4, <3>1, FrontIs
    <3>. QED
      BY <3>1, <3>2 DEF Top
  <2>4. Len(UG) \in Nat /\ Len(RG) \in Nat /\ Len(UG) = Len(U) /\ Len(RG) = Len(R)
    BY <1>0 DEF Numbered
  <2>5. CASE call.name = "undo"
    <3>1. US[Len(UG)] = call'.n /\ Len(UG) \in Nat \ {0}
      BY <1>0, <2>1, <2>2, <2>3, <2>4, <2>5 DEF Numbered
    <3>2. call'.n \in 1..Len(UG) /\ Split(UG, US, Len(UG) - call'.n, RG, RS, Len(RG), UG[Len(UG)])
      BY <1>2, <2>4, <3>1, Opened DEF Between
    <3>3. /\ call'.n - call'.i = call'.n /\ call'.n # 0 /\ Len(RG) - 0 = Len(RG)
          /\ (IF redo_stack_locked' THEN 0 ELSE call'.i) = 0
      BY <2>1, <2>4, <3>2
    <3>4. Moving(UG, US, RG, RS, call'.n, 0)
      BY <3>2, <3>3 DEF Moving
    <3>5. Moving(UG', US', RG', RS', call'.n - call'.i, IF redo_stack_locked' THEN 0 ELSE call'.i)
      BY <1>1, <3>3, <3>4, QuietSequences
    <3>. QED
      BY <1>1, <1>4, <2>1, <2>5, <3>5, QuietSequences DEF GroupsInv
  <2>6. CASE call.name = "redo"
    <3>1. RS[Len(RG)] = call'.n /\ Len(RG) \in Nat \ {0}
      BY <1>0, <2>1, <2>2, <2>3, <2>4, <2>6 DEF Numbered
    <3>2. Split(RG, RS, Len(RG), UG, US, Len(UG), 0)
      BY <1>2, SplitSwapped DEF Between
    <3>3. call'.n \in 1..Len(RG) /\ Split(RG, RS, Len(RG) - call'.n, UG, US, Len(UG), RG[Len(RG)])
      BY <2>4, <3>1, <3>2, Opened
    <3>4. call'.n - call'.i = call'.n /\ call'.n # 0 /\ Len(UG) - 0 = Len(UG) /\ call'.i = 0
      BY <2>1, <2>4, <3>3
    <3>5. Moving(RG, RS, UG, US, call'.n, 0)
      BY <3>3, <3>4 DEF Moving
    <3>6. Moving(RG', RS', UG', US', call'.n - call'.i, call'.i)
      BY <1>1, <3>4, <3>5, QuietSequences
    <3>. QED
      BY <1>1, <1>4, <2>1, <2>6, <3>6, QuietSequences DEF GroupsInv
  <2>. QED
    BY <1>2, <2>5, <2>6
<1>. QED
  BY <1>1, <1>3, <1>4

(* A group that was moved is whole on the other stack.                     *)
LEMMA MovedWhole ==
  ASSUME NEW g, NEW n, NEW h, NEW m, NEW put \in Nat, Len(g) \in Nat, Len(h) \in Nat,
         Moving(g, n, h, m, 0, put),
         \A j \in 1..Len(g) : g[j] # 0, \A j \in 1..Len(h) : h[j] # 0
  PROVE  Split(g, n, Len(g), h, m, Len(h), 0)
<1>1. PICK x : /\ Split(g, n, Len(g) - 0, h, m, Len(h) - put, x)
               /\ put # 0 => m[Len(h)] = put
  BY DEF Moving
<1>2. PICK l : l = Len(h) - put
  OBVIOUS
<1>3. Split(g, n, Len(g), h, m, l, x)
  BY <1>1, <1>2
<1>4. l # Len(h) => m[Len(h)] = Len(h) - l
  BY <1>1, <1>2
<1>. QED
  BY <1>3, <1>4, Rejoined

LEMMA EndMovesBetween ==
  ASSUME MaxLength = -1, HistoryInv, GroupsInv, EndUndoOrRedo
  PROVE  GroupsInv'
<1>0. TypeInv /\ Numbered
  BY NumbersAre DEF HistoryInv
<1>1. /\ Quiet /\ call \in Acting /\ call.i = call.n /\ Return /\ call.at = "acting"
      /\ call.name \in {"undo", "redo"} /\ call.i \in Nat
  BY <1>0, EndUndoOrRedoTypes DEF Acting
<1>2. /\ Len(UG) \in Nat /\ Len(RG) \in Nat /\ call.n - call.i = 0
      /\ \A j \in 1..Len(UG) : UG[j] # 0
      /\ \A j \in 1..Len(RG) : RG[j] # 0
  BY <1>0, <1>1 DEF Numbered
<1>3. CASE call.name = "undo"
  <2>1. PICK put \in Nat : put = IF redo_stack_locked THEN 0 ELSE call.i
    BY <1>1
  <2>2. Moving(UG, US, RG, RS, 0, put)
    BY <1>1, <1>2, <1>3, <2>1 DEF GroupsInv
  <2>3. Between
    BY <1>2, <2>2, MovedWhole DEF Between
  <2>. QED
    BY <1>1, <2>3, ReturnsTo, StaysBetween
<1>4. CASE call.name = "redo"
  <2>1. Moving(RG, RS, UG, US, 0, call.i)
    BY <1>1, <1>2, <1>4 DEF GroupsInv
  <2>2. Split(RG, RS, Len(RG), UG, US, Len(UG), 0)
    BY <1>1, <1>2, <2>1, MovedWhole
  <2>3. Between
    BY <2>2, SplitSwapped DEF Between
  <2>. QED
    BY <1>1, <2>3, ReturnsTo, StaysBetween
<1>. QED
  BY <1>1, <1>3, <1>4

(* The stack is never shorter than what is left of the group.              *)
LEMMA NoCrash ==
  ASSUME HistoryInv, GroupsInv, Crash
  PROVE  FALSE
<1>0. TypeInv /\ Numbered
  BY NumbersAre DEF HistoryInv
<1>1. call \in Acting /\ call.at = "acting" /\ call.i < call.n /\ Source = << >>
  BY <1>0, CallShapes, IdleCall DEF Crash, Source, TypeInv, CallInv, Performing, Asking, Saving
<1>2. call.name \in {"undo", "redo"} /\ call.i \in Nat /\ call.n \in Nat
  BY <1>1, Bounds DEF Acting
<1>3. Len(Source) = 0
  BY <1>1, EmptySeq
<1>4. CASE call.name = "undo"
  <2>1. Len(UG) = 0
    BY <1>0, <1>3, <1>4, Sides DEF Numbered
  <2>2. Len(UG) - (call.n - call.i) \in 0..Len(UG)
    BY <1>1, <1>4 DEF GroupsInv, Moving, Split
  <2>. QED
    BY <1>1, <1>2, <2>1, <2>2
<1>5. CASE call.name = "redo"
  <2>1. Len(RG) = 0
    BY <1>0, <1>3, <1>5, Sides DEF Numbered
  <2>2. Len(RG) - (call.n - call.i) \in 0..Len(RG)
    BY <1>1, <1>5 DEF GroupsInv, Moving, Split
  <2>. QED
    BY <1>1, <1>2, <2>1, <2>2
<1>. QED
  BY <1>2, <1>4, <1>5

LEMMA WaitGroups ==
  ASSUME MaxLength = -1, HistoryInv, GroupsInv, Wait
  PROVE  GroupsInv'
<1>0. TypeInv
  BY DEF HistoryInv
<1>1. Quiet /\ call.at = "wait" /\ call' = [call EXCEPT !.at = "holding"]
  BY <1>0, WaitTypes DEF Wait
<1>2. call \in Performing \cup Asking \cup Saving
  BY <1>0, <1>1, IdleCall DEF TypeInv, CallInv, Acting
<1>3. CASE call \in Performing
  <2>1. call'.name = "perform" /\ call'.at = "holding" /\ call'.made = call.made /\ call'.of = call.of
        /\ call.name = "perform"
    BY <1>1, <1>3 DEF Performing
  <2>. QED
    BY <1>1, <2>1, QuietSequences DEF GroupsInv
<1>4. CASE call \in Asking \cup Saving
  <2>1. call'.name = call.name /\ call'.at = "holding" /\ call.name # "perform"
    BY <1>1, <1>4 DEF Asking, Saving
  <2>2. Between
    BY <1>1, <2>1 DEF GroupsInv
  <2>. QED
    BY <1>1, <2>1, <2>2, StaysBetween
<1>. QED
  BY <1>2, <1>3, <1>4

LEMMA OtherGroups ==
  ASSUME MaxLength = -1, ~MayFail, HistoryInv, GroupsInv, OtherStep
  PROVE  GroupsInv'
<1>1. CASE UndoOrRedoFails \/ PerformFails
  BY <1>1 DEF UndoOrRedoFails, PerformFails
<1>2. CASE Crash
  BY <1>2, NoCrash
<1>3. CASE \E name \in {"undo", "redo"}, again \in Nat : BeginUndoOrRedo(name, again)
  <2>1. PICK name \in {"undo", "redo"}, again \in Nat : BeginUndoOrRedo(name, again)
    BY <1>3
  <2>2. call = Idle /\ Quiet /\ call' = [name |-> name, at |-> "wait", again |-> again]
    BY <2>1 DEF BeginUndoOrRedo, Quiet
  <2>3. Between /\ call'.name # "perform" /\ call'.at = "wait"
    BY <2>2, IdleCall DEF GroupsInv
  <2>. QED
    BY <2>2, <2>3, StaysBetween
<1>4. CASE EndAutosave
  <2>1. call.name = "autosave" /\ call.at = "holding" /\ Quiet /\ call' = Idle
    BY <1>4 DEF EndAutosave, Quiet
  <2>2. Between
    BY <2>1 DEF GroupsInv
  <2>. QED
    BY <2>1, <2>2, IdleCall, StaysBetween
<1>5. CASE Save \/ BeginAutosave
  <2>1. /\ call = Idle /\ Quiet
        /\ call' = Idle \/ call' = [name |-> "autosave", at |-> "wait"]
    BY <1>5 DEF Save, BeginAutosave, Quiet
  <2>2. Between /\ call'.name # "perform" /\ call'.at \notin {"acting", "crashed"}
    BY <2>1, IdleCall DEF GroupsInv
  <2>. QED
    BY <2>1, <2>2, StaysBetween
<1>. QED
  BY <1>1, <1>2, <1>3, <1>4, <1>5, WaitGroups, ReadGroupOpens, EndMovesBetween,
     BeginPerformBetween DEF OtherStep
LEMMA GroupsAlways ==
  ASSUME MaxLength = -1, ~MayFail
  PROVE  Spec => [](HistoryInv /\ GroupsInv)
<1>1. Init => GroupsInv
  <2>. SUFFICES ASSUME Init PROVE GroupsInv
    OBVIOUS
  <2>1. HistoryInv
    BY InitHistory
  <2>2. Numbered /\ U = << >> /\ R = << >> /\ group = << >> /\ call = Idle
    BY <2>1, NumbersAre DEF Init, EmptyStack, U, R
  <2>3. Len(UG) = 0 /\ Len(RG) = 0 /\ Len(group) = 0
    BY <2>2, EmptySeq DEF Numbered
  <2>4. 0 \in 0..0 /\ \A j \in 1..0 : FALSE
    OBVIOUS
  <2>5. \A j \in (0 + 1)..0 : FALSE
    OBVIOUS
  <2>6. Between
    BY <2>3, <2>4, <2>5 DEF Between, Split, Whole, Run, Apart
  <2>. QED
    BY <2>2, <2>3, <2>4, <2>6, IdleCall DEF GroupsInv
<1>2. HistoryInv /\ HistoryInv' /\ GroupsInv /\ [Next]_vars => GroupsInv'
  <2>. SUFFICES ASSUME HistoryInv, HistoryInv', GroupsInv, [Next]_vars PROVE GroupsInv'
    OBVIOUS
  <2>1. CASE UNCHANGED vars
    <3>1. Quiet /\ call' = call /\ redo_stack_locked' = redo_stack_locked
      BY <2>1 DEF vars, Quiet
    <3>2. GroupsInv
      OBVIOUS
    <3>. QED
      BY <3>1, <3>2, QuietSequences DEF GroupsInv, Between
  <2>. QED
    BY <2>1, PerformJoins, MoveShifts, OtherGroups, Steps
<1>. QED
  BY HistoryAlways, <1>1, <1>2, PTL DEF Spec

(* "One logical action": with stacks of no bounded length, and when no     *)
(* action fails, every operation of the user is done or undone as a whole, *)
(* whichever rows of the menus are chosen, however its actions are counted *)
(* and whatever drags are cancelled.                                       *)
THEOREM GroupsStayWhole ==
  MaxLength = -1 /\ ~MayFail => (Spec => []GroupsWhole)
<1>. SUFFICES ASSUME MaxLength = -1, ~MayFail PROVE Spec => []GroupsWhole
  OBVIOUS
<1>1. HistoryInv /\ GroupsInv => GroupsWhole
  <2>. SUFFICES ASSUME HistoryInv, GroupsInv, call = Idle,
                       NEW e \in ToSet(doc) \cup ToSet(RE), NEW f \in ToSet(doc) \cup ToSet(RE),
                       e \in ToSet(doc), f \notin ToSet(doc)
                PROVE  group[e] # group[f]
    BY DEF GroupsWhole, RE, R
  <2>1. TypeInv /\ DocInv /\ Numbered
    BY NumbersAre DEF HistoryInv
  <2>2. UE \in Seq(Edits) /\ RE \in Seq(Edits) /\ doc \in Seq(Edits)
    BY <2>1, StacksOfActions
  <2>3. PICK i \in 1..Len(doc) : e = doc[i]
    BY <2>2, ToSetOf
  <2>4. PICK j \in 1..Len(RE) : f = RE[j]
    BY <2>2, ToSetOf
  <2>5. Len(UE) = Len(doc) /\ Len(doc) \in Nat /\ UE[i] = doc[i]
    <3>1. Len(doc) \in Nat /\ Len(UE) = Len(doc)
      BY <2>1, <2>2, LenProperties DEF DocInv, EndOf
    <3>2. i \in 1..Len(UE) /\ Len(doc) - Len(UE) + i = i
      BY <3>1
    <3>. QED
      BY <2>1, <3>1, <3>2 DEF DocInv, EndOf
  <2>6. i \in 1..Len(UG) /\ j \in 1..Len(RG) /\ UG[i] = group[e] /\ RG[j] = group[f]
    BY <2>1, <2>3, <2>4, <2>5 DEF Numbered
  <2>7. Apart(UG, Len(UG), RG, Len(RG))
    BY IdleCall DEF GroupsInv, Between, Split
  <2>. QED
    BY <2>6, <2>7 DEF Apart
<1>. QED
  BY GroupsAlways, <1>1, PTL

(* "Stack is empty": a call never runs out of actions in the middle of a   *)
(* group, under the same conditions.                                       *)
THEOREM GroupsAreThere ==
  MaxLength = -1 /\ ~MayFail => (Spec => []GroupsAreOnTheirStack)
<1>. SUFFICES ASSUME MaxLength = -1, ~MayFail PROVE Spec => []GroupsAreOnTheirStack
  OBVIOUS
<1>1. GroupsInv => GroupsAreOnTheirStack
  BY DEF GroupsInv, GroupsAreOnTheirStack
<1>. QED
  BY GroupsAlways, <1>1, PTL
=============================================================================
