----------------------------- MODULE UndoStack -----------------------------
(***************************************************************************)
(* The undo and redo stacks of src/actions/undo_stack.c, over the bounded  *)
(* stack of src/utils/stack.c.  A stack keeps every action twice: in the   *)
(* order of the stack, and in one array per type of action, which is what  *)
(* is written to the project file.  Actions are addresses; kind[a] is the  *)
(* type of the action at address a.                                        *)
(***************************************************************************)
EXTENDS Integers, Sequences, SequencesExt

CONSTANTS Types,       \* the types of undoable actions, as a sequence
          MaxLength    \* the length of a stack, -1 if it is unlimited

ASSUME TypesAssumption == Types \in Seq(STRING) /\ Len(Types) > 0 /\ IsInjective(Types)
ASSUME MaxLengthAssumption == MaxLength \in (Nat \ {0}) \cup {-1}

Kinds == ToSet(Types)

(* `elements' up to `top', the array of each type, and the stack_idx that  *)
(* each action on the stack was last given.                                *)
EmptyStack == [elements |-> << >>, arrays |-> [k \in Kinds |-> << >>],
               stack_idx |-> << >>]

Peek(s) == Last(s.elements)
IsFull(s) == MaxLength # -1 /\ Len(s.elements) = MaxLength

Indexed(elements) ==
  [a \in ToSet(elements) |-> (CHOOSE i \in 1..Len(elements) : elements[i] = a) - 1]

PushBelow(s, a, k) ==
  [s EXCEPT !.elements = <<a>> \o @, !.arrays[k] = Append(@, a),
            !.stack_idx = Indexed(<<a>> \o s.elements)]
(* undo_stack_push: the stack refuses an element when it is full, the      *)
(* array of its type does not.                                             *)
Push(s, a, k) ==
  LET pushed == IF IsFull(s) THEN s.elements ELSE Append(s.elements, a)
  IN [elements  |-> pushed,
      arrays    |-> [s.arrays EXCEPT ![k] = Append(@, a)],
      stack_idx |-> [b \in DOMAIN s.stack_idx \cup {a} |->
                       IF b = a THEN Len(pushed) - 1 ELSE s.stack_idx[b]]]

RemoveKeepingIndices(s, remaining, a) ==
  [s EXCEPT !.elements = remaining,
            !.arrays = [k \in Kinds |-> RemoveFirst(s.arrays[k], a)]]
(* remove_action, after the stack itself has lost the action.              *)
RemoveAction(s, remaining, a) ==
  [elements  |-> remaining,
   arrays    |-> [k \in Kinds |-> RemoveFirst(s.arrays[k], a)],
   stack_idx |-> Indexed(remaining)]

PopNothing(s) == s
Pop(s) == RemoveAction(s, Front(s.elements), Last(s.elements))

(* Takes the oldest action away: only ever used on a full stack.           *)
PopLast(s) == RemoveAction(s, Tail(s.elements), Head(s.elements))

(* undo_stack_get_total_cached_actions.                                    *)
Total(s) ==
  LET upto[i \in 0..Len(Types)] ==
        IF i = 0 THEN 0 ELSE upto[i - 1] + Len(s.arrays[Types[i]])
  IN upto[Len(Types)]

(* undo_stack_init_loaded: rebuilds the stack from the arrays and the      *)
(* indices.  The next action of a type is pushed if its index is the next  *)
(* one, and every round offers one action of each type in turn.            *)
Offer(s, r, k) ==
  LET a == s.arrays[k][r.next[k]]
  IN IF r.next[k] <= Len(s.arrays[k]) /\ s.stack_idx[a] = Len(r.elements)
     THEN [elements |-> Append(r.elements, a), next |-> [r.next EXCEPT ![k] = @ + 1]]
     ELSE r

Round(s, r) ==
  LET turn[i \in 0..Len(Types)] == IF i = 0 THEN r ELSE Offer(s, turn[i - 1], Types[i])
  IN turn[Len(Types)]

InitLoaded(s) ==
  LET round[n \in 0..Total(s)] ==
        IF n = 0 THEN [elements |-> << >>, next |-> [k \in Kinds |-> 1]]
        ELSE Round(s, round[n - 1])
  IN round[Total(s)].elements
=============================================================================
