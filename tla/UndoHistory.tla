---------------------------- MODULE UndoHistory ----------------------------
(***************************************************************************)
(* What undo and redo promise: one line of edits and a cursor in it.       *)
(* Undoing and redoing move the cursor and change nothing; performing      *)
(* drops what lies after the cursor and goes on from there.  While a drag  *)
(* is cancelled an edit is made and withdrawn at the cursor, and what lies *)
(* after it comes back unchanged.                                          *)
(***************************************************************************)
EXTENDS Integers, Sequences

CONSTANT Edits
VARIABLES timeline, cursor, tentative
vars == <<timeline, cursor, tentative>>

Past == SubSeq(timeline, 1, cursor)
Future == SubSeq(timeline, cursor + 1, Len(timeline))

Init == timeline = << >> /\ cursor = 0 /\ tentative = FALSE

Perform(e) == /\ e \notin {timeline[i] : i \in 1..Len(timeline)}
              /\ ~tentative
              /\ timeline' = Append(Past, e) /\ cursor' = cursor + 1
              /\ UNCHANGED tentative

Undo == ~tentative /\ cursor > 0 /\ cursor' = cursor - 1 /\ UNCHANGED <<timeline, tentative>>
Redo == /\ ~tentative /\ cursor < Len(timeline)
        /\ cursor' = cursor + 1 /\ UNCHANGED <<timeline, tentative>>

(* An edit that may be withdrawn, and its withdrawal.                      *)
Try(e) == /\ e \notin {timeline[i] : i \in 1..Len(timeline)}
          /\ tentative
          /\ timeline' = Past \o <<e>> \o Future /\ cursor' = cursor + 1
          /\ UNCHANGED tentative
Withdraw == /\ tentative /\ cursor > 0
            /\ timeline' = SubSeq(timeline, 1, cursor - 1) \o Future
            /\ cursor' = cursor - 1 /\ UNCHANGED tentative

SetTentative == tentative' = ~tentative /\ UNCHANGED <<timeline, cursor>>

Next == \/ \E e \in Edits : Perform(e) \/ Try(e)
        \/ Undo \/ Redo \/ Withdraw \/ SetTentative

Spec == Init /\ [][Next]_vars
=============================================================================
