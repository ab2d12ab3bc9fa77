--------------------------- MODULE MCUndoManager ---------------------------
(* Instances of UndoManager for TLC.                                       *)
EXTENDS UndoManager, TLC

TwoTypes == <<"arranger", "tracklist">>
Unlimited == -1
OneType == <<"arranger">>
AnyAddr == Permutations(Addrs)
=============================================================================
