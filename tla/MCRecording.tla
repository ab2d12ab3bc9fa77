---------------------------- MODULE MCRecording ----------------------------
(* Instances of Recording for TLC.                                         *)
EXTENDS Recording

CONSTANTS t, a

(* A whole cycle on one side of the punch range, one in which it begins or  *)
(* ends, and one in which the loop ends, with two pauses in a row.         *)
FewSplits == {<<"inside">>, <<"outside">>, <<"outside", "inside">>,
              <<"inside", "outside", "pause">>, <<"inside", "loopEnd", "pause">>}
Alone == [x \in Autos |-> t]
=============================================================================
