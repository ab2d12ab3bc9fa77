------------------------- MODULE MCGraphScheduler -------------------------
(* Instances of GraphScheduler for TLC: see README, "Runs and bounds". *)
EXTENDS GraphScheduler, TLC

GraphOf(children) ==
    [nodes |-> DOMAIN children,
     childnodes |-> [n \in Nodes |-> IF n \in DOMAIN children THEN children[n] ELSE << >>]]

AtoD == {"a", "b", "c", "d"}

Split == GraphOf([a |-> <<"c">>, b |-> << >>, c |-> << >>])
Join == GraphOf([a |-> <<"c">>, b |-> <<"c">>, c |-> << >>])
Single == GraphOf([a |-> << >>])

\* Two initial nodes each, and two terminal nodes or one.
SplitAndJoin == {Split, Join}

\* Two initial nodes and two terminal nodes, one of which waits for both: a
\* queue of two cells does not hold them.
Crossed == GraphOf([a |-> <<"c">>, b |-> <<"c", "d">>, c |-> << >>, d |-> << >>])

\* The number of initial nodes stays, grows and shrinks.
CrossedAndSingle == {Crossed, Single}

SplitAndSingle == {Split, Single}

\* What happens once a thread has been overtaken is not explored.
NotOvertaken == ~overtaken

WorkersAlike == Permutations(Workers)
=============================================================================
