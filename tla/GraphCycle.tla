------------------------------ MODULE GraphCycle ------------------------------
(***************************************************************************)
(* What one processing cycle of the DSP graph promises the router: every   *)
(* node is processed exactly once, after every node that feeds it, and the *)
(* cycle is over only when all have been.  The promise ends when the graph *)
(* is replaced under a thread that still starts the last one.              *)
(*                                                                         *)
(* A graph is a record of its nodes and of the sequence of children of     *)
(* each (GraphNode.childnodes).                                            *)
(***************************************************************************)
EXTENDS Naturals, Sequences, FiniteSets

CONSTANT Graphs    \* graphs the setup may install

VARIABLES graph,       \* the graph in use
          running,     \* the router is inside router_start_cycle
          started,     \* nodes whose processing has begun in this cycle
          finished,    \* nodes whose processing is over
          overtaken    \* the graph was replaced too early

cycleVars == <<graph, running, started, finished, overtaken>>

Parents(g, n) ==
    { m \in g.nodes : \E i \in DOMAIN g.childnodes[m] : g.childnodes[m][i] = n }

CycleInit ==
    /\ graph \in Graphs
    /\ running = FALSE
    /\ started = {} /\ finished = {} /\ overtaken = FALSE

BeginCycle ==
    /\ ~running
    /\ running' = TRUE
    /\ started' = {} /\ finished' = {}
    /\ UNCHANGED <<graph, overtaken>>

StartNode(n) ==
    /\ running
    /\ n \in graph.nodes \ started
    /\ Parents(graph, n) \subseteq finished
    /\ started' = started \cup {n}
    /\ UNCHANGED <<graph, running, finished, overtaken>>

FinishNode(n) ==
    /\ n \in started \ finished
    /\ finished' = finished \cup {n}
    /\ UNCHANGED <<graph, running, started, overtaken>>

EndCycle ==
    /\ running /\ finished = graph.nodes
    /\ running' = FALSE
    /\ UNCHANGED <<graph, started, finished, overtaken>>

ReplaceGraph(g) ==
    /\ ~running
    /\ graph' = g
    /\ started' = {} /\ finished' = {}
    /\ overtaken' \in BOOLEAN /\ (overtaken => overtaken')
    /\ UNCHANGED running

NoPromise == overtaken /\ overtaken'

CycleNext ==
    \/ BeginCycle \/ EndCycle
    \/ \E n \in graph.nodes : StartNode(n) \/ FinishNode(n)
    \/ \E g \in Graphs : ReplaceGraph(g)
    \/ NoPromise

CycleSpec == CycleInit /\ [][CycleNext]_cycleVars
=============================================================================
