---------------------------- MODULE GraphScheduler ----------------------------
(***************************************************************************)
(* The threads that process the DSP graph: the workers and the main thread *)
(* of graph_thread.c, the refcount protocol of graph_node.c, the end of a  *)
(* cycle and termination of graph.c, and the two callers they serve: the   *)
(* router (router_start_cycle) and the GTK thread (graph_start,            *)
(* graph_rechain, graph_terminate).                                        *)
(*                                                                         *)
(* One action per access to shared state.  The trigger queue is            *)
(* QueueSlots', which MpmcQueue refines.  What processing a node computes  *)
(* is left out: between StartNode and FinishNode a node is being processed.*)
(***************************************************************************)
EXTENDS QueueSlots, SequencesExt

CONSTANTS Workers,      \* the num_threads worker threads
          MainThread,   \* graph->main_thread
          Nodes,        \* all GraphNodes there ever are
          Graphs,       \* graphs the setup may build: [nodes, childnodes]
          NewQueueSize, \* what mpmc_queue_new reserves: 8 in the code
          MaxTokens     \* bound on the count of the trigger semaphore

Threads == Workers \cup {MainThread}

num_threads == Cardinality(Workers)

\* GraphNode.childnodes as a set, and its inverse.
Children(g, n) == ToSet(g.childnodes[n])
Parents(g, n) == { m \in g.nodes : n \in Children(g, m) }

\* GraphNode.init_refcount, Graph.init_trigger_list and Graph.n_terminal_nodes
InitRefcount(g, n) == Cardinality(Parents(g, n))
InitTriggers(g) == SetToSeq({ n \in g.nodes : Parents(g, n) = {} })
NumTerminal(g) == Cardinality({ n \in g.nodes : g.childnodes[n] = << >> })

\* is_valid, which refuses a connection that closes a cycle: the nodes can be
\* ranked, each above those it feeds.
IsValid(g) ==
    \E rank \in [g.nodes -> 0 .. Cardinality(g.nodes)] :
        \A n \in g.nodes : \A c \in Children(g, n) : rank[c] < rank[n]

ASSUME ThreadsAssumption ==
    /\ IsFiniteSet(Workers)
    /\ MainThread \notin Workers
    /\ "nobody" \notin Threads

ASSUME GraphsAssumption ==
    \A g \in Graphs :
        /\ g.nodes \subseteq Nodes /\ IsFiniteSet(g.nodes) /\ g.nodes # {}
        /\ g.childnodes \in [Nodes -> Seq(Nodes)]
        /\ \A n \in g.nodes : Children(g, n) \subseteq g.nodes
        /\ \* graph_node_connect adds no child twice
           \A n \in g.nodes : IsInjective(g.childnodes[n])
        /\ IsValid(g)

ASSUME BoundsAssumption ==
    /\ MaxTokens \in Nat
    /\ NewQueueSize \in 1 .. MaxCells
    /\ \A g \in Graphs : Cardinality(g.nodes) \in 1 .. MaxCells

VARIABLES
    \* struct Graph
    graph,               \* graph_nodes with their childnodes
    refcount,            \* GraphNode.refcount
    terminal_refcnt, trigger_queue_size, idle_thread_cnt, terminate,
    trigger_queue,       \* slots of the queue
    cap,                 \* its cells
    trigger, callback_start, callback_done,    \* semaphores
    \* struct Router
    callback_in_progress,
    \* control and locals of the threads
    pc,                  \* where each thread is
    to_run,              \* the node a thread has taken
    todo,                \* children a thread has still to trigger
    next_init,           \* how many initial nodes it has pushed
    wakeup,              \* wake-ups a thread has still to post
    router_pc,           \* "rest", "post", "wait", "clear"
    gtk_pc, tokens,      \* graph_start and graph_terminate
    \* history: what GraphCycle observes
    started, finished,
    overtaken            \* a thread has been overtaken by a rechain (see Overtakes)

graphVars == <<graph, refcount, terminal_refcnt, cap, overtaken>>
countVars == <<trigger_queue_size, idle_thread_cnt>>
semVars == <<trigger, callback_start, callback_done>>
localVars == <<to_run, todo, next_init, wakeup>>
callerVars == <<router_pc, gtk_pc, tokens, callback_in_progress, terminate>>
historyVars == <<started, finished>>

vars == <<graphVars, countVars, trigger_queue, semVars, pc, localVars,
          callerVars, historyVars>>

NoNode == "none"

Goto(t, l) == pc' = [pc EXCEPT ![t] = l]

\* Mutant: the queue is not enlarged with the graph.
ReservedOnce(c, g) == c

\* mpmc_queue_reserve (number of nodes) on a queue of c cells: it only grows.
Reserved(c, g) ==
    LET wanted == PowerOfTwoSize(Cardinality(g.nodes))
    IN  IF wanted > c THEN wanted ELSE c

Init ==
    /\ graph \in Graphs
    /\ refcount = [n \in Nodes |->
           IF n \in graph.nodes THEN InitRefcount(graph, n) ELSE 0]
    /\ terminal_refcnt = NumTerminal(graph)
    /\ cap = Reserved(PowerOfTwoSize(NewQueueSize), graph)
    /\ trigger_queue_size = 0 /\ idle_thread_cnt = 0
    /\ trigger_queue = << >>
    /\ trigger = 0 /\ callback_start = 0 /\ callback_done = 0
    /\ pc = [t \in Threads |-> IF t = MainThread THEN "await_workers" ELSE "top"]
    /\ to_run = [t \in Threads |-> NoNode]
    /\ todo = [t \in Threads |-> << >>]
    /\ next_init = [t \in Threads |-> 0]
    /\ wakeup = [t \in Threads |-> 0]
    /\ router_pc = "rest" /\ callback_in_progress = FALSE
    /\ gtk_pc = "starting" /\ tokens = 0 /\ terminate = FALSE
    /\ started = {} /\ finished = {} /\ overtaken = FALSE

---------------------------------------------------------------------------
(* dsp_worker_thread *)

\* Top of the loop: leave if the graph terminates.
Top(t) ==
    /\ pc[t] = "top"
    /\ Goto(t, IF terminate THEN "exited" ELSE "dequeue")
    /\ UNCHANGED <<graphVars, countVars, trigger_queue, semVars, localVars,
                   callerVars, historyVars>>

\* mpmc_queue_dequeue, up to the compare-and-swap that takes the head; "none"
\* when it reports empty.  First attempt, or the one after a wake-up.
DequeueNode(t) ==
    /\ pc[t] \in {"dequeue", "dequeue_again"}
    /\ IF HeadReady(trigger_queue)
       THEN /\ trigger_queue' = Take(trigger_queue, t)
            /\ to_run' = [to_run EXCEPT ![t] = OwnValue(trigger_queue', t)]
            /\ Goto(t, IF pc[t] = "dequeue" THEN "release" ELSE "release_again")
       ELSE /\ Goto(t, "go_idle")
            /\ UNCHANGED <<trigger_queue, to_run>>
    /\ UNCHANGED <<graphVars, countVars, semVars, todo, next_init, wakeup,
                   callerVars, historyVars>>

\* The end of mpmc_queue_dequeue: the cell goes back into circulation.
ReleaseCell(t) ==
    /\ pc[t] \in {"release", "release_again"}
    /\ trigger_queue' = Release(trigger_queue, t)
    /\ Goto(t, IF pc[t] = "release" THEN "count_idle" ELSE "claimed")
    /\ UNCHANGED <<graphVars, countVars, semVars, localVars,
                   callerVars, historyVars>>

\* idle_cnt, then work_avail: wake at most as many threads as are idle and as
\* there is other work.
CountIdle(t) ==
    /\ pc[t] = "count_idle"
    /\ wakeup' = [wakeup EXCEPT ![t] = idle_thread_cnt]
    /\ Goto(t, "count_work")
    /\ UNCHANGED <<graphVars, countVars, trigger_queue, semVars, to_run, todo,
                   next_init, callerVars, historyVars>>

CountWork(t) ==
    /\ pc[t] = "count_work"
    /\ wakeup' = [wakeup EXCEPT ![t] =
           IF @ + 1 <= trigger_queue_size THEN @
           ELSE IF trigger_queue_size > 0 THEN trigger_queue_size - 1 ELSE 0]
    /\ Goto(t, "wake")
    /\ UNCHANGED <<graphVars, countVars, trigger_queue, semVars, to_run, todo,
                   next_init, callerVars, historyVars>>

PostTrigger(t) ==
    /\ pc[t] = "wake"
    /\ wakeup[t] > 0
    /\ trigger < MaxTokens
    /\ trigger' = trigger + 1
    /\ wakeup' = [wakeup EXCEPT ![t] = @ - 1]
    /\ UNCHANGED <<graphVars, countVars, trigger_queue, callback_start,
                   callback_done, pc, to_run, todo, next_init, callerVars,
                   historyVars>>

AllWoken(t) ==
    /\ pc[t] = "wake"
    /\ wakeup[t] = 0
    /\ Goto(t, "claimed")
    /\ UNCHANGED <<graphVars, countVars, trigger_queue, semVars, localVars,
                   callerVars, historyVars>>

\* No node to run: the thread counts itself idle and waits for work.
GoIdle(t) ==
    /\ pc[t] = "go_idle"
    /\ idle_thread_cnt' = idle_thread_cnt + 1
    /\ Goto(t, "wait_trigger")
    /\ UNCHANGED <<graphVars, trigger_queue_size, trigger_queue, semVars,
                   localVars, callerVars, historyVars>>

WaitTrigger(t) ==
    /\ pc[t] = "wait_trigger"
    /\ trigger > 0
    /\ trigger' = trigger - 1
    /\ Goto(t, "woken")
    /\ UNCHANGED <<graphVars, countVars, trigger_queue, callback_start,
                   callback_done, localVars, callerVars, historyVars>>

\* terminate is read before the thread stops counting as idle: a thread that
\* leaves here stays counted.
Woken(t) ==
    /\ pc[t] = "woken"
    /\ Goto(t, IF terminate THEN "exited" ELSE "not_idle")
    /\ UNCHANGED <<graphVars, countVars, trigger_queue, semVars, localVars,
                   callerVars, historyVars>>

\* Mutant: a woken thread stays counted as idle.
NotIdleUncounted(t) ==
    /\ pc[t] = "not_idle"
    /\ Goto(t, "dequeue_again")
    /\ UNCHANGED <<graphVars, countVars, trigger_queue, semVars, localVars,
                   callerVars, historyVars>>

NotIdle(t) ==
    /\ pc[t] = "not_idle"
    /\ idle_thread_cnt' = idle_thread_cnt - 1
    /\ Goto(t, "dequeue_again")
    /\ UNCHANGED <<graphVars, trigger_queue_size, trigger_queue, semVars,
                   localVars, callerVars, historyVars>>

\* The node is this thread's: trigger_queue_size goes down only now.
NodeClaimed(t) ==
    /\ pc[t] = "claimed"
    /\ trigger_queue_size' = trigger_queue_size - 1
    /\ Goto(t, "process")
    /\ UNCHANGED <<graphVars, idle_thread_cnt, trigger_queue, semVars,
                   localVars, callerVars, historyVars>>

---------------------------------------------------------------------------
(* graph_node_process, on_node_finish, graph_node_trigger *)

BeginProcess(t) ==
    /\ pc[t] = "process"
    /\ started' = started \cup {to_run[t]}
    /\ Goto(t, "processing")
    /\ UNCHANGED <<graphVars, countVars, trigger_queue, semVars, localVars,
                   callerVars, finished>>

\* The node is done; on_node_finish runs if a cycle is in progress.
FinishProcess(t) ==
    /\ pc[t] = "processing"
    /\ finished' = finished \cup {to_run[t]}
    /\ IF callback_in_progress
       THEN IF graph.childnodes[to_run[t]] = << >>
            THEN Goto(t, "terminal") /\ UNCHANGED todo
            ELSE /\ todo' = [todo EXCEPT ![t] = graph.childnodes[to_run[t]]]
                 /\ Goto(t, "notify")
       ELSE Goto(t, "top") /\ UNCHANGED todo
    /\ to_run' = [to_run EXCEPT ![t] = NoNode]
    /\ UNCHANGED <<graphVars, countVars, trigger_queue, semVars, next_init, wakeup,
                   callerVars, started>>

\* Mutant: a child starts one parent early.
NotifyChildEarly(t) ==
    /\ pc[t] = "notify" /\ todo[t] # << >>
    /\ LET c == Head(todo[t])
       IN  /\ refcount' = [refcount EXCEPT ![c] = @ - 1]
           /\ IF refcount[c] <= 2
              THEN Goto(t, "reset_refcount") /\ UNCHANGED todo
              ELSE /\ todo' = [todo EXCEPT ![t] = Tail(@)]
                   /\ UNCHANGED pc
    /\ UNCHANGED <<graph, terminal_refcnt, cap, overtaken, countVars, trigger_queue, semVars,
                   to_run, next_init, wakeup, callerVars, historyVars>>

\* The next child: one of its parents less to wait for.
NotifyChild(t) ==
    /\ pc[t] = "notify" /\ todo[t] # << >>
    /\ LET c == Head(todo[t])
       IN  /\ refcount' = [refcount EXCEPT ![c] = @ - 1]
           /\ IF refcount[c] = 1
              THEN Goto(t, "reset_refcount") /\ UNCHANGED todo
              ELSE /\ todo' = [todo EXCEPT ![t] = Tail(@)]
                   /\ UNCHANGED pc
    /\ UNCHANGED <<graph, terminal_refcnt, cap, overtaken, countVars, trigger_queue, semVars,
                   to_run, next_init, wakeup, callerVars, historyVars>>

\* Mutant: feeds stays 0, so every node counts as terminal.
AllNotifiedTerminal(t) ==
    /\ pc[t] = "notify" /\ todo[t] = << >>
    /\ Goto(t, "terminal")
    /\ UNCHANGED <<graphVars, countVars, trigger_queue, semVars, localVars,
                   callerVars, historyVars>>

AllNotified(t) ==
    /\ pc[t] = "notify" /\ todo[t] = << >>
    /\ Goto(t, "top")
    /\ UNCHANGED <<graphVars, countVars, trigger_queue, semVars, localVars,
                   callerVars, historyVars>>

\* Mutant: the refcount of the next cycle is forgotten.
ResetRefcountForgotten(t) ==
    /\ pc[t] = "reset_refcount"
    /\ Goto(t, "enqueue")
    /\ UNCHANGED <<graphVars, countVars, trigger_queue, semVars, localVars,
                   callerVars, historyVars>>

ResetRefcount(t) ==
    /\ pc[t] = "reset_refcount"
    /\ refcount' = [refcount EXCEPT ![Head(todo[t])] =
                        InitRefcount(graph, Head(todo[t]))]
    /\ Goto(t, "enqueue")
    /\ UNCHANGED <<graph, terminal_refcnt, cap, overtaken, countVars, trigger_queue, semVars,
                   localVars, callerVars, historyVars>>

\* trigger_queue_size goes up before the node is pushed: for a triggered child
\* ("enqueue") and for an initial node ("boot", whose loop reads
\* n_init_triggers again each time round).
CountQueued(t) ==
    /\ \/ pc[t] = "enqueue" /\ Goto(t, "push")
       \/ pc[t] = "boot" /\ next_init[t] < Len(InitTriggers(graph)) /\ Goto(t, "boot_push")
    /\ trigger_queue_size' = trigger_queue_size + 1
    /\ UNCHANGED <<graphVars, idle_thread_cnt, trigger_queue, semVars, localVars,
                   callerVars, historyVars>>

\* The loop goes on to the next child or initial node.
NextPush(t) ==
    IF pc[t] \in {"push", "publish"}
    THEN /\ todo' = [todo EXCEPT ![t] = Tail(@)]
         /\ Goto(t, "notify")
         /\ UNCHANGED next_init
    ELSE /\ next_init' = [next_init EXCEPT ![t] = @ + 1]
         /\ Goto(t, "boot")
         /\ UNCHANGED todo

\* mpmc_queue_push_back up to its compare-and-swap.  A full queue drops the
\* node: the push returns 0, which nobody looks at.
PushClaim(t) ==
    /\ pc[t] \in {"push", "boot_push"}
    /\ IF Full(trigger_queue, cap)
       THEN NextPush(t) /\ UNCHANGED trigger_queue
       ELSE /\ trigger_queue' =
                  Claim(trigger_queue,
                        IF pc[t] = "push" THEN Head(todo[t])
                        ELSE InitTriggers(graph)[next_init[t] + 1], t)
            /\ Goto(t, IF pc[t] = "push" THEN "publish" ELSE "boot_publish")
            /\ UNCHANGED <<todo, next_init>>
    /\ UNCHANGED <<graphVars, countVars, semVars, to_run, wakeup,
                   callerVars, historyVars>>

PushPublish(t) ==
    /\ pc[t] \in {"publish", "boot_publish"}
    /\ trigger_queue' = Publish(trigger_queue, t)
    /\ NextPush(t)
    /\ UNCHANGED <<graphVars, countVars, semVars, to_run, wakeup,
                   callerVars, historyVars>>

AllBooted(t) ==
    /\ pc[t] = "boot" /\ next_init[t] >= Len(InitTriggers(graph))
    /\ next_init' = [next_init EXCEPT ![t] = 0]
    /\ Goto(t, "top")
    /\ UNCHANGED <<graphVars, countVars, trigger_queue, semVars, to_run, todo,
                   wakeup, callerVars, historyVars>>

---------------------------------------------------------------------------
(* graph_on_reached_terminal_node: the thread that finishes the last       *)
(* terminal node ends the cycle and starts the next.                       *)

\* Mutant: the cycle ends with the last but one terminal node.
ReachTerminalEarly(t) ==
    /\ pc[t] = "terminal"
    /\ terminal_refcnt' = terminal_refcnt - 1
    /\ Goto(t, IF terminal_refcnt = 2 THEN "cycle_done" ELSE "top")
    /\ UNCHANGED <<graph, refcount, cap, overtaken, countVars, trigger_queue, semVars,
                   localVars, callerVars, historyVars>>

ReachTerminal(t) ==
    /\ pc[t] = "terminal"
    /\ terminal_refcnt' = terminal_refcnt - 1
    /\ Goto(t, IF terminal_refcnt = 1 THEN "cycle_done" ELSE "top")
    /\ UNCHANGED <<graph, refcount, cap, overtaken, countVars, trigger_queue, semVars,
                   localVars, callerVars, historyVars>>

PostCallbackDone(t) ==
    /\ pc[t] = "cycle_done"
    /\ callback_done' = callback_done + 1
    /\ Goto(t, "await_idle")
    /\ UNCHANGED <<graphVars, countVars, trigger_queue, trigger, callback_start,
                   localVars, callerVars, historyVars>>

\* Spins until every other thread counts as idle, then looks at terminate.
OthersIdle(t) ==
    /\ pc[t] = "await_idle"
    /\ idle_thread_cnt = num_threads
    /\ Goto(t, "cycle_over")
    /\ UNCHANGED <<graphVars, countVars, trigger_queue, semVars, localVars,
                   callerVars, historyVars>>

CycleOver(t) ==
    /\ pc[t] = "cycle_over"
    /\ Goto(t, IF terminate THEN "top" ELSE "wait_callback")
    /\ UNCHANGED <<graphVars, countVars, trigger_queue, semVars, localVars,
                   callerVars, historyVars>>

WaitCallbackStart(t) ==
    /\ pc[t] \in {"wait_callback", "first_callback"}
    /\ callback_start > 0
    /\ callback_start' = callback_start - 1
    /\ \* main_thread bootstraps without looking at terminate
       Goto(t, IF pc[t] = "wait_callback" THEN "next_cycle" ELSE "boot")
    /\ UNCHANGED <<graphVars, countVars, trigger_queue, trigger, callback_done,
                   localVars, callerVars, historyVars>>

NextCycle(t) ==
    /\ pc[t] = "next_cycle"
    /\ Goto(t, IF terminate THEN "top" ELSE "reset_terminal")
    /\ UNCHANGED <<graphVars, countVars, trigger_queue, semVars, localVars,
                   callerVars, historyVars>>

\* Mutant: terminal_refcnt is not reset for the next cycle.
ResetTerminalForgotten(t) ==
    /\ pc[t] = "reset_terminal"
    /\ Goto(t, "boot")
    /\ UNCHANGED <<graphVars, countVars, trigger_queue, semVars, localVars,
                   callerVars, historyVars>>

ResetTerminal(t) ==
    /\ pc[t] = "reset_terminal"
    /\ terminal_refcnt' = NumTerminal(graph)
    /\ Goto(t, "boot")
    /\ UNCHANGED <<graph, refcount, cap, overtaken, countVars, trigger_queue, semVars,
                   localVars, callerVars, historyVars>>

\* main_thread: waits until all workers are idle, then for the first callback.
WorkersActive(t) ==
    /\ pc[t] = "await_workers"
    /\ idle_thread_cnt = num_threads
    /\ Goto(t, "first_callback")
    /\ UNCHANGED <<graphVars, countVars, trigger_queue, semVars, localVars,
                   callerVars, historyVars>>

---------------------------------------------------------------------------
(* The router: router_start_cycle, on the audio backend's thread. *)

StartCycle ==
    /\ router_pc = "rest"
    /\ gtk_pc = "running"
    /\ callback_in_progress' = TRUE
    /\ started' = {} /\ finished' = {}
    /\ router_pc' = "post"
    /\ UNCHANGED <<graphVars, countVars, trigger_queue, semVars, pc, localVars,
                   gtk_pc, tokens, terminate>>

PostCallbackStart ==
    /\ router_pc = "post"
    /\ callback_start' = callback_start + 1
    /\ router_pc' = "wait"
    /\ UNCHANGED <<graphVars, countVars, trigger_queue, trigger, callback_done, pc,
                   localVars, gtk_pc, tokens, callback_in_progress, terminate,
                   historyVars>>

WaitCallbackDone ==
    /\ router_pc = "wait"
    /\ callback_done > 0
    /\ callback_done' = callback_done - 1
    /\ router_pc' = "clear"
    /\ UNCHANGED <<graphVars, countVars, trigger_queue, trigger, callback_start, pc,
                   localVars, gtk_pc, tokens, callback_in_progress, terminate,
                   historyVars>>

EndCycle ==
    /\ router_pc = "clear"
    /\ callback_in_progress' = FALSE
    /\ router_pc' = "rest"
    /\ UNCHANGED <<graphVars, countVars, trigger_queue, semVars, pc, localVars,
                   gtk_pc, tokens, terminate, historyVars>>

RouterStep == PostCallbackStart \/ WaitCallbackDone \/ EndCycle

---------------------------------------------------------------------------
(* The GTK thread.  It changes or ends the graph only between two cycles:  *)
(* it has paused the engine (run = 0) and seen cycle_running = 0.          *)

\* graph_start returns once every worker counts as idle.
Started ==
    /\ gtk_pc = "starting"
    /\ idle_thread_cnt = num_threads
    /\ gtk_pc' = "running"
    /\ UNCHANGED <<graphVars, countVars, trigger_queue, semVars, pc, localVars,
                   router_pc, tokens, callback_in_progress, terminate, historyVars>>

\* A thread that has pushed the last initial node, but has still to compare its
\* index with n_init_triggers (end of graph_on_reached_terminal_node, or of the
\* loop in main_thread), finds more of them in g.  Nothing keeps graph_rechain
\* from coming in between: the cycle may be over without that thread.
Overtakes(g) ==
    \E t \in Threads : pc[t] = "boot" /\ next_init[t] < Len(InitTriggers(g))

\* graph_rechain: the setup's nodes, with fresh refcounts, replace the graph's.
Rechain(g) ==
    /\ gtk_pc = "running" /\ router_pc = "rest"
    /\ graph' = g
    /\ refcount' = [n \in Nodes |->
           IF n \in g.nodes THEN InitRefcount(g, n) ELSE 0]
    /\ terminal_refcnt' = NumTerminal(g)
    /\ cap' = Reserved(cap, g)
    /\ trigger_queue' = IF cap' = cap THEN trigger_queue ELSE << >>
    /\ started' = {} /\ finished' = {}
    /\ overtaken' = (overtaken \/ Overtakes(g))
    /\ UNCHANGED <<countVars, semVars, pc, localVars, callerVars>>

\* graph_terminate, after engine_activate (false) or engine_wait_for_pause.
Terminate ==
    /\ gtk_pc = "running" /\ router_pc = "rest"
    /\ terminate' = TRUE
    /\ gtk_pc' = "await_idle"
    /\ UNCHANGED <<graphVars, countVars, trigger_queue, semVars, pc, localVars,
                   router_pc, tokens, callback_in_progress, historyVars>>

AllIdle ==
    /\ gtk_pc = "await_idle"
    /\ idle_thread_cnt = num_threads
    /\ gtk_pc' = "count"
    /\ UNCHANGED <<graphVars, countVars, trigger_queue, semVars, pc, localVars,
                   router_pc, tokens, callback_in_progress, terminate, historyVars>>

\* Mutant: one sleeper too few is woken.
CountSleepersShort ==
    /\ gtk_pc = "count"
    /\ tokens' = idle_thread_cnt - 1
    /\ gtk_pc' = "post"
    /\ UNCHANGED <<graphVars, countVars, trigger_queue, semVars, pc, localVars,
                   router_pc, callback_in_progress, terminate, historyVars>>

\* tc is read a second time, and may differ by now.
CountSleepers ==
    /\ gtk_pc = "count"
    /\ tokens' = idle_thread_cnt
    /\ gtk_pc' = "post"
    /\ UNCHANGED <<graphVars, countVars, trigger_queue, semVars, pc, localVars,
                   router_pc, callback_in_progress, terminate, historyVars>>

WakeSleeper ==
    /\ gtk_pc = "post" /\ tokens > 0
    /\ trigger' = trigger + 1
    /\ tokens' = tokens - 1
    /\ UNCHANGED <<graphVars, countVars, trigger_queue, callback_start,
                   callback_done, pc, localVars, router_pc, gtk_pc,
                   callback_in_progress, terminate, historyVars>>

WakeMain ==
    /\ gtk_pc = "post" /\ tokens = 0
    /\ callback_start' = callback_start + 1
    /\ gtk_pc' = "join"
    /\ UNCHANGED <<graphVars, countVars, trigger_queue, trigger, callback_done, pc,
                   localVars, router_pc, tokens, callback_in_progress, terminate,
                   historyVars>>

Joined ==
    /\ gtk_pc = "join"
    /\ \A t \in Threads : pc[t] = "exited"
    /\ gtk_pc' = "terminated"
    /\ UNCHANGED <<graphVars, countVars, trigger_queue, semVars, pc, localVars,
                   router_pc, tokens, callback_in_progress, terminate, historyVars>>

GtkStep == Started \/ AllIdle \/ CountSleepers \/ WakeSleeper \/ WakeMain \/ Joined

---------------------------------------------------------------------------
ThreadStep(t) ==
    \/ Top(t) \/ DequeueNode(t) \/ ReleaseCell(t)
    \/ CountIdle(t) \/ CountWork(t) \/ PostTrigger(t) \/ AllWoken(t)
    \/ GoIdle(t) \/ WaitTrigger(t) \/ Woken(t) \/ NotIdle(t) \/ NodeClaimed(t)
    \/ BeginProcess(t) \/ FinishProcess(t)
    \/ NotifyChild(t) \/ AllNotified(t) \/ ResetRefcount(t)
    \/ CountQueued(t) \/ PushClaim(t) \/ PushPublish(t) \/ AllBooted(t)
    \/ ReachTerminal(t) \/ PostCallbackDone(t) \/ OthersIdle(t) \/ CycleOver(t)
    \/ WaitCallbackStart(t) \/ NextCycle(t) \/ ResetTerminal(t) \/ WorkersActive(t)

Next ==
    \/ \E t \in Threads : ThreadStep(t)
    \/ StartCycle \/ RouterStep
    \/ \E g \in Graphs : Rechain(g)
    \/ Terminate \/ GtkStep

Spec == Init /\ [][Next]_vars

\* Every thread is scheduled; nobody has to start a cycle, rebuild the graph
\* or terminate it.
FairSpec ==
    /\ Spec
    /\ \A t \in Threads : WF_vars(ThreadStep(t))
    /\ WF_vars(RouterStep)
    /\ WF_vars(GtkStep)

---------------------------------------------------------------------------
(* Properties, as long as no thread has been overtaken by a rechain: what   *)
(* then goes wrong first is RechainFindsNothingQueued.                     *)

Pcs == {"top", "dequeue", "dequeue_again", "release", "release_again",
        "count_idle", "count_work", "wake", "go_idle", "wait_trigger", "woken",
        "not_idle", "claimed", "process", "processing", "notify",
        "reset_refcount", "enqueue", "push", "publish", "boot", "boot_push",
        "boot_publish", "terminal", "cycle_done", "await_idle", "cycle_over",
        "wait_callback", "first_callback", "next_cycle", "reset_terminal",
        "await_workers", "exited"}

TypeOK ==
    /\ graph \in Graphs
    /\ refcount \in [Nodes -> Nat]
    /\ terminal_refcnt \in Nat /\ trigger_queue_size \in Nat
    /\ idle_thread_cnt \in Nat
    /\ cap \in Nat \ {0, 1}
    /\ trigger_queue \in Seq(Slot(Threads, Nodes))
    /\ trigger \in Nat /\ callback_start \in Nat /\ callback_done \in Nat
    /\ pc \in [Threads -> Pcs]
    /\ to_run \in [Threads -> Nodes \cup {NoNode}]
    /\ todo \in [Threads -> Seq(Nodes)]
    /\ next_init \in [Threads -> Nat]
    /\ wakeup \in [Threads -> Nat]
    /\ router_pc \in {"rest", "post", "wait", "clear"}
    /\ gtk_pc \in {"starting", "running", "await_idle", "count", "post", "join",
                   "terminated"}
    /\ tokens \in Nat
    /\ callback_in_progress \in BOOLEAN /\ terminate \in BOOLEAN
    /\ started \subseteq Nodes /\ finished \subseteq Nodes /\ overtaken \in BOOLEAN

\* Each cycle processes every node once, a node only after all the nodes that
\* feed it, and router_start_cycle returns only when all are done, until a
\* thread is overtaken.
Cycle == INSTANCE GraphCycle WITH running <- router_pc # "rest"
ImplementsGraphCycle == Cycle!CycleSpec

\* When the last terminal node is done no node is queued
\* (g_warn_if_fail in graph_on_reached_terminal_node, and in graph_rechain).
NothingQueuedAtEnd ==
    ~overtaken =>
        /\ \A t \in Threads :
              pc[t] \in {"cycle_done", "await_idle"} /\ router_pc # "rest" =>
                  trigger_queue_size = 0
        /\ router_pc = "rest" /\ gtk_pc = "running" =>
               trigger_queue_size = 0 /\ Pending(trigger_queue) = {}

\* Not all threads sleep: the count of idle ones never exceeds num_threads
\* (g_critical "this should never occur" in dsp_worker_thread).
SomebodyAwake == ~overtaken => idle_thread_cnt <= num_threads

\* A queue with as many cells as there are nodes never rejects a push, even
\* while consumers still hold cells of nodes they have taken
\* (mpmc_queue_reserve in graph_rechain; the result of the push is ignored).
PushNeverFails ==
    ~overtaken =>
        \A t \in Threads : pc[t] \in {"push", "boot_push"} => ~Full(trigger_queue, cap)

\* Between cycles every refcount is back at its start value.
RefcountsRestored ==
    ~overtaken /\ router_pc = "rest" =>
        \A n \in graph.nodes : refcount[n] = InitRefcount(graph, n)

\* A cycle that was started is completed: no wake-up is lost and the threads
\* do not wait for one another.
CycleCompletes == (router_pc = "wait") ~> (router_pc = "rest" \/ overtaken)

\* Between two cycles no thread works on a node: whoever is not idle yet only
\* leaves its last loop, probes the queue or ends the cycle.  This is what
\* graph_rechain relies on when it swaps nodes and queue without a lock: the two
\* loops may still have their last test to make, on memory that graph_rechain
\* frees or swaps.
BetweenCyclesQuiet ==
    ~overtaken /\ router_pc = "rest" /\ gtk_pc = "running" =>
        \A t \in Threads :
            \/ pc[t] \in {"top", "dequeue", "dequeue_again", "go_idle",
                          "wait_trigger", "woken", "not_idle", "await_idle",
                          "cycle_over", "wait_callback", "await_workers",
                          "first_callback"}
            \/ pc[t] = "notify" /\ todo[t] = << >>
            \/ pc[t] = "boot" /\ next_init[t] >= Len(InitTriggers(graph))

\* graph_rechain finds no queued node
\* (g_warn_if_fail (trigger_queue_size == 0) at its top).  Refuted when the new
\* graph has more initial nodes than the old one: a thread that has pushed the
\* last initial node and was then preempted for the rest of the cycle reads the
\* new n_init_triggers and pushes a node of the new graph between two cycles.
RechainFindsNothingQueued ==
    router_pc = "rest" /\ gtk_pc = "running" => trigger_queue_size = 0

\* All threads are back where they sleep, with no wake-up on its way.
AllAsleep ==
    /\ trigger = 0
    /\ \A t \in Threads : pc[t] \in {"wait_trigger", "wait_callback", "first_callback"}

\* Terminated while all threads sleep, the graph does end: all are joined
\* (graph_terminate).
QuietTermination ==
    (gtk_pc = "await_idle" /\ AllAsleep /\ ~overtaken) ~> (gtk_pc = "terminated")

\* graph_terminate always ends ("Tell all threads to terminate").  Refuted: a
\* thread still on its way to sleep after the last cycle sees terminate at the
\* top of its loop and leaves without ever counting as idle.
TerminationCompletes == (gtk_pc = "await_idle") ~> (gtk_pc = "terminated")

\* graph_terminate finds as many idle threads as it has waited for
\* (g_warning "expected %d idle threads, found %d").  Refuted: a thread woken by
\* a left-over token has read terminate before it was set and stops counting as
\* idle between the two reads.
SleepersStayIdle == gtk_pc = "count" => idle_thread_cnt = num_threads
=============================================================================
