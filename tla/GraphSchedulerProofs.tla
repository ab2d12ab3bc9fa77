------------------------ MODULE GraphSchedulerProofs ------------------------
(***************************************************************************)
(* The scheduler processes every node of a graph once per cycle, in the    *)
(* order of the connections, with any number of threads and nodes.         *)
(***************************************************************************)
EXTENDS GraphScheduler, FiniteSetTheorems, SequenceTheorems, WellFoundedInduction, TLAPS

RunPcs == {"release", "release_again", "count_idle", "count_work", "wake",
           "claimed", "process", "processing"}
TriggerPcs == {"reset_refcount", "enqueue", "push"}
PublishPcs == {"publish", "boot_publish"}
ReleasePcs == {"release", "release_again"}
BootPcs == {"boot", "boot_push", "boot_publish"}
IdlePcs == {"wait_trigger", "woken", "not_idle"}
LeadPcs == {"await_workers", "first_callback", "cycle_done", "await_idle",
            "cycle_over", "wait_callback", "next_cycle", "reset_terminal"}
QuietPcs == {"top", "dequeue", "dequeue_again", "go_idle", "wait_trigger",
             "woken", "not_idle", "exited"}
LookPcs == Pcs \ (IdlePcs \cup LeadPcs \cup {"go_idle", "exited"})

Initials == InitTriggers(graph)

Runs(t, n) == pc[t] \in RunPcs /\ to_run[t] = n
Pushed(n) ==
    \/ n \in started
    \/ \E i \in DOMAIN trigger_queue : trigger_queue[i].val = n
    \/ \E t \in Threads : Runs(t, n)
Triggering(t, n) == pc[t] \in TriggerPcs /\ Head(todo[t]) = n
Owes(t, n) == n \in ToSet(todo[t]) /\ (pc[t] = "notify" \/ n # Head(todo[t]))
Booting(t) ==
    \/ pc[t] = "boot" /\ next_init[t] < Len(Initials)
    \/ pc[t] \in {"boot_push", "boot_publish"}
ToBoot(t, n) ==
    \E i \in DOMAIN Initials :
        /\ Initials[i] = n /\ i > next_init[t]
        /\ pc[t] = "boot_publish" => i > next_init[t] + 1
Pushing(t, n) ==
    \/ pc[t] = "push" /\ Head(todo[t]) = n
    \/ pc[t] = "boot_push" /\ Initials[next_init[t] + 1] = n
Queued(n) ==
    \E i \in DOMAIN trigger_queue :
        trigger_queue[i].val = n /\ trigger_queue[i].st \in {"claimed", "ready"}
Taken(t, n) == Runs(t, n) /\ pc[t] \notin {"process", "processing"}
Counted(n) == Queued(n) \/ \E t \in Threads : Pushing(t, n) \/ Taken(t, n)
Missing(n) == Parents(graph, n) \ finished
Owing(n) == {t \in Threads : Owes(t, n)}
Idle == {t \in Threads : pc[t] \in IdlePcs}
Exited == {t \in Threads : pc[t] = "exited"}
Leads == \E t \in Threads : pc[t] \in LeadPcs
Quiet(t) ==
    \/ pc[t] \in QuietPcs
    \/ pc[t] = "notify" /\ todo[t] = << >>
    \/ pc[t] = "boot" /\ next_init[t] >= Len(Initials)

Local(t) ==
    /\ todo[t] # << >> => pc[t] \in TriggerPcs \cup {"notify", "publish"}
    /\ pc[t] \in TriggerPcs \cup {"publish"} => todo[t] # << >>
    /\ IsInjective(todo[t])
    /\ \A n \in ToSet(todo[t]) : n \in graph.nodes /\ Parents(graph, n) # {}
    /\ pc[t] \in {"boot_push", "boot_publish"} => next_init[t] \in 0 .. (Len(Initials) - 1)
    /\ pc[t] \notin BootPcs => next_init[t] = 0

LocalInv == \A t \in Threads : Local(t)

CallersInv ==
    /\ callback_in_progress = (router_pc # "rest")
    /\ terminate = (gtk_pc \notin {"starting", "running"})
    /\ router_pc # "rest" => gtk_pc = "running"
    /\ \A t \in Threads : pc[t] = "exited" => terminate

SlotOK(s) ==
    /\ s.val \in graph.nodes
    /\ s.st = "claimed" => s.who \in Threads /\ pc[s.who] \in PublishPcs
    /\ s.st = "reading" =>
         s.who \in Threads /\ pc[s.who] \in ReleasePcs /\ to_run[s.who] = s.val
    /\ s.st \in {"ready", "free"} => s.who = "nobody"
    /\ s.st \in {"claimed", "ready"} =>
         s.val \notin started /\ \A t \in Threads : ~Runs(t, s.val)
    /\ s.st = "free" => s.val \in started \/ \E t \in Threads : Runs(t, s.val)

SlotsInv ==
    /\ \A i \in DOMAIN trigger_queue : SlotOK(trigger_queue[i])
    /\ \A t \in Threads : pc[t] \in PublishPcs =>
          \E i \in DOMAIN trigger_queue :
             /\ trigger_queue[i].st = "claimed" /\ trigger_queue[i].who = t
             /\ pc[t] = "boot_publish" => trigger_queue[i].val = Initials[next_init[t] + 1]
    /\ \A t \in Threads : pc[t] \in ReleasePcs =>
          \E i \in DOMAIN trigger_queue :
             trigger_queue[i].st = "reading" /\ trigger_queue[i].who = t
    /\ \A i, j \in DOMAIN trigger_queue : i # j =>
          /\ trigger_queue[i].val # trigger_queue[j].val
          /\ trigger_queue[i].who = trigger_queue[j].who => trigger_queue[i].who = "nobody"
    /\ trigger_queue # << >> => trigger_queue[1].st # "free"

RunInv ==
    /\ finished \subseteq started /\ started \subseteq graph.nodes
    /\ \A t \in Threads : pc[t] \in RunPcs =>
          /\ to_run[t] \in graph.nodes
          /\ to_run[t] \in started <=> pc[t] = "processing"
          /\ to_run[t] \notin finished
          /\ \A u \in Threads \ {t} : ~Runs(u, to_run[t])
    /\ \A n \in started \ finished : \E t \in Threads : Runs(t, n) /\ pc[t] = "processing"

TriggerInv ==
    /\ \A t \in Threads : pc[t] \in TriggerPcs =>
          /\ ~Pushed(Head(todo[t]))
          /\ \A u \in Threads \ {t} : ~Triggering(u, Head(todo[t]))
    /\ \A t \in Threads : Booting(t) =>
          /\ \A n \in graph.nodes : ToBoot(t, n) => ~Pushed(n)
          /\ \A u \in Threads : Booting(u) => u = t

RefcountInv ==
    \A n \in graph.nodes :
        IF Missing(n) # {} \/ Owing(n) # {}
        THEN /\ refcount[n] = Cardinality(Missing(n)) + Cardinality(Owing(n))
             /\ ~Pushed(n) /\ \A t \in Threads : ~Triggering(t, n)
        ELSE /\ refcount[n] = IF \E t \in Threads : pc[t] = "reset_refcount" /\ Head(todo[t]) = n
                              THEN 0 ELSE InitRefcount(graph, n)
             /\ Parents(graph, n) # {} => Pushed(n) \/ \E t \in Threads : Triggering(t, n)

CountInv ==
    /\ trigger_queue_size = Cardinality({n \in graph.nodes : Counted(n)})
    /\ cap >= Cardinality(graph.nodes)

Before == pc[MainThread] \in {"await_workers", "first_callback"}
StageQuiet(l) ==
    /\ pc[l] \in LeadPcs /\ \A t \in Threads \ {l} : Quiet(t)
    /\ trigger_queue = << >>
    /\ started = finished /\ started \in {{}, graph.nodes}
    /\ pc[l] \in {"await_workers", "first_callback"} =>
          /\ l = MainThread /\ started = {} /\ terminal_refcnt = NumTerminal(graph)
          /\ terminate \/ trigger = 0
          /\ \A t \in Threads \ {l} :
                /\ pc[t] \in {"top", "dequeue", "go_idle", "wait_trigger", "woken", "exited"}
                /\ pc[t] \in {"woken", "exited"} => terminate
                /\ pc[l] = "first_callback" => pc[t] \in {"wait_trigger", "woken", "exited"}
    /\ \/ /\ router_pc = "rest" /\ callback_done = 0 /\ (callback_start > 0 => terminate)
          /\ pc[l] \notin {"cycle_done", "reset_terminal"} /\ (pc[l] = "next_cycle" => terminate)
       \/ /\ router_pc = "post" /\ callback_start = 0 /\ callback_done = 0 /\ started = {}
          /\ pc[l] \notin {"cycle_done", "reset_terminal", "next_cycle"}
       \/ /\ router_pc = "wait" /\ callback_start = 1 /\ callback_done = 0 /\ started = {}
          /\ pc[l] \notin {"cycle_done", "reset_terminal", "next_cycle"}
       \/ /\ router_pc = "wait" /\ callback_start = 0 /\ callback_done = 0 /\ started = {}
          /\ pc[l] \in {"reset_terminal", "next_cycle"}
       \/ /\ router_pc = "wait" /\ callback_start = 0 /\ callback_done = 0
          /\ started = graph.nodes /\ pc[l] = "cycle_done"
       \/ /\ router_pc = "wait" /\ callback_start = 0 /\ callback_done = 1
          /\ started = graph.nodes /\ pc[l] \in {"await_idle", "cycle_over", "wait_callback"}
       \/ /\ router_pc = "clear" /\ callback_start = 0 /\ callback_done = 0
          /\ started = graph.nodes /\ pc[l] \in {"await_idle", "cycle_over", "wait_callback"}

StageActive ==
    /\ ~Leads
    /\ router_pc = "wait" /\ callback_start = 0 /\ callback_done = 0
    /\ terminal_refcnt >= 1
    /\ terminal_refcnt = Cardinality({n \in graph.nodes \ finished : graph.childnodes[n] = << >>})
                         + Cardinality({t \in Threads : pc[t] = "terminal"})
    /\ \A i \in DOMAIN Initials : Pushed(Initials[i]) \/
          \E t \in Threads : Booting(t) /\ ToBoot(t, Initials[i])
    /\ (\E i \in DOMAIN trigger_queue : trigger_queue[i].st = "ready") =>
          \E t \in Threads : pc[t] \in LookPcs

StageOver ==
    /\ ~Leads /\ terminate
    /\ started = finished /\ started \in {{}, graph.nodes}
    /\ \A t \in Threads : Quiet(t) \/ pc[t] \in BootPcs
    /\ \/ trigger_queue = << >> /\ \A t \in Threads : ~Booting(t)
       \/ /\ started = {}
          /\ \A t \in Threads \ {MainThread} : pc[t] \in {"wait_trigger", "woken", "exited"}
          /\ pc[MainThread] \in BootPcs \cup {"top", "exited"}

StageInv == (\E l \in Threads : StageQuiet(l)) \/ StageActive \/ StageOver

IdleInv ==
    \E C \in SUBSET Threads :
        /\ Idle \subseteq C /\ C \subseteq Idle \cup Exited
        /\ idle_thread_cnt = Cardinality(C)
        /\ ~Leads /\ terminate =>
              \E w \in Threads \ C : pc[w] \in BootPcs \cup {"top", "exited"}

DataInv == LocalInv /\ SlotsInv /\ RunInv /\ TriggerInv /\ RefcountInv /\ CountInv
IInv == TypeOK /\ CallersInv /\ DataInv /\ StageInv /\ IdleInv

(* A step that leaves the locals of the other threads alone.               *)
Alone(t) ==
    \A u \in Threads \ {t} : /\ pc'[u] = pc[u] /\ to_run'[u] = to_run[u]
                             /\ todo'[u] = todo[u] /\ next_init'[u] = next_init[u]

-----------------------------------------------------------------------------
(* Finite sets, graphs and their initial nodes.                            *)
LEMMA NatMinimum ==
  ASSUME NEW S \in SUBSET Nat, S # {}
  PROVE  \E n \in S : \A k \in S : ~(k < n)
<1>1. \E n \in S : \A k \in S : ~(<<k, n>> \in OpToRel(<, Nat))
  BY WFMin, NatLessThanWellFounded, Zenon
<1>. QED
  BY <1>1 DEF OpToRel

LEMMA ThreadsFinite == IsFiniteSet(Threads) /\ Cardinality(Threads) = num_threads + 1
<1>1. IsFiniteSet(Workers) /\ MainThread \notin Workers
  BY ThreadsAssumption
<1>. QED
  BY <1>1, FS_AddElement DEF Threads, num_threads

LEMMA ThreadSet ==
  ASSUME NEW S \in SUBSET Threads
  PROVE  IsFiniteSet(S) /\ Cardinality(S) \in Nat /\ (Cardinality(S) = 0 <=> S = {})
<1>1. IsFiniteSet(S)
  BY ThreadsFinite, FS_Subset
<1>. QED
  BY <1>1, FS_CardinalityType, FS_EmptySet

LEMMA GraphFacts ==
  ASSUME NEW g \in Graphs
  PROVE  /\ g.nodes \subseteq Nodes /\ IsFiniteSet(g.nodes) /\ g.nodes # {}
         /\ \A n \in g.nodes : /\ g.childnodes[n] \in Seq(Nodes) /\ IsInjective(g.childnodes[n])
                               /\ Children(g, n) \subseteq g.nodes
         /\ \A n : Parents(g, n) \subseteq g.nodes
<1>1. \A n \in g.nodes : g.childnodes[n] \in Seq(Nodes)
  BY GraphsAssumption
<1>. QED
  BY <1>1, GraphsAssumption DEF Parents

LEMMA NodeSet ==
  ASSUME NEW g \in Graphs, NEW S \in SUBSET g.nodes
  PROVE  IsFiniteSet(S) /\ Cardinality(S) \in Nat /\ (Cardinality(S) = 0 <=> S = {})
<1>1. IsFiniteSet(S)
  BY GraphFacts, FS_Subset
<1>. QED
  BY <1>1, FS_CardinalityType, FS_EmptySet

LEMMA InitialNodes ==
  ASSUME NEW g \in Graphs
  PROVE  /\ InitTriggers(g) \in Seq(g.nodes)
         /\ DOMAIN InitTriggers(g) = 1..Len(InitTriggers(g)) /\ Len(InitTriggers(g)) \in Nat
         /\ IsInjective(InitTriggers(g))
         /\ \A i \in DOMAIN InitTriggers(g) : InitTriggers(g)[i] \in g.nodes
                                              /\ Parents(g, InitTriggers(g)[i]) = {}
         /\ \A n \in g.nodes : Parents(g, n) = {} => \E i \in DOMAIN InitTriggers(g) : InitTriggers(g)[i] = n
<1>. DEFINE S == {n \in g.nodes : Parents(g, n) = {}}
            k == Cardinality(S)
            f == InitTriggers(g)
<1>1. IsFiniteSet(S) /\ k \in Nat
  BY NodeSet
<1>2. ExistsBijection(1..k, S)
  BY <1>1, FS_CardinalityType
<1>3. \E h \in [1..k -> S] : IsInjective(h)
  <2>1. PICK h : h \in Bijection(1..k, S)
    BY <1>2 DEF ExistsBijection
  <2>2. h \in [1..k -> S] /\ \A x, y \in 1..k : h[x] = h[y] => x = y
    BY <2>1 DEF Bijection, Injection, IsInjective
  <2>. QED
    BY <2>2 DEF IsInjective
<1>4. f \in [1..k -> S] /\ IsInjective(f)
  <2>1. f = CHOOSE h \in [1..k -> S] : IsInjective(h)
    BY DEF InitTriggers, SetToSeq
  <2>. HIDE DEF f, S
  <2>. QED
    BY <1>3, <2>1
<1>5. f \in Seq(g.nodes) /\ Len(f) = k
  <2>. HIDE DEF f
  <2>1. f \in [1..k -> g.nodes]
    BY <1>4
  <2>2. f \in Seq(g.nodes)
    BY <1>1, <2>1, SeqDef
  <2>3. DOMAIN f = 1..Len(f) /\ DOMAIN f = 1..k /\ Len(f) \in Nat
    BY <2>1, <2>2, LenProperties
  <2>. QED
    BY <1>1, <2>2, <2>3
<1>6. f \in Surjection(1..k, S)
  <2>1. f \in Injection(1..k, S) /\ Cardinality(1..k) = k
    <3>1. f \in Injection(1..k, S)
      BY <1>4 DEF IsInjective, Injection
    <3>. QED
      BY <1>1, <3>1, FS_Interval
  <2>. HIDE DEF f
  <2>2. Cardinality(1..k) = Cardinality(S) <=> f \in Surjection(1..k, S)
    BY <1>1, <2>1, FS_Injection
  <2>. QED
    BY <2>1, <2>2
<1>7. \A n \in S : \E i \in 1..k : f[i] = n
  BY <1>6 DEF Surjection
<1>8. DOMAIN f = 1..k
  BY <1>4
<1>. HIDE DEF f
<1>9. \A i \in 1..k : f[i] \in S
  BY <1>4
<1>. QED
  BY <1>1, <1>4, <1>5, <1>7, <1>8, <1>9 DEF f

-----------------------------------------------------------------------------
(* What the steps of the queue do to its slots.                            *)
LEMMA SlotOf ==
  ASSUME NEW T, NEW V, NEW q \in Seq(Slot(T, V)), NEW i \in DOMAIN q
  PROVE  /\ q[i] \in Slot(T, V) /\ q[i].val \in V /\ q[i].st \in SlotStates
         /\ q[i].who \in T \cup {"nobody"}
<1>1. i \in 1..Len(q)
  BY LenProperties
<1>2. q[i] \in Slot(T, V)
  BY <1>1, ElementOfSeq
<1>. QED
  BY <1>2 DEF Slot

LEMMA ClaimSlot ==
  ASSUME NEW T, NEW V, NEW q \in Seq(Slot(T, V)), NEW v \in V, NEW t \in T
  PROVE  /\ Claim(q, v, t) \in Seq(Slot(T, V)) /\ Len(q) \in Nat
         /\ Len(Claim(q, v, t)) = Len(q) + 1
         /\ DOMAIN Claim(q, v, t) = 1..(Len(q) + 1) /\ DOMAIN q = 1..Len(q)
         /\ \A i \in DOMAIN q : Claim(q, v, t)[i] = q[i]
         /\ Claim(q, v, t)[Len(q) + 1] = [val |-> v, st |-> "claimed", who |-> t]
<1>. DEFINE e == [val |-> v, st |-> "claimed", who |-> t]
<1>1. e \in Slot(T, V)
  BY DEF Slot, SlotStates
<1>. HIDE DEF e
<1>2. /\ Append(q, e) \in Seq(Slot(T, V)) /\ Len(Append(q, e)) = Len(q) + 1
      /\ \A i \in 1..Len(q) : Append(q, e)[i] = q[i]
      /\ Append(q, e)[Len(q) + 1] = e
  BY <1>1, AppendProperties
<1>3. Len(q) \in Nat /\ DOMAIN q = 1..Len(q) /\ DOMAIN Append(q, e) = 1..Len(Append(q, e))
  BY <1>2, LenProperties
<1>4. Claim(q, v, t) = Append(q, e)
  BY DEF Claim, e
<1>. QED
  BY <1>2, <1>3, <1>4 DEF e

(* A slot is passed on.                                                    *)
LEMMA PassSlot ==
  ASSUME NEW T, NEW V, NEW q \in Seq(Slot(T, V)), NEW i \in DOMAIN q,
         NEW s \in SlotStates, NEW w \in T \cup {"nobody"}
  PROVE  /\ Pass(q, i, s, w) \in Seq(Slot(T, V)) /\ Len(Pass(q, i, s, w)) = Len(q)
         /\ DOMAIN Pass(q, i, s, w) = DOMAIN q
         /\ Pass(q, i, s, w)[i] = [val |-> q[i].val, st |-> s, who |-> w]
         /\ \A j \in DOMAIN q : j # i => Pass(q, i, s, w)[j] = q[j]
<1>. DEFINE e == [val |-> q[i].val, st |-> s, who |-> w]
            p == Pass(q, i, s, w)
<1>1. e \in Slot(T, V)
  BY SlotOf DEF Slot
<1>2. p = [q EXCEPT ![i] = e]
  BY DEF Pass
<1>3. DOMAIN q = 1..Len(q) /\ i \in 1..Len(q)
  BY LenProperties
<1>. HIDE DEF e, p
<1>4. /\ [q EXCEPT ![i] = e] \in Seq(Slot(T, V)) /\ Len([q EXCEPT ![i] = e]) = Len(q)
      /\ \A j \in 1..Len(q) : [q EXCEPT ![i] = e][j] = IF j = i THEN e ELSE q[j]
  BY <1>1, <1>3, ExceptSeq
<1>5. DOMAIN p = DOMAIN q
  BY <1>2
<1>. QED
  BY <1>2, <1>3, <1>4, <1>5 DEF e, p

LEMMA OwnSlot ==
  ASSUME NEW q, NEW t, NEW i \in DOMAIN q, q[i].who = t,
         \A j \in DOMAIN q : q[j].who = t => j = i
  PROVE  OwnIndex(q, t) = i
BY DEF OwnIndex

LEMMA PublishSlot ==
  ASSUME NEW T, NEW V, NEW q \in Seq(Slot(T, V)), NEW t \in T,
         NEW i \in DOMAIN q, q[i].who = t, \A j \in DOMAIN q : q[j].who = t => j = i
  PROVE  /\ Publish(q, t) \in Seq(Slot(T, V)) /\ DOMAIN Publish(q, t) = DOMAIN q
         /\ Len(Publish(q, t)) = Len(q)
         /\ Publish(q, t)[i] = [val |-> q[i].val, st |-> "ready", who |-> "nobody"]
         /\ \A j \in DOMAIN q : j # i => Publish(q, t)[j] = q[j]
<1>1. Publish(q, t) = Pass(q, i, "ready", "nobody")
  BY OwnSlot DEF Publish
<1>2. "ready" \in SlotStates /\ "nobody" \in T \cup {"nobody"}
  BY DEF SlotStates
<1>. QED
  BY <1>1, <1>2, PassSlot

LEMMA TakeSlot ==
  ASSUME NEW T, NEW V, NEW q \in Seq(Slot(T, V)), NEW t \in T,
         HeadReady(q), \A j \in DOMAIN q : q[j].who # t
  PROVE  \E i \in DOMAIN q :
           /\ q[i].st = "ready"
           /\ Take(q, t) \in Seq(Slot(T, V)) /\ DOMAIN Take(q, t) = DOMAIN q
           /\ Len(Take(q, t)) = Len(q)
           /\ Take(q, t)[i] = [val |-> q[i].val, st |-> "reading", who |-> t]
           /\ \A j \in DOMAIN q : j # i => Take(q, t)[j] = q[j]
           /\ OwnValue(Take(q, t), t) = q[i].val
<1>1. PICK i \in DOMAIN q : /\ q[i].st = "ready"
                            /\ \A j \in 1..(i - 1) : q[j].st \in {"reading", "free"}
  BY DEF HeadReady
<1>2. DOMAIN q = 1..Len(q) /\ Len(q) \in Nat
  BY LenProperties
<1>3. HeadIndex(q) = i
  <2>1. ASSUME NEW k \in DOMAIN q, q[k].st \in {"claimed", "ready"},
               \A j \in 1..(k - 1) : q[j].st \in {"reading", "free"}
        PROVE  k = i
    <3>1. i \in Int /\ k \in Int /\ 1 <= i /\ 1 <= k
      BY <1>2
    <3>2. CASE k < i
      <4>1. k \in 1..(i - 1)
        BY <3>1, <3>2
      <4>. QED
        BY <1>1, <2>1, <4>1
    <3>3. CASE i < k
      <4>1. i \in 1..(k - 1)
        BY <3>1, <3>3
      <4>. QED
        BY <1>1, <2>1, <4>1
    <3>. QED
      BY <3>1, <3>2, <3>3
  <2>. QED
    BY <1>1, <2>1 DEF HeadIndex
<1>4. Take(q, t) = Pass(q, i, "reading", t)
  BY <1>3 DEF Take
<1>. DEFINE p == Take(q, t)
<1>5. "reading" \in SlotStates /\ t \in T \cup {"nobody"}
  BY DEF SlotStates
<1>6. /\ p \in Seq(Slot(T, V)) /\ Len(p) = Len(q) /\ DOMAIN p = DOMAIN q
      /\ p[i] = [val |-> q[i].val, st |-> "reading", who |-> t]
      /\ \A j \in DOMAIN q : j # i => p[j] = q[j]
  BY <1>4, <1>5, PassSlot
<1>. HIDE DEF p
<1>7. OwnIndex(p, t) = i
  <2>1. p[i].who = t /\ \A j \in DOMAIN p : p[j].who = t => j = i
    BY <1>6
  <2>. QED
    BY <1>6, <2>1, OwnSlot
<1>8. OwnValue(p, t) = q[i].val
  BY <1>6, <1>7 DEF OwnValue
<1>. QED
  BY <1>1, <1>6, <1>8 DEF p

(* What is left: the slots behind the free ones at the front.              *)
LEMMA TrimSlots ==
  ASSUME NEW T, NEW V, NEW q \in Seq(Slot(T, V))
  PROVE  \E k \in Nat :
           /\ Trim(q) \in Seq(Slot(T, V)) /\ Len(Trim(q)) \in Nat
           /\ DOMAIN Trim(q) = 1..Len(Trim(q)) /\ Len(q) = Len(Trim(q)) + k
           /\ \A i \in DOMAIN Trim(q) : i + k \in DOMAIN q /\ Trim(q)[i] = q[i + k]
           /\ \A j \in DOMAIN q : j <= k => q[j].st = "free"
           /\ \A j \in DOMAIN q : j > k => j - k \in DOMAIN Trim(q) /\ Trim(q)[j - k] = q[j]
           /\ Trim(q) # << >> => Trim(q)[1].st # "free"
<1>. DEFINE live == {i \in DOMAIN q : q[i].st # "free"}
<1>1. DOMAIN q = 1..Len(q) /\ Len(q) \in Nat
  BY LenProperties
<1>2. CASE live = {}
  <2>1. Trim(q) = << >>
    BY <1>2 DEF Trim
  <2>2. << >> \in Seq(Slot(T, V)) /\ Len(<< >>) = 0
    BY EmptySeq
  <2>3. PICK z \in Seq(Slot(T, V)) : z = << >>
    BY <2>2
  <2>4. DOMAIN z = 1..Len(z) /\ Len(z) = 0
    BY <2>2, <2>3, LenProperties
  <2>5. Trim(q) = z
    BY <2>1, <2>3
  <2>6. /\ Trim(q) \in Seq(Slot(T, V)) /\ Len(Trim(q)) \in Nat
        /\ DOMAIN Trim(q) = 1..Len(Trim(q)) /\ Len(q) = Len(Trim(q)) + Len(q)
        /\ \A i \in DOMAIN Trim(q) : i + Len(q) \in DOMAIN q /\ Trim(q)[i] = q[i + Len(q)]
        /\ \A j \in DOMAIN q : ~(j > Len(q))
        /\ Trim(q) # << >> => Trim(q)[1].st # "free"
    BY <1>1, <2>3, <2>4, <2>5
  <2>7. \A j \in DOMAIN q : j <= Len(q) => q[j].st = "free"
    BY <1>2
  <2>. QED
    BY <1>1, <2>6, <2>7
<1>3. CASE live # {}
  <2>1. live \in SUBSET Nat
    BY <1>1
  <2>2. PICK m \in live : \A j \in live : ~(j < m)
    BY <1>3, <2>1, NatMinimum
  <2>3. m \in 1..Len(q) /\ \A j \in live : m <= j
    BY <1>1, <2>1, <2>2
  <2>4. (CHOOSE i \in live : \A j \in live : i <= j) = m
    <3>1. ASSUME NEW i \in live, \A j \in live : i <= j PROVE i = m
      BY <2>1, <2>2, <2>3, <3>1
    <3>. HIDE DEF live
    <3>. QED
      BY <2>2, <2>3, <3>1
  <2>5. Trim(q) = SubSeq(q, m, Len(q))
    BY <1>3, <2>4 DEF Trim
  <2>6. /\ SubSeq(q, m, Len(q)) \in Seq(Slot(T, V))
        /\ Len(SubSeq(q, m, Len(q))) = Len(q) - m + 1
        /\ \A i \in 1..(Len(q) - m + 1) : SubSeq(q, m, Len(q))[i] = q[m + i - 1]
    <3>1. m \in 1..(Len(q) + 1) /\ Len(q) \in (m - 1)..Len(q)
      BY <1>1, <2>3
    <3>2. /\ SubSeq(q, m, Len(q)) \in Seq(Slot(T, V))
          /\ Len(SubSeq(q, m, Len(q))) = IF m <= Len(q) THEN Len(q) - m + 1 ELSE 0
          /\ \A i \in 1..(Len(q) - m + 1) : SubSeq(q, m, Len(q))[i] = q[m + i - 1]
      BY <3>1, SubSeqProperties
    <3>. QED
      BY <1>1, <2>3, <3>2
  <2>7. /\ Trim(q) \in Seq(Slot(T, V)) /\ Len(Trim(q)) = Len(q) - (m - 1)
        /\ DOMAIN Trim(q) = 1..Len(Trim(q))
        /\ \A i \in 1..(Len(q) - (m - 1)) : Trim(q)[i] = q[i + (m - 1)]
    <3>1. Trim(q) \in Seq(Slot(T, V)) /\ Len(Trim(q)) = Len(q) - m + 1
          /\ \A i \in 1..(Len(q) - m + 1) : Trim(q)[i] = q[m + i - 1]
      BY <2>5, <2>6
    <3>2. DOMAIN Trim(q) = 1..Len(Trim(q))
      BY <3>1, LenProperties
    <3>3. Len(q) - m + 1 = Len(q) - (m - 1) /\ \A i \in 1..(Len(q) - m + 1) : m + i - 1 = i + (m - 1)
      BY <1>1, <2>3
    <3>. QED
      BY <3>1, <3>2, <3>3
  <2>8. m - 1 \in Nat /\ Len(q) = Len(Trim(q)) + (m - 1) /\ Len(Trim(q)) \in Nat
    BY <1>1, <2>3, <2>7
  <2>9. \A j \in DOMAIN q : j <= m - 1 => q[j].st = "free"
    BY <1>1, <2>3
  <2>10. \A i \in DOMAIN Trim(q) : i + (m - 1) \in DOMAIN q /\ Trim(q)[i] = q[i + (m - 1)]
    BY <1>1, <2>3, <2>7
  <2>11. \A j \in DOMAIN q : j > m - 1 => j - (m - 1) \in DOMAIN Trim(q)
                                          /\ Trim(q)[j - (m - 1)] = q[j]
    <3>1. SUFFICES ASSUME NEW j \in DOMAIN q, j > m - 1
                   PROVE  j - (m - 1) \in DOMAIN Trim(q) /\ Trim(q)[j - (m - 1)] = q[j]
      OBVIOUS
    <3>2. j - (m - 1) \in DOMAIN Trim(q) /\ (j - (m - 1)) + (m - 1) = j
      BY <1>1, <2>3, <2>7, <3>1
    <3>. QED
      BY <2>10, <3>2
  <2>12. Trim(q)[1].st # "free"
    <3>1. 1 \in DOMAIN Trim(q) /\ 1 + (m - 1) = m
      BY <1>1, <2>3, <2>7
    <3>2. Trim(q)[1] = q[m]
      BY <2>10, <3>1
    <3>. QED
      BY <2>2, <3>2
  <2>. QED
    BY <2>7, <2>8, <2>9, <2>10, <2>11, <2>12
<1>. QED
  BY <1>2, <1>3

(* r is what is left of q when slot i is free: p behind its first k slots. *)
LeftOver(q, i, r, p, k) ==
    /\ p[i] = [val |-> q[i].val, st |-> "free", who |-> "nobody"]
    /\ \A j \in DOMAIN q : j # i => p[j] = q[j]
    /\ \A j \in DOMAIN r : j + k \in DOMAIN q /\ r[j] = p[j + k]
    /\ \A j \in DOMAIN q : j <= k => p[j].st = "free"
    /\ \A j \in DOMAIN q : j > k => j - k \in DOMAIN r /\ r[j - k] = p[j]
    /\ r # << >> => r[1].st # "free"
    /\ DOMAIN r = 1..Len(r) /\ Len(r) \in Nat

LEMMA ReleaseSlot ==
  ASSUME NEW T, NEW V, NEW q \in Seq(Slot(T, V)), NEW t \in T,
         NEW i \in DOMAIN q, q[i].who = t, \A j \in DOMAIN q : q[j].who = t => j = i
  PROVE  /\ Release(q, t) \in Seq(Slot(T, V))
         /\ \E k \in Nat : \E p : LeftOver(q, i, Release(q, t), p, k)
<1>1. PICK p : p = Pass(q, i, "free", "nobody")
  OBVIOUS
<1>2. "free" \in SlotStates /\ "nobody" \in T \cup {"nobody"}
  BY DEF SlotStates
<1>3. /\ p \in Seq(Slot(T, V)) /\ Len(p) = Len(q) /\ DOMAIN p = DOMAIN q
      /\ p[i] = [val |-> q[i].val, st |-> "free", who |-> "nobody"]
      /\ \A j \in DOMAIN q : j # i => p[j] = q[j]
  BY <1>1, <1>2, PassSlot
<1>4. Release(q, t) = Trim(p)
  BY <1>1, OwnSlot DEF Release
<1>5. PICK k \in Nat :
           /\ Trim(p) \in Seq(Slot(T, V)) /\ Len(Trim(p)) \in Nat
           /\ DOMAIN Trim(p) = 1..Len(Trim(p)) /\ Len(p) = Len(Trim(p)) + k
           /\ \A j \in DOMAIN Trim(p) : j + k \in DOMAIN p /\ Trim(p)[j] = p[j + k]
           /\ \A j \in DOMAIN p : j <= k => p[j].st = "free"
           /\ \A j \in DOMAIN p : j > k => j - k \in DOMAIN Trim(p) /\ Trim(p)[j - k] = p[j]
           /\ Trim(p) # << >> => Trim(p)[1].st # "free"
  BY <1>3, TrimSlots
<1>6. LeftOver(q, i, Release(q, t), p, k)
  BY <1>3, <1>4, <1>5 DEF LeftOver
<1>. QED
  BY <1>4, <1>5, <1>6

-----------------------------------------------------------------------------
(* Steps that move no node.                                                *)
NeutralPcs == QuietPcs \cup LeadPcs \cup {"terminal"}
CountedPcs == {"count_idle", "count_work", "wake", "claimed"}

(* Nothing is in the hands of t, before and after, or the same node is.    *)
Idles(t) ==
    \/ pc[t] \in NeutralPcs
    \/ pc[t] = "notify" /\ todo[t] = << >>
    \/ pc[t] = "boot" /\ next_init[t] >= Len(Initials)

Kept(t) ==
    /\ to_run'[t] = to_run[t] /\ todo'[t] = todo[t]
    /\ \/ Idles(t) /\ pc'[t] \in NeutralPcs /\ next_init'[t] = 0
       \/ /\ pc[t] \in CountedPcs /\ pc'[t] \in CountedPcs
          /\ next_init'[t] = next_init[t]

LEMMA ThreadTypes ==
  ASSUME TypeOK, NEW t \in Threads
  PROVE  /\ pc[t] \in Pcs /\ to_run[t] \in Nodes \cup {NoNode} /\ todo[t] \in Seq(Nodes)
         /\ next_init[t] \in Nat /\ wakeup[t] \in Nat
BY DEF TypeOK

LEMMA KeptThreads ==
  ASSUME TypeOK, LocalInv, NEW t \in Threads, Alone(t), Kept(t), graph' = graph
  PROVE  /\ \A u \in Threads : \A n : Runs(u, n)' <=> Runs(u, n)
         /\ \A u \in Threads : \A n : Triggering(u, n)' <=> Triggering(u, n)
         /\ \A u \in Threads : \A n : Owes(u, n)' <=> Owes(u, n)
         /\ \A u \in Threads : Booting(u)' <=> Booting(u)
         /\ \A u \in Threads : \A n : Booting(u) => (ToBoot(u, n)' <=> ToBoot(u, n))
         /\ \A u \in Threads : \A l \in PublishPcs \cup ReleasePcs \cup TriggerPcs
                                         \cup {"boot_push", "process", "processing"} :
               pc'[u] = l <=> pc[u] = l
         /\ \A u \in Threads : pc[u] \in PublishPcs \cup ReleasePcs \cup TriggerPcs
                                         \cup {"boot_push", "process", "processing"} => u # t
         /\ Local(t)'
<1>1. /\ Local(t) /\ todo[t] \in Seq(Nodes) /\ Initials' = Initials /\ Len(Initials) \in Nat
      /\ next_init[t] \in Nat
  BY ThreadTypes, InitialNodes DEF LocalInv, Initials, TypeOK
<1>2. /\ pc[t] \notin PublishPcs \cup ReleasePcs \cup TriggerPcs \cup {"boot_push", "process", "processing"}
      /\ pc'[t] \notin PublishPcs \cup ReleasePcs \cup TriggerPcs
                        \cup {"boot_push", "process", "processing", "boot", "notify"}
      /\ pc[t] \in RunPcs <=> pc'[t] \in RunPcs
      /\ pc[t] \in RunPcs => pc[t] \notin BootPcs \cup {"notify"}
  BY DEF Kept, Idles, NeutralPcs, CountedPcs, PublishPcs, ReleasePcs, TriggerPcs, RunPcs,
         QuietPcs, LeadPcs, BootPcs
<1>3. todo[t] = << >> /\ todo'[t] = << >>
  BY <1>1, <1>2 DEF Local, Kept, Idles, NeutralPcs, QuietPcs, LeadPcs, TriggerPcs, CountedPcs
<1>4. ~Booting(t) /\ ~Booting(t)'
  BY <1>1, <1>2 DEF Booting, Kept, Idles, NeutralPcs, QuietPcs, LeadPcs, CountedPcs, PublishPcs
<1>5. \A n : ~Owes(t, n) /\ ~Owes(t, n)'
  <2>1. ToSet(todo[t]) = {}
    BY <1>3 DEF ToSet
  <2>2. ToSet(todo'[t]) = {}
    BY <1>3 DEF ToSet
  <2>. QED
    BY <2>1, <2>2 DEF Owes
<1>6. \A u \in Threads : \A n : Runs(u, n)' <=> Runs(u, n)
  BY <1>2 DEF Runs, Alone, Kept
<1>7. \A u \in Threads : \A n : Triggering(u, n)' <=> Triggering(u, n)
  BY <1>2 DEF Triggering, Alone
<1>8. \A u \in Threads : \A n : Owes(u, n)' <=> Owes(u, n)
  BY <1>5 DEF Owes, Alone
<1>9. \A u \in Threads : Booting(u)' <=> Booting(u)
  BY <1>1, <1>4 DEF Booting, Alone
<1>10. \A u \in Threads : \A n : Booting(u) => (ToBoot(u, n)' <=> ToBoot(u, n))
  BY <1>1, <1>4 DEF ToBoot, Alone
<1>11. Local(t)'
  <2>1. next_init'[t] = 0
    BY <1>1, <1>2 DEF Local, Kept, CountedPcs, BootPcs
  <2>2. IsInjective(todo'[t]) /\ ToSet(todo'[t]) = {}
    BY <1>3 DEF IsInjective, ToSet
  <2>3. pc'[t] \notin BootPcs
    BY <1>2 DEF BootPcs, PublishPcs
  <2>. QED
    BY <1>2, <1>3, <2>1, <2>2, <2>3 DEF Local, BootPcs, PublishPcs
<1>. QED
  BY <1>2, <1>6, <1>7, <1>8, <1>9, <1>10, <1>11 DEF Alone

LEMMA KeptData ==
  ASSUME TypeOK, DataInv, NEW t \in Threads, Alone(t), Kept(t),
         UNCHANGED <<graph, refcount, cap, trigger_queue_size, trigger_queue, started, finished>>
  PROVE  DataInv' /\ \A n : Pushed(n)' <=> Pushed(n)
<1>. DEFINE Special == PublishPcs \cup ReleasePcs \cup TriggerPcs
                       \cup {"boot_push", "process", "processing"}
<1>1. /\ \A u \in Threads : \A n : Runs(u, n)' <=> Runs(u, n)
      /\ \A u \in Threads : \A n : Triggering(u, n)' <=> Triggering(u, n)
      /\ \A u \in Threads : \A n : Owes(u, n)' <=> Owes(u, n)
      /\ \A u \in Threads : Booting(u)' <=> Booting(u)
      /\ \A u \in Threads : \A n : Booting(u) => (ToBoot(u, n)' <=> ToBoot(u, n))
      /\ \A u \in Threads : \A l \in Special : pc'[u] = l <=> pc[u] = l
      /\ \A u \in Threads : pc[u] \in Special => u # t
      /\ Local(t)'
  BY KeptThreads DEF DataInv
<1>2. \A u \in Threads : /\ to_run'[u] = to_run[u] /\ todo'[u] = todo[u]
                         /\ pc[u] \in Special => next_init'[u] = next_init[u]
  BY <1>1 DEF Alone, Kept
<1>3. Initials' = Initials
  BY DEF Initials
<1>4. \A n : Pushed(n)' <=> Pushed(n)
  BY <1>1 DEF Pushed
<1>5. \A n : Counted(n)' <=> Counted(n)
  <2>1. \A u \in Threads : \A n : Pushing(u, n)' <=> Pushing(u, n)
    BY <1>1, <1>2, <1>3 DEF TriggerPcs, Pushing
  <2>2. \A u \in Threads : \A n : Taken(u, n)' <=> Taken(u, n)
    BY <1>1 DEF Taken
  <2>3. \A n : Queued(n)' <=> Queued(n)
    BY DEF Queued
  <2>. QED
    BY <2>1, <2>2, <2>3 DEF Counted
<1>6. LocalInv'
  <2>1. \A u \in Threads \ {t} : Local(u)'
    BY DEF DataInv, LocalInv, Local, Alone, Initials
  <2>. QED
    BY <1>1, <2>1 DEF LocalInv
<1>7. SlotsInv'
  <2>1. SlotsInv
    BY DEF DataInv
  <2>2. ASSUME NEW s, SlotOK(s) PROVE SlotOK(s)'
    BY <1>1, <1>2, <2>2 DEF SlotOK
  <2>3. \A u \in Threads : pc'[u] \in PublishPcs =>
          \E i \in DOMAIN trigger_queue :
             /\ trigger_queue[i].st = "claimed" /\ trigger_queue[i].who = u
             /\ pc'[u] = "boot_publish" => trigger_queue[i].val = Initials'[next_init'[u] + 1]
    <3>1. SUFFICES ASSUME NEW u \in Threads, pc'[u] \in PublishPcs
                   PROVE  \E i \in DOMAIN trigger_queue :
             /\ trigger_queue[i].st = "claimed" /\ trigger_queue[i].who = u
             /\ pc'[u] = "boot_publish" => trigger_queue[i].val = Initials'[next_init'[u] + 1]
      OBVIOUS
    <3>2. pc[u] = pc'[u] /\ next_init'[u] = next_init[u]
      BY <1>1, <1>2, <3>1
    <3>. QED
      BY <1>3, <2>1, <3>1, <3>2 DEF SlotsInv
  <2>4. \A u \in Threads : pc'[u] \in ReleasePcs =>
          \E i \in DOMAIN trigger_queue :
             trigger_queue[i].st = "reading" /\ trigger_queue[i].who = u
    BY <1>1, <2>1 DEF SlotsInv
  <2>. QED
    BY <2>1, <2>2, <2>3, <2>4 DEF SlotsInv
<1>8. RunInv'
  <2>1. \A u \in Threads : /\ pc[u] \in RunPcs <=> pc'[u] \in RunPcs
                           /\ pc'[u] = "processing" <=> pc[u] = "processing"
                           /\ to_run'[u] = to_run[u]
    <3>1. SUFFICES ASSUME NEW u \in Threads
                   PROVE  pc[u] \in RunPcs <=> pc'[u] \in RunPcs
      BY <1>1, <1>2
    <3>2. PICK n : n = to_run[u]
      OBVIOUS
    <3>3. Runs(u, n)' <=> Runs(u, n)
      BY <1>1
    <3>. QED
      BY <1>2, <3>2, <3>3 DEF Runs
  <2>. QED
    BY <1>1, <2>1 DEF DataInv, RunInv
<1>9. TriggerInv'
  <2>1. \A u \in Threads : pc'[u] \in TriggerPcs <=> pc[u] \in TriggerPcs
    BY <1>1
  <2>. QED
    BY <1>1, <1>2, <1>4, <2>1 DEF DataInv, TriggerInv
<1>10. RefcountInv'
  <2>1. \A n : Missing(n)' = Missing(n) /\ Owing(n)' = Owing(n)
    BY <1>1 DEF Missing, Owing
  <2>2. \A u \in Threads : \A n : pc'[u] = "reset_refcount" /\ Head(todo'[u]) = n
                                <=> pc[u] = "reset_refcount" /\ Head(todo[u]) = n
    BY <1>1, <1>2 DEF TriggerPcs
  <2>3. SUFFICES ASSUME NEW n \in graph.nodes
        PROVE IF Missing(n) # {} \/ Owing(n) # {}
              THEN /\ refcount[n] = Cardinality(Missing(n)) + Cardinality(Owing(n))
                   /\ ~Pushed(n)' /\ \A u \in Threads : ~Triggering(u, n)'
              ELSE /\ refcount[n] = IF \E u \in Threads : pc'[u] = "reset_refcount" /\ Head(todo'[u]) = n
                                    THEN 0 ELSE InitRefcount(graph, n)
                   /\ Parents(graph, n) # {} => Pushed(n)' \/ \E u \in Threads : Triggering(u, n)'
    BY <2>1 DEF RefcountInv
  <2>. QED
    BY <1>1, <1>4, <2>2 DEF DataInv, RefcountInv
<1>11. CountInv'
  <2>1. {n \in graph.nodes : Counted(n)'} = {n \in graph.nodes : Counted(n)}
    BY <1>5
  <2>. QED
    BY <2>1 DEF DataInv, CountInv
<1>. QED
  BY <1>4, <1>6, <1>7, <1>8, <1>9, <1>10, <1>11 DEF DataInv

-----------------------------------------------------------------------------
(* A node on its way from the queue to its end.                            *)
HandPcs == TriggerPcs \cup BootPcs \cup {"notify", "publish"}

LEMMA HandsFrame ==
  ASSUME TypeOK, LocalInv, TriggerInv, RefcountInv, NEW t \in Threads, Alone(t),
         UNCHANGED <<graph, refcount, finished>>,
         pc[t] \notin HandPcs, pc'[t] \notin HandPcs,
         todo'[t] = todo[t], next_init'[t] = next_init[t],
         \A n : Pushed(n)' <=> Pushed(n)
  PROVE  LocalInv' /\ TriggerInv' /\ RefcountInv'
<1>1. todo[t] = << >> /\ next_init[t] = 0
  BY DEF LocalInv, Local, HandPcs
<1>2. Initials' = Initials
  BY DEF Initials
<1>3. \A n : ~Owes(t, n) /\ ~Owes(t, n)'
  <2>1. ToSet(todo[t]) = {} /\ ToSet(todo'[t]) = {}
    BY <1>1 DEF ToSet
  <2>. QED
    BY <2>1 DEF Owes
<1>4. \A u \in Threads : \A n : Owes(u, n)' <=> Owes(u, n)
  BY <1>3 DEF Owes, Alone
<1>5. \A u \in Threads : \A n : Triggering(u, n)' <=> Triggering(u, n)
  BY DEF Triggering, Alone, HandPcs
<1>6. ~Booting(t) /\ ~Booting(t)'
  BY DEF Booting, HandPcs, BootPcs
<1>7. \A u \in Threads : Booting(u)' <=> Booting(u)
  BY <1>2, <1>6 DEF Booting, Alone
<1>8. \A u \in Threads : \A n : Booting(u) => (ToBoot(u, n)' <=> ToBoot(u, n))
  BY <1>2, <1>6 DEF ToBoot, Alone
<1>9. LocalInv'
  <2>1. \A u \in Threads \ {t} : Local(u)'
    BY DEF LocalInv, Local, Alone, Initials
  <2>2. ToSet(todo'[t]) = {} /\ IsInjective(todo'[t])
    BY <1>1 DEF ToSet, IsInjective
  <2>3. Local(t)'
    BY <1>1, <2>2 DEF Local, HandPcs, BootPcs
  <2>. QED
    BY <2>1, <2>3 DEF LocalInv
<1>10. TriggerInv'
  <2>1. \A u \in Threads : pc'[u] \in TriggerPcs => pc[u] \in TriggerPcs /\ todo'[u] = todo[u]
    BY DEF Alone, HandPcs
  <2>. QED
    BY <1>5, <1>7, <1>8, <2>1 DEF TriggerInv
<1>11. RefcountInv'
  <2>1. \A n : Missing(n)' = Missing(n) /\ Owing(n)' = Owing(n)
    BY <1>4 DEF Missing, Owing
  <2>2. \A u \in Threads : \A n : pc'[u] = "reset_refcount" /\ Head(todo'[u]) = n
                                <=> pc[u] = "reset_refcount" /\ Head(todo[u]) = n
    BY DEF TriggerPcs, HandPcs, Alone
  <2>3. SUFFICES ASSUME NEW n \in graph.nodes
        PROVE IF Missing(n) # {} \/ Owing(n) # {}
              THEN /\ refcount[n] = Cardinality(Missing(n)) + Cardinality(Owing(n))
                   /\ ~Pushed(n)' /\ \A u \in Threads : ~Triggering(u, n)'
              ELSE /\ refcount[n] = IF \E u \in Threads : pc'[u] = "reset_refcount" /\ Head(todo'[u]) = n
                                    THEN 0 ELSE InitRefcount(graph, n)
                   /\ Parents(graph, n) # {} => Pushed(n)' \/ \E u \in Threads : Triggering(u, n)'
    BY <2>1 DEF RefcountInv
  <2>. QED
    BY <1>5, <2>2 DEF RefcountInv
<1>. QED
  BY <1>9, <1>10, <1>11

LEMMA CountFrame ==
  ASSUME CountInv, UNCHANGED <<graph, trigger_queue_size, cap>>,
         \A n \in graph.nodes : Counted(n)' <=> Counted(n)
  PROVE  CountInv'
<1>1. {n \in graph.nodes : Counted(n)'} = {n \in graph.nodes : Counted(n)}
  OBVIOUS
<1>. QED
  BY <1>1 DEF CountInv

(* A thread that is publishing or releasing holds one slot, others none.   *)
LEMMA Holder ==
  ASSUME TypeOK, SlotsInv, NEW t \in Threads, pc[t] \in PublishPcs \cup ReleasePcs
  PROVE  \E i \in DOMAIN trigger_queue :
           /\ trigger_queue[i].who = t /\ \A j \in DOMAIN trigger_queue : trigger_queue[j].who = t => j = i
           /\ pc[t] \in PublishPcs => trigger_queue[i].st = "claimed"
           /\ pc[t] = "boot_publish" => trigger_queue[i].val = Initials[next_init[t] + 1]
           /\ pc[t] \in ReleasePcs => trigger_queue[i].st = "reading" /\ trigger_queue[i].val = to_run[t]
<1>1. t # "nobody"
  BY ThreadsAssumption
<1>2. CASE pc[t] \in PublishPcs
  <2>1. PICK i \in DOMAIN trigger_queue :
             /\ trigger_queue[i].st = "claimed" /\ trigger_queue[i].who = t
             /\ pc[t] = "boot_publish" => trigger_queue[i].val = Initials[next_init[t] + 1]
    BY <1>2 DEF SlotsInv
  <2>2. \A j \in DOMAIN trigger_queue : trigger_queue[j].who = t => j = i
    BY <1>1, <2>1 DEF SlotsInv
  <2>. QED
    BY <1>2, <2>1, <2>2 DEF PublishPcs, ReleasePcs
<1>3. CASE pc[t] \in ReleasePcs
  <2>1. PICK i \in DOMAIN trigger_queue : trigger_queue[i].st = "reading" /\ trigger_queue[i].who = t
    BY <1>3 DEF SlotsInv
  <2>2. \A j \in DOMAIN trigger_queue : trigger_queue[j].who = t => j = i
    BY <1>1, <2>1 DEF SlotsInv
  <2>3. trigger_queue[i].val = to_run[t]
    BY <2>1 DEF SlotsInv, SlotOK
  <2>. QED
    BY <1>3, <2>1, <2>2, <2>3 DEF PublishPcs, ReleasePcs
<1>. QED
  BY <1>2, <1>3

LEMMA QueueTypes ==
  ASSUME TypeOK
  PROVE  /\ trigger_queue \in Seq(Slot(Threads, Nodes))
         /\ \A i \in DOMAIN trigger_queue :
              /\ trigger_queue[i].val \in Nodes /\ trigger_queue[i].st \in SlotStates
              /\ trigger_queue[i].who \in Threads \cup {"nobody"}
         /\ graph \in Graphs
BY SlotOf DEF TypeOK

LEMMA NoHolder ==
  ASSUME TypeOK, SlotsInv, NEW t \in Threads, pc[t] \notin PublishPcs \cup ReleasePcs
  PROVE  \A j \in DOMAIN trigger_queue : trigger_queue[j].who # t
<1>1. t # "nobody"
  BY ThreadsAssumption
<1>2. \A j \in DOMAIN trigger_queue : trigger_queue[j].st \in {"claimed", "ready", "reading", "free"}
  BY QueueTypes DEF SlotStates
<1>. QED
  BY <1>1, <1>2 DEF SlotsInv, SlotOK

(* mpmc_queue_dequeue returned a node.                                     *)
LEMMA TakeData ==
  ASSUME TypeOK, DataInv, NEW t \in Threads, DequeueNode(t), HeadReady(trigger_queue)
  PROVE  DataInv' /\ \A n : Pushed(n)' <=> Pushed(n)
<1>. DEFINE q == trigger_queue
            p == trigger_queue'
<1>1. /\ LocalInv /\ SlotsInv /\ RunInv /\ TriggerInv /\ RefcountInv /\ CountInv
      /\ q \in Seq(Slot(Threads, Nodes))
  BY QueueTypes DEF DataInv
<1>2. /\ pc[t] \in {"dequeue", "dequeue_again"} /\ p = Take(q, t)
      /\ to_run' = [to_run EXCEPT ![t] = OwnValue(p, t)]
      /\ pc' = [pc EXCEPT ![t] = IF pc[t] = "dequeue" THEN "release" ELSE "release_again"]
      /\ UNCHANGED <<graph, refcount, cap, trigger_queue_size, todo, next_init, started, finished>>
  BY DEF DequeueNode, Goto, graphVars, countVars, historyVars
<1>3. pc \in [Threads -> Pcs] /\ to_run \in [Threads -> Nodes \cup {NoNode}]
  BY DEF TypeOK
<1>4. PICK i \in DOMAIN q :
           /\ q[i].st = "ready"
           /\ p \in Seq(Slot(Threads, Nodes)) /\ DOMAIN p = DOMAIN q
           /\ p[i] = [val |-> q[i].val, st |-> "reading", who |-> t]
           /\ \A j \in DOMAIN q : j # i => p[j] = q[j]
           /\ OwnValue(p, t) = q[i].val
  <2>1. \A j \in DOMAIN q : q[j].who # t
    BY <1>1, <1>2, NoHolder DEF PublishPcs, ReleasePcs
  <2>2. \E i \in DOMAIN q :
           /\ q[i].st = "ready"
           /\ Take(q, t) \in Seq(Slot(Threads, Nodes)) /\ DOMAIN Take(q, t) = DOMAIN q
           /\ Len(Take(q, t)) = Len(q)
           /\ Take(q, t)[i] = [val |-> q[i].val, st |-> "reading", who |-> t]
           /\ \A j \in DOMAIN q : j # i => Take(q, t)[j] = q[j]
           /\ OwnValue(Take(q, t), t) = q[i].val
    BY <1>1, <2>1, TakeSlot
  <2>. QED
    BY <1>2, <2>2
<1>. DEFINE m == q[i].val
<1>5. /\ Alone(t) /\ pc'[t] \in ReleasePcs /\ to_run'[t] = m
      /\ pc[t] \notin RunPcs \cup HandPcs /\ pc'[t] \notin HandPcs /\ pc'[t] \in RunPcs
  <2>1. pc'[t] = IF pc[t] = "dequeue" THEN "release" ELSE "release_again"
    BY <1>2, <1>3
  <2>2. to_run'[t] = m
    BY <1>2, <1>3, <1>4
  <2>3. Alone(t)
    BY <1>2, <1>3 DEF Alone
  <2>. QED
    BY <1>2, <2>1, <2>2, <2>3
       DEF ReleasePcs, RunPcs, HandPcs, TriggerPcs, BootPcs
<1>6. m \in graph.nodes /\ m \notin started /\ \A u \in Threads : ~Runs(u, m)
  BY <1>1, <1>4 DEF SlotsInv, SlotOK
<1>. HIDE DEF m
<1>7. \A u \in Threads : \A n : Runs(u, n)' <=> Runs(u, n) \/ (u = t /\ n = m)
  BY <1>5 DEF Runs, Alone
<1>8. \A j \in DOMAIN q : p[j].val = q[j].val
  BY <1>4 DEF m
<1>9. \A n : Pushed(n)' <=> Pushed(n)
  <2>1. \A n : (\E j \in DOMAIN p : p[j].val = n) <=> (\E j \in DOMAIN q : q[j].val = n)
    BY <1>4, <1>8
  <2>2. \E j \in DOMAIN q : q[j].val = m
    BY <1>4 DEF m
  <2>3. started' = started
    BY <1>2
  <2>. QED
    BY <1>7, <2>1, <2>2, <2>3 DEF Pushed
<1>10. LocalInv' /\ TriggerInv' /\ RefcountInv'
  BY <1>1, <1>2, <1>5, <1>9, HandsFrame
<1>11. SlotsInv'
  <2>1. \A j \in DOMAIN q : j # i => q[j].val # m
    BY <1>1, <1>4 DEF SlotsInv, m
  <2>2. ASSUME NEW j \in DOMAIN q, NEW s, s = p[j] PROVE SlotOK(s)'
    <3>1. CASE j = i
      BY <1>2, <1>4, <1>5, <1>6, <2>2, <3>1 DEF m, SlotOK
    <3>2. CASE j # i
      <4>1. s = q[j] /\ s.val # m /\ SlotOK(s)
        BY <1>1, <1>4, <2>1, <2>2, <3>2 DEF SlotsInv
      <4>2. \A u \in Threads : Runs(u, s.val)' <=> Runs(u, s.val)
        BY <1>7, <4>1
      <4>3. \A u \in Threads : pc[u] \in PublishPcs \cup ReleasePcs => u # t
        BY <1>2 DEF PublishPcs, ReleasePcs
      <4>4. \A u \in Threads : u # t => pc'[u] = pc[u] /\ to_run'[u] = to_run[u]
        BY <1>5 DEF Alone
      <4>. QED
        BY <1>2, <4>1, <4>2, <4>3, <4>4 DEF SlotOK
    <3>. QED
      BY <3>1, <3>2
  <2>3. ASSUME NEW u \in Threads, pc'[u] \in PublishPcs
        PROVE  \E j \in DOMAIN p : /\ p[j].st = "claimed" /\ p[j].who = u
                                   /\ pc'[u] = "boot_publish" =>
                                        p[j].val = Initials'[next_init'[u] + 1]
    <3>1. u # t /\ pc'[u] = pc[u] /\ next_init'[u] = next_init[u] /\ Initials' = Initials
      BY <1>2, <1>5, <2>3 DEF Alone, PublishPcs, ReleasePcs, Initials
    <3>2. PICK j \in DOMAIN q : /\ q[j].st = "claimed" /\ q[j].who = u
                                /\ pc[u] = "boot_publish" => q[j].val = Initials[next_init[u] + 1]
      BY <1>1, <2>3, <3>1 DEF SlotsInv
    <3>3. j # i
      BY <1>4, <3>2
    <3>. QED
      BY <1>4, <3>1, <3>2, <3>3
  <2>4. ASSUME NEW u \in Threads, pc'[u] \in ReleasePcs
        PROVE  \E j \in DOMAIN p : p[j].st = "reading" /\ p[j].who = u
    <3>1. CASE u = t
      BY <1>4, <3>1
    <3>2. CASE u # t
      <4>1. pc[u] \in ReleasePcs
        BY <1>5, <2>4, <3>2 DEF Alone
      <4>2. PICK j \in DOMAIN q : q[j].st = "reading" /\ q[j].who = u
        BY <1>1, <4>1 DEF SlotsInv
      <4>3. j # i
        BY <1>4, <4>2
      <4>. QED
        BY <1>4, <4>2, <4>3
    <3>. QED
      BY <3>1, <3>2
  <2>5. \A j \in DOMAIN q : q[j].who # t
    BY <1>1, <1>2, NoHolder DEF PublishPcs, ReleasePcs
  <2>6. \A j, k \in DOMAIN p : j # k =>
          p[j].val # p[k].val /\ (p[j].who = p[k].who => p[j].who = "nobody")
    <3>1. \A j, k \in DOMAIN q : j # k =>
            q[j].val # q[k].val /\ (q[j].who = q[k].who => q[j].who = "nobody")
      BY <1>1 DEF SlotsInv
    <3>2. \A j \in DOMAIN q : p[j].who = IF j = i THEN t ELSE q[j].who
      BY <1>4
    <3>. QED
      BY <1>4, <1>8, <2>5, <3>1, <3>2
  <2>7. p # << >> => p[1].st # "free"
    <3>1. q # << >> /\ 1 \in DOMAIN q
      <4>1. i \in 1..Len(q) /\ DOMAIN q = 1..Len(q) /\ Len(q) \in Nat
        BY <1>1, <1>4, LenProperties
      <4>2. 1 \in DOMAIN q
        BY <4>1
      <4>. QED
        BY <4>2
    <3>2. q[1].st # "free"
      BY <1>1, <3>1 DEF SlotsInv
    <3>. QED
      BY <1>4, <3>1, <3>2
  <2>8. ASSUME NEW j \in DOMAIN trigger_queue' PROVE SlotOK(trigger_queue[j])'
    <3>1. PICK s : s = p[j]
      OBVIOUS
    <3>2. SlotOK(s)'
      BY <1>4, <2>2, <3>1
    <3>. QED
      BY <3>1, <3>2 DEF SlotOK
  <2>. QED
    BY <2>3, <2>4, <2>6, <2>7, <2>8 DEF SlotsInv
<1>12. RunInv'
  <2>1. \A u \in Threads \ {t} : pc'[u] = pc[u] /\ to_run'[u] = to_run[u]
    BY <1>5 DEF Alone
  <2>2. pc'[t] # "processing" /\ pc[t] \notin RunPcs
    BY <1>5 DEF ReleasePcs
  <2>3. started' = started /\ finished' = finished /\ graph' = graph
    BY <1>2
  <2>4. ASSUME NEW u \in Threads, pc'[u] \in RunPcs
        PROVE  /\ to_run'[u] \in graph.nodes
               /\ to_run'[u] \in started <=> pc'[u] = "processing"
               /\ to_run'[u] \notin finished
               /\ \A w \in Threads \ {u} : ~(pc'[w] \in RunPcs /\ to_run'[w] = to_run'[u])
    <3>1. CASE u = t
      BY <1>1, <1>5, <1>6, <2>1, <2>2, <3>1 DEF RunInv, Runs
    <3>2. CASE u # t
      BY <1>1, <1>5, <1>6, <2>1, <2>2, <2>4, <3>2 DEF RunInv, Runs
    <3>. QED
      BY <3>1, <3>2
  <2>5. ASSUME NEW n \in started \ finished
        PROVE  \E u \in Threads : Runs(u, n)' /\ pc'[u] = "processing"
    <3>1. PICK u \in Threads : Runs(u, n) /\ pc[u] = "processing"
      BY <1>1 DEF RunInv
    <3>2. u # t
      BY <2>2, <3>1 DEF RunPcs
    <3>. QED
      BY <1>7, <2>1, <3>1, <3>2
  <2>. QED
    BY <1>1, <2>3, <2>4, <2>5 DEF RunInv, Runs
<1>13. CountInv'
  <2>1. \A n \in graph.nodes : Counted(n)' <=> Counted(n)
    <3>1. \A n : Queued(n) <=> Queued(n)' \/ n = m
      <4>1. \A j \in DOMAIN q : j # i => p[j] = q[j] /\ q[j].val # m
        BY <1>1, <1>4 DEF SlotsInv, m
      <4>. QED
        BY <1>4, <4>1 DEF Queued, m
    <3>2. \A u \in Threads : \A n : Taken(u, n)' <=> Taken(u, n) \/ (u = t /\ n = m)
      <4>1. pc'[t] \notin {"process", "processing"}
        BY <1>5 DEF ReleasePcs
      <4>2. \A u \in Threads \ {t} : pc'[u] = pc[u]
        BY <1>5 DEF Alone
      <4>3. \A n : ~Runs(t, n)
        BY <1>5 DEF Runs
      <4>. QED
        BY <1>7, <4>1, <4>2, <4>3 DEF Taken
    <3>3. \A u \in Threads : \A n : Pushing(u, n)' <=> Pushing(u, n)
      BY <1>2, <1>5 DEF Pushing, Alone, HandPcs, TriggerPcs, BootPcs, Initials
    <3>. QED
      BY <3>1, <3>2, <3>3 DEF Counted
  <2>. QED
    BY <1>1, <1>2, <2>1, CountFrame
<1>. QED
  BY <1>9, <1>10, <1>11, <1>12, <1>13 DEF DataInv

(* The cell of the node that was taken goes back into circulation.         *)
LEMMA ReleaseData ==
  ASSUME TypeOK, DataInv, NEW t \in Threads, ReleaseCell(t)
  PROVE  DataInv' /\ \A n : Pushed(n)' <=> Pushed(n)
<1>. DEFINE q == trigger_queue
            r == trigger_queue'
<1>1. /\ LocalInv /\ SlotsInv /\ RunInv /\ TriggerInv /\ RefcountInv /\ CountInv
      /\ q \in Seq(Slot(Threads, Nodes))
  BY QueueTypes DEF DataInv
<1>2. /\ pc[t] \in ReleasePcs /\ r = Release(q, t)
      /\ pc' = [pc EXCEPT ![t] = IF pc[t] = "release" THEN "count_idle" ELSE "claimed"]
      /\ UNCHANGED <<graph, refcount, cap, trigger_queue_size, to_run, todo, next_init,
                     started, finished>>
  BY DEF ReleaseCell, Goto, graphVars, countVars, localVars, historyVars, ReleasePcs
<1>3. pc \in [Threads -> Pcs]
  BY DEF TypeOK
<1>4. PICK i \in DOMAIN q :
           /\ q[i].who = t /\ \A j \in DOMAIN q : q[j].who = t => j = i
           /\ q[i].st = "reading" /\ q[i].val = to_run[t]
  BY <1>1, <1>2, Holder
<1>4a. PICK k \in Nat : \E p : LeftOver(q, i, r, p, k)
  BY <1>1, <1>2, <1>4, ReleaseSlot
<1>5. PICK p :
           /\ k \in Nat
           /\ p[i] = [val |-> q[i].val, st |-> "free", who |-> "nobody"]
           /\ \A j \in DOMAIN q : j # i => p[j] = q[j]
           /\ \A j \in DOMAIN r : j + k \in DOMAIN q /\ r[j] = p[j + k]
           /\ \A j \in DOMAIN q : j <= k => p[j].st = "free"
           /\ \A j \in DOMAIN q : j > k => j - k \in DOMAIN r /\ r[j - k] = p[j]
           /\ r # << >> => r[1].st # "free"
           /\ DOMAIN r = 1..Len(r) /\ Len(r) \in Nat
  BY <1>4a DEF LeftOver
<1>. DEFINE m == q[i].val
<1>6. /\ Alone(t) /\ pc'[t] \in CountedPcs
      /\ pc[t] \notin HandPcs /\ pc'[t] \notin HandPcs \cup ReleasePcs \cup PublishPcs
      /\ pc[t] \in RunPcs /\ pc'[t] \in RunPcs /\ pc[t] # "processing" /\ pc'[t] # "processing"
  <2>1. pc'[t] = IF pc[t] = "release" THEN "count_idle" ELSE "claimed"
    BY <1>2, <1>3
  <2>2. Alone(t)
    BY <1>2, <1>3 DEF Alone
  <2>. QED
    BY <1>2, <2>1, <2>2
       DEF ReleasePcs, RunPcs, HandPcs, TriggerPcs, BootPcs, CountedPcs, PublishPcs
<1>7. m \in graph.nodes /\ Runs(t, m)
  BY <1>1, <1>4, <1>6 DEF SlotsInv, SlotOK, Runs
<1>. HIDE DEF m
<1>8. \A u \in Threads : \A n : Runs(u, n)' <=> Runs(u, n)
  BY <1>2, <1>6 DEF Runs, Alone
<1>9. \A j \in DOMAIN q : p[j].val = q[j].val
  BY <1>5 DEF m
<1>10. \A n : Pushed(n)' <=> Pushed(n)
  <2>1. \A n : (\E j \in DOMAIN r : r[j].val = n) => (\E j \in DOMAIN q : q[j].val = n)
    BY <1>5, <1>9
  <2>2. ASSUME NEW j \in DOMAIN q
        PROVE  \/ \E h \in DOMAIN r : r[h].val = q[j].val
               \/ q[j].val \in started \/ \E u \in Threads : Runs(u, q[j].val)
    <3>1. j \in Nat
      BY <1>1, LenProperties
    <3>2. CASE j > k
      BY <1>5, <1>9, <3>2
    <3>3. CASE ~(j > k)
      <4>1. p[j].st = "free"
        BY <1>5, <3>1, <3>3
      <4>2. CASE j = i
        BY <1>7, <4>2 DEF m
      <4>3. CASE j # i
        <5>1. q[j].st = "free"
          BY <1>5, <4>1, <4>3
        <5>. QED
          BY <1>1, <5>1 DEF SlotsInv, SlotOK
      <4>. QED
        BY <4>2, <4>3
    <3>. QED
      BY <3>2, <3>3
  <2>3. started' = started
    BY <1>2
  <2>4. SUFFICES ASSUME NEW n PROVE Pushed(n)' <=> Pushed(n)
    OBVIOUS
  <2>5. Pushed(n)' <=> n \in started \/ (\E j \in DOMAIN r : r[j].val = n)
                                     \/ \E u \in Threads : Runs(u, n)
    BY <1>8, <2>3 DEF Pushed
  <2>. QED
    BY <2>1, <2>2, <2>5 DEF Pushed
<1>11. LocalInv' /\ TriggerInv' /\ RefcountInv'
  BY <1>1, <1>2, <1>6, <1>10, HandsFrame
<1>12. SlotsInv'
  <2>1. ASSUME NEW j \in DOMAIN q, NEW s, s = p[j] PROVE SlotOK(s)'
    <3>1. CASE j = i
      BY <1>2, <1>5, <1>7, <1>8, <2>1, <3>1 DEF m, SlotOK
    <3>2. CASE j # i
      <4>1. s = q[j] /\ SlotOK(s) /\ s.who # t
        BY <1>1, <1>4, <1>5, <2>1, <3>2 DEF SlotsInv
      <4>2. \A u \in Threads : u # t => pc'[u] = pc[u] /\ to_run'[u] = to_run[u]
        BY <1>6 DEF Alone
      <4>. QED
        BY <1>2, <1>8, <4>1, <4>2 DEF SlotOK
    <3>. QED
      BY <3>1, <3>2
  <2>2. ASSUME NEW j \in DOMAIN q, q[j].who # "nobody", j # i
        PROVE  j - k \in DOMAIN r /\ r[j - k] = q[j]
    <3>1. q[j].st # "free" /\ p[j] = q[j] /\ j \in Nat
      BY <1>1, <1>5, <2>2, LenProperties DEF SlotsInv, SlotOK
    <3>2. j > k
      BY <1>5, <3>1
    <3>. QED
      BY <1>5, <3>1, <3>2
  <2>3. "nobody" \notin Threads
    BY ThreadsAssumption
  <2>4. \A u \in Threads : pc'[u] \in PublishPcs \cup ReleasePcs =>
          u # t /\ pc'[u] = pc[u] /\ next_init'[u] = next_init[u] /\ Initials' = Initials
    BY <1>2, <1>6 DEF Alone, Initials
  <2>5. ASSUME NEW u \in Threads, pc'[u] \in PublishPcs
        PROVE  \E j \in DOMAIN r : /\ r[j].st = "claimed" /\ r[j].who = u
                                   /\ pc'[u] = "boot_publish" =>
                                        r[j].val = Initials'[next_init'[u] + 1]
    <3>1. PICK j \in DOMAIN q : /\ q[j].st = "claimed" /\ q[j].who = u
                                /\ pc[u] = "boot_publish" => q[j].val = Initials[next_init[u] + 1]
      BY <1>1, <2>4, <2>5 DEF SlotsInv
    <3>2. j # i /\ q[j].who # "nobody"
      BY <1>4, <2>3, <3>1
    <3>. QED
      BY <2>2, <2>4, <2>5, <3>1, <3>2
  <2>6. ASSUME NEW u \in Threads, pc'[u] \in ReleasePcs
        PROVE  \E j \in DOMAIN r : r[j].st = "reading" /\ r[j].who = u
    <3>1. PICK j \in DOMAIN q : q[j].st = "reading" /\ q[j].who = u
      BY <1>1, <2>4, <2>6 DEF SlotsInv
    <3>2. j # i /\ q[j].who # "nobody"
      BY <1>4, <2>3, <2>4, <2>6, <3>1
    <3>. QED
      BY <2>2, <3>1, <3>2
  <2>7. \A j, h \in DOMAIN r : j # h =>
          r[j].val # r[h].val /\ (r[j].who = r[h].who => r[j].who = "nobody")
    <3>1. \A j, h \in DOMAIN q : j # h =>
            q[j].val # q[h].val /\ (q[j].who = q[h].who => q[j].who = "nobody")
      BY <1>1 DEF SlotsInv
    <3>2. \A j, h \in DOMAIN q : j # h =>
            p[j].val # p[h].val /\ (p[j].who = p[h].who => p[j].who = "nobody")
      <4>1. \A j \in DOMAIN q : p[j].who = IF j = i THEN "nobody" ELSE q[j].who
        BY <1>5
      <4>. QED
        BY <1>9, <3>1, <4>1
    <3>3. \A j, h \in DOMAIN r : j # h => j + k # h + k
      BY <1>5
    <3>. QED
      BY <1>5, <3>2, <3>3
  <2>8. ASSUME NEW j \in DOMAIN trigger_queue' PROVE SlotOK(trigger_queue[j])'
    <3>1. PICK s : s = p[j + k]
      OBVIOUS
    <3>2. SlotOK(s)' /\ s = r[j]
      BY <1>5, <2>1, <3>1
    <3>. QED
      BY <3>2 DEF SlotOK
  <2>. QED
    BY <1>5, <2>5, <2>6, <2>7, <2>8 DEF SlotsInv
<1>13. RunInv'
  <2>1. \A u \in Threads : /\ pc'[u] \in RunPcs <=> pc[u] \in RunPcs
                           /\ pc'[u] = "processing" <=> pc[u] = "processing"
    BY <1>6 DEF Alone
  <2>. QED
    BY <1>1, <1>2, <1>8, <2>1 DEF RunInv
<1>14. CountInv'
  <2>1. \A n \in graph.nodes : Counted(n)' <=> Counted(n)
    <3>1. \A n : Queued(n)' <=> Queued(n)
      <4>1. ASSUME NEW n, Queued(n) PROVE Queued(n)'
        <5>1. PICK j \in DOMAIN q : q[j].val = n /\ q[j].st \in {"claimed", "ready"}
          BY <4>1 DEF Queued
        <5>2. j # i /\ p[j] = q[j] /\ j \in Nat
          BY <1>1, <1>4, <1>5, <5>1, LenProperties
        <5>3. j - k \in DOMAIN r /\ r[j - k] = q[j]
          BY <1>5, <5>1, <5>2
        <5>. QED
          BY <5>1, <5>3 DEF Queued
      <4>2. ASSUME NEW n, Queued(n)' PROVE Queued(n)
        <5>1. PICK j \in DOMAIN r : r[j].val = n /\ r[j].st \in {"claimed", "ready"}
          BY <4>2 DEF Queued
        <5>2. j + k \in DOMAIN q /\ r[j] = p[j + k]
          BY <1>5
        <5>3. j + k # i
          BY <1>5, <5>1, <5>2
        <5>. QED
          BY <1>5, <5>1, <5>2, <5>3 DEF Queued
      <4>. QED
        BY <4>1, <4>2
    <3>2. \A u \in Threads : \A n : Taken(u, n)' <=> Taken(u, n)
      <4>1. pc'[t] \notin {"process", "processing"} /\ pc[t] \notin {"process", "processing"}
        BY <1>2, <1>6 DEF ReleasePcs, CountedPcs
      <4>. QED
        BY <1>6, <1>8, <4>1 DEF Taken, Alone
    <3>3. \A u \in Threads : \A n : Pushing(u, n)' <=> Pushing(u, n)
      BY <1>2, <1>6 DEF Pushing, Alone, HandPcs, TriggerPcs, BootPcs, Initials
    <3>. QED
      BY <3>1, <3>2, <3>3 DEF Counted
  <2>. QED
    BY <1>1, <1>2, <2>1, CountFrame
<1>. QED
  BY <1>10, <1>11, <1>12, <1>13, <1>14 DEF DataInv

LEMMA SlotsFrame ==
  ASSUME TypeOK, SlotsInv, NEW t \in Threads, Alone(t), UNCHANGED <<graph, trigger_queue>>,
         pc[t] \notin PublishPcs \cup ReleasePcs, pc'[t] \notin PublishPcs \cup ReleasePcs,
         \A n : (n \in started' \/ \E u \in Threads : Runs(u, n)')
                  <=> (n \in started \/ \E u \in Threads : Runs(u, n))
  PROVE  SlotsInv' /\ \A n : Pushed(n)' <=> Pushed(n)
<1>1. \A u \in Threads : u # t => /\ pc'[u] = pc[u] /\ to_run'[u] = to_run[u]
                                  /\ next_init'[u] = next_init[u]
  BY DEF Alone
<1>2. Initials' = Initials /\ trigger_queue' = trigger_queue
  BY DEF Initials
<1>3. ASSUME NEW s, SlotOK(s) PROVE SlotOK(s)'
  BY <1>1, <1>3 DEF SlotOK
<1>4. ASSUME NEW i \in DOMAIN trigger_queue' PROVE SlotOK(trigger_queue[i])'
  <2>1. PICK s : s = trigger_queue[i]
    OBVIOUS
  <2>2. SlotOK(s)'
    BY <1>2, <1>3, <1>4, <2>1 DEF SlotsInv
  <2>. QED
    BY <1>2, <2>1, <2>2 DEF SlotOK
<1>5. ASSUME NEW u \in Threads, pc'[u] \in PublishPcs
      PROVE  \E j \in DOMAIN trigger_queue :
                /\ trigger_queue[j].st = "claimed" /\ trigger_queue[j].who = u
                /\ pc'[u] = "boot_publish" => trigger_queue[j].val = Initials'[next_init'[u] + 1]
  <2>1. u # t /\ pc[u] \in PublishPcs /\ pc'[u] = pc[u] /\ next_init'[u] = next_init[u]
    BY <1>1, <1>5
  <2>. QED
    BY <1>2, <2>1 DEF SlotsInv
<1>6. ASSUME NEW u \in Threads, pc'[u] \in ReleasePcs
      PROVE  \E j \in DOMAIN trigger_queue : trigger_queue[j].st = "reading" /\ trigger_queue[j].who = u
  BY <1>1, <1>6 DEF SlotsInv
<1>7. SlotsInv'
  BY <1>2, <1>4, <1>5, <1>6 DEF SlotsInv
<1>8. ASSUME NEW n PROVE Pushed(n)' <=> Pushed(n)
  <2>1. (n \in started' \/ \E u \in Threads : Runs(u, n)')
                  <=> (n \in started \/ \E u \in Threads : Runs(u, n))
    OBVIOUS
  <2>. QED
    BY <1>2, <2>1 DEF Pushed
<1>. QED
  BY <1>7, <1>8

LEMMA ClaimedData ==
  ASSUME TypeOK, DataInv, NEW t \in Threads, NodeClaimed(t)
  PROVE  DataInv' /\ (\A n : Pushed(n)' <=> Pushed(n)) /\ trigger_queue_size >= 1
<1>1. /\ LocalInv /\ SlotsInv /\ RunInv /\ TriggerInv /\ RefcountInv /\ CountInv
  BY DEF DataInv
<1>2. /\ pc[t] = "claimed" /\ trigger_queue_size' = trigger_queue_size - 1
      /\ pc' = [pc EXCEPT ![t] = "process"]
      /\ UNCHANGED <<graph, refcount, cap, trigger_queue, to_run, todo, next_init,
                     started, finished>>
  BY DEF NodeClaimed, Goto, graphVars, localVars, historyVars
<1>3. Alone(t) /\ pc'[t] = "process"
  BY <1>2 DEF Alone, TypeOK
<1>4. \A u \in Threads : \A n : Runs(u, n)' <=> Runs(u, n)
  BY <1>2, <1>3 DEF Runs, Alone, RunPcs
<1>5. SlotsInv' /\ \A n : Pushed(n)' <=> Pushed(n)
  BY <1>1, <1>2, <1>3, <1>4, SlotsFrame DEF PublishPcs, ReleasePcs
<1>6. LocalInv' /\ TriggerInv' /\ RefcountInv'
  BY <1>1, <1>2, <1>3, <1>5, HandsFrame DEF HandPcs, TriggerPcs, BootPcs
<1>7. RunInv'
  <2>1. \A u \in Threads : /\ pc'[u] \in RunPcs <=> pc[u] \in RunPcs
                           /\ pc'[u] = "processing" <=> pc[u] = "processing"
    BY <1>2, <1>3 DEF Alone, RunPcs
  <2>. QED
    BY <1>1, <1>2, <1>4, <2>1 DEF RunInv
<1>. DEFINE m == to_run[t]
            S == {n \in graph.nodes : Counted(n)}
<1>8. /\ m \in graph.nodes /\ m \notin started /\ Taken(t, m)
      /\ \A u \in Threads \ {t} : ~Runs(u, m)
  BY <1>1, <1>2 DEF RunInv, Runs, RunPcs, Taken
<1>. HIDE DEF m
<1>9. \A n : Counted(n)' <=> Counted(n) /\ n # m
  <2>1. \A n : Queued(n)' <=> Queued(n) /\ n # m
    <3>1. ~Queued(m)
      <4>1. \A i \in DOMAIN trigger_queue :
               trigger_queue[i].st \in {"claimed", "ready"} => trigger_queue[i].val # m
        BY <1>1, <1>8 DEF SlotsInv, SlotOK, Taken
      <4>. QED
        BY <4>1 DEF Queued
    <3>2. \A n : Queued(n)' <=> Queued(n)
      BY <1>2 DEF Queued
    <3>. QED
      BY <3>1, <3>2
  <2>2. \A u \in Threads : \A n : Taken(u, n)' <=> Taken(u, n) /\ n # m
    <3>1. ASSUME NEW n PROVE ~Taken(t, n)'
      BY <1>3 DEF Taken
    <3>2. \A n : Taken(t, n) => n = m
      BY DEF Taken, Runs, m
    <3>3. ASSUME NEW u \in Threads, u # t, NEW n PROVE Taken(u, n)' <=> Taken(u, n) /\ n # m
      <4>1. Taken(u, n)' <=> Taken(u, n)
        BY <1>3, <1>4, <3>3 DEF Taken, Alone
      <4>2. Taken(u, n) => n # m
        BY <1>8, <3>3 DEF Taken
      <4>. QED
        BY <4>1, <4>2
    <3>. QED
      BY <3>1, <3>2, <3>3
  <2>3. \A u \in Threads : \A n : Pushing(u, n)' <=> Pushing(u, n)
    BY <1>2, <1>3 DEF Pushing, Alone, Initials
  <2>4. \A u \in Threads : ~Pushing(u, m)
    <3>1. Pushed(m)
      BY <1>8 DEF Pushed, Taken
    <3>2. ASSUME NEW u \in Threads, pc[u] = "push" PROVE Head(todo[u]) # m
      BY <1>1, <3>1, <3>2 DEF TriggerInv, TriggerPcs
    <3>3. ASSUME NEW u \in Threads, pc[u] = "boot_push", Initials[next_init[u] + 1] = m PROVE FALSE
      <4>1. Booting(u) /\ next_init[u] \in 0..(Len(Initials) - 1)
        BY <1>1, <3>3 DEF Booting, LocalInv, Local
      <4>2. DOMAIN Initials = 1..Len(Initials) /\ Len(Initials) \in Nat
        BY InitialNodes, QueueTypes DEF Initials
      <4>3. next_init[u] + 1 \in DOMAIN Initials /\ next_init[u] + 1 > next_init[u]
        BY <4>1, <4>2
      <4>4. ToBoot(u, m)
        BY <3>3, <4>3 DEF ToBoot
      <4>. QED
        BY <1>1, <1>8, <3>1, <4>1, <4>4 DEF TriggerInv
    <3>. QED
      BY <3>2, <3>3 DEF Pushing
  <2>. QED
    BY <2>1, <2>2, <2>3, <2>4 DEF Counted
<1>10. m \in S /\ {n \in graph.nodes : Counted(n)'} = S \ {m}
  BY <1>8, <1>9 DEF Counted
<1>11. IsFiniteSet(S) /\ Cardinality(S) \in Nat /\ Cardinality(S \ {m}) = Cardinality(S) - 1
       /\ Cardinality(S) # 0
  <2>. HIDE DEF S
  <2>1. S \in SUBSET graph.nodes /\ graph \in Graphs
    BY QueueTypes DEF S
  <2>2. IsFiniteSet(S) /\ Cardinality(S) \in Nat /\ (Cardinality(S) = 0 <=> S = {})
    BY <2>1, NodeSet
  <2>. QED
    BY <1>10, <2>2, FS_RemoveElement
<1>12. CountInv' /\ trigger_queue_size >= 1
  <2>1. trigger_queue_size = Cardinality(S)
    BY <1>1 DEF CountInv
  <2>2. {n \in graph'.nodes : Counted(n)'} = S \ {m}
    BY <1>2, <1>10
  <2>3. Cardinality({n \in graph'.nodes : Counted(n)'}) = Cardinality(S \ {m})
    BY <2>2
  <2>4. cap' >= Cardinality(graph'.nodes)
    BY <1>1, <1>2 DEF CountInv
  <2>. HIDE DEF S
  <2>5. trigger_queue_size' = Cardinality(S \ {m}) /\ trigger_queue_size >= 1
    BY <1>2, <1>11, <2>1
  <2>. QED
    BY <2>3, <2>4, <2>5 DEF CountInv
<1>. QED
  BY <1>5, <1>6, <1>7, <1>12 DEF DataInv

LEMMA BeginData ==
  ASSUME TypeOK, DataInv, NEW t \in Threads, BeginProcess(t)
  PROVE  /\ DataInv' /\ \A n : Pushed(n)' <=> Pushed(n)
         /\ to_run[t] \in graph.nodes \ started /\ Parents(graph, to_run[t]) \subseteq finished
<1>. DEFINE m == to_run[t]
<1>1. /\ LocalInv /\ SlotsInv /\ RunInv /\ TriggerInv /\ RefcountInv /\ CountInv
  BY DEF DataInv
<1>2. /\ pc[t] = "process" /\ started' = started \cup {m} /\ pc' = [pc EXCEPT ![t] = "processing"]
      /\ UNCHANGED <<graph, refcount, cap, trigger_queue_size, trigger_queue, to_run, todo,
                     next_init, finished>>
  BY DEF BeginProcess, Goto, graphVars, countVars, localVars, historyVars
<1>3. Alone(t) /\ pc'[t] = "processing"
  BY <1>2 DEF Alone, TypeOK
<1>4. \A u \in Threads : \A n : Runs(u, n)' <=> Runs(u, n)
  BY <1>2, <1>3 DEF Runs, Alone, RunPcs
<1>5. Runs(t, m) /\ m \in graph.nodes /\ m \notin started /\ m \notin finished
      /\ \A u \in Threads \ {t} : ~Runs(u, m)
  BY <1>1, <1>2 DEF RunInv, Runs, RunPcs
<1>. HIDE DEF m
<1>6. \A n : (n \in started' \/ \E u \in Threads : Runs(u, n)')
              <=> (n \in started \/ \E u \in Threads : Runs(u, n))
  BY <1>2, <1>4, <1>5
<1>7. SlotsInv' /\ \A n : Pushed(n)' <=> Pushed(n)
  BY <1>1, <1>2, <1>3, <1>6, SlotsFrame DEF PublishPcs, ReleasePcs
<1>8. LocalInv' /\ TriggerInv' /\ RefcountInv'
  BY <1>1, <1>2, <1>3, <1>7, HandsFrame DEF HandPcs, TriggerPcs, BootPcs
<1>9. RunInv'
  <2>1. /\ \A u \in Threads \ {t} : pc'[u] = pc[u]
        /\ \A u \in Threads : to_run'[u] = to_run[u] /\ (pc'[u] \in RunPcs <=> pc[u] \in RunPcs)
    BY <1>2, <1>3 DEF Alone, RunPcs
  <2>2. \A u \in Threads \ {t} : pc[u] \in RunPcs => to_run[u] # m
    BY <1>5 DEF Runs
  <2>3. pc'[t] \in RunPcs /\ to_run[t] = m /\ pc[t] = "process"
    BY <1>2, <1>3 DEF m, RunPcs
  <2>4. ASSUME NEW n \in started' \ finished
        PROVE  \E u \in Threads : Runs(u, n)' /\ pc'[u] = "processing"
    <3>1. CASE n = m
      BY <1>3, <1>4, <1>5, <3>1
    <3>2. CASE n # m
      <4>1. PICK u \in Threads : Runs(u, n) /\ pc[u] = "processing"
        BY <1>1, <1>2, <2>4, <3>2 DEF RunInv
      <4>2. u # t
        BY <2>3, <4>1
      <4>. QED
        BY <1>4, <2>1, <4>1, <4>2
    <3>. QED
      BY <3>1, <3>2
  <2>5. ASSUME NEW u \in Threads, pc'[u] \in RunPcs
        PROVE  /\ to_run'[u] \in graph.nodes
               /\ to_run'[u] \in started' <=> pc'[u] = "processing"
               /\ to_run'[u] \notin finished
               /\ \A w \in Threads \ {u} : ~Runs(w, to_run[u])'
    <3>1. PICK n : n = to_run[u]
      OBVIOUS
    <3>2. /\ n \in graph.nodes /\ n \notin finished
          /\ n \in started <=> pc[u] = "processing"
          /\ \A w \in Threads \ {u} : ~Runs(w, n)
      BY <1>1, <2>1, <2>5, <3>1 DEF RunInv
    <3>3. \A w \in Threads \ {u} : ~Runs(w, to_run[u])'
      BY <1>2, <1>4, <3>1, <3>2 DEF Runs
    <3>4. n \in started' <=> pc'[u] = "processing"
      <4>1. CASE u = t
        BY <1>2, <1>3, <2>3, <3>1, <4>1
      <4>2. CASE u # t
        BY <1>2, <2>1, <2>2, <2>5, <3>1, <3>2, <4>2
      <4>. QED
        BY <4>1, <4>2
    <3>. QED
      BY <2>1, <3>1, <3>2, <3>3, <3>4
  <2>. QED
    BY <1>1, <1>2, <1>5, <2>4, <2>5 DEF RunInv
<1>10. CountInv'
  <2>1. \A u \in Threads : \A n : Taken(u, n)' <=> Taken(u, n)
    BY <1>2, <1>3, <1>4 DEF Taken, Alone
  <2>2. \A u \in Threads : \A n : Pushing(u, n)' <=> Pushing(u, n)
    BY <1>2, <1>3 DEF Pushing, Alone, Initials
  <2>3. \A n : Queued(n)' <=> Queued(n)
    BY <1>2 DEF Queued
  <2>4. \A n \in graph.nodes : Counted(n)' <=> Counted(n)
    BY <2>1, <2>2, <2>3 DEF Counted
  <2>. QED
    BY <1>1, <1>2, <2>4, CountFrame
<1>11. Parents(graph, m) \subseteq finished
  <2>1. Pushed(m)
    BY <1>5 DEF Pushed
  <2>2. Missing(m) = {}
    BY <1>1, <1>5, <2>1 DEF RefcountInv
  <2>. QED
    BY <2>2 DEF Missing
<1>. QED
  BY <1>5, <1>7, <1>8, <1>9, <1>10, <1>11 DEF DataInv, m

(* A thread that takes the children of m over from the node itself owes    *)
(* them as much as the node did.                                           *)
LEMMA FinishData ==
  ASSUME TypeOK, DataInv, NEW t \in Threads, FinishProcess(t), callback_in_progress
  PROVE  /\ DataInv' /\ \A n : Pushed(n)' <=> Pushed(n)
         /\ to_run[t] \in started \ finished
<1>. DEFINE m == to_run[t]
            cs == graph.childnodes[m]
<1>1. /\ LocalInv /\ SlotsInv /\ RunInv /\ TriggerInv /\ RefcountInv /\ CountInv /\ graph \in Graphs
  BY QueueTypes DEF DataInv
<1>2. /\ pc[t] = "processing" /\ finished' = finished \cup {m}
      /\ \/ cs = << >> /\ pc' = [pc EXCEPT ![t] = "terminal"] /\ todo' = todo
         \/ cs # << >> /\ pc' = [pc EXCEPT ![t] = "notify"] /\ todo' = [todo EXCEPT ![t] = cs]
      /\ to_run' = [to_run EXCEPT ![t] = NoNode]
      /\ UNCHANGED <<graph, refcount, cap, trigger_queue_size, trigger_queue, next_init, started>>
  BY DEF FinishProcess, Goto, graphVars, countVars
<1>3. /\ pc \in [Threads -> Pcs] /\ todo \in [Threads -> Seq(Nodes)]
      /\ to_run \in [Threads -> Nodes \cup {NoNode}]
  BY DEF TypeOK
<1>4. Alone(t) /\ pc'[t] \in {"terminal", "notify"}
  BY <1>2, <1>3 DEF Alone
<1>5. todo[t] = << >> /\ next_init[t] = 0
  BY <1>1, <1>2 DEF LocalInv, Local, TriggerPcs, BootPcs
<1>6. todo'[t] = cs /\ (cs # << >> => pc'[t] = "notify")
  BY <1>2, <1>3, <1>5
<1>7. /\ Runs(t, m) /\ m \in graph.nodes /\ m \in started /\ m \notin finished
      /\ \A u \in Threads \ {t} : ~Runs(u, m)
  BY <1>1, <1>2 DEF RunInv, Runs, RunPcs
<1>8. cs \in Seq(Nodes) /\ IsInjective(cs) /\ ToSet(cs) = Children(graph, m)
      /\ \A n \in ToSet(cs) : n \in graph.nodes /\ m \in Parents(graph, n)
  <2>1. cs \in Seq(Nodes) /\ IsInjective(cs) /\ Children(graph, m) \subseteq graph.nodes
    BY <1>1, <1>7, GraphFacts
  <2>. QED
    BY <1>7, <2>1 DEF Children, Parents
<1>. HIDE DEF m, cs
<1>9. \A u \in Threads : \A n : Runs(u, n)' <=> Runs(u, n) /\ u # t
  BY <1>2, <1>4 DEF Runs, Alone, RunPcs
<1>10. SlotsInv' /\ \A n : Pushed(n)' <=> Pushed(n)
  <2>1. \A n : Runs(t, n) => n \in started
    BY <1>7 DEF Runs, m
  <2>2. \A n : (n \in started' \/ \E u \in Threads : Runs(u, n)')
              <=> (n \in started \/ \E u \in Threads : Runs(u, n))
    BY <1>2, <1>9, <2>1
  <2>. QED
    BY <1>1, <1>2, <1>4, <2>2, SlotsFrame DEF PublishPcs, ReleasePcs
<1>11. \A u \in Threads \ {t} : /\ pc'[u] = pc[u] /\ todo'[u] = todo[u]
                                /\ next_init'[u] = next_init[u] /\ to_run'[u] = to_run[u]
  BY <1>4 DEF Alone
<1>12. Initials' = Initials
  BY <1>2 DEF Initials
<1>13. LocalInv'
  <2>1. \A u \in Threads \ {t} : Local(u)'
    BY <1>1, <1>2, <1>11, <1>12 DEF LocalInv, Local
  <2>2. Local(t)'
    BY <1>2, <1>4, <1>5, <1>6, <1>8 DEF Local, TriggerPcs, BootPcs
  <2>. QED
    BY <2>1, <2>2 DEF LocalInv
<1>14. \A u \in Threads : \A n : Triggering(u, n)' <=> Triggering(u, n)
  BY <1>2, <1>4, <1>11 DEF Triggering, TriggerPcs
<1>15. TriggerInv'
  <2>1. \A u \in Threads : pc'[u] \in TriggerPcs => u # t
    BY <1>4 DEF TriggerPcs
  <2>2. \A u \in Threads : Booting(u)' => u # t
    BY <1>4 DEF Booting
  <2>3. \A u \in Threads \ {t} : Booting(u)' <=> Booting(u)
    BY <1>11, <1>12 DEF Booting
  <2>4. \A u \in Threads \ {t} : \A n : ToBoot(u, n)' <=> ToBoot(u, n)
    BY <1>11, <1>12 DEF ToBoot
  <2>. QED
    BY <1>1, <1>2, <1>10, <1>11, <1>14, <2>1, <2>2, <2>3, <2>4 DEF TriggerInv
<1>16. RefcountInv'
  <2>1. ASSUME NEW n PROVE ~Owes(t, n)
    BY <1>5 DEF Owes, ToSet
  <2>2. \A n : Owes(t, n)' <=> n \in ToSet(cs)
    <3>1. \A n : n \in ToSet(cs) => pc'[t] = "notify"
      BY <1>6 DEF ToSet
    <3>. QED
      BY <1>6, <3>1 DEF Owes
  <2>3. \A u \in Threads \ {t} : \A n : Owes(u, n)' <=> Owes(u, n)
    BY <1>11 DEF Owes
  <2>4. ASSUME NEW n \in graph.nodes, n \in ToSet(cs)
        PROVE  /\ Missing(n)' # {} \/ Owing(n)' # {}
               /\ Missing(n) # {} \/ Owing(n) # {}
               /\ Cardinality(Missing(n)') + Cardinality(Owing(n)')
                    = Cardinality(Missing(n)) + Cardinality(Owing(n))
    <3>1. Missing(n)' = Missing(n) \ {m} /\ m \in Missing(n)
      BY <1>2, <1>7, <1>8, <2>4 DEF Missing
    <3>2. Owing(n)' = Owing(n) \cup {t} /\ t \notin Owing(n)
      BY <2>1, <2>2, <2>3, <2>4 DEF Owing
    <3>3. IsFiniteSet(Missing(n)) /\ Cardinality(Missing(n)) \in Nat
      <4>1. Missing(n) \in SUBSET graph.nodes
        BY <1>1, GraphFacts DEF Missing
      <4>. QED
        BY <1>1, <4>1, NodeSet
    <3>4. IsFiniteSet(Owing(n)) /\ Cardinality(Owing(n)) \in Nat
      <4>1. Owing(n) \in SUBSET Threads
        BY DEF Owing
      <4>. QED
        BY <4>1, ThreadSet
    <3>5. Cardinality(Missing(n) \ {m}) = Cardinality(Missing(n)) - 1
      BY <3>1, <3>3, FS_RemoveElement
    <3>6. Cardinality(Owing(n) \cup {t}) = Cardinality(Owing(n)) + 1
      BY <3>2, <3>4, FS_AddElement
    <3>. QED
      BY <3>1, <3>2, <3>3, <3>4, <3>5, <3>6
  <2>5. ASSUME NEW n \in graph.nodes, n \notin ToSet(cs)
        PROVE  Missing(n)' = Missing(n) /\ Owing(n)' = Owing(n)
    <3>1. m \notin Parents(graph, n)
      BY <1>8, <2>5 DEF Parents
    <3>2. Missing(n)' = Missing(n)
      BY <1>2, <3>1 DEF Missing
    <3>3. Owing(n)' = Owing(n)
      BY <2>1, <2>2, <2>3, <2>5 DEF Owing
    <3>. QED
      BY <3>2, <3>3
  <2>6. \A u \in Threads : \A n : pc'[u] = "reset_refcount" /\ Head(todo'[u]) = n
                                <=> pc[u] = "reset_refcount" /\ Head(todo[u]) = n
    BY <1>2, <1>4, <1>11
  <2>7. SUFFICES ASSUME NEW n \in graph.nodes
        PROVE IF Missing(n)' # {} \/ Owing(n)' # {}
              THEN /\ refcount[n] = Cardinality(Missing(n)') + Cardinality(Owing(n)')
                   /\ ~Pushed(n)' /\ \A u \in Threads : ~Triggering(u, n)'
              ELSE /\ refcount[n] = IF \E u \in Threads : pc'[u] = "reset_refcount" /\ Head(todo'[u]) = n
                                    THEN 0 ELSE InitRefcount(graph, n)
                   /\ Parents(graph, n) # {} => Pushed(n)' \/ \E u \in Threads : Triggering(u, n)'
    BY <1>2 DEF RefcountInv
  <2>8. CASE n \in ToSet(cs)
    BY <1>1, <1>10, <1>14, <2>4, <2>8 DEF RefcountInv
  <2>9. CASE n \notin ToSet(cs)
    BY <1>1, <1>10, <1>14, <2>5, <2>6, <2>9 DEF RefcountInv
  <2>. QED
    BY <2>8, <2>9
<1>17. RunInv'
  <2>1. \A u \in Threads : pc'[u] \in RunPcs => u # t
    BY <1>4 DEF RunPcs
  <2>2. ASSUME NEW u \in Threads, pc'[u] \in RunPcs
        PROVE  /\ to_run'[u] \in graph.nodes
               /\ to_run'[u] \in started <=> pc'[u] = "processing"
               /\ to_run'[u] \notin finished'
               /\ \A w \in Threads \ {u} : ~Runs(w, to_run[u])'
    <3>1. PICK n : n = to_run[u]
      OBVIOUS
    <3>2. u # t /\ pc[u] \in RunPcs /\ pc'[u] = pc[u] /\ to_run'[u] = n
      BY <1>11, <2>1, <2>2, <3>1
    <3>3. /\ n \in graph.nodes /\ n \notin finished /\ (n \in started <=> pc[u] = "processing")
          /\ \A w \in Threads \ {u} : ~Runs(w, n)
      BY <1>1, <3>1, <3>2 DEF RunInv
    <3>4. n # m
      BY <1>7, <3>2, <3>3
    <3>5. \A w \in Threads \ {u} : ~Runs(w, to_run[u])'
      <4>1. \A w \in Threads \ {u} : ~Runs(w, n)'
        BY <1>9, <3>3
      <4>. QED
        BY <3>2, <4>1 DEF Runs
    <3>. QED
      BY <1>2, <3>2, <3>3, <3>4, <3>5
  <2>3. ASSUME NEW n \in started \ finished'
        PROVE  \E u \in Threads : Runs(u, n)' /\ pc'[u] = "processing"
    <3>1. n # m /\ n \in started \ finished
      BY <1>2, <2>3
    <3>2. PICK u \in Threads : Runs(u, n) /\ pc[u] = "processing"
      BY <1>1, <3>1 DEF RunInv
    <3>3. u # t
      BY <3>1, <3>2 DEF Runs, m
    <3>. QED
      BY <1>9, <1>11, <3>2, <3>3
  <2>. QED
    BY <1>1, <1>2, <1>7, <2>2, <2>3 DEF RunInv
<1>18. CountInv'
  <2>1. \A u \in Threads : \A n : Taken(u, n)' <=> Taken(u, n)
    BY <1>2, <1>9, <1>11 DEF Taken
  <2>2. \A u \in Threads : \A n : Pushing(u, n)' <=> Pushing(u, n)
    BY <1>2, <1>4, <1>11, <1>12 DEF Pushing
  <2>3. \A n : Queued(n)' <=> Queued(n)
    BY <1>2 DEF Queued
  <2>4. \A n \in graph.nodes : Counted(n)' <=> Counted(n)
    BY <2>1, <2>2, <2>3 DEF Counted
  <2>. QED
    BY <1>1, <1>2, <2>4, CountFrame
<1>. QED
  BY <1>7, <1>10, <1>13, <1>15, <1>16, <1>17, <1>18 DEF DataInv, m

-----------------------------------------------------------------------------
(* The children a finished node triggers.                                  *)
LEMMA TodoTail ==
  ASSUME NEW S, NEW s \in Seq(S), s # << >>, IsInjective(s)
  PROVE  /\ Head(s) \in ToSet(s) /\ Tail(s) \in Seq(S) /\ IsInjective(Tail(s))
         /\ \A n : n \in ToSet(Tail(s)) <=> n \in ToSet(s) /\ n # Head(s)
<1>1. /\ DOMAIN s = 1..Len(s) /\ Len(s) \in Nat /\ Len(s) # 0 /\ Head(s) = s[1]
  BY LenProperties, EmptySeq
<1>2. /\ Tail(s) \in Seq(S) /\ Len(Tail(s)) = Len(s) - 1
      /\ \A i \in 1..Len(Tail(s)) : Tail(s)[i] = s[i + 1]
  BY HeadTailProperties
<1>3. DOMAIN Tail(s) = 1..(Len(s) - 1)
  BY <1>2, LenProperties
<1>. DEFINE r == Tail(s)
<1>. HIDE DEF r
<1>4. DOMAIN r = 1..(Len(s) - 1) /\ \A i \in DOMAIN r : r[i] = s[i + 1] /\ i + 1 \in DOMAIN s
  BY <1>1, <1>2, <1>3 DEF r
<1>5. \A i \in DOMAIN s : i # 1 => i - 1 \in DOMAIN r /\ r[i - 1] = s[i]
  <2>1. \A i \in DOMAIN s : i # 1 => i - 1 \in DOMAIN r /\ (i - 1) + 1 = i
    BY <1>1, <1>4
  <2>. QED
    BY <1>4, <2>1
<1>6. \A i, j \in DOMAIN s : s[i] = s[j] => i = j
  BY DEF IsInjective
<1>7. 1 \in DOMAIN s
  BY <1>1
<1>8. IsInjective(r)
  <2>1. \A i, j \in DOMAIN r : i + 1 = j + 1 => i = j
    BY <1>4
  <2>. QED
    BY <1>4, <1>6, <2>1 DEF IsInjective
<1>9. ASSUME NEW n PROVE n \in ToSet(r) <=> n \in ToSet(s) /\ n # Head(s)
  <2>1. \A i \in DOMAIN r : i + 1 # 1
    BY <1>4
  <2>2. ASSUME n \in ToSet(r) PROVE n \in ToSet(s) /\ n # Head(s)
    <3>1. PICK i \in DOMAIN r : n = r[i]
      BY <2>2 DEF ToSet
    <3>2. n = s[i + 1] /\ i + 1 \in DOMAIN s /\ i + 1 # 1
      BY <1>4, <2>1, <3>1
    <3>3. n # s[1]
      BY <1>6, <1>7, <3>2
    <3>. QED
      BY <1>1, <3>2, <3>3 DEF ToSet
  <2>3. ASSUME n \in ToSet(s), n # Head(s) PROVE n \in ToSet(r)
    <3>1. PICK i \in DOMAIN s : n = s[i]
      BY <2>3 DEF ToSet
    <3>2. i - 1 \in DOMAIN r /\ r[i - 1] = n
      BY <1>1, <1>5, <2>3, <3>1
    <3>. QED
      BY <3>2 DEF ToSet
  <2>. QED
    BY <2>2, <2>3
<1>10. Head(s) \in ToSet(s)
  BY <1>1, <1>7 DEF ToSet
<1>. QED
  BY <1>2, <1>8, <1>9, <1>10 DEF r

(* A step that runs no node and does not touch the queue.                  *)
LEMMA HandsOnly ==
  ASSUME TypeOK, DataInv, NEW t \in Threads, Alone(t),
         UNCHANGED <<graph, trigger_queue, started, finished>>,
         pc[t] \notin RunPcs \cup PublishPcs, pc'[t] \notin RunPcs \cup PublishPcs
  PROVE  /\ SlotsInv' /\ RunInv'
         /\ \A n : Pushed(n)' <=> Pushed(n)
         /\ \A n : Queued(n)' <=> Queued(n)
         /\ \A u \in Threads : \A n : Taken(u, n)' <=> Taken(u, n)
<1>1. \A u \in Threads : \A n : Runs(u, n)' <=> Runs(u, n)
  BY DEF Runs, Alone
<1>2. pc[t] \notin ReleasePcs /\ pc'[t] \notin ReleasePcs /\ pc[t] # "processing" /\ pc'[t] # "processing"
  BY DEF ReleasePcs, RunPcs
<1>3. SlotsInv' /\ \A n : Pushed(n)' <=> Pushed(n)
  BY <1>1, <1>2, SlotsFrame DEF DataInv
<1>4. \A n : Queued(n)' <=> Queued(n)
  BY DEF Queued
<1>5. \A u \in Threads : \A n : Taken(u, n)' <=> Taken(u, n)
  <2>1. \A n : ~Taken(t, n) /\ ~Taken(t, n)'
    BY DEF Taken, Runs
  <2>. QED
    BY <1>1, <2>1 DEF Taken, Alone, Runs
<1>6. RunInv'
  <2>1. \A u \in Threads : /\ pc'[u] \in RunPcs <=> pc[u] \in RunPcs
                           /\ pc'[u] = "processing" <=> pc[u] = "processing"
                           /\ pc[u] \in RunPcs => to_run'[u] = to_run[u]
    BY <1>2 DEF Alone
  <2>2. ASSUME NEW u \in Threads, pc'[u] \in RunPcs
        PROVE  /\ to_run'[u] \in graph.nodes
               /\ to_run'[u] \in started <=> pc'[u] = "processing"
               /\ to_run'[u] \notin finished
               /\ \A w \in Threads \ {u} : ~Runs(w, to_run[u])'
    <3>1. PICK n : n = to_run[u]
      OBVIOUS
    <3>2. to_run'[u] = n /\ pc[u] \in RunPcs
      BY <2>1, <2>2, <3>1
    <3>3. \A w \in Threads \ {u} : ~Runs(w, to_run[u])'
      <4>1. \A w \in Threads \ {u} : ~Runs(w, n)'
        BY <1>1, <3>1, <3>2 DEF DataInv, RunInv
      <4>. QED
        BY <3>2, <4>1 DEF Runs
    <3>. QED
      BY <2>1, <3>1, <3>2, <3>3 DEF DataInv, RunInv
  <2>. QED
    BY <1>1, <2>1, <2>2 DEF DataInv, RunInv
<1>. QED
  BY <1>3, <1>4, <1>5, <1>6

(* One parent of the next child less to wait for: its refcount is not 0,   *)
(* and the thread that takes it to 0 is the one that triggers it.          *)
LEMMA NotifyData ==
  ASSUME TypeOK, DataInv, NEW t \in Threads, NotifyChild(t)
  PROVE  /\ DataInv' /\ \A n : Pushed(n)' <=> Pushed(n)
         /\ Head(todo[t]) \in graph.nodes /\ refcount[Head(todo[t])] >= 1
<1>0. PICK c : c = Head(todo[t])
  OBVIOUS
<1>1. /\ LocalInv /\ SlotsInv /\ RunInv /\ TriggerInv /\ RefcountInv /\ CountInv /\ graph \in Graphs
  BY QueueTypes DEF DataInv
<1>2. /\ pc[t] = "notify" /\ todo[t] # << >>
      /\ refcount' = [refcount EXCEPT ![c] = @ - 1]
      /\ \/ refcount[c] = 1 /\ pc' = [pc EXCEPT ![t] = "reset_refcount"] /\ todo' = todo
         \/ refcount[c] # 1 /\ pc' = pc /\ todo' = [todo EXCEPT ![t] = Tail(@)]
      /\ UNCHANGED <<graph, cap, trigger_queue_size, trigger_queue, to_run, next_init,
                     started, finished>>
  BY <1>0 DEF NotifyChild, Goto, countVars, historyVars
<1>3. /\ pc \in [Threads -> Pcs] /\ todo \in [Threads -> Seq(Nodes)] /\ refcount \in [Nodes -> Nat]
  BY DEF TypeOK
<1>4. /\ Alone(t) /\ pc'[t] \in {"notify", "reset_refcount"}
      /\ \/ refcount[c] = 1 /\ pc'[t] = "reset_refcount" /\ todo'[t] = todo[t]
         \/ refcount[c] # 1 /\ pc'[t] = "notify" /\ todo'[t] = Tail(todo[t])
  BY <1>2, <1>3 DEF Alone
<1>5. /\ c \in ToSet(todo[t]) /\ Tail(todo[t]) \in Seq(Nodes) /\ IsInjective(Tail(todo[t]))
      /\ \A n : n \in ToSet(Tail(todo[t])) <=> n \in ToSet(todo[t]) /\ n # c
  BY <1>0, <1>1, <1>2, <1>3, TodoTail DEF LocalInv, Local
<1>6. c \in graph.nodes /\ Parents(graph, c) # {} /\ c \in Nodes
  <2>1. c \in graph.nodes /\ Parents(graph, c) # {}
    BY <1>1, <1>5 DEF LocalInv, Local
  <2>. QED
    BY <1>1, <2>1, GraphFacts
<1>7. Owes(t, c) /\ t \in Owing(c)
  BY <1>0, <1>2, <1>5 DEF Owes, Owing
<1>8. Local(t)
  BY <1>1 DEF LocalInv
<1>9. /\ refcount[c] = Cardinality(Missing(c)) + Cardinality(Owing(c))
      /\ ~Pushed(c) /\ \A u \in Threads : ~Triggering(u, c)
  BY <1>1, <1>6, <1>7 DEF RefcountInv
<1>10. /\ IsFiniteSet(Owing(c)) /\ Cardinality(Owing(c)) \in Nat
       /\ Cardinality(Owing(c)) # 0 /\ Cardinality(Missing(c)) \in Nat
       /\ Cardinality(Missing(c)) = 0 <=> Missing(c) = {}
  <2>1. Owing(c) \in SUBSET Threads
    BY DEF Owing
  <2>2. Missing(c) \in SUBSET graph.nodes
    BY <1>1, GraphFacts DEF Missing
  <2>. QED
    BY <1>1, <1>7, <2>1, <2>2, ThreadSet, NodeSet
<1>11. /\ SlotsInv' /\ RunInv' /\ \A n : Pushed(n)' <=> Pushed(n)
       /\ \A n : Queued(n)' <=> Queued(n)
       /\ \A u \in Threads : \A n : Taken(u, n)' <=> Taken(u, n)
  BY <1>2, <1>4, HandsOnly DEF RunPcs, PublishPcs
<1>12. \A u \in Threads \ {t} : /\ pc'[u] = pc[u] /\ todo'[u] = todo[u]
                                /\ next_init'[u] = next_init[u] /\ to_run'[u] = to_run[u]
  BY <1>4 DEF Alone
<1>13. Initials' = Initials
  BY <1>2 DEF Initials
<1>14. LocalInv'
  <2>1. \A u \in Threads \ {t} : Local(u)'
    BY <1>1, <1>2, <1>12, <1>13 DEF LocalInv, Local
  <2>2. ToSet(todo'[t]) \subseteq ToSet(todo[t]) /\ IsInjective(todo'[t])
    BY <1>4, <1>5, <1>8 DEF Local
  <2>3. next_init'[t] = 0
    BY <1>2, <1>8 DEF Local, BootPcs
  <2>4. \A n \in ToSet(todo'[t]) : n \in graph'.nodes /\ Parents(graph', n) # {}
    BY <1>2, <1>8, <2>2 DEF Local
  <2>5. pc'[t] = "reset_refcount" => todo'[t] # << >>
    BY <1>2, <1>4
  <2>6. Local(t)'
    BY <1>4, <2>2, <2>3, <2>4, <2>5 DEF Local, TriggerPcs, BootPcs
  <2>. QED
    BY <2>1, <2>6 DEF LocalInv
<1>15. \A u \in Threads : \A n : Triggering(u, n)'
             <=> Triggering(u, n) \/ (u = t /\ n = c /\ pc'[t] = "reset_refcount")
  <2>1. \A u \in Threads \ {t} : \A n : Triggering(u, n)' <=> Triggering(u, n)
    BY <1>12 DEF Triggering
  <2>2. \A n : ~Triggering(t, n)
    BY <1>2 DEF Triggering, TriggerPcs
  <2>3. \A n : Triggering(t, n)' <=> n = c /\ pc'[t] = "reset_refcount"
    BY <1>0, <1>4 DEF Triggering, TriggerPcs
  <2>. QED
    BY <2>1, <2>2, <2>3
<1>16. TriggerInv'
  <2>1. \A u \in Threads : Booting(u)' => u # t
    BY <1>4 DEF Booting
  <2>2. \A u \in Threads \ {t} : Booting(u)' <=> Booting(u)
    BY <1>12, <1>13 DEF Booting
  <2>3. \A u \in Threads \ {t} : \A n : ToBoot(u, n)' <=> ToBoot(u, n)
    BY <1>12, <1>13 DEF ToBoot
  <2>4. ASSUME NEW u \in Threads, pc'[u] \in TriggerPcs
        PROVE  ~Pushed(Head(todo[u]))' /\ \A w \in Threads \ {u} : ~Triggering(w, Head(todo[u]))'
    <3>1. PICK n : n = Head(todo'[u])
      OBVIOUS
    <3>2. ~Pushed(n)' /\ \A w \in Threads \ {u} : ~Triggering(w, n)'
      <4>1. CASE u = t
        <5>1. n = c /\ pc'[t] = "reset_refcount"
          BY <1>0, <1>4, <2>4, <3>1, <4>1 DEF TriggerPcs
        <5>. QED
          BY <1>9, <1>11, <1>15, <4>1, <5>1
      <4>2. CASE u # t
        <5>1. pc[u] \in TriggerPcs /\ n = Head(todo[u]) /\ Triggering(u, n)
          BY <1>12, <2>4, <3>1, <4>2 DEF Triggering
        <5>2. n # c
          BY <1>9, <5>1
        <5>. QED
          BY <1>1, <1>11, <1>15, <5>1, <5>2 DEF TriggerInv
      <4>. QED
        BY <4>1, <4>2
    <3>3. ~Pushed(Head(todo[u]))'
      BY <3>1, <3>2 DEF Pushed, Runs
    <3>4. \A w \in Threads \ {u} : ~Triggering(w, Head(todo[u]))'
      BY <3>1, <3>2 DEF Triggering
    <3>. QED
      BY <3>3, <3>4
  <2>. QED
    BY <1>1, <1>2, <1>11, <2>1, <2>2, <2>3, <2>4 DEF TriggerInv
<1>17. RefcountInv'
  <2>1. \A n : Owes(t, n)' <=> Owes(t, n) /\ n # c
    BY <1>0, <1>2, <1>4, <1>5 DEF Owes
  <2>2. \A u \in Threads \ {t} : \A n : Owes(u, n)' <=> Owes(u, n)
    BY <1>12 DEF Owes
  <2>3. \A n : Missing(n)' = Missing(n)
    BY <1>2 DEF Missing
  <2>4. \A n : n # c => Owing(n)' = Owing(n)
    BY <2>1, <2>2 DEF Owing
  <2>5. Owing(c)' = Owing(c) \ {t}
    BY <2>1, <2>2 DEF Owing
  <2>6. Cardinality(Owing(c)') = Cardinality(Owing(c)) - 1
    BY <1>7, <1>10, <2>5, FS_RemoveElement
  <2>7. IsFiniteSet(Owing(c)') /\ (Cardinality(Owing(c)') = 0 <=> Owing(c)' = {})
    <3>1. Owing(c)' \in SUBSET Threads
      BY DEF Owing
    <3>. QED
      BY <3>1, ThreadSet
  <2>8. \A n \in graph.nodes : refcount'[n] = IF n = c THEN refcount[c] - 1 ELSE refcount[n]
    BY <1>1, <1>2, <1>3, GraphFacts
  <2>9. \A u \in Threads : \A n : n # c =>
          (pc'[u] = "reset_refcount" /\ Head(todo'[u]) = n
             <=> pc[u] = "reset_refcount" /\ Head(todo[u]) = n)
    BY <1>0, <1>2, <1>4, <1>12
  <2>10. SUFFICES ASSUME NEW n \in graph.nodes
        PROVE IF Missing(n)' # {} \/ Owing(n)' # {}
              THEN /\ refcount'[n] = Cardinality(Missing(n)') + Cardinality(Owing(n)')
                   /\ ~Pushed(n)' /\ \A u \in Threads : ~Triggering(u, n)'
              ELSE /\ refcount'[n] = IF \E u \in Threads : pc'[u] = "reset_refcount" /\ Head(todo'[u]) = n
                                    THEN 0 ELSE InitRefcount(graph, n)
                   /\ Parents(graph, n) # {} => Pushed(n)' \/ \E u \in Threads : Triggering(u, n)'
    BY <1>2 DEF RefcountInv
  <2>11. CASE n # c
    <3>1. Missing(n)' = Missing(n) /\ Owing(n)' = Owing(n) /\ refcount'[n] = refcount[n]
      BY <2>3, <2>4, <2>8, <2>11
    <3>2. \A u \in Threads : Triggering(u, n)' <=> Triggering(u, n)
      BY <1>15, <2>11
    <3>3. \A u \in Threads : pc'[u] = "reset_refcount" /\ Head(todo'[u]) = n
             <=> pc[u] = "reset_refcount" /\ Head(todo[u]) = n
      BY <2>9, <2>11
    <3>. QED
      BY <1>1, <1>11, <3>1, <3>2, <3>3 DEF RefcountInv
  <2>12. CASE n = c
    <3>1. refcount'[c] = refcount[c] - 1
      BY <1>6, <2>8
    <3>2. CASE refcount[c] = 1
      <4>1. Cardinality(Missing(c)) = 0 /\ Cardinality(Owing(c)') = 0 /\ refcount'[c] = 0
        BY <1>9, <1>10, <2>6, <3>1, <3>2
      <4>2. Missing(c)' = {} /\ Owing(c)' = {}
        BY <1>10, <2>3, <2>7, <4>1
      <4>3. pc'[t] = "reset_refcount" /\ Head(todo'[t]) = c
        BY <1>0, <1>4, <3>2
      <4>4. Triggering(t, c)'
        BY <1>15, <4>3
      <4>. QED
        BY <2>12, <4>1, <4>2, <4>3, <4>4
    <3>3. CASE refcount[c] # 1
      <4>1. refcount'[c] = Cardinality(Missing(c)') + Cardinality(Owing(c)')
            /\ (Cardinality(Missing(c)') # 0 \/ Cardinality(Owing(c)') # 0)
        BY <1>9, <1>10, <2>3, <2>6, <3>1, <3>3
      <4>2. Missing(c)' # {} \/ Owing(c)' # {}
        BY <1>10, <2>3, <2>7, <4>1
      <4>3. pc'[t] # "reset_refcount"
        BY <1>4, <3>3
      <4>. QED
        BY <1>9, <1>11, <1>15, <2>12, <4>1, <4>2, <4>3
    <3>. QED
      BY <3>2, <3>3
  <2>. QED
    BY <2>11, <2>12
<1>18. CountInv'
  <2>1. \A u \in Threads : \A n : Pushing(u, n)' <=> Pushing(u, n)
    BY <1>2, <1>4, <1>12, <1>13 DEF Pushing
  <2>2. \A n \in graph.nodes : Counted(n)' <=> Counted(n)
    BY <1>11, <2>1 DEF Counted
  <2>. QED
    BY <1>1, <1>2, <2>2, CountFrame
<1>19. refcount[c] >= 1
  BY <1>9, <1>10
<1>. QED
  BY <1>0, <1>6, <1>11, <1>14, <1>16, <1>17, <1>18, <1>19 DEF DataInv

(* The refcount is ready for the next cycle.                               *)
LEMMA ResetData ==
  ASSUME TypeOK, DataInv, NEW t \in Threads, ResetRefcount(t)
  PROVE  DataInv' /\ (\A n : Pushed(n)' <=> Pushed(n)) /\ Head(todo[t]) \in Nodes
<1>0. PICK c : c = Head(todo[t])
  OBVIOUS
<1>1. /\ LocalInv /\ SlotsInv /\ RunInv /\ TriggerInv /\ RefcountInv /\ CountInv /\ graph \in Graphs
  BY QueueTypes DEF DataInv
<1>2. /\ pc[t] = "reset_refcount" /\ pc' = [pc EXCEPT ![t] = "enqueue"]
      /\ refcount' = [refcount EXCEPT ![c] = InitRefcount(graph, c)]
      /\ UNCHANGED <<graph, cap, trigger_queue_size, trigger_queue, to_run, todo, next_init,
                     started, finished>>
  BY <1>0 DEF ResetRefcount, Goto, countVars, localVars, historyVars
<1>3. /\ pc \in [Threads -> Pcs] /\ todo \in [Threads -> Seq(Nodes)] /\ refcount \in [Nodes -> Nat]
  BY DEF TypeOK
<1>4. Alone(t) /\ pc'[t] = "enqueue"
  BY <1>2, <1>3 DEF Alone
<1>5. Local(t) /\ todo[t] # << >>
  BY <1>1, <1>2 DEF LocalInv, Local, TriggerPcs
<1>6. c \in graph.nodes /\ c \in Nodes
  <2>1. c \in ToSet(todo[t])
    BY <1>0, <1>3, <1>5, TodoTail DEF Local
  <2>. QED
    BY <1>1, <1>5, <2>1, GraphFacts DEF Local
<1>7. Triggering(t, c) /\ ~Pushed(c) /\ \A u \in Threads \ {t} : ~Triggering(u, c)
  BY <1>0, <1>1, <1>2 DEF TriggerInv, Triggering, TriggerPcs
<1>8. Missing(c) = {} /\ Owing(c) = {}
  BY <1>1, <1>6, <1>7 DEF RefcountInv
<1>11. /\ SlotsInv' /\ RunInv' /\ \A n : Pushed(n)' <=> Pushed(n)
       /\ \A n : Queued(n)' <=> Queued(n)
       /\ \A u \in Threads : \A n : Taken(u, n)' <=> Taken(u, n)
  BY <1>2, <1>4, HandsOnly DEF RunPcs, PublishPcs
<1>12. \A u \in Threads \ {t} : /\ pc'[u] = pc[u] /\ todo'[u] = todo[u]
                                /\ next_init'[u] = next_init[u] /\ to_run'[u] = to_run[u]
  BY <1>4 DEF Alone
<1>13. Initials' = Initials
  BY <1>2 DEF Initials
<1>14. LocalInv'
  <2>1. \A u \in Threads \ {t} : Local(u)'
    BY <1>1, <1>2, <1>12, <1>13 DEF LocalInv, Local
  <2>2. Local(t)'
    BY <1>2, <1>4, <1>5, <1>13 DEF Local, TriggerPcs, BootPcs
  <2>. QED
    BY <2>1, <2>2 DEF LocalInv
<1>15. \A u \in Threads : \A n : Triggering(u, n)' <=> Triggering(u, n)
  BY <1>2, <1>4, <1>12 DEF Triggering, TriggerPcs
<1>16. TriggerInv'
  <2>1. \A u \in Threads : Booting(u)' => u # t
    BY <1>4 DEF Booting
  <2>2. \A u \in Threads \ {t} : Booting(u)' <=> Booting(u)
    BY <1>12, <1>13 DEF Booting
  <2>3. \A u \in Threads \ {t} : \A n : ToBoot(u, n)' <=> ToBoot(u, n)
    BY <1>12, <1>13 DEF ToBoot
  <2>4. \A u \in Threads : pc'[u] \in TriggerPcs <=> pc[u] \in TriggerPcs
    BY <1>2, <1>4, <1>12 DEF TriggerPcs
  <2>. QED
    BY <1>1, <1>2, <1>11, <1>15, <2>1, <2>2, <2>3, <2>4 DEF TriggerInv
<1>17. RefcountInv'
  <2>1. \A u \in Threads : \A n : Owes(u, n)' <=> Owes(u, n)
    BY <1>2, <1>4, <1>12 DEF Owes
  <2>2. \A n : Missing(n)' = Missing(n) /\ Owing(n)' = Owing(n)
    BY <1>2, <2>1 DEF Missing, Owing
  <2>3. \A n \in graph.nodes : refcount'[n] = IF n = c THEN InitRefcount(graph, c) ELSE refcount[n]
    BY <1>1, <1>2, <1>3, GraphFacts
  <2>4. \A u \in Threads : \A n : n # c =>
          (pc'[u] = "reset_refcount" /\ Head(todo'[u]) = n
             <=> pc[u] = "reset_refcount" /\ Head(todo[u]) = n)
    BY <1>0, <1>2, <1>4, <1>12
  <2>5. \A u \in Threads : ~(pc'[u] = "reset_refcount" /\ Head(todo'[u]) = c)
    BY <1>4, <1>7, <1>12 DEF Triggering, TriggerPcs
  <2>6. SUFFICES ASSUME NEW n \in graph.nodes
        PROVE IF Missing(n)' # {} \/ Owing(n)' # {}
              THEN /\ refcount'[n] = Cardinality(Missing(n)') + Cardinality(Owing(n)')
                   /\ ~Pushed(n)' /\ \A u \in Threads : ~Triggering(u, n)'
              ELSE /\ refcount'[n] = IF \E u \in Threads : pc'[u] = "reset_refcount" /\ Head(todo'[u]) = n
                                    THEN 0 ELSE InitRefcount(graph, n)
                   /\ Parents(graph, n) # {} => Pushed(n)' \/ \E u \in Threads : Triggering(u, n)'
    BY <1>2 DEF RefcountInv
  <2>7. CASE n # c
    <3>1. \A u \in Threads : pc'[u] = "reset_refcount" /\ Head(todo'[u]) = n
             <=> pc[u] = "reset_refcount" /\ Head(todo[u]) = n
      BY <2>4, <2>7
    <3>. QED
      BY <1>1, <1>11, <1>15, <2>2, <2>3, <2>7, <3>1 DEF RefcountInv
  <2>8. CASE n = c
    <3>1. Missing(n)' = {} /\ Owing(n)' = {} /\ refcount'[n] = InitRefcount(graph, n)
      BY <1>6, <1>8, <2>2, <2>3, <2>8
    <3>2. Triggering(t, n)'
      BY <1>7, <1>15, <2>8
    <3>. QED
      BY <2>5, <2>8, <3>1, <3>2
  <2>. QED
    BY <2>7, <2>8
<1>18. CountInv'
  <2>1. \A u \in Threads : \A n : Pushing(u, n)' <=> Pushing(u, n)
    BY <1>2, <1>4, <1>12, <1>13 DEF Pushing
  <2>2. \A n \in graph.nodes : Counted(n)' <=> Counted(n)
    BY <1>11, <2>1 DEF Counted
  <2>. QED
    BY <1>1, <1>2, <2>2, CountFrame
<1>. QED
  BY <1>0, <1>6, <1>11, <1>14, <1>16, <1>17, <1>18 DEF DataInv

(* The initial nodes a thread has still to push are not pushed yet, and no *)
(* finished node triggers them.                                            *)
LEMMA BootNode ==
  ASSUME TypeOK, DataInv, NEW t \in Threads, NEW n,
         \/ pc[t] = "boot" /\ next_init[t] < Len(Initials)
         \/ pc[t] \in {"boot_push", "boot_publish"},
         n = Initials[next_init[t] + 1]
  PROVE  /\ n \in graph.nodes /\ Parents(graph, n) = {} /\ Booting(t)
         /\ next_init[t] + 1 \in DOMAIN Initials /\ next_init[t] \in Nat
         /\ pc[t] # "boot_publish" => ToBoot(t, n) /\ ~Pushed(n)
<1>1. LocalInv /\ TriggerInv /\ graph \in Graphs
  BY QueueTypes DEF DataInv
<1>2. DOMAIN Initials = 1..Len(Initials) /\ Len(Initials) \in Nat
  BY <1>1, InitialNodes DEF Initials
<1>3. Booting(t)
  BY DEF Booting
<1>4. next_init[t] \in 0..(Len(Initials) - 1)
  <2>1. Local(t)
    BY <1>1 DEF LocalInv
  <2>2. CASE pc[t] = "boot" /\ next_init[t] < Len(Initials)
    <3>1. next_init[t] \in Nat
      BY ThreadTypes
    <3>. QED
      BY <1>2, <2>2, <3>1
  <2>3. CASE pc[t] \in {"boot_push", "boot_publish"}
    BY <2>1, <2>3 DEF Local
  <2>. QED
    BY <2>2, <2>3
<1>5. next_init[t] \in Nat /\ next_init[t] + 1 \in DOMAIN Initials /\ next_init[t] + 1 > next_init[t]
  BY <1>2, <1>4
<1>6. n \in graph.nodes /\ Parents(graph, n) = {}
  BY <1>1, <1>5, InitialNodes DEF Initials
<1>7. ASSUME pc[t] # "boot_publish" PROVE ToBoot(t, n) /\ ~Pushed(n)
  <2>1. ToBoot(t, n)
    BY <1>5, <1>7 DEF ToBoot
  <2>. QED
    BY <1>1, <1>3, <1>6, <2>1 DEF TriggerInv
<1>. QED
  BY <1>3, <1>5, <1>6, <1>7

(* Nodes with parents are in the list of a thread, initial nodes are not.  *)
LEMMA TriggerNode ==
  ASSUME TypeOK, DataInv, NEW t \in Threads, pc[t] \in TriggerPcs \cup {"publish"}, NEW n,
         n = Head(todo[t])
  PROVE  /\ n \in graph.nodes /\ Parents(graph, n) # {} /\ todo[t] # << >>
         /\ pc[t] \in TriggerPcs => Triggering(t, n) /\ ~Pushed(n)
<1>1. LocalInv /\ TriggerInv /\ todo[t] \in Seq(Nodes)
  BY ThreadTypes DEF DataInv
<1>2. todo[t] # << >> /\ IsInjective(todo[t])
  BY <1>1 DEF LocalInv, Local
<1>3. n \in ToSet(todo[t])
  BY <1>1, <1>2, TodoTail
<1>4. n \in graph.nodes /\ Parents(graph, n) # {}
  BY <1>1, <1>3 DEF LocalInv, Local
<1>. QED
  BY <1>1, <1>2, <1>4 DEF TriggerInv, Triggering

(* trigger_queue_size counts one more: a node nobody else is about to push. *)
LEMMA CountData ==
  ASSUME TypeOK, DataInv, NEW t \in Threads, CountQueued(t)
  PROVE  DataInv' /\ \A n : Pushed(n)' <=> Pushed(n)
<1>0. PICK c : c = IF pc[t] = "enqueue" THEN Head(todo[t]) ELSE Initials[next_init[t] + 1]
  OBVIOUS
<1>1. /\ LocalInv /\ SlotsInv /\ RunInv /\ TriggerInv /\ RefcountInv /\ CountInv /\ graph \in Graphs
  BY QueueTypes DEF DataInv
<1>2. /\ \/ pc[t] = "enqueue" /\ pc' = [pc EXCEPT ![t] = "push"]
         \/ pc[t] = "boot" /\ next_init[t] < Len(Initials) /\ pc' = [pc EXCEPT ![t] = "boot_push"]
      /\ trigger_queue_size' = trigger_queue_size + 1
      /\ UNCHANGED <<graph, refcount, cap, trigger_queue, to_run, todo, next_init,
                     started, finished>>
  BY DEF CountQueued, Goto, graphVars, localVars, historyVars, Initials
<1>3. pc \in [Threads -> Pcs]
  BY DEF TypeOK
<1>4. /\ Alone(t)
      /\ \/ pc[t] = "enqueue" /\ pc'[t] = "push"
         \/ pc[t] = "boot" /\ next_init[t] < Len(Initials) /\ pc'[t] = "boot_push"
  BY <1>2, <1>3 DEF Alone
<1>5. Local(t) /\ next_init[t] \in Nat
  BY <1>1, ThreadTypes DEF LocalInv
<1>6. c \in graph.nodes /\ ~Pushed(c)
  <2>1. CASE pc[t] = "enqueue"
    BY <1>0, <2>1, TriggerNode DEF TriggerPcs
  <2>2. CASE pc[t] = "boot" /\ next_init[t] < Len(Initials)
    BY <1>0, <2>2, BootNode
  <2>. QED
    BY <1>4, <2>1, <2>2
<1>7. \A u \in Threads : ~Pushing(u, c)
  <2>1. SUFFICES ASSUME NEW u \in Threads, Pushing(u, c) PROVE FALSE
    OBVIOUS
  <2>2. CASE pc[u] = "push" /\ Head(todo[u]) = c
    <3>1. Triggering(u, c) /\ Parents(graph, c) # {}
      BY <2>2, TriggerNode DEF TriggerPcs
    <3>2. CASE pc[t] = "enqueue"
      <4>1. pc[t] \in TriggerPcs /\ c = Head(todo[t]) /\ u # t
        BY <1>0, <2>2, <3>2 DEF TriggerPcs
      <4>. QED
        BY <1>1, <3>1, <4>1 DEF TriggerInv
    <3>3. CASE pc[t] = "boot" /\ next_init[t] < Len(Initials)
      BY <1>0, <3>1, <3>3, BootNode
    <3>. QED
      BY <1>4, <3>2, <3>3
  <2>3. CASE pc[u] = "boot_push" /\ Initials[next_init[u] + 1] = c
    <3>1. Booting(u) /\ Parents(graph, c) = {}
      BY <2>3, BootNode
    <3>2. CASE pc[t] = "enqueue"
      BY <1>0, <3>1, <3>2, TriggerNode DEF TriggerPcs
    <3>3. CASE pc[t] = "boot" /\ next_init[t] < Len(Initials)
      <4>1. Booting(t) /\ u # t
        BY <2>3, <3>3 DEF Booting
      <4>. QED
        BY <1>1, <3>1, <4>1 DEF TriggerInv
    <3>. QED
      BY <1>4, <3>2, <3>3
  <2>. QED
    BY <2>1, <2>2, <2>3 DEF Pushing
<1>11. /\ SlotsInv' /\ RunInv' /\ \A n : Pushed(n)' <=> Pushed(n)
       /\ \A n : Queued(n)' <=> Queued(n)
       /\ \A u \in Threads : \A n : Taken(u, n)' <=> Taken(u, n)
  BY <1>2, <1>4, HandsOnly DEF RunPcs, PublishPcs
<1>12. \A u \in Threads \ {t} : /\ pc'[u] = pc[u] /\ todo'[u] = todo[u]
                                /\ next_init'[u] = next_init[u] /\ to_run'[u] = to_run[u]
  BY <1>4 DEF Alone
<1>13. Initials' = Initials /\ Len(Initials) \in Nat
  BY <1>1, <1>2, InitialNodes DEF Initials
<1>14. LocalInv'
  <2>1. \A u \in Threads \ {t} : Local(u)'
    BY <1>1, <1>2, <1>12, <1>13 DEF LocalInv, Local
  <2>2. pc'[t] = "boot_push" => next_init[t] \in 0..(Len(Initials) - 1)
    BY <1>4, <1>5, <1>13
  <2>3. Local(t)'
    BY <1>2, <1>4, <1>5, <1>13, <2>2 DEF Local, TriggerPcs, BootPcs
  <2>. QED
    BY <2>1, <2>3 DEF LocalInv
<1>15. \A u \in Threads : \A n : Triggering(u, n)' <=> Triggering(u, n)
  BY <1>2, <1>4, <1>12 DEF Triggering, TriggerPcs
<1>16. TriggerInv'
  <2>2. \A u \in Threads : Booting(u)' <=> Booting(u)
    BY <1>2, <1>4, <1>12, <1>13 DEF Booting
  <2>3. \A u \in Threads : \A n : ToBoot(u, n)' <=> ToBoot(u, n)
    BY <1>2, <1>4, <1>12, <1>13 DEF ToBoot
  <2>4. \A u \in Threads : pc'[u] \in TriggerPcs <=> pc[u] \in TriggerPcs
    BY <1>2, <1>4, <1>12 DEF TriggerPcs
  <2>. QED
    BY <1>1, <1>2, <1>11, <1>15, <2>2, <2>3, <2>4 DEF TriggerInv
<1>17. RefcountInv'
  <2>1. \A u \in Threads : \A n : Owes(u, n)' <=> Owes(u, n)
    BY <1>2, <1>4, <1>12 DEF Owes
  <2>2. \A n : Missing(n)' = Missing(n) /\ Owing(n)' = Owing(n)
    BY <1>2, <2>1 DEF Missing, Owing
  <2>4. \A u \in Threads : \A n : pc'[u] = "reset_refcount" /\ Head(todo'[u]) = n
             <=> pc[u] = "reset_refcount" /\ Head(todo[u]) = n
    BY <1>2, <1>4, <1>12
  <2>6. SUFFICES ASSUME NEW n \in graph.nodes
        PROVE IF Missing(n)' # {} \/ Owing(n)' # {}
              THEN /\ refcount'[n] = Cardinality(Missing(n)') + Cardinality(Owing(n)')
                   /\ ~Pushed(n)' /\ \A u \in Threads : ~Triggering(u, n)'
              ELSE /\ refcount'[n] = IF \E u \in Threads : pc'[u] = "reset_refcount" /\ Head(todo'[u]) = n
                                    THEN 0 ELSE InitRefcount(graph, n)
                   /\ Parents(graph, n) # {} => Pushed(n)' \/ \E u \in Threads : Triggering(u, n)'
    BY <1>2 DEF RefcountInv
  <2>. QED
    BY <1>1, <1>2, <1>11, <1>15, <2>2, <2>4 DEF RefcountInv
<1>18. CountInv'
  <2>. DEFINE S == {n \in graph.nodes : Counted(n)}
              SP == {n \in graph'.nodes : Counted(n)'}
  <2>1. \A u \in Threads : \A n : Pushing(u, n)' <=> Pushing(u, n) \/ (u = t /\ n = c)
    BY <1>0, <1>2, <1>4, <1>12, <1>13 DEF Pushing
  <2>2. \A n : Counted(n)' <=> Counted(n) \/ n = c
    BY <1>11, <2>1 DEF Counted
  <2>3. ~Counted(c)
    BY <1>1, <1>6, <1>7 DEF Counted, Queued, Taken, Pushed
  <2>4. SP = S \cup {c} /\ c \notin S
    BY <1>2, <1>6, <2>2, <2>3
  <2>5. IsFiniteSet(S) /\ Cardinality(S) \in Nat
    BY <1>1, NodeSet
  <2>6. Cardinality(SP) = Cardinality(S) + 1
    BY <2>4, <2>5, FS_AddElement
  <2>7. trigger_queue_size' = Cardinality(SP)
    BY <1>1, <1>2, <2>6 DEF CountInv
  <2>8. cap' >= Cardinality(graph'.nodes)
    BY <1>1, <1>2 DEF CountInv
  <2>. QED
    BY <2>7, <2>8 DEF CountInv
<1>. QED
  BY <1>11, <1>14, <1>16, <1>17, <1>18 DEF DataInv

(* The queue has a cell for every node, and the node to push is not in it. *)
LEMMA PushRoom ==
  ASSUME TypeOK, DataInv, NEW t \in Threads, pc[t] \in {"push", "boot_push"}
  PROVE  ~Full(trigger_queue, cap)
<1>. DEFINE q == trigger_queue
<1>0. PICK c : c = IF pc[t] = "push" THEN Head(todo[t]) ELSE Initials[next_init[t] + 1]
  OBVIOUS
<1>1. /\ SlotsInv /\ CountInv /\ graph \in Graphs /\ q \in Seq(Slot(Threads, Nodes)) /\ cap \in Nat
  BY QueueTypes DEF DataInv, TypeOK
<1>2. c \in graph.nodes /\ ~Pushed(c)
  <2>1. CASE pc[t] = "push"
    BY <1>0, <2>1, TriggerNode DEF TriggerPcs
  <2>2. CASE pc[t] = "boot_push"
    BY <1>0, <2>2, BootNode
  <2>. QED
    BY <2>1, <2>2
<1>. DEFINE T == graph.nodes \ {c}
            f == [i \in DOMAIN q |-> q[i].val]
<1>3. IsFiniteSet(T) /\ Cardinality(T) = Cardinality(graph.nodes) - 1
      /\ Cardinality(graph.nodes) \in Nat
  BY <1>1, <1>2, NodeSet, FS_RemoveElement
<1>4. f \in [DOMAIN q -> T]
  BY <1>1, <1>2 DEF SlotsInv, SlotOK, Pushed
<1>5. f \in Injection(DOMAIN q, T)
  <2>1. \A i, j \in DOMAIN q : f[i] = f[j] => i = j
    BY <1>1 DEF SlotsInv
  <2>. QED
    BY <1>4, <2>1 DEF Injection, IsInjective
<1>. HIDE DEF f, T
<1>6. Cardinality(DOMAIN q) <= Cardinality(T)
  BY <1>3, <1>5, FS_Injection
<1>7. DOMAIN q = 1..Len(q) /\ Len(q) \in Nat
  BY <1>1, LenProperties
<1>8. Cardinality(DOMAIN q) = Len(q)
  <2>1. Cardinality(1..Len(q)) = IF 1 > Len(q) THEN 0 ELSE Len(q) - 1 + 1
    BY <1>7, FS_Interval
  <2>. QED
    BY <1>7, <2>1
<1>9. cap >= Cardinality(graph.nodes)
  BY <1>1 DEF CountInv
<1>. QED
  BY <1>1, <1>3, <1>6, <1>7, <1>8, <1>9 DEF Full

(* mpmc_queue_push_back: the node is in a cell of its own.                 *)
PushNode(t) == IF pc[t] = "push" THEN Head(todo[t]) ELSE Initials[next_init[t] + 1]

LEMMA PushClaimData ==
  ASSUME TypeOK, DataInv, NEW t \in Threads, PushClaim(t)
  PROVE  DataInv' /\ \A n : Pushed(n)' <=> Pushed(n) \/ n = PushNode(t)
<1>. DEFINE q == trigger_queue
            p == trigger_queue'
<1>0. PICK c : c = IF pc[t] = "push" THEN Head(todo[t]) ELSE Initials[next_init[t] + 1]
  OBVIOUS
<1>1. /\ LocalInv /\ SlotsInv /\ RunInv /\ TriggerInv /\ RefcountInv /\ CountInv /\ graph \in Graphs
      /\ q \in Seq(Slot(Threads, Nodes))
  BY QueueTypes DEF DataInv
<1>2. /\ pc[t] \in {"push", "boot_push"}
      /\ p = Claim(q, c, t)
      /\ pc' = [pc EXCEPT ![t] = IF pc[t] = "push" THEN "publish" ELSE "boot_publish"]
      /\ UNCHANGED <<graph, refcount, cap, trigger_queue_size, to_run, todo, next_init,
                     started, finished>>
  <2>1. pc[t] \in {"push", "boot_push"}
    BY DEF PushClaim
  <2>2. ~Full(trigger_queue, cap)
    BY <2>1, PushRoom
  <2>. QED
    BY <1>0, <2>1, <2>2 DEF PushClaim, Goto, graphVars, countVars, historyVars, Initials
<1>3. pc \in [Threads -> Pcs]
  BY DEF TypeOK
<1>4. /\ Alone(t)
      /\ \/ pc[t] = "push" /\ pc'[t] = "publish"
         \/ pc[t] = "boot_push" /\ pc'[t] = "boot_publish"
  BY <1>2, <1>3 DEF Alone
<1>5. Local(t) /\ next_init[t] \in Nat
  BY <1>1, ThreadTypes DEF LocalInv
<1>6. c \in graph.nodes /\ ~Pushed(c) /\ c \in Nodes
  <2>1. CASE pc[t] = "push"
    BY <1>0, <1>1, <2>1, TriggerNode, GraphFacts DEF TriggerPcs
  <2>2. CASE pc[t] = "boot_push"
    BY <1>0, <1>1, <2>2, BootNode, GraphFacts
  <2>. QED
    BY <1>2, <2>1, <2>2
<1>7. /\ DOMAIN p = 1..(Len(q) + 1) /\ DOMAIN q = 1..Len(q) /\ Len(q) \in Nat
      /\ \A i \in DOMAIN q : p[i] = q[i]
      /\ p[Len(q) + 1] = [val |-> c, st |-> "claimed", who |-> t]
  BY <1>1, <1>2, <1>6, ClaimSlot
<1>. DEFINE z == Len(q) + 1
<1>8. /\ \A i \in DOMAIN p : i = z \/ i \in DOMAIN q
      /\ \A i \in DOMAIN q : i \in DOMAIN p /\ i # z
      /\ z \in DOMAIN p
  BY <1>7
<1>9. p[z] = [val |-> c, st |-> "claimed", who |-> t]
  BY <1>7
<1>. HIDE DEF z, q, p
<1>10. \A u \in Threads : \A n : Runs(u, n)' <=> Runs(u, n)
  BY <1>2, <1>4 DEF Runs, Alone, RunPcs
<1>11. \A n : Pushed(n)' <=> Pushed(n) \/ n = c
  <2>1. SUFFICES ASSUME NEW n PROVE Pushed(n)' <=> Pushed(n) \/ n = c
    OBVIOUS
  <2>2. (\E i \in DOMAIN p : p[i].val = n) <=> (\E i \in DOMAIN q : q[i].val = n) \/ n = c
    BY <1>7, <1>8, <1>9
  <2>. QED
    BY <1>2, <1>10, <2>2 DEF Pushed, q, p
<1>12. \A u \in Threads \ {t} : /\ pc'[u] = pc[u] /\ todo'[u] = todo[u]
                                /\ next_init'[u] = next_init[u] /\ to_run'[u] = to_run[u]
  BY <1>4 DEF Alone
<1>13. Initials' = Initials
  BY <1>2 DEF Initials
<1>14. LocalInv'
  <2>1. \A u \in Threads \ {t} : Local(u)'
    BY <1>1, <1>2, <1>12, <1>13 DEF LocalInv, Local
  <2>2. Local(t)'
    BY <1>2, <1>4, <1>5, <1>13 DEF Local, TriggerPcs, BootPcs
  <2>. QED
    BY <2>1, <2>2 DEF LocalInv
<1>15. SlotsInv'
  <2>1. \A i \in DOMAIN q : q[i].who # t
    BY <1>1, <1>2, NoHolder DEF PublishPcs, ReleasePcs, q
  <2>2. \A i \in DOMAIN q : q[i].val # c
    BY <1>6 DEF Pushed, q
  <2>3. c \notin started /\ \A u \in Threads : ~Runs(u, c)
    BY <1>6 DEF Pushed
  <2>4. ASSUME NEW i \in DOMAIN trigger_queue' PROVE SlotOK(trigger_queue[i])'
    <3>1. PICK s : s = p[i]
      OBVIOUS
    <3>2. SlotOK(s)'
      <4>1. CASE i = z
        BY <1>2, <1>4, <1>6, <1>9, <1>10, <2>3, <3>1, <4>1 DEF SlotOK, PublishPcs
      <4>2. CASE i # z
        <5>1. i \in DOMAIN q /\ s = q[i] /\ SlotOK(s) /\ s.who # t
          BY <1>1, <1>7, <1>8, <2>1, <2>4, <3>1, <4>2 DEF SlotsInv, q, p
        <5>. QED
          BY <1>2, <1>10, <1>12, <5>1 DEF SlotOK
      <4>. QED
        BY <4>1, <4>2
    <3>. QED
      BY <3>1, <3>2 DEF SlotOK, p
  <2>5. ASSUME NEW u \in Threads, pc'[u] \in PublishPcs
        PROVE  \E j \in DOMAIN p : /\ p[j].st = "claimed" /\ p[j].who = u
                                   /\ pc'[u] = "boot_publish" =>
                                        p[j].val = Initials'[next_init'[u] + 1]
    <3>1. CASE u = t
      <4>1. pc'[t] = "boot_publish" => c = Initials'[next_init'[t] + 1]
        BY <1>0, <1>2, <1>4, <1>13
      <4>. QED
        BY <1>8, <1>9, <3>1, <4>1
    <3>2. CASE u # t
      <4>1. PICK j \in DOMAIN q : /\ q[j].st = "claimed" /\ q[j].who = u
                                  /\ pc[u] = "boot_publish" => q[j].val = Initials[next_init[u] + 1]
        BY <1>1, <1>12, <2>5, <3>2 DEF SlotsInv, q
      <4>. QED
        BY <1>7, <1>8, <1>12, <1>13, <3>2, <4>1
    <3>. QED
      BY <3>1, <3>2
  <2>6. ASSUME NEW u \in Threads, pc'[u] \in ReleasePcs
        PROVE  \E j \in DOMAIN p : p[j].st = "reading" /\ p[j].who = u
    <3>1. u # t
      BY <1>4, <2>6 DEF ReleasePcs
    <3>2. PICK j \in DOMAIN q : q[j].st = "reading" /\ q[j].who = u
      BY <1>1, <1>12, <2>6, <3>1 DEF SlotsInv, q
    <3>. QED
      BY <1>7, <1>8, <3>2
  <2>7. \A i, j \in DOMAIN p : i # j =>
          p[i].val # p[j].val /\ (p[i].who = p[j].who => p[i].who = "nobody")
    <3>1. \A i, j \in DOMAIN q : i # j =>
            q[i].val # q[j].val /\ (q[i].who = q[j].who => q[i].who = "nobody")
      BY <1>1 DEF SlotsInv, q
    <3>. QED
      BY <1>7, <1>8, <1>9, <2>1, <2>2, <3>1
  <2>8. p # << >> => p[1].st # "free"
    <3>1. CASE 1 = z
      BY <1>9, <3>1
    <3>2. CASE 1 # z
      <4>1. 1 \in DOMAIN q
        BY <1>7, <1>8, <3>2 DEF z
      <4>2. q # << >> /\ q[1].st # "free"
        BY <1>1, <4>1 DEF SlotsInv, q
      <4>. QED
        BY <1>7, <4>1, <4>2
    <3>. QED
      BY <3>1, <3>2
  <2>. QED
    BY <2>4, <2>5, <2>6, <2>7, <2>8 DEF SlotsInv, p
<1>16. RunInv'
  <2>1. \A u \in Threads : /\ pc'[u] \in RunPcs <=> pc[u] \in RunPcs
                           /\ pc'[u] = "processing" <=> pc[u] = "processing"
    BY <1>4, <1>12 DEF RunPcs
  <2>. QED
    BY <1>1, <1>2, <1>10, <2>1 DEF RunInv
<1>17. \A u \in Threads : \A n : Triggering(u, n)' <=> Triggering(u, n) /\ u # t
  BY <1>2, <1>4, <1>12 DEF Triggering, TriggerPcs
<1>18. TriggerInv'
  <2>1. ASSUME NEW u \in Threads, pc'[u] \in TriggerPcs
        PROVE  ~Pushed(Head(todo[u]))' /\ \A w \in Threads \ {u} : ~Triggering(w, Head(todo[u]))'
    <3>1. PICK n : n = Head(todo'[u])
      OBVIOUS
    <3>2. u # t /\ pc[u] \in TriggerPcs /\ n = Head(todo[u])
      BY <1>4, <1>12, <2>1, <3>1 DEF TriggerPcs
    <3>3. Triggering(u, n) /\ ~Pushed(n) /\ Parents(graph, n) # {}
      BY <3>2, TriggerNode
    <3>4. n # c
      <4>1. CASE pc[t] = "push"
        <5>1. Triggering(t, c)
          BY <1>0, <4>1 DEF Triggering, TriggerPcs
        <5>. QED
          BY <1>1, <3>2, <5>1 DEF TriggerInv
      <4>2. CASE pc[t] = "boot_push"
        <5>1. Parents(graph, c) = {}
          BY <1>0, <4>2, BootNode
        <5>. QED
          BY <3>3, <5>1
      <4>. QED
        BY <1>2, <4>1, <4>2
    <3>5. ~Pushed(n)' /\ \A w \in Threads \ {u} : ~Triggering(w, n)'
      BY <1>1, <1>11, <1>17, <3>2, <3>3, <3>4 DEF TriggerInv
    <3>. QED
      BY <1>2, <3>1, <3>5 DEF Pushed, Triggering, Runs
  <2>2. \A u \in Threads : Booting(u)' <=> Booting(u)
    BY <1>2, <1>4, <1>12, <1>13 DEF Booting
  <2>3. ASSUME NEW u \in Threads, Booting(u), NEW n \in graph.nodes, ToBoot(u, n)' PROVE ~Pushed(n)'
    <3>1. PICK i \in DOMAIN Initials :
             /\ Initials[i] = n /\ i > next_init'[u]
             /\ pc'[u] = "boot_publish" => i > next_init'[u] + 1
      BY <1>13, <2>3 DEF ToBoot
    <3>2. ToBoot(u, n)
      <4>1. CASE u = t
        BY <1>2, <1>4, <3>1, <4>1 DEF ToBoot
      <4>2. CASE u # t
        BY <1>12, <3>1, <4>2 DEF ToBoot
      <4>. QED
        BY <4>1, <4>2
    <3>3. n # c
      <4>1. CASE pc[t] = "push"
        <5>1. Parents(graph, c) # {}
          BY <1>0, <4>1, TriggerNode DEF TriggerPcs
        <5>2. Parents(graph, n) = {}
          BY <1>1, <3>1, InitialNodes DEF Initials
        <5>. QED
          BY <5>1, <5>2
      <4>2. CASE pc[t] = "boot_push"
        <5>1. Booting(t) /\ u = t
          BY <1>1, <2>3, <4>2 DEF TriggerInv, Booting
        <5>2. next_init[t] + 1 \in DOMAIN Initials /\ c = Initials[next_init[t] + 1]
          BY <1>0, <4>2, BootNode
        <5>3. i > next_init[t] + 1 /\ i \in Nat
          BY <1>1, <1>2, <1>4, <3>1, <4>2, <5>1, InitialNodes DEF Initials
        <5>4. i # next_init[t] + 1
          BY <1>5, <5>3
        <5>5. IsInjective(Initials)
          BY <1>1, InitialNodes DEF Initials
        <5>. QED
          BY <3>1, <5>2, <5>4, <5>5 DEF IsInjective
      <4>. QED
        BY <1>2, <4>1, <4>2
    <3>. QED
      BY <1>1, <1>11, <2>3, <3>2, <3>3 DEF TriggerInv
  <2>. QED
    BY <1>1, <1>2, <2>1, <2>2, <2>3 DEF TriggerInv
<1>19. RefcountInv'
  <2>1. \A u \in Threads : \A n : Owes(u, n)' <=> Owes(u, n)
    BY <1>2, <1>4, <1>12 DEF Owes
  <2>2. \A n : Missing(n)' = Missing(n) /\ Owing(n)' = Owing(n)
    BY <1>2, <2>1 DEF Missing, Owing
  <2>3. \A u \in Threads : \A n : pc'[u] = "reset_refcount" /\ Head(todo'[u]) = n
             <=> pc[u] = "reset_refcount" /\ Head(todo[u]) = n
    BY <1>2, <1>4, <1>12
  <2>4. \A n \in graph.nodes : Missing(n) # {} \/ Owing(n) # {} => n # c
    <3>1. CASE pc[t] = "push"
      <4>1. Triggering(t, c)
        BY <1>0, <3>1 DEF Triggering, TriggerPcs
      <4>. QED
        BY <1>1, <4>1 DEF RefcountInv
    <3>2. CASE pc[t] = "boot_push"
      <4>1. Parents(graph, c) = {}
        BY <1>0, <3>2, BootNode
      <4>2. Missing(c) = {}
        BY <4>1 DEF Missing
      <4>3. Owing(c) = {}
        BY <1>1, <4>1 DEF Owing, Owes, LocalInv, Local
      <4>. QED
        BY <4>2, <4>3
    <3>. QED
      BY <1>2, <3>1, <3>2
  <2>5. \A u \in Threads : \A n : Triggering(u, n) => Triggering(u, n)' \/ n = c
    BY <1>0, <1>4, <1>17 DEF Triggering, TriggerPcs
  <2>6. SUFFICES ASSUME NEW n \in graph.nodes
        PROVE IF Missing(n)' # {} \/ Owing(n)' # {}
              THEN /\ refcount'[n] = Cardinality(Missing(n)') + Cardinality(Owing(n)')
                   /\ ~Pushed(n)' /\ \A u \in Threads : ~Triggering(u, n)'
              ELSE /\ refcount'[n] = IF \E u \in Threads : pc'[u] = "reset_refcount" /\ Head(todo'[u]) = n
                                    THEN 0 ELSE InitRefcount(graph, n)
                   /\ Parents(graph, n) # {} => Pushed(n)' \/ \E u \in Threads : Triggering(u, n)'
    BY <1>2 DEF RefcountInv
  <2>. QED
    BY <1>1, <1>2, <1>11, <1>17, <2>2, <2>3, <2>4, <2>5 DEF RefcountInv
<1>20. CountInv'
  <2>1. \A n : Queued(n)' <=> Queued(n) \/ n = c
    BY <1>7, <1>8, <1>9 DEF Queued, q, p
  <2>2. \A u \in Threads : \A n : Pushing(u, n) <=> Pushing(u, n)' \/ (u = t /\ n = c)
    BY <1>0, <1>2, <1>4, <1>12, <1>13 DEF Pushing
  <2>3. \A u \in Threads : \A n : Taken(u, n)' <=> Taken(u, n)
    BY <1>4, <1>10, <1>12 DEF Taken
  <2>4. \A n \in graph.nodes : Counted(n)' <=> Counted(n)
    BY <2>1, <2>2, <2>3 DEF Counted
  <2>. QED
    BY <1>1, <1>2, <2>4, CountFrame
<1>. QED
  BY <1>0, <1>11, <1>14, <1>15, <1>16, <1>18, <1>19, <1>20 DEF DataInv, PushNode

(* The node is published, and the thread goes on to the next.              *)
LEMMA PublishData ==
  ASSUME TypeOK, DataInv, NEW t \in Threads, PushPublish(t)
  PROVE  DataInv' /\ \A n : Pushed(n)' <=> Pushed(n)
<1>. DEFINE q == trigger_queue
            p == trigger_queue'
<1>1. /\ LocalInv /\ SlotsInv /\ RunInv /\ TriggerInv /\ RefcountInv /\ CountInv /\ graph \in Graphs
      /\ q \in Seq(Slot(Threads, Nodes))
  BY QueueTypes DEF DataInv
<1>2. /\ p = Publish(q, t)
      /\ \/ /\ pc[t] = "publish" /\ pc' = [pc EXCEPT ![t] = "notify"]
            /\ todo' = [todo EXCEPT ![t] = Tail(@)] /\ next_init' = next_init
         \/ /\ pc[t] = "boot_publish" /\ pc' = [pc EXCEPT ![t] = "boot"]
            /\ next_init' = [next_init EXCEPT ![t] = @ + 1] /\ todo' = todo
      /\ UNCHANGED <<graph, refcount, cap, trigger_queue_size, to_run, started, finished>>
  BY DEF PushPublish, NextPush, Goto, graphVars, countVars, historyVars
<1>3. /\ pc \in [Threads -> Pcs] /\ todo \in [Threads -> Seq(Nodes)] /\ next_init \in [Threads -> Nat]
  BY DEF TypeOK
<1>4. /\ Alone(t)
      /\ \/ pc[t] = "publish" /\ pc'[t] = "notify" /\ todo'[t] = Tail(todo[t])
            /\ next_init'[t] = next_init[t]
         \/ pc[t] = "boot_publish" /\ pc'[t] = "boot" /\ next_init'[t] = next_init[t] + 1
            /\ todo'[t] = todo[t]
  BY <1>2, <1>3 DEF Alone
<1>5. Local(t) /\ next_init[t] \in Nat /\ todo[t] \in Seq(Nodes)
  BY <1>1, ThreadTypes DEF LocalInv
<1>6. PICK i \in DOMAIN q :
           /\ q[i].who = t /\ \A j \in DOMAIN q : q[j].who = t => j = i
           /\ q[i].st = "claimed"
           /\ pc[t] = "boot_publish" => q[i].val = Initials[next_init[t] + 1]
  BY <1>1, <1>4, Holder DEF PublishPcs
<1>7. /\ p[i] = [val |-> q[i].val, st |-> "ready", who |-> "nobody"] /\ DOMAIN p = DOMAIN q
      /\ \A j \in DOMAIN q : j # i => p[j] = q[j]
  BY <1>1, <1>2, <1>6, PublishSlot
<1>8. \A j \in DOMAIN q : p[j].val = q[j].val
  BY <1>7
<1>. HIDE DEF q, p
<1>10. \A u \in Threads : \A n : Runs(u, n)' <=> Runs(u, n)
  BY <1>2, <1>4 DEF Runs, Alone, RunPcs
<1>11. \A n : Pushed(n)' <=> Pushed(n)
  <2>1. \A n : (\E j \in DOMAIN p : p[j].val = n) <=> (\E j \in DOMAIN q : q[j].val = n)
    BY <1>7, <1>8
  <2>. QED
    BY <1>2, <1>10, <2>1 DEF Pushed, q, p
<1>12. \A u \in Threads \ {t} : /\ pc'[u] = pc[u] /\ todo'[u] = todo[u]
                                /\ next_init'[u] = next_init[u] /\ to_run'[u] = to_run[u]
  BY <1>4 DEF Alone
<1>13. Initials' = Initials /\ Len(Initials) \in Nat
  BY <1>1, <1>2, InitialNodes DEF Initials
<1>14. pc[t] = "publish" =>
          /\ todo[t] # << >> /\ Tail(todo[t]) \in Seq(Nodes) /\ IsInjective(Tail(todo[t]))
          /\ \A n : n \in ToSet(Tail(todo[t])) <=> n \in ToSet(todo[t]) /\ n # Head(todo[t])
  <2>1. pc[t] = "publish" => todo[t] # << >>
    BY <1>5 DEF Local
  <2>2. IsInjective(todo[t])
    BY <1>5 DEF Local
  <2>. QED
    BY <1>5, <2>1, <2>2, TodoTail
<1>15. pc[t] = "boot_publish" =>
          /\ todo[t] = << >> /\ next_init[t] + 1 \in 0..Len(Initials)
          /\ next_init[t] \in 0..(Len(Initials) - 1)
  <2>1. pc[t] = "boot_publish" => todo[t] = << >> /\ next_init[t] \in 0..(Len(Initials) - 1)
    BY <1>5 DEF Local, TriggerPcs
  <2>. QED
    BY <1>13, <2>1
<1>16. LocalInv'
  <2>1. \A u \in Threads \ {t} : Local(u)'
    BY <1>1, <1>2, <1>12, <1>13 DEF LocalInv, Local
  <2>2. Local(t)'
    <3>1. CASE pc[t] = "publish"
      <4>1. \A n \in ToSet(todo'[t]) : n \in graph'.nodes /\ Parents(graph', n) # {}
        BY <1>2, <1>4, <1>5, <1>14, <3>1 DEF Local
      <4>2. next_init'[t] = 0
        BY <1>4, <1>5, <3>1 DEF Local, BootPcs
      <4>. QED
        BY <1>4, <1>14, <3>1, <4>1, <4>2 DEF Local, TriggerPcs, BootPcs
    <3>2. CASE pc[t] = "boot_publish"
      BY <1>2, <1>4, <1>5, <1>13, <1>15, <3>2 DEF Local, TriggerPcs, BootPcs
    <3>. QED
      BY <1>4, <3>1, <3>2
  <2>. QED
    BY <2>1, <2>2 DEF LocalInv
<1>17. SlotsInv'
  <2>1. ASSUME NEW j \in DOMAIN trigger_queue' PROVE SlotOK(trigger_queue[j])'
    <3>1. PICK s : s = p[j]
      OBVIOUS
    <3>2. SlotOK(s)'
      <4>1. CASE j = i
        <5>1. SlotOK(q[i])
          BY <1>1 DEF SlotsInv, q
        <5>. QED
          BY <1>2, <1>6, <1>7, <1>10, <3>1, <4>1, <5>1 DEF SlotOK
      <4>2. CASE j # i
        <5>1. s = q[j] /\ SlotOK(s) /\ s.who # t
          BY <1>1, <1>6, <1>7, <2>1, <3>1, <4>2 DEF SlotsInv, q, p
        <5>. QED
          BY <1>2, <1>10, <1>12, <5>1 DEF SlotOK
      <4>. QED
        BY <4>1, <4>2
    <3>. QED
      BY <3>1, <3>2 DEF SlotOK, p
  <2>2. "nobody" \notin Threads
    BY ThreadsAssumption
  <2>3. \A u \in Threads : pc'[u] \in PublishPcs \cup ReleasePcs => u # t
    BY <1>4 DEF PublishPcs, ReleasePcs
  <2>4. ASSUME NEW u \in Threads, pc'[u] \in PublishPcs
        PROVE  \E j \in DOMAIN p : /\ p[j].st = "claimed" /\ p[j].who = u
                                   /\ pc'[u] = "boot_publish" =>
                                        p[j].val = Initials'[next_init'[u] + 1]
    <3>1. PICK j \in DOMAIN q : /\ q[j].st = "claimed" /\ q[j].who = u
                                /\ pc[u] = "boot_publish" => q[j].val = Initials[next_init[u] + 1]
      BY <1>1, <1>12, <2>3, <2>4 DEF SlotsInv, q
    <3>. QED
      BY <1>6, <1>7, <1>12, <1>13, <2>3, <2>4, <3>1
  <2>5. ASSUME NEW u \in Threads, pc'[u] \in ReleasePcs
        PROVE  \E j \in DOMAIN p : p[j].st = "reading" /\ p[j].who = u
    <3>1. PICK j \in DOMAIN q : q[j].st = "reading" /\ q[j].who = u
      BY <1>1, <1>12, <2>3, <2>5 DEF SlotsInv, q
    <3>. QED
      BY <1>6, <1>7, <2>3, <2>5, <3>1
  <2>6. \A j, k \in DOMAIN p : j # k =>
          p[j].val # p[k].val /\ (p[j].who = p[k].who => p[j].who = "nobody")
    <3>1. \A j, k \in DOMAIN q : j # k =>
            q[j].val # q[k].val /\ (q[j].who = q[k].who => q[j].who = "nobody")
      BY <1>1 DEF SlotsInv, q
    <3>2. \A j \in DOMAIN q : p[j].who = IF j = i THEN "nobody" ELSE q[j].who
      BY <1>7
    <3>. QED
      BY <1>7, <1>8, <3>1, <3>2
  <2>7. p # << >> => p[1].st # "free"
    <3>1. 1 \in DOMAIN q /\ q # << >>
      <4>1. DOMAIN q = 1..Len(q) /\ Len(q) \in Nat
        BY <1>1, LenProperties
      <4>2. 1 \in DOMAIN q
        BY <1>6, <4>1
      <4>. QED
        BY <4>2
    <3>2. q[1].st # "free"
      BY <1>1, <3>1 DEF SlotsInv, q
    <3>. QED
      BY <1>7, <3>1, <3>2
  <2>. QED
    BY <2>1, <2>4, <2>5, <2>6, <2>7 DEF SlotsInv, p
<1>18. RunInv'
  <2>1. \A u \in Threads : /\ pc'[u] \in RunPcs <=> pc[u] \in RunPcs
                           /\ pc'[u] = "processing" <=> pc[u] = "processing"
    BY <1>4, <1>12 DEF RunPcs
  <2>. QED
    BY <1>1, <1>2, <1>10, <2>1 DEF RunInv
<1>19. \A u \in Threads : \A n : Triggering(u, n)' <=> Triggering(u, n)
  BY <1>4, <1>12 DEF Triggering, TriggerPcs
<1>20. TriggerInv'
  <2>1. \A u \in Threads : pc'[u] \in TriggerPcs => u # t
    BY <1>4 DEF TriggerPcs
  <2>2. \A u \in Threads : Booting(u)' => Booting(u)
    BY <1>4, <1>12, <1>13 DEF Booting
  <2>3. ASSUME NEW u \in Threads, Booting(u)', NEW n, ToBoot(u, n)' PROVE ToBoot(u, n)
    <3>1. CASE u # t
      BY <1>12, <1>13, <2>3, <3>1 DEF ToBoot
    <3>2. CASE u = t
      <4>1. PICK j \in DOMAIN Initials : Initials[j] = n /\ j > next_init'[t]
        BY <1>13, <2>3, <3>2 DEF ToBoot
      <4>2. next_init'[t] = next_init[t] + 1
        BY <1>4, <2>3, <3>2 DEF Booting
      <4>3. j > next_init[t] /\ j > next_init[t] + 1
        <5>1. j \in Nat
          BY <1>1, InitialNodes DEF Initials
        <5>. QED
          BY <1>5, <4>1, <4>2, <5>1
      <4>. QED
        BY <3>2, <4>1, <4>3 DEF ToBoot
    <3>. QED
      BY <3>1, <3>2
  <2>. QED
    BY <1>1, <1>2, <1>11, <1>12, <1>19, <2>1, <2>2, <2>3 DEF TriggerInv
<1>21. RefcountInv'
  <2>1. \A u \in Threads : \A n : Owes(u, n)' <=> Owes(u, n)
    <3>1. \A u \in Threads \ {t} : \A n : Owes(u, n)' <=> Owes(u, n)
      BY <1>12 DEF Owes
    <3>2. CASE pc[t] = "publish"
      BY <1>4, <1>14, <3>1, <3>2 DEF Owes
    <3>3. CASE pc[t] = "boot_publish"
      <4>1. todo'[t] = << >> /\ todo[t] = << >>
        BY <1>4, <1>15, <3>3
      <4>2. ToSet(todo[t]) = {} /\ ToSet(todo'[t]) = {}
        BY <4>1 DEF ToSet
      <4>. QED
        BY <3>1, <4>2 DEF Owes
    <3>. QED
      BY <1>4, <3>2, <3>3
  <2>2. \A n : Missing(n)' = Missing(n) /\ Owing(n)' = Owing(n)
    BY <1>2, <2>1 DEF Missing, Owing
  <2>3. \A u \in Threads : \A n : pc'[u] = "reset_refcount" /\ Head(todo'[u]) = n
             <=> pc[u] = "reset_refcount" /\ Head(todo[u]) = n
    BY <1>4, <1>12
  <2>6. SUFFICES ASSUME NEW n \in graph.nodes
        PROVE IF Missing(n)' # {} \/ Owing(n)' # {}
              THEN /\ refcount'[n] = Cardinality(Missing(n)') + Cardinality(Owing(n)')
                   /\ ~Pushed(n)' /\ \A u \in Threads : ~Triggering(u, n)'
              ELSE /\ refcount'[n] = IF \E u \in Threads : pc'[u] = "reset_refcount" /\ Head(todo'[u]) = n
                                    THEN 0 ELSE InitRefcount(graph, n)
                   /\ Parents(graph, n) # {} => Pushed(n)' \/ \E u \in Threads : Triggering(u, n)'
    BY <1>2 DEF RefcountInv
  <2>. QED
    BY <1>1, <1>2, <1>11, <1>19, <2>2, <2>3 DEF RefcountInv
<1>22. CountInv'
  <2>1. \A n : Queued(n)' <=> Queued(n)
    <3>1. \A j \in DOMAIN q : p[j].st \in {"claimed", "ready"} <=> q[j].st \in {"claimed", "ready"}
      BY <1>6, <1>7
    <3>. QED
      BY <1>7, <1>8, <3>1 DEF Queued, q, p
  <2>2. \A u \in Threads : \A n : Pushing(u, n)' <=> Pushing(u, n)
    BY <1>4, <1>12, <1>13 DEF Pushing
  <2>3. \A u \in Threads : \A n : Taken(u, n)' <=> Taken(u, n)
    BY <1>4, <1>10, <1>12 DEF Taken, Runs, RunPcs
  <2>4. \A n \in graph.nodes : Counted(n)' <=> Counted(n)
    BY <2>1, <2>2, <2>3 DEF Counted
  <2>. QED
    BY <1>1, <1>2, <2>4, CountFrame
<1>. QED
  BY <1>11, <1>16, <1>17, <1>18, <1>20, <1>21, <1>22 DEF DataInv

-----------------------------------------------------------------------------
(* Nothing is queued and no thread has a node in its hands.                *)
Rests == trigger_queue = << >> /\ \A t \in Threads : Idles(t)

LEMMA IdlesFacts ==
  ASSUME LocalInv, NEW t \in Threads, Idles(t) \/ pc[t] = "boot"
  PROVE  /\ pc[t] \notin RunPcs \cup TriggerPcs \cup PublishPcs \cup ReleasePcs \cup {"push", "boot_push"}
         /\ todo[t] = << >> /\ (\A n : ~Owes(t, n))
<1>1. pc[t] \in NeutralPcs \cup {"notify", "boot"} /\ (pc[t] = "notify" => todo[t] = << >>)
  BY DEF Idles, NeutralPcs, QuietPcs, LeadPcs
<1>2. pc[t] \notin RunPcs \cup TriggerPcs \cup PublishPcs \cup ReleasePcs \cup {"push", "boot_push"}
  BY <1>1 DEF NeutralPcs, QuietPcs, LeadPcs, RunPcs, TriggerPcs, PublishPcs, ReleasePcs
<1>3. todo[t] = << >>
  BY <1>1, <1>2 DEF LocalInv, Local, PublishPcs
<1>4. ToSet(todo[t]) = {}
  BY <1>3 DEF ToSet
<1>. QED
  BY <1>2, <1>3, <1>4 DEF Owes

LEMMA RestFacts ==
  ASSUME TypeOK, DataInv, Rests
  PROVE  /\ \A t \in Threads : todo[t] = << >> /\ ~Booting(t) /\ (\A n : ~Runs(t, n) /\ ~Owes(t, n))
         /\ started = finished /\ trigger_queue_size = 0
         /\ started \in {{}, graph.nodes} =>
               \A n \in graph.nodes : refcount[n] = InitRefcount(graph, n)
<1>1. /\ LocalInv /\ SlotsInv /\ RunInv /\ TriggerInv /\ RefcountInv /\ CountInv /\ graph \in Graphs
      /\ trigger_queue = << >>
  BY QueueTypes DEF DataInv, Rests
<1>2. \A t \in Threads :
          /\ pc[t] \notin RunPcs \cup TriggerPcs \cup PublishPcs \cup ReleasePcs \cup {"push", "boot_push"}
          /\ todo[t] = << >> /\ (\A n : ~Owes(t, n))
  BY <1>1, IdlesFacts DEF Rests
<1>3. ASSUME NEW t \in Threads PROVE ~Booting(t)
  <2>1. Len(Initials) \in Nat /\ next_init[t] \in Nat
    BY <1>1, InitialNodes, ThreadTypes DEF Initials
  <2>2. pc[t] = "boot" => next_init[t] >= Len(Initials)
    BY <1>1 DEF Rests, Idles, NeutralPcs, QuietPcs, LeadPcs
  <2>. QED
    BY <1>2, <2>1, <2>2 DEF Booting, PublishPcs
<1>4. \A t \in Threads : \A n : ~Runs(t, n)
  BY <1>2 DEF Runs
<1>5. started = finished
  BY <1>1, <1>4 DEF RunInv
<1>6. trigger_queue_size = 0
  <2>1. \A n : ~Queued(n)
    BY <1>1 DEF Queued
  <2>2. \A n : ~Counted(n)
    BY <1>2, <1>4, <2>1 DEF Counted, Pushing, Taken
  <2>3. {n \in graph.nodes : Counted(n)} = {}
    BY <2>2
  <2>. QED
    BY <1>1, <2>3, FS_EmptySet DEF CountInv
<1>7. ASSUME started \in {{}, graph.nodes}, NEW n \in graph.nodes
      PROVE  refcount[n] = InitRefcount(graph, n)
  <2>1. Owing(n) = {}
    BY <1>2 DEF Owing
  <2>2. ~\E t \in Threads : pc[t] = "reset_refcount" /\ Head(todo[t]) = n
    BY <1>2 DEF TriggerPcs
  <2>3. CASE Missing(n) = {}
    BY <1>1, <2>1, <2>2, <2>3 DEF RefcountInv
  <2>4. CASE Missing(n) # {}
    <3>1. Parents(graph, n) \in SUBSET graph.nodes
      BY <1>1, GraphFacts
    <3>2. started = {}
      BY <1>5, <1>7, <2>4, <3>1 DEF Missing
    <3>3. Missing(n) = Parents(graph, n)
      BY <1>5, <3>2 DEF Missing
    <3>4. Cardinality(Owing(n)) = 0 /\ Cardinality(Parents(graph, n)) \in Nat
      BY <1>1, <2>1, <3>1, NodeSet, FS_EmptySet
    <3>5. refcount[n] = Cardinality(Missing(n)) + Cardinality(Owing(n))
      BY <1>1, <2>4 DEF RefcountInv
    <3>. QED
      BY <3>3, <3>4, <3>5 DEF InitRefcount
  <2>. QED
    BY <2>3, <2>4
<1>. QED
  BY <1>2, <1>3, <1>4, <1>5, <1>6, <1>7

(* A cycle of which nothing has been done yet.                             *)
Fresh ==
    /\ graph \in Graphs /\ LocalInv
    /\ trigger_queue = << >> /\ trigger_queue_size = 0
    /\ started = {} /\ finished = {}
    /\ \A t \in Threads : Idles(t) \/ pc[t] = "boot"
    /\ \A t, u \in Threads : pc[t] = "boot" /\ Booting(t) /\ pc[u] = "boot" /\ Booting(u) => t = u
    /\ \A n \in graph.nodes : refcount[n] = InitRefcount(graph, n)
    /\ cap >= Cardinality(graph.nodes)

LEMMA FreshData == Fresh => DataInv
<1>. SUFFICES ASSUME Fresh PROVE DataInv
  OBVIOUS
<1>1. graph \in Graphs /\ LocalInv /\ trigger_queue = << >> /\ started = {} /\ finished = {}
  BY DEF Fresh
<1>2. \A t \in Threads :
          /\ pc[t] \notin RunPcs \cup TriggerPcs \cup PublishPcs \cup ReleasePcs \cup {"push", "boot_push"}
          /\ todo[t] = << >> /\ (\A n : ~Owes(t, n))
  BY <1>1, IdlesFacts DEF Fresh
<1>3. \A t \in Threads : \A n : ~Runs(t, n) /\ ~Triggering(t, n)
  BY <1>2 DEF Runs, Triggering
<1>4. DOMAIN trigger_queue = {}
  BY <1>1
<1>5. \A n : ~Pushed(n)
  BY <1>1, <1>3, <1>4 DEF Pushed
<1>6. SlotsInv
  BY <1>1, <1>2, <1>4 DEF SlotsInv
<1>7. RunInv
  BY <1>1, <1>2 DEF RunInv
<1>8. TriggerInv
  <2>1. \A t \in Threads : Booting(t) => pc[t] = "boot"
    BY <1>2 DEF Booting, PublishPcs
  <2>. QED
    BY <1>2, <1>5, <2>1 DEF TriggerInv, Fresh
<1>9. RefcountInv
  <2>1. SUFFICES ASSUME NEW n \in graph.nodes
        PROVE IF Missing(n) # {} \/ Owing(n) # {}
              THEN /\ refcount[n] = Cardinality(Missing(n)) + Cardinality(Owing(n))
                   /\ ~Pushed(n) /\ \A u \in Threads : ~Triggering(u, n)
              ELSE /\ refcount[n] = IF \E u \in Threads : pc[u] = "reset_refcount" /\ Head(todo[u]) = n
                                    THEN 0 ELSE InitRefcount(graph, n)
                   /\ Parents(graph, n) # {} => Pushed(n) \/ \E u \in Threads : Triggering(u, n)
    BY DEF RefcountInv
  <2>2. Missing(n) = Parents(graph, n) /\ Owing(n) = {}
    BY <1>1, <1>2 DEF Missing, Owing
  <2>3. ~\E t \in Threads : pc[t] = "reset_refcount" /\ Head(todo[t]) = n
    BY <1>2 DEF TriggerPcs
  <2>4. Cardinality(Owing(n)) = 0 /\ Cardinality(Parents(graph, n)) \in Nat
    <3>1. Parents(graph, n) \in SUBSET graph.nodes
      BY <1>1, GraphFacts
    <3>. QED
      BY <1>1, <2>2, <3>1, NodeSet, FS_EmptySet
  <2>5. refcount[n] = Cardinality(Parents(graph, n))
    BY DEF Fresh, InitRefcount
  <2>6. refcount[n] = Cardinality(Missing(n)) + Cardinality(Owing(n))
    BY <2>2, <2>4, <2>5
  <2>7. refcount[n] = InitRefcount(graph, n)
    BY DEF Fresh
  <2>. QED
    BY <1>3, <1>5, <2>2, <2>3, <2>6, <2>7
<1>10. CountInv
  <2>1. \A n : ~Queued(n)
    BY <1>4 DEF Queued
  <2>2. \A n : ~Counted(n)
    BY <1>2, <1>3, <2>1 DEF Counted, Pushing, Taken
  <2>3. {n \in graph.nodes : Counted(n)} = {}
    BY <2>2
  <2>4. Cardinality({n \in graph.nodes : Counted(n)}) = 0
    BY <2>3, FS_EmptySet
  <2>. QED
    BY <2>4 DEF CountInv, Fresh
<1>. QED
  BY <1>1, <1>6, <1>7, <1>8, <1>9, <1>10 DEF DataInv

LEMMA FreshNext == Fresh' => DataInv'
BY FreshData, PTL

-----------------------------------------------------------------------------
(* power_of_two_size finds a size that is large enough.                    *)
LEMMA PowerOfTwoLarge ==
  ASSUME NEW n \in 1..MaxCells
  PROVE  PowerOfTwoSize(n) \in PowersOfTwo /\ PowerOfTwoSize(n) >= n
<1>1. n \in Nat /\ n <= 16384
  BY DEF MaxCells
<1>2. /\ 4 \div 2 = 2 /\ 8 \div 2 = 4 /\ 16 \div 2 = 8 /\ 32 \div 2 = 16 /\ 64 \div 2 = 32
      /\ 128 \div 2 = 64 /\ 256 \div 2 = 128 /\ 512 \div 2 = 256 /\ 1024 \div 2 = 512
      /\ 2048 \div 2 = 1024 /\ 4096 \div 2 = 2048 /\ 8192 \div 2 = 4096 /\ 16384 \div 2 = 8192
  OBVIOUS
<1>. DEFINE Fits(p) == p >= n /\ (p = 2 \/ p \div 2 < n)
<1>3. /\ n <= 2 => Fits(2)
      /\ 2 < n /\ n <= 4 => Fits(4)
      /\ 4 < n /\ n <= 8 => Fits(8)
      /\ 8 < n /\ n <= 16 => Fits(16)
      /\ 16 < n /\ n <= 32 => Fits(32)
      /\ 32 < n /\ n <= 64 => Fits(64)
      /\ 64 < n /\ n <= 128 => Fits(128)
      /\ 128 < n /\ n <= 256 => Fits(256)
      /\ 256 < n /\ n <= 512 => Fits(512)
      /\ 512 < n /\ n <= 1024 => Fits(1024)
      /\ 1024 < n /\ n <= 2048 => Fits(2048)
      /\ 2048 < n /\ n <= 4096 => Fits(4096)
      /\ 4096 < n /\ n <= 8192 => Fits(8192)
      /\ 8192 < n /\ n <= 16384 => Fits(16384)
  BY <1>1, <1>2
<1>. HIDE DEF Fits
<1>4. \E p \in PowersOfTwo : Fits(p)
  BY <1>1, <1>3 DEF PowersOfTwo
<1>5. \E p \in PowersOfTwo : p >= n /\ (p = 2 \/ p \div 2 < n)
  BY <1>4 DEF Fits
<1>6. PowerOfTwoSize(n) = CHOOSE p \in PowersOfTwo : p >= n /\ (p = 2 \/ p \div 2 < n)
  BY DEF PowerOfTwoSize
<1>. QED
  BY <1>5, <1>6, Zenon

(* mpmc_queue_reserve: a cell for every node.                              *)
LEMMA ReservedLarge ==
  ASSUME NEW g \in Graphs, NEW c \in Nat
  PROVE  /\ Reserved(c, g) \in Nat /\ Reserved(c, g) >= Cardinality(g.nodes) /\ Reserved(c, g) >= c
         /\ Reserved(c, g) >= 2
<1>1. Cardinality(g.nodes) \in 1..MaxCells
  BY BoundsAssumption
<1>2. PICK w : w = PowerOfTwoSize(Cardinality(g.nodes))
  OBVIOUS
<1>3. w \in PowersOfTwo /\ w >= Cardinality(g.nodes)
  BY <1>1, <1>2, PowerOfTwoLarge
<1>4. w \in Nat /\ w >= 2
  BY <1>3 DEF PowersOfTwo
<1>5. Cardinality(g.nodes) \in Nat
  BY <1>1
<1>. QED
  BY <1>2, <1>3, <1>4, <1>5 DEF Reserved

(* The leader starts to push the initial nodes.                            *)
LEMMA BootData ==
  ASSUME TypeOK, DataInv, Rests, started = {}, NEW t \in Threads, pc[t] \in LeadPcs,
         pc' = [pc EXCEPT ![t] = "boot"],
         UNCHANGED <<graph, refcount, cap, trigger_queue_size, trigger_queue, to_run, todo,
                     next_init, started, finished>>
  PROVE  DataInv'
<1>1. /\ graph \in Graphs /\ LocalInv /\ CountInv /\ Initials' = Initials /\ Len(Initials) \in Nat
  BY QueueTypes, InitialNodes DEF DataInv, Initials
<1>2. /\ \A u \in Threads : todo[u] = << >> /\ ~Booting(u)
      /\ started = finished /\ trigger_queue_size = 0
      /\ \A n \in graph.nodes : refcount[n] = InitRefcount(graph, n)
  BY RestFacts
<1>3. pc'[t] = "boot" /\ \A u \in Threads \ {t} : pc'[u] = pc[u]
  BY DEF TypeOK
<1>4. LocalInv'
  <2>1. \A u \in Threads \ {t} : Local(u)'
    BY <1>1, <1>3 DEF LocalInv, Local
  <2>2. next_init[t] = 0 /\ Local(t)
    BY <1>1 DEF LocalInv, Local, BootPcs, LeadPcs
  <2>3. todo'[t] = << >> /\ next_init'[t] \in 0..Len(Initials')
    BY <1>1, <1>2, <2>2
  <2>4. Local(t)'
    BY <1>3, <2>2, <2>3 DEF Local, TriggerPcs, BootPcs
  <2>. QED
    BY <2>1, <2>4 DEF LocalInv
<1>5. \A u \in Threads : Idles(u)' \/ pc'[u] = "boot"
  BY <1>1, <1>3 DEF Rests, Idles
<1>6. \A u \in Threads \ {t} : ~Booting(u)'
  BY <1>1, <1>2, <1>3 DEF Booting
<1>7. Fresh'
  BY <1>1, <1>2, <1>4, <1>5, <1>6 DEF Fresh, Rests, CountInv
<1>. QED
  BY <1>7, FreshNext

(* The router starts a cycle.                                              *)
LEMMA StartData ==
  ASSUME TypeOK, DataInv, Rests, started \in {{}, graph.nodes}, StartCycle
  PROVE  DataInv'
<1>1. /\ graph \in Graphs /\ LocalInv /\ CountInv
  BY QueueTypes DEF DataInv
<1>2. /\ \A u \in Threads : todo[u] = << >> /\ ~Booting(u)
      /\ trigger_queue_size = 0
      /\ \A n \in graph.nodes : refcount[n] = InitRefcount(graph, n)
  BY RestFacts
<1>3. /\ UNCHANGED <<graph, refcount, cap, trigger_queue_size, trigger_queue, pc, todo, next_init>>
      /\ started' = {} /\ finished' = {}
  BY DEF StartCycle, graphVars, countVars, localVars
<1>4. LocalInv' /\ Initials' = Initials
  BY <1>1, <1>3 DEF LocalInv, Local, Initials
<1>5. \A u \in Threads : Idles(u)' /\ ~Booting(u)'
  BY <1>2, <1>3, <1>4 DEF Rests, Idles, Booting
<1>6. Fresh'
  BY <1>1, <1>2, <1>3, <1>4, <1>5 DEF Fresh, Rests, CountInv
<1>. QED
  BY <1>6, FreshNext

(* A thread that is not overtaken finds no initial node left in the new    *)
(* graph.                                                                  *)
LEMMA BootsOut ==
  ASSUME TypeOK, NEW g \in Graphs, Rechain(g), ~overtaken'
  PROVE  \A u \in Threads : pc[u] = "boot" => next_init[u] >= Len(Initials')
<1>1. ~Overtakes(g) /\ graph' = g
  BY DEF Rechain
<1>2. Len(Initials') \in Nat /\ Initials' = InitTriggers(g)
  BY <1>1, InitialNodes DEF Initials
<1>3. next_init \in [Threads -> Nat]
  BY DEF TypeOK
<1>. QED
  BY <1>1, <1>2, <1>3 DEF Overtakes

(* graph_rechain puts another graph in and overtakes no thread.            *)
LEMMA RechainData ==
  ASSUME TypeOK, DataInv, Rests, NEW g \in Graphs, Rechain(g), ~overtaken'
  PROVE  DataInv'
<1>1. /\ graph \in Graphs /\ LocalInv /\ CountInv /\ cap \in Nat
  BY QueueTypes DEF DataInv, TypeOK
<1>2. /\ \A u \in Threads : todo[u] = << >> /\ ~Booting(u)
      /\ trigger_queue_size = 0
  BY RestFacts
<1>3. /\ graph' = g
      /\ refcount' = [n \in Nodes |-> IF n \in g.nodes THEN InitRefcount(g, n) ELSE 0]
      /\ cap' = Reserved(cap, g)
      /\ trigger_queue' = IF cap' = cap THEN trigger_queue ELSE << >>
      /\ started' = {} /\ finished' = {}
      /\ UNCHANGED <<trigger_queue_size, pc, todo, next_init>>
  BY DEF Rechain, countVars, localVars
<1>4. trigger_queue' = << >>
  BY <1>3 DEF Rests
<1>5. \A u \in Threads : pc[u] = "boot" => next_init[u] >= Len(Initials')
  BY <1>3, BootsOut
<1>6. LocalInv'
  <2>1. \A u \in Threads : ToSet(todo'[u]) = {} /\ pc[u] \notin {"boot_push", "boot_publish"}
    BY <1>2, <1>3 DEF ToSet, Booting
  <2>. QED
    BY <1>1, <1>3, <2>1 DEF LocalInv, Local
<1>7. \A u \in Threads : Idles(u)' /\ ~Booting(u)'
  <2>1. TAKE u \in Threads
  <2>2. Idles(u) /\ pc'[u] = pc[u] /\ todo'[u] = todo[u] /\ next_init'[u] = next_init[u]
    BY <1>3 DEF Rests
  <2>3. pc[u] \notin {"boot_push", "boot_publish"}
    BY <1>2 DEF Booting
  <2>4. CASE pc[u] = "boot"
    <3>1. next_init'[u] >= Len(Initials')
      BY <1>5, <2>2, <2>4
    <3>2. next_init'[u] \in Nat /\ Len(Initials') \in Nat
      <4>1. Len(Initials') \in Nat
        BY <1>3, InitialNodes DEF Initials
      <4>2. next_init[u] \in Nat
        BY DEF TypeOK
      <4>. QED
        BY <2>2, <4>1, <4>2
    <3>3. ~(next_init'[u] < Len(Initials'))
      BY <3>1, <3>2
    <3>. QED
      BY <2>2, <2>4, <3>1, <3>3 DEF Idles, Booting
  <2>5. CASE pc[u] # "boot"
    <3>1. pc[u] \in NeutralPcs \/ (pc[u] = "notify" /\ todo[u] = << >>)
      BY <2>2, <2>5 DEF Idles
    <3>. QED
      BY <2>2, <2>3, <2>5, <3>1 DEF Idles, Booting
  <2>. QED
    BY <2>4, <2>5
<1>8. \A n \in graph'.nodes : refcount'[n] = InitRefcount(graph', n)
  BY <1>3, GraphFacts
<1>9. cap' >= Cardinality(graph'.nodes)
  BY <1>1, <1>3, ReservedLarge
<1>10. Fresh'
  BY <1>2, <1>3, <1>4, <1>6, <1>7, <1>8, <1>9 DEF Fresh
<1>. QED
  BY <1>10, FreshNext

-----------------------------------------------------------------------------
(* Steps of a thread that has no node in its hands.                        *)
QuietMove(t) ==
    \/ pc[t] = "top" /\ pc'[t] = (IF terminate THEN "exited" ELSE "dequeue")
    \/ pc[t] \in {"dequeue", "dequeue_again"} /\ ~HeadReady(trigger_queue) /\ pc'[t] = "go_idle"
    \/ pc[t] = "go_idle" /\ pc'[t] = "wait_trigger"
    \/ pc[t] = "wait_trigger" /\ trigger > 0 /\ pc'[t] = "woken"
    \/ pc[t] = "woken" /\ pc'[t] = (IF terminate THEN "exited" ELSE "not_idle")
    \/ pc[t] = "not_idle" /\ pc'[t] = "dequeue_again"
    \/ pc[t] = "notify" /\ todo[t] = << >> /\ pc'[t] = "top"
    \/ pc[t] = "boot" /\ next_init[t] >= Len(Initials) /\ pc'[t] = "top"

Calm(t) ==
    /\ QuietMove(t) /\ Alone(t) /\ Kept(t)
    /\ UNCHANGED <<graphVars, trigger_queue_size, trigger_queue, callback_start,
                   callback_done, callerVars, historyVars>>
    /\ trigger' = trigger \/ trigger > 0
    /\ idle_thread_cnt' = IF pc[t] = "go_idle" THEN idle_thread_cnt + 1
                          ELSE IF pc[t] = "not_idle" THEN idle_thread_cnt - 1
                          ELSE idle_thread_cnt

QuietStep(t) ==
    \/ Top(t) \/ (DequeueNode(t) /\ ~HeadReady(trigger_queue)) \/ GoIdle(t) \/ WaitTrigger(t)
    \/ Woken(t) \/ NotIdle(t) \/ AllNotified(t) \/ AllBooted(t)

LEMMA QuietStepCalm ==
  ASSUME TypeOK, LocalInv, NEW t \in Threads, QuietStep(t)
  PROVE  Calm(t)
<1>1. /\ pc \in [Threads -> Pcs] /\ to_run \in [Threads -> Nodes \cup {NoNode}]
      /\ todo \in [Threads -> Seq(Nodes)] /\ next_init \in [Threads -> Nat] /\ Local(t)
  BY DEF TypeOK, LocalInv
<1>. USE DEF Goto, countVars, semVars, localVars
<1>2. /\ Alone(t) /\ QuietMove(t)
      /\ to_run'[t] = to_run[t] /\ todo'[t] = todo[t]
      /\ next_init'[t] = IF pc[t] = "boot" THEN 0 ELSE next_init[t]
      /\ UNCHANGED <<graphVars, trigger_queue_size, trigger_queue, callback_start,
                   callback_done, callerVars, historyVars>>
      /\ trigger' = trigger \/ trigger > 0
      /\ idle_thread_cnt' = IF pc[t] = "go_idle" THEN idle_thread_cnt + 1
                          ELSE IF pc[t] = "not_idle" THEN idle_thread_cnt - 1
                          ELSE idle_thread_cnt
  <2>1. CASE Top(t)
    BY <1>1, <2>1 DEF Top, Alone, QuietMove
  <2>2. CASE DequeueNode(t) /\ ~HeadReady(trigger_queue)
    BY <1>1, <2>2 DEF DequeueNode, Alone, QuietMove
  <2>3. CASE GoIdle(t)
    BY <1>1, <2>3 DEF GoIdle, Alone, QuietMove
  <2>4. CASE WaitTrigger(t)
    BY <1>1, <2>4 DEF WaitTrigger, Alone, QuietMove
  <2>5. CASE Woken(t)
    BY <1>1, <2>5 DEF Woken, Alone, QuietMove
  <2>6. CASE NotIdle(t)
    BY <1>1, <2>6 DEF NotIdle, Alone, QuietMove
  <2>7. CASE AllNotified(t)
    BY <1>1, <2>7 DEF AllNotified, Alone, QuietMove
  <2>8. CASE AllBooted(t)
    BY <1>1, <2>8 DEF AllBooted, Alone, QuietMove, Initials
  <2>. QED
    BY <2>1, <2>2, <2>3, <2>4, <2>5, <2>6, <2>7, <2>8 DEF QuietStep
<1>3. Kept(t)
  <2>1. next_init'[t] = 0
    BY <1>1, <1>2 DEF Local, BootPcs, QuietMove
  <2>. QED
    BY <1>2, <2>1 DEF Kept, Idles, QuietMove, NeutralPcs, QuietPcs
<1>. QED
  BY <1>2, <1>3 DEF Calm

LEMMA CalmQuiet ==
  ASSUME TypeOK, NEW l \in Threads, NEW t \in Threads, Calm(t), StageQuiet(l)
  PROVE  StageQuiet(l)' /\ t # l
<1>1. /\ Alone(t) /\ QuietMove(t) /\ (trigger' = trigger \/ trigger > 0)
      /\ UNCHANGED <<graph, terminal_refcnt, trigger_queue, callback_start, callback_done, router_pc,
                     terminate, started, finished>>
  BY DEF Calm, graphVars, callerVars, historyVars
<1>2. t # l
  BY <1>1 DEF StageQuiet, QuietMove, LeadPcs
<1>3. pc'[l] = pc[l] /\ \A u \in Threads \ {t} : pc'[u] = pc[u] /\ todo'[u] = todo[u]
                                                 /\ next_init'[u] = next_init[u]
  BY <1>1, <1>2 DEF Alone
<1>4. \A u \in Threads \ {l} : Quiet(u)'
  <2>1. Quiet(t)'
    BY <1>1 DEF QuietMove, Quiet, QuietPcs
  <2>2. Initials' = Initials
    BY <1>1 DEF Initials
  <2>3. \A u \in Threads \ {l} : u # t => Quiet(u)'
    BY <1>3, <2>2 DEF StageQuiet, Quiet
  <2>. QED
    BY <2>1, <2>3
<1>5. ASSUME pc[l] \in {"await_workers", "first_callback"}
      PROVE  /\ terminate \/ trigger' = 0
             /\ pc'[t] \in {"top", "dequeue", "go_idle", "wait_trigger", "woken", "exited"}
             /\ pc'[t] \in {"woken", "exited"} => terminate
             /\ pc[l] = "first_callback" => pc'[t] \in {"wait_trigger", "woken", "exited"}
  <2>1. /\ terminate \/ trigger = 0
        /\ pc[t] \in {"top", "dequeue", "go_idle", "wait_trigger", "woken", "exited"}
        /\ pc[t] \in {"woken", "exited"} => terminate
        /\ pc[l] = "first_callback" => pc[t] \in {"wait_trigger", "woken", "exited"}
    BY <1>2, <1>5 DEF StageQuiet
  <2>. QED
    BY <1>1, <2>1 DEF QuietMove
<1>6. pc[l] \in {"await_workers", "first_callback"} =>
          /\ l = MainThread /\ started = {} /\ terminal_refcnt = NumTerminal(graph)
          /\ \A u \in Threads \ {l} :
                /\ pc'[u] \in {"top", "dequeue", "go_idle", "wait_trigger", "woken", "exited"}
                /\ pc'[u] \in {"woken", "exited"} => terminate
                /\ pc[l] = "first_callback" => pc'[u] \in {"wait_trigger", "woken", "exited"}
  BY <1>3, <1>5 DEF StageQuiet
<1>. QED
  BY <1>1, <1>2, <1>3, <1>4, <1>5, <1>6 DEF StageQuiet

LEMMA CalmOver ==
  ASSUME TypeOK, NEW t \in Threads, Calm(t), StageOver
  PROVE  StageOver'
<1>1. /\ Alone(t) /\ QuietMove(t)
      /\ UNCHANGED <<graph, trigger_queue, terminate, started, finished>>
  BY DEF Calm, graphVars, callerVars, historyVars
<1>2. /\ \A u \in Threads \ {t} : pc'[u] = pc[u] /\ todo'[u] = todo[u] /\ next_init'[u] = next_init[u]
      /\ Initials' = Initials
  BY <1>1 DEF Alone, Initials
<1>3. pc'[t] \in QuietPcs /\ pc'[t] \notin LeadPcs /\ pc'[t] \notin BootPcs
  BY <1>1 DEF QuietMove, QuietPcs, LeadPcs, BootPcs
<1>4. ~Leads'
  BY <1>2, <1>3 DEF StageOver, Leads
<1>5. \A u \in Threads : Quiet(u)' \/ pc'[u] \in BootPcs
  BY <1>2, <1>3 DEF StageOver, Quiet
<1>6. CASE trigger_queue = << >> /\ \A u \in Threads : ~Booting(u)
  <2>1. \A u \in Threads : ~Booting(u)'
    BY <1>2, <1>3, <1>6 DEF Booting, QuietPcs
  <2>. QED
    BY <1>1, <1>4, <1>5, <1>6, <2>1 DEF StageOver
<1>7. CASE /\ started = {}
           /\ \A u \in Threads \ {MainThread} : pc[u] \in {"wait_trigger", "woken", "exited"}
           /\ pc[MainThread] \in BootPcs \cup {"top", "exited"}
  <2>1. \A u \in Threads \ {MainThread} : pc'[u] \in {"wait_trigger", "woken", "exited"}
    BY <1>1, <1>2, <1>7 DEF QuietMove, StageOver
  <2>2. pc'[MainThread] \in BootPcs \cup {"top", "exited"}
    <3>1. MainThread \in Threads
      BY DEF Threads
    <3>2. CASE t = MainThread
      BY <1>1, <1>7, <3>2 DEF QuietMove, StageOver, BootPcs
    <3>3. CASE t # MainThread
      BY <1>2, <1>7, <3>1, <3>3
    <3>. QED
      BY <3>2, <3>3
  <2>. QED
    BY <1>1, <1>4, <1>5, <1>7, <2>1, <2>2 DEF StageOver
<1>. QED
  BY <1>6, <1>7 DEF StageOver

-----------------------------------------------------------------------------
(* While a cycle runs.                                                     *)
TerminalCount ==
    /\ terminal_refcnt >= 1
    /\ terminal_refcnt = Cardinality({n \in graph.nodes \ finished : graph.childnodes[n] = << >>})
                         + Cardinality({t \in Threads : pc[t] = "terminal"})

ReadySeen ==
    (\E i \in DOMAIN trigger_queue : trigger_queue[i].st = "ready") =>
        \E t \in Threads : pc[t] \in LookPcs

LEMMA TerminalKept ==
  ASSUME TerminalCount, NEW t \in Threads, Alone(t),
         UNCHANGED <<graph, finished, terminal_refcnt>>,
         pc[t] # "terminal", pc'[t] # "terminal"
  PROVE  TerminalCount'
<1>1. {u \in Threads : pc'[u] = "terminal"} = {u \in Threads : pc[u] = "terminal"}
  BY DEF Alone
<1>2. Cardinality({u \in Threads : pc'[u] = "terminal"}) = Cardinality({u \in Threads : pc[u] = "terminal"})
  BY <1>1
<1>. QED
  BY <1>2 DEF TerminalCount

LEMMA ActiveKept ==
  ASSUME TypeOK, StageActive, NEW t \in Threads, Alone(t),
         UNCHANGED <<graph, router_pc, callback_start, callback_done>>,
         pc'[t] \notin LeadPcs, TerminalCount', ReadySeen',
         \A n : Pushed(n) => Pushed(n)',
         \A n : Booting(t) /\ ToBoot(t, n) => Pushed(n)' \/ (Booting(t)' /\ ToBoot(t, n)')
  PROVE  StageActive'
<1>1. \A u \in Threads \ {t} : pc'[u] = pc[u] /\ todo'[u] = todo[u] /\ next_init'[u] = next_init[u]
  BY DEF Alone
<1>2. Initials' = Initials
  BY DEF Initials
<1>3. ~Leads'
  BY <1>1 DEF StageActive, Leads
<1>4. \A u \in Threads : \A n : Booting(u) /\ ToBoot(u, n) => Pushed(n)' \/ (Booting(u)' /\ ToBoot(u, n)')
  <2>1. \A u \in Threads \ {t} : \A n : Booting(u) /\ ToBoot(u, n) => Booting(u)' /\ ToBoot(u, n)'
    BY <1>1, <1>2 DEF Booting, ToBoot
  <2>. QED
    BY <2>1
<1>5. ASSUME NEW i \in DOMAIN Initials'
      PROVE  Pushed(Initials[i])' \/ \E u \in Threads : Booting(u)' /\ ToBoot(u, Initials[i])'
  <2>1. PICK n : n = Initials[i]
    OBVIOUS
  <2>2. Pushed(n) \/ \E u \in Threads : Booting(u) /\ ToBoot(u, n)
    BY <1>2, <1>5, <2>1 DEF StageActive
  <2>3. Pushed(n)' \/ \E u \in Threads : Booting(u)' /\ ToBoot(u, n)'
    BY <1>4, <2>2
  <2>4. Initials'[i] = n
    BY <1>2, <2>1
  <2>. QED
    BY <2>3, <2>4 DEF Pushed, ToBoot, Runs
<1>. QED
  BY <1>3, <1>5 DEF StageActive, TerminalCount, ReadySeen

LEMMA ActiveCounts == StageActive => TerminalCount /\ ReadySeen
BY DEF StageActive, TerminalCount, ReadySeen

(* A queue whose head is not ready yet has a producer that is about to     *)
(* publish it.                                                             *)
LEMMA HeadClaimed ==
  ASSUME TypeOK, SlotsInv, ~HeadReady(trigger_queue),
         \E i \in DOMAIN trigger_queue : trigger_queue[i].st = "ready"
  PROVE  \E t \in Threads : pc[t] \in PublishPcs
<1>. DEFINE q == trigger_queue
            W == {i \in DOMAIN q : q[i].st \in {"claimed", "ready"}}
<1>1. q \in Seq(Slot(Threads, Nodes)) /\ \A i \in DOMAIN q : q[i].st \in {"claimed", "ready", "reading", "free"}
  BY QueueTypes DEF SlotStates
<1>2. DOMAIN q = 1..Len(q) /\ Len(q) \in Nat
  BY <1>1, LenProperties
<1>3. W \in SUBSET Nat /\ W # {}
  BY <1>2
<1>4. PICK m \in W : \A j \in W : ~(j < m)
  BY <1>3, NatMinimum
<1>5. \A j \in 1..(m - 1) : j \in DOMAIN q /\ j < m
  BY <1>2, <1>4
<1>6. \A j \in 1..(m - 1) : q[j].st \in {"reading", "free"}
  BY <1>1, <1>4, <1>5
<1>7. q[m].st # "ready"
  BY <1>4, <1>6 DEF HeadReady
<1>8. q[m].st = "claimed" /\ SlotOK(q[m])
  BY <1>4, <1>7 DEF SlotsInv
<1>. QED
  BY <1>8 DEF SlotOK

LEMMA CalmActive ==
  ASSUME TypeOK, DataInv, NEW t \in Threads, Calm(t), StageActive, ~terminate,
         \A n : Pushed(n)' <=> Pushed(n)
  PROVE  StageActive'
<1>1. /\ Alone(t) /\ QuietMove(t)
      /\ UNCHANGED <<graph, terminal_refcnt, trigger_queue, callback_start, callback_done, router_pc,
                     finished>>
  BY DEF Calm, graphVars, callerVars, historyVars
<1>2. /\ pc[t] # "terminal" /\ pc'[t] # "terminal" /\ pc'[t] \notin LeadPcs
      /\ pc[t] \notin {"boot_push", "boot_publish"}
  BY <1>1 DEF QuietMove, LeadPcs
<1>3. ~Booting(t)
  <2>1. Len(Initials) \in Nat /\ next_init[t] \in Nat
    BY QueueTypes, InitialNodes, ThreadTypes DEF Initials
  <2>. QED
    BY <1>1, <1>2, <2>1 DEF Booting, QuietMove
<1>4. TerminalCount'
  BY <1>1, <1>2, ActiveCounts, TerminalKept
<1>5. ReadySeen'
  <2>1. CASE pc[t] \in {"dequeue", "dequeue_again"}
    <3>1. SUFFICES ASSUME \E i \in DOMAIN trigger_queue : trigger_queue[i].st = "ready"
                   PROVE  \E u \in Threads : pc'[u] \in LookPcs
      BY <1>1 DEF ReadySeen
    <3>2. ~HeadReady(trigger_queue)
      BY <1>1, <2>1 DEF QuietMove
    <3>3. PICK u \in Threads : pc[u] \in PublishPcs
      BY <3>1, <3>2, HeadClaimed DEF DataInv
    <3>4. pc'[u] = pc[u]
      BY <1>1, <2>1, <3>3 DEF Alone, PublishPcs
    <3>. QED
      BY <3>3, <3>4 DEF PublishPcs, LookPcs, Pcs, IdlePcs, LeadPcs
  <2>2. CASE pc'[t] \in LookPcs
    BY <2>2 DEF ReadySeen
  <2>3. CASE pc[t] \notin LookPcs
    BY <1>1, <2>3, ActiveCounts DEF ReadySeen, Alone
  <2>. QED
    BY <1>1, <2>1, <2>2, <2>3 DEF QuietMove, LookPcs, Pcs, IdlePcs, LeadPcs
<1>. QED
  BY <1>1, <1>2, <1>3, <1>4, <1>5, ActiveKept

(* Who counts as idle.                                                     *)
LEMMA CalmIdle ==
  ASSUME TypeOK, IdleInv, NEW t \in Threads, Calm(t)
  PROVE  IdleInv'
<1>1. PICK C \in SUBSET Threads :
        /\ Idle \subseteq C /\ C \subseteq Idle \cup Exited
        /\ idle_thread_cnt = Cardinality(C)
        /\ ~Leads /\ terminate =>
              \E w \in Threads \ C : pc[w] \in BootPcs \cup {"top", "exited"}
  BY DEF IdleInv
<1>2. /\ Alone(t) /\ QuietMove(t) /\ terminate' = terminate
      /\ idle_thread_cnt' = IF pc[t] = "go_idle" THEN idle_thread_cnt + 1
                          ELSE IF pc[t] = "not_idle" THEN idle_thread_cnt - 1
                          ELSE idle_thread_cnt
  BY DEF Calm, callerVars
<1>3. \A u \in Threads \ {t} : pc'[u] = pc[u]
  BY <1>2 DEF Alone
<1>4. IsFiniteSet(C) /\ Cardinality(C) \in Nat
  BY ThreadSet
<1>5. Leads' <=> Leads
  <2>1. pc[t] \notin LeadPcs /\ pc'[t] \notin LeadPcs
    BY <1>2 DEF QuietMove, LeadPcs
  <2>. QED
    BY <1>3, <2>1 DEF Leads
<1>6. \A w \in Threads : pc[w] \in BootPcs \cup {"top", "exited"} /\ terminate =>
          pc'[w] \in BootPcs \cup {"top", "exited"}
  BY <1>2, <1>3 DEF QuietMove, BootPcs
<1>7. CASE pc[t] = "go_idle"
  <2>1. pc'[t] = "wait_trigger"
    BY <1>2, <1>7 DEF QuietMove
  <2>2. t \notin C
    BY <1>1, <1>7 DEF Idle, Exited, IdlePcs
  <2>3. Cardinality(C \cup {t}) = Cardinality(C) + 1
    BY <1>4, <2>2, FS_AddElement
  <2>4. Idle' \subseteq C \cup {t} /\ C \cup {t} \subseteq Idle' \cup Exited'
    BY <1>1, <1>3, <2>1 DEF Idle, Exited, IdlePcs
  <2>5. idle_thread_cnt' = Cardinality(C \cup {t})
    BY <1>1, <1>2, <1>7, <2>3
  <2>6. ~Leads' /\ terminate' =>
              \E w \in Threads \ (C \cup {t}) : pc'[w] \in BootPcs \cup {"top", "exited"}
    BY <1>1, <1>2, <1>5, <1>6, <1>7 DEF BootPcs
  <2>. QED
    BY <2>4, <2>5, <2>6 DEF IdleInv
<1>8. CASE pc[t] = "not_idle"
  <2>1. pc'[t] = "dequeue_again"
    BY <1>2, <1>8 DEF QuietMove
  <2>2. t \in C
    BY <1>1, <1>8 DEF Idle, IdlePcs
  <2>3. Cardinality(C \ {t}) = Cardinality(C) - 1
    BY <1>4, <2>2, FS_RemoveElement
  <2>4. Idle' \subseteq C \ {t} /\ C \ {t} \subseteq Idle' \cup Exited'
    BY <1>1, <1>3, <2>1 DEF Idle, Exited, IdlePcs
  <2>5. idle_thread_cnt' = Cardinality(C \ {t})
    BY <1>1, <1>2, <1>8, <2>3
  <2>6. ~Leads' /\ terminate' =>
              \E w \in Threads \ (C \ {t}) : pc'[w] \in BootPcs \cup {"top", "exited"}
    BY <1>1, <1>2, <1>5, <1>6
  <2>. QED
    BY <2>4, <2>5, <2>6 DEF IdleInv
<1>9. CASE pc[t] \notin {"go_idle", "not_idle"}
  <2>1. idle_thread_cnt' = Cardinality(C)
    BY <1>1, <1>2, <1>9
  <2>2. Idle' \subseteq C /\ C \subseteq Idle' \cup Exited'
    BY <1>1, <1>2, <1>3, <1>9 DEF Idle, Exited, IdlePcs, QuietMove
  <2>3. ~Leads' /\ terminate' =>
              \E w \in Threads \ C : pc'[w] \in BootPcs \cup {"top", "exited"}
    BY <1>1, <1>2, <1>5, <1>6
  <2>. QED
    BY <2>1, <2>2, <2>3 DEF IdleInv
<1>. QED
  BY <1>7, <1>8, <1>9

LEMMA ActiveCallers ==
  ASSUME CallersInv, StageActive
  PROVE  ~terminate /\ gtk_pc = "running" /\ router_pc = "wait" /\ callback_in_progress
BY DEF CallersInv, StageActive

LEMMA CalmStep ==
  ASSUME IInv, NEW t \in Threads, QuietStep(t)
  PROVE  DataInv' /\ CallersInv' /\ StageInv' /\ IdleInv'
<1>1. TypeOK /\ CallersInv /\ DataInv /\ StageInv /\ IdleInv /\ LocalInv
  BY DEF IInv, DataInv
<1>2. Calm(t)
  BY <1>1, QuietStepCalm
<1>3. Alone(t) /\ Kept(t) /\ QuietMove(t)
      /\ UNCHANGED <<graphVars, trigger_queue_size, trigger_queue, callerVars, historyVars>>
  BY <1>2 DEF Calm
<1>4. DataInv' /\ \A n : Pushed(n)' <=> Pushed(n)
  BY <1>1, <1>3, KeptData DEF graphVars, historyVars
<1>5. CallersInv'
  <2>1. \A u \in Threads : pc'[u] = "exited" => terminate
    BY <1>1, <1>3 DEF QuietMove, Alone, CallersInv
  <2>. QED
    BY <1>1, <1>3, <2>1 DEF CallersInv, callerVars
<1>6. StageInv'
  <2>1. ASSUME NEW l \in Threads, StageQuiet(l) PROVE StageQuiet(l)'
    BY <1>1, <1>2, <2>1, CalmQuiet
  <2>2. ASSUME StageActive PROVE StageActive'
    BY <1>1, <1>2, <1>4, <2>2, ActiveCallers, CalmActive
  <2>3. ASSUME StageOver PROVE StageOver'
    BY <1>1, <1>2, <2>3, CalmOver
  <2>. QED
    BY <1>1, <2>1, <2>2, <2>3 DEF StageInv
<1>7. IdleInv'
  BY <1>1, <1>2, CalmIdle
<1>. QED
  BY <1>4, <1>5, <1>6, <1>7

-----------------------------------------------------------------------------
(* Steps of a thread that has a node in its hands.                         *)
WorkStep(t) ==
    \/ (DequeueNode(t) /\ HeadReady(trigger_queue)) \/ ReleaseCell(t)
    \/ CountIdle(t) \/ CountWork(t) \/ PostTrigger(t) \/ AllWoken(t) \/ NodeClaimed(t)
    \/ BeginProcess(t) \/ NotifyChild(t) \/ ResetRefcount(t)
    \/ CountQueued(t) \/ PushClaim(t) \/ PushPublish(t)

Works(t) ==
    /\ Alone(t)
    /\ UNCHANGED <<graph, terminal_refcnt, idle_thread_cnt, callback_start, callback_done,
                   callerVars, finished>>
    /\ \/ /\ pc[t] \in RunPcs \cup TriggerPcs \cup {"publish"}
          /\ pc'[t] \in RunPcs \cup TriggerPcs \cup {"publish", "notify"}
       \/ pc[t] \in {"dequeue", "dequeue_again"} /\ trigger_queue # << >> /\ pc'[t] \in RunPcs
       \/ pc[t] = "notify" /\ todo[t] # << >> /\ pc'[t] \in TriggerPcs \cup {"notify"}
       \/ Booting(t) /\ pc'[t] \in BootPcs /\ started' = started

LEMMA WorkStepWorks ==
  ASSUME TypeOK, DataInv, NEW t \in Threads, WorkStep(t)
  PROVE  Works(t)
<1>1. /\ pc \in [Threads -> Pcs] /\ to_run \in [Threads -> Nodes \cup {NoNode}]
      /\ todo \in [Threads -> Seq(Nodes)] /\ next_init \in [Threads -> Nat]
  BY DEF TypeOK
<1>. USE DEF Goto, graphVars, countVars, semVars, localVars, historyVars
<1>2. CASE DequeueNode(t) /\ HeadReady(trigger_queue)
  <2>1. trigger_queue # << >>
    BY <1>2 DEF HeadReady
  <2>. QED
    BY <1>1, <1>2, <2>1 DEF DequeueNode, Alone, Works, RunPcs
<1>3. CASE ReleaseCell(t)
  BY <1>1, <1>3 DEF ReleaseCell, Alone, Works, RunPcs
<1>4. CASE CountIdle(t)
  BY <1>1, <1>4 DEF CountIdle, Alone, Works, RunPcs
<1>5. CASE CountWork(t)
  BY <1>1, <1>5 DEF CountWork, Alone, Works, RunPcs
<1>6. CASE PostTrigger(t)
  BY <1>1, <1>6 DEF PostTrigger, Alone, Works, RunPcs
<1>7. CASE AllWoken(t)
  BY <1>1, <1>7 DEF AllWoken, Alone, Works, RunPcs
<1>8. CASE NodeClaimed(t)
  BY <1>1, <1>8 DEF NodeClaimed, Alone, Works, RunPcs
<1>9. CASE BeginProcess(t)
  BY <1>1, <1>9 DEF BeginProcess, Alone, Works, RunPcs
<1>10. CASE NotifyChild(t)
  BY <1>1, <1>10 DEF NotifyChild, Alone, Works, TriggerPcs
<1>11. CASE ResetRefcount(t)
  BY <1>1, <1>11 DEF ResetRefcount, Alone, Works, TriggerPcs
<1>12. CASE CountQueued(t)
  BY <1>1, <1>12 DEF CountQueued, Alone, Works, TriggerPcs, BootPcs, Booting, Initials
<1>13. CASE PushClaim(t)
  <2>1. pc[t] \in {"push", "boot_push"}
    BY <1>13 DEF PushClaim
  <2>2. ~Full(trigger_queue, cap)
    BY <2>1, PushRoom
  <2>. QED
    BY <1>1, <1>13, <2>1, <2>2 DEF PushClaim, Alone, Works, TriggerPcs, BootPcs, Booting
<1>14. CASE PushPublish(t)
  <2>1. \/ pc[t] = "publish" /\ pc'[t] = "notify"
        \/ pc[t] = "boot_publish" /\ pc'[t] = "boot"
    BY <1>1, <1>14 DEF PushPublish, NextPush
  <2>2. Alone(t)
    BY <1>1, <1>14 DEF PushPublish, NextPush, Alone
  <2>3. UNCHANGED <<graph, terminal_refcnt, idle_thread_cnt, callback_start, callback_done,
                   callerVars, finished, started>>
    BY <1>14 DEF PushPublish
  <2>. QED
    BY <2>1, <2>2, <2>3 DEF Works, BootPcs, Booting
<1>. QED
  BY <1>2, <1>3, <1>4, <1>5, <1>6, <1>7, <1>8, <1>9, <1>10, <1>11, <1>12, <1>13, <1>14 DEF WorkStep

LEMMA CountKept ==
  ASSUME TypeOK, DataInv, NEW t \in Threads,
         CountIdle(t) \/ CountWork(t) \/ PostTrigger(t) \/ AllWoken(t)
  PROVE  DataInv' /\ \A n : Pushed(n)' <=> Pushed(n)
<1>1. pc \in [Threads -> Pcs]
  BY DEF TypeOK
<1>. USE DEF Goto, graphVars, countVars, semVars, localVars, historyVars, CountedPcs
<1>2. /\ Alone(t) /\ Kept(t)
      /\ UNCHANGED <<graph, refcount, cap, trigger_queue_size, trigger_queue, started, finished>>
  <2>1. CASE CountIdle(t)
    BY <1>1, <2>1 DEF CountIdle, Alone, Kept
  <2>2. CASE CountWork(t)
    BY <1>1, <2>2 DEF CountWork, Alone, Kept
  <2>3. CASE PostTrigger(t)
    BY <1>1, <2>3 DEF PostTrigger, Alone, Kept
  <2>4. CASE AllWoken(t)
    BY <1>1, <2>4 DEF AllWoken, Alone, Kept
  <2>. QED
    BY <2>1, <2>2, <2>3, <2>4
<1>. QED
  BY <1>2, KeptData

LEMMA WorkData ==
  ASSUME TypeOK, DataInv, NEW t \in Threads, WorkStep(t)
  PROVE  /\ DataInv' /\ \A n : Pushed(n) => Pushed(n)'
         /\ \A n : Booting(t) /\ ToBoot(t, n) => Pushed(n)' \/ (Booting(t)' /\ ToBoot(t, n)')
<1>. DEFINE Later == \A n : Booting(t) /\ ToBoot(t, n) => Pushed(n)' \/ (Booting(t)' /\ ToBoot(t, n)')
<1>1. pc \in [Threads -> Pcs] /\ next_init \in [Threads -> Nat]
      /\ Len(Initials) \in Nat /\ DOMAIN Initials = 1..Len(Initials)
  BY QueueTypes, InitialNodes DEF TypeOK, Initials
<1>2. pc[t] \notin BootPcs => Later
  BY DEF Booting, BootPcs
<1>3. CASE DequeueNode(t) /\ HeadReady(trigger_queue)
  BY <1>2, <1>3, TakeData DEF DequeueNode, BootPcs
<1>4. CASE ReleaseCell(t)
  BY <1>2, <1>4, ReleaseData DEF ReleaseCell, BootPcs
<1>5. CASE CountIdle(t) \/ CountWork(t) \/ PostTrigger(t) \/ AllWoken(t)
  BY <1>2, <1>5, CountKept DEF CountIdle, CountWork, PostTrigger, AllWoken, BootPcs
<1>6. CASE NodeClaimed(t)
  BY <1>2, <1>6, ClaimedData DEF NodeClaimed, BootPcs
<1>7. CASE BeginProcess(t)
  BY <1>2, <1>7, BeginData DEF BeginProcess, BootPcs
<1>8. CASE NotifyChild(t)
  BY <1>2, <1>8, NotifyData DEF NotifyChild, BootPcs
<1>9. CASE ResetRefcount(t)
  BY <1>2, <1>9, ResetData DEF ResetRefcount, BootPcs
<1>10. CASE CountQueued(t)
  <2>1. Later
    <3>1. CASE pc[t] = "boot"
      <4>1. pc'[t] = "boot_push" /\ next_init' = next_init /\ Initials' = Initials
        BY <1>1, <1>10, <3>1 DEF CountQueued, Goto, graphVars, localVars, Initials
      <4>2. Booting(t)' /\ \A n : ToBoot(t, n) => ToBoot(t, n)'
        BY <3>1, <4>1 DEF Booting, ToBoot
      <4>. QED
        BY <4>2
    <3>2. CASE pc[t] # "boot"
      BY <1>2, <1>10, <3>2 DEF CountQueued, BootPcs
    <3>. QED
      BY <3>1, <3>2
  <2>. QED
    BY <1>10, <2>1, CountData
<1>11. CASE PushClaim(t)
  <2>1. DataInv' /\ \A n : Pushed(n)' <=> Pushed(n) \/ n = PushNode(t)
    BY <1>11, PushClaimData
  <2>2. Later
    <3>1. CASE pc[t] = "boot_push"
      <4>1. ~Full(trigger_queue, cap)
        BY <3>1, PushRoom
      <4>2. pc'[t] = "boot_publish" /\ next_init' = next_init /\ Initials' = Initials
        BY <1>1, <1>11, <3>1, <4>1 DEF PushClaim, Goto, graphVars, Initials
      <4>3. Booting(t)'
        BY <4>2 DEF Booting
      <4>4. ASSUME NEW n, ToBoot(t, n) PROVE Pushed(n)' \/ ToBoot(t, n)'
        <5>1. PICK i \in DOMAIN Initials : Initials[i] = n /\ i > next_init[t]
          BY <4>4 DEF ToBoot
        <5>2. CASE i = next_init[t] + 1
          BY <2>1, <3>1, <5>1, <5>2 DEF PushNode
        <5>3. CASE i # next_init[t] + 1
          <6>1. i > next_init[t] + 1
            BY <1>1, <5>1, <5>3
          <6>. QED
            BY <4>2, <5>1, <6>1 DEF ToBoot
        <5>. QED
          BY <5>2, <5>3
      <4>. QED
        BY <4>3, <4>4
    <3>2. CASE pc[t] # "boot_push"
      BY <1>2, <1>11, <3>2 DEF PushClaim, BootPcs
    <3>. QED
      BY <3>1, <3>2
  <2>. QED
    BY <2>1, <2>2
<1>12. CASE PushPublish(t)
  <2>1. Later
    <3>1. CASE pc[t] = "boot_publish"
      <4>1. pc'[t] = "boot" /\ next_init'[t] = next_init[t] + 1 /\ Initials' = Initials
        BY <1>1, <1>12, <3>1 DEF PushPublish, NextPush, Goto, graphVars, Initials
      <4>2. ASSUME NEW n, ToBoot(t, n) PROVE Booting(t)' /\ ToBoot(t, n)'
        <5>1. PICK i \in DOMAIN Initials : Initials[i] = n /\ i > next_init[t] + 1
          BY <3>1, <4>2 DEF ToBoot
        <5>2. i > next_init'[t] /\ next_init'[t] < Len(Initials)
          BY <1>1, <4>1, <5>1
        <5>. QED
          BY <4>1, <5>1, <5>2 DEF Booting, ToBoot
      <4>. QED
        BY <4>2
    <3>2. CASE pc[t] # "boot_publish"
      BY <1>2, <1>12, <3>2 DEF PushPublish, BootPcs
    <3>. QED
      BY <3>1, <3>2
  <2>. QED
    BY <1>12, <2>1, PublishData
<1>. QED
  BY <1>3, <1>4, <1>5, <1>6, <1>7, <1>8, <1>9, <1>10, <1>11, <1>12 DEF WorkStep

LEMMA Engaged ==
  ASSUME TypeOK, StageInv, NEW t \in Threads,
         \/ pc[t] \in RunPcs \cup TriggerPcs \cup {"publish", "terminal"}
         \/ pc[t] \in {"dequeue", "dequeue_again"} /\ trigger_queue # << >>
         \/ pc[t] = "notify" /\ todo[t] # << >>
  PROVE  StageActive
<1>1. pc[t] \notin LeadPcs \cup BootPcs
  BY DEF RunPcs, TriggerPcs, LeadPcs, BootPcs
<1>2. Quiet(t) => pc[t] \in {"dequeue", "dequeue_again"} /\ trigger_queue # << >>
  BY DEF RunPcs, TriggerPcs, Quiet, QuietPcs
<1>3. ASSUME NEW l \in Threads, StageQuiet(l) PROVE FALSE
  BY <1>1, <1>2, <1>3 DEF StageQuiet
<1>4. ASSUME StageOver PROVE FALSE
  <2>1. Quiet(t)
    BY <1>1, <1>4 DEF StageOver
  <2>2. pc[t] \in {"dequeue", "dequeue_again"} /\ trigger_queue # << >>
    BY <1>2, <2>1
  <2>3. pc[t] \notin {"wait_trigger", "woken", "exited", "top"}
    BY <2>2
  <2>. QED
    BY <1>1, <1>4, <2>2, <2>3 DEF StageOver
<1>. QED
  BY <1>3, <1>4 DEF StageInv

LEMMA Boots ==
  ASSUME TypeOK, StageInv, NEW t \in Threads, Booting(t)
  PROVE  StageActive \/ StageOver
<1>1. Len(Initials) \in Nat /\ next_init[t] \in Nat
  BY QueueTypes, InitialNodes, ThreadTypes DEF Initials
<1>2. pc[t] \notin LeadPcs /\ ~Quiet(t)
  BY <1>1 DEF Booting, Quiet, QuietPcs, LeadPcs
<1>. QED
  BY <1>2 DEF StageInv, StageQuiet

LEMMA WorkKept ==
  ASSUME IInv, NEW t \in Threads, WorkStep(t)
  PROVE  DataInv' /\ CallersInv' /\ StageInv' /\ IdleInv'
<1>1. TypeOK /\ CallersInv /\ DataInv /\ StageInv /\ IdleInv
  BY DEF IInv
<1>2. Works(t)
  BY <1>1, WorkStepWorks
<1>3. /\ DataInv' /\ \A n : Pushed(n) => Pushed(n)'
      /\ \A n : Booting(t) /\ ToBoot(t, n) => Pushed(n)' \/ (Booting(t)' /\ ToBoot(t, n)')
  BY <1>1, WorkData
<1>4. /\ Alone(t)
      /\ UNCHANGED <<graph, terminal_refcnt, idle_thread_cnt, callback_start, callback_done,
                     callerVars, finished>>
      /\ \A u \in Threads \ {t} : pc'[u] = pc[u]
  BY <1>2 DEF Works, Alone
<1>5. /\ pc[t] \notin LeadPcs \cup IdlePcs \cup {"terminal", "exited", "top", "go_idle"}
      /\ pc'[t] \notin LeadPcs \cup IdlePcs \cup {"terminal", "exited", "top", "go_idle"}
      /\ pc[t] \in BootPcs => pc'[t] \in BootPcs
  BY <1>2 DEF Works, RunPcs, TriggerPcs, BootPcs, LeadPcs, IdlePcs, Booting
<1>6. pc'[t] \in LookPcs
  BY <1>2 DEF Works, RunPcs, TriggerPcs, BootPcs, LeadPcs, IdlePcs, LookPcs, Pcs
<1>7. CallersInv'
  <2>1. \A u \in Threads : pc'[u] = "exited" => terminate
    BY <1>1, <1>4, <1>5 DEF CallersInv
  <2>. QED
    BY <1>1, <1>4, <2>1 DEF CallersInv, callerVars
<1>8. ASSUME StageActive PROVE StageActive'
  <2>1. TerminalCount'
    BY <1>4, <1>5, <1>8, ActiveCounts, TerminalKept
  <2>2. ReadySeen'
    BY <1>6 DEF ReadySeen
  <2>3. router_pc' = router_pc
    BY <1>4 DEF callerVars
  <2>. QED
    BY <1>1, <1>3, <1>4, <1>5, <1>8, <2>1, <2>2, <2>3, ActiveKept
<1>9. ASSUME StageOver, Booting(t), pc'[t] \in BootPcs, started' = started PROVE StageOver'
  <2>1. ~Leads'
    BY <1>4, <1>5, <1>9 DEF Leads, StageOver
  <2>2. terminate' = terminate
    BY <1>4 DEF callerVars
  <2>3. \A u \in Threads : Quiet(u)' \/ pc'[u] \in BootPcs
    <3>1. \A u \in Threads \ {t} : todo'[u] = todo[u] /\ next_init'[u] = next_init[u]
      BY <1>4 DEF Alone
    <3>2. Initials' = Initials
      BY <1>4 DEF Initials
    <3>. QED
      BY <1>4, <1>9, <3>1, <3>2 DEF StageOver, Quiet
  <2>4. /\ started = {}
        /\ \A u \in Threads \ {MainThread} : pc[u] \in {"wait_trigger", "woken", "exited"}
        /\ pc[MainThread] \in BootPcs \cup {"top", "exited"}
    BY <1>9 DEF StageOver
  <2>5. t = MainThread
    BY <1>9, <2>4 DEF Booting
  <2>. QED
    BY <1>4, <1>9, <2>1, <2>2, <2>3, <2>4, <2>5 DEF StageOver
<1>10. StageInv'
  <2>1. CASE Booting(t) /\ pc'[t] \in BootPcs /\ started' = started
    BY <1>1, <1>8, <1>9, <2>1, Boots DEF StageInv
  <2>2. CASE ~(Booting(t) /\ pc'[t] \in BootPcs /\ started' = started)
    <3>1. StageActive
      BY <1>1, <1>2, <2>2, Engaged DEF Works
    <3>. QED
      BY <1>8, <3>1 DEF StageInv
  <2>. QED
    BY <2>1, <2>2
<1>11. IdleInv'
  <2>1. PICK C \in SUBSET Threads :
        /\ Idle \subseteq C /\ C \subseteq Idle \cup Exited
        /\ idle_thread_cnt = Cardinality(C)
        /\ ~Leads /\ terminate =>
              \E w \in Threads \ C : pc[w] \in BootPcs \cup {"top", "exited"}
    BY <1>1 DEF IdleInv
  <2>2. Idle' = Idle /\ Exited' = Exited /\ (Leads' <=> Leads)
    BY <1>4, <1>5 DEF Idle, Exited, Leads
  <2>3. \A w \in Threads : pc[w] \in BootPcs \cup {"top", "exited"} =>
                           pc'[w] \in BootPcs \cup {"top", "exited"}
    BY <1>4, <1>5
  <2>4. terminate' = terminate
    BY <1>4 DEF callerVars
  <2>. QED
    BY <1>4, <2>1, <2>2, <2>3, <2>4 DEF IdleInv
<1>. QED
  BY <1>3, <1>7, <1>10, <1>11

(* A step of a running cycle that touches no idle thread.                  *)
LEMMA ActiveFrame ==
  ASSUME IInv, StageActive, NEW t \in Threads, Alone(t),
         UNCHANGED <<graph, idle_thread_cnt, callerVars>>,
         pc[t] \notin IdlePcs \cup {"exited"}, pc'[t] \notin IdlePcs \cup {"exited"}
  PROVE  CallersInv' /\ IdleInv'
<1>1. CallersInv /\ IdleInv /\ ~terminate /\ terminate' = terminate
  BY ActiveCallers DEF IInv, callerVars
<1>2. \A u \in Threads \ {t} : pc'[u] = pc[u]
  BY DEF Alone
<1>3. CallersInv'
  <2>1. \A u \in Threads : pc'[u] = "exited" => terminate
    BY <1>1, <1>2 DEF CallersInv
  <2>. QED
    BY <1>1, <2>1 DEF CallersInv, callerVars
<1>4. Idle' = Idle /\ Exited' = Exited
  BY <1>2 DEF Idle, Exited
<1>5. IdleInv'
  BY <1>1, <1>4 DEF IdleInv
<1>. QED
  BY <1>3, <1>5

(* A node is done.                                                         *)
LEMMA FinishKept ==
  ASSUME IInv, NEW t \in Threads, FinishProcess(t)
  PROVE  /\ DataInv' /\ CallersInv' /\ StageInv' /\ IdleInv'
         /\ to_run[t] \in started \ finished
<1>1. TypeOK /\ CallersInv /\ DataInv /\ StageInv /\ IdleInv
  BY DEF IInv
<1>2. StageActive
  BY <1>1, Engaged DEF FinishProcess, RunPcs
<1>3. callback_in_progress
  BY <1>1, <1>2, ActiveCallers
<1>4. DataInv' /\ (\A n : Pushed(n)' <=> Pushed(n)) /\ to_run[t] \in started \ finished
  BY <1>1, <1>3, FinishData
<1>5. PICK m : m = to_run[t]
  OBVIOUS
<1>6. /\ pc[t] = "processing" /\ finished' = finished \cup {m}
      /\ pc' = [pc EXCEPT ![t] = IF graph.childnodes[m] = << >> THEN "terminal" ELSE "notify"]
      /\ UNCHANGED <<graph, terminal_refcnt, idle_thread_cnt, callback_start, callback_done,
                     callerVars>>
  BY <1>3, <1>5 DEF FinishProcess, Goto, graphVars, countVars, semVars
<1>7. Alone(t)
  <2>1. /\ pc \in [Threads -> Pcs] /\ to_run \in [Threads -> Nodes \cup {NoNode}]
        /\ todo \in [Threads -> Seq(Nodes)]
    BY <1>1 DEF TypeOK
  <2>2. /\ to_run' = [to_run EXCEPT ![t] = NoNode] /\ next_init' = next_init
        /\ todo' = todo \/ todo' = [todo EXCEPT ![t] = graph.childnodes[to_run[t]]]
    BY <1>3 DEF FinishProcess
  <2>. QED
    BY <1>6, <2>1, <2>2 DEF Alone
<1>8. /\ pc'[t] = IF graph.childnodes[m] = << >> THEN "terminal" ELSE "notify"
      /\ \A u \in Threads \ {t} : pc'[u] = pc[u]
  BY <1>1, <1>6 DEF TypeOK
<1>9. CallersInv' /\ IdleInv'
  BY <1>2, <1>6, <1>7, <1>8, ActiveFrame DEF IdlePcs
<1>. DEFINE T == {n \in graph.nodes \ finished : graph.childnodes[n] = << >>}
            U == {u \in Threads : pc[u] = "terminal"}
            TP == {n \in graph.nodes \ finished' : graph.childnodes[n] = << >>}
            UP == {u \in Threads : pc'[u] = "terminal"}
<1>10. m \in graph.nodes \ finished /\ graph \in Graphs
  BY <1>1, <1>4, <1>5, QueueTypes DEF DataInv, RunInv
<1>11. /\ IsFiniteSet(T) /\ Cardinality(T) \in Nat /\ IsFiniteSet(U) /\ Cardinality(U) \in Nat
  <2>1. T \in SUBSET graph.nodes /\ U \in SUBSET Threads
    OBVIOUS
  <2>. QED
    BY <1>10, <2>1, NodeSet, ThreadSet
<1>12. TerminalCount'
  <2>1. terminal_refcnt >= 1 /\ terminal_refcnt = Cardinality(T) + Cardinality(U)
    BY <1>2 DEF StageActive
  <2>2. CASE graph.childnodes[m] = << >>
    <3>1. TP = T \ {m} /\ m \in T
      BY <1>6, <1>10, <2>2
    <3>2. UP = U \cup {t} /\ t \notin U
      BY <1>6, <1>8, <2>2
    <3>. HIDE DEF T, U, TP, UP
    <3>3. Cardinality(TP) = Cardinality(T) - 1
      BY <1>11, <3>1, FS_RemoveElement
    <3>4. Cardinality(UP) = Cardinality(U) + 1
      BY <1>11, <3>2, FS_AddElement
    <3>5. terminal_refcnt = Cardinality(TP) + Cardinality(UP)
      BY <1>11, <2>1, <3>3, <3>4
    <3>. QED
      BY <1>6, <2>1, <3>5 DEF TerminalCount, TP, UP
  <2>3. CASE graph.childnodes[m] # << >>
    <3>1. TP = T
      BY <1>6, <2>3
    <3>2. UP = U
      BY <1>6, <1>8, <2>3
    <3>3. Cardinality(TP) = Cardinality(T) /\ Cardinality(UP) = Cardinality(U)
      BY <3>1, <3>2
    <3>4. terminal_refcnt = Cardinality(TP) + Cardinality(UP)
      BY <2>1, <3>3
    <3>. QED
      BY <1>6, <2>1, <3>4 DEF TerminalCount
  <2>. QED
    BY <2>2, <2>3
<1>13. StageActive'
  <2>1. pc'[t] \in LookPcs /\ pc'[t] \notin LeadPcs
    BY <1>8 DEF LookPcs, LeadPcs, Pcs, IdlePcs
  <2>2. ReadySeen'
    BY <2>1 DEF ReadySeen
  <2>3. ~Booting(t)
    BY <1>6 DEF Booting
  <2>4. router_pc' = router_pc
    BY <1>6 DEF callerVars
  <2>. QED
    BY <1>1, <1>2, <1>4, <1>6, <1>7, <1>12, <2>1, <2>2, <2>3, <2>4, ActiveKept
<1>. QED
  BY <1>4, <1>9, <1>13 DEF StageInv

-----------------------------------------------------------------------------
(* The end of a cycle.                                                     *)

(* Connections close no cycle: among some nodes there is one that feeds    *)
(* none of the others, and one that none of the others feeds.              *)
LEMMA LastNode ==
  ASSUME NEW g \in Graphs, NEW S \in SUBSET g.nodes, S # {}
  PROVE  \E n \in S : Children(g, n) \cap S = {}
<1>1. PICK rank \in [g.nodes -> 0 .. Cardinality(g.nodes)] :
         \A n \in g.nodes : \A c \in Children(g, n) : rank[c] < rank[n]
  BY GraphsAssumption DEF IsValid
<1>2. Cardinality(g.nodes) \in Nat
  BY NodeSet
<1>. DEFINE R == {rank[n] : n \in S}
<1>3. R \in SUBSET Nat /\ R # {}
  BY <1>1, <1>2
<1>. HIDE DEF R
<1>4. PICK r \in R : \A k \in R : ~(k < r)
  BY <1>3, NatMinimum
<1>5. PICK n \in S : rank[n] = r
  BY <1>4 DEF R
<1>6. ASSUME NEW c \in Children(g, n), c \in S PROVE FALSE
  BY <1>1, <1>4, <1>5, <1>6 DEF R
<1>. QED
  BY <1>5, <1>6

LEMMA FirstNode ==
  ASSUME NEW g \in Graphs, NEW S \in SUBSET g.nodes, S # {}
  PROVE  \E n \in S : Parents(g, n) \cap S = {}
<1>1. PICK rank \in [g.nodes -> 0 .. Cardinality(g.nodes)] :
         \A n \in g.nodes : \A c \in Children(g, n) : rank[c] < rank[n]
  BY GraphsAssumption DEF IsValid
<1>2. Cardinality(g.nodes) \in Nat
  BY NodeSet
<1>. DEFINE R == {Cardinality(g.nodes) - rank[n] : n \in S}
<1>3. R \in SUBSET Nat /\ R # {}
  BY <1>1, <1>2
<1>. HIDE DEF R
<1>4. PICK r \in R : \A k \in R : ~(k < r)
  BY <1>3, NatMinimum
<1>5. PICK n \in S : Cardinality(g.nodes) - rank[n] = r
  BY <1>4 DEF R
<1>6. ASSUME NEW m \in Parents(g, n), m \in S PROVE FALSE
  <2>1. m \in g.nodes /\ n \in Children(g, m) /\ n \in g.nodes
    BY <1>6 DEF Parents
  <2>2. rank[n] < rank[m] /\ rank[n] \in Nat /\ rank[m] \in Nat
    BY <1>1, <1>2, <2>1
  <2>3. Cardinality(g.nodes) - rank[m] \in R
    BY <1>6 DEF R
  <2>4. Cardinality(g.nodes) - rank[m] < Cardinality(g.nodes) - rank[n]
    BY <1>2, <2>2
  <2>. QED
    BY <1>4, <1>5, <2>3, <2>4
<1>. QED
  BY <1>5, <1>6

LEMMA ChildOf ==
  ASSUME NEW g \in Graphs, NEW n \in g.nodes, g.childnodes[n] # << >>
  PROVE  Children(g, n) # {}
<1>1. g.childnodes[n] \in Seq(Nodes)
  BY GraphFacts
<1>2. PICK s \in Seq(Nodes) : s = g.childnodes[n]
  BY <1>1
<1>3. 1 \in DOMAIN s
  BY <1>2, EmptySeq, LenProperties
<1>4. s[1] \in ToSet(s)
  BY <1>3 DEF ToSet
<1>. QED
  BY <1>2, <1>4 DEF Children

LEMMA SomeTerminal ==
  ASSUME NEW g \in Graphs
  PROVE  NumTerminal(g) \in Nat /\ NumTerminal(g) >= 1
<1>. DEFINE T == {n \in g.nodes : g.childnodes[n] = << >>}
<1>1. g.nodes # {} /\ \A n \in g.nodes : Children(g, n) \subseteq g.nodes
  BY GraphFacts
<1>2. PICK n \in g.nodes : Children(g, n) \cap g.nodes = {}
  BY <1>1, LastNode
<1>3. n \in T
  BY <1>1, <1>2, ChildOf
<1>4. T \in SUBSET g.nodes
  OBVIOUS
<1>. HIDE DEF T
<1>5. Cardinality(T) \in Nat /\ Cardinality(T) # 0
  BY <1>3, <1>4, NodeSet
<1>. QED
  BY <1>5 DEF NumTerminal, T

(* Once all terminal nodes are done, every node is.                        *)
LEMMA AllDone ==
  ASSUME TypeOK, DataInv, \A n \in graph.nodes \ finished : graph.childnodes[n] # << >>
  PROVE  finished = graph.nodes /\ started = graph.nodes
<1>1. graph \in Graphs /\ finished \subseteq started /\ started \subseteq graph.nodes
  BY QueueTypes DEF DataInv, RunInv
<1>2. ASSUME graph.nodes \ finished # {} PROVE FALSE
  <2>1. PICK n \in graph.nodes \ finished : Children(graph, n) \cap (graph.nodes \ finished) = {}
    BY <1>1, <1>2, LastNode
  <2>2. PICK c \in Children(graph, n) : TRUE
    BY <1>1, <2>1, ChildOf
  <2>3. c \in graph.nodes /\ c \in finished
    BY <1>1, <2>1, <2>2, GraphFacts
  <2>4. n \in Missing(c)
    BY <2>1, <2>2 DEF Missing, Parents
  <2>5. ~Pushed(c)
    BY <2>3, <2>4 DEF DataInv, RefcountInv
  <2>. QED
    BY <1>1, <2>3, <2>5 DEF Pushed
<1>. QED
  BY <1>1, <1>2

(* Then nobody has a node in hand.                                         *)
LEMMA AllQuiet ==
  ASSUME TypeOK, DataInv, started = graph.nodes, finished = graph.nodes
  PROVE  /\ trigger_queue = << >>
         /\ \A u \in Threads : Quiet(u) \/ pc[u] \in LeadPcs \cup {"terminal"}
<1>1. \A n \in graph.nodes : Pushed(n)
  BY DEF Pushed
<1>2. \A u \in Threads : pc[u] \notin RunPcs
  BY DEF DataInv, RunInv
<1>3. \A i \in DOMAIN trigger_queue : trigger_queue[i].st = "free"
  <2>1. ASSUME NEW i \in DOMAIN trigger_queue PROVE trigger_queue[i].st = "free"
    <3>1. SlotOK(trigger_queue[i]) /\ trigger_queue[i].st \in SlotStates
      BY QueueTypes DEF DataInv, SlotsInv
    <3>2. trigger_queue[i].st # "reading"
      BY <1>2, <3>1 DEF SlotOK, ReleasePcs, RunPcs
    <3>. QED
      BY <3>1, <3>2 DEF SlotOK, SlotStates
  <2>. QED
    BY <2>1
<1>4. trigger_queue = << >>
  <2>1. trigger_queue \in Seq(Slot(Threads, Nodes))
    BY QueueTypes
  <2>2. trigger_queue # << >> => 1 \in DOMAIN trigger_queue
    BY <2>1, EmptySeq, LenProperties
  <2>. QED
    BY <1>3, <2>2 DEF DataInv, SlotsInv
<1>5. ASSUME NEW u \in Threads PROVE Quiet(u) \/ pc[u] \in LeadPcs \cup {"terminal"}
  <2>1. pc[u] \in Pcs /\ todo[u] \in Seq(Nodes)
    BY ThreadTypes
  <2>2. pc[u] \notin PublishPcs
    BY <1>4 DEF DataInv, SlotsInv
  <2>3. pc[u] \notin TriggerPcs
    <3>1. PICK n : n = Head(todo[u])
      OBVIOUS
    <3>. QED
      BY <1>1, <3>1, TriggerNode
  <2>4. pc[u] = "notify" => todo[u] = << >>
    <3>1. ASSUME pc[u] = "notify", todo[u] # << >> PROVE FALSE
      <4>1. Local(u)
        BY DEF DataInv, LocalInv
      <4>2. PICK n : n = Head(todo[u])
        OBVIOUS
      <4>3. n \in ToSet(todo[u])
        BY <2>1, <3>1, <4>1, <4>2, TodoTail DEF Local
      <4>4. n \in graph.nodes /\ u \in Owing(n)
        BY <3>1, <4>1, <4>3 DEF Local, Owing, Owes
      <4>5. ~Pushed(n)
        BY <4>4 DEF DataInv, RefcountInv
      <4>. QED
        BY <1>1, <4>4, <4>5
    <3>. QED
      BY <3>1
  <2>5. ~(pc[u] = "boot" /\ next_init[u] < Len(Initials)) /\ pc[u] # "boot_push"
    <3>1. PICK n : n = Initials[next_init[u] + 1]
      OBVIOUS
    <3>. QED
      BY <1>1, <3>1, BootNode
  <2>6. Len(Initials) \in Nat /\ next_init[u] \in Nat
    BY QueueTypes, InitialNodes, ThreadTypes DEF Initials
  <2>7. pc[u] = "boot" => next_init[u] >= Len(Initials)
    BY <2>5, <2>6
  <2>. QED
    BY <1>2, <2>1, <2>2, <2>3, <2>4, <2>5, <2>7
       DEF Pcs, RunPcs, PublishPcs, TriggerPcs, Quiet, QuietPcs, LeadPcs
<1>. QED
  BY <1>4, <1>5

(* A terminal node is counted; the last one ends the cycle.                *)
LEMMA ReachKept ==
  ASSUME IInv, NEW t \in Threads, ReachTerminal(t)
  PROVE  DataInv' /\ CallersInv' /\ StageInv' /\ IdleInv' /\ terminal_refcnt >= 1
<1>1. TypeOK /\ CallersInv /\ DataInv /\ StageInv /\ IdleInv
  BY DEF IInv
<1>2. StageActive
  BY <1>1, Engaged DEF ReachTerminal
<1>3. TerminalCount /\ ReadySeen
  BY <1>2, ActiveCounts
<1>4. /\ pc \in [Threads -> Pcs] /\ pc[t] = "terminal" /\ terminal_refcnt \in Nat
      /\ pc' = [pc EXCEPT ![t] = IF terminal_refcnt = 1 THEN "cycle_done" ELSE "top"]
      /\ terminal_refcnt' = terminal_refcnt - 1
      /\ UNCHANGED <<graph, refcount, cap, trigger_queue_size, idle_thread_cnt, trigger_queue,
                     trigger, callback_start, callback_done, to_run, todo, next_init, callerVars,
                     started, finished>>
  BY <1>1 DEF ReachTerminal, Goto, TypeOK, countVars, semVars, localVars, historyVars
<1>5. /\ Alone(t) /\ pc'[t] = IF terminal_refcnt = 1 THEN "cycle_done" ELSE "top"
      /\ \A u \in Threads \ {t} : pc'[u] = pc[u]
  BY <1>4 DEF Alone
<1>6. Kept(t)
  <2>1. next_init[t] = 0
    BY <1>1, <1>4 DEF DataInv, LocalInv, Local, BootPcs
  <2>. QED
    BY <1>4, <1>5, <2>1 DEF Kept, Idles, NeutralPcs, QuietPcs, LeadPcs
<1>7. DataInv' /\ \A n : Pushed(n)' <=> Pushed(n)
  BY <1>1, <1>4, <1>5, <1>6, KeptData
<1>8. CallersInv' /\ IdleInv'
  BY <1>2, <1>4, <1>5, ActiveFrame DEF IdlePcs
<1>. DEFINE T == {n \in graph.nodes \ finished : graph.childnodes[n] = << >>}
            U == {u \in Threads : pc[u] = "terminal"}
            UP == {u \in Threads : pc'[u] = "terminal"}
<1>9. IsFiniteSet(U) /\ Cardinality(U) \in Nat /\ Cardinality(T) \in Nat
      /\ (Cardinality(T) = 0 <=> T = {}) /\ IsFiniteSet(UP) /\ Cardinality(UP) \in Nat
      /\ (Cardinality(UP) = 0 <=> UP = {})
  <2>1. T \in SUBSET graph.nodes /\ U \in SUBSET Threads /\ UP \in SUBSET Threads
    OBVIOUS
  <2>2. graph \in Graphs
    BY <1>1, QueueTypes
  <2>. QED
    BY <2>1, <2>2, NodeSet, ThreadSet
<1>10. terminal_refcnt = Cardinality(T) + Cardinality(U) /\ terminal_refcnt >= 1
  BY <1>3 DEF TerminalCount
<1>11. UP = U \ {t} /\ t \in U
  BY <1>4, <1>5
<1>12. Cardinality(UP) = Cardinality(U) - 1
  <2>. HIDE DEF U, UP
  <2>. QED
    BY <1>9, <1>11, FS_RemoveElement
<1>13. CASE terminal_refcnt # 1
  <2>1. TerminalCount'
    <3>1. terminal_refcnt' = Cardinality(T) + Cardinality(UP) /\ terminal_refcnt' >= 1
      BY <1>4, <1>9, <1>10, <1>12, <1>13
    <3>. QED
      BY <1>4, <3>1 DEF TerminalCount
  <2>2. pc'[t] = "top"
    BY <1>5, <1>13
  <2>3. pc'[t] \in LookPcs /\ pc'[t] \notin LeadPcs
    BY <2>2 DEF LookPcs, LeadPcs, Pcs, IdlePcs
  <2>4. ReadySeen'
    BY <2>3 DEF ReadySeen
  <2>5. ~Booting(t)
    BY <1>4 DEF Booting
  <2>6. router_pc' = router_pc
    BY <1>4 DEF callerVars
  <2>7. StageActive'
    BY <1>1, <1>2, <1>4, <1>5, <1>7, <2>1, <2>3, <2>4, <2>5, <2>6, ActiveKept
  <2>. QED
    BY <1>7, <1>8, <1>10, <2>7 DEF StageInv
<1>14. CASE terminal_refcnt = 1
  <2>1. T = {} /\ UP = {}
    BY <1>9, <1>10, <1>12, <1>14
  <2>2. finished = graph.nodes /\ started = graph.nodes
    BY <1>1, <2>1, AllDone
  <2>3. trigger_queue = << >> /\ \A u \in Threads : Quiet(u) \/ pc[u] \in LeadPcs \cup {"terminal"}
    BY <1>1, <2>2, AllQuiet
  <2>4. \A u \in Threads \ {t} : Quiet(u)'
    <3>1. \A u \in Threads \ {t} : Quiet(u)
      <4>1. \A u \in Threads : pc[u] \notin LeadPcs
        BY <1>2 DEF StageActive, Leads
      <4>2. \A u \in Threads \ {t} : pc[u] # "terminal"
        BY <1>5, <2>1
      <4>. QED
        BY <2>3, <4>1, <4>2
    <3>2. Initials' = Initials
      BY <1>4 DEF Initials
    <3>. QED
      BY <1>4, <1>5, <3>1, <3>2 DEF Quiet
  <2>5. pc'[t] = "cycle_done"
    BY <1>5, <1>14
  <2>6. router_pc = "wait" /\ callback_start = 0 /\ callback_done = 0 /\ router_pc' = router_pc
    BY <1>2, <1>4 DEF StageActive, callerVars
  <2>7. StageQuiet(t)'
    BY <1>4, <2>2, <2>3, <2>4, <2>5, <2>6 DEF StageQuiet, LeadPcs
  <2>. QED
    BY <1>7, <1>8, <1>10, <2>7 DEF StageInv
<1>. QED
  BY <1>13, <1>14

-----------------------------------------------------------------------------
(* The thread that ends a cycle and starts the next.                       *)
LEMMA QuietRests ==
  ASSUME TypeOK, NEW l \in Threads, StageQuiet(l)
  PROVE  /\ Rests /\ started \in {{}, graph.nodes} /\ pc[l] \in LeadPcs
         /\ \A u \in Threads \ {l} : pc[u] \notin LeadPcs
<1>1. \A u \in Threads \ {l} : Quiet(u) => Idles(u) /\ pc[u] \notin LeadPcs
  BY DEF Quiet, Idles, NeutralPcs, QuietPcs, LeadPcs
<1>2. pc[l] \in LeadPcs => Idles(l)
  BY DEF Idles, NeutralPcs
<1>. QED
  BY <1>1, <1>2 DEF StageQuiet, Rests

LEMMA OneLeader ==
  ASSUME TypeOK, StageInv, NEW t \in Threads, pc[t] \in LeadPcs
  PROVE  StageQuiet(t)
<1>1. ~StageActive /\ ~StageOver
  BY DEF StageActive, StageOver, Leads
<1>2. PICK l \in Threads : StageQuiet(l)
  BY <1>1 DEF StageInv
<1>3. l = t
  BY <1>2, QuietRests
<1>. QED
  BY <1>2, <1>3

LeadStep(t) ==
    \/ PostCallbackDone(t) \/ OthersIdle(t) \/ CycleOver(t)
    \/ WaitCallbackStart(t) \/ NextCycle(t) \/ ResetTerminal(t) \/ WorkersActive(t)

LeadMove(t) ==
    \/ pc[t] = "cycle_done" /\ pc'[t] = "await_idle" /\ callback_done' = callback_done + 1
       /\ callback_start' = callback_start
    \/ pc[t] = "await_idle" /\ pc'[t] = "cycle_over"
       /\ UNCHANGED <<callback_start, callback_done>>
    \/ pc[t] = "cycle_over" /\ pc'[t] = (IF terminate THEN "top" ELSE "wait_callback")
       /\ UNCHANGED <<callback_start, callback_done>>
    \/ /\ pc[t] = "wait_callback" /\ pc'[t] = "next_cycle"
       /\ callback_start > 0 /\ callback_start' = callback_start - 1 /\ callback_done' = callback_done
    \/ /\ pc[t] = "first_callback" /\ pc'[t] = "boot"
       /\ callback_start > 0 /\ callback_start' = callback_start - 1 /\ callback_done' = callback_done
    \/ pc[t] = "next_cycle" /\ pc'[t] = (IF terminate THEN "top" ELSE "reset_terminal")
       /\ UNCHANGED <<callback_start, callback_done>>
    \/ pc[t] = "reset_terminal" /\ pc'[t] = "boot"
       /\ UNCHANGED <<callback_start, callback_done>>
    \/ pc[t] = "await_workers" /\ pc'[t] = "first_callback" /\ idle_thread_cnt = num_threads
       /\ UNCHANGED <<callback_start, callback_done>>

LEMMA LeadStepMove ==
  ASSUME TypeOK, NEW t \in Threads, LeadStep(t)
  PROVE  /\ LeadMove(t) /\ Alone(t) /\ pc[t] \in LeadPcs /\ pc' = [pc EXCEPT ![t] = pc'[t]]
         /\ UNCHANGED <<graph, refcount, cap, overtaken, countVars, trigger_queue, trigger, to_run, todo,
                        next_init, callerVars, historyVars>>
         /\ terminal_refcnt' = IF pc[t] = "reset_terminal" THEN NumTerminal(graph) ELSE terminal_refcnt
<1>1. pc \in [Threads -> Pcs]
  BY DEF TypeOK
<1>. USE DEF Goto, graphVars, semVars, localVars, LeadMove, Alone, LeadPcs
<1>2. CASE PostCallbackDone(t)
  BY <1>1, <1>2 DEF PostCallbackDone
<1>3. CASE OthersIdle(t)
  BY <1>1, <1>3 DEF OthersIdle
<1>4. CASE CycleOver(t)
  BY <1>1, <1>4 DEF CycleOver
<1>5. CASE WaitCallbackStart(t)
  BY <1>1, <1>5 DEF WaitCallbackStart
<1>6. CASE NextCycle(t)
  BY <1>1, <1>6 DEF NextCycle
<1>7. CASE ResetTerminal(t)
  BY <1>1, <1>7 DEF ResetTerminal
<1>8. CASE WorkersActive(t)
  BY <1>1, <1>8 DEF WorkersActive
<1>. QED
  BY <1>2, <1>3, <1>4, <1>5, <1>6, <1>7, <1>8 DEF LeadStep

(* When num_threads threads are idle, all but the one that counts are.     *)
LEMMA AllOthersIdle ==
  ASSUME TypeOK, IdleInv, idle_thread_cnt = num_threads, NEW t \in Threads,
         pc[t] \notin IdlePcs \cup {"exited"}
  PROVE  \A u \in Threads \ {t} : pc[u] \in IdlePcs \cup {"exited"}
<1>1. PICK C \in SUBSET Threads : /\ Idle \subseteq C /\ C \subseteq Idle \cup Exited
                                  /\ idle_thread_cnt = Cardinality(C)
  BY DEF IdleInv
<1>2. C \subseteq Threads \ {t}
  BY <1>1 DEF Idle, Exited
<1>3. IsFiniteSet(Threads \ {t}) /\ Cardinality(Threads \ {t}) = Cardinality(Threads) - 1
  <2>1. IsFiniteSet(Threads)
    BY ThreadsFinite
  <2>. QED
    BY <2>1, FS_RemoveElement
<1>4. Cardinality(Threads) = num_threads + 1 /\ Cardinality(Threads) \in Nat /\ num_threads \in Nat
  <2>1. IsFiniteSet(Workers)
    BY ThreadsAssumption
  <2>. QED
    BY <2>1, ThreadsFinite, FS_CardinalityType DEF num_threads
<1>5. Cardinality(C) = Cardinality(Threads \ {t})
  <2>1. Cardinality(C) = num_threads
    BY <1>1
  <2>2. Cardinality(Threads \ {t}) = (num_threads + 1) - 1
    BY <1>3, <1>4
  <2>. QED
    BY <1>4, <2>1, <2>2
<1>6. C = Threads \ {t}
  BY <1>2, <1>3, <1>5, FS_Subset
<1>. QED
  BY <1>1, <1>6 DEF Idle, Exited

LEMMA LeadIdle ==
  ASSUME TypeOK, CallersInv, IdleInv, NEW t \in Threads, Alone(t), pc[t] \in LeadPcs,
         pc'[t] \in LeadPcs \cup {"boot", "top"}, UNCHANGED <<idle_thread_cnt, callerVars>>
  PROVE  CallersInv' /\ IdleInv'
<1>1. PICK C \in SUBSET Threads : /\ Idle \subseteq C /\ C \subseteq Idle \cup Exited
                                  /\ idle_thread_cnt = Cardinality(C)
  BY DEF IdleInv
<1>2. \A u \in Threads \ {t} : pc'[u] = pc[u]
  BY DEF Alone
<1>3. Idle' = Idle /\ Exited' = Exited /\ t \notin C
  BY <1>1, <1>2 DEF Idle, Exited, LeadPcs, IdlePcs
<1>4. ~Leads' => pc'[t] \in {"boot", "top"}
  BY DEF Leads
<1>5. IdleInv'
  BY <1>1, <1>3, <1>4 DEF IdleInv, BootPcs
<1>6. CallersInv'
  <2>1. \A u \in Threads : pc'[u] = "exited" => terminate
    BY <1>2 DEF CallersInv, LeadPcs
  <2>. QED
    BY <2>1 DEF CallersInv, callerVars
<1>. QED
  BY <1>5, <1>6

LEMMA LeadStays ==
  ASSUME IInv, NEW t \in Threads, LeadStep(t), pc'[t] \in LeadPcs
  PROVE  DataInv' /\ StageInv'
<1>1. TypeOK /\ CallersInv /\ DataInv /\ IdleInv /\ StageInv
  BY DEF IInv
<1>2. /\ LeadMove(t) /\ Alone(t) /\ pc[t] \in LeadPcs
      /\ UNCHANGED <<graph, refcount, cap, countVars, trigger_queue, trigger, to_run, todo,
                     next_init, callerVars, historyVars>>
      /\ terminal_refcnt' = IF pc[t] = "reset_terminal" THEN NumTerminal(graph) ELSE terminal_refcnt
  BY <1>1, LeadStepMove
<1>3. StageQuiet(t)
  BY <1>1, <1>2, OneLeader
<1>4. /\ UNCHANGED <<graph, refcount, cap, trigger_queue_size, trigger_queue, started, finished, to_run,
                     todo, next_init, router_pc, terminate, idle_thread_cnt, trigger>>
      /\ \A u \in Threads \ {t} : pc'[u] = pc[u]
  BY <1>2 DEF countVars, historyVars, callerVars, Alone
<1>5. DataInv'
  <2>1. next_init[t] = 0
    BY <1>1, <1>2 DEF DataInv, LocalInv, Local, BootPcs, LeadPcs
  <2>2. Kept(t)
    BY <1>2, <1>4, <2>1 DEF Kept, Idles, NeutralPcs
  <2>. QED
    BY <1>1, <1>2, <1>4, <2>2, KeptData
<1>6. \A u \in Threads \ {t} : Quiet(u)'
  <2>1. Initials' = Initials
    BY <1>4 DEF Initials
  <2>. QED
    BY <1>3, <1>4, <2>1 DEF StageQuiet, Quiet
<1>7. pc'[t] \in {"await_workers", "first_callback"} =>
        /\ t = MainThread /\ started = {} /\ terminal_refcnt' = NumTerminal(graph)
        /\ terminate \/ trigger = 0
        /\ \A u \in Threads \ {t} :
              /\ pc[u] \in {"top", "dequeue", "go_idle", "wait_trigger", "woken", "exited"}
              /\ pc[u] \in {"woken", "exited"} => terminate
              /\ pc'[t] = "first_callback" => pc[u] \in {"wait_trigger", "woken", "exited"}
  <2>1. SUFFICES ASSUME pc'[t] \in {"await_workers", "first_callback"}
                 PROVE  /\ t = MainThread /\ started = {} /\ terminal_refcnt' = NumTerminal(graph)
                        /\ terminate \/ trigger = 0
                        /\ \A u \in Threads \ {t} :
                              /\ pc[u] \in {"top", "dequeue", "go_idle", "wait_trigger", "woken", "exited"}
                              /\ pc[u] \in {"woken", "exited"} => terminate
                              /\ pc'[t] = "first_callback" => pc[u] \in {"wait_trigger", "woken", "exited"}
    OBVIOUS
  <2>2. pc[t] = "await_workers" /\ idle_thread_cnt = num_threads
    BY <1>2, <2>1 DEF LeadMove
  <2>3. \A u \in Threads \ {t} : pc[u] \in IdlePcs \cup {"exited"}
    BY <1>1, <2>2, AllOthersIdle DEF IdlePcs
  <2>4. /\ t = MainThread /\ started = {} /\ terminal_refcnt = NumTerminal(graph)
        /\ terminate \/ trigger = 0
        /\ \A u \in Threads \ {t} :
              /\ pc[u] \in {"top", "dequeue", "go_idle", "wait_trigger", "woken", "exited"}
              /\ pc[u] \in {"woken", "exited"} => terminate
    BY <1>3, <2>2 DEF StageQuiet
  <2>. QED
    BY <1>2, <2>2, <2>3, <2>4 DEF IdlePcs
<1>8. /\ trigger_queue' = << >> /\ started' = finished' /\ started' \in {{}, graph'.nodes}
  BY <1>3, <1>4 DEF StageQuiet
<1>9. callback_start \in Nat /\ callback_done \in Nat
  BY <1>1 DEF TypeOK
<1>. DEFINE Turn ==
       \/ /\ router_pc = "rest" /\ callback_done = 0 /\ (callback_start > 0 => terminate)
          /\ pc[t] \notin {"cycle_done", "reset_terminal"} /\ (pc[t] = "next_cycle" => terminate)
       \/ /\ router_pc = "post" /\ callback_start = 0 /\ callback_done = 0 /\ started = {}
          /\ pc[t] \notin {"cycle_done", "reset_terminal", "next_cycle"}
       \/ /\ router_pc = "wait" /\ callback_start = 1 /\ callback_done = 0 /\ started = {}
          /\ pc[t] \notin {"cycle_done", "reset_terminal", "next_cycle"}
       \/ /\ router_pc = "wait" /\ callback_start = 0 /\ callback_done = 0 /\ started = {}
          /\ pc[t] \in {"reset_terminal", "next_cycle"}
       \/ /\ router_pc = "wait" /\ callback_start = 0 /\ callback_done = 0
          /\ started = graph.nodes /\ pc[t] = "cycle_done"
       \/ /\ router_pc = "wait" /\ callback_start = 0 /\ callback_done = 1
          /\ started = graph.nodes /\ pc[t] \in {"await_idle", "cycle_over", "wait_callback"}
       \/ /\ router_pc = "clear" /\ callback_start = 0 /\ callback_done = 0
          /\ started = graph.nodes /\ pc[t] \in {"await_idle", "cycle_over", "wait_callback"}
<1>10. Turn
  BY <1>3 DEF StageQuiet
<1>11. terminate = (gtk_pc \notin {"starting", "running"}) /\ (router_pc # "rest" => gtk_pc = "running")
       /\ graph.nodes # {}
  BY <1>1, GraphFacts, QueueTypes DEF CallersInv
<1>12. router_pc # "rest" => terminate = FALSE
  BY <1>11
<1>13. Turn'
  <2>1. CASE pc[t] = "cycle_done" /\ pc'[t] = "await_idle" /\ callback_done' = callback_done + 1
             /\ callback_start' = callback_start
    BY <1>4, <1>9, <1>10, <2>1
  <2>2. CASE pc[t] = "await_idle" /\ pc'[t] = "cycle_over"
             /\ UNCHANGED <<callback_start, callback_done>>
    BY <1>4, <1>9, <1>10, <2>2
  <2>3. CASE pc[t] = "cycle_over" /\ pc'[t] = "wait_callback"
             /\ UNCHANGED <<callback_start, callback_done>>
    BY <1>4, <1>9, <1>10, <2>3
  <2>4. CASE /\ pc[t] = "wait_callback" /\ pc'[t] = "next_cycle"
             /\ callback_start > 0 /\ callback_start' = callback_start - 1 /\ callback_done' = callback_done
    BY <1>4, <1>9, <1>10, <2>4
  <2>5. CASE pc[t] = "next_cycle" /\ pc'[t] = "reset_terminal" /\ ~terminate
             /\ UNCHANGED <<callback_start, callback_done>>
    BY <1>4, <1>9, <1>10, <2>5
  <2>6. CASE pc[t] = "await_workers" /\ pc'[t] = "first_callback"
             /\ UNCHANGED <<callback_start, callback_done>>
    BY <1>4, <1>9, <1>10, <2>6
  <2>. HIDE DEF Turn
  <2>7. pc'[t] \notin {"top", "boot"}
    BY DEF LeadPcs
  <2>. QED
    BY <1>2, <2>1, <2>2, <2>3, <2>4, <2>5, <2>6, <2>7 DEF LeadMove
<1>14. StageQuiet(t)'
  BY <1>4, <1>6, <1>7, <1>8, <1>13 DEF StageQuiet
<1>. QED
  BY <1>5, <1>14 DEF StageInv

LEMMA BootActive ==
  ASSUME TypeOK, DataInv, NEW t \in Threads, StageQuiet(t), Alone(t), pc'[t] = "boot",
         UNCHANGED <<graph, trigger_queue, started, finished, next_init>>, started = {},
         router_pc' = "wait", callback_start' = 0, callback_done' = 0,
         terminal_refcnt' = NumTerminal(graph)
  PROVE  StageActive'
<1>1. graph \in Graphs /\ Initials' = Initials /\ DOMAIN Initials = 1..Len(Initials)
      /\ Len(Initials) \in Nat
  BY QueueTypes, InitialNodes DEF Initials
<1>2. \A u \in Threads \ {t} : pc'[u] = pc[u]
  BY DEF Alone
<1>3. pc[t] \in LeadPcs /\ \A u \in Threads \ {t} : Quiet(u)
  BY DEF StageQuiet
<1>4. \A u \in Threads : pc'[u] \notin LeadPcs \cup {"terminal"}
  BY <1>2, <1>3 DEF Quiet, QuietPcs, LeadPcs
<1>5. ~Leads'
  BY <1>4 DEF Leads
<1>6. next_init[t] = 0
  BY <1>3 DEF DataInv, LocalInv, Local, BootPcs, LeadPcs
<1>7. finished = {} /\ trigger_queue = << >>
  BY DEF StageQuiet
<1>8. /\ terminal_refcnt' >= 1
      /\ terminal_refcnt' = Cardinality({n \in graph'.nodes \ finished' : graph'.childnodes[n] = << >>})
                            + Cardinality({u \in Threads : pc'[u] = "terminal"})
  <2>1. {u \in Threads : pc'[u] = "terminal"} = {}
    BY <1>4
  <2>2. Cardinality({u \in Threads : pc'[u] = "terminal"}) = 0
    BY <2>1, FS_EmptySet
  <2>3. {n \in graph'.nodes \ finished' : graph'.childnodes[n] = << >>}
        = {n \in graph.nodes : graph.childnodes[n] = << >>}
    BY <1>7
  <2>4. Cardinality({n \in graph'.nodes \ finished' : graph'.childnodes[n] = << >>}) = NumTerminal(graph)
    BY <2>3 DEF NumTerminal
  <2>5. NumTerminal(graph) \in Nat /\ NumTerminal(graph) >= 1
    BY <1>1, SomeTerminal
  <2>. QED
    BY <2>2, <2>4, <2>5
<1>9. \A i \in DOMAIN Initials : Booting(t)' /\ ToBoot(t, Initials[i])'
  <2>1. SUFFICES ASSUME NEW i \in DOMAIN Initials
                 PROVE  Booting(t)' /\ ToBoot(t, Initials[i])'
    OBVIOUS
  <2>2. i \in Nat /\ i > 0 /\ 0 < Len(Initials)
    BY <1>1
  <2>. QED
    BY <1>1, <1>6, <2>2 DEF Booting, ToBoot
<1>10. \A i \in DOMAIN Initials' : Pushed(Initials[i])' \/
          \E u \in Threads : Booting(u)' /\ ToBoot(u, Initials[i])'
  BY <1>1, <1>9
<1>11. \A i \in DOMAIN trigger_queue' : FALSE
  BY <1>7
<1>. QED
  BY <1>5, <1>8, <1>10, <1>11 DEF StageActive

LEMMA LeadLeaves ==
  ASSUME IInv, NEW t \in Threads, LeadStep(t), pc'[t] \notin LeadPcs
  PROVE  DataInv' /\ StageInv' /\ pc'[t] \in {"top", "boot"}
<1>1. TypeOK /\ CallersInv /\ DataInv /\ IdleInv /\ StageInv
  BY DEF IInv
<1>2. /\ LeadMove(t) /\ Alone(t) /\ pc[t] \in LeadPcs /\ pc' = [pc EXCEPT ![t] = pc'[t]]
      /\ UNCHANGED <<graph, refcount, cap, countVars, trigger_queue, trigger, to_run, todo,
                     next_init, callerVars, historyVars>>
      /\ terminal_refcnt' = IF pc[t] = "reset_terminal" THEN NumTerminal(graph) ELSE terminal_refcnt
  BY <1>1, LeadStepMove
<1>3. StageQuiet(t)
  BY <1>1, <1>2, OneLeader
<1>4. /\ UNCHANGED <<graph, refcount, cap, trigger_queue_size, trigger_queue, started, finished, to_run,
                     todo, next_init, router_pc, terminate, idle_thread_cnt, trigger>>
      /\ \A u \in Threads \ {t} : pc'[u] = pc[u]
  BY <1>2 DEF countVars, historyVars, callerVars, Alone
<1>5. Rests /\ started \in {{}, graph.nodes} /\ started = finished /\ trigger_queue = << >>
      /\ \A u \in Threads \ {t} : pc[u] \notin LeadPcs
  BY <1>1, <1>3, QuietRests DEF StageQuiet
<1>6. next_init[t] = 0
  BY <1>1, <1>2 DEF DataInv, LocalInv, Local, BootPcs, LeadPcs
<1>7. /\ terminate = (gtk_pc \notin {"starting", "running"}) /\ (router_pc # "rest" => gtk_pc = "running")
      /\ graph.nodes # {} /\ callback_start \in Nat
  BY <1>1, GraphFacts, QueueTypes DEF CallersInv, TypeOK
<1>8. \A u \in Threads \ {t} : Quiet(u)' /\ pc'[u] \notin LeadPcs
  <2>1. Initials' = Initials
    BY <1>4 DEF Initials
  <2>. QED
    BY <1>3, <1>4, <1>5, <2>1 DEF StageQuiet, Quiet
<1>9. Len(Initials) \in Nat /\ \A u \in Threads : next_init[u] \in Nat
  BY <1>1, QueueTypes, InitialNodes, ThreadTypes DEF Initials
<1>10. \A u \in Threads \ {t} : ~Booting(u)'
  <2>1. Initials' = Initials
    BY <1>4 DEF Initials
  <2>. QED
    BY <1>4, <1>8, <1>9, <2>1 DEF Quiet, Booting, QuietPcs
<1>11. CASE pc'[t] = "top"
  <2>1. DataInv'
    <3>1. Kept(t)
      BY <1>2, <1>4, <1>6, <1>11 DEF Kept, Idles, NeutralPcs, QuietPcs
    <3>. QED
      BY <1>1, <1>2, <1>4, <3>1, KeptData
  <2>2. terminate
    BY <1>2, <1>11 DEF LeadMove
  <2>3. ~Leads' /\ Quiet(t)' /\ ~Booting(t)'
    BY <1>8, <1>11 DEF Leads, LeadPcs, Quiet, QuietPcs, Booting
  <2>4. \A u \in Threads : Quiet(u)' /\ ~Booting(u)'
    BY <1>8, <1>10, <2>3
  <2>5. StageOver'
    BY <1>4, <1>5, <2>2, <2>3, <2>4 DEF StageOver
  <2>. QED
    BY <1>11, <2>1, <2>5 DEF StageInv
<1>12. CASE pc'[t] = "boot"
  <2>1. pc[t] \in {"first_callback", "reset_terminal"}
    BY <1>2, <1>12 DEF LeadMove
  <2>2. started = {}
    BY <1>3, <1>7, <2>1 DEF StageQuiet
  <2>3. DataInv'
    BY <1>1, <1>2, <1>4, <1>5, <1>12, <2>2, BootData
  <2>4. CASE pc[t] = "reset_terminal"
    <3>1. router_pc = "wait" /\ callback_start = 0 /\ callback_done = 0
      BY <1>3, <2>4 DEF StageQuiet
    <3>2. router_pc' = "wait" /\ callback_start' = 0 /\ callback_done' = 0
      BY <1>2, <1>4, <2>4, <3>1 DEF LeadMove
    <3>3. StageActive'
      BY <1>1, <1>2, <1>3, <1>4, <1>12, <2>2, <2>4, <3>2, BootActive
    <3>. QED
      BY <1>12, <2>3, <3>3 DEF StageInv
  <2>5. CASE pc[t] = "first_callback"
    <3>1. /\ t = MainThread /\ terminal_refcnt = NumTerminal(graph)
          /\ \A u \in Threads \ {t} : pc[u] \in {"wait_trigger", "woken", "exited"}
      BY <1>3, <2>5 DEF StageQuiet
    <3>2. callback_start > 0 /\ callback_start' = callback_start - 1 /\ callback_done' = callback_done
      BY <1>2, <2>5 DEF LeadMove
    <3>3. CASE router_pc = "rest"
      <4>1. terminate
        BY <1>3, <3>2, <3>3 DEF StageQuiet
      <4>2. ~Leads'
        BY <1>8, <1>12 DEF Leads, LeadPcs
      <4>3. \A u \in Threads : Quiet(u)' \/ pc'[u] \in BootPcs
        BY <1>8, <1>12 DEF BootPcs
      <4>4. /\ \A u \in Threads \ {MainThread} : pc'[u] \in {"wait_trigger", "woken", "exited"}
            /\ pc'[MainThread] \in BootPcs
        BY <1>4, <1>12, <3>1 DEF BootPcs
      <4>5. StageOver'
        BY <1>4, <1>5, <2>2, <4>1, <4>2, <4>3, <4>4 DEF StageOver
      <4>. QED
        BY <1>12, <2>3, <4>5 DEF StageInv
    <3>4. CASE router_pc # "rest"
      <4>1. router_pc = "wait" /\ callback_start = 1 /\ callback_done = 0
        BY <1>3, <2>5, <3>2, <3>4 DEF StageQuiet
      <4>2. router_pc' = "wait" /\ callback_start' = 0 /\ callback_done' = 0
        BY <1>4, <3>2, <4>1
      <4>3. terminal_refcnt' = NumTerminal(graph)
        BY <1>2, <2>5, <3>1
      <4>4. StageActive'
        BY <1>1, <1>2, <1>3, <1>4, <1>12, <2>2, <4>2, <4>3, BootActive
      <4>. QED
        BY <1>12, <2>3, <4>4 DEF StageInv
    <3>. QED
      BY <3>3, <3>4
  <2>. QED
    BY <2>1, <2>4, <2>5
<1>13. pc'[t] \in {"top", "boot"}
  BY <1>2 DEF LeadMove, LeadPcs
<1>. QED
  BY <1>11, <1>12, <1>13

LEMMA LeadKept ==
  ASSUME IInv, NEW t \in Threads, LeadStep(t)
  PROVE  DataInv' /\ CallersInv' /\ StageInv' /\ IdleInv'
<1>1. TypeOK /\ CallersInv /\ IdleInv
  BY DEF IInv
<1>2. Alone(t) /\ pc[t] \in LeadPcs /\ UNCHANGED <<idle_thread_cnt, callerVars>>
  BY <1>1, LeadStepMove DEF countVars
<1>3. DataInv' /\ StageInv' /\ pc'[t] \in LeadPcs \cup {"top", "boot"}
  BY LeadStays, LeadLeaves
<1>4. CallersInv' /\ IdleInv'
  BY <1>1, <1>2, <1>3, LeadIdle
<1>. QED
  BY <1>3, <1>4

-----------------------------------------------------------------------------
(* All steps keep the invariant.                                           *)
LEMMA ThreadKept ==
  ASSUME IInv, NEW t \in Threads, ThreadStep(t)
  PROVE  DataInv' /\ CallersInv' /\ StageInv' /\ IdleInv'
<1>1. CASE QuietStep(t)
  BY <1>1, CalmStep
<1>2. CASE WorkStep(t)
  BY <1>2, WorkKept
<1>3. CASE FinishProcess(t)
  BY <1>3, FinishKept
<1>4. CASE ReachTerminal(t)
  BY <1>4, ReachKept
<1>5. CASE LeadStep(t)
  BY <1>5, LeadKept
<1>. QED
  BY <1>1, <1>2, <1>3, <1>4, <1>5 DEF ThreadStep, QuietStep, WorkStep, LeadStep

(* Between two cycles, and while one is being started or taken note of,    *)
(* there is a leader.                                                      *)
LEMMA RouterQuiet ==
  ASSUME CallersInv, StageInv,
         (router_pc = "rest" /\ gtk_pc = "running") \/ router_pc \in {"post", "clear"}
  PROVE  (\E l \in Threads : StageQuiet(l)) /\ ~terminate
<1>1. ~terminate
  BY DEF CallersInv
<1>2. ~StageActive /\ ~StageOver
  BY <1>1 DEF StageActive, StageOver
<1>. QED
  BY <1>1, <1>2 DEF StageInv

LEMMA IdleFrame ==
  ASSUME IdleInv, UNCHANGED <<pc, idle_thread_cnt>>, terminate' = terminate \/ Leads
  PROVE  IdleInv'
<1>1. Idle' = Idle /\ Exited' = Exited /\ (Leads' <=> Leads)
  BY DEF Idle, Exited, Leads
<1>2. PICK C \in SUBSET Threads :
        /\ Idle \subseteq C /\ C \subseteq Idle \cup Exited
        /\ idle_thread_cnt = Cardinality(C)
        /\ ~Leads /\ terminate =>
              \E w \in Threads \ C : pc[w] \in BootPcs \cup {"top", "exited"}
  BY DEF IdleInv
<1>. QED
  BY <1>1, <1>2 DEF IdleInv

(* A step of the router or of the GTK thread touches no data.              *)
LEMMA DataFrame ==
  ASSUME DataInv,
         UNCHANGED <<graph, refcount, cap, trigger_queue_size, trigger_queue, started, finished,
                     pc, to_run, todo, next_init>>
  PROVE  DataInv'
<1>1. Initials' = Initials
  BY DEF Initials
<1>2. \A t \in Threads : \A n : Runs(t, n)' <=> Runs(t, n)
  BY DEF Runs
<1>3. \A n : Pushed(n)' <=> Pushed(n)
  BY <1>2 DEF Pushed
<1>4. \A t \in Threads : \A n : Triggering(t, n)' <=> Triggering(t, n)
  BY DEF Triggering
<1>5. \A t \in Threads : Booting(t)' <=> Booting(t)
  BY <1>1 DEF Booting
<1>6. \A t \in Threads : \A n : ToBoot(t, n)' <=> ToBoot(t, n)
  BY <1>1 DEF ToBoot
<1>7. \A n : Missing(n)' = Missing(n)
  BY DEF Missing
<1>8. \A n : Owing(n)' = Owing(n)
  <2>1. \A t \in Threads : \A n : Owes(t, n)' <=> Owes(t, n)
    BY DEF Owes
  <2>. QED
    BY <2>1 DEF Owing
<1>9. \A n : Counted(n)' <=> Counted(n)
  <2>1. \A n : Queued(n)' <=> Queued(n)
    BY DEF Queued
  <2>2. \A t \in Threads : \A n : Pushing(t, n)' <=> Pushing(t, n)
    BY <1>1 DEF Pushing
  <2>3. \A t \in Threads : \A n : Taken(t, n)' <=> Taken(t, n)
    BY <1>2 DEF Taken
  <2>. QED
    BY <2>1, <2>2, <2>3 DEF Counted
<1>10. LocalInv'
  BY <1>1 DEF DataInv, LocalInv, Local
<1>11. SlotsInv'
  <2>1. \A s : SlotOK(s)' <=> SlotOK(s)
    BY <1>2 DEF SlotOK
  <2>2. \A i \in DOMAIN trigger_queue' : SlotOK(trigger_queue[i])'
    <3>1. SUFFICES ASSUME NEW i \in DOMAIN trigger_queue'
                   PROVE  SlotOK(trigger_queue[i])'
      OBVIOUS
    <3>2. PICK s : s = trigger_queue[i]
      OBVIOUS
    <3>3. SlotOK(s)
      BY <3>2 DEF DataInv, SlotsInv
    <3>4. SlotOK(s)'
      BY <2>1, <3>3
    <3>. QED
      BY <3>2, <3>4 DEF SlotOK
  <2>. QED
    BY <1>1, <2>2 DEF DataInv, SlotsInv
<1>12. RunInv'
  BY <1>2 DEF DataInv, RunInv
<1>13. TriggerInv'
  BY <1>3, <1>4, <1>5, <1>6 DEF DataInv, TriggerInv
<1>14. RefcountInv'
  BY <1>3, <1>4, <1>7, <1>8 DEF DataInv, RefcountInv
<1>15. CountInv'
  BY <1>9, CountFrame DEF DataInv
<1>. QED
  BY <1>10, <1>11, <1>12, <1>13, <1>14, <1>15 DEF DataInv

(* The phases of a cycle in which one thread leads and the others rest.    *)
LEMMA QuietFrame ==
  ASSUME NEW l \in Threads, StageQuiet(l),
         UNCHANGED <<pc, todo, next_init, trigger_queue>>,
         started' = finished', started' \in {{}, graph'.nodes},
         \/ Initials' = Initials
         \/ \A u \in Threads : pc[u] = "boot" => next_init[u] >= Len(Initials'),
         terminate => terminate', terminate' \/ trigger' = trigger,
         pc[l] \in {"await_workers", "first_callback"} =>
            started' = {} /\ terminal_refcnt' = NumTerminal(graph)',
         \/ /\ router_pc' = "rest" /\ callback_done' = 0 /\ (callback_start' > 0 => terminate')
            /\ pc[l] \notin {"cycle_done", "reset_terminal"} /\ (pc[l] = "next_cycle" => terminate')
         \/ /\ router_pc' = "post" /\ callback_start' = 0 /\ callback_done' = 0 /\ started' = {}
            /\ pc[l] \notin {"cycle_done", "reset_terminal", "next_cycle"}
         \/ /\ router_pc' = "wait" /\ callback_start' = 1 /\ callback_done' = 0 /\ started' = {}
            /\ pc[l] \notin {"cycle_done", "reset_terminal", "next_cycle"}
         \/ /\ router_pc' = "clear" /\ callback_start' = 0 /\ callback_done' = 0
            /\ started' = graph'.nodes /\ pc[l] \in {"await_idle", "cycle_over", "wait_callback"}
  PROVE  StageInv'
<1>1. \A u \in Threads \ {l} : Quiet(u)'
  BY DEF StageQuiet, Quiet
<1>2. /\ pc'[l] \in LeadPcs /\ trigger_queue' = << >>
      /\ pc[l] \in {"await_workers", "first_callback"} =>
            /\ l = MainThread /\ (terminate \/ trigger = 0)
            /\ \A t \in Threads \ {l} :
                  /\ pc[t] \in {"top", "dequeue", "go_idle", "wait_trigger", "woken", "exited"}
                  /\ pc[t] \in {"woken", "exited"} => terminate
                  /\ pc[l] = "first_callback" => pc[t] \in {"wait_trigger", "woken", "exited"}
  BY DEF StageQuiet
<1>3. StageQuiet(l)'
  BY <1>1, <1>2 DEF StageQuiet
<1>. QED
  BY <1>3 DEF StageInv

(* The steps of the router.                                                *)
LEMMA StartKept ==
  ASSUME IInv, StartCycle
  PROVE  DataInv' /\ CallersInv' /\ StageInv' /\ IdleInv'
<1>1. TypeOK /\ CallersInv /\ DataInv /\ StageInv /\ IdleInv
  BY DEF IInv
<1>2. /\ router_pc = "rest" /\ gtk_pc = "running" /\ router_pc' = "post"
      /\ callback_in_progress' = TRUE /\ started' = {} /\ finished' = {}
      /\ UNCHANGED <<graph, terminal_refcnt, idle_thread_cnt, trigger_queue, trigger, callback_start,
                     callback_done, pc, todo, next_init, gtk_pc, terminate>>
  BY DEF StartCycle, graphVars, countVars, semVars, localVars
<1>3. PICK l \in Threads : StageQuiet(l)
  BY <1>1, <1>2, RouterQuiet
<1>4. ~terminate
  BY <1>1, <1>2, RouterQuiet
<1>5. DataInv'
  BY <1>1, <1>3, QuietRests, StartData
<1>6. CallersInv'
  BY <1>1, <1>2 DEF CallersInv
<1>7. IdleInv'
  BY <1>1, <1>2, IdleFrame
<1>8. Initials' = Initials /\ NumTerminal(graph)' = NumTerminal(graph)
  BY <1>2 DEF Initials
<1>9. callback_start \in Nat /\ callback_done \in Nat
  BY <1>1 DEF TypeOK
<1>10. /\ callback_start = 0 /\ callback_done = 0
       /\ pc[l] \notin {"cycle_done", "reset_terminal", "next_cycle"}
       /\ pc[l] \in {"await_workers", "first_callback"} => terminal_refcnt = NumTerminal(graph)
  BY <1>2, <1>3, <1>4, <1>9 DEF StageQuiet
<1>11. StageInv'
  BY <1>2, <1>3, <1>8, <1>10, QuietFrame
<1>. QED
  BY <1>5, <1>6, <1>7, <1>11

LEMMA RouterKept ==
  ASSUME IInv, RouterStep
  PROVE  DataInv' /\ CallersInv' /\ StageInv' /\ IdleInv'
<1>1. TypeOK /\ CallersInv /\ DataInv /\ StageInv /\ IdleInv
  BY DEF IInv
<1>2. /\ UNCHANGED <<graph, refcount, terminal_refcnt, cap, countVars, trigger_queue, trigger, pc,
                     localVars, gtk_pc, tokens, terminate, historyVars>>
      /\ \/ /\ router_pc = "post" /\ router_pc' = "wait" /\ callback_start' = callback_start + 1
            /\ UNCHANGED <<callback_done, callback_in_progress>>
         \/ /\ router_pc = "wait" /\ callback_done > 0 /\ router_pc' = "clear"
            /\ callback_done' = callback_done - 1 /\ UNCHANGED <<callback_start, callback_in_progress>>
         \/ /\ router_pc = "clear" /\ router_pc' = "rest" /\ callback_in_progress' = FALSE
            /\ UNCHANGED <<callback_start, callback_done>>
  BY DEF RouterStep, PostCallbackStart, WaitCallbackDone, EndCycle, graphVars, semVars
<1>3. UNCHANGED <<graph, refcount, cap, trigger_queue_size, trigger_queue, started, finished,
                  pc, to_run, todo, next_init, idle_thread_cnt>>
  BY <1>2 DEF countVars, localVars, historyVars
<1>4. DataInv'
  BY <1>1, <1>3, DataFrame
<1>5. CallersInv'
  BY <1>1, <1>2, <1>3 DEF CallersInv
<1>6. IdleInv'
  BY <1>1, <1>2, <1>3, IdleFrame
<1>7. callback_start \in Nat /\ callback_done \in Nat
  BY <1>1 DEF TypeOK
<1>8. ~terminate
  BY <1>1, <1>2 DEF CallersInv
<1>9. PICK l \in Threads : StageQuiet(l)
  <2>1. ~StageActive
    BY <1>2, <1>7 DEF StageActive
  <2>2. ~StageOver
    BY <1>8 DEF StageOver
  <2>. QED
    BY <1>1, <2>1, <2>2 DEF StageInv
<1>10. Initials' = Initials /\ NumTerminal(graph)' = NumTerminal(graph)
  BY <1>3 DEF Initials
<1>11. /\ pc[l] \in {"await_workers", "first_callback"} =>
             started = {} /\ terminal_refcnt = NumTerminal(graph)
       /\ started = finished /\ started \in {{}, graph.nodes}
  BY <1>9 DEF StageQuiet
<1>12. CASE router_pc = "post"
  <2>1. /\ callback_start = 0 /\ callback_done = 0 /\ started = {}
        /\ pc[l] \notin {"cycle_done", "reset_terminal", "next_cycle"}
    BY <1>9, <1>12 DEF StageQuiet
  <2>2. router_pc' = "wait" /\ callback_start' = 1 /\ callback_done' = 0
    BY <1>2, <1>12, <2>1
  <2>. QED
    BY <1>2, <1>3, <1>4, <1>5, <1>6, <1>9, <1>10, <1>11, <2>1, <2>2, QuietFrame
<1>13. CASE router_pc = "wait"
  <2>1. callback_done > 0 /\ router_pc' = "clear" /\ callback_done' = callback_done - 1
        /\ callback_start' = callback_start
    BY <1>2, <1>13
  <2>2. /\ callback_start = 0 /\ callback_done = 1
        /\ started = graph.nodes /\ pc[l] \in {"await_idle", "cycle_over", "wait_callback"}
    BY <1>7, <1>9, <1>13, <2>1 DEF StageQuiet
  <2>3. callback_done' = 0 /\ callback_start' = 0
    BY <2>1, <2>2
  <2>. QED
    BY <1>2, <1>3, <1>4, <1>5, <1>6, <1>9, <1>10, <1>11, <2>1, <2>2, <2>3, QuietFrame
<1>14. CASE router_pc = "clear"
  <2>1. /\ callback_start = 0 /\ callback_done = 0
        /\ pc[l] \in {"await_idle", "cycle_over", "wait_callback"}
    BY <1>9, <1>14 DEF StageQuiet
  <2>2. router_pc' = "rest" /\ callback_start' = 0 /\ callback_done' = 0
    BY <1>2, <1>14, <2>1
  <2>. QED
    BY <1>2, <1>3, <1>4, <1>5, <1>6, <1>9, <1>10, <1>11, <2>1, <2>2, QuietFrame
<1>. QED
  BY <1>2, <1>12, <1>13, <1>14

(* The steps of the GTK thread.                                            *)
LEMMA RechainKept ==
  ASSUME IInv, NEW g \in Graphs, Rechain(g), ~overtaken'
  PROVE  DataInv' /\ CallersInv' /\ StageInv' /\ IdleInv'
<1>1. TypeOK /\ CallersInv /\ DataInv /\ StageInv /\ IdleInv
  BY DEF IInv
<1>2. /\ router_pc = "rest" /\ gtk_pc = "running" /\ graph' = g
      /\ terminal_refcnt' = NumTerminal(g) /\ started' = {} /\ finished' = {}
      /\ trigger_queue' = IF cap' = cap THEN trigger_queue ELSE << >>
      /\ UNCHANGED <<idle_thread_cnt, trigger, callback_start, callback_done, pc, todo, next_init,
                     callerVars, router_pc, gtk_pc, terminate>>
  BY DEF Rechain, countVars, semVars, localVars, callerVars
<1>3. PICK l \in Threads : StageQuiet(l)
  BY <1>1, <1>2, RouterQuiet
<1>4. ~terminate /\ trigger_queue = << >>
  BY <1>1, <1>2, <1>3, RouterQuiet DEF StageQuiet
<1>5. DataInv'
  BY <1>1, <1>3, QuietRests, RechainData
<1>6. CallersInv'
  BY <1>1, <1>2 DEF CallersInv, callerVars
<1>7. IdleInv'
  BY <1>1, <1>2, IdleFrame
<1>8. /\ \A u \in Threads : pc[u] = "boot" => next_init[u] >= Len(Initials')
      /\ NumTerminal(graph)' = NumTerminal(g)
  BY <1>1, <1>2, BootsOut
<1>9. /\ callback_done = 0 /\ (callback_start > 0 => terminate)
      /\ pc[l] \notin {"cycle_done", "reset_terminal"} /\ (pc[l] = "next_cycle" => terminate)
  BY <1>2, <1>3 DEF StageQuiet
<1>10. trigger_queue' = trigger_queue
  BY <1>2, <1>4
<1>11. StageInv'
  BY <1>2, <1>3, <1>8, <1>9, <1>10, QuietFrame
<1>. QED
  BY <1>5, <1>6, <1>7, <1>11

LEMMA TerminateKept ==
  ASSUME IInv, Terminate
  PROVE  DataInv' /\ CallersInv' /\ StageInv' /\ IdleInv'
<1>1. TypeOK /\ CallersInv /\ DataInv /\ StageInv /\ IdleInv
  BY DEF IInv
<1>2. /\ router_pc = "rest" /\ gtk_pc = "running" /\ terminate' = TRUE /\ gtk_pc' = "await_idle"
      /\ UNCHANGED <<graph, refcount, terminal_refcnt, cap, trigger_queue_size, idle_thread_cnt,
                     trigger_queue, trigger, callback_start, callback_done, pc, to_run, todo,
                     next_init, router_pc, callback_in_progress, started, finished>>
  BY DEF Terminate, graphVars, countVars, semVars, localVars, historyVars
<1>3. PICK l \in Threads : StageQuiet(l)
  BY <1>1, <1>2, RouterQuiet
<1>4. DataInv'
  BY <1>1, <1>2, DataFrame
<1>5. CallersInv'
  BY <1>1, <1>2 DEF CallersInv
<1>6. IdleInv'
  <2>1. Leads
    BY <1>3 DEF StageQuiet, Leads
  <2>. QED
    BY <1>1, <1>2, <2>1, IdleFrame
<1>7. Initials' = Initials /\ NumTerminal(graph)' = NumTerminal(graph)
  BY <1>2 DEF Initials
<1>8. /\ callback_done = 0 /\ pc[l] \notin {"cycle_done", "reset_terminal"}
      /\ pc[l] \in {"await_workers", "first_callback"} =>
             started = {} /\ terminal_refcnt = NumTerminal(graph)
      /\ started = finished /\ started \in {{}, graph.nodes}
  BY <1>2, <1>3 DEF StageQuiet
<1>9. StageInv'
  BY <1>2, <1>3, <1>7, <1>8, QuietFrame
<1>. QED
  BY <1>4, <1>5, <1>6, <1>9

LEMMA GtkKept ==
  ASSUME IInv, GtkStep \/ UNCHANGED vars
  PROVE  DataInv' /\ CallersInv' /\ StageInv' /\ IdleInv'
<1>1. TypeOK /\ CallersInv /\ DataInv /\ StageInv /\ IdleInv
  BY DEF IInv
<1>2. /\ UNCHANGED <<graph, refcount, terminal_refcnt, cap, trigger_queue_size, idle_thread_cnt,
                     trigger_queue, callback_done, pc, to_run, todo, next_init, router_pc,
                     callback_in_progress, terminate, started, finished>>
      /\ \/ gtk_pc = "starting" /\ gtk_pc' = "running" /\ UNCHANGED <<trigger, callback_start>>
         \/ /\ gtk_pc \notin {"starting", "running"} /\ gtk_pc' \notin {"starting", "running"}
            /\ trigger' = trigger \/ trigger' = trigger + 1
            /\ callback_start' = callback_start \/ callback_start' = callback_start + 1
         \/ UNCHANGED <<gtk_pc, trigger, callback_start>>
  BY DEF GtkStep, Started, AllIdle, CountSleepers, WakeSleeper, WakeMain, Joined,
         graphVars, countVars, semVars, localVars, historyVars, callerVars, vars
<1>3. DataInv'
  BY <1>1, <1>2, DataFrame
<1>4. CallersInv'
  BY <1>1, <1>2 DEF CallersInv
<1>5. IdleInv'
  BY <1>1, <1>2, IdleFrame
<1>6. Initials' = Initials /\ NumTerminal(graph)' = NumTerminal(graph)
  BY <1>2 DEF Initials
<1>7. Leads' <=> Leads
  BY <1>2 DEF Leads
<1>8. terminate => router_pc = "rest"
  BY <1>1 DEF CallersInv
<1>9. terminate \/ UNCHANGED <<trigger, callback_start>>
  BY <1>1, <1>2 DEF CallersInv
<1>10. ASSUME NEW l \in Threads, StageQuiet(l) PROVE StageInv'
  <2>1. \A u \in Threads \ {l} : Quiet(u)'
    BY <1>2, <1>6, <1>10 DEF StageQuiet, Quiet
  <2>2. CASE ~terminate
    <3>1. UNCHANGED <<trigger, callback_start>>
      BY <1>9, <2>2
    <3>2. StageQuiet(l)'
      BY <1>2, <1>6, <1>10, <2>1, <3>1 DEF StageQuiet
    <3>. QED
      BY <3>2 DEF StageInv
  <2>3. CASE terminate
    <3>1. router_pc = "rest"
      BY <1>8, <2>3
    <3>2. StageQuiet(l)'
      BY <1>2, <1>6, <1>10, <2>1, <2>3, <3>1 DEF StageQuiet
    <3>. QED
      BY <3>2 DEF StageInv
  <2>. QED
    BY <2>2, <2>3
<1>11. ASSUME StageActive PROVE StageInv'
  <2>1. ~terminate
    BY <1>1, <1>11, ActiveCallers
  <2>2. \A n : Pushed(n)' <=> Pushed(n)
    <3>1. \A u \in Threads : \A n : Runs(u, n)' <=> Runs(u, n)
      BY <1>2 DEF Runs
    <3>. QED
      BY <1>2, <3>1 DEF Pushed
  <2>3. \A u \in Threads : \A n : (Booting(u)' <=> Booting(u)) /\ (ToBoot(u, n)' <=> ToBoot(u, n))
    BY <1>2, <1>6 DEF Booting, ToBoot
  <2>4. callback_start' = callback_start
    BY <1>9, <2>1
  <2>5. \A i \in DOMAIN Initials' : Pushed(Initials[i])' \/
            \E u \in Threads : Booting(u)' /\ ToBoot(u, Initials[i])'
    <3>1. SUFFICES ASSUME NEW i \in DOMAIN Initials
                   PROVE  Pushed(Initials[i])' \/
                            \E u \in Threads : Booting(u)' /\ ToBoot(u, Initials[i])'
      BY <1>6
    <3>2. PICK n : n = Initials[i]
      OBVIOUS
    <3>3. Pushed(n) \/ \E u \in Threads : Booting(u) /\ ToBoot(u, n)
      BY <1>11, <3>2 DEF StageActive
    <3>4. Pushed(n)' \/ \E u \in Threads : Booting(u)' /\ ToBoot(u, n)'
      BY <2>2, <2>3, <3>3
    <3>. QED
      BY <1>6, <3>2, <3>4
  <2>6. StageActive'
    BY <1>2, <1>7, <1>11, <2>4, <2>5 DEF StageActive
  <2>. QED
    BY <2>6 DEF StageInv
<1>12. ASSUME StageOver PROVE StageInv'
  <2>1. \A u \in Threads : (Quiet(u)' <=> Quiet(u)) /\ (Booting(u)' <=> Booting(u))
    BY <1>2, <1>6 DEF Quiet, Booting
  <2>2. StageOver'
    BY <1>2, <1>7, <1>12, <2>1 DEF StageOver
  <2>. QED
    BY <2>2 DEF StageInv
<1>13. StageInv'
  BY <1>1, <1>10, <1>11, <1>12 DEF StageInv
<1>. QED
  BY <1>3, <1>4, <1>5, <1>13

-----------------------------------------------------------------------------
(* Type correctness.                                                       *)
LEMMA QuietTypes ==
  ASSUME IInv, NEW t \in Threads, QuietStep(t)
  PROVE  TypeOK'
<1>1. TypeOK /\ IdleInv
  BY DEF IInv
<1>. USE DEF Goto, graphVars, countVars, semVars, localVars, historyVars, callerVars, Pcs, TypeOK
<1>2. CASE Top(t)
  BY <1>1, <1>2 DEF Top
<1>3. CASE DequeueNode(t) /\ ~HeadReady(trigger_queue)
  BY <1>1, <1>3 DEF DequeueNode
<1>4. CASE GoIdle(t)
  BY <1>1, <1>4 DEF GoIdle
<1>5. CASE WaitTrigger(t)
  BY <1>1, <1>5 DEF WaitTrigger
<1>6. CASE Woken(t)
  BY <1>1, <1>6 DEF Woken
<1>7. CASE NotIdle(t)
  <2>1. idle_thread_cnt >= 1
    <3>1. PICK C \in SUBSET Threads : Idle \subseteq C /\ idle_thread_cnt = Cardinality(C)
      BY <1>1 DEF IdleInv
    <3>2. t \in C
      BY <1>7, <3>1 DEF NotIdle, Idle, IdlePcs
    <3>3. Cardinality(C) \in Nat /\ Cardinality(C) # 0
      BY <3>2, ThreadSet
    <3>. QED
      BY <3>1, <3>3
  <2>. QED
    BY <1>1, <1>7, <2>1 DEF NotIdle
<1>8. CASE AllNotified(t)
  BY <1>1, <1>8 DEF AllNotified
<1>9. CASE AllBooted(t)
  BY <1>1, <1>9 DEF AllBooted
<1>. QED
  BY <1>2, <1>3, <1>4, <1>5, <1>6, <1>7, <1>8, <1>9 DEF QuietStep

LEMMA NextPushTypes ==
  ASSUME TypeOK, NEW t \in Threads, NextPush(t),
         pc[t] \in {"push", "publish"} => todo[t] # << >>
  PROVE  /\ pc' \in [Threads -> Pcs] /\ todo' \in [Threads -> Seq(Nodes)]
         /\ next_init' \in [Threads -> Nat]
<1>1. pc \in [Threads -> Pcs] /\ todo \in [Threads -> Seq(Nodes)] /\ next_init \in [Threads -> Nat]
  BY DEF TypeOK
<1>2. CASE pc[t] \in {"push", "publish"}
  <2>1. Tail(todo[t]) \in Seq(Nodes)
    BY <1>1, <1>2
  <2>. QED
    BY <1>1, <1>2, <2>1 DEF NextPush, Goto, Pcs
<1>3. CASE pc[t] \notin {"push", "publish"}
  <2>1. next_init' = [next_init EXCEPT ![t] = next_init[t] + 1] /\ next_init[t] + 1 \in Nat
    BY <1>1, <1>3 DEF NextPush
  <2>2. next_init' \in [Threads -> Nat]
    BY <1>1, <2>1
  <2>. QED
    BY <1>1, <1>3, <2>2 DEF NextPush, Goto, Pcs
<1>. QED
  BY <1>2, <1>3

LEMMA QueueStepTypes ==
  ASSUME TypeOK, DataInv, NEW t \in Threads,
         (DequeueNode(t) /\ HeadReady(trigger_queue)) \/ ReleaseCell(t) \/ PushClaim(t) \/ PushPublish(t)
  PROVE  TypeOK'
<1>1. SlotsInv /\ trigger_queue \in Seq(Slot(Threads, Nodes)) /\ graph \in Graphs
  BY QueueTypes DEF DataInv
<1>2. CASE DequeueNode(t) /\ HeadReady(trigger_queue)
  <2>1. \A j \in DOMAIN trigger_queue : trigger_queue[j].who # t
    BY <1>1, <1>2, NoHolder DEF DequeueNode, PublishPcs, ReleasePcs
  <2>2. PICK p : p = Take(trigger_queue, t)
    OBVIOUS
  <2>3. p \in Seq(Slot(Threads, Nodes)) /\ \E i \in DOMAIN trigger_queue : OwnValue(p, t) = trigger_queue[i].val
    <3>1. HeadReady(trigger_queue)
      BY <1>2
    <3>2. PICK q : q = trigger_queue
      OBVIOUS
    <3>3. /\ q \in Seq(Slot(Threads, Nodes)) /\ HeadReady(q) /\ p = Take(q, t)
          /\ \A j \in DOMAIN q : q[j].who # t
      BY <1>1, <2>1, <2>2, <3>1, <3>2
    <3>4. \E i \in DOMAIN q :
           /\ q[i].st = "ready"
           /\ Take(q, t) \in Seq(Slot(Threads, Nodes)) /\ DOMAIN Take(q, t) = DOMAIN q
           /\ Len(Take(q, t)) = Len(q)
           /\ Take(q, t)[i] = [val |-> q[i].val, st |-> "reading", who |-> t]
           /\ \A j \in DOMAIN q : j # i => Take(q, t)[j] = q[j]
           /\ OwnValue(Take(q, t), t) = q[i].val
      BY <3>3, TakeSlot
    <3>. QED
      BY <3>2, <3>3, <3>4
  <2>4. OwnValue(p, t) \in Nodes
    BY <2>3, QueueTypes
  <2>5. trigger_queue' = p /\ to_run' = [to_run EXCEPT ![t] = OwnValue(p, t)]
    BY <1>2, <2>2 DEF DequeueNode
  <2>6. to_run' \in [Threads -> Nodes \cup {NoNode}]
    BY <2>4, <2>5 DEF TypeOK
  <2>7. pc' \in [Threads -> Pcs]
    BY <1>2 DEF DequeueNode, Goto, Pcs, TypeOK
  <2>. QED
    BY <1>2, <2>3, <2>5, <2>6, <2>7
       DEF DequeueNode, graphVars, countVars, semVars, historyVars, callerVars, TypeOK
<1>3. CASE ReleaseCell(t)
  <2>1. PICK i \in DOMAIN trigger_queue :
          /\ trigger_queue[i].who = t
          /\ \A j \in DOMAIN trigger_queue : trigger_queue[j].who = t => j = i
    BY <1>1, <1>3, Holder DEF ReleaseCell, ReleasePcs
  <2>2. Release(trigger_queue, t) \in Seq(Slot(Threads, Nodes))
    BY <1>1, <2>1, ReleaseSlot
  <2>. QED
    BY <1>3, <2>2
       DEF ReleaseCell, Goto, graphVars, countVars, semVars, localVars, historyVars, callerVars, Pcs, TypeOK
<1>4. CASE PushPublish(t)
  <2>1. PICK i \in DOMAIN trigger_queue :
          /\ trigger_queue[i].who = t
          /\ \A j \in DOMAIN trigger_queue : trigger_queue[j].who = t => j = i
    BY <1>1, <1>4, Holder DEF PushPublish, PublishPcs
  <2>2. Publish(trigger_queue, t) \in Seq(Slot(Threads, Nodes))
    BY <1>1, <2>1, PublishSlot
  <2>3. pc[t] \in {"push", "publish"} => todo[t] # << >>
    BY DEF DataInv, LocalInv, Local, TriggerPcs
  <2>4. /\ pc' \in [Threads -> Pcs] /\ todo' \in [Threads -> Seq(Nodes)]
        /\ next_init' \in [Threads -> Nat]
    BY <1>4, <2>3, NextPushTypes DEF PushPublish
  <2>. QED
    BY <1>4, <2>2, <2>4
       DEF PushPublish, graphVars, countVars, semVars, historyVars, callerVars, TypeOK
<1>5. CASE PushClaim(t)
  <2>1. ~Full(trigger_queue, cap)
    BY <1>5, PushRoom DEF PushClaim
  <2>2. PICK n : n = IF pc[t] = "push" THEN Head(todo[t]) ELSE InitTriggers(graph)[next_init[t] + 1]
    OBVIOUS
  <2>3. n \in Nodes
    <3>1. n \in graph.nodes
      BY <1>5, <2>2, TriggerNode, BootNode DEF PushClaim, TriggerPcs, Initials
    <3>. QED
      BY <1>1, <3>1, GraphFacts
  <2>4. Claim(trigger_queue, n, t) \in Seq(Slot(Threads, Nodes))
    BY <1>1, <2>3, ClaimSlot
  <2>5. trigger_queue' \in Seq(Slot(Threads, Nodes))
    BY <1>5, <2>1, <2>2, <2>4 DEF PushClaim
  <2>6. /\ UNCHANGED <<graphVars, countVars, semVars, to_run, todo, next_init, wakeup, historyVars, callerVars>>
        /\ \E q \in Pcs : pc' = [pc EXCEPT ![t] = q]
    BY <1>5, <2>1 DEF PushClaim, Goto, Pcs
  <2>7. pc' \in [Threads -> Pcs]
    BY <2>6 DEF TypeOK
  <2>. QED
    BY <2>5, <2>6, <2>7 DEF graphVars, countVars, semVars, historyVars, callerVars, TypeOK
<1>. QED
  BY <1>2, <1>3, <1>4, <1>5

LEMMA WorkTypes ==
  ASSUME IInv, NEW t \in Threads, WorkStep(t)
  PROVE  TypeOK'
<1>1. TypeOK /\ DataInv
  BY DEF IInv
<1>2. CASE (DequeueNode(t) /\ HeadReady(trigger_queue)) \/ ReleaseCell(t) \/ PushClaim(t) \/ PushPublish(t)
  BY <1>1, <1>2, QueueStepTypes
<1>3. CASE NodeClaimed(t)
  <2>1. trigger_queue_size' \in Nat
    <3>1. trigger_queue_size >= 1
      BY <1>1, <1>3, ClaimedData
    <3>. QED
      BY <1>1, <1>3, <3>1 DEF NodeClaimed, TypeOK
  <2>2. pc' \in [Threads -> Pcs]
    BY <1>1, <1>3 DEF NodeClaimed, Goto, Pcs, TypeOK
  <2>. QED
    BY <1>1, <1>3, <2>1, <2>2
       DEF NodeClaimed, graphVars, semVars, localVars, historyVars, callerVars, TypeOK
<1>4. CASE BeginProcess(t)
  <2>1. to_run[t] \in Nodes
    <3>1. to_run[t] \in graph.nodes
      BY <1>1, <1>4, BeginData
    <3>. QED
      BY <1>1, <3>1, QueueTypes, GraphFacts
  <2>. QED
    BY <1>1, <1>4, <2>1
       DEF BeginProcess, Goto, graphVars, countVars, semVars, localVars, callerVars, Pcs, TypeOK
<1>5. CASE NotifyChild(t)
  <2>1. PICK c : c = Head(todo[t])
    OBVIOUS
  <2>2. c \in Nodes /\ refcount[c] >= 1
    <3>1. c \in graph.nodes /\ refcount[c] >= 1
      BY <1>1, <1>5, <2>1, NotifyData
    <3>. QED
      BY <1>1, <3>1, QueueTypes, GraphFacts
  <2>3. refcount \in [Nodes -> Nat] /\ todo \in [Threads -> Seq(Nodes)] /\ pc \in [Threads -> Pcs]
    BY <1>1 DEF TypeOK
  <2>4. refcount' \in [Nodes -> Nat]
    <3>1. refcount' = [refcount EXCEPT ![c] = refcount[c] - 1] /\ refcount[c] - 1 \in Nat
      BY <1>5, <2>1, <2>2, <2>3 DEF NotifyChild
    <3>. QED
      BY <2>3, <3>1
  <2>5. todo' \in [Threads -> Seq(Nodes)] /\ pc' \in [Threads -> Pcs]
    <3>1. Tail(todo[t]) \in Seq(Nodes)
      BY <1>5, <2>3 DEF NotifyChild
    <3>. QED
      BY <1>5, <2>3, <3>1 DEF NotifyChild, Goto, Pcs
  <2>. QED
    BY <1>1, <1>5, <2>4, <2>5
       DEF NotifyChild, countVars, semVars, historyVars, callerVars, TypeOK
<1>6. CASE ResetRefcount(t)
  <2>1. PICK c : c = Head(todo[t])
    OBVIOUS
  <2>2. InitRefcount(graph, c) \in Nat
    BY <1>1, QueueTypes, GraphFacts, NodeSet DEF InitRefcount
  <2>3. refcount' \in [Nodes -> Nat]
    <3>1. refcount' = [refcount EXCEPT ![c] = InitRefcount(graph, c)]
      BY <1>6, <2>1 DEF ResetRefcount
    <3>. QED
      BY <1>1, <2>2, <3>1 DEF TypeOK
  <2>. QED
    BY <1>1, <1>6, <2>3
       DEF ResetRefcount, Goto, countVars, semVars, localVars, historyVars, callerVars, Pcs, TypeOK
<1>7. CASE CountQueued(t)
  <2>1. trigger_queue_size' \in Nat
    BY <1>1, <1>7 DEF CountQueued, TypeOK
  <2>2. pc' \in [Threads -> Pcs]
    BY <1>1, <1>7 DEF CountQueued, Goto, Pcs, TypeOK
  <2>. QED
    BY <1>1, <1>7, <2>1, <2>2
       DEF CountQueued, graphVars, semVars, localVars, historyVars, callerVars, TypeOK
<1>8. CASE CountIdle(t)
  BY <1>1, <1>8
     DEF CountIdle, Goto, graphVars, countVars, semVars, historyVars, callerVars, Pcs, TypeOK
<1>9. CASE CountWork(t)
  <2>1. PICK k \in Nat : wakeup' = [wakeup EXCEPT ![t] = k]
    <3>1. wakeup[t] \in Nat /\ trigger_queue_size \in Nat
      BY <1>1 DEF TypeOK
    <3>2. CASE wakeup[t] + 1 <= trigger_queue_size
      BY <1>9, <3>1, <3>2 DEF CountWork
    <3>3. CASE ~(wakeup[t] + 1 <= trigger_queue_size) /\ trigger_queue_size > 0
      <4>1. trigger_queue_size - 1 \in Nat /\ wakeup' = [wakeup EXCEPT ![t] = trigger_queue_size - 1]
        BY <1>9, <3>1, <3>3 DEF CountWork
      <4>. QED
        BY <4>1
    <3>4. CASE ~(wakeup[t] + 1 <= trigger_queue_size) /\ ~(trigger_queue_size > 0)
      BY <1>9, <3>1, <3>4 DEF CountWork
    <3>. QED
      BY <3>2, <3>3, <3>4
  <2>. QED
    BY <1>1, <1>9, <2>1
       DEF CountWork, Goto, graphVars, countVars, semVars, historyVars, callerVars, Pcs, TypeOK
<1>10. CASE PostTrigger(t)
  BY <1>1, <1>10
     DEF PostTrigger, Goto, graphVars, countVars, historyVars, callerVars, Pcs, TypeOK
<1>11. CASE AllWoken(t)
  BY <1>1, <1>11
     DEF AllWoken, Goto, graphVars, countVars, semVars, localVars, historyVars, callerVars, Pcs, TypeOK
<1>. QED
  BY <1>2, <1>3, <1>4, <1>5, <1>6, <1>7, <1>8, <1>9, <1>10, <1>11 DEF WorkStep

LEMMA EndTypes ==
  ASSUME IInv, NEW t \in Threads, FinishProcess(t) \/ ReachTerminal(t) \/ LeadStep(t)
  PROVE  TypeOK'
<1>1. TypeOK /\ DataInv
  BY DEF IInv
<1>2. CASE FinishProcess(t)
  <2>1. to_run[t] \in graph.nodes
    BY <1>1, <1>2, FinishKept DEF DataInv, RunInv
  <2>2. to_run[t] \in Nodes /\ graph.childnodes[to_run[t]] \in Seq(Nodes)
    BY <1>1, <2>1, QueueTypes, GraphFacts
  <2>3. /\ pc' \in [Threads -> Pcs] /\ todo' \in [Threads -> Seq(Nodes)]
        /\ to_run' \in [Threads -> Nodes \cup {NoNode}] /\ finished' \subseteq Nodes
    BY <1>1, <1>2, <2>2 DEF FinishProcess, Goto, Pcs, TypeOK
  <2>. QED
    BY <1>1, <1>2, <2>3
       DEF FinishProcess, graphVars, countVars, semVars, callerVars, TypeOK
<1>3. CASE ReachTerminal(t)
  <2>1. terminal_refcnt' \in Nat
    <3>1. terminal_refcnt >= 1
      BY <1>3, ReachKept
    <3>. QED
      BY <1>1, <1>3, <3>1 DEF ReachTerminal, TypeOK
  <2>2. pc' \in [Threads -> Pcs]
    BY <1>1, <1>3 DEF ReachTerminal, Goto, Pcs, TypeOK
  <2>. QED
    BY <1>1, <1>3, <2>1, <2>2
       DEF ReachTerminal, countVars, semVars, localVars, historyVars, callerVars, TypeOK
<1>. USE DEF Goto, graphVars, countVars, semVars, localVars, historyVars, callerVars, Pcs, TypeOK
<1>4. CASE PostCallbackDone(t)
  BY <1>1, <1>4 DEF PostCallbackDone
<1>5. CASE OthersIdle(t)
  BY <1>1, <1>5 DEF OthersIdle
<1>6. CASE CycleOver(t)
  BY <1>1, <1>6 DEF CycleOver
<1>7. CASE WaitCallbackStart(t)
  BY <1>1, <1>7 DEF WaitCallbackStart
<1>8. CASE NextCycle(t)
  BY <1>1, <1>8 DEF NextCycle
<1>9. CASE ResetTerminal(t)
  BY <1>1, <1>9, SomeTerminal DEF ResetTerminal
<1>10. CASE WorkersActive(t)
  BY <1>1, <1>10 DEF WorkersActive
<1>. QED
  BY <1>2, <1>3, <1>4, <1>5, <1>6, <1>7, <1>8, <1>9, <1>10 DEF LeadStep

LEMMA CallerTypes ==
  ASSUME IInv,
         \/ StartCycle \/ RouterStep \/ (\E g \in Graphs : Rechain(g)) \/ Terminate \/ GtkStep
         \/ UNCHANGED vars
  PROVE  TypeOK'
<1>1. TypeOK
  BY DEF IInv
<1>2. CASE \E g \in Graphs : Rechain(g)
  <2>1. PICK g \in Graphs : Rechain(g)
    BY <1>2
  <2>2. Reserved(cap, g) \in Nat /\ Reserved(cap, g) >= 2
    BY <1>1, ReservedLarge DEF TypeOK
  <2>3. NumTerminal(g) \in Nat
    BY SomeTerminal
  <2>4. \A n : InitRefcount(g, n) \in Nat
    BY GraphFacts, NodeSet DEF InitRefcount
  <2>5. refcount' \in [Nodes -> Nat]
    BY <2>1, <2>4 DEF Rechain
  <2>6. trigger_queue' \in Seq(Slot(Threads, Nodes))
    <3>1. trigger_queue' = trigger_queue \/ trigger_queue' = << >>
      BY <2>1 DEF Rechain
    <3>2. PICK z : z = << >>
      OBVIOUS
    <3>3. z \in Seq(Slot(Threads, Nodes))
      BY <3>2
    <3>. QED
      BY <1>1, <3>1, <3>2, <3>3 DEF TypeOK
  <2>7. cap' \in Nat \ {0, 1}
    BY <2>1, <2>2 DEF Rechain
  <2>. QED
    BY <1>1, <2>1, <2>3, <2>5, <2>6, <2>7
       DEF Rechain, countVars, semVars, localVars, callerVars, TypeOK
<1>. USE DEF Goto, graphVars, countVars, semVars, localVars, historyVars, callerVars, TypeOK
<1>3. CASE StartCycle
  BY <1>1, <1>3 DEF StartCycle
<1>4. CASE RouterStep
  <2>1. CASE PostCallbackStart
    BY <1>1, <2>1 DEF PostCallbackStart
  <2>2. CASE WaitCallbackDone
    BY <1>1, <2>2 DEF WaitCallbackDone
  <2>3. CASE EndCycle
    BY <1>1, <2>3 DEF EndCycle
  <2>. QED
    BY <1>4, <2>1, <2>2, <2>3 DEF RouterStep
<1>5. CASE Terminate
  BY <1>1, <1>5 DEF Terminate
<1>6. CASE GtkStep
  <2>1. CASE Started
    BY <1>1, <2>1 DEF Started
  <2>2. CASE AllIdle
    BY <1>1, <2>2 DEF AllIdle
  <2>3. CASE CountSleepers
    BY <1>1, <2>3 DEF CountSleepers
  <2>4. CASE WakeSleeper
    BY <1>1, <2>4 DEF WakeSleeper
  <2>5. CASE WakeMain
    BY <1>1, <2>5 DEF WakeMain
  <2>6. CASE Joined
    BY <1>1, <2>6 DEF Joined
  <2>. QED
    BY <1>6, <2>1, <2>2, <2>3, <2>4, <2>5, <2>6 DEF GtkStep
<1>7. CASE UNCHANGED vars
  BY <1>1, <1>7 DEF vars
<1>. QED
  BY <1>2, <1>3, <1>4, <1>5, <1>6, <1>7

-----------------------------------------------------------------------------
(* The invariant at the start, and for ever.                               *)
LEMMA InitKept == Init => IInv
<1>. SUFFICES ASSUME Init PROVE IInv
  OBVIOUS
<1>1. graph \in Graphs
  BY DEF Init
<1>2. /\ refcount = [n \in Nodes |-> IF n \in graph.nodes THEN InitRefcount(graph, n) ELSE 0]
      /\ terminal_refcnt = NumTerminal(graph)
      /\ cap = Reserved(PowerOfTwoSize(NewQueueSize), graph)
      /\ trigger_queue_size = 0 /\ idle_thread_cnt = 0 /\ trigger_queue = << >>
      /\ trigger = 0 /\ callback_start = 0 /\ callback_done = 0
      /\ pc = [t \in Threads |-> IF t = MainThread THEN "await_workers" ELSE "top"]
      /\ to_run = [t \in Threads |-> NoNode] /\ todo = [t \in Threads |-> << >>]
      /\ next_init = [t \in Threads |-> 0] /\ wakeup = [t \in Threads |-> 0]
      /\ router_pc = "rest" /\ callback_in_progress = FALSE
      /\ gtk_pc = "starting" /\ tokens = 0 /\ terminate = FALSE
      /\ started = {} /\ finished = {} /\ overtaken = FALSE
  BY DEF Init
<1>3. /\ PowerOfTwoSize(NewQueueSize) \in Nat
      /\ cap \in Nat /\ cap >= Cardinality(graph.nodes) /\ cap >= 2
  <2>1. PowerOfTwoSize(NewQueueSize) \in PowersOfTwo
    BY BoundsAssumption, PowerOfTwoLarge
  <2>2. PowerOfTwoSize(NewQueueSize) \in Nat
    BY <2>1 DEF PowersOfTwo
  <2>. QED
    BY <1>1, <1>2, <2>2, ReservedLarge
<1>4. MainThread \in Threads
  BY DEF Threads
<1>5. PICK z : z = << >>
  OBVIOUS
<1>6. TypeOK
  <2>1. \A n : InitRefcount(graph, n) \in Nat
    BY <1>1, GraphFacts, NodeSet DEF InitRefcount
  <2>2. refcount \in [Nodes -> Nat]
    BY <1>2, <2>1
  <2>3. terminal_refcnt \in Nat
    BY <1>1, <1>2, SomeTerminal
  <2>4. z \in Seq(Nodes) /\ z \in Seq(Slot(Threads, Nodes))
    BY <1>5
  <2>5. todo \in [Threads -> Seq(Nodes)] /\ trigger_queue \in Seq(Slot(Threads, Nodes))
    BY <1>2, <1>5, <2>4
  <2>6. pc \in [Threads -> Pcs] /\ to_run \in [Threads -> Nodes \cup {NoNode}]
        /\ next_init \in [Threads -> Nat] /\ wakeup \in [Threads -> Nat]
    BY <1>2 DEF Pcs
  <2>7. cap \in Nat \ {0, 1}
    BY <1>3
  <2>. QED
    BY <1>1, <1>2, <2>2, <2>3, <2>5, <2>6, <2>7 DEF TypeOK
<1>7. \A t \in Threads : pc[t] \in {"await_workers", "top"} /\ todo[t] = << >> /\ next_init[t] = 0
  BY <1>2
<1>8. CallersInv
  BY <1>2, <1>7 DEF CallersInv
<1>9. DataInv
  <2>1. LocalInv
    <3>1. ASSUME NEW t \in Threads PROVE Local(t)
      <4>1. \A n : n \notin ToSet(todo[t])
        BY <1>7 DEF ToSet
      <4>2. IsInjective(todo[t])
        BY <1>7 DEF IsInjective
      <4>. QED
        BY <1>7, <4>1, <4>2 DEF Local, TriggerPcs, BootPcs
    <3>. QED
      BY <3>1 DEF LocalInv
  <2>2. \A t \in Threads : Idles(t) /\ pc[t] # "boot"
    BY <1>7 DEF Idles, NeutralPcs, QuietPcs, LeadPcs
  <2>3. \A n \in graph.nodes : refcount[n] = InitRefcount(graph, n)
    BY <1>1, <1>2, GraphFacts
  <2>4. Fresh
    BY <1>1, <1>2, <1>3, <2>1, <2>2, <2>3 DEF Fresh
  <2>. QED
    BY <2>4, FreshData
<1>10. StageInv
  <2>1. pc[MainThread] = "await_workers" /\ \A t \in Threads \ {MainThread} : pc[t] = "top"
    BY <1>2, <1>4
  <2>2. \A t \in Threads \ {MainThread} : Quiet(t)
    BY <2>1 DEF Quiet, QuietPcs
  <2>3. StageQuiet(MainThread)
    BY <1>2, <2>1, <2>2 DEF StageQuiet, LeadPcs
  <2>. QED
    BY <1>4, <2>3 DEF StageInv
<1>11. IdleInv
  <2>1. Idle = {} /\ Exited = {}
    BY <1>7 DEF Idle, Exited, IdlePcs
  <2>2. idle_thread_cnt = Cardinality({})
    BY <1>2, FS_EmptySet
  <2>3. ~terminate
    BY <1>2
  <2>4. {} \in SUBSET Threads
    OBVIOUS
  <2>. QED
    BY <2>1, <2>2, <2>3, <2>4 DEF IdleInv
<1>. QED
  BY <1>6, <1>8, <1>9, <1>10, <1>11 DEF IInv

LEMMA StepKept ==
  ASSUME IInv, [Next]_vars, ~overtaken'
  PROVE  IInv'
<1>1. CASE \E t \in Threads : ThreadStep(t)
  <2>1. PICK t \in Threads : ThreadStep(t)
    BY <1>1
  <2>2. QuietStep(t) \/ WorkStep(t) \/ FinishProcess(t) \/ ReachTerminal(t) \/ LeadStep(t)
    BY <2>1 DEF ThreadStep, QuietStep, WorkStep, LeadStep
  <2>3. TypeOK'
    BY <2>2, QuietTypes, WorkTypes, EndTypes
  <2>. QED
    BY <2>1, <2>3, ThreadKept DEF IInv
<1>2. CASE StartCycle
  BY <1>2, StartKept, CallerTypes DEF IInv
<1>3. CASE RouterStep
  BY <1>3, RouterKept, CallerTypes DEF IInv
<1>4. CASE \E g \in Graphs : Rechain(g)
  BY <1>4, RechainKept, CallerTypes DEF IInv
<1>5. CASE Terminate
  BY <1>5, TerminateKept, CallerTypes DEF IInv
<1>6. CASE GtkStep \/ UNCHANGED vars
  BY <1>6, GtkKept, CallerTypes DEF IInv
<1>. QED
  BY <1>1, <1>2, <1>3, <1>4, <1>5, <1>6 DEF Next

(* Once a thread has been overtaken it stays so.                           *)
LEMMA OvertakenStays ==
  ASSUME [Next]_vars, ~overtaken'
  PROVE  ~overtaken
<1>. USE DEF graphVars
<1>1. CASE \E t \in Threads : ThreadStep(t)
  BY <1>1 DEF ThreadStep, Top, DequeueNode, ReleaseCell, CountIdle, CountWork, PostTrigger, AllWoken,
              GoIdle, WaitTrigger, Woken, NotIdle, NodeClaimed, BeginProcess, FinishProcess,
              NotifyChild, AllNotified, ResetRefcount, CountQueued, PushClaim, PushPublish,
              AllBooted, ReachTerminal, PostCallbackDone, OthersIdle, CycleOver,
              WaitCallbackStart, NextCycle, ResetTerminal, WorkersActive
<1>2. CASE StartCycle \/ RouterStep
  BY <1>2 DEF StartCycle, RouterStep, PostCallbackStart, WaitCallbackDone, EndCycle
<1>3. CASE \E g \in Graphs : Rechain(g)
  BY <1>3 DEF Rechain
<1>4. CASE Terminate \/ GtkStep
  BY <1>4 DEF Terminate, GtkStep, Started, AllIdle, CountSleepers, WakeSleeper, WakeMain, Joined
<1>5. CASE UNCHANGED vars
  BY <1>5 DEF vars
<1>. QED
  BY <1>1, <1>2, <1>3, <1>4, <1>5 DEF Next

SafeInv == ~overtaken => IInv

(* Until a thread is overtaken by a rechain the scheduler keeps the        *)
(* invariant, for any number of threads and nodes and whatever graphs      *)
(* follow each other.                                                      *)
THEOREM SchedulerInvariance == Spec => []SafeInv
<1>1. Init => SafeInv
  BY InitKept DEF SafeInv
<1>2. SafeInv /\ [Next]_vars => SafeInv'
  BY StepKept, OvertakenStays DEF SafeInv
<1>. QED
  BY <1>1, <1>2, PTL DEF Spec

-----------------------------------------------------------------------------
(* What the invariant says of the properties.                              *)

(* All variables keep their types until a thread is overtaken.             *)
THEOREM TypeCorrect == Spec => [](~overtaken => TypeOK)
<1>1. SafeInv => (~overtaken => TypeOK)
  BY DEF IInv, SafeInv
<1>. QED
  BY <1>1, SchedulerInvariance, PTL

LEMMA NothingQueued == IInv => NothingQueuedAtEnd
<1>. SUFFICES ASSUME IInv PROVE NothingQueuedAtEnd
  OBVIOUS
<1>1. TypeOK /\ CallersInv /\ DataInv /\ StageInv
  BY DEF IInv
<1>2. ASSUME NEW l \in Threads, StageQuiet(l)
      PROVE  trigger_queue_size = 0 /\ Pending(trigger_queue) = {}
  <2>1. Rests /\ trigger_queue = << >>
    BY <1>1, <1>2, QuietRests DEF StageQuiet
  <2>2. trigger_queue_size = 0
    BY <1>1, <2>1, RestFacts
  <2>. QED
    BY <2>1, <2>2 DEF Pending
<1>3. \A t \in Threads : pc[t] \in {"cycle_done", "await_idle"} => trigger_queue_size = 0
  BY <1>1, <1>2, OneLeader DEF LeadPcs
<1>4. router_pc = "rest" /\ gtk_pc = "running" =>
        trigger_queue_size = 0 /\ Pending(trigger_queue) = {}
  BY <1>1, <1>2, RouterQuiet
<1>. QED
  BY <1>3, <1>4 DEF NothingQueuedAtEnd

(* When the last terminal node is done, and between two cycles, no node is *)
(* queued.                                                                 *)
THEOREM NothingIsQueued == Spec => []NothingQueuedAtEnd
<1>1. SafeInv => NothingQueuedAtEnd
  BY NothingQueued DEF SafeInv, NothingQueuedAtEnd
<1>. QED
  BY <1>1, SchedulerInvariance, PTL

LEMMA RoomForAll == IInv => PushNeverFails
<1>1. TypeOK /\ DataInv => PushNeverFails
  BY PushRoom DEF PushNeverFails
<1>. QED
  BY <1>1 DEF IInv

(* A push never finds the queue full, whatever cells are still held.       *)
THEOREM RoomForEveryNode == Spec => []PushNeverFails
<1>1. SafeInv => PushNeverFails
  BY RoomForAll DEF SafeInv, PushNeverFails
<1>. QED
  BY <1>1, SchedulerInvariance, PTL

LEMMA CountsBack == IInv => RefcountsRestored
<1>. SUFFICES ASSUME IInv, router_pc = "rest", NEW n \in graph.nodes
              PROVE  refcount[n] = InitRefcount(graph, n)
  BY DEF RefcountsRestored
<1>1. TypeOK /\ CallersInv /\ DataInv /\ StageInv
  BY DEF IInv
<1>2. graph \in Graphs
  BY <1>1, QueueTypes
<1>3. CASE \E l \in Threads : StageQuiet(l)
  BY <1>1, <1>3, QuietRests, RestFacts
<1>4. CASE StageOver
  <2>1. finished \in {{}, graph.nodes}
    BY <1>4 DEF StageOver
  <2>2. ASSUME NEW t \in Threads PROVE todo[t] = << >> /\ pc[t] # "reset_refcount"
    <3>1. Quiet(t) \/ pc[t] \in BootPcs
      BY <1>4 DEF StageOver
    <3>2. Local(t)
      BY <1>1 DEF DataInv, LocalInv
    <3>. QED
      BY <3>1, <3>2 DEF Quiet, QuietPcs, BootPcs, Local, TriggerPcs
  <2>3. Owing(n) = {}
    <3>1. \A t \in Threads : ~Owes(t, n)
      BY <2>2 DEF Owes, ToSet
    <3>. QED
      BY <3>1 DEF Owing
  <2>4. Cardinality(Owing(n)) = 0
    BY <2>3, FS_EmptySet
  <2>5. IF Missing(n) # {} \/ Owing(n) # {}
        THEN refcount[n] = Cardinality(Missing(n)) + Cardinality(Owing(n))
        ELSE refcount[n] = IF \E t \in Threads : pc[t] = "reset_refcount" /\ Head(todo[t]) = n
                           THEN 0 ELSE InitRefcount(graph, n)
    BY <1>1 DEF DataInv, RefcountInv
  <2>6. Missing(n) # {} => Missing(n) = Parents(graph, n)
    BY <1>2, <2>1, GraphFacts DEF Missing
  <2>7. CASE Missing(n) = {}
    BY <2>2, <2>3, <2>5, <2>7
  <2>8. CASE Missing(n) # {}
    <3>1. Cardinality(Parents(graph, n)) \in Nat
      BY <1>2, GraphFacts, NodeSet
    <3>2. refcount[n] = Cardinality(Parents(graph, n)) + 0
      BY <2>4, <2>5, <2>6, <2>8
    <3>. QED
      BY <3>1, <3>2 DEF InitRefcount
  <2>. QED
    BY <2>7, <2>8
<1>5. ~StageActive
  BY DEF StageActive
<1>. QED
  BY <1>1, <1>3, <1>4, <1>5 DEF StageInv

(* Between two cycles every refcount is back at its start value.           *)
THEOREM RefcountsAreRestored == Spec => []RefcountsRestored
<1>1. SafeInv => RefcountsRestored
  BY CountsBack DEF SafeInv, RefcountsRestored
<1>. QED
  BY <1>1, SchedulerInvariance, PTL

LEMMA NobodyWorks == IInv => BetweenCyclesQuiet
<1>. SUFFICES ASSUME IInv, router_pc = "rest", gtk_pc = "running", NEW t \in Threads
              PROVE  \/ pc[t] \in {"top", "dequeue", "dequeue_again", "go_idle",
                                   "wait_trigger", "woken", "not_idle", "await_idle",
                                   "cycle_over", "wait_callback", "await_workers",
                                   "first_callback"}
                     \/ pc[t] = "notify" /\ todo[t] = << >>
                     \/ pc[t] = "boot" /\ next_init[t] >= Len(InitTriggers(graph))
  BY DEF BetweenCyclesQuiet
<1>1. TypeOK /\ CallersInv /\ DataInv /\ StageInv
  BY DEF IInv
<1>2. PICK l \in Threads : StageQuiet(l)
  BY <1>1, RouterQuiet
<1>3. ~terminate /\ pc[t] # "exited"
  BY <1>1, RouterQuiet DEF CallersInv
<1>4. CASE t = l
  <2>1. pc[l] \in LeadPcs /\ pc[l] \notin {"cycle_done", "reset_terminal", "next_cycle"}
    BY <1>2, <1>3 DEF StageQuiet
  <2>. QED
    BY <1>4, <2>1 DEF LeadPcs
<1>5. CASE t # l
  <2>1. Quiet(t)
    BY <1>2, <1>5 DEF StageQuiet
  <2>. QED
    BY <1>3, <2>1 DEF Quiet, QuietPcs, Initials
<1>. QED
  BY <1>4, <1>5

(* Between two cycles no thread works on a node.                           *)
THEOREM NobodyWorksBetweenCycles == Spec => []BetweenCyclesQuiet
<1>1. SafeInv => BetweenCyclesQuiet
  BY NobodyWorks DEF SafeInv, BetweenCyclesQuiet
<1>. QED
  BY <1>1, SchedulerInvariance, PTL

-----------------------------------------------------------------------------
(* While a cycle runs somebody is awake: among the nodes that are not done *)
(* there is one that waits for none of the others, and it is in somebody's *)
(* hands or in the queue, where somebody still looks.                      *)
LEMMA ActiveAwake ==
  ASSUME TypeOK, DataInv, StageActive, \A t \in Threads : pc[t] \in IdlePcs
  PROVE  FALSE
<1>1. graph \in Graphs /\ finished \subseteq started /\ started \subseteq graph.nodes
  BY QueueTypes DEF DataInv, RunInv
<1>2. \A t \in Threads : pc[t] \notin RunPcs \cup TriggerPcs \cup PublishPcs \cup ReleasePcs \cup BootPcs
                                      \cup LookPcs \cup {"notify", "terminal"}
  BY DEF IdlePcs, RunPcs, TriggerPcs, PublishPcs, ReleasePcs, BootPcs, LookPcs
<1>3. graph.nodes \ finished # {}
  <2>1. \E n \in graph.nodes \ finished : graph.childnodes[n] = << >>
    <3>1. SUFFICES ASSUME ~\E n \in graph.nodes \ finished : graph.childnodes[n] = << >>
                   PROVE  FALSE
      OBVIOUS
    <3>2. finished = graph.nodes /\ started = graph.nodes
      BY <3>1, AllDone
    <3>3. {n \in graph.nodes \ finished : graph.childnodes[n] = << >>} = {}
          /\ {t \in Threads : pc[t] = "terminal"} = {}
      BY <1>2, <3>2
    <3>4. Cardinality({n \in graph.nodes \ finished : graph.childnodes[n] = << >>}) = 0
          /\ Cardinality({t \in Threads : pc[t] = "terminal"}) = 0
      BY <3>3, FS_EmptySet
    <3>. QED
      BY <3>4 DEF StageActive
  <2>. QED
    BY <2>1
<1>4. PICK n \in graph.nodes \ finished : Parents(graph, n) \cap (graph.nodes \ finished) = {}
  BY <1>1, <1>3, FirstNode
<1>5. Missing(n) = {}
  BY <1>1, <1>4, GraphFacts DEF Missing
<1>6. Owing(n) = {}
  <2>1. ASSUME NEW t \in Threads PROVE ~Owes(t, n)
    <3>1. todo[t] = << >>
      BY <1>2 DEF DataInv, LocalInv, Local, PublishPcs
    <3>. QED
      BY <3>1 DEF Owes, ToSet
  <2>. QED
    BY <2>1 DEF Owing
<1>7. ~\E t \in Threads : Runs(t, n) \/ Triggering(t, n) \/ Booting(t)
  BY <1>2 DEF Runs, Triggering, Booting, BootPcs
<1>8. Pushed(n)
  <2>1. CASE Parents(graph, n) # {}
    BY <1>5, <1>6, <1>7, <2>1 DEF DataInv, RefcountInv
  <2>2. CASE Parents(graph, n) = {}
    <3>1. PICK i \in DOMAIN Initials : Initials[i] = n
      BY <1>1, <2>2, InitialNodes DEF Initials
    <3>2. Pushed(Initials[i])
      BY <1>7 DEF StageActive
    <3>. QED
      BY <3>1, <3>2
  <2>. QED
    BY <2>1, <2>2
<1>9. n \notin started
  BY <1>4, <1>7 DEF DataInv, RunInv
<1>10. PICK i \in DOMAIN trigger_queue : trigger_queue[i].val = n
  BY <1>7, <1>8, <1>9 DEF Pushed
<1>11. trigger_queue[i].st = "ready"
  <2>1. SlotOK(trigger_queue[i]) /\ trigger_queue[i].st \in SlotStates
    BY QueueTypes DEF DataInv, SlotsInv
  <2>2. trigger_queue[i].st # "free"
    BY <1>7, <1>9, <1>10, <2>1 DEF SlotOK
  <2>. QED
    BY <1>2, <2>1, <2>2 DEF SlotOK, SlotStates
<1>. QED
  BY <1>2, <1>11 DEF StageActive

LEMMA Awake == IInv => SomebodyAwake
<1>. SUFFICES ASSUME IInv PROVE idle_thread_cnt <= num_threads
  BY DEF SomebodyAwake
<1>1. TypeOK /\ CallersInv /\ DataInv /\ StageInv /\ IdleInv
  BY DEF IInv
<1>2. PICK C \in SUBSET Threads :
        /\ Idle \subseteq C /\ C \subseteq Idle \cup Exited
        /\ idle_thread_cnt = Cardinality(C)
        /\ ~Leads /\ terminate =>
              \E w \in Threads \ C : pc[w] \in BootPcs \cup {"top", "exited"}
  BY <1>1 DEF IdleInv
<1>3. C # Threads
  <2>1. CASE Leads
    BY <1>2, <2>1 DEF Leads, LeadPcs, Idle, Exited, IdlePcs
  <2>2. CASE ~Leads /\ terminate
    BY <1>2, <2>2
  <2>3. CASE ~Leads /\ ~terminate
    <3>1. StageActive
      BY <1>1, <2>3 DEF StageInv, StageQuiet, StageOver, Leads
    <3>2. Exited = {}
      BY <1>1, <2>3 DEF CallersInv, Exited
    <3>3. ~\A t \in Threads : pc[t] \in IdlePcs
      BY <1>1, <3>1, ActiveAwake
    <3>. QED
      BY <1>2, <3>2, <3>3 DEF Idle
  <2>. QED
    BY <2>1, <2>2, <2>3
<1>4. PICK w \in Threads : w \notin C
  BY <1>2, <1>3
<1>5. IsFiniteSet(Threads \ {w}) /\ Cardinality(Threads \ {w}) = Cardinality(Threads) - 1
  <2>1. IsFiniteSet(Threads)
    BY ThreadsFinite
  <2>. QED
    BY <2>1, FS_RemoveElement
<1>6. Cardinality(C) <= Cardinality(Threads \ {w})
  <2>1. C \subseteq Threads \ {w}
    BY <1>2, <1>4
  <2>. QED
    BY <1>5, <2>1, FS_Subset
<1>7. num_threads \in Nat /\ Cardinality(Threads) = num_threads + 1
  <2>1. IsFiniteSet(Workers)
    BY ThreadsAssumption
  <2>. QED
    BY <2>1, ThreadsFinite, FS_CardinalityType DEF num_threads
<1>8. PICK k \in Nat : k = Cardinality(C)
  BY ThreadSet
<1>9. k <= (num_threads + 1) - 1
  BY <1>5, <1>6, <1>7, <1>8
<1>. QED
  BY <1>2, <1>7, <1>8, <1>9

(* Not all threads sleep: in every state at least one of them, a worker or *)
(* the main thread, does not count as idle.                                *)
THEOREM SomebodyIsAwake == Spec => []SomebodyAwake
<1>1. SafeInv => SomebodyAwake
  BY Awake DEF SafeInv, SomebodyAwake
<1>. QED
  BY <1>1, SchedulerInvariance, PTL

-----------------------------------------------------------------------------
(* The scheduler implements the cycle.                                     *)
LEMMA CycleParents ==
  ASSUME NEW g, NEW n
  PROVE  Cycle!Parents(g, n) = Parents(g, n)
<1>1. \A m : n \in Children(g, m) <=> \E i \in DOMAIN g.childnodes[m] : g.childnodes[m][i] = n
  BY DEF Children, ToSet
<1>. QED
  BY <1>1 DEF Cycle!Parents, Parents

LEMMA StepImplements ==
  ASSUME SafeInv, [Next]_vars
  PROVE  [Cycle!CycleNext]_Cycle!cycleVars
<1>0. CASE overtaken
  BY <1>0, OvertakenStays DEF Cycle!CycleNext, Cycle!NoPromise
<1>. SUFFICES ASSUME ~overtaken PROVE [Cycle!CycleNext]_Cycle!cycleVars
  BY <1>0
<1>. IInv
  BY DEF SafeInv
<1>1. TypeOK /\ CallersInv /\ DataInv /\ StageInv
  BY DEF IInv
<1>2. CASE \E t \in Threads : ThreadStep(t)
  <2>1. PICK t \in Threads : ThreadStep(t)
    BY <1>2
  <2>2. CASE BeginProcess(t)
    <3>1. PICK n : n = to_run[t]
      OBVIOUS
    <3>2. n \in graph.nodes \ started /\ Parents(graph, n) \subseteq finished
      BY <1>1, <2>2, <3>1, BeginData
    <3>3. StageActive
      BY <1>1, <2>2, Engaged DEF BeginProcess, RunPcs
    <3>4. router_pc = "wait" /\ router_pc' = router_pc
      BY <2>2, <3>3 DEF StageActive, BeginProcess, callerVars
    <3>5. Cycle!StartNode(n)
      BY <2>2, <3>1, <3>2, <3>4, CycleParents DEF BeginProcess, Cycle!StartNode, graphVars
    <3>. QED
      BY <3>2, <3>5 DEF Cycle!CycleNext
  <2>3. CASE FinishProcess(t)
    <3>1. PICK n : n = to_run[t]
      OBVIOUS
    <3>2. n \in started \ finished /\ n \in graph.nodes
      BY <1>1, <2>3, <3>1, FinishKept DEF DataInv, RunInv
    <3>3. Cycle!FinishNode(n)
      BY <2>3, <3>1, <3>2 DEF FinishProcess, Cycle!FinishNode, graphVars, callerVars
    <3>. QED
      BY <3>2, <3>3 DEF Cycle!CycleNext
  <2>4. CASE ~BeginProcess(t) /\ ~FinishProcess(t)
    <3>1. UNCHANGED <<graph, started, finished, overtaken, router_pc>>
      <4>. USE DEF graphVars, callerVars, historyVars
      <4>1. CASE QuietStep(t)
        BY <4>1 DEF QuietStep, Top, DequeueNode, GoIdle, WaitTrigger, Woken, NotIdle, AllNotified, AllBooted
      <4>2. CASE WorkStep(t)
        BY <2>4, <4>2 DEF WorkStep, DequeueNode, ReleaseCell, CountIdle, CountWork, PostTrigger, AllWoken,
                          NodeClaimed, NotifyChild, ResetRefcount, CountQueued, PushClaim, PushPublish
      <4>3. CASE ReachTerminal(t)
        BY <4>3 DEF ReachTerminal
      <4>4. CASE LeadStep(t)
        BY <1>1, <4>4, LeadStepMove
      <4>. QED
        BY <2>1, <2>4, <4>1, <4>2, <4>3, <4>4 DEF ThreadStep, QuietStep, WorkStep, LeadStep
    <3>. QED
      BY <3>1 DEF Cycle!cycleVars
  <2>. QED
    BY <2>2, <2>3, <2>4
<1>3. CASE StartCycle
  <2>1. Cycle!BeginCycle
    BY <1>3 DEF StartCycle, Cycle!BeginCycle, graphVars
  <2>. QED
    BY <2>1 DEF Cycle!CycleNext
<1>4. CASE RouterStep
  <2>1. CASE PostCallbackStart \/ WaitCallbackDone
    BY <2>1 DEF PostCallbackStart, WaitCallbackDone, Cycle!cycleVars, graphVars, historyVars
  <2>2. CASE EndCycle
    <3>1. PICK l \in Threads : StageQuiet(l)
      BY <1>1, <2>2, RouterQuiet DEF EndCycle
    <3>2. finished = graph.nodes
      BY <2>2, <3>1 DEF StageQuiet, EndCycle
    <3>3. Cycle!EndCycle
      BY <2>2, <3>2 DEF EndCycle, Cycle!EndCycle, graphVars, historyVars
    <3>. QED
      BY <3>3 DEF Cycle!CycleNext
  <2>. QED
    BY <1>4, <2>1, <2>2 DEF RouterStep
<1>5. CASE \E g \in Graphs : Rechain(g)
  <2>1. PICK g \in Graphs : Rechain(g)
    BY <1>5
  <2>2. overtaken' \in BOOLEAN /\ (overtaken => overtaken')
    BY <2>1 DEF Rechain, Overtakes
  <2>3. Cycle!ReplaceGraph(g)
    BY <2>1, <2>2 DEF Rechain, Cycle!ReplaceGraph, callerVars
  <2>. QED
    BY <2>3 DEF Cycle!CycleNext
<1>6. CASE Terminate \/ GtkStep
  BY <1>6 DEF Terminate, GtkStep, Started, AllIdle, CountSleepers, WakeSleeper, WakeMain, Joined,
              Cycle!cycleVars, graphVars, historyVars
<1>7. CASE UNCHANGED vars
  BY <1>7 DEF vars, graphVars, callerVars, historyVars, Cycle!cycleVars
<1>. QED
  BY <1>2, <1>3, <1>4, <1>5, <1>6, <1>7 DEF Next

(* Every cycle processes each node exactly once, after all the nodes that  *)
(* feed it, and is over only when all nodes are done: for any number of    *)
(* threads, whatever the interleaving of their steps and whatever graphs   *)
(* follow each other, until a rechain overtakes a thread.                  *)
THEOREM CycleImplemented == Spec => ImplementsGraphCycle
<1>1. Init => Cycle!CycleInit
  BY DEF Init, Cycle!CycleInit
<1>2. SafeInv /\ [Next]_vars => [Cycle!CycleNext]_Cycle!cycleVars
  BY StepImplements
<1>. QED
  BY <1>1, <1>2, SchedulerInvariance, PTL DEF Spec, ImplementsGraphCycle, Cycle!CycleSpec
=============================================================================
