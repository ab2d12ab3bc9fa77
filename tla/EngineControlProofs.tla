------------------------ MODULE EngineControlProofs ------------------------
(***************************************************************************)
(* Pauses exclude cycles, whatever calls are made, nested and exported,    *)
(* and however long the calls, the count-in and the export are.            *)
(***************************************************************************)
EXTENDS EngineControl, SequenceTheorems, TLAPS

(* From here on a call has stopped the engine.                             *)
Stopping == {"wait", "flush", "paused", "dialog", "resume", "restart", "setup"}

(* Calls are made within a pause, which has stopped the engine by then:    *)
(* run is 1 to restore for the outermost call, 0 for the others.           *)
StackInv ==
  /\ \A i \in 1..Len(stack) : i < Len(stack) =>
       stack[i].op = "pause" /\ stack[i].at \in {"paused", "dialog"}
  /\ \A i \in 1..Len(stack) : stack[i].running = IF i = 1 THEN 1 ELSE 0
  /\ \A i \in 1..Len(stack) :
       /\ stack[i].op = "pause" /\ stack[i].kind = "export" => Chunks > 0
       /\ stack[i].op = "request" => stack[i].kind \in PlayRequests
  /\ run = IF Len(stack) > 1 \/ (stack # << >> /\ Top.at \in Stopping) THEN 0 ELSE 1

(* The handshake: a cycle is announced before run is read, and a call      *)
(* that has seen no announcement has forbidden cycles before.              *)
CycleInv == /\ cycle_running = 0 => cycle["audio"].at = "idle"
            /\ ChangesExcludeCycles

(* graph_access has at most one holder.                                    *)
AccessInv ==
  /\ graph_access = 1 => ~At("access", "change") /\ \A t \in Threads : cycle[t].at # "process"
  /\ AccessExcludesCycles
  /\ \A t, u \in Threads : cycle[t].at = "process" /\ cycle[u].at = "process" => t = u

(* The exporting thread runs cycles only for blocks that remain.           *)
ExportInv == cycle["exporter"].at # "idle" => remaining > 0

IInv == TypeOK /\ StackInv /\ CycleInv /\ AccessInv /\ ExportInv

-----------------------------------------------------------------------------
(* The stack of calls.                                                     *)
LEMMA ReplaceTop ==
  ASSUME NEW s \in Seq(Frames), s # << >>, NEW a \in Places
  PROVE  LET n == Len(s)
             t == [s EXCEPT ![Len(s)].at = a]
         IN /\ t \in Seq(Frames) /\ Len(t) = n /\ n \in Nat \ {0} /\ t # << >>
            /\ \A i \in 1..n : i # n => t[i] = s[i]
            /\ t[n] = [s[n] EXCEPT !.at = a]
<1>1. Len(s) \in Nat \ {0} /\ s[Len(s)] \in Frames
  OBVIOUS
<1>2. [s[Len(s)] EXCEPT !.at = a] \in Frames
  BY <1>1 DEF Frames
<1>. QED
  BY <1>1, <1>2

LEMMA RemoveTop ==
  ASSUME NEW s \in Seq(Frames), s # << >>
  PROVE  LET t == SubSeq(s, 1, Len(s) - 1)
         IN /\ t \in Seq(Frames) /\ Len(t) = Len(s) - 1 /\ Len(s) \in Nat \ {0}
            /\ \A i \in 1..Len(t) : t[i] = s[i]
            /\ t = << >> <=> Len(s) = 1
<1>1. Len(s) \in Nat \ {0}
  OBVIOUS
<1>2. PICK n \in Nat : n = Len(s) - 1
  BY <1>1
<1>3. 1 \in Int /\ n \in Int /\ \A i \in 1..n : s[i] \in Frames
  BY <1>1, <1>2
<1>4. /\ SubSeq(s, 1, n) \in Seq(Frames)
      /\ Len(SubSeq(s, 1, n)) = IF 1 <= n THEN n - 1 + 1 ELSE 0
      /\ \A i \in 1..(n - 1 + 1) : SubSeq(s, 1, n)[i] = s[1 + i - 1]
  BY <1>3, SubSeqProperties, SMTT(60)
<1>5. Len(SubSeq(s, 1, n)) = n /\ \A i \in 1..n : SubSeq(s, 1, n)[i] = s[i]
  BY <1>2, <1>4
<1>6. SubSeq(s, 1, n) = << >> <=> n = 0
  BY <1>4, <1>5
<1>. QED
  BY <1>1, <1>2, <1>4, <1>5, <1>6

(* A call goes on: the frame at the top moves.                             *)
LEMMA GoneOn ==
  ASSUME IInv, stack # << >>, NEW a \in Places, Goto(a),
         run' = IF Len(stack) > 1 \/ a \in Stopping THEN 0 ELSE 1
  PROVE  /\ StackInv' /\ stack' \in Seq(Frames) /\ stack' # << >> /\ Len(stack') = Len(stack)
         /\ Len(stack) \in Nat \ {0}
         /\ Top' = [Top EXCEPT !.at = a] /\ Top'.at = a /\ Top'.op = Top.op
         /\ \A i \in 1..Len(stack) : i # Len(stack) => stack'[i] = stack[i]
<1>. USE DEF IInv, TypeOK
<1>1. /\ stack' \in Seq(Frames) /\ Len(stack') = Len(stack) /\ Len(stack) \in Nat \ {0}
      /\ stack' # << >>
      /\ \A i \in 1..Len(stack) : i # Len(stack) => stack'[i] = stack[i]
      /\ stack'[Len(stack)] = [stack[Len(stack)] EXCEPT !.at = a]
  BY ReplaceTop DEF Goto
<1>2. stack[Len(stack)] \in Frames
  BY <1>1
<1>3. /\ Top' = [Top EXCEPT !.at = a] /\ Top'.at = a /\ Top'.op = Top.op
      /\ Top'.kind = Top.kind /\ Top'.running = Top.running
  BY <1>1, <1>2 DEF Top, Frames
<1>4. Len(stack') = Len(stack) /\ \A i \in 1..Len(stack') :
         /\ stack'[i].op = stack[i].op /\ stack'[i].kind = stack[i].kind
         /\ stack'[i].running = stack[i].running
         /\ i < Len(stack') => stack'[i] = stack[i]
  <2>1. ASSUME NEW i \in 1..Len(stack'), i = Len(stack)
        PROVE  /\ stack'[i].op = stack[i].op /\ stack'[i].kind = stack[i].kind
               /\ stack'[i].running = stack[i].running
    BY <1>1, <1>3, <2>1 DEF Top
  <2>. QED
    BY <1>1, <2>1
<1>5. \A i \in 1..Len(stack') : i < Len(stack') =>
         stack'[i].op = "pause" /\ stack'[i].at \in {"paused", "dialog"}
  BY <1>4 DEF StackInv
<1>6. \A i \in 1..Len(stack') : stack'[i].running = IF i = 1 THEN 1 ELSE 0
  BY <1>4 DEF StackInv
<1>7. \A i \in 1..Len(stack') :
         /\ stack'[i].op = "pause" /\ stack'[i].kind = "export" => Chunks > 0
         /\ stack'[i].op = "request" => stack'[i].kind \in PlayRequests
  BY <1>4 DEF StackInv
<1>8. run' = IF Len(stack') > 1 \/ (stack' # << >> /\ Top'.at \in Stopping) THEN 0 ELSE 1
  BY <1>1, <1>3
<1>. QED
  BY <1>1, <1>3, <1>5, <1>6, <1>7, <1>8 DEF StackInv

(* A call is made, by the main loop or by a paused call.                   *)
LEMMA Called ==
  ASSUME IInv, NEW op \in {"request", "pause", "recalc", "access"}, NEW kind \in Kinds,
         NEW at \in Places, Call(op, kind, at), at \notin Stopping,
         stack = << >> \/ At("pause", "paused") \/ At("pause", "dialog"),
         op = "pause" /\ kind = "export" => Chunks > 0,
         op = "request" => kind \in PlayRequests
  PROVE  /\ StackInv' /\ stack' \in Seq(Frames) /\ Top'.at = at /\ stack' # << >>
         /\ Len(stack') = Len(stack) + 1 /\ Len(stack) \in Nat
         /\ \A i \in 1..Len(stack) : stack'[i] = stack[i]
<1>. USE DEF IInv, TypeOK
<1>. DEFINE f == [op |-> op, kind |-> kind, at |-> at,
                  running |-> run, playing |-> play_state = "ROLLING"]
<1>1. f \in Frames /\ f.op = op /\ f.kind = kind /\ f.at = at /\ f.running = run
  BY DEF Frames
<1>2. stack' = Append(stack, f) /\ run' = run
  BY DEF Call, engine
<1>. HIDE DEF f
<1>3. /\ stack' \in Seq(Frames) /\ stack' # << >> /\ Len(stack) \in Nat
      /\ Len(stack') = Len(stack) + 1
      /\ \A i \in 1..Len(stack) : stack'[i] = stack[i]
      /\ stack'[Len(stack')] = f
  BY <1>1, <1>2
<1>4. stack # << >> => Len(stack) > 0 /\ Top.op = "pause" /\ Top.at \in {"paused", "dialog"} /\ run = 0
  BY <1>3 DEF At, StackInv, Stopping
<1>5. stack = << >> => Len(stack) = 0 /\ run = 1
  BY DEF StackInv
<1>6. \A i \in 1..Len(stack') : i < Len(stack') =>
         stack'[i].op = "pause" /\ stack'[i].at \in {"paused", "dialog"}
  BY <1>3, <1>4, <1>5 DEF StackInv, Top
<1>7. \A i \in 1..Len(stack') : stack'[i].running = IF i = 1 THEN 1 ELSE 0
  BY <1>1, <1>3, <1>4, <1>5 DEF StackInv
<1>8. \A i \in 1..Len(stack') :
         /\ stack'[i].op = "pause" /\ stack'[i].kind = "export" => Chunks > 0
         /\ stack'[i].op = "request" => stack'[i].kind \in PlayRequests
  BY <1>1, <1>3 DEF StackInv
<1>9. Top' = f
  BY <1>3 DEF Top
<1>10. run' = IF Len(stack') > 1 \/ (stack' # << >> /\ Top'.at \in Stopping) THEN 0 ELSE 1
  BY <1>1, <1>2, <1>3, <1>4, <1>5, <1>9
<1>. QED
  BY <1>1, <1>3, <1>6, <1>7, <1>8, <1>9, <1>10 DEF StackInv

(* A call returns, and restores what it found.                             *)
LEMMA Returned ==
  ASSUME IInv, stack # << >>, stack' = Caller,
         run' = IF Len(stack) > 1 THEN 0 ELSE 1
  PROVE  /\ StackInv' /\ stack' \in Seq(Frames) /\ Len(stack') = Len(stack) - 1
         /\ Len(stack) \in Nat \ {0}
         /\ \A i \in 1..Len(stack') : stack'[i] = stack[i] /\ stack'[i].at \in {"paused", "dialog"}
         /\ stack' # << >> => Top'.at \in {"paused", "dialog"}
<1>. USE DEF IInv, TypeOK
<1>1. /\ stack' \in Seq(Frames) /\ Len(stack') = Len(stack) - 1 /\ Len(stack) \in Nat \ {0}
      /\ \A i \in 1..Len(stack') : stack'[i] = stack[i]
      /\ stack' = << >> <=> Len(stack) = 1
  BY RemoveTop DEF Caller
<1>2. \A i \in 1..Len(stack') : stack'[i].op = "pause" /\ stack'[i].at \in {"paused", "dialog"}
  BY <1>1 DEF StackInv
<1>3. stack' # << >> => Top'.at \in {"paused", "dialog"}
  BY <1>1, <1>2 DEF Top
<1>4. run' = IF Len(stack') > 1 \/ (stack' # << >> /\ Top'.at \in Stopping) THEN 0 ELSE 1
  BY <1>1, <1>3 DEF Stopping
<1>5. \A i \in 1..Len(stack') :
         /\ stack'[i].running = IF i = 1 THEN 1 ELSE 0
         /\ stack'[i].op = "pause" /\ stack'[i].kind = "export" => Chunks > 0
         /\ stack'[i].op = "request" => stack'[i].kind \in PlayRequests
  BY <1>1 DEF StackInv
<1>. QED
  BY <1>1, <1>2, <1>3, <1>4, <1>5 DEF StackInv

-----------------------------------------------------------------------------
(* The steps of a cycle, on whichever thread, leave the calls alone.       *)
LEMMA Moved ==
  ASSUME IInv, NEW t \in Threads, NEW at \in InCycle \cup {"idle", "check", "finish"}, Move(t, at)
  PROVE  /\ cycle' \in [Threads -> [at : InCycle \cup {"idle", "check", "finish"}, read : PlayStates]]
         /\ cycle'[t].at = at /\ \A u \in Threads : u # t => cycle'[u] = cycle[u]
  BY DEF Move, IInv, TypeOK

LEMMA CycleKeeps ==
  ASSUME IInv, NEW t \in Threads, CycleStep(t)
  PROVE  /\ UNCHANGED <<run, cycle_running, exporting, stack, wanted, calls>>
         /\ cycle[t].at \in InCycle
         /\ cycle' \in [Threads -> [at : InCycle \cup {"idle", "check", "finish"}, read : PlayStates]]
         /\ \A u \in Threads : u # t => cycle'[u] = cycle[u]
         /\ cycle'[t].at \in InCycle \cup {"idle", "finish"}
         /\ t = "audio" => cycle'[t].at # "idle"
<1>1. CASE Prepare(t)
  <2>1. PICK at \in InCycle : cycle' = [cycle EXCEPT ![t] = [read |-> play_state, at |-> at]]
    BY <1>1 DEF Prepare, InCycle
  <2>. QED
    BY <1>1, <2>1 DEF Prepare, IInv, TypeOK, engine, InCycle
<1>2. CASE Serve(t)
  BY <1>2, Moved DEF Serve, engine, InCycle
<1>3. CASE TryLock(t)
  BY <1>3, Moved DEF TryLock, engine, InCycle
<1>4. CASE StartCycle(t)
  BY <1>4, Moved DEF StartCycle, engine, InCycle
<1>5. CASE EndCycle(t)
  BY <1>5, Moved DEF EndCycle, engine, InCycle
<1>6. CASE PostProcess(t)
  BY <1>6, Moved DEF PostProcess, engine, InCycle
<1>. QED
  BY <1>1, <1>2, <1>3, <1>4, <1>5, <1>6 DEF CycleStep

LEMMA CycleStepInv ==
  ASSUME IInv, NEW t \in Threads, CycleStep(t)
  PROVE  IInv'
<1>1. /\ UNCHANGED <<run, cycle_running, exporting, stack, wanted, calls>>
      /\ cycle[t].at \in InCycle
  BY CycleKeeps
<1>2. /\ cycle'[t].at \in InCycle \cup {"idle", "finish"}
      /\ t = "audio" => cycle'[t].at # "idle"
  BY CycleKeeps
<1>3. cycle' \in [Threads -> [at : InCycle \cup {"idle", "check", "finish"}, read : PlayStates]]
  BY CycleKeeps
<1>4. \A u \in Threads : u # t => cycle'[u] = cycle[u]
  BY CycleKeeps
<1>5. StackInv'
  BY <1>1 DEF IInv, StackInv, Top
<1>6. CycleInv'
  BY <1>1, <1>2, <1>4 DEF IInv, CycleInv, ChangesExcludeCycles, Exclusive, Threads, InCycle
<1>7. graph_access' \in {0, 1} /\ AccessInv'
  <2>1. At("access", "change")' <=> At("access", "change")
    BY <1>1 DEF At, Top
  <2>2. CASE cycle[t].at = "graph"
    <3>1. StartCycle(t)
      BY <2>2 DEF CycleStep, Prepare, Serve, TryLock, EndCycle, PostProcess
    <3>2. Move(t, IF graph_access > 0 THEN "process" ELSE "post")
      BY <3>1 DEF StartCycle
    <3>3. cycle'[t].at = IF graph_access > 0 THEN "process" ELSE "post"
      BY <3>2 DEF Move, IInv, TypeOK
    <3>. QED
      BY <1>4, <2>1, <3>1, <3>3 DEF StartCycle, IInv, TypeOK, AccessInv, AccessExcludesCycles
  <2>3. CASE cycle[t].at = "process"
    <3>1. EndCycle(t)
      BY <2>3 DEF CycleStep, Prepare, Serve, TryLock, StartCycle, PostProcess
    <3>2. cycle'[t].at = "post"
      BY <3>1 DEF EndCycle, Move, IInv, TypeOK
    <3>. QED
      BY <1>4, <2>1, <2>3, <3>1, <3>2 DEF EndCycle, IInv, TypeOK, AccessInv, AccessExcludesCycles
  <2>4. CASE cycle[t].at \notin {"graph", "process"}
    <3>1. graph_access' = graph_access /\ cycle'[t].at # "process"
      BY <2>4 DEF CycleStep, Prepare, Serve, TryLock, StartCycle, EndCycle, PostProcess, Move,
                  IInv, TypeOK
    <3>. QED
      BY <1>4, <2>1, <3>1 DEF IInv, TypeOK, AccessInv, AccessExcludesCycles
  <2>. QED
    BY <2>2, <2>3, <2>4
<1>8. remaining' \in 0..Chunks /\ ExportInv'
  <2>1. CASE PostProcess(t)
    <3>1. t = "exporter" => remaining > 0
      BY <1>1 DEF IInv, ExportInv, InCycle
    <3>2. t = "exporter" => cycle'[t].at = "idle"
      BY <2>1 DEF PostProcess, Move, IInv, TypeOK
    <3>3. "exporter" \in Threads
      BY DEF Threads
    <3>. QED
      BY <1>4, <2>1, <3>1, <3>2, <3>3, BoundsAssumption DEF PostProcess, IInv, TypeOK, ExportInv
  <2>2. CASE ~PostProcess(t)
    <3>1. remaining' = remaining
      BY <2>2 DEF CycleStep, Prepare, Serve, TryLock, StartCycle, EndCycle, engine
    <3>. QED
      BY <1>1, <1>4, <3>1 DEF IInv, TypeOK, ExportInv, InCycle, Threads
  <2>. QED
    BY <2>1, <2>2
<1>9. /\ play_state' \in PlayStates /\ countin_frames_remaining' \in 0..CountIn
      /\ port_operation_lock' \in 0..MaxLock
  <2>1. play_state' \in PlayStates
    BY DEF CycleStep, Prepare, Serve, TryLock, StartCycle, EndCycle, PostProcess,
           transport, IInv, TypeOK, PlayStates
  <2>2. CASE PostProcess(t)
    <3>1. countin_frames_remaining' \in 0..CountIn
      BY <2>2, BoundsAssumption DEF PostProcess, CountedIn, transport, IInv, TypeOK
    <3>2. port_operation_lock' \in 0..MaxLock
      BY <2>2, BoundsAssumption DEF PostProcess, IInv, TypeOK
    <3>. QED
      BY <2>1, <3>1, <3>2
  <2>3. CASE ~PostProcess(t)
    <3>1. countin_frames_remaining' \in 0..CountIn
      BY <2>3 DEF CycleStep, Prepare, Serve, TryLock, StartCycle, EndCycle, CountedIn,
                  transport, IInv, TypeOK
    <3>2. port_operation_lock' \in 0..MaxLock
      BY <2>3, BoundsAssumption
      DEF CycleStep, Prepare, Serve, TryLock, StartCycle, EndCycle, IInv, TypeOK
    <3>. QED
      BY <2>1, <3>1, <3>2
  <2>. QED
    BY <2>2, <2>3
<1>. QED
  BY <1>1, <1>3, <1>5, <1>6, <1>7, <1>8, <1>9 DEF IInv, TypeOK

-----------------------------------------------------------------------------
(* The steps of the audio and the exporting thread outside of a cycle.     *)
LEMMA BetweenCyclesInv ==
  ASSUME IInv, BeginCycle \/ CheckRun \/ FinishCycle \/ ExportBlock
  PROVE  IInv'
<1>. USE DEF Threads
<1>1. UNCHANGED <<run, exporting, remaining, transport, port_operation_lock,
                  graph_access, stack, wanted, calls>>
  BY DEF BeginCycle, CheckRun, FinishCycle, ExportBlock, engine
<1>2. StackInv'
  BY <1>1 DEF IInv, StackInv, Top
<1>3. At("access", "change")' <=> At("access", "change")
  BY <1>1 DEF At, Top
<1>4. Exclusive' <=> Exclusive
  BY <1>1 DEF Exclusive
<1>5. Exclusive => run = 0
  <2>1. SUFFICES ASSUME NEW i \in 1..Len(stack), stack[i].at \in Stopping
                 PROVE  run = 0
    BY DEF Exclusive, Stopping
  <2>. QED
    BY <2>1 DEF IInv, TypeOK, StackInv, Top
<1>6. CASE BeginCycle
  <2>1. /\ cycle' \in [Threads -> [at : InCycle \cup {"idle", "check", "finish"}, read : PlayStates]]
        /\ cycle'["audio"].at = "check"
        /\ \A u \in Threads : u # "audio" => cycle'[u] = cycle[u]
    BY <1>6, Moved DEF BeginCycle
  <2>. QED
    BY <1>1, <1>2, <1>3, <1>4, <1>6, <2>1
    DEF BeginCycle, IInv, TypeOK, CycleInv, AccessInv, ExportInv, transport, InCycle,
        ChangesExcludeCycles, AccessExcludesCycles
<1>7. CASE CheckRun
  <2>1. /\ cycle' \in [Threads -> [at : InCycle \cup {"idle", "check", "finish"}, read : PlayStates]]
        /\ cycle'["audio"].at = IF run = 0 THEN "finish" ELSE "prepare"
        /\ \A u \in Threads : u # "audio" => cycle'[u] = cycle[u]
    BY <1>7, Moved DEF CheckRun, InCycle
  <2>. QED
    BY <1>1, <1>2, <1>3, <1>4, <1>5, <1>7, <2>1
    DEF CheckRun, IInv, TypeOK, CycleInv, AccessInv, ExportInv, transport, engine, InCycle,
        ChangesExcludeCycles, AccessExcludesCycles
<1>8. CASE FinishCycle
  <2>1. /\ cycle' \in [Threads -> [at : InCycle \cup {"idle", "check", "finish"}, read : PlayStates]]
        /\ cycle'["audio"].at = "idle"
        /\ \A u \in Threads : u # "audio" => cycle'[u] = cycle[u]
    BY <1>8, Moved DEF FinishCycle
  <2>. QED
    BY <1>1, <1>2, <1>3, <1>4, <1>8, <2>1
    DEF FinishCycle, IInv, TypeOK, CycleInv, AccessInv, ExportInv, transport, InCycle,
        ChangesExcludeCycles, AccessExcludesCycles
<1>9. CASE ExportBlock
  <2>1. /\ cycle' \in [Threads -> [at : InCycle \cup {"idle", "check", "finish"}, read : PlayStates]]
        /\ cycle'["exporter"].at = "prepare"
        /\ \A u \in Threads : u # "exporter" => cycle'[u] = cycle[u]
    BY <1>9, Moved DEF ExportBlock, InCycle
  <2>. QED
    BY <1>1, <1>2, <1>3, <1>4, <1>9, <2>1
    DEF ExportBlock, IInv, TypeOK, CycleInv, AccessInv, ExportInv, transport, engine, InCycle,
        ChangesExcludeCycles, AccessExcludesCycles
<1>. QED
  BY <1>6, <1>7, <1>8, <1>9

-----------------------------------------------------------------------------
(* The GTK thread.                                                         *)
Scalars == /\ cycle_running \in {0, 1} /\ exporting \in BOOLEAN /\ remaining \in 0..Chunks
           /\ play_state \in PlayStates /\ countin_frames_remaining \in 0..CountIn
           /\ port_operation_lock \in 0..MaxLock
           /\ wanted \in {"roll", "pause"} /\ calls \in 0..MaxCalls
Changing == {"flush", "paused", "dialog", "resume", "restart", "setup"}

(* A step within a call that touches neither cycles nor graph_access.      *)
LEMMA GoneOnInv ==
  ASSUME IInv, stack # << >>, NEW a \in Places, Goto(a),
         run' = IF Len(stack) > 1 \/ a \in Stopping THEN 0 ELSE 1,
         Scalars', UNCHANGED <<cycle_running, cycle, graph_access>>,
         a # "change", Top.at # "change",
         a \in Changing => Top.at \in Changing,
         remaining' = remaining \/ remaining' > 0
  PROVE  IInv'
<1>1. /\ StackInv' /\ stack' \in Seq(Frames) /\ stack' # << >> /\ Len(stack') = Len(stack)
      /\ Len(stack) \in Nat \ {0} /\ Top'.at = a
      /\ \A i \in 1..Len(stack) : i # Len(stack) => stack'[i] = stack[i]
  BY GoneOn
<1>2. Exclusive' => Exclusive
  <2>1. SUFFICES ASSUME NEW i \in 1..Len(stack), stack'[i].at \in Changing
                 PROVE  stack[i].at \in Changing
    BY <1>1 DEF Exclusive, Changing
  <2>. QED
    BY <1>1, <2>1 DEF Top
<1>3. CycleInv'
  BY <1>2 DEF IInv, CycleInv, ChangesExcludeCycles
<1>4. ~At("access", "change")' /\ ~At("access", "change")
  BY <1>1 DEF At
<1>5. AccessInv'
  BY <1>4 DEF IInv, AccessInv, AccessExcludesCycles
<1>6. run' \in {0, 1}
  OBVIOUS
<1>. QED
  BY <1>1, <1>3, <1>5, <1>6 DEF Scalars, IInv, TypeOK, ExportInv

(* A new call.                                                             *)
LEMMA CalledInv ==
  ASSUME IInv, NEW op \in {"request", "pause", "recalc", "access"}, NEW kind \in Kinds,
         NEW at \in Places, Call(op, kind, at), at \notin Stopping, at # "change",
         stack = << >> \/ At("pause", "paused") \/ At("pause", "dialog"),
         op = "pause" /\ kind = "export" => Chunks > 0,
         op = "request" => kind \in PlayRequests
  PROVE  IInv'
<1>1. /\ StackInv' /\ stack' \in Seq(Frames) /\ Top'.at = at /\ stack' # << >>
      /\ Len(stack') = Len(stack) + 1 /\ Len(stack) \in Nat
      /\ \A i \in 1..Len(stack) : stack'[i] = stack[i]
  BY Called
<1>2. /\ UNCHANGED <<engine, transport, port_operation_lock, graph_access, cycle, wanted>>
      /\ calls' \in 0..MaxCalls
  BY BoundsAssumption DEF Call, IInv, TypeOK
<1>3. Exclusive' => Exclusive
  <2>1. SUFFICES ASSUME NEW i \in 1..Len(stack'), stack'[i].at \in Changing
                 PROVE  i \in 1..Len(stack) /\ stack[i].at \in Changing
    BY <1>1 DEF Exclusive, Changing
  <2>. QED
    BY <1>1, <2>1 DEF Top, Changing, Stopping
<1>4. CycleInv'
  BY <1>2, <1>3 DEF IInv, CycleInv, ChangesExcludeCycles, engine
<1>5. ~At("access", "change")' /\ ~At("access", "change")
  BY <1>1 DEF At
<1>6. AccessInv'
  BY <1>2, <1>5 DEF IInv, AccessInv, AccessExcludesCycles
<1>. QED
  BY <1>1, <1>2, <1>4, <1>6 DEF IInv, TypeOK, ExportInv, engine, transport

(* A call returns.                                                         *)
LEMMA ReturnedInv ==
  ASSUME IInv, stack # << >>, stack' = Caller,
         run' = IF Len(stack) > 1 THEN 0 ELSE 1,
         Scalars', UNCHANGED <<cycle_running, remaining, cycle>>,
         graph_access' = IF At("access", "change") THEN graph_access + 1 ELSE graph_access
  PROVE  IInv'
<1>1. /\ StackInv' /\ stack' \in Seq(Frames) /\ Len(stack') = Len(stack) - 1
      /\ Len(stack) \in Nat \ {0}
      /\ \A i \in 1..Len(stack') : stack'[i] = stack[i]
      /\ stack' # << >> => Top'.at \in {"paused", "dialog"}
  BY Returned
<1>2. Exclusive' => Exclusive
  BY <1>1 DEF Exclusive
<1>3. CycleInv'
  BY <1>2 DEF IInv, CycleInv, ChangesExcludeCycles
<1>4. ~At("access", "change")'
  BY <1>1 DEF At
<1>5. graph_access' \in {0, 1} /\ AccessInv'
  BY <1>4 DEF IInv, TypeOK, AccessInv, AccessExcludesCycles
<1>6. run' \in {0, 1}
  OBVIOUS
<1>. QED
  BY <1>1, <1>3, <1>5, <1>6 DEF Scalars, IInv, TypeOK, ExportInv

LEMMA RequestedType ==
  ASSUME IInv, NEW kind, Requested(kind)
  PROVE  play_state' \in PlayStates /\ countin_frames_remaining' \in 0..CountIn
  BY BoundsAssumption DEF Requested, IInv, TypeOK, PlayStates

LEMMA TopFrame ==
  ASSUME IInv, stack # << >>
  PROVE  /\ Top.running = IF Len(stack) > 1 THEN 0 ELSE 1
         /\ Top.op = "pause" /\ Top.kind = "export" => Chunks > 0
         /\ Top.op = "request" => Top.kind \in PlayRequests
<1>1. Len(stack) \in 1..Len(stack)
  BY DEF IInv, TypeOK
<1>. QED
  BY <1>1 DEF IInv, StackInv, Top

LEMMA GtkStepInv ==
  ASSUME IInv, GtkStep
  PROVE  IInv'
<1>. USE BoundsAssumption
<1>1. CASE LockAndRequest
  <2>1. Scalars'
    <3>1. play_state' \in PlayStates /\ countin_frames_remaining' \in 0..CountIn
      BY <1>1, RequestedType DEF LockAndRequest
    <3>2. wanted' \in {"roll", "pause"}
      BY <1>1, TopFrame DEF LockAndRequest, At, PlayRequests, IInv, TypeOK
    <3>. QED
      BY <1>1, <3>1, <3>2 DEF LockAndRequest, IInv, TypeOK, Scalars, engine
  <2>2. /\ stack # << >> /\ Top.at = "lock" /\ Goto("unlock") /\ "unlock" \in Places
        /\ run' = run /\ UNCHANGED <<cycle_running, cycle, graph_access, remaining>>
    BY <1>1 DEF LockAndRequest, At, engine, Places
  <2>3. run' = IF Len(stack) > 1 \/ "unlock" \in Stopping THEN 0 ELSE 1
    BY <2>2 DEF Stopping, IInv, StackInv
  <2>. QED
    BY <2>1, <2>2, <2>3, GoneOnInv DEF Changing
<1>2. CASE UnlockRequest
  <2>1. Scalars'
    BY <1>2 DEF UnlockRequest, IInv, TypeOK, Scalars, engine, transport
  <2>2. /\ stack # << >> /\ Top.at = "unlock" /\ Top.op = "request" /\ stack' = Caller
        /\ UNCHANGED <<run, cycle_running, remaining, cycle, graph_access>>
    BY <1>2 DEF UnlockRequest, At, engine
  <2>3. run' = IF Len(stack) > 1 THEN 0 ELSE 1
    BY <2>2 DEF IInv, StackInv, Stopping
  <2>. QED
    BY <2>1, <2>2, <2>3, ReturnedInv DEF At
<1>3. CASE PauseFaded
  <2>. DEFINE a == IF Top.playing THEN "request" ELSE "stop"
  <2>1. Scalars'
    BY <1>3 DEF PauseFaded, IInv, TypeOK, Scalars, engine, transport
  <2>2. /\ stack # << >> /\ Top.at = "fade" /\ Goto(a) /\ a \in Places
        /\ run' = run /\ UNCHANGED <<cycle_running, cycle, graph_access, remaining>>
    BY <1>3 DEF PauseFaded, At, engine, Places
  <2>3. run' = IF Len(stack) > 1 \/ a \in Stopping THEN 0 ELSE 1
    BY <2>2 DEF Stopping, IInv, StackInv
  <2>. QED
    BY <2>1, <2>2, <2>3, GoneOnInv DEF Changing
<1>4. CASE PauseRequest
  <2>1. Scalars'
    <3>1. play_state' \in PlayStates /\ countin_frames_remaining' \in 0..CountIn
      BY <1>4, RequestedType DEF PauseRequest
    <3>2. wanted' \in {"roll", "pause"}
      BY <1>4, TopFrame DEF PauseRequest, At, PlayRequests, IInv, TypeOK
    <3>. QED
      BY <1>4, <3>1, <3>2 DEF PauseRequest, IInv, TypeOK, Scalars, engine
  <2>2. /\ stack # << >> /\ Top.at = "request" /\ Goto("unlock") /\ "unlock" \in Places
        /\ run' = run /\ UNCHANGED <<cycle_running, cycle, graph_access, remaining>>
    BY <1>4 DEF PauseRequest, At, engine, Places
  <2>3. run' = IF Len(stack) > 1 \/ "unlock" \in Stopping THEN 0 ELSE 1
    BY <2>2 DEF Stopping, IInv, StackInv
  <2>. QED
    BY <2>1, <2>2, <2>3, GoneOnInv DEF Changing
<1>5. CASE PauseUnlock
  <2>. DEFINE a == IF Top.kind = "force" THEN "stop" ELSE "spin"
  <2>1. Scalars'
    BY <1>5 DEF PauseUnlock, IInv, TypeOK, Scalars, engine, PlayStates
  <2>2. /\ stack # << >> /\ Top.at = "unlock" /\ Goto(a) /\ a \in Places
        /\ run' = run /\ UNCHANGED <<cycle_running, cycle, graph_access, remaining>>
    BY <1>5 DEF PauseUnlock, At, engine, Places
  <2>3. run' = IF Len(stack) > 1 \/ a \in Stopping THEN 0 ELSE 1
    BY <2>2 DEF Stopping, IInv, StackInv
  <2>. QED
    BY <2>1, <2>2, <2>3, GoneOnInv DEF Changing
<1>6. CASE PauseServed
  <2>1. Scalars'
    BY <1>6 DEF PauseServed, IInv, TypeOK, Scalars, engine, transport
  <2>2. /\ stack # << >> /\ Top.at = "spin" /\ Goto("stop") /\ "stop" \in Places
        /\ run' = run /\ UNCHANGED <<cycle_running, cycle, graph_access, remaining>>
    BY <1>6 DEF PauseServed, At, engine, Places
  <2>3. run' = IF Len(stack) > 1 \/ "stop" \in Stopping THEN 0 ELSE 1
    BY <2>2 DEF Stopping, IInv, StackInv
  <2>. QED
    BY <2>1, <2>2, <2>3, GoneOnInv DEF Changing
<1>7. CASE StopRun
  <2>1. Scalars'
    BY <1>7 DEF StopRun, IInv, TypeOK, Scalars, engine, transport
  <2>2. /\ stack # << >> /\ Top.at = "stop" /\ Goto("wait") /\ "wait" \in Places
        /\ run' = 0 /\ UNCHANGED <<cycle_running, cycle, graph_access, remaining>>
    BY <1>7 DEF StopRun, At, engine, Places
  <2>3. run' = IF Len(stack) > 1 \/ "wait" \in Stopping THEN 0 ELSE 1
    BY <2>2 DEF Stopping, IInv, StackInv
  <2>. QED
    BY <2>1, <2>2, <2>3, GoneOnInv DEF Changing
<1>8. CASE CycleWaited
  <2>. DEFINE a == IF Top.op = "pause" THEN "flush" ELSE "setup"
  <2>1. stack # << >> /\ Top.at = "wait" /\ Goto(a) /\ run' = run /\ a \in Places
    BY <1>8 DEF CycleWaited, At, engine, Places
  <2>2. run' = IF Len(stack) > 1 \/ a \in Stopping THEN 0 ELSE 1
    BY <2>1 DEF Stopping, IInv, StackInv
  <2>3. /\ StackInv' /\ stack' \in Seq(Frames) /\ stack' # << >> /\ Top'.at = a
    BY <2>1, <2>2, GoneOn
  <2>4. /\ cycle["audio"].at = "idle" /\ UNCHANGED cycle_running
    BY <1>8 DEF CycleWaited, CycleFinished, IInv, CycleInv, engine
  <2>5. /\ cycle' \in [Threads -> [at : InCycle \cup {"idle", "check", "finish"}, read : PlayStates]]
        /\ cycle'["audio"] = cycle["audio"] /\ cycle'["exporter"] = cycle["exporter"]
        /\ \A u \in Threads : cycle'[u].at = "process" => cycle[u].at = "process"
    <3>1. CASE UNCHANGED cycle
      BY <3>1 DEF IInv, TypeOK
    <3>2. CASE Move("gtk", "prepare")
      BY <3>2, Moved DEF InCycle, Threads
    <3>. QED
      BY <1>8, <3>1, <3>2 DEF CycleWaited
  <2>6. ~At("access", "change")' /\ ~At("access", "change")
    BY <2>1, <2>3 DEF At
  <2>7. graph_access' = graph_access /\ remaining' = remaining
    BY <1>8 DEF CycleWaited, engine
  <2>8. AccessInv'
    BY <2>5, <2>6, <2>7 DEF IInv, AccessInv, AccessExcludesCycles
  <2>9. CycleInv' /\ ExportInv'
    BY <2>4, <2>5, <2>7 DEF IInv, CycleInv, ExportInv, ChangesExcludeCycles, InCycle
  <2>. QED
    BY <1>8, <2>3, <2>5, <2>8, <2>9 DEF CycleWaited, engine, transport, IInv, TypeOK
<1>9. CASE CycleStep("gtk")
  BY <1>9, CycleStepInv DEF Threads
<1>10. CASE Flushed
  <2>1. Scalars'
    BY <1>10 DEF Flushed, IInv, TypeOK, Scalars, engine, transport
  <2>2. /\ stack # << >> /\ Top.at = "flush" /\ Goto("paused") /\ "paused" \in Places
        /\ run' = run /\ UNCHANGED <<cycle_running, cycle, graph_access, remaining>>
    BY <1>10 DEF Flushed, At, engine, Places
  <2>3. run' = IF Len(stack) > 1 \/ "paused" \in Stopping THEN 0 ELSE 1
    BY <2>2 DEF Stopping, IInv, StackInv
  <2>. QED
    BY <2>1, <2>2, <2>3, GoneOnInv DEF Changing
<1>11. CASE PrepareExport
  <2>1. Scalars'
    BY <1>11 DEF PrepareExport, IInv, TypeOK, Scalars, PlayStates
  <2>2. /\ stack # << >> /\ Top.at = "paused" /\ Goto("dialog") /\ "dialog" \in Places
        /\ run' = run /\ UNCHANGED <<cycle_running, cycle, graph_access>>
    BY <1>11 DEF PrepareExport, At, engine, Places
  <2>3. run' = IF Len(stack) > 1 \/ "dialog" \in Stopping THEN 0 ELSE 1
    BY <2>2 DEF Stopping, IInv, StackInv
  <2>4. remaining' > 0
    BY <1>11, TopFrame DEF PrepareExport, At
  <2>. QED
    BY <2>1, <2>2, <2>3, <2>4, GoneOnInv DEF Changing
<1>12. CASE PostExport
  <2>1. Scalars'
    BY <1>12 DEF PostExport, IInv, TypeOK, Scalars, engine, transport
  <2>2. /\ stack # << >> /\ Top.at = "dialog" /\ Goto("resume") /\ "resume" \in Places
        /\ run' = run /\ UNCHANGED <<cycle_running, cycle, graph_access, remaining>>
    BY <1>12 DEF PostExport, At, engine, Places
  <2>3. run' = IF Len(stack) > 1 \/ "resume" \in Stopping THEN 0 ELSE 1
    BY <2>2 DEF Stopping, IInv, StackInv
  <2>. QED
    BY <2>1, <2>2, <2>3, GoneOnInv DEF Changing
<1>13. CASE Changed
  <2>1. Scalars'
    BY <1>13 DEF Changed, IInv, TypeOK, Scalars, engine, transport
  <2>2. /\ stack # << >> /\ Top.at = "paused" /\ Goto("resume") /\ "resume" \in Places
        /\ run' = run /\ UNCHANGED <<cycle_running, cycle, graph_access, remaining>>
    BY <1>13 DEF Changed, At, engine, Places
  <2>3. run' = IF Len(stack) > 1 \/ "resume" \in Stopping THEN 0 ELSE 1
    BY <2>2 DEF Stopping, IInv, StackInv
  <2>. QED
    BY <2>1, <2>2, <2>3, GoneOnInv DEF Changing
<1>14. CASE ResumeRequest
  <2>1. Scalars'
    <3>1. play_state' \in PlayStates /\ countin_frames_remaining' \in 0..CountIn
      BY <1>14, RequestedType DEF ResumeRequest
    <3>2. wanted' \in {"roll", "pause"}
      BY <1>14, TopFrame DEF ResumeRequest, At, PlayRequests, IInv, TypeOK
    <3>. QED
      BY <1>14, <3>1, <3>2 DEF ResumeRequest, IInv, TypeOK, Scalars, engine
  <2>2. /\ stack # << >> /\ Top.at = "resume" /\ Goto("restart") /\ "restart" \in Places
        /\ run' = run /\ UNCHANGED <<cycle_running, cycle, graph_access, remaining>>
    BY <1>14 DEF ResumeRequest, At, engine, Places
  <2>3. run' = IF Len(stack) > 1 \/ "restart" \in Stopping THEN 0 ELSE 1
    BY <2>2 DEF Stopping, IInv, StackInv
  <2>. QED
    BY <2>1, <2>2, <2>3, GoneOnInv DEF Changing
<1>15. CASE ResumeRun
  <2>1. Scalars'
    BY <1>15 DEF ResumeRun, IInv, TypeOK, Scalars, transport
  <2>2. /\ stack # << >> /\ Top.op # "access" /\ stack' = Caller /\ run' = Top.running
        /\ UNCHANGED <<cycle_running, remaining, cycle, graph_access>>
    BY <1>15 DEF ResumeRun, At, RunBefore
  <2>. QED
    BY <2>1, <2>2, TopFrame, ReturnedInv DEF At
<1>16. CASE RecalcDone
  <2>1. Scalars'
    BY <1>16 DEF RecalcDone, IInv, TypeOK, Scalars, transport
  <2>2. /\ stack # << >> /\ Top.op # "access" /\ stack' = Caller /\ run' = Top.running
        /\ UNCHANGED <<cycle_running, remaining, cycle, graph_access>>
    BY <1>16 DEF RecalcDone, At, RunBefore
  <2>. QED
    BY <2>1, <2>2, TopFrame, ReturnedInv DEF At
<1>17. CASE TakeAccess
  <2>1. At("access", "take") /\ Goto("change") /\ run' = run
    BY <1>17 DEF TakeAccess, engine
  <2>2. run' = IF Len(stack) > 1 \/ "change" \in Stopping THEN 0 ELSE 1
    BY <2>1 DEF At, Stopping, IInv, StackInv
  <2>3. /\ StackInv' /\ stack' \in Seq(Frames) /\ stack' # << >> /\ Len(stack') = Len(stack)
        /\ Len(stack) \in Nat \ {0} /\ Top'.at = "change"
        /\ \A i \in 1..Len(stack) : i # Len(stack) => stack'[i] = stack[i]
    BY <2>1, <2>2, GoneOn DEF At, Places
  <2>4. Exclusive' => Exclusive
    BY <2>3 DEF Exclusive, Top
  <2>5. graph_access = 1 /\ graph_access' = 0 /\ UNCHANGED <<engine, cycle>>
    BY <1>17 DEF TakeAccess, IInv, TypeOK
  <2>6. AccessInv'
    BY <2>5 DEF IInv, AccessInv, AccessExcludesCycles
  <2>7. CycleInv'
    BY <2>4, <2>5 DEF IInv, CycleInv, ChangesExcludeCycles, engine
  <2>. QED
    BY <1>17, <2>3, <2>5, <2>6, <2>7 DEF TakeAccess, engine, transport, IInv, TypeOK, ExportInv
<1>18. CASE ReturnAccess
  <2>1. Scalars'
    BY <1>18 DEF ReturnAccess, IInv, TypeOK, Scalars, engine, transport
  <2>2. /\ stack # << >> /\ At("access", "change") /\ Top.at = "change" /\ stack' = Caller
        /\ UNCHANGED <<run, cycle_running, remaining, cycle>> /\ graph_access' = graph_access + 1
    BY <1>18 DEF ReturnAccess, At, engine
  <2>3. run' = IF Len(stack) > 1 THEN 0 ELSE 1
    BY <2>2 DEF IInv, StackInv, Stopping
  <2>. QED
    BY <2>1, <2>2, <2>3, ReturnedInv
<1>. QED
  BY <1>1, <1>2, <1>3, <1>4, <1>5, <1>6, <1>7, <1>8, <1>9, <1>10, <1>11, <1>12, <1>13,
     <1>14, <1>15, <1>16, <1>17, <1>18 DEF GtkStep

LEMMA BeginCallInv ==
  ASSUME IInv, BeginCall
  PROVE  IInv'
<1>1. ASSUME NEW k \in Requests, BeginRequest(k)
      PROVE  IInv'
  <2>1. k \in Kinds /\ k \in PlayRequests
    BY RequestsAssumption DEF Kinds
  <2>. QED
    BY <1>1, <2>1, CalledInv DEF BeginRequest, Stopping, Places
<1>2. ASSUME NEW k \in {"wait", "force", "export"}, BeginPause(k)
      PROVE  IInv'
  BY <1>2, CalledInv DEF BeginPause, Stopping, Places, Kinds
<1>3. CASE BeginRecalc
  BY <1>3, CalledInv DEF BeginRecalc, Stopping, Places, Kinds
<1>4. ASSUME NEW k \in {"soft", "region"}, BeginAccess(k)
      PROVE  IInv'
  BY <1>4, CalledInv DEF BeginAccess, Stopping, Places, Kinds
<1>. QED
  BY <1>1, <1>2, <1>3, <1>4 DEF BeginCall

-----------------------------------------------------------------------------
LEMMA InitInv ==
  ASSUME Init
  PROVE  IInv
<1>1. stack = << >> /\ Len(stack) = 0 /\ stack \in Seq(Frames)
  BY DEF Init
<1>2. cycle \in [Threads -> [at : InCycle \cup {"idle", "check", "finish"}, read : PlayStates]]
      /\ \A t \in Threads : cycle[t].at = "idle"
  BY DEF Init, Idle, PlayStates
<1>3. TypeOK
  <2>1. 0 \in 0..Chunks /\ 0 \in 0..CountIn /\ 0 \in 0..MaxCalls /\ 1 \in 0..MaxLock
    BY BoundsAssumption
  <2>2. "PAUSED" \in PlayStates
    BY DEF PlayStates
  <2>. QED
    BY <1>1, <1>2, <2>1, <2>2 DEF Init, TypeOK
<1>4. StackInv /\ ~Exclusive
  BY <1>1 DEF Init, StackInv, Exclusive
<1>5. CycleInv /\ AccessInv /\ ExportInv
  BY <1>1, <1>2, <1>4
  DEF CycleInv, AccessInv, ExportInv, ChangesExcludeCycles, AccessExcludesCycles, At, Threads
<1>. QED
  BY <1>3, <1>4, <1>5 DEF IInv

LEMMA NextInv ==
  ASSUME IInv, [Next]_vars
  PROVE  IInv'
<1>1. CASE AudioStep
  BY <1>1, BetweenCyclesInv, CycleStepInv DEF AudioStep, Threads
<1>2. CASE ExporterStep
  BY <1>2, BetweenCyclesInv, CycleStepInv DEF ExporterStep, Threads
<1>3. CASE GtkStep
  BY <1>3, GtkStepInv
<1>4. CASE BeginCall
  BY <1>4, BeginCallInv
<1>5. CASE UNCHANGED vars
  BY <1>5
  DEF vars, engine, transport, IInv, TypeOK, StackInv, CycleInv, AccessInv, ExportInv, Top, At,
      ChangesExcludeCycles, AccessExcludesCycles, Exclusive
<1>. QED
  BY <1>1, <1>2, <1>3, <1>4, <1>5 DEF Next

(* The inductive invariant holds in every reachable state.                 *)
THEOREM Invariance == Spec => []IInv
<1>1. Init => IInv
  BY InitInv
<1>2. IInv /\ [Next]_vars => IInv'
  BY NextInv
<1>. QED
  BY <1>1, <1>2, PTL DEF Spec

(* Every variable keeps its type, for every number and depth of calls and  *)
(* every length of exports and of the count-in.                            *)
THEOREM TypeCorrect == Spec => []TypeOK
<1>1. IInv => TypeOK
  BY DEF IInv
<1>. QED
  BY <1>1, Invariance, PTL

(* engine_wait_for_pause and router_recalc_graph: no cycle of the audio    *)
(* thread runs while the graph is being changed.                           *)
THEOREM PausesExclude == Spec => []ChangesExcludeCycles
<1>1. IInv => ChangesExcludeCycles
  BY DEF IInv, CycleInv
<1>. QED
  BY <1>1, Invariance, PTL

(* graph_access: no cycle processes the graph while a soft recalculation   *)
(* or a change of the edited region holds it.                              *)
THEOREM AccessIsExclusive == Spec => []AccessExcludesCycles
<1>1. IInv => AccessExcludesCycles
  BY DEF IInv, AccessInv
<1>. QED
  BY <1>1, Invariance, PTL

(* engine_resume: nested calls hand back the state they found, so that the *)
(* engine runs whenever no call is in progress.                            *)
THEOREM EngineRuns == Spec => []RunsBetweenCalls
<1>1. IInv => RunsBetweenCalls
  <2>1. stack = << >> => Len(stack) = 0
    OBVIOUS
  <2>. QED
    BY <2>1 DEF IInv, StackInv, RunsBetweenCalls
<1>. QED
  BY <1>1, Invariance, PTL

-----------------------------------------------------------------------------
(* The cycles of the other threads, the lock, and what will play.          *)

(* The dialog of an export is opened by the outermost call, and all that   *)
(* is called from it is a request.                                         *)
DialogInv ==
  /\ \A i \in 1..Len(stack) : stack[i].op = "pause" /\ stack[i].kind = "export" => i = 1
  /\ \A i \in 1..Len(stack) : i < Len(stack) /\ stack[i].at = "dialog" =>
       i = Len(stack) - 1 /\ InExport /\ Top.op = "request"

(* The GTK thread runs a cycle to flush, the exporting thread runs its own *)
(* under the dialog.                                                       *)
OthersInv == /\ cycle["gtk"].at # "idle" => At("pause", "flush")
             /\ cycle["exporter"].at # "idle" => exporting
             /\ exporting => stack # << >> /\ stack[1].at = "dialog"

(* No cycle serves the request to roll before the call has ended.          *)
PlayInv == At("pause", "restart") /\ Top.playing => play_state = "ROLL_REQUESTED"

(* port_operation_lock has at most one holder.                             *)
Past == {"graph", "process", "post"}
LockInv ==
  /\ port_operation_lock \in {0, 1}
  /\ port_operation_lock = 0 <=> HoldsLock \/ \E t \in Threads : cycle[t].at \in Past
  /\ LockBlocksCycles
  /\ \A t, u \in Threads : cycle[t].at \in Past /\ cycle[u].at \in Past => t = u

CallInv == DialogInv /\ OthersInv /\ PlayInv /\ (~InExport => LockInv)

(* While one thread runs a cycle no other does, and the GTK thread holds   *)
(* no lock if it is not the audio thread's.                                *)
LEMMA OneCycle ==
  ASSUME IInv, CallInv, NEW t \in Threads, cycle[t].at \in InCycle
  PROVE  /\ \A u \in Threads : u # t => cycle[u].at \notin InCycle
         /\ ~At("pause", "restart")
         /\ ~InExport /\ t # "audio" => ~HoldsLock
<1>1. stack # << >> =>
        Len(stack) \in Nat \ {0} /\ Len(stack) \in 1..Len(stack) /\ 1 \in 1..Len(stack)
  BY DEF IInv, TypeOK
<1>2. cycle["exporter"].at # "idle" =>
        /\ Exclusive /\ \A p \in Places : ~At("pause", p) \/ p = "dialog"
        /\ ~InExport => Top.at = "dialog"
  <2>1. SUFFICES ASSUME cycle["exporter"].at # "idle"
                 PROVE  /\ Exclusive /\ \A p \in Places : ~At("pause", p) \/ p = "dialog"
                        /\ ~InExport => Top.at = "dialog"
    OBVIOUS
  <2>2. stack # << >> /\ stack[1].at = "dialog"
    BY <2>1 DEF CallInv, OthersInv
  <2>3. Exclusive
    BY <1>1, <2>2 DEF Exclusive
  <2>4. Top.at = "dialog" \/ (InExport /\ Top.op = "request")
    <3>1. CASE Len(stack) = 1
      BY <2>2, <3>1 DEF Top
    <3>2. CASE Len(stack) # 1
      <4>1. PICK n \in Nat \ {0} : n = Len(stack)
        BY <1>1, <2>2
      <4>2. 1 \in 1..n /\ 1 < n
        BY <3>2, <4>1
      <4>. QED
        BY <2>2, <4>1, <4>2 DEF CallInv, DialogInv
    <3>. QED
      BY <3>1, <3>2
  <2>. QED
    BY <2>3, <2>4 DEF At
<1>3. cycle["gtk"].at # "idle" => Exclusive /\ At("pause", "flush") /\ Top.at = "flush"
  <2>1. SUFFICES ASSUME cycle["gtk"].at # "idle"
                 PROVE  Exclusive /\ At("pause", "flush") /\ Top.at = "flush"
    OBVIOUS
  <2>2. At("pause", "flush")
    BY <2>1 DEF CallInv, OthersInv
  <2>. QED
    BY <1>1, <2>2 DEF At, Top, Exclusive
<1>4. ~(cycle["gtk"].at # "idle" /\ cycle["exporter"].at # "idle")
  BY <1>2, <1>3 DEF Places
<1>5. Exclusive => cycle["audio"].at \notin InCycle
  BY DEF IInv, CycleInv, ChangesExcludeCycles
<1>6. At("pause", "restart") => Exclusive
  BY <1>1 DEF At, Top, Exclusive
<1>7. "idle" \notin InCycle
  BY DEF InCycle
<1>8. CASE t = "audio"
  BY <1>2, <1>3, <1>5, <1>6, <1>7, <1>8 DEF Threads
<1>9. CASE t = "gtk"
  BY <1>3, <1>4, <1>5, <1>7, <1>9 DEF Threads, At, HoldsLock
<1>10. CASE t = "exporter"
  BY <1>2, <1>4, <1>5, <1>7, <1>10 DEF Threads, At, HoldsLock, Places
<1>. QED
  BY <1>8, <1>9, <1>10 DEF Threads

LEMMA CycleStepCalls ==
  ASSUME IInv, CallInv, NEW t \in Threads, CycleStep(t)
  PROVE  CallInv'
<1>1. /\ UNCHANGED <<run, cycle_running, exporting, stack, wanted, calls>>
      /\ cycle[t].at \in InCycle
      /\ \A u \in Threads : u # t => cycle'[u] = cycle[u]
  BY CycleKeeps
<1>2. /\ \A u \in Threads : u # t => cycle[u].at \notin InCycle
      /\ ~At("pause", "restart")
      /\ ~InExport /\ t # "audio" => ~HoldsLock
  BY <1>1, OneCycle
<1>3. \A op, at : At(op, at)' <=> At(op, at)
  BY <1>1 DEF At, Top
<1>4. DialogInv'
  BY <1>1 DEF CallInv, DialogInv, Top
<1>5. OthersInv'
  BY <1>1, <1>3 DEF CallInv, OthersInv, InCycle, Threads
<1>6. PlayInv'
  BY <1>2, <1>3 DEF PlayInv
<1>7. ASSUME ~InExport
      PROVE  LockInv'
  <2>1. HoldsLock' <=> HoldsLock
    BY <1>3 DEF HoldsLock
  <2>2. LockInv /\ (t # "audio" => ~HoldsLock)
    BY <1>2, <1>7 DEF CallInv
  <2>3. \A u \in Threads : u # t => cycle[u].at \notin Past /\ cycle'[u].at \notin Past
    BY <1>1, <1>2 DEF Past, InCycle
  <2>4. port_operation_lock' \in Int /\ port_operation_lock \in Int
    BY <2>2, CycleStepInv DEF IInv, TypeOK, LockInv
  <2>5. CASE TryLock(t)
    <3>1. cycle'[t].at = (IF Skipped(t) THEN "finish" ELSE "graph") /\ cycle[t].at = "lock"
      BY <2>5 DEF TryLock, Move, IInv, TypeOK
    <3>2. HoldsLock => port_operation_lock = 0
      BY <2>2 DEF LockInv
    <3>3. port_operation_lock = 0 => HoldsLock /\ t = "audio" /\ ~exporting
      <4>1. port_operation_lock = 0 => HoldsLock
        BY <2>2, <2>3, <3>1 DEF LockInv, Past
      <4>2. t = "audio" => ~exporting
        <5>1. SUFFICES ASSUME t = "audio", exporting
                       PROVE  FALSE
          OBVIOUS
        <5>2. Exclusive
          <6>1. stack # << >> /\ stack[1].at = "dialog"
            BY <5>1 DEF CallInv, OthersInv
          <6>2. 1 \in 1..Len(stack)
            BY <6>1 DEF IInv, TypeOK
          <6>. QED
            BY <6>1, <6>2 DEF Exclusive
        <5>. QED
          BY <1>1, <5>1, <5>2 DEF IInv, CycleInv, ChangesExcludeCycles
      <4>. QED
        BY <2>2, <4>1, <4>2
    <3>4. CASE port_operation_lock = 0
      <4>1. port_operation_lock' = 0 /\ cycle'[t].at = "finish"
        BY <2>5, <3>1, <3>3, <3>4 DEF TryLock, Skipped
      <4>. QED
        BY <2>1, <2>2, <2>3, <3>3, <3>4, <4>1 DEF LockInv, LockBlocksCycles, Past
    <3>5. CASE port_operation_lock # 0
      <4>1. port_operation_lock' = 0 /\ cycle'[t].at = "graph" /\ ~HoldsLock
        BY <2>2, <2>5, <3>1, <3>2, <3>5 DEF TryLock, Skipped, LockInv
      <4>. QED
        BY <2>1, <2>3, <4>1 DEF LockInv, LockBlocksCycles, Past
    <3>. QED
      BY <3>4, <3>5
  <2>6. CASE PostProcess(t)
    <3>1. cycle'[t].at \notin Past /\ cycle[t].at \in Past
      BY <2>6 DEF PostProcess, Move, IInv, TypeOK, Past
    <3>2. port_operation_lock = 0 /\ ~HoldsLock
      BY <2>2, <3>1 DEF LockInv, LockBlocksCycles, Past
    <3>3. port_operation_lock' = 1
      BY <2>6, <3>2 DEF PostProcess
    <3>. QED
      BY <2>1, <2>3, <3>1, <3>2, <3>3 DEF LockInv, LockBlocksCycles, Past
  <2>7. CASE ~TryLock(t) /\ ~PostProcess(t)
    <3>1. port_operation_lock' = port_operation_lock
      BY <2>7 DEF CycleStep, Prepare, Serve, StartCycle, EndCycle
    <3>2. cycle'[t].at \in Past <=> cycle[t].at \in Past
      BY <2>7 DEF CycleStep, Prepare, Serve, StartCycle, EndCycle, Move, IInv, TypeOK, Past
    <3>. QED
      BY <2>1, <2>2, <2>3, <3>1, <3>2 DEF LockInv, LockBlocksCycles, Past
  <2>. QED
    BY <2>5, <2>6, <2>7
<1>. QED
  BY <1>4, <1>5, <1>6, <1>7 DEF CallInv

(* A call goes on: what is below it stays.                                 *)
LEMMA GoneOnCalls ==
  ASSUME IInv, CallInv, stack # << >>, NEW a \in Places, Goto(a),
         cycle' = cycle, Top.at = "flush" => cycle["gtk"].at = "idle",
         cycle["exporter"].at # "idle" => exporting',
         exporting' => IF Len(stack) = 1 THEN a = "dialog" ELSE exporting,
         a = "restart" /\ Top.playing => play_state' = "ROLL_REQUESTED"
  PROVE  /\ DialogInv' /\ OthersInv' /\ PlayInv'
         /\ HoldsLock' <=> \/ a = "unlock" /\ Top.op \in {"request", "pause"}
                           \/ a = "restart" /\ Top.op = "pause"
<1>1. /\ Len(stack') = Len(stack) /\ Len(stack) \in Nat \ {0} /\ stack' # << >>
      /\ \A i \in 1..Len(stack) : i # Len(stack) => stack'[i] = stack[i]
      /\ stack'[Len(stack)] = [stack[Len(stack)] EXCEPT !.at = a]
  BY ReplaceTop DEF Goto, IInv, TypeOK
<1>2. stack[Len(stack)] \in Frames
  BY <1>1 DEF IInv, TypeOK
<1>3. /\ Top'.at = a /\ Top'.op = Top.op /\ Top'.kind = Top.kind
      /\ Top'.playing = Top.playing
  BY <1>1, <1>2 DEF Top, Frames
<1>4. \A i \in 1..Len(stack) : stack'[i].op = stack[i].op /\ stack'[i].kind = stack[i].kind
  <2>1. /\ stack'[Len(stack)].op = stack[Len(stack)].op
        /\ stack'[Len(stack)].kind = stack[Len(stack)].kind
    BY <1>1, <1>2 DEF Frames
  <2>. QED
    BY <1>1, <2>1
<1>5. DialogInv'
  BY <1>1, <1>3, <1>4 DEF CallInv, DialogInv
<1>6. OthersInv'
  <2>1. cycle["gtk"].at = "idle"
    BY DEF CallInv, OthersInv, At
  <2>2. ASSUME exporting'
        PROVE  stack'[1].at = "dialog"
    <3>1. CASE Len(stack) = 1
      BY <1>1, <1>3, <2>2, <3>1 DEF Top
    <3>2. CASE Len(stack) # 1
      BY <1>1, <2>2, <3>2 DEF CallInv, OthersInv
    <3>. QED
      BY <3>1, <3>2
  <2>. QED
    BY <1>1, <2>1, <2>2 DEF OthersInv
<1>7. PlayInv'
  BY <1>3 DEF PlayInv, At
<1>8. HoldsLock' <=> \/ a = "unlock" /\ Top.op \in {"request", "pause"}
                     \/ a = "restart" /\ Top.op = "pause"
  BY <1>1, <1>3 DEF HoldsLock, At
<1>. QED
  BY <1>5, <1>6, <1>7, <1>8

(* A new call holds no lock,                                               *)
LEMMA CalledCalls ==
  ASSUME IInv, CallInv, NEW op \in {"request", "pause", "recalc", "access"}, NEW kind \in Kinds,
         NEW at \in Places, Call(op, kind, at), at \notin {"unlock", "restart", "dialog"},
         \/ stack = << >>
         \/ At("pause", "paused") /\ (op = "pause" => kind # "export")
         \/ At("pause", "dialog") /\ op = "request" /\ InExport
  PROVE  DialogInv' /\ OthersInv' /\ PlayInv' /\ ~HoldsLock' /\ ~HoldsLock
<1>. DEFINE f == [op |-> op, kind |-> kind, at |-> at,
                  running |-> run, playing |-> play_state = "ROLLING"]
<1>1. f \in Frames /\ f.op = op /\ f.kind = kind /\ f.at = at
  BY DEF Frames, IInv, TypeOK
<1>2. stack' = Append(stack, f) /\ UNCHANGED <<cycle, exporting>>
  BY DEF Call, engine
<1>. HIDE DEF f
<1>3. /\ stack' # << >> /\ Len(stack) \in Nat /\ Len(stack') = Len(stack) + 1
      /\ \A i \in 1..Len(stack) : stack'[i] = stack[i]
      /\ stack'[Len(stack')] = f /\ Top' = f
      /\ stack = << >> <=> Len(stack) = 0
  BY <1>1, <1>2 DEF IInv, TypeOK, Top
<1>4. cycle["gtk"].at = "idle" /\ ~HoldsLock
  BY DEF CallInv, OthersInv, At, HoldsLock
<1>5. \A i \in 1..Len(stack) : stack[i].at = "dialog" => i = Len(stack) /\ op = "request" /\ InExport
  <2>1. SUFFICES ASSUME NEW i \in 1..Len(stack), stack[i].at = "dialog"
                 PROVE  i = Len(stack) /\ op = "request" /\ InExport
    OBVIOUS
  <2>2. CASE i = Len(stack)
    BY <1>3, <2>1, <2>2 DEF At, Top
  <2>3. CASE i # Len(stack)
    <3>1. Top.op = "request" /\ stack # << >>
      BY <1>3, <2>1, <2>3 DEF CallInv, DialogInv
    <3>. QED
      BY <3>1 DEF At
  <2>. QED
    BY <2>2, <2>3
<1>6. DialogInv'
  BY <1>1, <1>3, <1>5 DEF CallInv, DialogInv
<1>7. OthersInv'
  <2>1. exporting => stack # << >> /\ 1 \in 1..Len(stack) /\ stack[1].at = "dialog"
    BY <1>3 DEF CallInv, OthersInv
  <2>. QED
    BY <1>2, <1>3, <1>4, <2>1 DEF CallInv, OthersInv
<1>8. PlayInv' /\ ~HoldsLock'
  BY <1>1, <1>3 DEF PlayInv, HoldsLock, At
<1>. QED
  BY <1>4, <1>6, <1>7, <1>8

(* and who called it holds none either.                                    *)
LEMMA ReturnedCalls ==
  ASSUME IInv, CallInv, stack # << >>, stack' = Caller, UNCHANGED <<cycle, exporting>>,
         Top.at \notin {"flush", "dialog"}
  PROVE  DialogInv' /\ OthersInv' /\ PlayInv' /\ ~HoldsLock'
<1>1. /\ Len(stack') = Len(stack) - 1 /\ Len(stack) \in Nat \ {0}
      /\ \A i \in 1..Len(stack') : stack'[i] = stack[i]
      /\ stack' = << >> <=> Len(stack) = 1
  BY RemoveTop DEF Caller, IInv, TypeOK
<1>2. stack' # << >> => Len(stack') \in 1..Len(stack') /\ Top' = stack[Len(stack) - 1]
  BY <1>1 DEF Top
<1>3. stack' # << >> => Top'.op = "pause" /\ Top'.at \in {"paused", "dialog"}
  BY <1>1, <1>2 DEF IInv, StackInv
<1>4. cycle["gtk"].at = "idle"
  BY DEF CallInv, OthersInv, At
<1>5. DialogInv'
  BY <1>1 DEF CallInv, DialogInv
<1>6. OthersInv'
  <2>1. ASSUME exporting
        PROVE  Len(stack) # 1 /\ stack[1].at = "dialog"
    BY <2>1 DEF CallInv, OthersInv, Top
  <2>. QED
    BY <1>1, <1>4, <2>1 DEF CallInv, OthersInv
<1>7. PlayInv' /\ ~HoldsLock'
  BY <1>3 DEF PlayInv, HoldsLock, At
<1>. QED
  BY <1>5, <1>6, <1>7

(* What a step of the GTK thread does to port_operation_lock.              *)
LEMMA LockMoves ==
  ASSUME IInv, CallInv, ~InExport,
         \A t \in Threads : cycle'[t].at \in Past <=> cycle[t].at \in Past,
         \/ port_operation_lock > 0 /\ port_operation_lock' = port_operation_lock - 1 /\ HoldsLock'
         \/ HoldsLock /\ port_operation_lock' = port_operation_lock + 1 /\ ~HoldsLock'
         \/ port_operation_lock' = port_operation_lock /\ (HoldsLock' <=> HoldsLock)
  PROVE  LockInv'
<1>1. LockInv
  BY DEF CallInv
<1>2. CASE port_operation_lock > 0 /\ port_operation_lock' = port_operation_lock - 1 /\ HoldsLock'
  <2>1. port_operation_lock' = 0 /\ \A t \in Threads : cycle[t].at \notin Past
    BY <1>1, <1>2 DEF LockInv
  <2>. QED
    BY <1>2, <2>1 DEF LockInv, LockBlocksCycles, Past
<1>3. CASE HoldsLock /\ port_operation_lock' = port_operation_lock + 1 /\ ~HoldsLock'
  <2>1. port_operation_lock' = 1 /\ \A t \in Threads : cycle[t].at \notin Past
    BY <1>1, <1>3 DEF LockInv, LockBlocksCycles, Past
  <2>. QED
    BY <1>3, <2>1 DEF LockInv, LockBlocksCycles, Past
<1>4. CASE port_operation_lock' = port_operation_lock /\ (HoldsLock' <=> HoldsLock)
  BY <1>1, <1>4 DEF LockInv, LockBlocksCycles, Past
<1>. QED
  BY <1>2, <1>3, <1>4

LEMMA GtkStepCalls ==
  ASSUME IInv, CallInv, GtkStep
  PROVE  CallInv'
<1>1. CASE CycleStep("gtk")
  BY <1>1, CycleStepCalls DEF Threads
<1>2. CASE LockAndRequest
  <2>1. At("request", "lock") /\ Goto("unlock") /\ UNCHANGED <<cycle, exporting>>
    BY <1>2 DEF LockAndRequest, engine
  <2>2. DialogInv' /\ OthersInv' /\ PlayInv' /\ HoldsLock'
    BY <2>1, GoneOnCalls DEF At, Places, CallInv, OthersInv, Top
  <2>3. ~InExport => LockInv'
    BY <1>2, <2>1, <2>2, LockMoves DEF LockAndRequest
  <2>. QED
    BY <2>2, <2>3 DEF CallInv
<1>3. CASE UnlockRequest
  <2>1. At("request", "unlock") /\ stack' = Caller /\ UNCHANGED <<cycle, exporting>>
    BY <1>3 DEF UnlockRequest, engine
  <2>2. DialogInv' /\ OthersInv' /\ PlayInv' /\ ~HoldsLock'
    BY <2>1, ReturnedCalls DEF At
  <2>3. ~InExport => LockInv'
    BY <1>3, <2>1, <2>2, LockMoves DEF UnlockRequest, HoldsLock
  <2>. QED
    BY <2>2, <2>3 DEF CallInv
<1>4. CASE PauseFaded
  <2>. DEFINE a == IF Top.playing THEN "request" ELSE "stop"
  <2>1. /\ At("pause", "fade") /\ Goto(a) /\ a \in {"request", "stop"}
        /\ UNCHANGED <<cycle, exporting, port_operation_lock>>
    BY <1>4 DEF PauseFaded, engine
  <2>. HIDE DEF a
  <2>2. DialogInv' /\ OthersInv' /\ PlayInv' /\ ~HoldsLock' /\ ~HoldsLock
    BY <2>1, GoneOnCalls DEF At, Places, CallInv, OthersInv, HoldsLock, Top
  <2>3. ~InExport => LockInv'
    BY <2>1, <2>2, LockMoves
  <2>. QED
    BY <2>2, <2>3 DEF CallInv
<1>5. CASE PauseRequest
  <2>1. At("pause", "request") /\ Goto("unlock") /\ UNCHANGED <<cycle, exporting>>
    BY <1>5 DEF PauseRequest, engine
  <2>2. DialogInv' /\ OthersInv' /\ PlayInv' /\ HoldsLock'
    BY <2>1, GoneOnCalls DEF At, Places, CallInv, OthersInv, Top
  <2>3. ~InExport => LockInv'
    BY <1>5, <2>1, <2>2, LockMoves DEF PauseRequest
  <2>. QED
    BY <2>2, <2>3 DEF CallInv
<1>6. CASE PauseUnlock
  <2>. DEFINE a == IF Top.kind = "force" THEN "stop" ELSE "spin"
  <2>1. At("pause", "unlock") /\ Goto(a) /\ a \in {"stop", "spin"} /\ UNCHANGED <<cycle, exporting>>
    BY <1>6 DEF PauseUnlock, engine
  <2>. HIDE DEF a
  <2>2. DialogInv' /\ OthersInv' /\ PlayInv' /\ ~HoldsLock'
    BY <2>1, GoneOnCalls DEF At, Places, CallInv, OthersInv, Top
  <2>3. ~InExport => LockInv'
    BY <1>6, <2>1, <2>2, LockMoves DEF PauseUnlock, HoldsLock
  <2>. QED
    BY <2>2, <2>3 DEF CallInv
<1>7. CASE PauseServed
  <2>1. At("pause", "spin") /\ Goto("stop") /\ UNCHANGED <<cycle, exporting, port_operation_lock>>
    BY <1>7 DEF PauseServed, engine
  <2>2. DialogInv' /\ OthersInv' /\ PlayInv' /\ ~HoldsLock' /\ ~HoldsLock
    BY <2>1, GoneOnCalls DEF At, Places, CallInv, OthersInv, HoldsLock, Top
  <2>3. ~InExport => LockInv'
    BY <2>1, <2>2, LockMoves
  <2>. QED
    BY <2>2, <2>3 DEF CallInv
<1>8. CASE StopRun
  <2>1. /\ stack # << >> /\ Top.at = "stop" /\ Goto("wait")
        /\ UNCHANGED <<cycle, exporting, port_operation_lock>>
    BY <1>8 DEF StopRun, At
  <2>2. DialogInv' /\ OthersInv' /\ PlayInv' /\ ~HoldsLock' /\ ~HoldsLock
    BY <2>1, GoneOnCalls DEF At, Places, CallInv, OthersInv, HoldsLock, Top
  <2>3. ~InExport => LockInv'
    BY <2>1, <2>2, LockMoves
  <2>. QED
    BY <2>2, <2>3 DEF CallInv
<1>9. CASE CycleWaited
  <2>1. /\ stack # << >> /\ Top.at = "wait" /\ UNCHANGED <<exporting, port_operation_lock>>
        /\ Goto(IF Top.op = "pause" THEN "flush" ELSE "setup")
    BY <1>9 DEF CycleWaited, At, engine
  <2>2. cycle["gtk"].at = "idle"
    BY <2>1 DEF CallInv, OthersInv, At
  <2>3. IF Top.op = "pause"
        THEN /\ cycle'["gtk"].at = "prepare"
             /\ \A u \in Threads : u # "gtk" => cycle'[u] = cycle[u]
        ELSE cycle' = cycle
    BY <1>9, Moved DEF CycleWaited, InCycle, Threads
  <2>. DEFINE a == IF Top.op = "pause" THEN "flush" ELSE "setup"
  <2>4. a \in Places /\ a \in {"flush", "setup"} /\ Goto(a) /\ (Top.op = "pause" => a = "flush")
    BY <2>1 DEF Places
  <2>. HIDE DEF a
  <2>5. /\ Len(stack') = Len(stack) /\ Len(stack) \in Nat \ {0} /\ stack' # << >>
        /\ \A i \in 1..Len(stack) : i # Len(stack) => stack'[i] = stack[i]
        /\ stack'[Len(stack)] = [stack[Len(stack)] EXCEPT !.at = a]
    BY <2>1, <2>4, ReplaceTop DEF Goto, IInv, TypeOK
  <2>6. stack[Len(stack)] \in Frames
    BY <2>5 DEF IInv, TypeOK
  <2>7. \A i \in 1..Len(stack) : stack'[i].op = stack[i].op /\ stack'[i].kind = stack[i].kind
    <3>1. /\ stack'[Len(stack)].op = stack[Len(stack)].op
          /\ stack'[Len(stack)].kind = stack[Len(stack)].kind
      BY <2>5, <2>6 DEF Frames
    <3>. QED
      BY <2>5, <3>1
  <2>8. Top'.at = a /\ Top'.op = Top.op
    BY <2>5, <2>6 DEF Top, Frames
  <2>9. DialogInv'
    BY <2>5, <2>7, <2>8 DEF CallInv, DialogInv
  <2>10. OthersInv'
    <3>1. exporting => Len(stack) # 1 /\ stack[1].at = "dialog"
      BY <2>1 DEF CallInv, OthersInv, Top
    <3>2. exporting' => stack'[1].at = "dialog"
      BY <2>1, <2>5, <3>1
    <3>3. cycle'["exporter"] = cycle["exporter"]
      BY <2>3 DEF Threads
    <3>4. cycle'["gtk"].at # "idle" => At("pause", "flush")'
      BY <2>2, <2>3, <2>4, <2>5, <2>8 DEF At
    <3>. QED
      BY <2>1, <2>5, <3>2, <3>3, <3>4 DEF CallInv, OthersInv
  <2>11. PlayInv' /\ ~HoldsLock' /\ ~HoldsLock
    BY <2>1, <2>4, <2>8 DEF PlayInv, HoldsLock, At
  <2>12. \A t \in Threads : cycle'[t].at \in Past <=> cycle[t].at \in Past
    BY <2>2, <2>3 DEF Past, Threads
  <2>13. ~InExport => LockInv'
    BY <2>1, <2>11, <2>12, LockMoves
  <2>. QED
    BY <2>9, <2>10, <2>11, <2>13 DEF CallInv
<1>10. CASE Flushed
  <2>1. /\ At("pause", "flush") /\ Goto("paused") /\ cycle["gtk"].at = "idle"
        /\ UNCHANGED <<cycle, exporting, port_operation_lock>>
    BY <1>10 DEF Flushed, engine
  <2>2. DialogInv' /\ OthersInv' /\ PlayInv' /\ ~HoldsLock' /\ ~HoldsLock
    BY <2>1, GoneOnCalls DEF At, Places, CallInv, OthersInv, HoldsLock, Top
  <2>3. ~InExport => LockInv'
    BY <2>1, <2>2, LockMoves
  <2>. QED
    BY <2>2, <2>3 DEF CallInv
<1>11. CASE PrepareExport
  <2>1. /\ At("pause", "paused") /\ Goto("dialog") /\ Top.kind = "export" /\ exporting'
        /\ UNCHANGED <<cycle, port_operation_lock>>
    BY <1>11 DEF PrepareExport
  <2>2. Len(stack) = 1
    <3>1. Len(stack) \in 1..Len(stack)
      BY <2>1 DEF At, IInv, TypeOK
    <3>. QED
      BY <2>1, <3>1 DEF At, Top, CallInv, DialogInv
  <2>3. DialogInv' /\ OthersInv' /\ PlayInv' /\ ~HoldsLock' /\ ~HoldsLock
    BY <2>1, <2>2, GoneOnCalls DEF At, Places, HoldsLock
  <2>4. ~InExport => LockInv'
    BY <2>1, <2>3, LockMoves
  <2>. QED
    BY <2>3, <2>4 DEF CallInv
<1>12. CASE PostExport
  <2>1. /\ At("pause", "dialog") /\ Goto("resume") /\ cycle["exporter"].at = "idle"
        /\ ~exporting' /\ UNCHANGED <<cycle, port_operation_lock>>
    BY <1>12 DEF PostExport, transport
  <2>2. DialogInv' /\ OthersInv' /\ PlayInv' /\ ~HoldsLock' /\ ~HoldsLock
    BY <2>1, GoneOnCalls DEF At, Places, HoldsLock
  <2>3. ~InExport => LockInv'
    BY <2>1, <2>2, LockMoves
  <2>. QED
    BY <2>2, <2>3 DEF CallInv
<1>13. CASE Changed
  <2>1. At("pause", "paused") /\ Goto("resume") /\ UNCHANGED <<cycle, exporting, port_operation_lock>>
    BY <1>13 DEF Changed, engine
  <2>2. DialogInv' /\ OthersInv' /\ PlayInv' /\ ~HoldsLock' /\ ~HoldsLock
    BY <2>1, GoneOnCalls DEF At, Places, CallInv, OthersInv, HoldsLock, Top
  <2>3. ~InExport => LockInv'
    BY <2>1, <2>2, LockMoves
  <2>. QED
    BY <2>2, <2>3 DEF CallInv
<1>14. CASE ResumeRequest
  <2>1. At("pause", "resume") /\ Goto("restart") /\ UNCHANGED <<cycle, exporting>>
    BY <1>14 DEF ResumeRequest, engine
  <2>2. Top.playing => play_state' = "ROLL_REQUESTED"
    BY <1>14 DEF ResumeRequest, Requested, Resumed
  <2>3. DialogInv' /\ OthersInv' /\ PlayInv' /\ HoldsLock'
    BY <2>1, <2>2, GoneOnCalls DEF At, Places, CallInv, OthersInv, Top
  <2>4. ~InExport => LockInv'
    BY <1>14, <2>1, <2>3, LockMoves DEF ResumeRequest
  <2>. QED
    BY <2>3, <2>4 DEF CallInv
<1>15. CASE ResumeRun
  <2>1. At("pause", "restart") /\ stack' = Caller /\ UNCHANGED <<cycle, exporting>>
    BY <1>15 DEF ResumeRun
  <2>2. DialogInv' /\ OthersInv' /\ PlayInv' /\ ~HoldsLock'
    BY <2>1, ReturnedCalls DEF At
  <2>3. ~InExport => LockInv'
    BY <1>15, <2>1, <2>2, LockMoves DEF ResumeRun, HoldsLock
  <2>. QED
    BY <2>2, <2>3 DEF CallInv
<1>16. CASE RecalcDone
  <2>1. At("recalc", "setup") /\ stack' = Caller /\ UNCHANGED <<cycle, exporting, port_operation_lock>>
    BY <1>16 DEF RecalcDone
  <2>2. DialogInv' /\ OthersInv' /\ PlayInv' /\ ~HoldsLock' /\ ~HoldsLock
    BY <2>1, ReturnedCalls DEF At, HoldsLock
  <2>3. ~InExport => LockInv'
    BY <2>1, <2>2, LockMoves
  <2>. QED
    BY <2>2, <2>3 DEF CallInv
<1>17. CASE TakeAccess
  <2>1. At("access", "take") /\ Goto("change") /\ UNCHANGED <<cycle, exporting, port_operation_lock>>
    BY <1>17 DEF TakeAccess, engine
  <2>2. DialogInv' /\ OthersInv' /\ PlayInv' /\ ~HoldsLock' /\ ~HoldsLock
    BY <2>1, GoneOnCalls DEF At, Places, CallInv, OthersInv, HoldsLock, Top
  <2>3. ~InExport => LockInv'
    BY <2>1, <2>2, LockMoves
  <2>. QED
    BY <2>2, <2>3 DEF CallInv
<1>18. CASE ReturnAccess
  <2>1. At("access", "change") /\ stack' = Caller /\ UNCHANGED <<cycle, exporting, port_operation_lock>>
    BY <1>18 DEF ReturnAccess, engine
  <2>2. DialogInv' /\ OthersInv' /\ PlayInv' /\ ~HoldsLock' /\ ~HoldsLock
    BY <2>1, ReturnedCalls DEF At, HoldsLock
  <2>3. ~InExport => LockInv'
    BY <2>1, <2>2, LockMoves
  <2>. QED
    BY <2>2, <2>3 DEF CallInv
<1>. QED
  BY <1>1, <1>2, <1>3, <1>4, <1>5, <1>6, <1>7, <1>8, <1>9, <1>10, <1>11, <1>12, <1>13,
     <1>14, <1>15, <1>16, <1>17, <1>18 DEF GtkStep

LEMMA BeginCallCalls ==
  ASSUME IInv, CallInv, BeginCall
  PROVE  CallInv'
<1>1. ASSUME NEW op \in {"request", "pause", "recalc", "access"}, NEW kind \in Kinds,
             NEW at \in Places, Call(op, kind, at), at \notin {"unlock", "restart", "dialog"},
             \/ stack = << >>
             \/ At("pause", "paused") /\ (op = "pause" => kind # "export")
             \/ At("pause", "dialog") /\ op = "request" /\ InExport
      PROVE  CallInv'
  <2>1. DialogInv' /\ OthersInv' /\ PlayInv' /\ ~HoldsLock' /\ ~HoldsLock
    BY <1>1, CalledCalls
  <2>2. ~InExport => LockInv'
    BY <1>1, <2>1, LockMoves DEF Call
  <2>. QED
    BY <2>1, <2>2 DEF CallInv
<1>2. ASSUME NEW k \in Requests, BeginRequest(k)
      PROVE  CallInv'
  <2>1. k \in Kinds
    BY RequestsAssumption DEF Kinds
  <2>. QED
    BY <1>1, <1>2, <2>1 DEF BeginRequest, Places
<1>3. ASSUME NEW k \in {"wait", "force", "export"}, BeginPause(k)
      PROVE  CallInv'
  BY <1>1, <1>3 DEF BeginPause, Places, Kinds
<1>4. CASE BeginRecalc
  BY <1>1, <1>4 DEF BeginRecalc, Places, Kinds
<1>5. ASSUME NEW k \in {"soft", "region"}, BeginAccess(k)
      PROVE  CallInv'
  BY <1>1, <1>5 DEF BeginAccess, Places, Kinds
<1>. QED
  BY <1>2, <1>3, <1>4, <1>5 DEF BeginCall

LEMMA BetweenCyclesCalls ==
  ASSUME IInv, CallInv, BeginCycle \/ CheckRun \/ FinishCycle \/ ExportBlock
  PROVE  CallInv'
<1>1. UNCHANGED <<exporting, transport, port_operation_lock, stack>>
  BY DEF BeginCycle, CheckRun, FinishCycle, ExportBlock, engine
<1>2. \A op, at : At(op, at)' <=> At(op, at)
  BY <1>1 DEF At, Top
<1>3. DialogInv' /\ PlayInv' /\ (HoldsLock' <=> HoldsLock)
  BY <1>1, <1>2 DEF CallInv, DialogInv, PlayInv, HoldsLock, Top, transport
<1>4. /\ cycle'["gtk"] = cycle["gtk"]
      /\ cycle'["exporter"] = cycle["exporter"] \/ exporting
      /\ \A t \in Threads : cycle'[t].at \in Past <=> cycle[t].at \in Past
  <2>1. CASE ExportBlock
    BY <2>1, Moved DEF ExportBlock, InCycle, Threads, Past
  <2>2. CASE BeginCycle
    BY <2>2, Moved DEF BeginCycle, InCycle, Threads, Past
  <2>3. CASE CheckRun
    <3>1. PICK at \in {"finish", "prepare"} : Move("audio", at)
      BY <2>3 DEF CheckRun
    <3>. QED
      BY <2>3, <3>1, Moved DEF CheckRun, InCycle, Threads, Past
  <2>4. CASE FinishCycle
    BY <2>4, Moved DEF FinishCycle, InCycle, Threads, Past
  <2>. QED
    BY <2>1, <2>2, <2>3, <2>4
<1>5. OthersInv'
  BY <1>1, <1>2, <1>4 DEF CallInv, OthersInv
<1>6. ~InExport => LockInv'
  BY <1>1, <1>3, <1>4, LockMoves
<1>. QED
  BY <1>3, <1>5, <1>6 DEF CallInv

LEMMA InitCalls ==
  ASSUME Init
  PROVE  CallInv
<1>1. stack = << >> /\ Len(stack) = 0
  BY DEF Init
<1>2. \A t \in Threads : cycle[t].at = "idle"
  BY DEF Init, Idle
<1>. QED
  BY <1>1, <1>2
  DEF Init, CallInv, DialogInv, OthersInv, PlayInv, LockInv, LockBlocksCycles, HoldsLock, At,
      Past, Threads

LEMMA NextCalls ==
  ASSUME IInv, CallInv, [Next]_vars
  PROVE  CallInv'
<1>1. CASE AudioStep
  BY <1>1, BetweenCyclesCalls, CycleStepCalls DEF AudioStep, Threads
<1>2. CASE ExporterStep
  BY <1>2, BetweenCyclesCalls, CycleStepCalls DEF ExporterStep, Threads
<1>3. CASE GtkStep
  BY <1>3, GtkStepCalls
<1>4. CASE BeginCall
  BY <1>4, BeginCallCalls
<1>5. CASE UNCHANGED vars
  BY <1>5
  DEF vars, engine, transport, CallInv, DialogInv, OthersInv, PlayInv, LockInv, Top, At,
      LockBlocksCycles, HoldsLock
<1>. QED
  BY <1>1, <1>2, <1>3, <1>4, <1>5 DEF Next

THEOREM CallInvariance == Spec => []CallInv
<1>1. Init => CallInv
  BY InitCalls
<1>2. IInv /\ CallInv /\ [Next]_vars => CallInv'
  BY NextCalls
<1>. QED
  BY <1>1, <1>2, Invariance, PTL DEF Spec

(* "Semaphore for blocking DSP": no cycle is past port_operation_lock      *)
(* while the GTK thread holds it, as long as nothing is requested during   *)
(* an export, whose cycles go on without the lock.                         *)
THEOREM LockBlocks == InExport = FALSE => (Spec => []LockBlocksCycles)
<1>. SUFFICES ASSUME InExport = FALSE
              PROVE  Spec => []LockBlocksCycles
  OBVIOUS
<1>1. CallInv => LockBlocksCycles
  BY DEF CallInv, LockInv
<1>. QED
  BY <1>1, CallInvariance, PTL

(* engine_resume: what was rolling when an outermost pause began is about  *)
(* to roll when it ends, also if it was for an export in which the user    *)
(* made requests.                                                          *)
THEOREM WhatRolledRolls == Spec => RollsAgain
<1>. DEFINE Ends == Len(stack) = 1 /\ stack' = << >> /\ stack[1].op = "pause" /\ stack[1].playing
<1>1. ASSUME IInv, CallInv, [Next]_vars, Ends
      PROVE  play_state' \in {"ROLL_REQUESTED", "ROLLING"}
  <2>1. stack # << >> /\ stack' = << >> /\ Top.op = "pause" /\ Top.playing
    BY <1>1 DEF Top
  <2>2. ResumeRun
    <3>1. stack' # stack
      BY <2>1
    <3>2. ~AudioStep /\ ~ExporterStep /\ ~CycleStep("gtk") /\ ~UNCHANGED vars
      BY <1>1, <3>1, CycleKeeps
      DEF AudioStep, ExporterStep, BeginCycle, CheckRun, FinishCycle, ExportBlock, Threads, vars
    <3>3. \A a \in Places : ~Goto(a)
      BY <1>1, <2>1, ReplaceTop DEF Goto, IInv, TypeOK
    <3>4. ~BeginCall
      <4>1. \A f : Append(stack, f) # << >>
        BY <1>1 DEF IInv, TypeOK
      <4>. QED
        BY <2>1, <4>1 DEF BeginCall, BeginRequest, BeginPause, BeginRecalc, BeginAccess, Call
    <3>5. GtkStep
      BY <1>1, <3>2, <3>4 DEF Next
    <3>. QED
      BY <2>1, <3>2, <3>3, <3>5
      DEF GtkStep, LockAndRequest, UnlockRequest, PauseFaded, PauseRequest, PauseUnlock,
          PauseServed, StopRun, CycleWaited, Flushed, PrepareExport, PostExport, Changed,
          ResumeRequest, RecalcDone, TakeAccess, ReturnAccess, At, Places
  <2>3. At("pause", "restart") /\ play_state' = play_state
    BY <2>2 DEF ResumeRun, transport
  <2>. QED
    BY <1>1, <2>1, <2>3 DEF CallInv, PlayInv
<1>2. IInv /\ CallInv /\ [Next]_vars =>
        [Ends => play_state' \in {"ROLL_REQUESTED", "ROLLING"}]_vars
  BY <1>1
<1>. QED
  BY <1>2, Invariance, CallInvariance, PTL DEF Spec, RollsAgain

=============================================================================
