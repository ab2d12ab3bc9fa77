--------------------------- MODULE EngineControl ---------------------------
(***************************************************************************)
(* The audio thread, which processes cycles, and the GTK thread, which     *)
(* pauses it to change the project (dsp/engine.c, router.c, transport.c,   *)
(* exporter.c).  While a project is exported a third thread runs the       *)
(* cycles.  The project is loaded and the engine activated.                *)
(***************************************************************************)
EXTENDS Integers, Sequences

CONSTANTS MaxCalls,   \* bound: calls the GTK thread makes
          MaxDepth,   \* bound: pauses inside pauses
          MaxLock,    \* bound: count of port_operation_lock
          Chunks,     \* blocks of an export, 0 if there are no exports
          CountIn,    \* cycles of the metronome's count-in
          Requests,   \* what the user may request: subset of PlayRequests
          InExport    \* whether requests are handled while exporting

PlayRequests == {"roll", "pause", "other"}

ASSUME BoundsAssumption ==
  {MaxCalls, MaxDepth, MaxLock, Chunks, CountIn} \subseteq Nat /\ MaxLock > 0
ASSUME RequestsAssumption == Requests \subseteq PlayRequests /\ InExport \in BOOLEAN

VARIABLES run, cycle_running, play_state, countin_frames_remaining,
          port_operation_lock, graph_access, exporting, remaining,
          cycle,    \* thread -> where it is in a cycle, and what it read there
          stack,    \* the calls of the GTK thread, innermost last
          wanted,   \* what the user asked for last
          calls

engine == <<run, cycle_running, exporting, remaining>>
transport == <<play_state, countin_frames_remaining>>
vars == <<engine, transport, port_operation_lock, graph_access, cycle, stack, wanted, calls>>

Threads == {"audio", "gtk", "exporter"}
InCycle == {"prepare", "serve", "lock", "graph", "process", "post"}
Idle == [at |-> "idle", read |-> "PAUSED"]
Move(t, at) == cycle' = [cycle EXCEPT ![t].at = at]

Init == /\ run = 1 /\ cycle_running = 0 /\ exporting = FALSE /\ remaining = 0
        /\ play_state = "PAUSED" /\ countin_frames_remaining = 0
        /\ port_operation_lock = 1 /\ graph_access = 1
        /\ cycle = [t \in Threads |-> Idle]
        /\ stack = << >> /\ wanted = "pause" /\ calls = 0

-----------------------------------------------------------------------------
(* engine_process, called by the backend: says that a cycle runs, and only *)
(* then looks whether it may.                                              *)
BeginCycle ==
  /\ cycle["audio"].at = "idle"
  /\ cycle_running' = 1 /\ Move("audio", "check")
  /\ UNCHANGED <<run, exporting, remaining, transport, port_operation_lock,
                 graph_access, stack, wanted, calls>>

CheckRunLeft == /\ cycle["audio"].at = "check"
                /\ Move("audio", IF run = 0 THEN "idle" ELSE "prepare")
                /\ UNCHANGED <<engine, transport, port_operation_lock, graph_access,
                               stack, wanted, calls>>
CheckRun ==
  /\ cycle["audio"].at = "check"
  /\ Move("audio", IF run = 0 THEN "finish" ELSE "prepare")
  /\ UNCHANGED <<engine, transport, port_operation_lock, graph_access, stack, wanted, calls>>

Requesting == \/ play_state = "PAUSE_REQUESTED"
              \/ play_state = "ROLL_REQUESTED" /\ countin_frames_remaining = 0

(* engine_process_prepare reads the state of the transport ...             *)
Prepare(t) ==
  /\ cycle[t].at = "prepare"
  /\ cycle' = [cycle EXCEPT ![t] =
       [read |-> play_state, at |-> IF Requesting THEN "serve" ELSE "lock"]]
  /\ UNCHANGED <<engine, transport, port_operation_lock, graph_access, stack, wanted, calls>>

(* ... serves what it read ...                                             *)
Serve(t) ==
  /\ cycle[t].at = "serve"
  /\ play_state' = IF cycle[t].read = "PAUSE_REQUESTED" THEN "PAUSED" ELSE "ROLLING"
  /\ Move(t, "lock")
  /\ UNCHANGED <<engine, countin_frames_remaining, port_operation_lock,
                 graph_access, stack, wanted, calls>>

(* ... and tries the lock.  Only engine_process looks at the result, and   *)
(* an export goes on without the lock.                                     *)
NeverSkipped(t) == FALSE
Skipped(t) == port_operation_lock = 0 /\ ~exporting /\ t = "audio"
TryLock(t) ==
  /\ cycle[t].at = "lock"
  /\ port_operation_lock' = IF port_operation_lock > 0 THEN port_operation_lock - 1
                            ELSE port_operation_lock
  /\ Move(t, IF Skipped(t) THEN "finish" ELSE "graph")
  /\ UNCHANGED <<engine, transport, graph_access, stack, wanted, calls>>

StartCycleAnyway(t) ==
  /\ cycle[t].at = "graph"
  /\ graph_access' = IF graph_access > 0 THEN graph_access - 1 ELSE graph_access
  /\ Move(t, "process")
  /\ UNCHANGED <<engine, transport, port_operation_lock, stack, wanted, calls>>
(* router_start_cycle gives up if the graph is being used.                 *)
StartCycle(t) ==
  /\ cycle[t].at = "graph"
  /\ graph_access' = IF graph_access > 0 THEN graph_access - 1 ELSE graph_access
  /\ Move(t, IF graph_access > 0 THEN "process" ELSE "post")
  /\ UNCHANGED <<engine, transport, port_operation_lock, stack, wanted, calls>>

EndCycle(t) ==
  /\ cycle[t].at = "process"
  /\ graph_access' = graph_access + 1 /\ Move(t, "post")
  /\ UNCHANGED <<engine, transport, port_operation_lock, stack, wanted, calls>>

CountInKept(t) == countin_frames_remaining
(* engine_process counts in, whatever the transport is doing by then.      *)
CountedIn(t) == IF t = "audio" /\ countin_frames_remaining > 0
                THEN countin_frames_remaining - 1 ELSE countin_frames_remaining

(* engine_post_process: the playhead, and with it an export, moves only if *)
(* the transport rolls; the lock is posted whether it was taken or not.    *)
PostProcess(t) ==
  /\ cycle[t].at = "post" /\ port_operation_lock < MaxLock
  /\ port_operation_lock' = port_operation_lock + 1
  /\ countin_frames_remaining' = CountedIn(t)
  /\ remaining' = IF t = "exporter" /\ play_state = "ROLLING" THEN remaining - 1 ELSE remaining
  /\ Move(t, IF t = "audio" THEN "finish" ELSE "idle")
  /\ UNCHANGED <<run, cycle_running, exporting, play_state, graph_access, stack, wanted, calls>>

FinishCycle ==
  /\ cycle["audio"].at = "finish"
  /\ cycle_running' = 0 /\ Move("audio", "idle")
  /\ UNCHANGED <<run, exporting, remaining, transport, port_operation_lock,
                 graph_access, stack, wanted, calls>>

(* The loop of exporter_export.                                            *)
ExportBlock ==
  /\ exporting /\ remaining > 0 /\ cycle["exporter"].at = "idle"
  /\ Move("exporter", "prepare")
  /\ UNCHANGED <<engine, transport, port_operation_lock, graph_access, stack, wanted, calls>>

CycleStep(t) == \/ Prepare(t) \/ Serve(t) \/ TryLock(t)
                \/ StartCycle(t) \/ EndCycle(t) \/ PostProcess(t)
AudioStep == BeginCycle \/ CheckRun \/ CycleStep("audio") \/ FinishCycle
ExporterStep == ExportBlock \/ CycleStep("exporter")

-----------------------------------------------------------------------------
(* The GTK thread.  A call is on the stack from its beginning to its end.  *)
Top == stack[Len(stack)]
At(op, at) == stack # << >> /\ Top.op = op /\ Top.at = at
Goto(at) == stack' = [stack EXCEPT ![Len(stack)].at = at]
Caller == SubSeq(stack, 1, Len(stack) - 1)

(* A call is made by the main loop, or in the course of a change to the    *)
(* paused project; the dialog of an export runs the main loop too.         *)
Call(op, kind, at) ==
  /\ calls < MaxCalls /\ calls' = calls + 1
  /\ stack' = Append(stack, [op |-> op, kind |-> kind, at |-> at,
                             running |-> run, playing |-> play_state = "ROLLING"])
  /\ UNCHANGED <<engine, transport, port_operation_lock, graph_access, cycle, wanted>>

(* transport_request_roll, transport_request_pause, and the other calls    *)
(* that take port_operation_lock (set_loop, set_recording, move_forward).  *)
BeginRequest(kind) ==
  /\ stack = << >> \/ (InExport /\ At("pause", "dialog"))
  /\ Call("request", kind, "lock")

Requested(kind) ==
  /\ play_state' = CASE kind = "roll" -> "ROLL_REQUESTED"
                     [] kind = "pause" -> "PAUSE_REQUESTED"
                     [] OTHER -> play_state
  /\ countin_frames_remaining' = IF kind = "roll" THEN CountIn ELSE countin_frames_remaining

LockAndRequest ==
  /\ At("request", "lock") /\ port_operation_lock > 0
  /\ port_operation_lock' = port_operation_lock - 1
  /\ Requested(Top.kind) /\ Goto("unlock")
  /\ wanted' = IF Top.kind = "other" THEN wanted ELSE Top.kind
  /\ UNCHANGED <<engine, graph_access, cycle, calls>>

UnlockRequest ==
  /\ At("request", "unlock") /\ port_operation_lock < MaxLock
  /\ port_operation_lock' = port_operation_lock + 1 /\ stack' = Caller
  /\ UNCHANGED <<engine, transport, graph_access, cycle, wanted, calls>>

(* engine_wait_for_pause, on behalf of an undoable action, an import, a    *)
(* validation, an export.  It first notes what it will restore.            *)
BeginPause(kind) ==
  /\ stack = << >> \/ (At("pause", "paused") /\ Top.kind # "export" /\ kind # "export")
  /\ Len(stack) < MaxDepth /\ (kind = "export" => Chunks > 0)
  /\ Call("pause", kind, "fade")

(* It waits until the fader is silent, or two seconds; if the transport    *)
(* was rolling it then requests a pause,                                   *)
PauseFaded ==
  /\ At("pause", "fade")
  /\ Goto(IF Top.playing THEN "request" ELSE "stop")
  /\ UNCHANGED <<engine, transport, port_operation_lock, graph_access, cycle, wanted, calls>>

PauseRequest ==
  /\ At("pause", "request") /\ port_operation_lock > 0
  /\ port_operation_lock' = port_operation_lock - 1
  /\ Requested("pause") /\ Goto("unlock")
  /\ UNCHANGED <<engine, graph_access, cycle, wanted, calls>>

(* which it enforces or waits for,                                         *)
PauseUnlock ==
  /\ At("pause", "unlock") /\ port_operation_lock < MaxLock
  /\ port_operation_lock' = port_operation_lock + 1
  /\ play_state' = IF Top.kind = "force" THEN "PAUSED" ELSE play_state
  /\ Goto(IF Top.kind = "force" THEN "stop" ELSE "spin")
  /\ UNCHANGED <<engine, countin_frames_remaining, graph_access, cycle, wanted, calls>>

PauseServed ==
  /\ At("pause", "spin") /\ play_state # "PAUSE_REQUESTED"
  /\ Goto("stop")
  /\ UNCHANGED <<engine, transport, port_operation_lock, graph_access, cycle, wanted, calls>>

(* and forbids cycles and waits for the one that runs.  So does a hard     *)
(* router_recalc_graph.                                                    *)
StopRun ==
  /\ At("pause", "stop") \/ At("recalc", "stop")
  /\ run' = 0 /\ Goto("wait")
  /\ UNCHANGED <<cycle_running, exporting, remaining, transport,
                 port_operation_lock, graph_access, cycle, wanted, calls>>

CycleOver == TRUE
CycleFinished == cycle_running = 0

CycleWaited ==
  /\ At("pause", "wait") \/ At("recalc", "wait")
  /\ CycleFinished
  /\ IF Top.op = "pause"
     THEN Goto("flush") /\ Move("gtk", "prepare")
     ELSE Goto("setup") /\ UNCHANGED cycle
  /\ UNCHANGED <<engine, transport, port_operation_lock, graph_access, wanted, calls>>

(* A paused engine processes one frame, to flush the panic messages.       *)
Flushed ==
  /\ At("pause", "flush") /\ cycle["gtk"].at = "idle"
  /\ Goto("paused")
  /\ UNCHANGED <<engine, transport, port_operation_lock, graph_access, cycle, wanted, calls>>

(* exporter_prepare_tracks_for_export, and exporter_post_export when the   *)
(* exporting thread is done.                                               *)
PrepareExport ==
  /\ At("pause", "paused") /\ Top.kind = "export"
  /\ play_state' = "ROLLING" /\ exporting' = TRUE /\ remaining' = Chunks
  /\ Goto("dialog")
  /\ UNCHANGED <<run, cycle_running, countin_frames_remaining,
                 port_operation_lock, graph_access, cycle, wanted, calls>>

PostExport ==
  /\ At("pause", "dialog") /\ remaining = 0 /\ cycle["exporter"].at = "idle"
  /\ exporting' = FALSE /\ Goto("resume")
  /\ UNCHANGED <<run, cycle_running, remaining, transport, port_operation_lock,
                 graph_access, cycle, wanted, calls>>

(* The change is made.                                                     *)
Changed ==
  /\ At("pause", "paused") /\ Top.kind # "export"
  /\ Goto("resume")
  /\ UNCHANGED <<engine, transport, port_operation_lock, graph_access, cycle, wanted, calls>>

ResumedAsIs == IF play_state = "ROLLING" THEN "roll" ELSE "pause"
Resumed == IF Top.playing THEN "roll" ELSE "pause"

(* engine_resume requests what was playing,                                *)
ResumeRequest ==
  /\ At("pause", "resume") /\ port_operation_lock > 0
  /\ port_operation_lock' = port_operation_lock - 1
  /\ Requested(Resumed) /\ Goto("restart")
  /\ UNCHANGED <<engine, graph_access, cycle, wanted, calls>>

RunKept == run
RunBefore == Top.running

(* and lets the engine run if it ran.                                      *)
ResumeRun ==
  /\ At("pause", "restart") /\ port_operation_lock < MaxLock
  /\ port_operation_lock' = port_operation_lock + 1
  /\ run' = RunBefore /\ stack' = Caller
  /\ UNCHANGED <<cycle_running, exporting, remaining, transport, graph_access,
                 cycle, wanted, calls>>

(* router_recalc_graph.                                                    *)
BeginRecalc ==
  /\ stack = << >> \/ At("pause", "paused")
  /\ Call("recalc", "hard", "stop")

RecalcDone ==
  /\ At("recalc", "setup")
  /\ run' = RunBefore /\ stack' = Caller
  /\ UNCHANGED <<cycle_running, exporting, remaining, transport,
                 port_operation_lock, graph_access, cycle, wanted, calls>>

(* A soft recalculation, and clip_editor_set_region while the engine runs: *)
(* they take graph_access, as cycles do.                                   *)
BeginAccess(kind) ==
  /\ stack = << >> \/ At("pause", "paused")
  /\ kind = "region" => run = 1
  /\ Call("access", kind, "take")

TakeAccess ==
  /\ At("access", "take") /\ graph_access > 0
  /\ graph_access' = graph_access - 1 /\ Goto("change")
  /\ UNCHANGED <<engine, transport, port_operation_lock, cycle, wanted, calls>>

ReturnAccess ==
  /\ At("access", "change")
  /\ graph_access' = graph_access + 1 /\ stack' = Caller
  /\ UNCHANGED <<engine, transport, port_operation_lock, cycle, wanted, calls>>

GtkStep == \/ LockAndRequest \/ UnlockRequest
           \/ PauseFaded \/ PauseRequest \/ PauseUnlock \/ PauseServed
           \/ StopRun \/ CycleWaited \/ CycleStep("gtk") \/ Flushed
           \/ PrepareExport \/ PostExport \/ Changed \/ ResumeRequest \/ ResumeRun
           \/ RecalcDone \/ TakeAccess \/ ReturnAccess

BeginCall == \/ \E k \in Requests : BeginRequest(k)
             \/ \E k \in {"wait", "force", "export"} : BeginPause(k)
             \/ BeginRecalc
             \/ \E k \in {"soft", "region"} : BeginAccess(k)

Next == AudioStep \/ ExporterStep \/ GtkStep \/ BeginCall
Spec == Init /\ [][Next]_vars

(* The backend keeps calling engine_process, and sleeps between two blocks *)
(* long enough for who waits for a semaphore, or polls cycle_running, to   *)
(* find it free.                                                           *)
FairSpec == Spec /\ WF_vars(AudioStep) /\ WF_vars(ExporterStep) /\ SF_vars(GtkStep)

-----------------------------------------------------------------------------
(* The graph and the ports may be changed: the engine is paused, or a hard *)
(* recalculation has stopped it.                                           *)
Exclusive == \E i \in 1..Len(stack) :
               stack[i].at \in {"flush", "paused", "dialog", "resume", "restart", "setup"}
HoldsLock == At("request", "unlock") \/ At("pause", "unlock") \/ At("pause", "restart")
Kinds == PlayRequests \cup {"wait", "force", "export", "hard", "soft", "region"}
Places == {"lock", "unlock", "fade", "request", "spin", "stop", "wait", "flush", "paused",
           "dialog", "resume", "restart", "setup", "take", "change"}
Frames == [op : {"request", "pause", "recalc", "access"}, kind : Kinds, at : Places,
           running : {0, 1}, playing : BOOLEAN]
PlayStates == {"ROLL_REQUESTED", "ROLLING", "PAUSE_REQUESTED", "PAUSED"}

(* Every variable has its type.                                            *)
TypeOK ==
  /\ run \in {0, 1} /\ cycle_running \in {0, 1} /\ exporting \in BOOLEAN
  /\ remaining \in 0..Chunks
  /\ play_state \in PlayStates /\ countin_frames_remaining \in 0..CountIn
  /\ port_operation_lock \in 0..MaxLock /\ graph_access \in {0, 1}
  /\ cycle \in [Threads -> [at : InCycle \cup {"idle", "check", "finish"}, read : PlayStates]]
  /\ stack \in Seq(Frames) /\ wanted \in {"roll", "pause"} /\ calls \in 0..MaxCalls

(* No cycle of the audio thread runs while the graph or the ports are      *)
(* being changed: setting run and reading cycle_running on one side, the   *)
(* reverse on the other, keep them apart without a lock.                   *)
ChangesExcludeCycles == Exclusive => cycle["audio"].at \notin InCycle

(* "Semaphore for blocking DSP" (engine.h): while the GTK thread holds     *)
(* port_operation_lock no cycle is past the lock.                          *)
LockBlocksCycles ==
  HoldsLock => \A t \in Threads : cycle[t].at \notin {"graph", "process", "post"}

(* Latencies and the edited region do not change during a cycle.           *)
AccessExcludesCycles ==
  At("access", "change") => \A t \in Threads : cycle[t].at # "process"

(* When every call has returned the engine runs, however the calls that    *)
(* stop it were nested (engine_resume, router_recalc_graph).               *)
RunsBetweenCalls == stack = << >> => run = 1

(* What was rolling when a call began is about to roll again when it ends, *)
(* whatever calls were nested in it (engine_resume).                       *)
RollsAgain ==
  [][(Len(stack) = 1 /\ stack' = << >> /\ stack[1].op = "pause" /\ stack[1].playing)
       => play_state' \in {"ROLL_REQUESTED", "ROLLING"}]_vars

(* A pause that is not forced waits for a request when no cycle can serve  *)
(* it any more: the engine was stopped by a pause around it.               *)
Hangs == At("pause", "spin") /\ play_state = "PAUSE_REQUESTED" /\ run = 0

(* Every call of the GTK thread returns or hangs that way.                 *)
CallsReturn == []<>(stack = << >> \/ Hangs)

(* A request is served or withdrawn in the end, unless the engine hangs.   *)
RequestsServed ==
  (play_state \in {"ROLL_REQUESTED", "PAUSE_REQUESTED"})
    ~> (play_state \in {"ROLLING", "PAUSED"} \/ Hangs)

(* A pause that is not forced leaves it to the engine "to process and      *)
(* handle the pause request" (engine.c), which it does.                    *)
PausesServed == ~Hangs

(* An export comes to its end (exporter_export).                           *)
ExportsEnd == exporting ~> ~exporting

-----------------------------------------------------------------------------
(* port_operation_lock is a lock ("Semaphore for blocking DSP ...").       *)
LockIsMutex == port_operation_lock <= 1

(* Between calls the transport does what the user asked for last, or is    *)
(* about to: the state of the engine is "re-set" after an export and after *)
(* every other pause (exporter.c).                                         *)
UserObeyed ==
  stack = << >> =>
    play_state \in IF wanted = "roll" THEN {"ROLL_REQUESTED", "ROLLING"}
                   ELSE {"PAUSE_REQUESTED", "PAUSED"}
=============================================================================
