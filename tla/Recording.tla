----------------------------- MODULE Recording -----------------------------
(***************************************************************************)
(* Recording (dsp/recording_manager.c).  In each cycle the processor of a  *)
(* track, on some audio thread, sends events from a fixed pool             *)
(* (utils/object_pool.c) through a queue to the GTK thread, which makes    *)
(* regions of them.  Both sides keep flags in the track and in its         *)
(* automation tracks, without a lock.  The queue is the one MpmcQueue      *)
(* models; here its operations are atomic.                                 *)
(***************************************************************************)
EXTENDS Integers, Sequences, FiniteSets, SequencesExt

CONSTANTS Tracks,     \* tracks that can record
          Autos,      \* automation tracks
          Owner,      \* automation track -> its track
          PoolSize,   \* events in the pool
          Splits,     \* bound: ways in which cycles are split (see Cycles)
          MaxOps      \* bound: what the user does

ASSUME UnitsAssumption ==
  Tracks \cap Autos = {} /\ IsFiniteSet(Autos) /\ Owner \in [Autos -> Tracks]
ASSUME BoundsAssumption == PoolSize \in Nat /\ MaxOps \in Nat

(* A segment of a cycle: inside or outside of the punch range, or one of   *)
(* no frames, at the position loop_end_pos or elsewhere.                   *)
Segments == {"inside", "outside", "loopEnd", "pause"}
Empty == {"loopEnd", "pause"}

(* How handle_recording of track_processor.c splits a cycle: where the     *)
(* punch range begins and ends in it, with a pause at the end of the cycle *)
(* if it ends; and, if the loop ends with the cycle, one segment of no     *)
(* frames at its end and one at its start.                                 *)
Punches == {<<"inside">>, <<"outside">>, <<"outside", "inside">>}
PunchEnds == {<<"inside", "outside">>, <<"outside", "inside", "outside">>}
Cycles == Punches \cup {p \o <<"pause">> : p \in PunchEnds}
          \cup {p \o <<"loopEnd">> : p \in PunchEnds}
          \cup {p \o <<"loopEnd", "pause">> : p \in Punches \cup PunchEnds}
ASSUME SplitsAssumption == Splits \subseteq Cycles

VARIABLES recording, rolling,  \* of the transport
          armed,       \* track -> whether its record button is on
          mode,        \* automation track -> whether it should record
          cached,      \* ats_in_record_mode
          on,          \* recording_region of a track, recording_started of the others
          startSent, stopSent, paused,
          call,        \* track -> where its processor is, and what it has to send
          free, queue, \* object pool and event queue
          gtk,         \* where recording_manager_process_events is
          active,      \* num_active_recordings
          ids,         \* whose regions are in recorded_ids ...
          outdated,    \* ... with the name the track had
          failed,      \* whose first region could not be added
          down,        \* a null pointer was used
          ops

transport == <<recording, rolling, armed, mode>>
flags == <<on, startSent, stopSent, paused>>
events == <<free, queue>>
regions == <<active, ids, outdated, failed>>
vars == <<transport, cached, flags, call, events, gtk, regions, down, ops>>

Units == Tracks \cup Autos
TrackOf(u) == IF u \in Autos THEN Owner[u] ELSE u
AutosOf(t) == {a \in Autos : Owner[a] = t}
Modes == {"off", "record", "released"}
Types == {"start", "start0", "data", "pause", "stop"}
Event(type, u) == [type |-> type, unit |-> u, old |-> FALSE]
Events == [type : Types, unit : Units, old : BOOLEAN]
NoEvent == [type |-> "none"]

NoCall == [stop |-> "no", todo |-> << >>, more |-> << >>]
Waiting == [at |-> "idle", ev |-> NoEvent, roll |-> FALSE]

Init == /\ recording \in BOOLEAN /\ rolling \in BOOLEAN
        /\ armed \in [Tracks -> BOOLEAN] /\ mode \in [Autos -> {"off", "record"}]
        /\ cached = {a \in Autos : mode[a] # "off"}
        /\ on = [u \in Units |-> FALSE] /\ startSent = on /\ paused = on
        /\ stopSent = [t \in Tracks |-> FALSE]
        /\ call = [t \in Tracks |-> NoCall]
        /\ free = PoolSize /\ queue = << >> /\ gtk = Waiting
        /\ active = 0 /\ ids = {} /\ outdated = {} /\ failed = {}
        /\ down = FALSE /\ ops = 0

-----------------------------------------------------------------------------
(* recording_manager_handle_recording, for each segment of a cycle: the    *)
(* start, the stop or the pause of the track ...                           *)
Wanted(t) == recording /\ armed[t] /\ rolling
Should(a) == mode[a] = "record" \/ (mode[a] = "released" /\ on[a])

Running == ~down /\ gtk.at \notin {"freeing", "freed"}

(* ... those of its automation, for the tracks in the cached list ...      *)
AutoStarts(a) == rolling /\ Should(a) /\ ~on[a] /\ ~startSent[a]
AutoStops(a) == on[a] /\ ~(rolling /\ Should(a))
AutoPauses(a, s) == startSent[a] /\ s = "loopEnd"
AutoEvents(a, s) ==
  (IF AutoStops(a) THEN <<Event("stop", a)>>
   ELSE IF AutoPauses(a, s) THEN <<Event("pause", a)>> ELSE << >>)
  \o (IF AutoStarts(a) THEN <<Event(IF s \in Empty THEN "start0" ELSE "start", a)>> ELSE << >>)

(* ... and what was played: one event stands for the one of audio or the   *)
(* several of MIDI; of automation unless some of it stops or pauses.       *)
AutoData(t, s) ==
  {a \in AutosOf(t) : /\ rolling /\ Should(a) /\ (startSent[a] \/ (a \in cached /\ AutoStarts(a)))
                      /\ \A b \in AutosOf(t) \cap cached : ~AutoStops(b) /\ ~AutoPauses(b, s)}

EventsOf(f) == LET us == SetToSeq(DOMAIN f) IN FlattenSeq([i \in DOMAIN us |-> f[us[i]]])

(* What a call marks and sends, and the segments of the cycle after it.    *)
Marks(t, own) == startSent' = [x \in Units |->
  startSent[x] \/ (x = t /\ own) \/ (x \in AutosOf(t) \cap cached /\ AutoStarts(x))]
Sends(t, s, m, own, data) ==
  call' = [call EXCEPT ![t] = [stop |-> "no", more |-> m, todo |->
    own \o EventsOf([a \in AutosOf(t) \cap cached |-> AutoEvents(a, s)])
    \o (IF data THEN <<Event("data", t)>> ELSE << >>)
    \o EventsOf([a \in AutoData(t, s) |-> <<Event("data", a)>>])]]

Unwanted(t, s, m) ==
  /\ ~Wanted(t)
  /\ IF on[t] THEN /\ call' = [call EXCEPT ![t].stop = s, ![t].more = m]
                   /\ UNCHANGED startSent
     ELSE Marks(t, FALSE) /\ Sends(t, s, m, << >>, FALSE)

Pausing(t, s, m) ==
  /\ Wanted(t) /\ s \in Empty /\ Marks(t, FALSE)
  /\ IF on[t] \/ startSent[t] THEN Sends(t, s, m, <<Event("pause", t)>>, FALSE)
     ELSE Sends(t, s, m, << >>, TRUE)

Starting(t, s, m) ==
  /\ Wanted(t) /\ s = "inside"
  /\ LET new == ~on[t] /\ ~startSent[t] IN
     Marks(t, new) /\ Sends(t, s, m, IF new THEN <<Event("start", t)>> ELSE << >>, TRUE)

Outside(t, s, m) == /\ Wanted(t) /\ s = "outside" /\ Marks(t, FALSE)
                    /\ Sends(t, s, m, << >>, FALSE)

HandleRecording(t) ==
  /\ Running /\ call[t].stop = "no" /\ call[t].todo = << >>
  /\ \E c \in IF call[t].more = << >> THEN Splits ELSE {call[t].more} :
       LET s == Head(c)
           m == Tail(c)
       IN Unwanted(t, s, m) \/ Pausing(t, s, m) \/ Starting(t, s, m) \/ Outside(t, s, m)
  /\ UNCHANGED <<transport, cached, on, stopSent, paused, events, gtk, regions, down, ops>>

(* The region was there; only now recording_stop_sent is read.             *)
CheckStopSent(t) ==
  /\ Running /\ call[t].stop # "no"
  /\ Marks(t, FALSE)
  /\ Sends(t, call[t].stop, call[t].more,
           IF stopSent[t] THEN << >> ELSE <<Event("stop", t)>>, FALSE)
  /\ stopSent' = [stopSent EXCEPT ![t] = TRUE]
  /\ UNCHANGED <<transport, cached, on, paused, events, gtk, regions, down, ops>>

(* object_pool_get and the push; what an empty pool returns is used        *)
(* unchecked.                                                              *)
Send(t) ==
  /\ Running /\ call[t].todo # << >>
  /\ IF free > 0
     THEN /\ free' = free - 1 /\ queue' = Append(queue, Head(call[t].todo))
          /\ call' = [call EXCEPT ![t].todo = Tail(@)] /\ UNCHANGED down
     ELSE down' = TRUE /\ UNCHANGED <<events, call>>
  /\ UNCHANGED <<transport, cached, flags, gtk, regions, ops>>

Handler(t) == HandleRecording(t) \/ CheckStopSent(t) \/ Send(t)

-----------------------------------------------------------------------------
(* recording_manager_process_events, which a timer calls: it handles one   *)
(* event after the other.                                                  *)
At(at) == gtk' = [gtk EXCEPT !.at = at]
Quiet == \A t \in Tracks : call[t] = NoCall

Handling(u, type) == /\ gtk.at = "idle" /\ queue # << >>
                     /\ Head(queue).type = type /\ Head(queue).unit = u /\ ~Head(queue).old
                     /\ queue' = Tail(queue)

NotReturned == gtk' = Waiting /\ UNCHANGED free
(* object_pool_return.                                                     *)
Return == gtk' = Waiting /\ free' = free + 1

(* No track has the name in the event: recording_manager_process_events    *)
(* returns and keeps processing_sem, or a handler goes on without a track. *)
TrackNotFound ==
  /\ gtk.at = "idle" /\ queue # << >> /\ Head(queue).old
  /\ queue' = Tail(queue)
  /\ gtk' = [gtk EXCEPT !.at = "hung", !.ev = Head(queue)]
  /\ down' = ~(Head(queue).unit \in Tracks /\ Head(queue).type \in {"start", "stop"})
  /\ UNCHANGED <<transport, cached, flags, call, free, regions, ops>>

(* handle_start_recording.  The region is in the track, but nowhere else,  *)
(* if its clip cannot be written.                                          *)
RegionAdded(t) == on' = [on EXCEPT ![t] = TRUE] /\ ids' = ids \cup {t}

StartTrack(t) ==
  /\ Handling(t, "start") /\ Return
  /\ \/ /\ on[t] /\ active' = active + 1
        /\ UNCHANGED <<on, paused, ids, failed>>
     \/ /\ ~on[t] /\ RegionAdded(t) /\ active' = active + 1
        /\ paused' = [paused EXCEPT ![t] = FALSE] /\ UNCHANGED failed
     \/ /\ ~on[t] /\ failed' = failed \cup {t}
        /\ paused' = [paused EXCEPT ![t] = FALSE] /\ UNCHANGED <<on, active, ids>>
  /\ UNCHANGED <<transport, cached, startSent, stopSent, call, outdated, down, ops>>

StartAutomation(a) ==
  /\ Handling(a, "start") \/ Handling(a, "start0")
  /\ Return /\ on' = [on EXCEPT ![a] = TRUE]
  /\ active' = IF on[a] \/ Head(queue).type = "start0" THEN active ELSE active + 1
  /\ UNCHANGED <<transport, cached, startSent, stopSent, paused, call,
                 ids, outdated, failed, down, ops>>

(* handle_audio_event and handle_midi_event: after a pause a new region,   *)
(* or the old one for MIDI that is merged.                                 *)
TrackData(t) ==
  /\ Handling(t, "data") /\ Return
  /\ \/ paused[t] /\ RegionAdded(t)
     \/ UNCHANGED <<on, ids>>
  /\ paused' = [paused EXCEPT ![t] = FALSE]
  /\ UNCHANGED <<transport, cached, startSent, stopSent, call, active,
                 outdated, failed, down, ops>>

(* handle_automation_event makes a region when the value changed or, after *)
(* a pause, if there is none; recording_paused is never reset.             *)
AutomationData(a) ==
  /\ Handling(a, "data") /\ Return
  /\ ids' \in {ids, ids \cup {a}}
  /\ UNCHANGED <<transport, cached, flags, call, active, outdated,
                 failed, down, ops>>

Pause(u) ==
  /\ Handling(u, "pause") /\ Return /\ paused' = [paused EXCEPT ![u] = TRUE]
  /\ UNCHANGED <<transport, cached, on, startSent, stopSent, call, regions, down, ops>>

(* handle_stop_recording: the last of the recordings that are active makes *)
(* an action, unless a region is not found.                                *)
Kind(u) == IF u \in Autos THEN Autos ELSE Tracks
NotFound(u) == ids \cap Kind(u) \cap outdated # {}
Stop(u) ==
  /\ Handling(u, "stop")
  /\ LET called == u \in Autos => on[u]
         commits == called /\ active = 1 /\ ~NotFound(u) IN
     /\ gtk' = [gtk EXCEPT !.at = IF commits THEN "pause" ELSE "clear", !.ev = Head(queue)]
     /\ active' = IF called /\ active > 1 THEN active - 1 ELSE active
  /\ UNCHANGED <<transport, cached, flags, call, free, ids, outdated,
                 failed, down, ops>>

(* The action pauses the engine, which runs at least one cycle on the way. *)
PauseEngine == /\ gtk.at = "pause" /\ Quiet
               /\ gtk' = [gtk EXCEPT !.at = "commit", !.roll = rolling] /\ rolling' = FALSE
               /\ UNCHANGED <<recording, armed, mode, cached, flags, call, events,
                              regions, down, ops>>

StopsSent == /\ \A t \in Tracks : on[t] => stopSent[t]
             /\ \A a \in cached : on[a] =>
                  \E e \in ToSet(queue) \cup {gtk.ev} : e = Event("stop", a)

(* What the action is made of has the regions of one kind only; then those *)
(* of both are looked up, and used without a check.  It returns early if   *)
(* an object that was selected is not found again.                         *)
Commit == /\ gtk.at = "commit" /\ Quiet /\ StopsSent
          /\ \E next \in {"disarm", "clear"} :
               gtk' = [gtk EXCEPT !.at = next, !.roll = FALSE]
          /\ rolling' = gtk.roll /\ down' = (outdated # {})
          /\ UNCHANGED <<recording, armed, mode, cached, flags, call, events,
                         regions, ops>>

Disarm == /\ gtk.at = "disarm" /\ At("clear") /\ recording' = FALSE
          /\ active' = active - 1 /\ ids' = {} /\ outdated' = {}
          /\ UNCHANGED <<rolling, armed, mode, cached, flags, call, events, failed, down, ops>>

ClearLeft == /\ gtk.at = "clear" /\ At("clearStart")
             /\ UNCHANGED <<transport, cached, flags, call, events, regions, down, ops>>
Clear == /\ gtk.at = "clear" /\ At("clearStart") /\ on' = [on EXCEPT ![gtk.ev.unit] = FALSE]
         /\ UNCHANGED <<transport, cached, startSent, stopSent, paused, call, events,
                        regions, down, ops>>

ClearStartLeft == /\ gtk.at = "clearStart" /\ At("clearStop")
                  /\ UNCHANGED <<transport, cached, flags, call, events, regions, down, ops>>
ClearStart == /\ gtk.at = "clearStart" /\ At("clearStop")
              /\ startSent' = [startSent EXCEPT ![gtk.ev.unit] = FALSE]
              /\ UNCHANGED <<transport, cached, on, stopSent, paused, call, events,
                             regions, down, ops>>

ClearStop == /\ gtk.at = "clearStop" /\ Return
             /\ stopSent' = [t \in Tracks |-> stopSent[t] /\ t # gtk.ev.unit]
             /\ UNCHANGED <<transport, cached, on, startSent, paused, call, queue,
                            regions, down, ops>>

Process == /\ ~down
           /\ \/ TrackNotFound
              \/ \E t \in Tracks : StartTrack(t) \/ TrackData(t)
              \/ \E a \in Autos : StartAutomation(a) \/ AutomationData(a)
              \/ \E u \in Units : Pause(u) \/ Stop(u)
              \/ PauseEngine \/ Commit \/ Disarm \/ Clear \/ ClearStart \/ ClearStop

-----------------------------------------------------------------------------
(* What the user does, on the GTK thread, and the time that passes.        *)
Op == /\ ~down /\ gtk.at = "idle" /\ ops < MaxOps /\ ops' = ops + 1
      /\ UNCHANGED <<flags, call, free, active, ids, failed, down>>

Roll == /\ Op /\ Quiet /\ rolling' = ~rolling
        /\ UNCHANGED <<recording, armed, mode, cached, queue, gtk, outdated>>
Record == /\ Op /\ recording' = ~recording
          /\ UNCHANGED <<rolling, armed, mode, cached, queue, gtk, outdated>>
Arm(t) == /\ Op /\ armed' = [armed EXCEPT ![t] = ~@]
          /\ UNCHANGED <<recording, rolling, mode, cached, queue, gtk, outdated>>

(* automation_track_set_automation_mode only ever adds to the cached list. *)
SetMode(a) ==
  /\ Op /\ \E m \in Modes \ {mode[a]} : mode' = [mode EXCEPT ![a] = m]
  /\ cached' = IF mode'[a] = "off" THEN cached ELSE cached \cup {a}
  /\ UNCHANGED <<recording, rolling, armed, queue, gtk, outdated>>

(* A new graph: automation_tracklist_set_caches, between cycles.           *)
SetCaches == /\ Op /\ Quiet /\ cached' = {a \in Autos : mode[a] # "off"}
             /\ UNCHANGED <<transport, queue, gtk, outdated>>

(* Renaming is an action too: the engine was paused, see Commit.           *)
Rename(t) ==
  /\ Op /\ Quiet /\ ~rolling /\ StopsSent
  /\ queue' = [i \in DOMAIN queue |->
       [queue[i] EXCEPT !.old = @ \/ TrackOf(queue[i].unit) = t]]
  /\ outdated' = outdated \cup {u \in ids : TrackOf(u) = t}
  /\ UNCHANGED <<transport, cached, gtk>>

(* recording_manager_free, after the project and its engine.               *)
Quit == /\ Op /\ Quiet /\ At("freeing")
        /\ UNCHANGED <<transport, cached, queue, outdated>>
Free ==
  /\ gtk.at = "freeing"
  /\ IF queue = << >> THEN At("freed") /\ UNCHANGED events
     ELSE queue' = Tail(queue) /\ free' = free + 1 /\ UNCHANGED gtk
  /\ UNCHANGED <<transport, cached, flags, call, regions, down, ops>>

User == \/ Roll \/ Record \/ SetCaches \/ Quit
        \/ \E t \in Tracks : Arm(t) \/ Rename(t)
        \/ \E a \in Autos : SetMode(a)

Next == Process \/ User \/ Free \/ \E t \in Tracks : Handler(t)
Spec == Init /\ [][Next]_vars

(* Cycles go on, and the timer comes again; a pause of the engine waits    *)
(* for the end of a cycle, which is there between any two.                 *)
FairSpec == Spec /\ SF_vars(Process) /\ \A t \in Tracks : WF_vars(Handler(t))

-----------------------------------------------------------------------------
Pending(u, types) ==
  \E e \in ToSet(queue) \cup {gtk.ev} \cup UNION {ToSet(call[t].todo) : t \in Tracks} :
    e \in Events /\ e.unit = u /\ e.type \in types

Held == IF gtk.ev \in Events THEN 1 ELSE 0
Places == {"idle", "pause", "commit", "disarm", "clear",
           "clearStart", "clearStop", "hung", "freeing", "freed"}

(* Types; and an event is in the pool, in the queue or being handled: none *)
(* is lost and none returned twice, whatever way an event is handled.      *)
TypeOK ==
  /\ {recording, rolling, down} \subseteq BOOLEAN /\ armed \in [Tracks -> BOOLEAN]
  /\ mode \in [Autos -> Modes] /\ cached \subseteq Autos
  /\ {on, startSent, paused} \subseteq [Units -> BOOLEAN] /\ stopSent \in [Tracks -> BOOLEAN]
  /\ call \in [Tracks -> [stop : Segments \cup {"no"}, todo : Seq(Events),
                          more : Seq(Segments)]]
  /\ gtk \in [at : Places, ev : Events \cup {NoEvent}, roll : BOOLEAN]
  /\ queue \in Seq(Events) /\ free + Len(queue) + Held = PoolSize
  /\ {active, ops, free} \subseteq Nat /\ ids \subseteq Units
  /\ outdated \subseteq ids /\ failed \subseteq Tracks

(* A flag that keeps a processor from sending a start or a stop again is   *)
(* never left behind: what it waits for has happened or is on its way.  It *)
(* is not so for a track whose region could not be added.                  *)
FlagsAnswered ==
  gtk.at \in {"freeing", "freed"} \/
  /\ \A u \in Units \ failed : startSent[u] =>
       on[u] \/ Pending(u, {"start", "start0"}) \/ (gtk.at = "clearStart" /\ gtk.ev.unit = u)
  /\ \A t \in Tracks : stopSent[t] => Pending(t, {"stop"})

(* A track that is no longer to be recorded has its recording ended,       *)
(* whatever was in the queue, unless the program ends, or one of its       *)
(* threads does.                                                           *)
Ended == down \/ gtk.at \in {"hung", "freeing", "freed"}
RecordingsEnd ==
  \A t \in Tracks : <>[]~Wanted(t) => <>[](~on[t] \/ Ended)

(* The same of automation.  It is refuted: a new graph rebuilds the cached *)
(* list, without an automation track whose stop was not sent yet.          *)
AutomationEnds ==
  \A a \in Autos : <>[](mode[a] = "off") => <>[](~on[a] \/ Ended)

(* "g_return_if_fail (self->num_active_recordings > 0)", at the start of   *)
(* handle_stop_recording.  It is refuted: by a stop that is sent again     *)
(* because the region was read before, and recording_stop_sent after, the  *)
(* GTK thread reset them; by data after a stop that ended a pause.         *)
StopFindsARecording ==
  [][\A u \in Units : Stop(u) /\ (u \in Autos => on[u]) => active > 0]_vars

(* "Recorded region identifiers, to be used for creating the undoable      *)
(* actions": no region that was recorded is left out of them.  It is       *)
(* refuted: if automation and a track were recorded, the action has the    *)
(* regions of what stopped last.                                           *)
RecordedAreUndoable == [][Disarm => ids \subseteq Kind(gtk.ev.unit)]_vars

(* "don't unset recording paused, this will be unset by handle_resume()":  *)
(* what is handled after a pause ends it.  It is refuted for automation,   *)
(* whose region is then added to recorded_ids with every event.            *)
ResumeEndsPause ==
  [][/\ \A t \in Tracks : TrackData(t) => ~paused'[t]
     /\ \A a \in Autos : AutomationData(a) => ~paused'[a]]_vars

(* "g_return_val_if_fail (IS_TRACK_AND_NONNULL (tr), G_SOURCE_CONTINUE)":  *)
(* an event finds its track.  It is refuted: a track that is renamed with  *)
(* events in the queue leaves them behind, and the GTK thread hangs.       *)
EventsFindTheirTrack == gtk.at # "hung"
=============================================================================
