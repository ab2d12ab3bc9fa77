---------------------------- MODULE ProjectSave ----------------------------
(***************************************************************************)
(* Saving a project and opening it again: project_save and the autosave of *)
(* src/project.c, the audio pool of src/dsp/pool.c and src/dsp/clip.c, and *)
(* the choice between a project and its backups in                         *)
(* src/project/project_init_flow_manager.c.  The GTK thread edits and      *)
(* saves; it waits for the thread that writes the file, so a save is one   *)
(* sequence of steps.  The process may be killed between any two of them,  *)
(* and a step may fail.                                                    *)
(*                                                                         *)
(* An audio clip is its name, which is its file's name in a pool           *)
(* directory, and its sound: the number of the action that made it, or     *)
(* Silence.  A directory is a project file, the FINISHED file and a pool.  *)
(*                                                                         *)
(* An undoable action is its address, which another one may get once it is *)
(* freed, and the clips it made.  A file keeps the addresses: opening it   *)
(* allocates all its actions at once, and only addresses of actions in     *)
(* memory are compared.                                                    *)
(***************************************************************************)
EXTENDS Naturals, Sequences, FiniteSets

CONSTANTS Addrs,      \* addresses of actions
          NoAction,   \* NULL
          MaxLength,  \* undo-stack-length: actions that a stack holds
          MaxEdits,   \* bound: actions ever performed
          MaxSaves,   \* bound: saves and backups ever begun
          MayCrash,   \* whether the process may be killed during a save
          Fallible    \* steps of project_save that may fail

ASSUME AddrsAssumption == NoAction \notin Addrs
ASSUME BoundsAssumption == {MaxLength, MaxEdits, MaxSaves} \subseteq Nat \ {0}
ASSUME MayCrashAssumption == MayCrash \in BOOLEAN
ASSUME FallibleAssumption ==
  Fallible \subseteq {"project_dir", "backup_dir", "dirs", "pool", "clone", "states",
                       "serialize"}

VARIABLES mem,             \* the open project
          last_saved_action, last_autosaved,
          source,          \* auxiliary: the directory that was saved or opened,
                           \* Nowhere if the save could not write its file
          forgotten,       \* auxiliary: what last_saved_action stands for is no
                           \* longer on the stacks (see Forgets)
          action_sem, run, \* the semaphore of actions, AudioEngine.run
          main, backups,   \* the directories on disk
          saver,           \* the project_save under way
          edits, saves     \* counts of actions and of saves

vars == <<mem, last_saved_action, last_autosaved, source, forgotten, action_sem, run,
          main, backups, saver, edits, saves>>

Silence == 0
Main == 0
Nowhere == MaxSaves + 1
Clips == [name : 0..MaxEdits, data : 0..MaxEdits]
Actions == [addr : Addrs, clips : SUBSET Clips]
Projects == [base : SUBSET Clips, undo : Seq(Actions), redo : Seq(Actions),
             pool : SUBSET Clips]

(* `base' holds the clips of regions that no undoable action made.         *)
NewProject == [base |-> {}, undo |-> << >>, redo |-> << >>, pool |-> {}]
NoFile == [project |-> NewProject, time |-> 0]
EmptyDir == [file |-> NoFile, finished |-> FALSE, pool |-> {}]
Idle == [at |-> "idle", backup |-> FALSE, running |-> FALSE, pending |-> {},
         clone |-> NewProject, has_error |-> FALSE]
Down == [Idle EXCEPT !.at = "down"]

ClipsOf(actions) == UNION {actions[i].clips : i \in DOMAIN actions}
Document(p) == p.base \cup ClipsOf(p.undo)      \* the clips of its regions
InUse(p) == Document(p) \cup ClipsOf(p.redo)    \* audio_clip_is_in_use
LastAction(p) == IF p.undo = << >> THEN NoAction ELSE p.undo[Len(p.undo)].addr
HasUnsavedChanges == LastAction(mem) # last_saved_action

Names(clips) == {c.name : c \in clips}
AnyName == 0
UniqueName == CHOOSE n \in 0..MaxEdits :
                /\ n \notin Names(mem.pool)
                /\ \A k \in 0..MaxEdits : k < n => k \in Names(mem.pool)
(* audio_clip_write_to_pool: a file of that name is replaced unless it     *)
(* holds the same sound.                                                   *)
Written(files, clips) == {f \in files : f.name \notin Names(clips)} \cup clips

(* Opening a project reads its clips from the pool of the project's own    *)
(* directory, by name, also when its file is that of a backup.             *)
Read(c) == [c EXCEPT !.data = IF c.name \in Names(main.pool)
                              THEN (CHOOSE f \in main.pool : f.name = c.name).data
                              ELSE Silence]
ReadActions(actions) ==
  [i \in DOMAIN actions |->
     [actions[i] EXCEPT !.clips = {Read(c) : c \in actions[i].clips}]]
Opened(p) == [base |-> {Read(c) : c \in p.base}, pool |-> {Read(c) : c \in p.pool},
              undo |-> ReadActions(p.undo), redo |-> ReadActions(p.redo)]

Dir(i) == IF i = Main THEN main ELSE backups[i]
Newer == {i \in DOMAIN backups : backups[i].file.time > main.file.time}
(* get_newer_backup: a backup directory without a project file ends the    *)
(* search without a result.                                                *)
NewerBackup ==
  IF (\E i \in DOMAIN backups : backups[i].file = NoFile) \/ Newer = {} THEN Main
  ELSE CHOOSE i \in Newer :
         \A j \in Newer : backups[j].file.time <= backups[i].file.time

(* A project just opened, or just created and saved.                       *)
Init == /\ mem = NewProject /\ last_saved_action = NoAction
        /\ last_autosaved = NoAction /\ source = Main /\ forgotten = FALSE
        /\ action_sem \in {1, 2} /\ run = TRUE
        /\ main = [EmptyDir EXCEPT !.finished = TRUE, !.file.time = 1]
        /\ backups = << >> /\ saver = Idle /\ edits = 0 /\ saves = 0

-----------------------------------------------------------------------------
(* The user's actions, between saves.                                      *)
CanEdit == saver.at = "idle" /\ action_sem > 0
EditUnchanged == UNCHANGED <<last_saved_action, last_autosaved, source,
                             action_sem, run, backups, saver, saves>>

(* What performing frees: the redo stack, and the oldest action if the     *)
(* stack is full.  With that one goes the state in which there was none.   *)
AddrsOf(actions) == {actions[i].addr : i \in DOMAIN actions}
IsFull == Len(mem.undo) = MaxLength
Forgets ==
  \/ last_saved_action \in AddrsOf(mem.redo)
  \/ IsFull /\ last_saved_action \in {mem.undo[1].addr, NoAction}

(* Room for one more action: what the oldest one did stays in the document.*)
WithRoom == IF IsFull
            THEN [mem EXCEPT !.base = @ \cup mem.undo[1].clips, !.undo = Tail(@)]
            ELSE mem

(* undo_manager_perform of an action that made `clips', at any address that*)
(* is free while the redo stack is still there: the files of the clips are *)
(* written to the project's pool at once, and the redo stack is cleared.   *)
PerformAt(a, clips) ==
  /\ CanEdit /\ edits < MaxEdits
  /\ edits' = edits + 1
  /\ mem' = [WithRoom EXCEPT !.undo = Append(@, [addr |-> a, clips |-> clips]),
                             !.redo = << >>, !.pool = @ \cup clips]
  /\ main' = [main EXCEPT !.pool = Written(@, clips)]
  /\ forgotten' = (forgotten \/ Forgets)
  /\ EditUnchanged
Perform(clips) ==
  \E a \in Addrs \ (AddrsOf(mem.undo) \cup AddrsOf(mem.redo)) : PerformAt(a, clips)

Edit == Perform({})
Import == Perform({[name |-> UniqueName, data |-> edits + 1]})

(* Between them the stacks hold no more than MaxLength actions: neither     *)
(* undoing nor redoing finds the other stack full.                         *)
Undo ==
  /\ CanEdit /\ mem.undo # << >>
  /\ LET n == Len(mem.undo)
     IN mem' = [mem EXCEPT !.undo = SubSeq(@, 1, n - 1),
                           !.redo = Append(@, mem.undo[n])]
  /\ EditUnchanged /\ UNCHANGED <<main, edits, forgotten>>

Redo ==
  /\ CanEdit /\ mem.redo # << >>
  /\ LET a == mem.redo[Len(mem.redo)]
     IN /\ mem' = [mem EXCEPT !.undo = Append(@, a),
                              !.redo = SubSeq(@, 1, Len(@) - 1)]
        /\ main' = [main EXCEPT !.pool = Written(@, a.clips)]
  /\ EditUnchanged /\ UNCHANGED <<edits, forgotten>>

(* An action that finds the semaphore taken blocks the GTK thread, the only*)
(* one that could post it.                                                 *)
Blocked ==
  /\ saver.at = "idle" /\ action_sem = 0
  /\ saver' = [Idle EXCEPT !.at = "perform", !.running = run]
  /\ UNCHANGED <<mem, last_saved_action, last_autosaved, source, forgotten, action_sem,
                 run, main, backups, edits, saves>>

-----------------------------------------------------------------------------
(* project_save, from the menu or as an autosave.                          *)
Begin(backup) ==
  /\ saver.at = "idle" /\ saves < MaxSaves
  /\ saves' = saves + 1
  /\ run' = FALSE
  /\ saver' = [Idle EXCEPT !.at = IF backup THEN "wait" ELSE "project_dir",
                           !.backup = backup, !.running = run]
  /\ UNCHANGED <<mem, last_saved_action, last_autosaved, source, forgotten, action_sem,
                 main, backups, edits>>

Save == Begin(FALSE)
Autosave == last_autosaved # LastAction(mem) /\ Begin(TRUE)

Goto(at) == saver' = [saver EXCEPT !.at = at]
Kept == UNCHANGED <<last_saved_action, last_autosaved, source, forgotten, edits, saves>>

WaitActionSem ==
  /\ saver.at = "wait" /\ action_sem > 0
  /\ action_sem' = action_sem - 1
  /\ Goto("project_dir") /\ Kept /\ UNCHANGED <<mem, run, main, backups>>

MakeProjectDir ==
  /\ saver.at = "project_dir"
  /\ Goto(IF saver.backup THEN "backup_dir" ELSE "dirs")
  /\ Kept /\ UNCHANGED <<mem, run, action_sem, main, backups>>

MakeBackupDir ==
  /\ saver.at = "backup_dir"
  /\ backups' = Append(backups, EmptyDir)
  /\ Goto("dirs") /\ Kept /\ UNCHANGED <<mem, run, action_sem, main>>

MakeDirs == saver.at = "dirs" /\ Goto("unused") /\ Kept
            /\ UNCHANGED <<mem, run, action_sem, main, backups>>

(* Changes of the directory of the backup, or of the project.              *)
Target(backup) == IF backup THEN backups[Len(backups)] ELSE main
SaveTo(backup, dir) ==
  IF backup THEN backups' = [backups EXCEPT ![Len(backups)] = dir] /\ UNCHANGED main
            ELSE main' = dir /\ UNCHANGED backups

(* audio_pool_remove_unused: clips that neither the regions nor the undo   *)
(* stacks use leave the pool, files that are no clip's leave the directory.*)
Remove(backup) ==
  /\ saver.at = "unused"
  /\ mem' = [mem EXCEPT !.pool = InUse(mem)]
  /\ LET dir == Target(backup)
     IN SaveTo(backup, [dir EXCEPT !.pool = {f \in @ : f.name \in Names(InUse(mem))}])
  /\ saver' = [saver EXCEPT !.at = "pool", !.pending = InUse(mem)]
  /\ Kept /\ UNCHANGED <<run, action_sem>>
RemoveFromMain == Remove(FALSE)
RemoveUnused == Remove(saver.backup)

WriteClip ==
  /\ saver.at = "pool"
  /\ \E c \in saver.pending :
       /\ SaveTo(saver.backup,
                 [Target(saver.backup) EXCEPT !.pool = Written(@, {c})])
       /\ saver' = [saver EXCEPT !.pending = @ \ {c}]
  /\ Kept /\ UNCHANGED <<mem, run, action_sem>>

(* project_clone: a backup has no undo history.                            *)
CloneProject(written) ==
  /\ saver.at = "pool" /\ written
  /\ saver' = [saver EXCEPT
       !.at = IF saver.backup THEN "states" ELSE "serialize",
       !.clone = IF saver.backup
                 THEN [mem EXCEPT !.base = Document(mem), !.undo = << >>, !.redo = << >>]
                 ELSE mem]
  /\ Kept /\ UNCHANGED <<mem, run, action_sem, main, backups>>
CloneEarly == CloneProject(TRUE)
Clone == CloneProject(saver.pending = {})

CopyPluginStates == saver.at = "states" /\ Goto("serialize") /\ Kept
                    /\ UNCHANGED <<mem, run, action_sem, main, backups>>

(* serialize_project_thread: an error leaves the old file; the semaphore   *)
(* is posted whether or not the save waited for it.                        *)
SerializeWith(posts) ==
  /\ saver.at = "serialize"
  /\ \/ /\ SaveTo(saver.backup,
                  [Target(saver.backup) EXCEPT
                     !.file = [project |-> saver.clone, time |-> saves + 1]])
        /\ Goto("finish")
     \/ /\ "serialize" \in Fallible
        /\ saver' = [saver EXCEPT !.at = "finish", !.has_error = TRUE]
        /\ UNCHANGED <<main, backups>>
  /\ action_sem' = action_sem + posts
  /\ Kept /\ UNCHANGED <<mem, run>>
SerializeKeepsSem == SerializeWith(0)
Serialize == SerializeWith(1)

(* The FINISHED file and the last action saved, whatever has_error says.   *)
SavedAlways == /\ last_saved_action' = LastAction(mem)
               /\ last_autosaved' = LastAction(mem)
Saved == IF saver.backup
         THEN last_autosaved' = LastAction(mem) /\ UNCHANGED last_saved_action
         ELSE last_saved_action' = LastAction(mem) /\ UNCHANGED last_autosaved
Finish ==
  /\ saver.at = "finish"
  /\ SaveTo(saver.backup, [Target(saver.backup) EXCEPT !.finished = TRUE])
  /\ Saved
  /\ source' = IF saver.backup THEN source
               ELSE IF saver.has_error THEN Nowhere ELSE Main
  /\ forgotten' = (saver.backup /\ forgotten)
  /\ run' = saver.running
  /\ saver' = Idle
  /\ UNCHANGED <<mem, action_sem, edits, saves>>

(* An early return: the engine stays paused, an autosave keeps the         *)
(* semaphore.  Clips may have been written, some of them or all.           *)
Fail ==
  /\ \/ saver.at \in Fallible \ {"serialize", "pool", "clone"}
     \/ saver.at = "pool" /\ saver.pending # {} /\ "pool" \in Fallible
     \/ saver.at = "pool" /\ saver.pending = {} /\ "clone" \in Fallible
  /\ saver' = Idle
  /\ Kept /\ UNCHANGED <<mem, run, action_sem, main, backups>>

-----------------------------------------------------------------------------
(* The process ends, the user's choice or not, and opens the project again.*)
End == /\ mem' = NewProject /\ last_saved_action' = NoAction
       /\ last_autosaved' = NoAction /\ source' = Main /\ forgotten' = FALSE
       /\ action_sem' = 1 /\ run' = FALSE /\ saver' = Down
       /\ UNCHANGED <<main, backups, edits, saves>>
Quit == saver.at = "idle" /\ End
Crash == MayCrash /\ saver.at \notin {"idle", "down"} /\ End

(* load_from_file: the user takes the backup that is offered or ignores    *)
(* it.  A directory without FINISHED file is refused.                      *)
Open ==
  /\ saver.at = "down"
  /\ \E i \in {Main, NewerBackup} :
       /\ Dir(i).finished
       /\ mem' = Opened(Dir(i).file.project)
       /\ source' = i
       /\ last_saved_action' = LastAction(Dir(i).file.project)
  /\ run' = TRUE
  /\ saver' = Idle
  /\ UNCHANGED <<last_autosaved, forgotten, action_sem, main, backups, edits, saves>>

SaveStep == \/ WaitActionSem \/ MakeProjectDir \/ MakeBackupDir \/ MakeDirs \/ RemoveUnused
            \/ WriteClip \/ Clone \/ CopyPluginStates \/ Serialize \/ Finish \/ Fail
Next == \/ Edit \/ Import \/ Undo \/ Redo \/ Blocked \/ Save \/ Autosave
        \/ SaveStep \/ Quit \/ Crash \/ Open

Spec == Init /\ [][Next]_vars
(* The thread that saves is scheduled.                                     *)
FairSpec == Spec /\ WF_vars(SaveStep)

-----------------------------------------------------------------------------
Dirs == [file : [project : Projects, time : 0..(MaxSaves + 1)],
         finished : BOOLEAN, pool : SUBSET Clips]
WellNamed(clips) == \A c, d \in clips : c.name = d.name => c = d

(* Every variable keeps its type, and no two clips of a pool share a name, *)
(* in memory and on disk.                                                  *)
TypeOK ==
  /\ mem \in Projects /\ main \in Dirs /\ backups \in Seq(Dirs)
  /\ {last_saved_action, last_autosaved} \subseteq Addrs \cup {NoAction}
  /\ forgotten \in BOOLEAN
  /\ action_sem \in Nat /\ run \in BOOLEAN
  /\ source \in {Main, Nowhere} \cup DOMAIN backups
  /\ InUse(mem) \subseteq mem.pool
  /\ \A p \in {mem.pool, main.pool} \cup {backups[i].pool : i \in DOMAIN backups} :
       WellNamed(p)

(* A backup that has a project file holds, in its own pool, every clip that *)
(* the file uses: whatever failed or was killed.                           *)
BackupsWhole ==
  \A i \in DOMAIN backups : Document(backups[i].file.project) \subseteq backups[i].pool

(* When nothing is unsaved (the question before quitting is not asked),    *)
(* the project saved, or the backup opened, opens to the document in       *)
(* memory: as long as the action saved last has not been freed since       *)
(* (UnsavedNoticed) and the save could write its file (ErrorsNoticed).     *)
SavedOpens == /\ Dir(source).finished
              /\ Document(Opened(Dir(source).file.project)) = Document(mem)
NothingUnsavedIsLost ==
  saver.at = "idle" /\ ~HasUnsavedChanges /\ ~forgotten /\ source # Nowhere => SavedOpens

(* The same, whatever was freed: "simply check if the last performed action*)
(* matches the last action when the project was last saved/loaded".        *)
(* Refuted: another action gets the address of the one saved last, or the  *)
(* stack, empty when the project was saved, is emptied again after an      *)
(* eviction.                                                               *)
UnsavedNoticed ==
  saver.at = "idle" /\ ~HasUnsavedChanges /\ source # Nowhere => SavedOpens

(* A backup leaves the project's own directory and the earlier backups     *)
(* alone, at every one of its steps.                                       *)
BackupsTouchNothingElse ==
  [][saver.backup => /\ main' = main
                     /\ \A i \in DOMAIN backups : i < Len(backups') =>
                          backups'[i] = backups[i]]_vars

(* A save, an autosave or an action ends if it began while the engine ran: *)
(* no autosave failed before.                                              *)
SavesReturn ==
  (saver.at \notin {"idle", "down"} /\ saver.running) ~> saver.at \in {"idle", "down"}

(* The callback of the autosave "will keep getting called": the thread that*)
(* calls it, and that performs actions, is never blocked for ever.         *)
NeverBlocked == saver.at # "perform"

(* A save that could not write its file leaves the changes unsaved.        *)
ErrorsNoticed == saver.at = "idle" /\ source = Nowhere => HasUnsavedChanges

Intact == Document(Opened(main.file.project)) = Document(main.file.project)
(* The project on disk, which says that it is finished, opens with the     *)
(* sounds it was saved with, after a crash.                                *)
CrashKeepsProject == saver.at = "down" => Intact
(* The same while the user edits and backups are made.                     *)
EditsKeepProject == saver.at = "idle" => Intact
(* A finished backup newer than the project is offered when it is opened.  *)
NewerBackupOffered ==
  saver.at = "down" /\ (\E i \in Newer : backups[i].finished) => NewerBackup # Main
=============================================================================
