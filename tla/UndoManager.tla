---------------------------- MODULE UndoManager ----------------------------
(***************************************************************************)
(* src/actions/undo_manager.c and its callers on the GTK thread: actions   *)
(* are performed one at a time or in groups, undone and redone by group,   *)
(* from a button or from a menu, tried and withdrawn when a drag is        *)
(* cancelled; saving the project uses the same semaphore.                  *)
(*                                                                         *)
(* The document is the sequence of the edits in force.  Every action makes *)
(* one edit; `made_at[e]' remembers the document in which edit e was first *)
(* made and `group[e]' the user's operation it belongs to.                 *)
(***************************************************************************)
EXTENDS UndoStack, FiniteSets

CONSTANTS Addrs,      \* where actions are allocated
          Nil,        \* the null pointer
          MaxEdits,   \* bound: edits ever made
          MaxGroup,   \* bound: actions in one operation of the user
          MaxPosts,   \* bound: count of the semaphore
          MenuRows,   \* rows of the undo and redo menus that may be chosen
          MayFail,    \* whether an action may fail
          MaySave     \* whether the project may be saved

ASSUME NilAssumption ==
  Nil \notin Addrs \cup [kind : Kinds, edit : 1..MaxEdits, num_actions : 1..MaxEdits]
ASSUME BoundsAssumption == {MaxEdits, MaxGroup, MaxPosts} \subseteq Nat \ {0}
ASSUME MenuAssumption == MenuRows \subseteq Nat
ASSUME FlagsAssumption == {MayFail, MaySave} \subseteq BOOLEAN

VARIABLES undo_stack, redo_stack,
          action,            \* Addrs -> the UndoableAction stored there
          action_sem, redo_stack_locked,
          doc, made_at, group,
          last_saved_action, saved_doc,
          call               \* what the GTK thread is doing

vars == <<undo_stack, redo_stack, action, action_sem, redo_stack_locked, doc,
          made_at, group, last_saved_action, saved_doc, call>>

Edits == 1..MaxEdits
Idle == [name |-> "none", at |-> "idle"]

(* An action freed or never allocated is Nil.                              *)
Live == {a \in Addrs : action[a] # Nil}
OnStacks == ToSet(undo_stack.elements) \cup ToSet(redo_stack.elements)
Free(as) == [a \in Addrs |-> IF a \in as THEN Nil ELSE action[a]]
LastAction == IF undo_stack.elements = << >> THEN Nil ELSE Peek(undo_stack)
HasUnsavedChanges == LastAction # last_saved_action

Init == /\ undo_stack = EmptyStack /\ redo_stack = EmptyStack
        /\ action = [a \in Addrs |-> Nil]
        /\ action_sem = 1 /\ redo_stack_locked = FALSE
        /\ doc = << >> /\ made_at = << >> /\ group = << >>
        /\ last_saved_action = Nil /\ saved_doc = << >>
        /\ call = Idle

-----------------------------------------------------------------------------
(* The end of a call: the menu goes on with its next call, a cancelled     *)
(* drag unlocks the redo stack.                                            *)
Return ==
  IF call.name \in {"undo", "redo"} /\ call.again > 0
  THEN /\ call' = [name |-> call.name, at |-> "wait", again |-> call.again - 1]
       /\ UNCHANGED redo_stack_locked
  ELSE call' = Idle /\ redo_stack_locked' = FALSE

(* An operation of the user that performs `left' actions.  It counts them  *)
(* on its last one when it is done, or on every one as it goes.            *)
BeginPerform(n, counts, cancelled) ==
  /\ call = Idle /\ Len(group) + n <= MaxEdits
  /\ call' = [name |-> "perform", at |-> "wait", left |-> n, made |-> 0,
              counts |-> counts, before |-> LastAction,
              of |-> 1 + (IF group = << >> THEN 0 ELSE Last(group))]
  /\ redo_stack_locked' = cancelled
  /\ UNCHANGED <<undo_stack, redo_stack, action, action_sem, doc, made_at,
                 group, last_saved_action, saved_doc>>

(* undo_manager_perform, undo and redo, and an asynchronous save, first    *)
(* take action_sem.                                                        *)
Wait ==
  /\ call.at = "wait" /\ action_sem > 0
  /\ action_sem' = action_sem - 1
  /\ call' = [call EXCEPT !.at = "holding"]
  /\ UNCHANGED <<undo_stack, redo_stack, action, redo_stack_locked, doc,
                 made_at, group, last_saved_action, saved_doc>>

(* After the last action of an operation: the escape key undoes what the   *)
(* drag had time to do.                                                    *)
EndPerform(last, acts, made) ==
  /\ action' = IF made = 0 THEN acts
               ELSE [acts EXCEPT ![last].num_actions = made]
  /\ IF redo_stack_locked /\ last # call.before
     THEN /\ call' = [name |-> "undo", at |-> "wait", again |-> 0]
          /\ UNCHANGED redo_stack_locked
     ELSE call' = Idle /\ redo_stack_locked' = FALSE

(* Performing drops what could be redone, unless a drag is being cancelled. *)
RedoKept == redo_stack
RedoAfterPerform == IF redo_stack_locked THEN redo_stack ELSE EmptyStack

(* undo_manager_perform: do the action, make room, push it, and drop what  *)
(* could be redone.                                                        *)
PerformAction(a, k) ==
  LET e == Len(group) + 1
      full == IsFull(undo_stack)
      evicted == IF full THEN {Head(undo_stack.elements)} ELSE {}
      undone == ToSet(redo_stack.elements) \ ToSet(RedoAfterPerform.elements)
      made == call.made + 1
      acts == [Free(evicted \cup undone) EXCEPT
                 ![a] = [kind |-> k, edit |-> e,
                         num_actions |-> IF call.counts = "each" THEN made ELSE 1]]
  IN /\ call.name = "perform" /\ call.at = "holding"
     /\ a \notin Live
     /\ undo_stack' = Push(IF full THEN PopLast(undo_stack) ELSE undo_stack, a, k)
     /\ redo_stack' = RedoAfterPerform
     /\ doc' = Append(doc, e)
     /\ made_at' = Append(made_at, doc) /\ group' = Append(group, call.of)
     /\ action_sem' = action_sem + 1
     /\ IF call.left = 1
        THEN EndPerform(a, acts, made)
        ELSE /\ call' = [call EXCEPT !.at = "wait", !.left = @ - 1, !.made = made]
             /\ action' = acts /\ UNCHANGED redo_stack_locked
     /\ UNCHANGED <<last_saved_action, saved_doc>>

(* The action fails: do_or_undo_action posts the semaphore, and so does    *)
(* undo_manager_perform.  The operation counts what it managed to do.      *)
PerformFails ==
  /\ MayFail /\ call.name = "perform" /\ call.at = "holding"
  /\ action_sem + 2 <= MaxPosts
  /\ action_sem' = action_sem + 2
  /\ EndPerform(LastAction, action, call.made)
  /\ UNCHANGED <<undo_stack, redo_stack, doc, made_at, group,
                 last_saved_action, saved_doc>>

-----------------------------------------------------------------------------
From == IF call.name = "undo" THEN undo_stack ELSE redo_stack
To == IF call.name = "undo" THEN redo_stack ELSE undo_stack

(* The buttons and shortcuts look at the stack first, a row of the menu    *)
(* calls once more than its index without looking again.                   *)
BeginUndoOrRedo(name, again) ==
  /\ call = Idle
  /\ (IF name = "undo" THEN undo_stack ELSE redo_stack).elements # << >>
  /\ call' = [name |-> name, at |-> "wait", again |-> again]
  /\ UNCHANGED <<undo_stack, redo_stack, action, action_sem, redo_stack_locked,
                 doc, made_at, group, last_saved_action, saved_doc>>

(* The rows of a menu stand for the actions on top of each group: the      *)
(* first is 0, the next is further down by the size of the group above.    *)
RowsOf(elements) ==
  LET Size(r) == action[elements[Len(elements) - r]].num_actions
      row[i \in Nat] == IF i = 0 THEN 0
                        ELSE IF row[i - 1] < Len(elements)
                             THEN row[i - 1] + Size(row[i - 1])
                             ELSE row[i - 1]
  IN {row[i] : i \in 0..Len(elements)} \cap (0..Len(elements) - 1)

ChooseRow(name, row) ==
  /\ row \in RowsOf((IF name = "undo" THEN undo_stack ELSE redo_stack).elements)
  /\ BeginUndoOrRedo(name, row)

(* The size of the group is read from its top; an empty stack makes the    *)
(* call return with the semaphore taken.                                   *)
ReadGroup ==
  /\ call.name \in {"undo", "redo"} /\ call.at = "holding"
  /\ IF From.elements = << >>
     THEN Return
     ELSE /\ call' = [name |-> call.name, at |-> "acting", again |-> call.again,
                      i |-> 0, n |-> action[Peek(From)].num_actions]
          /\ UNCHANGED redo_stack_locked
  /\ UNCHANGED <<undo_stack, redo_stack, action, action_sem, doc, made_at,
                 group, last_saved_action, saved_doc>>

RenumberedTop(a) == IF call.i = 0 THEN [action EXCEPT ![a].num_actions = 1] ELSE action
(* The size moves from the top of the group to what will be its top on the *)
(* other stack.                                                            *)
Renumbered(a) ==
  IF call.i = 0 THEN [action EXCEPT ![a].num_actions = 1]
  ELSE IF call.i = call.n - 1 THEN [action EXCEPT ![a].num_actions = call.n]
       ELSE action

MovedAnyway(a) == Push(IF IsFull(To) THEN PopLast(To) ELSE To, a, action[a].kind)
MovedEarly(a) ==
  IF redo_stack_locked /\ call.name = "undo" THEN To
  ELSE Push(IF Len(To.elements) \in {MaxLength - 1, MaxLength} \ {0} THEN PopLast(To) ELSE To,
            a, action[a].kind)
(* The popped action goes to the other stack, unless that is locked.       *)
Moved(a) ==
  IF redo_stack_locked /\ call.name = "undo" THEN To
  ELSE Push(IF IsFull(To) THEN PopLast(To) ELSE To, a, action[a].kind)

(* One turn of the loop of undo_manager_undo or undo_manager_redo.         *)
UndoOrRedoOne ==
  LET a == Peek(From)
      gone == (OnStacks \cup {a}) \ (ToSet(Moved(a).elements) \cup ToSet(From.elements))
  IN
  /\ call.at = "acting" /\ call.i < call.n /\ From.elements # << >>
  /\ action' = [b \in Addrs |-> IF b \in gone THEN Nil ELSE Renumbered(a)[b]]
  /\ undo_stack' = IF call.name = "undo" THEN Pop(undo_stack) ELSE Moved(a)
  /\ redo_stack' = IF call.name = "undo" THEN Moved(a) ELSE Pop(redo_stack)
  /\ doc' = IF call.name = "undo"
            THEN RemoveFirst(doc, action[a].edit)
            ELSE Append(doc, action[a].edit)
  /\ call' = [call EXCEPT !.i = @ + 1]
  /\ UNCHANGED <<action_sem, redo_stack_locked, made_at, group,
                 last_saved_action, saved_doc>>

(* The stack is shorter than the group: a null action is used.             *)
Crash ==
  /\ call.at = "acting" /\ call.i < call.n /\ From.elements = << >>
  /\ call' = [name |-> "none", at |-> "crashed"]
  /\ UNCHANGED <<undo_stack, redo_stack, action, action_sem, redo_stack_locked,
                 doc, made_at, group, last_saved_action, saved_doc>>

UndoOrRedoFails ==
  /\ MayFail /\ call.at = "acting" /\ call.i < call.n /\ From.elements # << >>
  /\ action_sem + 1 < MaxPosts
  /\ action_sem' = action_sem + 1
  /\ action' = Renumbered(Peek(From))
  /\ call' = [call EXCEPT !.i = call.n]
  /\ UNCHANGED <<undo_stack, redo_stack, redo_stack_locked, doc, made_at,
                 group, last_saved_action, saved_doc>>

EndUndoOrRedo ==
  /\ call.at = "acting" /\ call.i = call.n
  /\ action_sem' = action_sem + 1
  /\ Return
  /\ UNCHANGED <<undo_stack, redo_stack, action, doc, made_at, group,
                 last_saved_action, saved_doc>>

-----------------------------------------------------------------------------
(* project_save: only an asynchronous save (the autosave) takes            *)
(* action_sem, serialize_project_thread always posts it.                   *)
Save ==
  /\ MaySave /\ call = Idle /\ action_sem < MaxPosts
  /\ action_sem' = action_sem + 1
  /\ last_saved_action' = LastAction /\ saved_doc' = doc
  /\ UNCHANGED <<undo_stack, redo_stack, action, redo_stack_locked, doc,
                 made_at, group, call>>

BeginAutosave ==
  /\ MaySave /\ call = Idle
  /\ call' = [name |-> "autosave", at |-> "wait"]
  /\ UNCHANGED <<undo_stack, redo_stack, action, action_sem, redo_stack_locked,
                 doc, made_at, group, last_saved_action, saved_doc>>

AutosaveKeeps == /\ call.name = "autosave" /\ call.at = "holding"
                 /\ UNCHANGED action_sem /\ call' = Idle
                 /\ UNCHANGED <<undo_stack, redo_stack, action, redo_stack_locked,
                                doc, made_at, group, last_saved_action, saved_doc>>
EndAutosave ==
  /\ call.name = "autosave" /\ call.at = "holding"
  /\ action_sem' = action_sem + 1 /\ call' = Idle
  /\ UNCHANGED <<undo_stack, redo_stack, action, redo_stack_locked, doc,
                 made_at, group, last_saved_action, saved_doc>>

Continue == \/ Wait \/ ReadGroup \/ UndoOrRedoOne \/ EndUndoOrRedo \/ EndAutosave
            \/ UndoOrRedoFails \/ PerformFails \/ Crash
            \/ \E a \in Addrs, k \in Kinds : PerformAction(a, k)

Begin == \/ \E n \in 1..MaxGroup, c \in {"last", "each"}, b \in BOOLEAN : BeginPerform(n, c, b)
         \/ \E name \in {"undo", "redo"} : BeginUndoOrRedo(name, 0)
         \/ \E name \in {"undo", "redo"}, row \in MenuRows : ChooseRow(name, row)
         \/ Save \/ BeginAutosave

Next == Continue \/ Begin
Spec == Init /\ [][Next]_vars
FairSpec == Spec /\ WF_vars(Continue)

-----------------------------------------------------------------------------
EditsOf(elements) == [i \in 1..Len(elements) |-> action[elements[i]].edit]

(* Every variable has its type; in particular the stacks hold live actions *)
(* and none of them twice (undo_manager_perform's first check).            *)
TypeOK ==
  /\ action \in [Addrs -> {Nil} \cup [kind : Kinds, edit : Edits, num_actions : 1..MaxEdits]]
  /\ \A s \in {undo_stack, redo_stack} :
       /\ s.elements \in Seq(Live)
       /\ IsInjective(s.elements)
  /\ ToSet(undo_stack.elements) \cap ToSet(redo_stack.elements) = {}
  /\ action_sem \in 0..MaxPosts /\ redo_stack_locked \in BOOLEAN
  /\ doc \in Seq(Edits) /\ saved_doc \in Seq(Edits)
  /\ last_saved_action \in Addrs \cup {Nil}

(* Undoing takes back what was done last: the edits of the undo stack are  *)
(* the end of the document, in order, whatever failed and whatever was     *)
(* evicted (do_or_undo_action, undo_stack_pop_last).                       *)
UndoMatchesDocument ==
  LET edits == EditsOf(undo_stack.elements)
  IN IsSuffix(edits, doc)

(* An action is only ever undone or redone in the document it was made in: *)
(* the document followed by what can be redone is the line of edits that   *)
(* the user made, each after the ones it was made after.  Performing and   *)
(* cancelling a drag must not leave stale actions on the redo stack.       *)
EditsMeetTheirDocument ==
  LET line == doc \o Reverse(EditsOf(redo_stack.elements))
  IN ~redo_stack_locked =>
       \A i \in 1..Len(line) : made_at[line[i]] = SubSeq(line, 1, i - 1)

(* Grouped actions are "one logical action" (undoable_action.h): between   *)
(* calls the edits of an operation are all in the document, or none is.    *)
GroupsWhole ==
  call = Idle =>
    \A e, f \in ToSet(doc) \cup ToSet(EditsOf(redo_stack.elements)) :
      group[e] = group[f] => (e \in ToSet(doc) <=> f \in ToSet(doc))

(* A project file brings back the stacks it was saved from: the arrays and *)
(* the indices determine the order (undo_stack_init_loaded; its assertion  *)
(* on the number of actions, and the one of undo_stack_clone).             *)
ReloadRestores ==
  \A s \in {undo_stack, redo_stack} :
    InitLoaded(s) = s.elements /\ Total(s) = Len(s.elements)

(* Only performing forgets: an undo never pushes anything off a full redo   *)
(* stack, nor a redo off a full undo stack, as long as what can be redone  *)
(* fits the document.                                                      *)
OnlyPerformForgets ==
  [][call.at = "acting" /\ ~redo_stack_locked /\ EditsMeetTheirDocument
       => Live = Live' /\ OnStacks = OnStacks']_vars

(* The history of edits the user sees.                                     *)
History == INSTANCE UndoHistory WITH
  timeline <- doc \o Reverse(EditsOf(redo_stack.elements)),
  cursor <- Len(doc),
  tentative <- redo_stack_locked

ImplementsHistory == History!Spec

(* A group is never larger than what is left of it on its stack: without   *)
(* this the null action of an empty stack is undone ("Stack is empty").    *)
GroupsAreOnTheirStack == call.at # "crashed"

(* Every call of the undo manager returns, and so does every autosave, as  *)
(* long as no action fails and no undo is asked of an empty stack.         *)
CallsReturn == []<>(call = Idle)

(* "Semaphore for performing actions" (undo_manager.h): it admits one      *)
(* action at a time.                                                       *)
SemaphoreIsMutex == action_sem <= 1

(* g_warn_if_fail (!undo_stack_is_empty (self->undo_stack)) at the start   *)
(* of undo_manager_undo, and its twin in undo_manager_redo.                *)
UndoFindsAnAction ==
  call.name \in {"undo", "redo"} /\ call.at = "wait" => From.elements # << >>

(* "Check if the last performed action matches the last action when the    *)
(* project was last saved" (project_has_unsaved_changes): when no change   *)
(* is reported the document is the one that was saved.                     *)
UnsavedNoticed == call = Idle /\ ~HasUnsavedChanges => doc = saved_doc
=============================================================================
