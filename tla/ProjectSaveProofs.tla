------------------------- MODULE ProjectSaveProofs -------------------------
(***************************************************************************)
(* A backup that has a project file is whole, a backup touches nothing     *)
(* else and no two sounds of a pool share a name, for every number of edits*)
(* and saves, whatever steps fail and whether or not the process is killed.*)
(* Then: what the program calls "no unsaved changes" is none as long as the*)
(* action saved last has not been freed.                                   *)
(***************************************************************************)
EXTENDS ProjectSave, FiniteSetTheorems, SequenceTheorems, WellFoundedInduction, TLAPS

Places == {"idle", "down", "perform", "wait", "project_dir", "backup_dir", "dirs",
           "unused", "pool", "states", "serialize", "finish"}
Savers == [at : Places, backup : BOOLEAN, running : BOOLEAN, pending : SUBSET Clips,
           clone : Projects, has_error : BOOLEAN]

(* A project after at most n edits: its pool has the clips it uses, under  *)
(* different names, and leaves a name free.                                *)
Sound(p, n) == /\ p \in Projects /\ InUse(p) \subseteq p.pool /\ WellNamed(p.pool)
               /\ IsFiniteSet(p.pool) /\ Cardinality(p.pool) <= n
SoundDir(d, n) == d \in Dirs /\ WellNamed(d.pool) /\ Sound(d.file.project, n)

CountsInv == /\ edits \in 0..MaxEdits /\ saves \in 0..MaxSaves
             /\ action_sem \in Nat /\ run \in BOOLEAN
             /\ {last_saved_action, last_autosaved} \subseteq Addrs \cup {NoAction}
             /\ forgotten \in BOOLEAN
             /\ source \in {Main, Nowhere} \cup DOMAIN backups

DirsInv == /\ SoundDir(main, edits) /\ backups \in Seq(Dirs)
           /\ \A i \in DOMAIN backups : SoundDir(backups[i], edits)

(* A backup has a directory once its third step is done, which has no project  *)
(* file until its project is serialized.                                   *)
HasDir == saver.backup /\ saver.at \notin {"wait", "project_dir", "backup_dir"}
SaverInv ==
  /\ saver \in Savers /\ Sound(saver.clone, edits)
  /\ saver.at \in {"idle", "down", "perform"} => ~saver.backup
  /\ saver.at \in {"wait", "backup_dir"} => saver.backup
  /\ HasDir => backups # << >>
  /\ HasDir /\ saver.at # "finish" => backups[Len(backups)].file = NoFile
  /\ saver.at = "pool" => saver.pending \subseteq InUse(mem)

(* What was written to the pool of a backup stays there.                   *)
WrittenInv ==
  saver.backup =>
    /\ saver.at = "pool" => InUse(mem) \subseteq backups[Len(backups)].pool \cup saver.pending
    /\ saver.at \in {"states", "serialize"} =>
         Document(saver.clone) \subseteq backups[Len(backups)].pool

IInv == CountsInv /\ Sound(mem, edits) /\ DirsInv /\ SaverInv /\ WrittenInv /\ BackupsWhole

-----------------------------------------------------------------------------
(* Names and pools.                                                        *)
LEMMA NatMinimum ==
  ASSUME NEW S \in SUBSET Nat, S # {}
  PROVE  \E n \in S : \A k \in S : ~(k < n)
<1>1. \E n \in S : \A k \in S : ~(<<k, n>> \in OpToRel(<, Nat))
  BY WFMin, NatLessThanWellFounded, Zenon
<1>. QED
  BY <1>1 DEF OpToRel

(* The image of a finite set is no larger.                                 *)
LEMMA ImageSize ==
  ASSUME NEW S, NEW f, DOMAIN f = S, IsFiniteSet(S)
  PROVE  /\ IsFiniteSet({f[x] : x \in S})
         /\ Cardinality({f[x] : x \in S}) <= Cardinality(S)
<1>. DEFINE T == {f[x] : x \in S}
            g == [x \in S |-> f[x]]
<1>1. g \in Surjection(S, T)
  BY DEF Surjection
<1>. HIDE DEF T
<1>2. IsFiniteSet(T) /\ Cardinality(T) <= Cardinality(S)
  BY <1>1, FS_Surjection
<1>. QED
  BY <1>2 DEF T

(* audio_pool_ensure_unique_clip_name finds a name as long as there is an  *)
(* action left to be performed.                                            *)
LEMMA UniqueNameIsFree ==
  ASSUME Sound(mem, edits), edits \in 0..MaxEdits, edits < MaxEdits
  PROVE  UniqueName \in 0..MaxEdits /\ UniqueName \notin Names(mem.pool)
<1>. DEFINE N == Names(mem.pool)
            Free == {n \in 0..MaxEdits : n \notin N}
<1>1. MaxEdits \in Nat
  BY BoundsAssumption
<1>2. IsFiniteSet(N) /\ Cardinality(N) <= Cardinality(mem.pool)
  <2>. DEFINE f == [c \in mem.pool |-> c.name]
  <2>1. DOMAIN f = mem.pool /\ IsFiniteSet(mem.pool) /\ N = {f[c] : c \in mem.pool}
    BY DEF Sound, Names
  <2>. HIDE DEF f
  <2>. QED
    BY <2>1, ImageSize
<1>3. Free # {}
  <2>1. SUFFICES ASSUME 0..MaxEdits \subseteq N PROVE FALSE
    OBVIOUS
  <2>2. Cardinality(0..MaxEdits) = MaxEdits + 1 /\ Cardinality(0..MaxEdits) <= Cardinality(N)
    BY <1>1, <1>2, <2>1, FS_Interval, FS_Subset
  <2>3. Cardinality(N) \in Nat /\ Cardinality(mem.pool) \in Nat /\ Cardinality(mem.pool) <= edits
    BY <1>2, FS_CardinalityType DEF Sound
  <2>. QED
    BY <1>1, <1>2, <2>2, <2>3
<1>4. Free \in SUBSET Nat
  BY <1>1
<1>5. PICK n \in Free : \A k \in Free : ~(k < n)
  BY <1>3, <1>4, NatMinimum
<1>6. n \in 0..MaxEdits /\ n \notin N /\ \A k \in 0..MaxEdits : k < n => k \in N
  BY <1>5
<1>. QED
  BY <1>6 DEF UniqueName
-----------------------------------------------------------------------------
(* Projects.                                                               *)
LEMMA SoundNew == ASSUME NEW n \in Nat PROVE Sound(NewProject, n)
<1>1. NewProject \in Projects /\ ClipsOf(<< >>) = {}
  BY DEF NewProject, Projects, ClipsOf
<1>2. InUse(NewProject) = {}
  BY <1>1 DEF NewProject, InUse, Document
<1>3. IsFiniteSet({}) /\ Cardinality({}) = 0
  BY FS_EmptySet
<1>4. NewProject.pool = {}
  BY DEF NewProject
<1>. QED
  BY <1>1, <1>2, <1>3, <1>4 DEF Sound, WellNamed

LEMMA SoundGrows ==
  ASSUME NEW p, NEW m \in Nat, NEW n \in Nat, m <= n, Sound(p, m)
  PROVE  Sound(p, n)
<1>1. Cardinality(p.pool) \in Nat
  BY FS_CardinalityType DEF Sound
<1>. QED
  BY <1>1 DEF Sound

LEMMA LastActionType ==
  ASSUME NEW p \in Projects PROVE LastAction(p) \in Addrs \cup {NoAction}
<1>1. p.undo \in Seq(Actions)
  BY DEF Projects
<1>2. CASE p.undo = << >>
  BY <1>2 DEF LastAction
<1>3. CASE p.undo # << >>
  <2>1. p.undo[Len(p.undo)] \in Actions
    BY <1>1, <1>3, EmptySeq, ElementOfSeq
  <2>. QED
    BY <1>3, <2>1 DEF LastAction, Actions
<1>. QED
  BY <1>2, <1>3

LEMMA ClipsOfType ==
  ASSUME NEW s \in Seq(Actions) PROVE ClipsOf(s) \in SUBSET Clips
<1>1. \A i \in DOMAIN s : s[i] \in Actions
  BY LenProperties, ElementOfSeq
<1>. QED
  BY <1>1 DEF ClipsOf, Actions

LEMMA InUseType ==
  ASSUME NEW p \in Projects
  PROVE  /\ InUse(p) \in SUBSET Clips /\ Document(p) \in SUBSET Clips
         /\ Document(p) \subseteq InUse(p)
BY ClipsOfType DEF Projects, InUse, Document

(* A clip that is read keeps its name.                                     *)
LEMMA ReadType ==
  ASSUME main.pool \in SUBSET Clips, NEW c \in Clips
  PROVE  Read(c) \in Clips /\ Read(c).name = c.name
<1>1. c.name \in 0..MaxEdits /\ c = [name |-> c.name, data |-> c.data]
  BY DEF Clips
<1>2. CASE c.name \in Names(main.pool)
  <2>1. \E f \in main.pool : f.name = c.name
    BY <1>2 DEF Names
  <2>2. (CHOOSE f \in main.pool : f.name = c.name) \in Clips
    BY <2>1
  <2>. QED
    BY <1>1, <1>2, <2>2 DEF Read, Clips
<1>3. CASE c.name \notin Names(main.pool)
  <2>1. Silence \in 0..MaxEdits
    BY BoundsAssumption DEF Silence
  <2>. QED
    BY <1>1, <1>3, <2>1 DEF Read, Clips
<1>. QED
  BY <1>2, <1>3

LEMMA ReadActionsType ==
  ASSUME main.pool \in SUBSET Clips, NEW s \in Seq(Actions)
  PROVE  /\ ReadActions(s) \in Seq(Actions)
         /\ ClipsOf(ReadActions(s)) = {Read(c) : c \in ClipsOf(s)}
<1>. DEFINE r == ReadActions(s)
<1>1. Len(s) \in Nat /\ DOMAIN s = 1..Len(s) /\ \A i \in 1..Len(s) : s[i] \in Actions
  BY LenProperties, ElementOfSeq
<1>2. DOMAIN r = 1..Len(s)
  BY <1>1 DEF ReadActions
<1>3. ASSUME NEW i \in 1..Len(s)
      PROVE  r[i] \in Actions /\ r[i].clips = {Read(c) : c \in s[i].clips}
  <2>1. s[i] \in Actions /\ s[i].clips \in SUBSET Clips
    BY <1>1 DEF Actions
  <2>2. r[i] = [s[i] EXCEPT !.clips = {Read(c) : c \in s[i].clips}]
    BY <1>1 DEF ReadActions
  <2>3. {Read(c) : c \in s[i].clips} \in SUBSET Clips
    BY <2>1, ReadType
  <2>. QED
    BY <2>1, <2>2, <2>3 DEF Actions
<1>4. r \in [1..Len(s) -> Actions]
  <2>1. r = [i \in 1..Len(s) |-> r[i]]
    BY <1>1 DEF ReadActions
  <2>. HIDE DEF r
  <2>. QED
    BY <1>3, <2>1
<1>5. r \in Seq(Actions)
  BY <1>1, <1>4, SeqDef
<1>6. ClipsOf(r) = {Read(c) : c \in ClipsOf(s)}
  BY <1>1, <1>2, <1>3 DEF ClipsOf
<1>. QED
  BY <1>5, <1>6

LEMMA OpenedSound ==
  ASSUME main.pool \in SUBSET Clips, NEW p, NEW n \in Nat, Sound(p, n)
  PROVE  Sound(Opened(p), n)
<1>. DEFINE o == Opened(p)
            R(clips) == {Read(c) : c \in clips}
<1>1. /\ p \in Projects /\ p.undo \in Seq(Actions) /\ p.redo \in Seq(Actions)
      /\ p.base \in SUBSET Clips /\ p.pool \in SUBSET Clips
  BY DEF Sound, Projects
<1>2. /\ o.base = R(p.base) /\ o.pool = R(p.pool)
      /\ o.undo = ReadActions(p.undo) /\ o.redo = ReadActions(p.redo)
  BY DEF Opened
<1>3. o \in Projects
  <2>1. R(p.base) \in SUBSET Clips /\ R(p.pool) \in SUBSET Clips
    BY <1>1, ReadType
  <2>2. ReadActions(p.undo) \in Seq(Actions) /\ ReadActions(p.redo) \in Seq(Actions)
    BY <1>1, ReadActionsType
  <2>. QED
    BY <2>1, <2>2 DEF Opened, Projects
<1>4. InUse(o) = R(InUse(p))
  <2>1. ClipsOf(o.undo) = R(ClipsOf(p.undo)) /\ ClipsOf(o.redo) = R(ClipsOf(p.redo))
    BY <1>1, <1>2, ReadActionsType
  <2>. HIDE DEF o
  <2>. QED
    BY <1>2, <2>1 DEF InUse, Document
<1>5. InUse(o) \subseteq o.pool
  BY <1>2, <1>4 DEF Sound
<1>6. WellNamed(o.pool)
  <2>1. SUFFICES ASSUME NEW c \in p.pool, NEW d \in p.pool, Read(c).name = Read(d).name
                 PROVE  Read(c) = Read(d)
    BY <1>2 DEF WellNamed
  <2>2. c.name = d.name
    BY <1>1, <2>1, ReadType
  <2>. QED
    BY <2>2 DEF Sound, WellNamed
<1>7. IsFiniteSet(o.pool) /\ Cardinality(o.pool) <= n
  <2>. DEFINE f == [c \in p.pool |-> Read(c)]
  <2>1. DOMAIN f = p.pool /\ o.pool = {f[c] : c \in p.pool}
    BY <1>2
  <2>2. IsFiniteSet(p.pool) /\ Cardinality(p.pool) \in Nat /\ Cardinality(p.pool) <= n
    BY FS_CardinalityType DEF Sound
  <2>. HIDE DEF f, o
  <2>3. /\ IsFiniteSet({f[c] : c \in p.pool})
        /\ Cardinality({f[c] : c \in p.pool}) <= Cardinality(p.pool)
    BY <2>1, <2>2, ImageSize
  <2>4. IsFiniteSet(o.pool) /\ Cardinality(o.pool) <= Cardinality(p.pool)
    BY <2>1, <2>3
  <2>5. Cardinality(o.pool) \in Nat
    BY <2>4, FS_CardinalityType
  <2>. QED
    BY <2>2, <2>4, <2>5
<1>. QED
  BY <1>3, <1>5, <1>6, <1>7 DEF Sound
-----------------------------------------------------------------------------
(* Files and actions.                                                      *)
LEMMA WrittenType ==
  ASSUME NEW files \in SUBSET Clips, NEW clips \in SUBSET Clips,
         WellNamed(files), WellNamed(clips)
  PROVE  /\ Written(files, clips) \in SUBSET Clips /\ WellNamed(Written(files, clips))
         /\ clips \subseteq Written(files, clips)
<1>1. \A c \in clips : c.name \in Names(clips)
  BY DEF Names
<1>. QED
  BY <1>1 DEF Written, WellNamed

LEMMA WrittenKeeps ==
  ASSUME NEW files, NEW clips, NEW kept, kept \subseteq files, WellNamed(kept \cup clips)
  PROVE  kept \subseteq Written(files, clips)
<1>1. SUFFICES ASSUME NEW c \in kept, c \notin clips PROVE c.name \notin Names(clips)
  BY DEF Written
<1>2. \A d \in clips : d.name # c.name
  BY <1>1 DEF WellNamed
<1>. QED
  BY <1>2 DEF Names

LEMMA AppendClips ==
  ASSUME NEW s \in Seq(Actions), NEW a \in Actions
  PROVE  /\ Append(s, a) \in Seq(Actions)
         /\ ClipsOf(Append(s, a)) = ClipsOf(s) \cup a.clips
<1>1. /\ Append(s, a) \in Seq(Actions) /\ Len(s) \in Nat /\ DOMAIN s = 1..Len(s)
      /\ DOMAIN Append(s, a) = 1..(Len(s) + 1)
      /\ \A i \in 1..Len(s) : Append(s, a)[i] = s[i]
      /\ Append(s, a)[Len(s) + 1] = a
  BY LenProperties, AppendProperties
<1>2. \A i \in 1..(Len(s) + 1) : i \in 1..Len(s) \/ i = Len(s) + 1
  BY <1>1
<1>3. 1..Len(s) \subseteq 1..(Len(s) + 1) /\ Len(s) + 1 \in 1..(Len(s) + 1)
  BY <1>1
<1>. QED
  BY <1>1, <1>2, <1>3 DEF ClipsOf

LEMMA FrontClips ==
  ASSUME NEW s \in Seq(Actions), s # << >>
  PROVE  /\ SubSeq(s, 1, Len(s) - 1) \in Seq(Actions)
         /\ ClipsOf(SubSeq(s, 1, Len(s) - 1)) \subseteq ClipsOf(s)
         /\ s[Len(s)] \in Actions /\ s[Len(s)].clips \subseteq ClipsOf(s)
<1>. DEFINE f == SubSeq(s, 1, Len(s) - 1)
<1>1. Len(s) \in Nat \ {0} /\ DOMAIN s = 1..Len(s) /\ \A i \in 1..Len(s) : s[i] \in Actions
  BY EmptySeq, LenProperties, ElementOfSeq
<1>2. f \in Seq(Actions) /\ Len(f) = Len(s) - 1 /\ \A i \in 1..(Len(s) - 1) : f[i] = s[i]
  BY <1>1, SubSeqProperties
<1>3. DOMAIN f = 1..(Len(s) - 1)
  BY <1>2, LenProperties
<1>. HIDE DEF f
<1>4. ClipsOf(f) \subseteq ClipsOf(s)
  <2>1. 1..(Len(s) - 1) \subseteq 1..Len(s)
    BY <1>1
  <2>. QED
    BY <1>1, <1>2, <1>3, <2>1 DEF ClipsOf
<1>5. s[Len(s)].clips \subseteq ClipsOf(s)
  BY <1>1 DEF ClipsOf
<1>. QED
  BY <1>1, <1>2, <1>4, <1>5 DEF f

-----------------------------------------------------------------------------
(* The user's actions.                                                     *)
LEMMA EditedInv ==
  ASSUME IInv, saver.at = "idle", EditUnchanged, forgotten' \in BOOLEAN,
         edits' \in 0..MaxEdits, edits <= edits', Sound(mem', edits'),
         NEW files \in SUBSET Clips, WellNamed(files), main' = [main EXCEPT !.pool = files]
  PROVE  IInv'
<1>1. edits \in Nat /\ edits' \in Nat
  BY BoundsAssumption DEF IInv, CountsInv
<1>2. CountsInv'
  BY DEF EditUnchanged, IInv, CountsInv
<1>3. DirsInv'
  <2>1. main' \in Dirs /\ main'.pool = files /\ main'.file = main.file
    BY DEF IInv, DirsInv, SoundDir, Dirs
  <2>2. Sound(main.file.project, edits') /\ \A i \in DOMAIN backups : Sound(backups[i].file.project, edits')
    BY <1>1, SoundGrows DEF IInv, DirsInv, SoundDir
  <2>. QED
    BY <2>1, <2>2 DEF EditUnchanged, IInv, DirsInv, SoundDir
<1>4. ~saver.backup /\ saver' = saver
  BY DEF EditUnchanged, IInv, SaverInv
<1>5. SaverInv' /\ WrittenInv'
  <2>1. Sound(saver.clone, edits')
    BY <1>1, SoundGrows DEF IInv, SaverInv
  <2>. QED
    BY <1>4, <2>1 DEF IInv, SaverInv, WrittenInv, HasDir
<1>6. BackupsWhole'
  BY DEF EditUnchanged, IInv, BackupsWhole
<1>. QED
  BY <1>2, <1>3, <1>5, <1>6 DEF IInv

(* An action that is evicted leaves what it did.                           *)
LEMMA TailClips ==
  ASSUME NEW s \in Seq(Actions), s # << >>
  PROVE  /\ Tail(s) \in Seq(Actions) /\ s[1] \in Actions
         /\ ClipsOf(s) = s[1].clips \cup ClipsOf(Tail(s))
<1>1. /\ Len(s) \in Nat \ {0} /\ DOMAIN s = 1..Len(s) /\ \A i \in 1..Len(s) : s[i] \in Actions
      /\ Tail(s) \in Seq(Actions) /\ Len(Tail(s)) = Len(s) - 1
      /\ \A i \in 1..Len(Tail(s)) : Tail(s)[i] = s[i + 1]
  BY EmptySeq, LenProperties, ElementOfSeq, HeadTailProperties
<1>2. DOMAIN Tail(s) = 1..(Len(s) - 1)
  BY <1>1, LenProperties
<1>3. PICK n \in Nat \ {0} : n = Len(s)
  BY <1>1
<1>4. /\ 1 \in 1..n /\ \A i \in 1..(n - 1) : i + 1 \in 1..n
      /\ \A i \in 1..n : i = 1 \/ \E k \in 1..(n - 1) : i = k + 1
  <2>1. \A i \in 1..n : i # 1 => i - 1 \in 1..(n - 1) /\ i = (i - 1) + 1
    OBVIOUS
  <2>2. 1 \in 1..n /\ \A i \in 1..(n - 1) : i + 1 \in 1..n
    OBVIOUS
  <2>. QED
    BY <2>1, <2>2, Zenon
<1>5. \A i \in 1..(n - 1) : Tail(s)[i] = s[i + 1]
  BY <1>1, <1>3
<1>6. /\ ClipsOf(s) = UNION {s[i].clips : i \in 1..n}
      /\ ClipsOf(Tail(s)) = UNION {Tail(s)[i].clips : i \in 1..(n - 1)}
  BY <1>1, <1>2, <1>3 DEF ClipsOf
<1>7. ClipsOf(s) \subseteq s[1].clips \cup ClipsOf(Tail(s))
  <2>1. SUFFICES ASSUME NEW c, NEW i \in 1..n, c \in s[i].clips
                 PROVE  c \in s[1].clips \cup ClipsOf(Tail(s))
    BY <1>6
  <2>2. CASE i = 1
    BY <2>1, <2>2
  <2>3. ASSUME NEW k \in 1..(n - 1), i = k + 1
        PROVE  c \in ClipsOf(Tail(s))
    <3>1. c \in Tail(s)[k].clips
      BY <1>5, <2>1, <2>3
    <3>. QED
      BY <1>6, <3>1
  <2>. QED
    BY <1>4, <2>2, <2>3
<1>8. s[1].clips \cup ClipsOf(Tail(s)) \subseteq ClipsOf(s)
  BY <1>4, <1>5, <1>6
<1>9. s[1] \in Actions
  BY <1>1, <1>3, <1>4
<1>. QED
  BY <1>1, <1>7, <1>8, <1>9

LEMMA RoomMade ==
  ASSUME mem \in Projects
  PROVE  /\ WithRoom \in Projects /\ Document(WithRoom) = Document(mem)
         /\ WithRoom.redo = mem.redo /\ WithRoom.pool = mem.pool
         /\ IsFull => /\ mem.undo # << >> /\ WithRoom.undo = Tail(mem.undo)
                      /\ WithRoom.base = mem.base \cup mem.undo[1].clips
         /\ ~IsFull => WithRoom = mem
<1>1. /\ mem.undo \in Seq(Actions) /\ mem.base \in SUBSET Clips /\ mem.pool \in SUBSET Clips
      /\ mem.redo \in Seq(Actions)
  BY DEF Projects
<1>2. CASE ~IsFull
  BY <1>2 DEF WithRoom
<1>3. CASE IsFull
  <2>1. mem.undo # << >>
    BY <1>3, EmptySeq, BoundsAssumption DEF IsFull
  <2>2. /\ Tail(mem.undo) \in Seq(Actions) /\ mem.undo[1].clips \in SUBSET Clips
        /\ ClipsOf(mem.undo) = mem.undo[1].clips \cup ClipsOf(Tail(mem.undo))
    BY <1>1, <2>1, TailClips DEF Actions
  <2>3. WithRoom = [base |-> mem.base \cup mem.undo[1].clips, undo |-> Tail(mem.undo),
                    redo |-> mem.redo, pool |-> mem.pool]
    BY <1>3 DEF WithRoom, Projects
  <2>4. Document(WithRoom) = Document(mem)
    BY <2>2, <2>3 DEF Document
  <2>. QED
    BY <1>1, <1>3, <2>1, <2>2, <2>3, <2>4 DEF Projects
<1>. QED
  BY <1>2, <1>3

LEMMA PerformInv ==
  ASSUME IInv, NEW clips \in SUBSET Clips, Perform(clips), WellNamed(mem.pool \cup clips),
         IsFiniteSet(mem.pool \cup clips), Cardinality(mem.pool \cup clips) <= edits + 1
  PROVE  IInv'
<1>1. PICK at \in Addrs : PerformAt(at, clips)
  BY DEF Perform
<1>. DEFINE a == [addr |-> at, clips |-> clips]
            room == WithRoom
<1>2. /\ edits \in 0..MaxEdits /\ edits' = edits + 1 /\ edits' \in 0..MaxEdits
      /\ edits <= edits'
  BY <1>1, BoundsAssumption DEF PerformAt, IInv, CountsInv
<1>3. a \in Actions
  BY DEF Actions
<1>4. /\ mem \in Projects /\ room \in Projects /\ room.undo \in Seq(Actions)
      /\ room.base \in SUBSET Clips /\ room.pool = mem.pool /\ Document(room) = Document(mem)
      /\ mem.pool \in SUBSET Clips /\ InUse(mem) \subseteq mem.pool
  BY RoomMade DEF IInv, Sound, Projects
<1>5. mem' = [room EXCEPT !.undo = Append(room.undo, a), !.redo = << >>,
                          !.pool = mem.pool \cup clips]
  BY <1>1, <1>4 DEF PerformAt
<1>. HIDE DEF room, a
<1>6. mem' = [base |-> room.base, undo |-> Append(room.undo, a), redo |-> << >>,
              pool |-> mem.pool \cup clips]
  BY <1>4, <1>5 DEF Projects
<1>7. Sound(mem', edits')
  <2>1. /\ Append(room.undo, a) \in Seq(Actions)
        /\ ClipsOf(Append(room.undo, a)) = ClipsOf(room.undo) \cup clips
    BY <1>3, <1>4, AppendClips DEF a
  <2>2. << >> \in Seq(Actions) /\ ClipsOf(<< >>) = {}
    BY EmptySeq DEF ClipsOf
  <2>3. mem' \in Projects
    BY <1>4, <1>6, <2>1, <2>2 DEF Projects
  <2>4. InUse(mem') \subseteq mem'.pool
    BY <1>4, <1>6, <2>1, <2>2 DEF InUse, Document
  <2>. QED
    BY <1>2, <1>6, <2>3, <2>4 DEF Sound
<1>8. Written(main.pool, clips) \in SUBSET Clips /\ WellNamed(Written(main.pool, clips))
  <2>1. main.pool \in SUBSET Clips /\ WellNamed(main.pool) /\ WellNamed(clips)
    BY DEF IInv, DirsInv, SoundDir, Dirs, WellNamed
  <2>. QED
    BY <2>1, WrittenType
<1>9. /\ saver.at = "idle" /\ EditUnchanged /\ forgotten' \in BOOLEAN
      /\ main' = [main EXCEPT !.pool = Written(main.pool, clips)]
  BY <1>1 DEF PerformAt, CanEdit, Forgets
<1>. QED
  BY <1>2, <1>7, <1>8, <1>9, EditedInv

LEMMA EditInv == ASSUME IInv, Edit PROVE IInv'
<1>1. /\ mem.pool \cup {} = mem.pool /\ IsFiniteSet(mem.pool) /\ WellNamed(mem.pool)
      /\ Cardinality(mem.pool) \in Nat /\ Cardinality(mem.pool) <= edits /\ edits \in Nat
  BY FS_CardinalityType, BoundsAssumption DEF IInv, Sound, CountsInv
<1>. QED
  BY <1>1, PerformInv DEF Edit

LEMMA ImportInv == ASSUME IInv, Import PROVE IInv'
<1>. DEFINE c == [name |-> UniqueName, data |-> edits + 1]
<1>1. edits \in 0..MaxEdits /\ edits < MaxEdits /\ edits + 1 \in 0..MaxEdits
  BY BoundsAssumption DEF Import, Perform, PerformAt, IInv, CountsInv
<1>2. UniqueName \in 0..MaxEdits /\ UniqueName \notin Names(mem.pool)
  BY <1>1, UniqueNameIsFree DEF IInv
<1>3. {c} \in SUBSET Clips /\ \A d \in mem.pool : d.name # c.name
  BY <1>1, <1>2 DEF Clips, Names
<1>4. WellNamed(mem.pool \cup {c})
  BY <1>3 DEF IInv, Sound, WellNamed
<1>5. /\ IsFiniteSet(mem.pool) /\ Cardinality(mem.pool) \in Nat
      /\ Cardinality(mem.pool) <= edits /\ edits \in Nat
  BY FS_CardinalityType, BoundsAssumption DEF IInv, Sound, CountsInv
<1>6. IsFiniteSet(mem.pool \cup {c}) /\ Cardinality(mem.pool \cup {c}) <= edits + 1
  <2>1. /\ IsFiniteSet(mem.pool \cup {c})
        /\ Cardinality(mem.pool \cup {c}) =
             IF c \in mem.pool THEN Cardinality(mem.pool) ELSE Cardinality(mem.pool) + 1
    BY <1>5, FS_AddElement
  <2>. QED
    BY <1>5, <2>1
<1>7. Perform({c})
  BY DEF Import
<1>. HIDE DEF c
<1>. QED
  BY <1>3, <1>4, <1>6, <1>7, PerformInv

LEMMA UndoInv == ASSUME IInv, Undo PROVE IInv'
<1>1. /\ mem \in Projects /\ mem.undo \in Seq(Actions) /\ mem.redo \in Seq(Actions)
      /\ mem.base \in SUBSET Clips /\ mem.pool \in SUBSET Clips /\ mem.undo # << >>
  BY DEF IInv, Sound, Projects, Undo
<1>. DEFINE a == mem.undo[Len(mem.undo)]
            f == SubSeq(mem.undo, 1, Len(mem.undo) - 1)
<1>2. /\ f \in Seq(Actions) /\ ClipsOf(f) \subseteq ClipsOf(mem.undo)
      /\ a \in Actions /\ a.clips \subseteq ClipsOf(mem.undo)
  BY <1>1, FrontClips
<1>3. Append(mem.redo, a) \in Seq(Actions) /\ ClipsOf(Append(mem.redo, a)) = ClipsOf(mem.redo) \cup a.clips
  BY <1>1, <1>2, AppendClips
<1>4. mem' = [base |-> mem.base, undo |-> f, redo |-> Append(mem.redo, a), pool |-> mem.pool]
  BY <1>1 DEF Undo, Projects
<1>. HIDE DEF a, f
<1>5. Sound(mem', edits)
  <2>1. mem' \in Projects
    BY <1>1, <1>2, <1>3, <1>4 DEF Projects
  <2>2. InUse(mem') \subseteq InUse(mem)
    BY <1>2, <1>3, <1>4 DEF InUse, Document
  <2>. QED
    BY <1>4, <2>1, <2>2 DEF IInv, Sound
<1>6. /\ main' = [main EXCEPT !.pool = main.pool] /\ edits' = edits /\ saver.at = "idle"
      /\ EditUnchanged /\ forgotten' \in BOOLEAN
  BY DEF Undo, CanEdit, IInv, DirsInv, SoundDir, Dirs, CountsInv
<1>7. main.pool \in SUBSET Clips /\ WellNamed(main.pool) /\ edits \in 0..MaxEdits /\ edits <= edits
  BY BoundsAssumption DEF IInv, DirsInv, SoundDir, Dirs, CountsInv
<1>. QED
  BY <1>5, <1>6, <1>7, EditedInv

LEMMA RedoInv == ASSUME IInv, Redo PROVE IInv'
<1>1. /\ mem \in Projects /\ mem.undo \in Seq(Actions) /\ mem.redo \in Seq(Actions)
      /\ mem.base \in SUBSET Clips /\ mem.pool \in SUBSET Clips /\ mem.redo # << >>
  BY DEF IInv, Sound, Projects, Redo
<1>. DEFINE a == mem.redo[Len(mem.redo)]
            f == SubSeq(mem.redo, 1, Len(mem.redo) - 1)
<1>2. /\ f \in Seq(Actions) /\ ClipsOf(f) \subseteq ClipsOf(mem.redo)
      /\ a \in Actions /\ a.clips \subseteq ClipsOf(mem.redo)
  BY <1>1, FrontClips
<1>3. Append(mem.undo, a) \in Seq(Actions) /\ ClipsOf(Append(mem.undo, a)) = ClipsOf(mem.undo) \cup a.clips
  BY <1>1, <1>2, AppendClips
<1>4. mem' = [base |-> mem.base, undo |-> Append(mem.undo, a), redo |-> f, pool |-> mem.pool]
  BY <1>1 DEF Redo, Projects
<1>5. /\ main' = [main EXCEPT !.pool = Written(main.pool, a.clips)] /\ edits' = edits
      /\ saver.at = "idle" /\ EditUnchanged /\ forgotten' \in BOOLEAN
  BY DEF Redo, CanEdit, IInv, CountsInv
<1>. HIDE DEF a, f
<1>6. Sound(mem', edits)
  <2>1. mem' \in Projects
    BY <1>1, <1>2, <1>3, <1>4 DEF Projects
  <2>2. InUse(mem') \subseteq InUse(mem)
    BY <1>2, <1>3, <1>4 DEF InUse, Document
  <2>. QED
    BY <1>4, <2>1, <2>2 DEF IInv, Sound
<1>7. Written(main.pool, a.clips) \in SUBSET Clips /\ WellNamed(Written(main.pool, a.clips))
  <2>1. a.clips \subseteq mem.pool
    BY <1>2 DEF IInv, Sound, InUse
  <2>2. main.pool \in SUBSET Clips /\ WellNamed(main.pool) /\ WellNamed(a.clips) /\ a.clips \in SUBSET Clips
    BY <1>1, <2>1 DEF IInv, DirsInv, SoundDir, Dirs, Sound, WellNamed
  <2>. QED
    BY <2>2, WrittenType
<1>8. edits \in 0..MaxEdits /\ edits <= edits
  BY BoundsAssumption DEF IInv, CountsInv
<1>. QED
  BY <1>5, <1>6, <1>7, <1>8, EditedInv-----------------------------------------------------------------------------
(* Directories.                                                            *)
LEMMA NewIsEmpty == Document(NewProject) = {} /\ InUse(NewProject) = {}
BY DEF NewProject, InUse, Document, ClipsOf

LEMMA EmptyDirSound == ASSUME NEW n \in Nat PROVE SoundDir(EmptyDir, n)
<1>1. Sound(NewProject, n) /\ NewProject \in Projects
  BY SoundNew DEF Sound
<1>2. 0 \in 0..(MaxSaves + 1)
  BY BoundsAssumption
<1>3. EmptyDir \in Dirs
  BY <1>1, <1>2 DEF EmptyDir, NoFile, Dirs
<1>. QED
  BY <1>1, <1>3 DEF EmptyDir, NoFile, SoundDir, WellNamed

(* The directory that is saved to is replaced, the others stay.            *)
LEMMA SaveToInv ==
  ASSUME IInv, edits' = edits, saver.backup => backups # << >>,
         NEW d, SoundDir(d, edits), SaveTo(saver.backup, d)
  PROVE  /\ DirsInv'
         /\ Len(backups') = Len(backups) /\ DOMAIN backups' = DOMAIN backups
         /\ backups = << >> => backups' = << >>
         /\ \A i \in DOMAIN backups :
              backups'[i] = IF saver.backup /\ i = Len(backups) THEN d ELSE backups[i]
         /\ saver.backup => main' = main /\ Len(backups) \in DOMAIN backups
         /\ ~saver.backup => main' = d /\ backups' = backups
<1>1. /\ backups \in Seq(Dirs) /\ Len(backups) \in Nat /\ DOMAIN backups = 1..Len(backups)
      /\ SoundDir(main, edits) /\ \A i \in DOMAIN backups : SoundDir(backups[i], edits)
  BY LenProperties DEF IInv, DirsInv
<1>2. CASE ~saver.backup
  BY <1>1, <1>2 DEF SaveTo, DirsInv
<1>3. CASE saver.backup
  <2>1. backups # << >> /\ Len(backups) \in DOMAIN backups /\ d \in Dirs
    BY <1>1, <1>3, EmptySeq DEF SoundDir
  <2>2. backups' = [backups EXCEPT ![Len(backups)] = d] /\ main' = main
    BY <1>3 DEF SaveTo
  <2>3. backups' \in Seq(Dirs) /\ Len(backups') = Len(backups) /\ DOMAIN backups' = DOMAIN backups
    BY <1>1, <2>1, <2>2, ExceptSeq
  <2>4. \A i \in DOMAIN backups : backups'[i] = IF i = Len(backups) THEN d ELSE backups[i]
    BY <1>1, <2>1, <2>2
  <2>. QED
    BY <1>1, <1>3, <2>1, <2>2, <2>3, <2>4 DEF DirsInv
<1>. QED
  BY <1>2, <1>3

(* The directory of the save under way.                                    *)
LEMMA TargetSound ==
  ASSUME IInv, saver.backup => backups # << >>
  PROVE  /\ SoundDir(Target(saver.backup), edits)
         /\ saver.backup => /\ Target(saver.backup) = backups[Len(backups)]
                            /\ Len(backups) \in DOMAIN backups
<1>1. backups # << >> => Len(backups) \in DOMAIN backups
  BY LenProperties, EmptySeq DEF IInv, DirsInv
<1>. QED
  BY <1>1 DEF Target, IInv, DirsInv
-----------------------------------------------------------------------------
(* The steps of a save.                                                    *)
LEMMA QuietInv ==
  ASSUME IInv, UNCHANGED <<mem, main, backups, edits>>, CountsInv', SaverInv', WrittenInv'
  PROVE  IInv'
BY DEF IInv, DirsInv, BackupsWhole

LEMMA BlockedInv == ASSUME IInv, Blocked PROVE IInv'
<1>1. CountsInv'
  BY DEF Blocked, IInv, CountsInv
<1>2. Sound(NewProject, edits) /\ NewProject \in Projects
  BY SoundNew, BoundsAssumption DEF IInv, CountsInv, Sound
<1>3. SaverInv' /\ WrittenInv'
  BY <1>2 DEF Blocked, Idle, IInv, CountsInv, SaverInv, WrittenInv, HasDir, Savers, Places
<1>. QED
  BY <1>1, <1>3, QuietInv DEF Blocked

LEMMA BeginInv == ASSUME IInv, NEW backup \in BOOLEAN, Begin(backup) PROVE IInv'
<1>1. CountsInv'
  <2>1. saves \in 0..MaxSaves /\ saves < MaxSaves /\ saves' = saves + 1 /\ MaxSaves \in Nat
    BY BoundsAssumption DEF Begin, IInv, CountsInv
  <2>2. saves' \in 0..MaxSaves
    BY <2>1
  <2>. QED
    BY <2>2 DEF Begin, IInv, CountsInv
<1>2. Sound(NewProject, edits) /\ NewProject \in Projects
  BY SoundNew, BoundsAssumption DEF IInv, CountsInv, Sound
<1>3. SaverInv' /\ WrittenInv'
  BY <1>2 DEF Begin, Idle, IInv, CountsInv, SaverInv, WrittenInv, HasDir, Savers, Places
<1>. QED
  BY <1>1, <1>3, QuietInv DEF Begin

(* A step that only moves on.                                              *)
LEMMA GotoInv ==
  ASSUME IInv, UNCHANGED <<mem, main, backups>>, Kept, CountsInv',
         NEW at \in {"project_dir", "backup_dir", "dirs", "unused", "serialize"}, Goto(at),
         at = "project_dir" => saver.at = "wait",
         at = "backup_dir" => saver.at = "project_dir" /\ saver.backup,
         at = "dirs" => saver.at = "project_dir" /\ ~saver.backup,
         at = "unused" => saver.at = "dirs", at = "serialize" => saver.at = "states"
  PROVE  IInv'
<1>1. saver' = [saver EXCEPT !.at = at] /\ saver \in Savers
  BY DEF Goto, IInv, SaverInv
<1>2. /\ saver' \in Savers /\ saver'.at = at /\ saver'.backup = saver.backup
      /\ saver'.clone = saver.clone
  BY <1>1 DEF Savers, Places
<1>3. SaverInv'
  BY <1>2 DEF Kept, IInv, SaverInv, HasDir
<1>4. WrittenInv'
  BY <1>2 DEF Kept, IInv, WrittenInv
<1>. QED
  BY <1>3, <1>4, QuietInv DEF Kept

LEMMA WaitActionSemInv == ASSUME IInv, WaitActionSem PROVE IInv'
<1>1. CountsInv'
  BY DEF WaitActionSem, Kept, IInv, CountsInv
<1>. QED
  BY <1>1, GotoInv DEF WaitActionSem

LEMMA MakeProjectDirInv == ASSUME IInv, MakeProjectDir PROVE IInv'
<1>1. CountsInv'
  BY DEF MakeProjectDir, Kept, IInv, CountsInv
<1>. QED
  BY <1>1, GotoInv DEF MakeProjectDir

LEMMA MakeDirsInv == ASSUME IInv, MakeDirs PROVE IInv'
<1>1. CountsInv'
  BY DEF MakeDirs, Kept, IInv, CountsInv
<1>. QED
  BY <1>1, GotoInv DEF MakeDirs

LEMMA CopyPluginStatesInv == ASSUME IInv, CopyPluginStates PROVE IInv'
<1>1. CountsInv'
  BY DEF CopyPluginStates, Kept, IInv, CountsInv
<1>. QED
  BY <1>1, GotoInv DEF CopyPluginStates

LEMMA MakeBackupDirInv == ASSUME IInv, MakeBackupDir PROVE IInv'
<1>1. /\ saver' = [saver EXCEPT !.at = "dirs"] /\ saver \in Savers /\ saver.backup
      /\ backups' = Append(backups, EmptyDir) /\ backups \in Seq(Dirs) /\ edits \in Nat
  BY BoundsAssumption DEF MakeBackupDir, Goto, IInv, SaverInv, DirsInv, CountsInv
<1>2. SoundDir(EmptyDir, edits) /\ EmptyDir \in Dirs
  BY <1>1, EmptyDirSound DEF SoundDir
<1>3. /\ backups' \in Seq(Dirs) /\ Len(backups) \in Nat /\ Len(backups') = Len(backups) + 1
      /\ DOMAIN backups = 1..Len(backups) /\ DOMAIN backups' = 1..(Len(backups) + 1)
      /\ backups'[Len(backups) + 1] = EmptyDir
      /\ \A i \in DOMAIN backups : backups'[i] = backups[i]
  BY <1>1, <1>2, AppendProperties, LenProperties
<1>4. /\ DOMAIN backups \subseteq DOMAIN backups' /\ backups' # << >>
      /\ \A i \in DOMAIN backups' : i \in DOMAIN backups \/ i = Len(backups) + 1
  BY <1>3, EmptySeq
<1>5. CountsInv'
  BY <1>4 DEF MakeBackupDir, Kept, IInv, CountsInv
<1>6. DirsInv'
  BY <1>2, <1>3, <1>4 DEF MakeBackupDir, Kept, IInv, DirsInv
<1>7. SaverInv' /\ WrittenInv'
  <2>1. /\ saver' \in Savers /\ saver'.at = "dirs" /\ saver'.clone = saver.clone
        /\ backups'[Len(backups')].file = NoFile
    BY <1>1, <1>3 DEF Savers, Places, EmptyDir
  <2>. QED
    BY <1>4, <2>1 DEF MakeBackupDir, Kept, IInv, SaverInv, WrittenInv, HasDir
<1>8. BackupsWhole'
  BY <1>3, <1>4, NewIsEmpty DEF IInv, BackupsWhole, EmptyDir, NoFile
<1>9. Sound(mem', edits')
  BY DEF MakeBackupDir, Kept, IInv
<1>. QED
  BY <1>5, <1>6, <1>7, <1>8, <1>9 DEF IInv
(* A step of a save that leaves the counts alone.                          *)
LEMMA SavedCounts ==
  ASSUME IInv, Kept, action_sem' \in Nat, run' \in BOOLEAN, DOMAIN backups' = DOMAIN backups
  PROVE  CountsInv'
BY DEF Kept, IInv, CountsInv

LEMMA RemoveUnusedInv == ASSUME IInv, RemoveUnused PROVE IInv'
<1>. DEFINE t == Target(saver.backup)
            d == [t EXCEPT !.pool = {f \in t.pool : f.name \in Names(InUse(mem))}]
<1>1. /\ saver.at = "unused" /\ Kept /\ edits' = edits /\ SaveTo(saver.backup, d)
      /\ mem' = [mem EXCEPT !.pool = InUse(mem)] /\ action_sem' = action_sem /\ run' = run
      /\ saver' = [saver EXCEPT !.at = "pool", !.pending = InUse(mem)]
      /\ (saver.backup => backups # << >>) /\ saver \in Savers
  BY DEF RemoveUnused, Remove, Kept, IInv, SaverInv, HasDir
<1>2. /\ SoundDir(t, edits)
      /\ saver.backup => t = backups[Len(backups)] /\ Len(backups) \in DOMAIN backups
  BY <1>1, TargetSound
<1>3. SoundDir(d, edits) /\ d.file = t.file
  BY <1>2 DEF SoundDir, Dirs, WellNamed
<1>. HIDE DEF t, d
<1>4. /\ DirsInv' /\ Len(backups') = Len(backups) /\ DOMAIN backups' = DOMAIN backups
      /\ (backups = << >> => backups' = << >>)
      /\ \A i \in DOMAIN backups :
              backups'[i] = IF saver.backup /\ i = Len(backups) THEN d ELSE backups[i]
  BY <1>1, <1>3, SaveToInv
<1>5. CountsInv'
  BY <1>1, <1>4, SavedCounts DEF IInv, CountsInv
<1>6. /\ mem \in Projects /\ InUse(mem) \in SUBSET Clips
      /\ mem' = [base |-> mem.base, undo |-> mem.undo, redo |-> mem.redo, pool |-> InUse(mem)]
  BY <1>1, InUseType DEF IInv, Sound, Projects
<1>7. mem' \in Projects /\ InUse(mem') = InUse(mem) /\ mem'.pool = InUse(mem)
  BY <1>6 DEF Projects, InUse, Document
<1>8. Sound(mem', edits')
  <2>1. /\ InUse(mem) \subseteq mem.pool /\ IsFiniteSet(mem.pool)
        /\ Cardinality(mem.pool) \in Nat /\ Cardinality(mem.pool) <= edits
        /\ edits \in Nat /\ WellNamed(mem.pool)
    BY FS_CardinalityType, BoundsAssumption DEF IInv, Sound, CountsInv
  <2>2. /\ IsFiniteSet(InUse(mem)) /\ Cardinality(InUse(mem)) \in Nat
        /\ Cardinality(InUse(mem)) <= Cardinality(mem.pool)
    BY <2>1, FS_Subset, FS_CardinalityType
  <2>3. Cardinality(InUse(mem)) <= edits
    BY <2>1, <2>2
  <2>4. WellNamed(InUse(mem))
    BY <2>1 DEF WellNamed
  <2>. QED
    BY <1>1, <1>7, <2>2, <2>3, <2>4 DEF Sound
<1>9. /\ saver' \in Savers /\ saver'.at = "pool" /\ saver'.backup = saver.backup
      /\ saver'.clone = saver.clone /\ saver'.pending = InUse(mem)
  BY <1>1, <1>6 DEF Savers, Places
<1>10. SaverInv'
  <2>1. saver.backup => backups' # << >> /\ backups'[Len(backups')].file = NoFile
    BY <1>1, <1>2, <1>3, <1>4, EmptySeq, LenProperties DEF IInv, DirsInv, SaverInv, HasDir
  <2>. QED
    BY <1>1, <1>7, <1>9, <2>1 DEF IInv, SaverInv, HasDir
<1>11. WrittenInv'
  BY <1>7, <1>9 DEF WrittenInv
<1>12. BackupsWhole'
  <2>1. t.file = NoFile \/ ~saver.backup
    BY <1>1, <1>2 DEF IInv, SaverInv, HasDir
  <2>. QED
    BY <1>3, <1>4, <2>1, NewIsEmpty DEF IInv, BackupsWhole, NoFile
<1>. QED
  BY <1>4, <1>5, <1>8, <1>10, <1>11, <1>12 DEF IInv
LEMMA WriteClipInv == ASSUME IInv, WriteClip PROVE IInv'
<1>. DEFINE t == Target(saver.backup)
            d(c) == [t EXCEPT !.pool = Written(t.pool, {c})]
<1>1. PICK c \in saver.pending :
        /\ SaveTo(saver.backup, d(c)) /\ saver' = [saver EXCEPT !.pending = saver.pending \ {c}]
  BY DEF WriteClip
<1>2. /\ saver.at = "pool" /\ Kept /\ edits' = edits /\ mem' = mem
      /\ action_sem' = action_sem /\ run' = run
      /\ (saver.backup => backups # << >>) /\ saver \in Savers
      /\ saver.pending \subseteq InUse(mem) /\ InUse(mem) \subseteq mem.pool
      /\ mem.pool \in SUBSET Clips /\ WellNamed(mem.pool)
  BY DEF WriteClip, Kept, IInv, Sound, Projects, SaverInv, HasDir
<1>3. /\ SoundDir(t, edits)
      /\ saver.backup => t = backups[Len(backups)] /\ Len(backups) \in DOMAIN backups
  BY <1>2, TargetSound
<1>4. c \in Clips /\ WellNamed({c}) /\ {c} \in SUBSET Clips /\ c \in InUse(mem)
  BY <1>2 DEF WellNamed
<1>5. /\ Written(t.pool, {c}) \in SUBSET Clips /\ WellNamed(Written(t.pool, {c}))
      /\ c \in Written(t.pool, {c})
  BY <1>3, <1>4, WrittenType DEF SoundDir, Dirs
<1>6. InUse(mem) \cap t.pool \subseteq Written(t.pool, {c})
  <2>1. WellNamed((InUse(mem) \cap t.pool) \cup {c})
    BY <1>2, <1>4 DEF WellNamed
  <2>. QED
    BY <2>1, WrittenKeeps
<1>7. SoundDir(d(c), edits) /\ d(c).file = t.file /\ d(c).pool = Written(t.pool, {c})
  BY <1>3, <1>5 DEF SoundDir, Dirs
<1>. HIDE DEF t, d
<1>8. /\ DirsInv' /\ Len(backups') = Len(backups) /\ DOMAIN backups' = DOMAIN backups
      /\ (backups = << >> => backups' = << >>)
      /\ \A i \in DOMAIN backups :
              backups'[i] = IF saver.backup /\ i = Len(backups) THEN d(c) ELSE backups[i]
  BY <1>1, <1>2, <1>7, SaveToInv
<1>9. CountsInv'
  BY <1>2, <1>8, SavedCounts DEF IInv, CountsInv
<1>10. /\ saver' \in Savers /\ saver'.at = "pool" /\ saver'.backup = saver.backup
       /\ saver'.clone = saver.clone /\ saver'.pending = saver.pending \ {c}
  BY <1>1, <1>2 DEF Savers
<1>11. SaverInv'
  <2>1. saver.backup => backups' # << >> /\ backups'[Len(backups')].file = NoFile
    BY <1>2, <1>3, <1>7, <1>8, EmptySeq, LenProperties DEF IInv, DirsInv, SaverInv, HasDir
  <2>. QED
    BY <1>2, <1>10, <2>1 DEF IInv, SaverInv, HasDir
<1>12. WrittenInv'
  <2>1. SUFFICES ASSUME saver.backup
                 PROVE  InUse(mem) \subseteq backups'[Len(backups)].pool \cup saver'.pending
    BY <1>2, <1>8, <1>10 DEF WrittenInv
  <2>2. InUse(mem) \subseteq t.pool \cup saver.pending
    BY <1>2, <1>3, <2>1 DEF IInv, WrittenInv
  <2>3. backups'[Len(backups)].pool = Written(t.pool, {c})
    BY <1>3, <1>7, <1>8, <2>1
  <2>. QED
    BY <1>5, <1>6, <1>10, <2>2, <2>3
<1>13. BackupsWhole'
  <2>1. t.file = NoFile \/ ~saver.backup
    BY <1>2, <1>3 DEF IInv, SaverInv, HasDir
  <2>. QED
    BY <1>3, <1>7, <1>8, <2>1, NewIsEmpty DEF IInv, BackupsWhole, NoFile
<1>14. Sound(mem', edits')
  BY <1>2 DEF IInv
<1>. QED
  BY <1>8, <1>9, <1>11, <1>12, <1>13, <1>14 DEF IInv

(* The copy that is written has the document of the project, and a backup's*)
(* copy no history.                                                        *)
LEMMA CloneInv == ASSUME IInv, Clone PROVE IInv'
<1>. DEFINE b == [mem EXCEPT !.base = Document(mem), !.undo = << >>, !.redo = << >>]
            p == IF saver.backup THEN b ELSE mem
<1>1. /\ saver.at = "pool" /\ saver.pending = {} /\ UNCHANGED <<mem, main, backups>>
      /\ Kept /\ edits' = edits /\ action_sem' = action_sem /\ run' = run
      /\ saver' = [saver EXCEPT !.at = IF saver.backup THEN "states" ELSE "serialize",
                                !.clone = p]
      /\ saver \in Savers /\ (saver.backup => backups # << >>)
  BY DEF Clone, CloneProject, Kept, IInv, SaverInv, HasDir
<1>2. /\ mem \in Projects /\ Sound(mem, edits) /\ Document(mem) \in SUBSET Clips
      /\ Document(mem) \subseteq InUse(mem)
  BY InUseType DEF IInv, Sound
<1>3. b = [base |-> Document(mem), undo |-> << >>, redo |-> << >>, pool |-> mem.pool]
  <2>. DEFINE D == Document(mem)
              e == << >>
  <2>1. b = [mem EXCEPT !.base = D, !.undo = e, !.redo = e]
    OBVIOUS
  <2>. HIDE DEF D, e, b
  <2>2. b = [base |-> D, undo |-> e, redo |-> e, pool |-> mem.pool]
    BY <1>2, <2>1 DEF Projects
  <2>. QED
    BY <2>2 DEF D, e
<1>4. Document(b) = Document(mem) /\ InUse(b) = Document(mem)
  BY <1>3 DEF InUse, Document, ClipsOf
<1>5. Sound(b, edits)
  <2>1. b \in Projects
    BY <1>2, <1>3, EmptySeq DEF Projects
  <2>. QED
    BY <1>2, <1>3, <1>4, <2>1 DEF Sound
<1>6. Sound(p, edits) /\ p \in Projects /\ (saver.backup => Document(p) = Document(mem))
  BY <1>2, <1>4, <1>5 DEF Sound
<1>. HIDE DEF p, b
<1>7. /\ saver' \in Savers /\ saver'.at = (IF saver.backup THEN "states" ELSE "serialize")
      /\ saver'.backup = saver.backup /\ saver'.clone = p
  BY <1>1, <1>6 DEF Savers, Places
<1>8. CountsInv'
  BY <1>1, SavedCounts DEF IInv, CountsInv
<1>9. SaverInv'
  BY <1>1, <1>6, <1>7 DEF IInv, SaverInv, HasDir
<1>10. WrittenInv'
  <2>1. saver.backup => Document(p) \subseteq backups[Len(backups)].pool
    BY <1>1, <1>2, <1>6 DEF IInv, WrittenInv
  <2>. QED
    BY <1>1, <1>7, <2>1 DEF WrittenInv
<1>. QED
  BY <1>1, <1>8, <1>9, <1>10, QuietInv

LEMMA SerializeInv == ASSUME IInv, Serialize PROVE IInv'
<1>. DEFINE t == Target(saver.backup)
            d == [t EXCEPT !.file = [project |-> saver.clone, time |-> saves + 1]]
<1>1. /\ saver.at = "serialize" /\ action_sem' = action_sem + 1 /\ Kept /\ edits' = edits
      /\ saves' = saves /\ mem' = mem /\ run' = run
      /\ (saver.backup => backups # << >>) /\ saver \in Savers /\ Sound(saver.clone, edits)
      /\ action_sem \in Nat /\ action_sem' \in Nat
  BY DEF Serialize, SerializeWith, Kept, IInv, CountsInv, SaverInv, HasDir
<1>2. /\ SoundDir(t, edits)
      /\ saver.backup => t = backups[Len(backups)] /\ Len(backups) \in DOMAIN backups
  BY <1>1, TargetSound
<1>3. CASE SaveTo(saver.backup, d) /\ Goto("finish")
  <2>1. saves + 1 \in 0..(MaxSaves + 1) /\ saver.clone \in Projects
    BY <1>1, BoundsAssumption DEF IInv, CountsInv, Savers
  <2>2. SoundDir(d, edits) /\ d.file.project = saver.clone /\ d.pool = t.pool
    BY <1>1, <1>2, <2>1 DEF SoundDir, Dirs
  <2>. HIDE DEF t, d
  <2>3. /\ DirsInv' /\ Len(backups') = Len(backups) /\ DOMAIN backups' = DOMAIN backups
        /\ (backups = << >> => backups' = << >>)
        /\ \A i \in DOMAIN backups :
                backups'[i] = IF saver.backup /\ i = Len(backups) THEN d ELSE backups[i]
    BY <1>1, <1>3, <2>2, SaveToInv
  <2>4. CountsInv'
    BY <1>1, <2>3, SavedCounts DEF IInv, CountsInv
  <2>5. /\ saver' \in Savers /\ saver'.at = "finish" /\ saver'.backup = saver.backup
        /\ saver'.clone = saver.clone
    BY <1>1, <1>3 DEF Goto, Savers, Places
  <2>6. SaverInv' /\ WrittenInv'
    <3>1. saver.backup => backups' # << >>
      BY <1>2, <2>3, EmptySeq, LenProperties DEF IInv, DirsInv
    <3>. QED
      BY <1>1, <2>5, <3>1 DEF IInv, SaverInv, WrittenInv, HasDir
  <2>7. BackupsWhole'
    <3>1. saver.backup => Document(saver.clone) \subseteq t.pool
      BY <1>1, <1>2 DEF IInv, WrittenInv
    <3>. QED
      BY <2>2, <2>3, <3>1 DEF IInv, BackupsWhole
  <2>8. Sound(mem', edits')
    BY <1>1 DEF IInv
  <2>. QED
    BY <2>3, <2>4, <2>6, <2>7, <2>8 DEF IInv
<1>4. CASE /\ saver' = [saver EXCEPT !.at = "finish", !.has_error = TRUE]
           /\ UNCHANGED <<main, backups>>
  <2>1. CountsInv'
    BY <1>1, <1>4, SavedCounts DEF IInv, CountsInv
  <2>2. /\ saver' \in Savers /\ saver'.at = "finish" /\ saver'.backup = saver.backup
        /\ saver'.clone = saver.clone
    BY <1>1, <1>4 DEF Savers, Places
  <2>3. SaverInv' /\ WrittenInv'
    BY <1>1, <1>4, <2>2 DEF IInv, SaverInv, WrittenInv, HasDir
  <2>. QED
    BY <1>1, <1>4, <2>1, <2>3, QuietInv
<1>. QED
  BY <1>3, <1>4 DEF Serialize, SerializeWith

(* The saver that is idle or down has no project of its own.               *)
LEMMA NewSaverInv ==
  ASSUME edits' \in Nat, saver' \in {Idle, Down}
  PROVE  SaverInv' /\ WrittenInv'
<1>1. Sound(NewProject, edits') /\ NewProject \in Projects
  BY SoundNew DEF Sound
<1>2. PICK at \in {"idle", "down"} :
        saver' = [at |-> at, backup |-> FALSE, running |-> FALSE, pending |-> {},
                  clone |-> NewProject, has_error |-> FALSE]
  BY DEF Idle, Down
<1>3. at \in Places /\ FALSE \in BOOLEAN /\ {} \in SUBSET Clips
  BY DEF Places
<1>4. saver' \in Savers
  BY <1>1, <1>2, <1>3 DEF Savers
<1>. QED
  BY <1>1, <1>2, <1>4 DEF SaverInv, WrittenInv, HasDir

LEMMA FinishInv == ASSUME IInv, Finish PROVE IInv'
<1>. DEFINE t == Target(saver.backup)
            d == [t EXCEPT !.finished = TRUE]
<1>1. /\ saver.at = "finish" /\ SaveTo(saver.backup, d) /\ Saved /\ run' = saver.running
      /\ source' = (IF saver.backup THEN source
                    ELSE IF saver.has_error THEN Nowhere ELSE Main)
      /\ saver' = Idle /\ UNCHANGED <<mem, action_sem, edits, saves>>
      /\ (saver.backup => backups # << >>) /\ saver \in Savers
  BY DEF Finish, IInv, SaverInv, HasDir
<1>2. /\ SoundDir(t, edits)
      /\ saver.backup => t = backups[Len(backups)] /\ Len(backups) \in DOMAIN backups
  BY <1>1, TargetSound
<1>3. SoundDir(d, edits) /\ d.file = t.file /\ d.pool = t.pool
  BY <1>2 DEF SoundDir, Dirs
<1>. HIDE DEF t, d
<1>4. /\ DirsInv' /\ DOMAIN backups' = DOMAIN backups
      /\ \A i \in DOMAIN backups :
              backups'[i] = IF saver.backup /\ i = Len(backups) THEN d ELSE backups[i]
  BY <1>1, <1>3, SaveToInv
<1>5. CountsInv'
  <2>1. LastAction(mem) \in Addrs \cup {NoAction}
    BY LastActionType DEF IInv, Sound
  <2>2. /\ {last_saved_action', last_autosaved'} \subseteq Addrs \cup {NoAction}
        /\ forgotten' \in BOOLEAN
    BY <1>1, <2>1 DEF Saved, Finish, Savers, IInv, CountsInv
  <2>3. run' \in BOOLEAN
    BY <1>1 DEF Savers
  <2>. QED
    BY <1>1, <1>4, <2>2, <2>3 DEF IInv, CountsInv
<1>6. SaverInv' /\ WrittenInv'
  <2>1. saver' = Idle /\ edits' \in Nat
    BY <1>1, BoundsAssumption DEF IInv, CountsInv
  <2>. QED
    BY <2>1, NewSaverInv DEF IInv, CountsInv
<1>7. BackupsWhole'
  BY <1>2, <1>3, <1>4 DEF IInv, BackupsWhole
<1>8. Sound(mem', edits')
  BY <1>1 DEF IInv
<1>. QED
  BY <1>4, <1>5, <1>6, <1>7, <1>8 DEF IInv

LEMMA FailInv == ASSUME IInv, Fail PROVE IInv'
<1>1. /\ UNCHANGED <<mem, main, backups, edits>> /\ Kept /\ saver' = Idle
      /\ action_sem' \in Nat /\ run' \in BOOLEAN /\ edits' \in Nat /\ run \in BOOLEAN
  BY BoundsAssumption DEF Fail, Kept, IInv, CountsInv
<1>2. CountsInv'
  BY <1>1, SavedCounts
<1>3. SaverInv' /\ WrittenInv'
  BY <1>1, NewSaverInv
<1>. QED
  BY <1>1, <1>2, <1>3, QuietInv
-----------------------------------------------------------------------------
(* The end of the process, and the next start.                             *)
LEMMA EndInv == ASSUME IInv, End PROVE IInv'
<1>1. /\ UNCHANGED <<main, backups, edits, saves>> /\ saver' = Down /\ mem' = NewProject
      /\ edits' \in Nat /\ edits \in Nat
  BY BoundsAssumption DEF End, IInv, CountsInv
<1>2. CountsInv'
  BY DEF End, IInv, CountsInv
<1>3. SaverInv' /\ WrittenInv'
  BY <1>1, NewSaverInv
<1>4. Sound(mem', edits')
  BY <1>1, SoundNew
<1>5. DirsInv' /\ BackupsWhole'
  BY <1>1 DEF IInv, DirsInv, BackupsWhole
<1>. QED
  BY <1>2, <1>3, <1>4, <1>5 DEF IInv

(* The backup that is offered is one of those on disk.                     *)
LEMMA NewerBackupType == ASSUME IInv PROVE NewerBackup \in {Main} \cup DOMAIN backups
<1>. DEFINE age(i) == MaxSaves + 1 - backups[i].file.time
            S == {age(i) : i \in Newer}
<1>1. /\ Newer \subseteq DOMAIN backups /\ MaxSaves \in Nat
      /\ \A i \in DOMAIN backups : backups[i].file.time \in 0..(MaxSaves + 1)
  BY BoundsAssumption DEF Newer, IInv, DirsInv, SoundDir, Dirs
<1>2. SUFFICES ASSUME Newer # {}
               PROVE  \E i \in Newer :
                        \A j \in Newer : backups[j].file.time <= backups[i].file.time
  <2>. DEFINE Best(i) == \A j \in Newer : backups[j].file.time <= backups[i].file.time
  <2>1. NewerBackup = Main \/ NewerBackup = CHOOSE i \in Newer : Best(i)
    BY DEF NewerBackup
  <2>2. Newer = {} => NewerBackup = Main
    BY DEF NewerBackup
  <2>. HIDE DEF Best
  <2>3. (\E i \in Newer : Best(i)) => (CHOOSE i \in Newer : Best(i)) \in Newer
    OBVIOUS
  <2>. QED
    BY <1>1, <2>1, <2>2, <2>3 DEF Best
<1>3. S \in SUBSET Nat /\ S # {}
  <2>1. \A i \in Newer : age(i) \in Nat
    <3>1. \A t \in 0..(MaxSaves + 1) : MaxSaves + 1 - t \in Nat
      BY <1>1
    <3>. QED
      BY <1>1, <3>1
  <2>. HIDE DEF age
  <2>. QED
    BY <1>2, <2>1
<1>4. PICK n \in S : \A k \in S : ~(k < n)
  BY <1>3, NatMinimum
<1>5. PICK i \in Newer : n = age(i)
  OBVIOUS
<1>6. ASSUME NEW j \in Newer PROVE backups[j].file.time <= backups[i].file.time
  <2>1. ~(age(j) < age(i))
    BY <1>4, <1>5
  <2>. QED
    BY <1>1, <2>1
<1>. QED
  BY <1>6

LEMMA OpenInv == ASSUME IInv, Open PROVE IInv'
<1>1. PICK i \in {Main, NewerBackup} :
        /\ mem' = Opened(Dir(i).file.project) /\ source' = i
        /\ last_saved_action' = LastAction(Dir(i).file.project)
  BY DEF Open
<1>2. /\ run' = TRUE /\ saver' = Idle
      /\ UNCHANGED <<last_autosaved, forgotten, action_sem, main, backups, edits, saves>>
      /\ edits \in Nat /\ edits' \in Nat
  BY BoundsAssumption DEF Open, IInv, CountsInv
<1>3. i \in {Main} \cup DOMAIN backups /\ SoundDir(Dir(i), edits)
  BY NewerBackupType DEF Dir, IInv, DirsInv
<1>4. Sound(Dir(i).file.project, edits) /\ main.pool \in SUBSET Clips
  BY <1>3 DEF SoundDir, IInv, DirsInv, Dirs
<1>5. Sound(mem', edits')
  BY <1>1, <1>2, <1>4, OpenedSound
<1>6. CountsInv'
  <2>1. LastAction(Dir(i).file.project) \in Addrs \cup {NoAction}
    BY <1>4, LastActionType DEF Sound
  <2>. QED
    BY <1>1, <1>2, <1>3, <2>1 DEF IInv, CountsInv
<1>7. SaverInv' /\ WrittenInv'
  BY <1>2, NewSaverInv
<1>8. DirsInv' /\ BackupsWhole'
  BY <1>2 DEF IInv, DirsInv, BackupsWhole
<1>. QED
  BY <1>5, <1>6, <1>7, <1>8 DEF IInv

LEMMA InitInv == Init => IInv
<1>. SUFFICES ASSUME Init PROVE IInv
  OBVIOUS
<1>1. edits = 0 /\ 0 \in Nat /\ saves = 0 /\ backups = << >> /\ saver = Idle /\ mem = NewProject
  BY DEF Init
<1>2. CountsInv
  <2>1. /\ edits = 0 /\ saves = 0 /\ action_sem \in {1, 2} /\ run = TRUE
        /\ last_saved_action = NoAction /\ last_autosaved = NoAction
        /\ forgotten = FALSE /\ source = Main
    BY DEF Init
  <2>2. 0 \in 0..MaxEdits /\ 0 \in 0..MaxSaves /\ {1, 2} \subseteq Nat
    BY BoundsAssumption
  <2>. QED
    BY <2>1, <2>2 DEF CountsInv
<1>3. Sound(NewProject, edits) /\ NewProject \in Projects /\ Sound(mem, edits)
  BY <1>1, SoundNew DEF Sound
<1>4. DirsInv
  <2>1. /\ SoundDir(EmptyDir, edits)
        /\ main = [file |-> [project |-> NewProject, time |-> 1], finished |-> TRUE, pool |-> {}]
    BY <1>1, EmptyDirSound DEF Init, EmptyDir, NoFile
  <2>2. SoundDir(main, edits)
    <3>1. 1 \in 0..(MaxSaves + 1)
      BY BoundsAssumption
    <3>2. main \in Dirs
      BY <1>3, <2>1, <3>1 DEF Dirs
    <3>. QED
      BY <1>3, <2>1, <3>2 DEF SoundDir, WellNamed
  <2>. QED
    BY <1>1, <2>2, EmptySeq DEF DirsInv
<1>5. SaverInv /\ WrittenInv
  <2>1. saver \in Savers
    BY <1>1, <1>3 DEF Idle, Savers, Places
  <2>. QED
    BY <1>1, <1>3, <2>1 DEF Idle, SaverInv, WrittenInv, HasDir
<1>6. BackupsWhole
  BY <1>1, EmptySeq DEF BackupsWhole
<1>. QED
  BY <1>2, <1>3, <1>4, <1>5, <1>6 DEF IInv

LEMMA NextInv == IInv /\ [Next]_vars => IInv'
<1>. SUFFICES ASSUME IInv, [Next]_vars PROVE IInv'
  OBVIOUS
<1>1. CASE Edit \/ Import \/ Undo \/ Redo
  BY <1>1, EditInv, ImportInv, UndoInv, RedoInv
<1>2. CASE Blocked \/ Save \/ Autosave
  BY <1>2, BlockedInv, BeginInv DEF Save, Autosave
<1>3. CASE \/ WaitActionSem \/ MakeProjectDir \/ MakeBackupDir \/ MakeDirs \/ RemoveUnused
          \/ WriteClip
  BY <1>3, WaitActionSemInv, MakeProjectDirInv, MakeBackupDirInv, MakeDirsInv, RemoveUnusedInv, WriteClipInv
<1>4. CASE Clone \/ CopyPluginStates \/ Serialize \/ Finish \/ Fail
  BY <1>4, CloneInv, CopyPluginStatesInv, SerializeInv, FinishInv, FailInv
<1>5. CASE Quit \/ Crash \/ Open
  BY <1>5, EndInv, OpenInv DEF Quit, Crash
<1>6. CASE UNCHANGED vars
  BY <1>6 DEF vars, IInv, CountsInv, DirsInv, SaverInv, WrittenInv, HasDir, BackupsWhole
<1>. QED
  BY <1>1, <1>2, <1>3, <1>4, <1>5, <1>6 DEF Next, SaveStep

-----------------------------------------------------------------------------
(* The inductive invariant of editing, saving and opening a project.       *)
THEOREM Invariance == Spec => []IInv
<1>1. Init => IInv
  BY InitInv
<1>2. IInv /\ [Next]_vars => IInv'
  BY NextInv
<1>. QED
  BY <1>1, <1>2, PTL DEF Spec

(* Every variable keeps its type, the pool of the open project holds every *)
(* clip its regions and its undo history use, and no two clips of a pool,  *)
(* in memory or on disk, share a name.                                     *)
THEOREM TypeCorrect == Spec => []TypeOK
<1>1. IInv => TypeOK
  <2>. SUFFICES ASSUME IInv PROVE TypeOK
    OBVIOUS
  <2>1. \A p \in {mem.pool, main.pool} \cup {backups[i].pool : i \in DOMAIN backups} :
          WellNamed(p)
    BY DEF IInv, Sound, DirsInv, SoundDir
  <2>2. main \in Dirs /\ backups \in Seq(Dirs) /\ mem \in Projects /\ InUse(mem) \subseteq mem.pool
    BY DEF IInv, Sound, DirsInv, SoundDir
  <2>. QED
    BY <2>1, <2>2 DEF IInv, CountsInv, TypeOK
<1>. QED
  BY <1>1, Invariance, PTL

(* A backup that has a project file holds every clip the file uses,        *)
(* whatever step of the save failed and wherever the process was killed.   *)
THEOREM BackupsAreWhole == Spec => []BackupsWhole
<1>1. IInv => BackupsWhole
  BY DEF IInv
<1>. QED
  BY <1>1, Invariance, PTL

(* No step of a backup changes the project's own directory or an earlier   *)
(* backup.                                                                 *)
THEOREM BackupsLeaveTheRest == Spec => BackupsTouchNothingElse
<1>. DEFINE Rest == main' = main /\ \A i \in DOMAIN backups : i < Len(backups') =>
                                      backups'[i] = backups[i]
<1>1. IInv /\ [Next]_vars => [saver.backup => Rest]_vars
  <2>. SUFFICES ASSUME IInv, Next, saver.backup PROVE Rest
    BY DEF vars
  <2>1. \/ saver.at \notin {"idle", "down", "perform"} /\ HasDir
        \/ saver.at \in {"wait", "project_dir", "backup_dir"}
    BY DEF IInv, SaverInv, HasDir
  <2>2. /\ backups \in Seq(Dirs) /\ Len(backups) \in Nat /\ DOMAIN backups = 1..Len(backups)
        /\ HasDir => backups # << >>
    BY LenProperties DEF IInv, DirsInv, SaverInv
  <2>3. CASE UNCHANGED <<main, backups>>
    BY <2>3
  <2>4. ASSUME NEW d, SaveTo(saver.backup, d), HasDir PROVE Rest
    <3>1. main' = main /\ backups' = [backups EXCEPT ![Len(backups)] = d]
      BY <2>4 DEF SaveTo
    <3>2. Len(backups') = Len(backups)
      BY <2>2, <3>1, LenProperties
    <3>. QED
      BY <2>2, <3>1, <3>2
  <2>5. CASE MakeBackupDir
    <3>1. backups' = Append(backups, EmptyDir) /\ main' = main
      BY <2>5 DEF MakeBackupDir
    <3>. QED
      BY <2>2, <3>1
  <2>6. CASE RemoveUnused \/ WriteClip \/ Serialize \/ Finish
    <3>1. HasDir
      BY <2>6 DEF HasDir, RemoveUnused, Remove, WriteClip, Serialize, SerializeWith, Finish
    <3>2. (\E d : SaveTo(saver.backup, d)) \/ UNCHANGED <<main, backups>>
      BY <2>6 DEF RemoveUnused, Remove, WriteClip, Serialize, SerializeWith, Finish
    <3>. QED
      BY <2>3, <2>4, <3>1, <3>2
  <2>7. CASE \/ WaitActionSem \/ MakeProjectDir \/ MakeDirs \/ Clone \/ CopyPluginStates \/ Fail
            \/ Crash
    BY <2>3, <2>7 DEF WaitActionSem, MakeProjectDir, MakeDirs, Clone, CloneProject, CopyPluginStates, Fail, Crash, End
  <2>8. CASE Edit \/ Import \/ Undo \/ Redo \/ Blocked \/ Save \/ Autosave \/ Quit \/ Open
    BY <2>1, <2>8 DEF Edit, Import, Perform, PerformAt, Undo, Redo, CanEdit, Blocked, Save, Autosave, Begin, Quit, Open
  <2>. QED
    BY <2>5, <2>6, <2>7, <2>8 DEF Next, SaveStep
<1>. QED
  BY <1>1, Invariance, PTL DEF Spec, BackupsTouchNothingElse

---------------------------------------------------------------------------
(***************************************************************************)
(* The question whether there are unsaved changes compares the addresses of*)
(* the last action and of the last action saved.  When they are the same,  *)
(* and the action saved last was not freed since, the project on disk opens*)
(* to the document in memory, however the user edited, undid, redid, saved *)
(* and opened backups in between, whatever failed or was killed.           *)
(***************************************************************************)
(* All the actions of a project in the order in which they were performed: *)
(* undoing and redoing move along it.                                      *)
Joined(u, r, n, m) == [j \in 1..(n + m) |-> IF j <= n THEN u[j] ELSE r[n + m + 1 - j]]
History(p) == Joined(p.undo, p.redo, Len(p.undo), Len(p.redo))
Distinct(p) ==
  \A i, j \in DOMAIN History(p) : History(p)[i].addr = History(p)[j].addr => i = j

DistinctInv ==
  /\ Distinct(mem) /\ Distinct(saver.clone) /\ Distinct(main.file.project)
  /\ \A i \in DOMAIN backups : Distinct(backups[i].file.project)

(* The pool on disk has the sounds of the clips in memory: reading them    *)
(* again would change nothing.                                             *)
OnDisk(c) == c \in main.pool \/ (c.data = Silence /\ c.name \notin Names(main.pool))
PoolInv == \A c \in InUse(mem) : OnDisk(c)

(* Where the last action of p is k, or would be after undoing and redoing, *)
(* its document has the clips `names', and there is such a place.          *)
Upto(p, j) == p.base \cup UNION {History(p)[i].clips : i \in 1..j}
AddrAt(p, j) == IF j = 0 THEN NoAction ELSE History(p)[j].addr
Holds(p, k) == k = NoAction \/ \E j \in DOMAIN History(p) : History(p)[j].addr = k
Matches(p, k, names) ==
  /\ Holds(p, k)
  /\ \A j \in {0} \cup DOMAIN History(p) : AddrAt(p, j) = k => Names(Upto(p, j)) = names

(* Between the writing of the project's file and the end of the save.      *)
Serialized == saver.at = "finish" /\ ~saver.backup
SourceInv ==
  source # Nowhere /\ saver.at # "down" /\ ~Serialized =>
    /\ Dir(source).finished
    /\ ~forgotten => Matches(mem, last_saved_action,
                             Names(Document(Dir(source).file.project)))

CopyInv ==
  /\ main.finished
  /\ saver.at = "serialize" /\ ~saver.backup => saver.clone = mem
  /\ Serialized /\ ~saver.has_error => main.file.project = mem
  /\ saver.at = "states" => saver.backup
  /\ HasDir => source = Nowhere \/ source # Len(backups)

ChangesInv == DistinctInv /\ PoolInv /\ SourceInv /\ CopyInv

-----------------------------------------------------------------------------
(* Histories.                                                              *)
(* An action that goes from one stack to the other stays where it is.      *)
Shift(u, r, v, s, n, m) == /\ n \in Nat \ {0} /\ m \in Nat
                           /\ \A j \in 1..(n - 1) : v[j] = u[j]
                           /\ \A j \in 1..m : s[j] = r[j]
                           /\ s[m + 1] = u[n]
LEMMA Shifted ==
  ASSUME NEW n, NEW m, NEW u, NEW r, NEW v, NEW s, Shift(u, r, v, s, n, m)
  PROVE  Joined(u, r, n, m) = Joined(v, s, n - 1, m + 1)
<1>. USE DEF Shift
<1>1. n - 1 + (m + 1) = n + m
  OBVIOUS
<1>2. ASSUME NEW j \in 1..(n + m)
      PROVE  (IF j <= n - 1 THEN v[j] ELSE s[n + m + 1 - j])
               = (IF j <= n THEN u[j] ELSE r[n + m + 1 - j])
  <2>1. CASE j <= n - 1
    <3>1. j \in 1..(n - 1) /\ j <= n
      BY <2>1
    <3>. QED
      BY <2>1, <3>1
  <2>2. CASE j = n
    <3>1. n + m + 1 - j = m + 1 /\ ~(j <= n - 1) /\ j <= n
      BY <2>2
    <3>. QED
      BY <2>2, <3>1
  <2>3. CASE j > n
    <3>1. n + m + 1 - j \in 1..m /\ ~(j <= n) /\ ~(j <= n - 1)
      BY <2>3
    <3>. QED
      BY <3>1
  <2>4. j <= n - 1 \/ j = n \/ j > n
    OBVIOUS
  <2>. QED
    BY <2>1, <2>2, <2>3, <2>4
<1>. QED
  BY <1>1, <1>2 DEF Joined

LEMMA HistoryType ==
  ASSUME NEW p \in Projects
  PROVE  LET n == Len(p.undo)
             m == Len(p.redo)
         IN /\ n \in Nat /\ m \in Nat /\ DOMAIN History(p) = 1..(n + m)
            /\ \A j \in 1..n : j \in DOMAIN History(p) /\ History(p)[j] = p.undo[j]
            /\ \A j \in DOMAIN History(p) : History(p)[j] \in Actions /\ History(p)[j].addr \in Addrs
<1>1. p.undo \in Seq(Actions) /\ p.redo \in Seq(Actions)
  BY DEF Projects
<1>2. Len(p.undo) \in Nat /\ Len(p.redo) \in Nat
  BY <1>1, LenProperties
<1>3. PICK n \in Nat, m \in Nat : n = Len(p.undo) /\ m = Len(p.redo)
  BY <1>2
<1>4. History(p) = [j \in 1..(n + m) |-> IF j <= n THEN p.undo[j] ELSE p.redo[n + m + 1 - j]]
  BY <1>3 DEF History, Joined
<1>5. (\A j \in 1..n : p.undo[j] \in Actions) /\ (\A j \in 1..m : p.redo[j] \in Actions)
  BY <1>1, <1>3, ElementOfSeq
<1>6. ASSUME NEW j \in 1..n
      PROVE  j \in 1..(n + m) /\ j <= n
  OBVIOUS
<1>7. ASSUME NEW j \in 1..(n + m), ~(j <= n)
      PROVE  n + m + 1 - j \in 1..m
  BY <1>7
<1>8. \A j \in 1..n : History(p)[j] = p.undo[j]
  BY <1>4, <1>6
<1>9. \A j \in 1..(n + m) : History(p)[j] \in Actions
  <2>1. SUFFICES ASSUME NEW j \in 1..(n + m) PROVE History(p)[j] \in Actions
    OBVIOUS
  <2>2. CASE j <= n
    <3>1. j \in 1..n
      BY <2>2
    <3>. QED
      BY <1>5, <1>8, <3>1
  <2>3. CASE ~(j <= n)
    BY <1>4, <1>5, <1>7, <2>3
  <2>. QED
    BY <2>2, <2>3
<1>10. \A a \in Actions : a.addr \in Addrs
  BY DEF Actions
<1>11. DOMAIN History(p) = 1..(n + m)
  BY <1>4
<1>. QED
  BY <1>3, <1>6, <1>8, <1>9, <1>10, <1>11

LEMMA LastOfHistory ==
  ASSUME NEW p \in Projects
  PROVE  /\ p.undo = << >> => LastAction(p) = NoAction /\ Len(p.undo) = 0
         /\ p.undo # << >> => /\ Len(p.undo) \in DOMAIN History(p)
                              /\ LastAction(p) = History(p)[Len(p.undo)].addr
                              /\ LastAction(p) # NoAction
<1>1. CASE p.undo = << >>
  BY <1>1, EmptySeq DEF LastAction
<1>2. CASE p.undo # << >>
  <2>1. PICK n \in Nat, m \in Nat : n = Len(p.undo) /\ m = Len(p.redo)
    BY HistoryType
  <2>2. n # 0
    BY <1>2, <2>1, EmptySeq DEF Projects
  <2>3. n \in 1..(n + m) /\ n \in 1..n
    BY <2>2
  <2>4. History(p)[n] = p.undo[n] /\ History(p)[n].addr \in Addrs /\ DOMAIN History(p) = 1..(n + m)
    BY <2>1, <2>3, HistoryType
  <2>5. History(p)[n].addr # NoAction
    BY <2>4, AddrsAssumption
  <2>. QED
    BY <1>2, <2>1, <2>3, <2>4, <2>5 DEF LastAction
<1>. QED
  BY <1>1, <1>2

(* The history depends on the stacks only.                                 *)
LEMMA SameStacks ==
  ASSUME NEW p, NEW q, p.undo = q.undo, p.redo = q.redo
  PROVE  History(p) = History(q) /\ LastAction(p) = LastAction(q)
BY DEF History, LastAction

(* What it takes to move the last of u to the end of r.                    *)
LEMMA Moving ==
  ASSUME NEW u \in Seq(Actions), NEW r \in Seq(Actions), u # << >>
  PROVE  LET v == SubSeq(u, 1, Len(u) - 1)
             s == Append(r, u[Len(u)])
         IN /\ Len(u) \in Nat \ {0} /\ Len(r) \in Nat
            /\ Len(v) = Len(u) - 1 /\ Len(s) = Len(r) + 1
            /\ \A j \in 1..(Len(u) - 1) : v[j] = u[j]
            /\ \A j \in 1..Len(r) : s[j] = r[j]
            /\ s[Len(r) + 1] = u[Len(u)]
<1>1. Len(u) \in Nat \ {0} /\ Len(r) \in Nat
  BY LenProperties, EmptySeq
<1>2. PICK n \in Nat \ {0} : n = Len(u)
  BY <1>1
<1>3. u[n] \in Actions
  <2>1. n \in 1..n
    OBVIOUS
  <2>. QED
    BY <1>2, <2>1, ElementOfSeq
<1>4. /\ Len(Append(r, u[n])) = Len(r) + 1 /\ Append(r, u[n])[Len(r) + 1] = u[n]
      /\ \A j \in 1..Len(r) : Append(r, u[n])[j] = r[j]
  BY <1>3, AppendProperties
<1>5. Len(SubSeq(u, 1, n - 1)) = n - 1 /\ \A j \in 1..(n - 1) : SubSeq(u, 1, n - 1)[j] = u[j]
  BY <1>1, <1>2, SubSeqProperties
<1>. QED
  BY <1>1, <1>2, <1>4, <1>5

LEMMA UndoneHistory ==
  ASSUME NEW p \in Projects, NEW q, p.undo # << >>,
         q.undo = SubSeq(p.undo, 1, Len(p.undo) - 1),
         q.redo = Append(p.redo, p.undo[Len(p.undo)])
  PROVE  History(q) = History(p)
<1>1. p.undo \in Seq(Actions) /\ p.redo \in Seq(Actions)
  BY DEF Projects
<1>2. /\ Len(p.undo) \in Nat \ {0} /\ Len(p.redo) \in Nat
      /\ Len(q.undo) = Len(p.undo) - 1 /\ Len(q.redo) = Len(p.redo) + 1
      /\ \A j \in 1..(Len(p.undo) - 1) : q.undo[j] = p.undo[j]
      /\ \A j \in 1..Len(p.redo) : q.redo[j] = p.redo[j]
      /\ q.redo[Len(p.redo) + 1] = p.undo[Len(p.undo)]
  BY <1>1, Moving
<1>. HIDE DEF Projects
<1>3. PICK n \in Nat \ {0}, m \in Nat : n = Len(p.undo) /\ m = Len(p.redo)
  BY <1>2, Zenon
<1>4. /\ History(p) = Joined(p.undo, p.redo, n, m)
      /\ History(q) = Joined(q.undo, q.redo, n - 1, m + 1)
  BY <1>2, <1>3, Zenon DEF History
<1>5. Shift(p.undo, p.redo, q.undo, q.redo, n, m)
  BY <1>2, <1>3 DEF Shift
<1>6. Joined(p.undo, p.redo, n, m) = Joined(q.undo, q.redo, n - 1, m + 1)
  BY <1>5, Shifted
<1>. QED
  BY <1>4, <1>6, Zenon

LEMMA RedoneHistory ==
  ASSUME NEW p \in Projects, NEW q, p.redo # << >>,
         q.undo = Append(p.undo, p.redo[Len(p.redo)]),
         q.redo = SubSeq(p.redo, 1, Len(p.redo) - 1)
  PROVE  History(q) = History(p)
<1>1. p.undo \in Seq(Actions) /\ p.redo \in Seq(Actions)
  BY DEF Projects
<1>2. /\ Len(p.redo) \in Nat \ {0} /\ Len(p.undo) \in Nat
      /\ Len(q.redo) = Len(p.redo) - 1 /\ Len(q.undo) = Len(p.undo) + 1
      /\ \A j \in 1..(Len(p.redo) - 1) : q.redo[j] = p.redo[j]
      /\ \A j \in 1..Len(p.undo) : q.undo[j] = p.undo[j]
      /\ q.undo[Len(p.undo) + 1] = p.redo[Len(p.redo)]
  BY <1>1, Moving
<1>3. PICK n \in Nat \ {0}, m \in Nat : n = Len(p.undo) + 1 /\ m = Len(p.redo) - 1
  <2>1. \A i \in Nat, k \in Nat \ {0} : i + 1 \in Nat \ {0} /\ k - 1 \in Nat
    OBVIOUS
  <2>. QED
    BY <1>2, <2>1, Zenon
<1>4. /\ Len(q.undo) = n /\ Len(q.redo) = m /\ Len(p.undo) = n - 1 /\ Len(p.redo) = m + 1
  BY <1>2, <1>3
<1>5. /\ History(q) = Joined(q.undo, q.redo, n, m)
      /\ History(p) = Joined(p.undo, p.redo, n - 1, m + 1)
  BY <1>4, Zenon DEF History
<1>6. Shift(q.undo, q.redo, p.undo, p.redo, n, m)
  BY <1>2, <1>3, <1>4 DEF Shift
<1>7. Joined(q.undo, q.redo, n, m) = Joined(p.undo, p.redo, n - 1, m + 1)
  BY <1>6, Shifted
<1>. QED
  BY <1>5, <1>7, Zenon

(* An action that is performed follows those that were not undone.         *)
LEMMA PerformedHistory ==
  ASSUME NEW p \in Projects, NEW q, NEW a \in Actions,
         q.undo = Append(p.undo, a), q.redo = << >>
  PROVE  /\ DOMAIN History(q) = 1..(Len(p.undo) + 1) /\ Len(p.undo) \in Nat
         /\ History(q)[Len(p.undo) + 1] = a
         /\ \A j \in 1..Len(p.undo) : j \in DOMAIN History(p) /\ History(q)[j] = History(p)[j]
<1>1. p.undo \in Seq(Actions)
  BY DEF Projects
<1>2. PICK n \in Nat, m \in Nat : n = Len(p.undo) /\ m = Len(p.redo)
  BY HistoryType
<1>3. Len(q.undo) = n + 1 /\ q.undo[n + 1] = a /\ \A j \in 1..n : q.undo[j] = p.undo[j]
  BY <1>1, <1>2, AppendProperties
<1>4. Len(q.redo) = 0
  BY EmptySeq
<1>5. n + 1 + 0 = n + 1 /\ n + 1 \in 1..(n + 1)
  BY SMT
<1>6. /\ DOMAIN History(q) = 1..(n + 1 + 0)
      /\ \A j \in 1..(n + 1 + 0) : j <= n + 1 => History(q)[j] = q.undo[j]
  <2>1. History(q) = Joined(q.undo, q.redo, n + 1, 0)
    BY <1>3, <1>4, Zenon DEF History
  <2>. QED
    BY <2>1 DEF Joined
<1>7. \A j \in 1..n : j \in 1..(n + 1) /\ j <= n + 1 /\ j \in 1..(n + m)
  BY SMT
<1>8. \A j \in 1..n : j \in DOMAIN History(p) /\ History(p)[j] = p.undo[j]
  BY <1>2, <1>7, HistoryType
<1>. QED
  BY <1>2, <1>3, <1>5, <1>6, <1>7, <1>8

-----------------------------------------------------------------------------
(* Addresses of actions.                                                   *)
LEMMA DistinctEmpty ==
  ASSUME NEW p, p.undo = << >>, p.redo = << >>
  PROVE  Distinct(p) /\ DOMAIN History(p) = {}
<1>1. Len(p.undo) = 0 /\ Len(p.redo) = 0
  BY EmptySeq
<1>2. History(p) = Joined(p.undo, p.redo, 0, 0)
  BY <1>1 DEF History
<1>3. DOMAIN History(p) = {}
  BY <1>2 DEF Joined
<1>. QED
  BY <1>3 DEF Distinct

(* Every address of the history is one of the undo or of the redo stack's. *)
LEMMA HistoryAddrs ==
  ASSUME NEW p \in Projects, NEW j \in DOMAIN History(p)
  PROVE  /\ j \in 1..Len(p.undo) => History(p)[j].addr \in AddrsOf(p.undo)
         /\ j \notin 1..Len(p.undo) => History(p)[j].addr \in AddrsOf(p.redo)
<1>1. PICK n \in Nat, m \in Nat : n = Len(p.undo) /\ m = Len(p.redo)
  BY HistoryType
<1>2. DOMAIN p.undo = 1..n /\ DOMAIN p.redo = 1..m
  BY <1>1, LenProperties DEF Projects
<1>3. History(p) = [i \in 1..(n + m) |-> IF i <= n THEN p.undo[i] ELSE p.redo[n + m + 1 - i]]
  BY <1>1 DEF History, Joined
<1>4. CASE j \in 1..n
  <2>1. j \in 1..(n + m) /\ j <= n
    BY <1>4
  <2>2. History(p)[j] = p.undo[j]
    BY <1>3, <2>1
  <2>. QED
    BY <1>1, <1>2, <1>4, <2>2 DEF AddrsOf
<1>5. CASE j \notin 1..n
  <2>1. j \in 1..(n + m) /\ ~(j <= n) /\ n + m + 1 - j \in 1..m
    <3>1. j \in 1..(n + m)
      BY <1>3
    <3>. QED
      BY <1>5, <3>1
  <2>2. History(p)[j] = p.redo[n + m + 1 - j]
    BY <1>3, <2>1
  <2>. QED
    BY <1>1, <1>2, <1>5, <2>1, <2>2 DEF AddrsOf
<1>. QED
  BY <1>1, <1>4, <1>5

LEMMA DistinctPushed ==
  ASSUME NEW p \in Projects, NEW q, NEW a \in Actions, Distinct(p),
         a.addr \notin AddrsOf(p.undo), q.undo = Append(p.undo, a), q.redo = << >>
  PROVE  Distinct(q)
<1>1. /\ DOMAIN History(q) = 1..(Len(p.undo) + 1) /\ Len(p.undo) \in Nat
      /\ History(q)[Len(p.undo) + 1] = a
      /\ \A j \in 1..Len(p.undo) : j \in DOMAIN History(p) /\ History(q)[j] = History(p)[j]
  BY PerformedHistory
<1>2. PICK l \in Nat : l = Len(p.undo)
  BY <1>1
<1>3. \A j \in 1..(l + 1) : j \in 1..l \/ j = l + 1
  BY SMT
<1>4. \A j \in 1..l : /\ History(q)[j].addr # a.addr
                      /\ History(q)[j] = History(p)[j] /\ j \in DOMAIN History(p)
  BY <1>1, <1>2, HistoryAddrs
<1>5. ASSUME NEW i \in 1..(l + 1), NEW j \in 1..(l + 1), History(q)[i].addr = History(q)[j].addr
      PROVE  i = j
  <2>1. CASE i \in 1..l /\ j \in 1..l
    BY <1>4, <1>5, <2>1 DEF Distinct
  <2>2. CASE i = l + 1 \/ j = l + 1
    BY <1>1, <1>2, <1>3, <1>4, <1>5, <2>2
  <2>. QED
    BY <1>3, <2>1, <2>2
<1>. QED
  BY <1>1, <1>2, <1>5 DEF Distinct

(* What an eviction does to the history: it loses its first action.        *)
LEMMA EvictedHistory ==
  ASSUME NEW p \in Projects, NEW q, p.undo # << >>,
         q.undo = Tail(p.undo), q.redo = p.redo
  PROVE  \E l \in Nat : /\ DOMAIN History(p) = 1..(l + 1) /\ DOMAIN History(q) = 1..l
                        /\ \A j \in 1..l : History(q)[j] = History(p)[j + 1]
                        /\ History(p)[1] = p.undo[1]
<1>1. PICK n \in Nat, m \in Nat : n + 1 = Len(p.undo) /\ m = Len(p.redo)
  <2>1. Len(p.undo) \in Nat \ {0} /\ Len(p.redo) \in Nat
    BY EmptySeq, LenProperties DEF Projects
  <2>2. \A k \in Nat \ {0} : k - 1 \in Nat /\ (k - 1) + 1 = k
    OBVIOUS
  <2>. QED
    BY <2>1, <2>2
<1>2. Len(q.undo) = n /\ \A j \in 1..n : q.undo[j] = p.undo[j + 1]
  <2>1. Len(Tail(p.undo)) = Len(p.undo) - 1
    BY HeadTailProperties DEF Projects
  <2>2. Len(q.undo) = n
    BY <1>1, <2>1
  <2>3. \A j \in 1..Len(Tail(p.undo)) : Tail(p.undo)[j] = p.undo[j + 1]
    BY HeadTailProperties DEF Projects
  <2>. QED
    BY <2>2, <2>3
<1>3. /\ History(p) = [j \in 1..(n + 1 + m) |-> IF j <= n + 1 THEN p.undo[j]
                                                ELSE p.redo[n + 1 + m + 1 - j]]
      /\ History(q) = [j \in 1..(n + m) |-> IF j <= n THEN q.undo[j]
                                            ELSE p.redo[n + m + 1 - j]]
  BY <1>1, <1>2 DEF History, Joined
<1>4. n + m \in Nat /\ n + 1 + m = n + m + 1 /\ 1 \in 1..(n + m + 1) /\ 1 <= n + 1
  OBVIOUS
<1>5. ASSUME NEW j \in 1..(n + m)
      PROVE  History(q)[j] = History(p)[j + 1]
  <2>1. /\ j + 1 \in 1..(n + 1 + m) /\ (j <= n <=> j + 1 <= n + 1)
        /\ n + 1 + m + 1 - (j + 1) = n + m + 1 - j
    OBVIOUS
  <2>2. CASE j <= n
    <3>1. j \in 1..n
      BY <2>2
    <3>. QED
      BY <1>2, <1>3, <2>1, <2>2, <3>1
  <2>3. CASE ~(j <= n)
    BY <1>3, <2>1, <2>3
  <2>. QED
    BY <2>2, <2>3
<1>6. DOMAIN History(p) = 1..(n + m + 1) /\ DOMAIN History(q) = 1..(n + m)
  BY <1>3, <1>4
<1>7. History(p)[1] = p.undo[1]
  BY <1>3, <1>4
<1>. QED
  BY <1>4, <1>5, <1>6, <1>7

LEMMA DistinctEvicted ==
  ASSUME NEW p \in Projects, NEW q, p.undo # << >>, q.undo = Tail(p.undo), q.redo = p.redo,
         Distinct(p)
  PROVE  Distinct(q)
<1>1. PICK l \in Nat : /\ DOMAIN History(p) = 1..(l + 1) /\ DOMAIN History(q) = 1..l
                       /\ \A j \in 1..l : History(q)[j] = History(p)[j + 1]
  BY EvictedHistory
<1>2. \A j \in 1..l : j + 1 \in 1..(l + 1)
  OBVIOUS
<1>3. \A i, j \in 1..l : i + 1 = j + 1 => i = j
  OBVIOUS
<1>4. ASSUME NEW i \in 1..l, NEW j \in 1..l, History(q)[i].addr = History(q)[j].addr
      PROVE  i = j
  <2>1. i + 1 \in DOMAIN History(p) /\ j + 1 \in DOMAIN History(p)
    BY <1>1, <1>2
  <2>2. History(p)[i + 1].addr = History(p)[j + 1].addr
    BY <1>1, <1>4
  <2>3. i + 1 = j + 1
    BY <2>1, <2>2 DEF Distinct
  <2>. QED
    BY <1>3, <2>3
<1>. QED
  BY <1>1, <1>4 DEF Distinct

-----------------------------------------------------------------------------
(* Where the document is the one that was saved.                           *)
LEMMA MatchesStacks ==
  ASSUME NEW p, NEW q, History(q) = History(p), q.base = p.base, NEW k, NEW names,
         Matches(p, k, names)
  PROVE  Matches(q, k, names)
BY DEF Matches, Holds, AddrAt, Upto

(* The place after the last action that was performed is the document's.   *)
LEMMA UptoLast ==
  ASSUME NEW p \in Projects
  PROVE  /\ Len(p.undo) \in {0} \cup DOMAIN History(p)
         /\ AddrAt(p, Len(p.undo)) = LastAction(p)
         /\ Upto(p, Len(p.undo)) = Document(p)
<1>1. PICK n \in Nat : n = Len(p.undo)
  BY HistoryType
<1>2. DOMAIN p.undo = 1..n /\ \A i \in 1..n : History(p)[i] = p.undo[i]
  BY <1>1, HistoryType, LenProperties DEF Projects
<1>3. Upto(p, n) = Document(p)
  BY <1>2 DEF Upto, Document, ClipsOf
<1>4. CASE p.undo = << >>
  <2>1. Len(p.undo) = 0 /\ LastAction(p) = NoAction
    BY <1>4, LastOfHistory
  <2>. QED
    BY <1>1, <1>3, <2>1 DEF AddrAt
<1>5. CASE p.undo # << >>
  <2>1. Len(p.undo) # 0
    BY <1>5, EmptySeq DEF Projects
  <2>2. /\ Len(p.undo) \in DOMAIN History(p)
        /\ LastAction(p) = History(p)[Len(p.undo)].addr
    BY <1>5, LastOfHistory
  <2>. QED
    BY <1>1, <1>3, <2>1, <2>2 DEF AddrAt
<1>. QED
  BY <1>4, <1>5

(* A project matches itself.                                               *)
LEMMA MatchesSelf ==
  ASSUME NEW p \in Projects, Distinct(p)
  PROVE  Matches(p, LastAction(p), Names(Document(p)))
<1>1. /\ Len(p.undo) \in {0} \cup DOMAIN History(p)
      /\ AddrAt(p, Len(p.undo)) = LastAction(p)
      /\ Upto(p, Len(p.undo)) = Document(p)
  BY UptoLast
<1>2. \A j \in DOMAIN History(p) : j # 0 /\ History(p)[j].addr # NoAction
  <2>1. \A j \in DOMAIN History(p) : History(p)[j].addr \in Addrs
    BY HistoryType
  <2>2. 0 \notin DOMAIN History(p)
    BY HistoryType
  <2>. QED
    BY <2>1, <2>2, AddrsAssumption
<1>3. Holds(p, LastAction(p))
  BY <1>1 DEF Holds, AddrAt
<1>4. ASSUME NEW j \in {0} \cup DOMAIN History(p), AddrAt(p, j) = LastAction(p)
      PROVE  j = Len(p.undo)
  BY <1>1, <1>2, <1>4 DEF AddrAt, Distinct
<1>. QED
  BY <1>1, <1>3, <1>4 DEF Matches

(* Performing an action keeps the place, unless it is among those that were*)
(* undone, which are freed.                                                *)
LEMMA MatchesPushed ==
  ASSUME NEW p \in Projects, NEW q, NEW a \in Actions, q.undo = Append(p.undo, a),
         q.redo = << >>, q.base = p.base, NEW k, NEW names, Matches(p, k, names),
         a.addr \notin AddrsOf(p.undo), k \notin AddrsOf(p.redo)
  PROVE  Matches(q, k, names)
<1>1. /\ DOMAIN History(q) = 1..(Len(p.undo) + 1) /\ Len(p.undo) \in Nat
      /\ History(q)[Len(p.undo) + 1] = a
      /\ \A j \in 1..Len(p.undo) : j \in DOMAIN History(p) /\ History(q)[j] = History(p)[j]
  BY PerformedHistory
<1>2. PICK l \in Nat : l = Len(p.undo)
  BY <1>1
<1>3. k = NoAction \/ \E j \in 1..l : History(p)[j].addr = k
  BY <1>2, HistoryAddrs DEF Matches, Holds
<1>4. /\ \A j \in 1..(l + 1) : j \in 1..l \/ j = l + 1
      /\ \A j \in 1..l : j \in 1..(l + 1) /\ j # 0 /\ \A i \in 1..j : i \in 1..l
      /\ l + 1 # 0
  BY SMT
<1>5. Holds(q, k)
  BY <1>1, <1>2, <1>3, <1>4 DEF Holds
<1>6. a.addr # k
  <2>1. \A j \in 1..l : History(p)[j].addr \in AddrsOf(p.undo)
    BY <1>1, <1>2, HistoryAddrs
  <2>2. a.addr # NoAction
    BY AddrsAssumption DEF Actions
  <2>. QED
    BY <1>3, <2>1, <2>2
<1>7. \A j \in {0} \cup 1..l : Upto(q, j) = Upto(p, j) /\ AddrAt(q, j) = AddrAt(p, j)
  <2>1. SUFFICES ASSUME NEW j \in {0} \cup 1..l
                 PROVE  Upto(q, j) = Upto(p, j) /\ AddrAt(q, j) = AddrAt(p, j)
    OBVIOUS
  <2>2. \A i \in 1..j : i \in 1..l
    BY <1>4
  <2>3. {History(q)[i].clips : i \in 1..j} = {History(p)[i].clips : i \in 1..j}
    BY <1>1, <1>2, <2>2
  <2>. QED
    BY <1>1, <1>2, <2>1, <2>3 DEF Upto, AddrAt
<1>8. AddrAt(q, l + 1) = a.addr
  BY <1>1, <1>2, <1>4 DEF AddrAt
<1>9. \A j \in {0} \cup 1..l : j \in {0} \cup DOMAIN History(p)
  BY <1>1, <1>2
<1>. QED
  BY <1>1, <1>2, <1>4, <1>5, <1>6, <1>7, <1>8, <1>9 DEF Matches

(* So does evicting the oldest action, unless the place is after it, or    *)
(* before it.                                                              *)
LEMMA MatchesEvicted ==
  ASSUME NEW p \in Projects, NEW q, p.undo # << >>, q.undo = Tail(p.undo), q.redo = p.redo,
         q.base = p.base \cup p.undo[1].clips, NEW k, NEW names, Matches(p, k, names),
         k \notin {p.undo[1].addr, NoAction}
  PROVE  Matches(q, k, names)
<1>1. PICK l \in Nat : /\ DOMAIN History(p) = 1..(l + 1) /\ DOMAIN History(q) = 1..l
                       /\ \A j \in 1..l : History(q)[j] = History(p)[j + 1]
                       /\ History(p)[1] = p.undo[1]
  BY EvictedHistory
<1>2. /\ \A j \in 1..(l + 1) : j = 1 \/ \E i \in 1..l : j = i + 1
      /\ \A j \in 1..l : j + 1 \in 1..(l + 1) /\ j # 0 /\ j + 1 # 0
  <2>1. \A j \in 1..(l + 1) : j # 1 => j - 1 \in 1..l /\ j = (j - 1) + 1
    OBVIOUS
  <2>2. \A j \in 1..l : j + 1 \in 1..(l + 1) /\ j # 0 /\ j + 1 # 0
    OBVIOUS
  <2>. QED
    BY <2>1, <2>2, Zenon
<1>3. Holds(q, k)
  <2>1. PICK j \in 1..(l + 1) : History(p)[j].addr = k
    BY <1>1 DEF Matches, Holds
  <2>2. j # 1
    BY <1>1, <2>1
  <2>3. PICK i \in 1..l : j = i + 1
    BY <1>2, <2>2
  <2>4. i \in DOMAIN History(q) /\ History(q)[i].addr = k
    BY <1>1, <2>1, <2>3
  <2>. QED
    BY <2>4 DEF Holds
<1>4. ASSUME NEW j \in 1..l
      PROVE  Upto(q, j) = Upto(p, j + 1)
  <2>1. /\ \A i \in 1..(j + 1) : i = 1 \/ \E h \in 1..j : i = h + 1
        /\ \A i \in 1..j : i + 1 \in 1..(j + 1) /\ i \in 1..l
        /\ 1 \in 1..(j + 1)
    <3>1. \A i \in 1..(j + 1) : i # 1 => i - 1 \in 1..j /\ i = (i - 1) + 1
      OBVIOUS
    <3>2. (\A i \in 1..j : i + 1 \in 1..(j + 1) /\ i \in 1..l) /\ 1 \in 1..(j + 1)
      OBVIOUS
    <3>. QED
      BY <3>1, <3>2, Zenon
  <2>2. \A i \in 1..j : History(q)[i] = History(p)[i + 1]
    BY <1>1, <2>1
  <2>. DEFINE old == UNION {History(p)[i].clips : i \in 1..(j + 1)}
              new == UNION {History(q)[i].clips : i \in 1..j}
  <2>3. old = p.undo[1].clips \cup new
    <3>1. ASSUME NEW i \in 1..(j + 1), NEW c \in History(p)[i].clips
          PROVE  c \in p.undo[1].clips \cup new
      <4>1. CASE i = 1
        BY <1>1, <3>1, <4>1
      <4>2. ASSUME NEW h \in 1..j, i = h + 1 PROVE c \in new
        <5>1. c \in History(q)[h].clips
          BY <2>2, <3>1, <4>2
        <5>. QED
          BY <5>1
      <4>. QED
        BY <2>1, <4>1, <4>2
    <3>2. ASSUME NEW h \in 1..j PROVE History(q)[h].clips \subseteq old
      BY <2>1, <2>2
    <3>3. p.undo[1].clips \subseteq old
      BY <1>1, <2>1
    <3>. QED
      BY <3>1, <3>2, <3>3
  <2>. QED
    BY <2>3 DEF Upto
<1>5. ASSUME NEW j \in 1..l
      PROVE  AddrAt(q, j) = AddrAt(p, j + 1) /\ j + 1 \in DOMAIN History(p)
  BY <1>1, <1>2 DEF AddrAt
<1>6. AddrAt(q, 0) # k
  BY DEF AddrAt
<1>7. \A j \in {0} \cup DOMAIN History(q) : AddrAt(q, j) = k => Names(Upto(q, j)) = names
  BY <1>1, <1>4, <1>5, <1>6 DEF Matches
<1>. QED
  BY <1>3, <1>7 DEF Matches

(* So does reading a project from a file, which keeps addresses and names. *)
LEMMA MatchesNames ==
  ASSUME NEW p, NEW q, Names(q.base) = Names(p.base), DOMAIN History(q) = DOMAIN History(p),
         p \in Projects,
         \A j \in DOMAIN History(p) :
           /\ History(q)[j].addr = History(p)[j].addr
           /\ Names(History(q)[j].clips) = Names(History(p)[j].clips),
         NEW k, NEW names, Matches(p, k, names)
  PROVE  Matches(q, k, names)
<1>1. PICK l \in Nat : DOMAIN History(p) = 1..l
  <2>1. /\ Len(p.undo) \in Nat /\ Len(p.redo) \in Nat
        /\ DOMAIN History(p) = 1..(Len(p.undo) + Len(p.redo))
    BY HistoryType
  <2>2. \A m, n \in Nat : m + n \in Nat
    OBVIOUS
  <2>. QED
    BY <2>1, <2>2
<1>2. /\ \A j \in 1..l : \A i \in 1..j : i \in 1..l
      /\ \A i \in 1..0 : FALSE
      /\ \A j \in 1..l : j # 0
  OBVIOUS
<1>3. ASSUME NEW r, NEW j
      PROVE  Names(Upto(r, j))
               = Names(r.base) \cup UNION {Names(History(r)[i].clips) : i \in 1..j}
  BY DEF Upto, Names
<1>4. ASSUME NEW j \in {0} \cup 1..l
      PROVE  Names(Upto(q, j)) = Names(Upto(p, j)) /\ AddrAt(q, j) = AddrAt(p, j)
  <2>1. \A i \in 1..j : i \in 1..l
    BY <1>2
  <2>2. {Names(History(q)[i].clips) : i \in 1..j} = {Names(History(p)[i].clips) : i \in 1..j}
    BY <1>1, <2>1
  <2>3. /\ Names(Upto(q, j)) = Names(q.base) \cup UNION {Names(History(q)[i].clips) : i \in 1..j}
        /\ Names(Upto(p, j)) = Names(p.base) \cup UNION {Names(History(p)[i].clips) : i \in 1..j}
    BY <1>3
  <2>4. Names(Upto(q, j)) = Names(Upto(p, j))
    BY <2>2, <2>3, Zenon
  <2>. QED
    BY <1>1, <2>4 DEF AddrAt
<1>5. Holds(q, k)
  BY DEF Matches, Holds
<1>. QED
  BY <1>1, <1>4, <1>5 DEF Matches

LEMMA SourceInvNext ==
  ASSUME source' # Nowhere /\ saver'.at # "down" /\ ~Serialized' =>
           /\ Dir(source)'.finished
           /\ ~forgotten' => Matches(mem', last_saved_action',
                                     Names(Document(Dir(source)'.file.project)))
  PROVE  SourceInv'
BY DEF SourceInv, Matches, Holds, AddrAt, Upto, History, Joined, Names, Document, ClipsOf, Nowhere

LEMMA DistinctKept ==
  ASSUME DistinctInv, Distinct(mem'), Distinct(saver'.clone),
         main'.file = main.file \/ main'.file.project = saver.clone,
         \A i \in DOMAIN backups' :
           \/ i \in DOMAIN backups /\ backups'[i].file = backups[i].file
           \/ backups'[i].file.project \in {saver.clone, NewProject}
  PROVE  DistinctInv'
<1>1. Distinct(NewProject)
  BY DistinctEmpty DEF NewProject
<1>2. Distinct(main'.file.project)
  BY DEF DistinctInv
<1>3. \A i \in DOMAIN backups' : Distinct(backups'[i].file.project)
  BY <1>1 DEF DistinctInv
<1>. QED
  BY <1>2, <1>3 DEF DistinctInv

LEMMA DistinctNew == Distinct(NewProject)
BY DistinctEmpty DEF NewProject

-----------------------------------------------------------------------------
(* The pool on disk.                                                       *)
LEMMA PoolKept ==
  ASSUME PoolInv, main'.pool = main.pool, InUse(mem') \subseteq InUse(mem)
  PROVE  PoolInv'
BY DEF PoolInv, OnDisk

(* What is written to the pool has no other sound than the clip in memory  *)
(* that has its name.                                                      *)
LEMMA PoolWritten ==
  ASSUME PoolInv, NEW clips, main'.pool = Written(main.pool, clips),
         InUse(mem') \subseteq InUse(mem) \cup clips, WellNamed(InUse(mem) \cup clips)
  PROVE  PoolInv'
<1>1. SUFFICES ASSUME NEW c \in InUse(mem') PROVE OnDisk(c)'
  BY DEF PoolInv
<1>2. CASE c \in clips
  BY <1>2 DEF OnDisk, Written
<1>3. CASE c \notin clips
  <2>1. c \in InUse(mem) /\ OnDisk(c)
    BY <1>1, <1>3 DEF PoolInv
  <2>2. c.name \notin Names(clips)
    BY <1>3, <2>1 DEF WellNamed, Names
  <2>3. CASE c \in main.pool
    BY <2>2, <2>3 DEF OnDisk, Written
  <2>4. CASE c.data = Silence /\ c.name \notin Names(main.pool)
    BY <2>2, <2>4 DEF OnDisk, Written, Names
  <2>. QED
    BY <2>1, <2>3, <2>4 DEF OnDisk
<1>. QED
  BY <1>2, <1>3

(* Opening a project reads what is on disk.                                *)
LEMMA ReadOnDisk ==
  ASSUME main.pool \in SUBSET Clips, WellNamed(main.pool), NEW c \in Clips
  PROVE  /\ OnDisk(c) => Read(c) = c
         /\ OnDisk(Read(c))
<1>1. c = [name |-> c.name, data |-> c.data] /\ Read(c).name = c.name
  BY ReadType DEF Clips
<1>2. CASE c.name \in Names(main.pool)
  <2>1. PICK f \in main.pool : f.name = c.name
    BY <1>2 DEF Names
  <2>2. \A g \in main.pool : g.name = c.name => g = f
    BY <2>1 DEF WellNamed
  <2>3. (CHOOSE g \in main.pool : g.name = c.name) = f
    BY <2>1, <2>2
  <2>4. Read(c) = [c EXCEPT !.data = f.data]
    BY <1>2, <2>3 DEF Read
  <2>5. Read(c) = f
    BY <1>1, <2>1, <2>4 DEF Clips
  <2>6. c \in main.pool => c = f
    BY <2>2
  <2>. QED
    BY <1>2, <2>1, <2>5, <2>6 DEF OnDisk
<1>3. CASE c.name \notin Names(main.pool)
  <2>1. Read(c) = [c EXCEPT !.data = Silence]
    BY <1>3 DEF Read
  <2>2. Read(c) = [name |-> c.name, data |-> Silence]
    BY <1>1, <2>1 DEF Clips
  <2>3. c \notin main.pool
    BY <1>3 DEF Names
  <2>. QED
    BY <1>1, <1>3, <2>2, <2>3 DEF OnDisk
<1>. QED
  BY <1>2, <1>3

-----------------------------------------------------------------------------
(* The project that was saved or opened.                                   *)
LEMMA SourceKept ==
  ASSUME IInv, SourceInv, UNCHANGED <<source, last_saved_action, forgotten>>,
         History(mem') = History(mem), mem'.base = mem.base,
         \/ source = Main /\ main'.file = main.file /\ main'.finished
         \/ source \in DOMAIN backups /\ backups'[source] = backups[source]
         \/ source = Nowhere,
         saver.at # "down", Serialized => Serialized'
  PROVE  SourceInv'
<1>1. SUFFICES ASSUME source # Nowhere, saver'.at # "down", ~Serialized'
               PROVE  /\ Dir(source)'.finished
                      /\ ~forgotten' => Matches(mem', last_saved_action',
                                               Names(Document(Dir(source)'.file.project)))
  BY SourceInvNext
<1>2. /\ Dir(source).finished
      /\ ~forgotten => Matches(mem, last_saved_action,
                               Names(Document(Dir(source).file.project)))
  BY <1>1 DEF SourceInv
<1>3. Dir(source)'.file = Dir(source).file /\ Dir(source)'.finished
  <2>1. CASE source = Main
    <3>1. main'.file = main.file /\ main'.finished
      BY <1>1, <2>1, LenProperties DEF Main, IInv, DirsInv
    <3>. QED
      BY <2>1, <3>1 DEF Dir
  <2>2. CASE source # Main
    BY <1>1, <1>2, <2>2 DEF Dir
  <2>. QED
    BY <2>1, <2>2
<1>4. \A k, names : Matches(mem, k, names) => Matches(mem', k, names)
  BY MatchesStacks
<1>. QED
  BY <1>2, <1>3, <1>4

-----------------------------------------------------------------------------
(* The user's actions.                                                     *)
LEMMA EditedChanges ==
  ASSUME IInv, ChangesInv, saver.at = "idle", EditUnchanged,
         NEW files, main' = [main EXCEPT !.pool = files],
         Distinct(mem')
  PROVE  /\ DistinctInv' /\ CopyInv' /\ main'.pool = files
         /\ (History(mem') = History(mem) /\ mem'.base = mem.base /\ forgotten' = forgotten)
               => SourceInv'
<1>1. /\ UNCHANGED <<last_saved_action, source, backups, saver>> /\ ~saver.backup
      /\ ~Serialized /\ ~HasDir
  BY DEF EditUnchanged, IInv, SaverInv, Serialized, HasDir
<1>2. main \in Dirs
  BY DEF IInv, DirsInv, SoundDir
<1>3. main'.pool = files /\ main'.file = main.file /\ main'.finished = main.finished
  BY <1>2 DEF Dirs
<1>4. DistinctInv'
  BY <1>1, <1>3, DistinctKept DEF ChangesInv, DistinctInv
<1>5. CopyInv'
  BY <1>1, <1>3 DEF ChangesInv, CopyInv, Serialized, HasDir
<1>6. (History(mem') = History(mem) /\ mem'.base = mem.base /\ forgotten' = forgotten)
        => SourceInv'
  BY <1>1, <1>3, SourceKept DEF ChangesInv, CopyInv, IInv, CountsInv
<1>. QED
  BY <1>3, <1>4, <1>5, <1>6

LEMMA TailAddrs ==
  ASSUME NEW u \in Seq(Actions), u # << >>
  PROVE  AddrsOf(Tail(u)) \subseteq AddrsOf(u)
<1>1. PICK n \in Nat : n + 1 = Len(u)
  <2>1. Len(u) \in Nat \ {0}
    BY EmptySeq, LenProperties
  <2>2. \A k \in Nat \ {0} : k - 1 \in Nat /\ (k - 1) + 1 = k
    OBVIOUS
  <2>. QED
    BY <2>1, <2>2
<1>2. /\ Tail(u) \in Seq(Actions) /\ Len(Tail(u)) = n
      /\ \A i \in 1..n : Tail(u)[i] = u[i + 1]
  <2>1. Len(Tail(u)) = Len(u) - 1 /\ Tail(u) \in Seq(Actions)
    BY HeadTailProperties
  <2>2. Len(Tail(u)) = n
    BY <1>1, <2>1
  <2>3. \A i \in 1..Len(Tail(u)) : Tail(u)[i] = u[i + 1]
    BY HeadTailProperties
  <2>. QED
    BY <2>1, <2>2, <2>3
<1>3. DOMAIN u = 1..(n + 1) /\ DOMAIN Tail(u) = 1..n
  BY <1>1, <1>2, LenProperties
<1>4. \A i \in 1..n : i + 1 \in 1..(n + 1)
  OBVIOUS
<1>. QED
  BY <1>2, <1>3, <1>4 DEF AddrsOf

LEMMA PerformChanges ==
  ASSUME IInv, ChangesInv, NEW clips \in SUBSET Clips, Perform(clips),
         WellNamed(mem.pool \cup clips)
  PROVE  ChangesInv'
<1>1. PICK at \in Addrs \ (AddrsOf(mem.undo) \cup AddrsOf(mem.redo)) : PerformAt(at, clips)
  BY DEF Perform
<1>. DEFINE a == [addr |-> at, clips |-> clips]
            room == WithRoom
<1>2. a \in Actions /\ a.addr = at /\ a.clips = clips
  BY DEF Actions
<1>3. /\ mem \in Projects /\ room \in Projects /\ room.undo \in Seq(Actions)
      /\ Document(room) = Document(mem) /\ room.redo = mem.redo
      /\ InUse(mem) \subseteq mem.pool
      /\ IsFull => /\ mem.undo # << >> /\ room.undo = Tail(mem.undo)
                   /\ room.base = mem.base \cup mem.undo[1].clips
      /\ ~IsFull => room = mem
  BY RoomMade DEF IInv, Sound, Projects
<1>4. mem'.undo = Append(room.undo, a) /\ mem'.redo = << >> /\ mem'.base = room.base
  BY <1>1, <1>3 DEF PerformAt, Projects
<1>5. /\ saver.at = "idle" /\ EditUnchanged
      /\ main' = [main EXCEPT !.pool = Written(main.pool, clips)]
      /\ ~forgotten' => ~forgotten /\ ~Forgets
  BY <1>1 DEF PerformAt, CanEdit
<1>. HIDE DEF a, room
<1>6. a.addr \notin AddrsOf(room.undo)
  <2>1. CASE IsFull
    <3>1. AddrsOf(Tail(mem.undo)) \subseteq AddrsOf(mem.undo)
      BY <1>3, <2>1, TailAddrs DEF Projects
    <3>. QED
      BY <1>2, <1>3, <2>1, <3>1
  <2>2. CASE ~IsFull
    BY <1>2, <1>3, <2>2
  <2>. QED
    BY <2>1, <2>2
<1>7. Distinct(mem')
  <2>1. Distinct(room)
    <3>1. CASE IsFull
      BY <1>3, <3>1, DistinctEvicted DEF ChangesInv, DistinctInv
    <3>2. CASE ~IsFull
      BY <1>3, <3>2 DEF ChangesInv, DistinctInv
    <3>. QED
      BY <3>1, <3>2
  <2>. QED
    BY <1>2, <1>3, <1>4, <1>6, <2>1, DistinctPushed
<1>8. DistinctInv' /\ CopyInv' /\ main'.pool = Written(main.pool, clips)
  BY <1>5, <1>7, EditedChanges
<1>9. PoolInv'
  <2>1. InUse(mem') \subseteq InUse(mem) \cup clips
    <3>1. ClipsOf(Append(room.undo, a)) = ClipsOf(room.undo) \cup clips
      BY <1>2, <1>3, AppendClips
    <3>2. ClipsOf(<< >>) = {}
      BY EmptySeq DEF ClipsOf
    <3>. QED
      BY <1>3, <1>4, <3>1, <3>2 DEF InUse, Document
  <2>2. WellNamed(InUse(mem) \cup clips)
    BY <1>3 DEF WellNamed
  <2>. QED
    BY <1>8, <2>1, <2>2, PoolWritten DEF ChangesInv
<1>10. ASSUME NEW k, NEW names, Matches(mem, k, names), k = last_saved_action, ~Forgets
       PROVE  Matches(mem', k, names)
  <2>1. /\ k \notin AddrsOf(mem.redo)
        /\ IsFull => k \notin {mem.undo[1].addr, NoAction}
    BY <1>10 DEF Forgets
  <2>2. Matches(room, k, names)
    <3>1. CASE IsFull
      BY <1>3, <1>10, <2>1, <3>1, MatchesEvicted
    <3>2. CASE ~IsFull
      BY <1>3, <1>10, <3>2
    <3>. QED
      BY <3>1, <3>2
  <2>. QED
    BY <1>2, <1>3, <1>4, <1>6, <2>1, <2>2, MatchesPushed
<1>11. SourceInv'
  <2>1. /\ UNCHANGED <<last_saved_action, source, backups, saver>>
        /\ ~Serialized /\ saver.at # "down" /\ main \in Dirs
    BY <1>5 DEF EditUnchanged, IInv, Serialized, DirsInv, SoundDir
  <2>2. Dir(source)'.file = Dir(source).file /\ Dir(source)'.finished = Dir(source).finished
    BY <1>5, <2>1 DEF Dir, Dirs
  <2>3. source # Nowhere =>
          /\ Dir(source).finished
          /\ ~forgotten => Matches(mem, last_saved_action,
                                   Names(Document(Dir(source).file.project)))
    BY <2>1 DEF ChangesInv, SourceInv
  <2>4. source' # Nowhere /\ ~forgotten' =>
          Matches(mem', last_saved_action', Names(Document(Dir(source)'.file.project)))
    BY <1>5, <1>10, <2>1, <2>2, <2>3
  <2>. QED
    BY <2>1, <2>2, <2>3, <2>4, SourceInvNext
<1>. QED
  BY <1>8, <1>9, <1>11 DEF ChangesInv

LEMMA EditChanges ==
  ASSUME IInv, IInv', ChangesInv, Edit \/ Import
  PROVE  ChangesInv'
<1>1. CASE Edit
  <2>1. mem.pool \cup {} = mem.pool /\ WellNamed(mem.pool)
    BY DEF IInv, Sound
  <2>. QED
    BY <1>1, <2>1, PerformChanges DEF Edit
<1>2. CASE Import
  <2>. DEFINE c == [name |-> UniqueName, data |-> edits + 1]
  <2>1. edits \in 0..MaxEdits /\ edits < MaxEdits /\ edits + 1 \in 0..MaxEdits
    BY <1>2, BoundsAssumption DEF Import, Perform, PerformAt, IInv, CountsInv
  <2>2. UniqueName \in 0..MaxEdits /\ UniqueName \notin Names(mem.pool)
    BY <2>1, UniqueNameIsFree DEF IInv
  <2>3. {c} \in SUBSET Clips /\ \A d \in mem.pool : d.name # c.name
    BY <2>1, <2>2 DEF Clips, Names
  <2>4. WellNamed(mem.pool \cup {c})
    BY <2>3 DEF IInv, Sound, WellNamed
  <2>5. Perform({c})
    BY <1>2 DEF Import
  <2>. HIDE DEF c
  <2>. QED
    BY <2>3, <2>4, <2>5, PerformChanges
<1>. QED
  BY <1>1, <1>2

LEMMA UndoChanges ==
  ASSUME IInv, IInv', ChangesInv, Undo
  PROVE  ChangesInv'
<1>1. mem \in Projects /\ mem.undo \in Seq(Actions) /\ mem.redo \in Seq(Actions) /\ mem.undo # << >>
  BY DEF IInv, Sound, Projects, Undo
<1>. DEFINE a == mem.undo[Len(mem.undo)]
            f == SubSeq(mem.undo, 1, Len(mem.undo) - 1)
<1>2. mem'.undo = f /\ mem'.redo = Append(mem.redo, a) /\ mem'.base = mem.base
  BY <1>1 DEF Undo, Projects
<1>3. History(mem') = History(mem)
  BY <1>1, <1>2, UndoneHistory
<1>4. /\ a \in Actions /\ a.clips \subseteq ClipsOf(mem.undo)
      /\ ClipsOf(f) \subseteq ClipsOf(mem.undo)
  BY <1>1, FrontClips
<1>5. ClipsOf(Append(mem.redo, a)) = ClipsOf(mem.redo) \cup a.clips
  BY <1>1, <1>4, AppendClips
<1>. HIDE DEF a, f
<1>6. InUse(mem') \subseteq InUse(mem)
  BY <1>2, <1>4, <1>5 DEF InUse, Document
<1>7. /\ main' = [main EXCEPT !.pool = main.pool] /\ forgotten' = forgotten
      /\ EditUnchanged /\ saver.at = "idle" /\ main' = main
  BY DEF Undo, CanEdit, IInv, DirsInv, SoundDir, Dirs
<1>8. Distinct(mem')
  BY <1>3 DEF ChangesInv, DistinctInv, Distinct
<1>9. DistinctInv' /\ CopyInv' /\ SourceInv'
  BY <1>2, <1>3, <1>7, <1>8, EditedChanges
<1>10. PoolInv'
  BY <1>6, <1>7, PoolKept DEF ChangesInv
<1>. QED
  BY <1>9, <1>10 DEF ChangesInv

LEMMA RedoChanges ==
  ASSUME IInv, IInv', ChangesInv, Redo
  PROVE  ChangesInv'
<1>1. mem \in Projects /\ mem.undo \in Seq(Actions) /\ mem.redo \in Seq(Actions) /\ mem.redo # << >>
  BY DEF IInv, Sound, Projects, Redo
<1>. DEFINE a == mem.redo[Len(mem.redo)]
            f == SubSeq(mem.redo, 1, Len(mem.redo) - 1)
<1>2. mem'.redo = f /\ mem'.undo = Append(mem.undo, a) /\ mem'.base = mem.base
  BY <1>1 DEF Redo, Projects
<1>3. History(mem') = History(mem)
  BY <1>1, <1>2, RedoneHistory
<1>4. /\ a \in Actions /\ a.clips \subseteq ClipsOf(mem.redo)
      /\ ClipsOf(f) \subseteq ClipsOf(mem.redo)
  BY <1>1, FrontClips
<1>5. ClipsOf(Append(mem.undo, a)) = ClipsOf(mem.undo) \cup a.clips
  BY <1>1, <1>4, AppendClips
<1>6. /\ main' = [main EXCEPT !.pool = Written(main.pool, a.clips)] /\ forgotten' = forgotten
      /\ EditUnchanged /\ saver.at = "idle"
  BY DEF Redo, CanEdit
<1>. HIDE DEF a, f
<1>7. InUse(mem') \subseteq InUse(mem) \cup a.clips /\ a.clips \subseteq InUse(mem)
  BY <1>2, <1>4, <1>5 DEF InUse, Document
<1>8. Distinct(mem')
  BY <1>3 DEF ChangesInv, DistinctInv, Distinct
<1>9. DistinctInv' /\ CopyInv' /\ SourceInv' /\ main'.pool = Written(main.pool, a.clips)
  BY <1>2, <1>3, <1>6, <1>8, EditedChanges
<1>10. PoolInv'
  <2>1. WellNamed(InUse(mem) \cup a.clips)
    BY <1>7 DEF IInv, Sound, WellNamed
  <2>. QED
    BY <1>7, <1>9, <2>1, PoolWritten DEF ChangesInv
<1>. QED
  BY <1>9, <1>10 DEF ChangesInv

-----------------------------------------------------------------------------
(* The steps of a save.                                                    *)
LEMMA QuietChanges ==
  ASSUME IInv, ChangesInv,
         UNCHANGED <<mem, main, backups, source, last_saved_action, forgotten>>,
         Distinct(saver'.clone), saver.at # "down", Serialized => Serialized', CopyInv'
  PROVE  ChangesInv'
<1>1. DistinctInv'
  BY DEF ChangesInv, DistinctInv
<1>2. PoolInv'
  BY PoolKept DEF ChangesInv
<1>3. SourceInv'
  <2>1. source = Main => main'.file = main.file /\ main'.finished
    BY DEF ChangesInv, CopyInv
  <2>. QED
    BY <2>1, SourceKept DEF ChangesInv, IInv, CountsInv, History
<1>. QED
  BY <1>1, <1>2, <1>3 DEF ChangesInv

LEMMA BeginChanges ==
  ASSUME IInv, ChangesInv, Blocked \/ Save \/ Autosave
  PROVE  ChangesInv'
<1>1. /\ UNCHANGED <<mem, main, backups, source, last_saved_action, forgotten>>
      /\ saver.at = "idle"
  BY DEF Blocked, Save, Autosave, Begin
<1>2. /\ saver'.at \in {"perform", "wait", "project_dir"} /\ saver'.clone = NewProject
      /\ saver'.at = "perform" => ~saver'.backup
  <2>1. CASE Blocked
    BY <2>1 DEF Blocked, Idle
  <2>2. CASE Save
    <3>1. saver' = [Idle EXCEPT !.at = "project_dir", !.backup = FALSE, !.running = run]
      BY <2>2 DEF Save, Begin
    <3>. QED
      BY <3>1 DEF Idle
  <2>3. CASE Autosave
    <3>1. saver' = [Idle EXCEPT !.at = "wait", !.backup = TRUE, !.running = run]
      BY <2>3 DEF Autosave, Begin
    <3>. QED
      BY <3>1 DEF Idle
  <2>. QED
    BY <2>1, <2>2, <2>3
<1>3. CopyInv'
  BY <1>1, <1>2 DEF ChangesInv, CopyInv, Serialized, HasDir
<1>. QED
  BY <1>1, <1>2, <1>3, DistinctNew, QuietChanges DEF Serialized

LEMMA WaitChanges ==
  ASSUME IInv, ChangesInv,
         \/ WaitActionSem \/ MakeProjectDir \/ MakeDirs \/ CopyPluginStates
  PROVE  ChangesInv'
<1>1. /\ UNCHANGED <<mem, main, backups, source, last_saved_action, forgotten>>
      /\ \/ saver.at = "wait" /\ Goto("project_dir")
         \/ saver.at = "project_dir" /\ saver.backup /\ Goto("backup_dir")
         \/ saver.at = "project_dir" /\ ~saver.backup /\ Goto("dirs")
         \/ saver.at = "dirs" /\ Goto("unused")
         \/ saver.at = "states" /\ Goto("serialize")
  BY DEF WaitActionSem, MakeProjectDir, MakeDirs, CopyPluginStates, Kept
<1>2. saver \in Savers /\ (saver.at = "states" => saver.backup)
  BY DEF IInv, SaverInv, ChangesInv, CopyInv
<1>3. /\ saver'.clone = saver.clone /\ saver'.backup = saver.backup
      /\ saver'.at \in {"project_dir", "backup_dir", "dirs", "unused", "serialize"}
      /\ saver'.at = "dirs" => ~saver.backup
      /\ saver'.at = "unused" => saver.at = "dirs"
      /\ saver'.at = "serialize" => saver.at = "states"
  BY <1>1, <1>2 DEF Goto, Savers
<1>4. CopyInv'
  BY <1>1, <1>2, <1>3 DEF ChangesInv, CopyInv, Serialized, HasDir
<1>5. Distinct(saver'.clone)
  BY <1>3 DEF ChangesInv, DistinctInv
<1>. QED
  BY <1>1, <1>3, <1>4, <1>5, QuietChanges DEF Serialized

LEMMA CloneChanges ==
  ASSUME IInv, IInv', ChangesInv, Clone
  PROVE  ChangesInv'
<1>. DEFINE b == [mem EXCEPT !.base = Document(mem), !.undo = << >>, !.redo = << >>]
            p == IF saver.backup THEN b ELSE mem
<1>1. /\ saver.at = "pool"
      /\ UNCHANGED <<mem, main, backups, source, last_saved_action, forgotten>>
      /\ saver' = [saver EXCEPT !.at = IF saver.backup THEN "states" ELSE "serialize",
                                !.clone = p]
      /\ saver \in Savers /\ mem \in Projects
  BY DEF Clone, CloneProject, Kept, IInv, SaverInv, Sound
<1>2. b.undo = << >> /\ b.redo = << >>
  <2>1. mem \in [base : SUBSET Clips, undo : Seq(Actions), redo : Seq(Actions), pool : SUBSET Clips]
    BY <1>1 DEF Projects
  <2>. DEFINE D == Document(mem)
              e == << >>
  <2>2. b = [mem EXCEPT !.base = D, !.undo = e, !.redo = e]
    OBVIOUS
  <2>. HIDE DEF D, e, b
  <2>3. b.undo = e /\ b.redo = e
    BY <2>1, <2>2
  <2>. QED
    BY <2>3 DEF e
<1>3. Distinct(p)
  BY <1>2, DistinctEmpty DEF ChangesInv, DistinctInv
<1>4. ~saver.backup => p = mem
  OBVIOUS
<1>. HIDE DEF p, b
<1>5. /\ saver'.clone = p /\ saver'.backup = saver.backup
      /\ saver'.at = IF saver.backup THEN "states" ELSE "serialize"
  BY <1>1 DEF Savers
<1>6. CopyInv'
  BY <1>1, <1>4, <1>5 DEF ChangesInv, CopyInv, Serialized, HasDir
<1>. QED
  BY <1>1, <1>3, <1>5, <1>6, QuietChanges DEF Serialized

LEMMA FailChanges ==
  ASSUME IInv, IInv', ChangesInv, Fail
  PROVE  ChangesInv'
<1>1. /\ UNCHANGED <<mem, main, backups, source, last_saved_action, forgotten>>
      /\ saver' = Idle /\ saver.at \notin {"down", "finish"}
  BY FallibleAssumption DEF Fail, Kept
<1>2. CopyInv' /\ saver'.clone = NewProject
  BY <1>1 DEF ChangesInv, CopyInv, Serialized, HasDir, Idle
<1>. QED
  BY <1>1, <1>2, DistinctNew, QuietChanges DEF Serialized

LEMMA MakeBackupDirChanges ==
  ASSUME IInv, IInv', ChangesInv, MakeBackupDir
  PROVE  ChangesInv'
<1>1. /\ UNCHANGED <<mem, main, source, last_saved_action, forgotten>> /\ saver.at = "backup_dir"
      /\ saver' = [saver EXCEPT !.at = "dirs"] /\ saver \in Savers
      /\ backups' = Append(backups, EmptyDir) /\ backups \in Seq(Dirs)
  BY DEF MakeBackupDir, Kept, Goto, IInv, SaverInv, DirsInv
<1>2. saver'.at = "dirs" /\ saver'.clone = saver.clone
  BY <1>1 DEF Savers
<1>3. EmptyDir \in Dirs
  BY EmptyDirSound, BoundsAssumption DEF SoundDir, IInv, CountsInv
<1>4. /\ Len(backups) \in Nat /\ Len(backups') = Len(backups) + 1
      /\ DOMAIN backups = 1..Len(backups) /\ DOMAIN backups' = 1..(Len(backups) + 1)
      /\ backups'[Len(backups) + 1] = EmptyDir
      /\ \A i \in DOMAIN backups : backups'[i] = backups[i]
  BY <1>1, <1>3, AppendProperties, LenProperties
<1>5. /\ \A i \in DOMAIN backups' : i \in DOMAIN backups \/ i = Len(backups) + 1
      /\ Len(backups) + 1 \notin DOMAIN backups
  BY <1>4
<1>6. DistinctInv'
  <2>1. EmptyDir.file.project = NewProject
    BY DEF EmptyDir, NoFile
  <2>3. Distinct(mem') /\ Distinct(saver'.clone)
    BY <1>1, <1>2 DEF ChangesInv, DistinctInv
  <2>. QED
    BY <1>1, <1>4, <1>5, <2>1, <2>3, DistinctKept DEF ChangesInv
<1>7. PoolInv'
  BY <1>1, PoolKept DEF ChangesInv
<1>8. SourceInv'
  <2>1. main'.finished /\ History(mem') = History(mem)
    BY <1>1 DEF ChangesInv, CopyInv
  <2>. QED
    BY <1>1, <1>4, <2>1, SourceKept DEF ChangesInv, IInv, CountsInv, Serialized
<1>9. CopyInv'
  <2>1. source = Nowhere \/ source # Len(backups')
    <3>1. source # Nowhere => source = Main \/ source \in DOMAIN backups
      BY DEF IInv, CountsInv
    <3>2. Len(backups) + 1 # Main
      BY <1>4 DEF Main
    <3>. QED
      BY <1>4, <1>5, <3>1, <3>2
  <2>. QED
    BY <1>1, <1>2, <2>1 DEF ChangesInv, CopyInv, Serialized, HasDir
<1>. QED
  BY <1>6, <1>7, <1>8, <1>9 DEF ChangesInv

(* The directory that is saved to, and the others.                         *)
LEMMA SavedTo ==
  ASSUME IInv, IInv', ChangesInv, saver.at \notin {"idle", "down", "perform", "wait", "project_dir", "backup_dir"},
         NEW d, SaveTo(saver.backup, d)
  PROVE  /\ saver.backup => Len(backups) \in DOMAIN backups /\ main' = main /\ Target(TRUE) = backups[Len(backups)]
         /\ ~saver.backup => main' = d /\ backups' = backups
         /\ DOMAIN backups' = DOMAIN backups /\ Len(backups') = Len(backups)
         /\ \A i \in DOMAIN backups :
              backups'[i] = IF saver.backup /\ i = Len(backups) THEN d ELSE backups[i]
         /\ source \in DOMAIN backups /\ source # Nowhere => backups'[source] = backups[source]
<1>1. HasDir => backups # << >> /\ (source = Nowhere \/ source # Len(backups))
  BY DEF IInv, SaverInv, ChangesInv, CopyInv
<1>2. /\ backups \in Seq(Dirs) /\ backups' \in Seq(Dirs) /\ DOMAIN backups = 1..Len(backups)
      /\ DOMAIN backups' = 1..Len(backups') /\ Len(backups) \in Nat /\ Len(backups') \in Nat
  BY LenProperties DEF IInv, DirsInv
<1>3. CASE saver.backup
  <2>1. /\ main' = main /\ backups' = [backups EXCEPT ![Len(backups)] = d] /\ HasDir
        /\ Target(TRUE) = backups[Len(backups)]
    BY <1>3 DEF SaveTo, HasDir, Target
  <2>2. DOMAIN backups' = DOMAIN backups
    BY <2>1
  <2>3. 1..Len(backups') = 1..Len(backups)
    BY <1>2, <2>2
  <2>4. \A m, n \in Nat : 1..m = 1..n => m = n
    OBVIOUS
  <2>5. Len(backups') = Len(backups)
    BY <1>2, <2>3, <2>4
  <2>6. Len(backups) \in DOMAIN backups
    BY <1>1, <1>2, <2>1, EmptySeq
  <2>. QED
    BY <1>1, <1>3, <2>1, <2>2, <2>5, <2>6
<1>4. CASE ~saver.backup
  BY <1>4 DEF SaveTo
<1>. QED
  BY <1>3, <1>4
(* A step that writes to the pool of the directory that is saved to.       *)
LEMMA WrittenChanges ==
  ASSUME IInv, IInv', ChangesInv, saver.at \in {"unused", "pool"}, Kept,
         mem'.undo = mem.undo, mem'.redo = mem.redo, mem'.base = mem.base,
         saver'.at = "pool", saver'.backup = saver.backup, saver'.clone = saver.clone,
         NEW files, SaveTo(saver.backup, [Target(saver.backup) EXCEPT !.pool = files])
  PROVE  /\ DistinctInv' /\ SourceInv' /\ CopyInv'
         /\ InUse(mem') = InUse(mem)
         /\ saver.backup => main' = main
         /\ ~saver.backup => main'.pool = files
<1>. DEFINE t == Target(saver.backup)
            d == [t EXCEPT !.pool = files]
<1>1. t \in Dirs
  <2>1. saver.backup => backups # << >>
    BY DEF IInv, SaverInv, HasDir
  <2>. QED
    BY <2>1, TargetSound DEF SoundDir
<1>2. d.file = t.file /\ d.finished = t.finished /\ d.pool = files
  BY <1>1 DEF Dirs
<1>. HIDE DEF d
<1>3. SaveTo(saver.backup, d)
  BY DEF d
<1>4. /\ saver.backup => /\ Len(backups) \in DOMAIN backups /\ main' = main
                         /\ Target(TRUE) = backups[Len(backups)]
      /\ ~saver.backup => main' = d /\ backups' = backups
      /\ DOMAIN backups' = DOMAIN backups /\ Len(backups') = Len(backups)
      /\ \A i \in DOMAIN backups :
           backups'[i] = IF saver.backup /\ i = Len(backups) THEN d ELSE backups[i]
      /\ source \in DOMAIN backups /\ source # Nowhere => backups'[source] = backups[source]
  BY <1>3, SavedTo
<1>5. /\ saver.backup => t = backups[Len(backups)]
      /\ ~saver.backup => t = main
  BY <1>4 DEF Target
<1>. HIDE DEF t
<1>6. /\ main'.file = main.file /\ main'.finished = main.finished
      /\ \A i \in DOMAIN backups : backups'[i].file = backups[i].file
  BY <1>2, <1>4, <1>5
<1>7. /\ History(mem') = History(mem) /\ InUse(mem') = InUse(mem)
      /\ UNCHANGED <<source, last_saved_action, forgotten>>
  BY SameStacks DEF InUse, Document, Kept
<1>8. DistinctInv'
  <2>1. Distinct(mem') /\ Distinct(saver'.clone)
    BY <1>7 DEF ChangesInv, DistinctInv, Distinct
  <2>. QED
    BY <1>4, <1>6, <2>1, DistinctKept DEF ChangesInv
<1>9. main'.finished
  BY <1>6 DEF ChangesInv, CopyInv
<1>10. SourceInv'
  <2>1. ~Serialized /\ saver.at # "down"
    BY DEF Serialized
  <2>. QED
    BY <1>4, <1>6, <1>7, <1>9, <2>1, SourceKept DEF ChangesInv, IInv, CountsInv
<1>11. CopyInv'
  BY <1>4, <1>7, <1>9 DEF ChangesInv, CopyInv, Serialized, HasDir
<1>. QED
  BY <1>2, <1>4, <1>7, <1>8, <1>10, <1>11

LEMMA RemoveUnusedChanges ==
  ASSUME IInv, IInv', ChangesInv, RemoveUnused
  PROVE  ChangesInv'
<1>. DEFINE t == Target(saver.backup)
            files == {f \in t.pool : f.name \in Names(InUse(mem))}
<1>1. /\ saver.at = "unused" /\ saver \in Savers /\ mem \in Projects /\ Kept
      /\ mem' = [mem EXCEPT !.pool = InUse(mem)]
      /\ saver' = [saver EXCEPT !.at = "pool", !.pending = InUse(mem)]
      /\ SaveTo(saver.backup, [t EXCEPT !.pool = files])
  BY DEF RemoveUnused, Remove, IInv, SaverInv, Sound
<1>2. mem'.undo = mem.undo /\ mem'.redo = mem.redo /\ mem'.base = mem.base
  BY <1>1 DEF Projects
<1>3. saver'.at = "pool" /\ saver'.backup = saver.backup /\ saver'.clone = saver.clone
  BY <1>1 DEF Savers
<1>4. ~saver.backup => files = {f \in main.pool : f.name \in Names(InUse(mem))}
  BY DEF Target
<1>. HIDE DEF files
<1>5. /\ DistinctInv' /\ SourceInv' /\ CopyInv' /\ InUse(mem') = InUse(mem)
      /\ saver.backup => main' = main
      /\ ~saver.backup => main'.pool = files
  BY <1>1, <1>2, <1>3, WrittenChanges
<1>6. PoolInv'
  <2>1. CASE saver.backup
    BY <1>5, <2>1, PoolKept DEF ChangesInv
  <2>2. CASE ~saver.backup
    <3>1. SUFFICES ASSUME NEW c \in InUse(mem) PROVE OnDisk(c)'
      BY <1>5 DEF PoolInv
    <3>2. OnDisk(c) /\ c.name \in Names(InUse(mem))
      BY <3>1 DEF ChangesInv, PoolInv, Names
    <3>. QED
      BY <1>4, <1>5, <2>2, <3>2 DEF OnDisk, Names
  <2>. QED
    BY <2>1, <2>2
<1>. QED
  BY <1>5, <1>6 DEF ChangesInv

LEMMA WriteClipChanges ==
  ASSUME IInv, IInv', ChangesInv, WriteClip
  PROVE  ChangesInv'
<1>1. /\ saver.at = "pool" /\ saver \in Savers /\ Kept /\ mem' = mem
      /\ saver.pending \subseteq InUse(mem) /\ InUse(mem) \subseteq mem.pool
      /\ WellNamed(mem.pool)
  BY DEF WriteClip, IInv, SaverInv, Sound
<1>2. PICK c \in saver.pending :
        /\ SaveTo(saver.backup,
                  [Target(saver.backup) EXCEPT !.pool = Written(Target(saver.backup).pool, {c})])
        /\ saver' = [saver EXCEPT !.pending = saver.pending \ {c}]
  BY DEF WriteClip
<1>3. saver'.at = "pool" /\ saver'.backup = saver.backup /\ saver'.clone = saver.clone
  BY <1>1, <1>2 DEF Savers
<1>4. /\ DistinctInv' /\ SourceInv' /\ CopyInv'
      /\ saver.backup => main' = main
      /\ ~saver.backup => main'.pool = Written(Target(saver.backup).pool, {c})
  BY <1>1, <1>2, <1>3, WrittenChanges
<1>5. PoolInv'
  <2>1. CASE saver.backup
    BY <1>1, <1>4, <2>1, PoolKept DEF ChangesInv
  <2>2. CASE ~saver.backup
    <3>1. main'.pool = Written(main.pool, {c})
      BY <1>4, <2>2 DEF Target
    <3>2. WellNamed(InUse(mem) \cup {c}) /\ InUse(mem') \subseteq InUse(mem) \cup {c}
      BY <1>1 DEF WellNamed
    <3>. QED
      BY <3>1, <3>2, PoolWritten DEF ChangesInv
  <2>. QED
    BY <2>1, <2>2
<1>. QED
  BY <1>4, <1>5 DEF ChangesInv
LEMMA SerializeChanges ==
  ASSUME IInv, IInv', ChangesInv, Serialize
  PROVE  ChangesInv'
<1>1. /\ saver.at = "serialize" /\ saver \in Savers /\ Kept /\ mem' = mem
      /\ UNCHANGED <<source, last_saved_action, forgotten>>
      /\ main.finished /\ ~Serialized
      /\ Distinct(saver.clone) /\ Distinct(mem')
  BY DEF Serialize, SerializeWith, Kept, IInv, SaverInv, CountsInv, ChangesInv, CopyInv, DistinctInv, Serialized
<1>2. CASE saver' = [saver EXCEPT !.at = "finish", !.has_error = TRUE] /\ UNCHANGED <<main, backups>>
  <2>1. /\ saver'.at = "finish" /\ saver'.has_error = TRUE
        /\ saver'.backup = saver.backup /\ saver'.clone = saver.clone
    BY <1>1, <1>2 DEF Savers
  <2>2. CopyInv'
    BY <1>1, <1>2, <2>1 DEF ChangesInv, CopyInv, Serialized, HasDir
  <2>. QED
    BY <1>1, <1>2, <2>1, <2>2, QuietChanges
<1>3. ASSUME SaveTo(saver.backup, [Target(saver.backup) EXCEPT
                                     !.file = [project |-> saver.clone, time |-> saves + 1]]),
             Goto("finish")
      PROVE  ChangesInv'
  <2>. DEFINE t == Target(saver.backup)
              d == [t EXCEPT !.file = [project |-> saver.clone, time |-> saves + 1]]
  <2>1. t \in Dirs
    <3>1. saver.backup => backups # << >>
      BY <1>1 DEF IInv, SaverInv, HasDir
    <3>. QED
      BY <3>1, TargetSound DEF SoundDir
  <2>2. d.file.project = saver.clone /\ d.finished = t.finished /\ d.pool = t.pool
    BY <2>1 DEF Dirs
  <2>. HIDE DEF d
  <2>3. SaveTo(saver.backup, d)
    BY <1>3 DEF d
  <2>4. /\ saver.backup => /\ Len(backups) \in DOMAIN backups /\ main' = main
                           /\ Target(TRUE) = backups[Len(backups)]
        /\ ~saver.backup => main' = d /\ backups' = backups
        /\ DOMAIN backups' = DOMAIN backups /\ Len(backups') = Len(backups)
        /\ \A i \in DOMAIN backups :
             backups'[i] = IF saver.backup /\ i = Len(backups) THEN d ELSE backups[i]
        /\ source \in DOMAIN backups /\ source # Nowhere => backups'[source] = backups[source]
    BY <1>1, <2>3, SavedTo
  <2>5. ~saver.backup => t = main
    BY DEF Target
  <2>. HIDE DEF t
  <2>6. /\ saver'.at = "finish" /\ saver'.backup = saver.backup /\ saver'.clone = saver.clone
        /\ saver'.has_error = saver.has_error
    BY <1>1, <1>3 DEF Savers, Goto
  <2>7. DistinctInv'
    <3>1. main'.file = main.file \/ main'.file.project = saver.clone
      BY <2>2, <2>4
    <3>2. \A i \in DOMAIN backups' :
            \/ i \in DOMAIN backups /\ backups'[i].file = backups[i].file
            \/ backups'[i].file.project \in {saver.clone, NewProject}
      BY <2>2, <2>4
    <3>3. Distinct(saver'.clone)
      BY <1>1, <2>6
    <3>. QED
      BY <1>1, <3>1, <3>2, <3>3, DistinctKept DEF ChangesInv
  <2>8. PoolInv'
    <3>1. main'.pool = main.pool
      BY <2>2, <2>4, <2>5
    <3>. QED
      BY <1>1, <3>1, PoolKept DEF ChangesInv
  <2>9. main'.finished
    BY <1>1, <2>2, <2>4, <2>5
  <2>10. SourceInv'
    <3>1. CASE saver.backup
      BY <1>1, <2>4, <3>1, SourceKept DEF ChangesInv, IInv, CountsInv
    <3>2. CASE ~saver.backup
      BY <2>6, <3>2 DEF SourceInv, Serialized
    <3>. QED
      BY <3>1, <3>2
  <2>11. CopyInv'
    <3>1. ~saver.backup => main'.file.project = mem'
      BY <1>1, <2>2, <2>4 DEF ChangesInv, CopyInv
    <3>2. HasDir' => source' = Nowhere \/ source' # Len(backups')
      BY <1>1, <2>4, <2>6 DEF ChangesInv, CopyInv, HasDir
    <3>. QED
      BY <2>6, <2>9, <3>1, <3>2 DEF CopyInv, Serialized
  <2>. QED
    BY <2>7, <2>8, <2>10, <2>11 DEF ChangesInv
<1>. QED
  BY <1>2, <1>3 DEF Serialize, SerializeWith

LEMMA FinishChanges ==
  ASSUME IInv, IInv', ChangesInv, Finish
  PROVE  ChangesInv'
<1>. DEFINE t == Target(saver.backup)
            d == [t EXCEPT !.finished = TRUE]
<1>1. /\ saver.at = "finish" /\ saver \in Savers /\ mem' = mem /\ saver' = Idle
      /\ main.finished /\ SaveTo(saver.backup, d)
      /\ source' = IF saver.backup THEN source ELSE IF saver.has_error THEN Nowhere ELSE Main
      /\ last_saved_action' = IF saver.backup THEN last_saved_action ELSE LastAction(mem)
      /\ forgotten' = (saver.backup /\ forgotten) /\ forgotten \in BOOLEAN
  BY DEF Finish, Saved, IInv, SaverInv, CountsInv, ChangesInv, CopyInv
<1>2. t \in Dirs
  <2>1. saver.backup => backups # << >>
    BY <1>1 DEF IInv, SaverInv, HasDir
  <2>. QED
    BY <2>1, TargetSound DEF SoundDir
<1>3. d.file = t.file /\ d.finished /\ d.pool = t.pool
  BY <1>2 DEF Dirs
<1>. HIDE DEF d
<1>4. /\ saver.backup => /\ Len(backups) \in DOMAIN backups /\ main' = main
                         /\ Target(TRUE) = backups[Len(backups)]
      /\ ~saver.backup => main' = d /\ backups' = backups
      /\ DOMAIN backups' = DOMAIN backups /\ Len(backups') = Len(backups)
      /\ \A i \in DOMAIN backups :
           backups'[i] = IF saver.backup /\ i = Len(backups) THEN d ELSE backups[i]
      /\ source \in DOMAIN backups /\ source # Nowhere => backups'[source] = backups[source]
  BY <1>1, SavedTo
<1>5. (saver.backup => t = backups[Len(backups)]) /\ (~saver.backup => t = main)
  BY <1>4 DEF Target
<1>. HIDE DEF t
<1>6. saver'.at = "idle" /\ ~saver'.backup /\ saver'.clone = NewProject
  BY <1>1 DEF Idle
<1>7. /\ main'.file = main.file /\ main'.pool = main.pool /\ main'.finished
      /\ \A i \in DOMAIN backups : backups'[i].file = backups[i].file
  BY <1>1, <1>3, <1>4, <1>5
<1>8. DistinctInv'
  <2>1. Distinct(mem') /\ Distinct(saver'.clone)
    BY <1>1, <1>6, DistinctNew DEF ChangesInv, DistinctInv
  <2>. QED
    BY <1>1, <1>4, <1>7, <2>1, DistinctKept DEF ChangesInv
<1>9. PoolInv'
  BY <1>1, <1>7, PoolKept DEF ChangesInv
<1>10. SourceInv'
  <2>1. CASE saver.backup
    <3>1. forgotten' = forgotten
      BY <1>1, <2>1
    <3>. QED
      BY <1>1, <1>4, <1>7, <2>1, <3>1, SourceKept
      DEF ChangesInv, IInv, CountsInv, Serialized
  <2>2. CASE ~saver.backup /\ saver.has_error
    BY <1>1, <2>2 DEF SourceInv, Nowhere
  <2>3. CASE ~saver.backup /\ ~saver.has_error
    <3>1. main'.file.project = mem /\ mem \in Projects /\ Distinct(mem)
      BY <1>1, <1>7, <2>3 DEF ChangesInv, CopyInv, Serialized, IInv, Sound, DistinctInv
    <3>2. Matches(mem, LastAction(mem), Names(Document(mem)))
      BY <3>1, MatchesSelf
    <3>3. Dir(source)' = main'
      BY <1>1, <2>3 DEF Dir
    <3>4. last_saved_action' = LastAction(mem)
      BY <1>1, <2>3
    <3>. QED
      BY <1>1, <1>7, <3>1, <3>2, <3>3, <3>4, SourceInvNext
  <2>. QED
    BY <2>1, <2>2, <2>3
<1>11. CopyInv'
  BY <1>6, <1>7 DEF CopyInv, Serialized, HasDir
<1>. QED
  BY <1>8, <1>9, <1>10, <1>11 DEF ChangesInv
-----------------------------------------------------------------------------
(* The end of the process, and the next start.                             *)
LEMMA EndChanges ==
  ASSUME IInv, IInv', ChangesInv, End
  PROVE  ChangesInv'
<1>1. /\ mem' = NewProject /\ UNCHANGED <<main, backups>>
      /\ saver'.at = "down" /\ ~saver'.backup /\ saver'.clone = NewProject
  BY DEF End, Down, Idle
<1>2. DistinctInv'
  BY <1>1, DistinctNew, DistinctKept DEF ChangesInv
<1>3. PoolInv'
  BY <1>1, NewIsEmpty DEF PoolInv
<1>4. SourceInv' /\ CopyInv'
  BY <1>1 DEF ChangesInv, SourceInv, CopyInv, Serialized, HasDir
<1>. QED
  BY <1>2, <1>3, <1>4 DEF ChangesInv

(* Opening a project reads the clips of its actions, and keeps their names.*)
LEMMA OpenedActions ==
  ASSUME main.pool \in SUBSET Clips, NEW s \in Seq(Actions)
  PROVE  LET r == ReadActions(s)
         IN /\ Len(r) = Len(s)
            /\ \A i \in 1..Len(s) : /\ r[i].addr = s[i].addr
                                    /\ Names(r[i].clips) = Names(s[i].clips)
<1>. DEFINE r == ReadActions(s)
<1>1. Len(s) \in Nat /\ DOMAIN s = 1..Len(s) /\ \A i \in 1..Len(s) : s[i] \in Actions
  BY LenProperties, ElementOfSeq
<1>2. DOMAIN r = 1..Len(s)
  BY <1>1 DEF ReadActions
<1>3. Len(r) = Len(s)
  <2>1. r \in Seq(Actions)
    BY ReadActionsType
  <2>2. Len(r) \in Nat /\ DOMAIN r = 1..Len(r)
    BY <2>1, LenProperties
  <2>3. \A m, n \in Nat : 1..m = 1..n => m = n
    OBVIOUS
  <2>. QED
    BY <1>1, <1>2, <2>2, <2>3
<1>4. ASSUME NEW i \in 1..Len(s)
      PROVE  r[i].addr = s[i].addr /\ Names(r[i].clips) = Names(s[i].clips)
  <2>1. s[i] \in Actions /\ s[i].clips \in SUBSET Clips
    BY <1>1 DEF Actions
  <2>2. r[i] = [s[i] EXCEPT !.clips = {Read(c) : c \in s[i].clips}]
    BY <1>1 DEF ReadActions
  <2>3. r[i].addr = s[i].addr /\ r[i].clips = {Read(c) : c \in s[i].clips}
    BY <2>1, <2>2 DEF Actions
  <2>4. \A c \in s[i].clips : Read(c).name = c.name
    BY <2>1, ReadType
  <2>. QED
    BY <2>3, <2>4 DEF Names
<1>. QED
  BY <1>3, <1>4

LEMMA OpenedProject ==
  ASSUME main.pool \in SUBSET Clips, NEW p \in Projects
  PROVE  LET q == Opened(p)
         IN /\ Names(q.base) = Names(p.base)
            /\ Document(q) = {Read(c) : c \in Document(p)}
            /\ InUse(q) = {Read(c) : c \in InUse(p)}
            /\ LastAction(q) = LastAction(p)
            /\ Len(q.undo) = Len(p.undo) /\ DOMAIN History(q) = DOMAIN History(p)
            /\ \A j \in DOMAIN History(p) :
                 /\ History(q)[j].addr = History(p)[j].addr
                 /\ Names(History(q)[j].clips) = Names(History(p)[j].clips)
<1>. DEFINE q == Opened(p)
<1>1. p.undo \in Seq(Actions) /\ p.redo \in Seq(Actions) /\ p.base \in SUBSET Clips
  BY DEF Projects
<1>2. /\ q.base = {Read(c) : c \in p.base}
      /\ q.undo = ReadActions(p.undo) /\ q.redo = ReadActions(p.redo)
  BY DEF Opened
<1>. HIDE DEF q
<1>3. PICK n \in Nat, m \in Nat : n = Len(p.undo) /\ m = Len(p.redo)
  BY HistoryType
<1>4. /\ Len(q.undo) = n /\ Len(q.redo) = m
      /\ \A j \in 1..n : /\ q.undo[j].addr = p.undo[j].addr
                         /\ Names(q.undo[j].clips) = Names(p.undo[j].clips)
      /\ \A j \in 1..m : /\ q.redo[j].addr = p.redo[j].addr
                         /\ Names(q.redo[j].clips) = Names(p.redo[j].clips)
  BY <1>1, <1>2, <1>3, OpenedActions
<1>5. /\ History(p) = Joined(p.undo, p.redo, n, m)
      /\ History(q) = Joined(q.undo, q.redo, n, m)
  BY <1>3, <1>4, Zenon DEF History
<1>6. /\ DOMAIN History(p) = 1..(n + m) /\ DOMAIN History(q) = 1..(n + m)
      /\ \A j \in 1..(n + m) :
           /\ History(p)[j] = IF j <= n THEN p.undo[j] ELSE p.redo[n + m + 1 - j]
           /\ History(q)[j] = IF j <= n THEN q.undo[j] ELSE q.redo[n + m + 1 - j]
  BY <1>5 DEF Joined
<1>7. ASSUME NEW j \in 1..(n + m)
      PROVE  /\ History(q)[j].addr = History(p)[j].addr
             /\ Names(History(q)[j].clips) = Names(History(p)[j].clips)
  <2>1. CASE j <= n
    <3>1. j \in 1..n
      BY <2>1
    <3>. QED
      BY <1>4, <1>6, <2>1, <3>1
  <2>2. CASE ~(j <= n)
    <3>1. n + m + 1 - j \in 1..m
      BY <2>2
    <3>. QED
      BY <1>4, <1>6, <2>2, <3>1
  <2>. QED
    BY <2>1, <2>2
<1>8. Names(q.base) = Names(p.base)
  <2>1. \A c \in p.base : Read(c).name = c.name
    BY <1>1, ReadType
  <2>. QED
    BY <1>2, <2>1 DEF Names
<1>9. /\ Document(q) = {Read(c) : c \in Document(p)}
      /\ InUse(q) = {Read(c) : c \in InUse(p)}
  <2>1. /\ ClipsOf(q.undo) = {Read(c) : c \in ClipsOf(p.undo)}
        /\ ClipsOf(q.redo) = {Read(c) : c \in ClipsOf(p.redo)}
    BY <1>1, <1>2, ReadActionsType
  <2>. QED
    BY <1>2, <2>1 DEF InUse, Document
<1>10. LastAction(q) = LastAction(p)
  <2>1. CASE n = 0
    <3>1. p.undo = << >> /\ q.undo = << >>
      <4>1. q.undo \in Seq(Actions)
        BY <1>1, <1>2, ReadActionsType
      <4>. QED
        BY <1>1, <1>3, <1>4, <2>1, <4>1, EmptySeq
    <3>. QED
      BY <3>1 DEF LastAction
  <2>2. CASE n # 0
    <3>1. p.undo # << >> /\ q.undo # << >> /\ n \in 1..n
      BY <1>3, <1>4, <2>2, EmptySeq
    <3>. QED
      BY <1>3, <1>4, <3>1 DEF LastAction
  <2>. QED
    BY <2>1, <2>2
<1>. QED
  BY <1>3, <1>4, <1>6, <1>7, <1>8, <1>9, <1>10 DEF q

LEMMA OpenChanges ==
  ASSUME IInv, ChangesInv, Open
  PROVE  ChangesInv'
<1>1. PICK i \in {Main, NewerBackup} :
        /\ Dir(i).finished
        /\ mem' = Opened(Dir(i).file.project) /\ source' = i
        /\ last_saved_action' = LastAction(Dir(i).file.project)
  BY DEF Open
<1>2. /\ UNCHANGED <<main, backups>> /\ saver' = Idle
      /\ main.pool \in SUBSET Clips /\ WellNamed(main.pool)
  BY DEF Open, IInv, DirsInv, SoundDir, Dirs
<1>3. saver'.at = "idle" /\ ~saver'.backup /\ saver'.clone = NewProject
  BY <1>2 DEF Idle
<1>. DEFINE p == Dir(i).file.project
<1>4. i \in {Main} \cup DOMAIN backups
  BY NewerBackupType
<1>5. p \in Projects /\ Distinct(p)
  BY <1>4 DEF Dir, ChangesInv, DistinctInv, IInv, DirsInv, SoundDir, Sound
<1>6. /\ mem' = Opened(p) /\ last_saved_action' = LastAction(p)
      /\ Dir(source)' = Dir(i)
  BY <1>1, <1>2 DEF Dir
<1>7. Dir(source)'.file.project = p /\ Dir(source)'.finished
  BY <1>1, <1>6
<1>. HIDE DEF p
<1>8. /\ Names(mem'.base) = Names(p.base)
      /\ InUse(mem') = {Read(c) : c \in InUse(p)}
      /\ DOMAIN History(mem') = DOMAIN History(p)
      /\ \A j \in DOMAIN History(p) :
           /\ History(mem')[j].addr = History(p)[j].addr
           /\ Names(History(mem')[j].clips) = Names(History(p)[j].clips)
  BY <1>2, <1>5, <1>6, OpenedProject
<1>9. DistinctInv'
  <2>1. Distinct(mem')
    BY <1>5, <1>8 DEF Distinct
  <2>. QED
    BY <1>2, <1>3, <2>1, DistinctNew, DistinctKept DEF ChangesInv
<1>10. PoolInv'
  <2>1. SUFFICES ASSUME NEW c \in InUse(p) PROVE OnDisk(Read(c))
    BY <1>2, <1>8 DEF PoolInv, OnDisk
  <2>2. c \in Clips
    BY <1>5, InUseType
  <2>. QED
    BY <1>2, <2>2, ReadOnDisk
<1>11. SourceInv'
  <2>1. Matches(p, LastAction(p), Names(Document(p)))
    BY <1>5, MatchesSelf
  <2>2. Matches(mem', LastAction(p), Names(Document(p)))
    BY <1>5, <1>8, <2>1, MatchesNames
  <2>. QED
    BY <1>6, <1>7, <2>2, SourceInvNext
<1>12. CopyInv'
  BY <1>2, <1>3 DEF ChangesInv, CopyInv, Serialized, HasDir
<1>. QED
  BY <1>9, <1>10, <1>11, <1>12 DEF ChangesInv

LEMMA InitChanges == Init => ChangesInv
<1>. SUFFICES ASSUME Init PROVE ChangesInv
  OBVIOUS
<1>1. /\ mem = NewProject /\ last_saved_action = NoAction /\ source = Main
      /\ backups = << >> /\ saver.at = "idle" /\ ~saver.backup /\ saver.clone = NewProject
  BY DEF Init, Idle
<1>2. main = [file |-> [project |-> NewProject, time |-> 1], finished |-> TRUE, pool |-> {}]
  BY DEF Init, EmptyDir, NoFile
<1>3. main.finished /\ main.file.project = NewProject
  BY <1>2
<1>4. DistinctInv
  BY <1>1, <1>3, DistinctNew, EmptySeq DEF DistinctInv
<1>5. PoolInv
  BY <1>1, NewIsEmpty DEF PoolInv
<1>6. SourceInv
  <2>1. LastAction(NewProject) = NoAction
    BY DEF LastAction, NewProject
  <2>2. NewProject \in Projects
    <3>1. Sound(NewProject, 0)
      BY SoundNew
    <3>. QED
      BY <3>1 DEF Sound
  <2>3. Matches(NewProject, NoAction, Names(Document(NewProject)))
    BY <2>1, <2>2, DistinctNew, MatchesSelf
  <2>4. Dir(source).file.project = NewProject /\ Dir(source).finished
    BY <1>1, <1>3 DEF Dir
  <2>. QED
    BY <1>1, <2>3, <2>4 DEF SourceInv
<1>7. CopyInv
  BY <1>1, <1>3 DEF CopyInv, Serialized, HasDir
<1>. QED
  BY <1>4, <1>5, <1>6, <1>7 DEF ChangesInv

LEMMA StutterChanges == ASSUME ChangesInv, UNCHANGED vars PROVE ChangesInv'
BY DEF vars, ChangesInv, DistinctInv, PoolInv, OnDisk, SourceInv, Serialized, CopyInv, HasDir, Dir

LEMMA NextChanges == IInv /\ IInv' /\ ChangesInv /\ [Next]_vars => ChangesInv'
<1>. SUFFICES ASSUME IInv, IInv', ChangesInv, [Next]_vars PROVE ChangesInv'
  OBVIOUS
<1>1. CASE Edit \/ Import \/ Undo \/ Redo
  BY <1>1, EditChanges, UndoChanges, RedoChanges
<1>2. CASE Blocked \/ Save \/ Autosave
  BY <1>2, BeginChanges
<1>3. CASE WaitActionSem \/ MakeProjectDir \/ MakeBackupDir \/ MakeDirs \/ RemoveUnused \/ WriteClip
  BY <1>3, WaitChanges, MakeBackupDirChanges, RemoveUnusedChanges, WriteClipChanges
<1>4. CASE Clone \/ CopyPluginStates \/ Serialize \/ Finish \/ Fail
  BY <1>4, CloneChanges, WaitChanges, SerializeChanges, FinishChanges, FailChanges
<1>5. CASE Quit \/ Crash \/ Open
  BY <1>5, EndChanges, OpenChanges DEF Quit, Crash
<1>6. CASE UNCHANGED vars
  BY <1>6, StutterChanges
<1>. QED
  BY <1>1, <1>2, <1>3, <1>4, <1>5, <1>6 DEF Next, SaveStep

-----------------------------------------------------------------------------
(* A clip is read by its name.                                             *)
LEMMA ReadByName ==
  ASSUME main.pool \in SUBSET Clips, NEW c \in Clips, NEW d \in Clips, c.name = d.name
  PROVE  Read(c) = Read(d)
<1>. DEFINE x == IF c.name \in Names(main.pool)
                 THEN (CHOOSE f \in main.pool : f.name = c.name).data ELSE Silence
<1>1. Read(c) = [c EXCEPT !.data = x] /\ Read(d) = [d EXCEPT !.data = x]
  BY DEF Read
<1>. HIDE DEF x
<1>. QED
  BY <1>1 DEF Clips

LEMMA SavedIsOpened == IInv /\ ChangesInv => NothingUnsavedIsLost
<1>. SUFFICES ASSUME IInv, ChangesInv, saver.at = "idle", source # Nowhere, ~forgotten,
                     LastAction(mem) = last_saved_action
              PROVE  /\ Dir(source).finished
                     /\ Document(Opened(Dir(source).file.project)) = Document(mem)
  BY DEF NothingUnsavedIsLost, SavedOpens, HasUnsavedChanges
<1>. DEFINE saved == Dir(source).file.project
<1>1. /\ Dir(source).finished
      /\ Matches(mem, LastAction(mem), Names(Document(saved)))
  BY DEF ChangesInv, SourceInv, Serialized
<1>2. /\ mem \in Projects /\ main.pool \in SUBSET Clips
      /\ WellNamed(main.pool)
  BY DEF IInv, Sound, DirsInv, SoundDir, Dirs
<1>3. saved \in Projects
  BY DEF Dir, IInv, CountsInv, DirsInv, SoundDir, Sound
<1>. HIDE DEF saved
<1>4. Names(Document(saved)) = Names(Document(mem))
  BY <1>1, <1>2, UptoLast DEF Matches
<1>5. Document(Opened(saved)) = {Read(c) : c \in Document(saved)}
  BY <1>2, <1>3, OpenedProject
<1>6. /\ Document(saved) \in SUBSET Clips /\ Document(mem) \in SUBSET Clips
      /\ Document(mem) \subseteq InUse(mem)
  BY <1>2, <1>3, InUseType
<1>7. \A d \in Document(mem) : Read(d) = d
  BY <1>2, <1>6, ReadOnDisk DEF ChangesInv, PoolInv
<1>8. ASSUME NEW c \in Document(saved)
       PROVE  Read(c) \in Document(mem)
  <2>1. PICK d \in Document(mem) : d.name = c.name
    BY <1>4 DEF Names
  <2>2. Read(c) = Read(d)
    BY <1>2, <1>6, <2>1, ReadByName
  <2>. QED
    BY <1>7, <2>2
<1>9. ASSUME NEW d \in Document(mem)
       PROVE  \E c \in Document(saved) : Read(c) = d
  <2>1. PICK c \in Document(saved) : d.name = c.name
    BY <1>4 DEF Names
  <2>2. Read(c) = Read(d)
    BY <1>2, <1>6, <2>1, ReadByName
  <2>. QED
    BY <1>7, <2>2
<1>10. Document(Opened(saved)) = Document(mem)
  BY <1>5, <1>8, <1>9
<1>. QED
  BY <1>1, <1>10 DEF saved

-----------------------------------------------------------------------------
(* Where the document in memory stands to the project on disk, at every    *)
(* step of editing, saving, failing, being killed and opening.             *)
THEOREM ChangesInvariance == Spec => []ChangesInv
<1>1. Init => ChangesInv
  BY InitChanges
<1>2. IInv /\ IInv' /\ ChangesInv /\ [Next]_vars => ChangesInv'
  BY NextChanges
<1>. QED
  BY <1>1, <1>2, Invariance, PTL DEF Spec

(* When the last action is at the address of the last action saved, what it*)
(* stands for was not freed since (~forgotten) and the save could write its*)
(* file (source # Nowhere), the directory that was saved or opened is      *)
(* finished and opens to the document in memory.                           *)
THEOREM NothingIsLost == Spec => []NothingUnsavedIsLost
<1>1. IInv /\ ChangesInv => NothingUnsavedIsLost
  BY SavedIsOpened
<1>. QED
  BY <1>1, Invariance, ChangesInvariance, PTL
=============================================================================
