--------------------- MODULE StoredFileWorkingCopyProofs ---------------------
(***************************************************************************)
(* The theorems about StoredFileWorkingCopy: the shape of the state; that  *)
(* saves never overlap; that conflict and error mean dirty; and what a     *)
(* save that clears the dirty flag, or that finds a conflict, has found on *)
(* disk.                                                                   *)
(***************************************************************************)
EXTENDS StoredFileWorkingCopy, TLAPS

\* A save that is under way is the running task, under the id it was last
\* given to run() with.  A save is queued only behind one of an older version.
SavesInv ==
    /\ copy.versionId # 0
    /\ \A s \in Slots : saves[s].phase # "none" =>
          /\ task.slot = s
          /\ task.running = saves[s].taskId
          /\ saves[s].outer # 0
          /\ saves[s].outer <= saves[s].taskId
          /\ saves[s].taskId <= copy.versionId
    /\ task.running # 0 => saves[task.slot].phase # "none"
    /\ task.queued # "none" =>
          /\ task.running # 0
          /\ task.running < copy.versionId
          /\ saves[task.slot].cancelled

\* Conflict and error mean dirty, also in the flags a failed revert restores.
FlagsInv ==
    /\ ConflictAndErrorAreDirty
    /\ revert.undo.conflict \/ revert.undo.error => revert.undo.dirty

\* A save writes what it has read from the model; as long as nothing has
\* changed since, that is what the model holds.
ContentInv ==
    \A s \in Slots :
        /\ saves[s].phase \in {"validate", "write", "stat"}
              /\ saves[s].taskId = copy.versionId
           => saves[s].content = Current.content
        /\ saves[s].phase = "stat" /\ disk.by = "us"
           => disk.content = saves[s].content

\* No stat is newer than the file; a write of a save of the working copy that
\* has not failed is known to it, unless the stat of that write is still awaited.
StatInv ==
    /\ copy.stat <= disk.mtime
    /\ resolve.mtime <= disk.mtime
    /\ disk.by = "us" /\ (\A s \in Slots : saves[s].phase # "stat")
          => copy.stat = disk.mtime
    /\ \A s \in Slots :
          saves[s].phase \in {"snapshot", "validate", "write"} /\ disk.by = "us"
          => saves[s].stat = disk.mtime

\* A forced resolve belongs to the revert that waits for it.
RevertInv ==
    resolve.force => revert.phase = "resolving"

IInv == TypeOK /\ SavesInv /\ FlagsInv /\ ContentInv /\ StatInv /\ RevertInv

-----------------------------------------------------------------------------
(* The data *)

CopyRecord == [dirty : BOOLEAN, saved : Nat, conflict : BOOLEAN, error : BOOLEAN,
               versionId : Nat, stat : Nat, ignoreDirty : BOOLEAN,
               undone : BOOLEAN, disposed : BOOLEAN]

TaskRecord == [running : Nat, slot : Slots, queued : Options \cup {"none"}]

SaveRecord == [phase : Phases, outer : Nat, taskId : Nat, options : Options,
               cancelled : BOOLEAN, stat : Nat, content : Contents]

ResolveRecord == [phase : {"idle", "reading", "read", "updating"},
                  force : BOOLEAN, versionId : Nat, etag : Nat,
                  content : Contents, mtime : Nat]

RevertRecord == [phase : {"idle", "waiting", "resolving"},
                 undo : [dirty : BOOLEAN, conflict : BOOLEAN, error : BOOLEAN,
                         saved : Nat]]

ModelRecord == [history : Seq(Versions), pos : Nat, last : Nat]

DiskRecord == [content : Contents, mtime : Nat, by : {"us", "other", "failed"}]

BudgetRecord == [calls : 0 .. MaxCalls, events : 0 .. MaxEvents]

\* The parts of the type invariant under their names.
LEMMA Types ==
    TypeOK <=> /\ model \in ModelRecord /\ model.pos \in DOMAIN model.history
               /\ copy \in CopyRecord /\ task \in TaskRecord
               /\ saves \in [Slots -> SaveRecord]
               /\ resolve \in ResolveRecord /\ revert \in RevertRecord
               /\ disk \in DiskRecord /\ notify \in BOOLEAN /\ asked \in Nat
               /\ budget \in BudgetRecord
               /\ task.queued # "none" => task.running # 0
BY DEF TypeOK, ModelRecord, CopyRecord, TaskRecord, SaveRecord, ResolveRecord,
       RevertRecord, DiskRecord, BudgetRecord

\* The same of the next state.
LEMMA TypesNext ==
    ASSUME model' \in ModelRecord, model'.pos \in DOMAIN model'.history,
           copy' \in CopyRecord, task' \in TaskRecord,
           saves' \in [Slots -> SaveRecord],
           resolve' \in ResolveRecord, revert' \in RevertRecord,
           disk' \in DiskRecord, notify' \in BOOLEAN, asked' \in Nat,
           budget' \in BudgetRecord,
           task'.queued # "none" => task'.running # 0
    PROVE  TypeOK'
BY DEF TypeOK, ModelRecord, CopyRecord, TaskRecord, SaveRecord, ResolveRecord,
       RevertRecord, DiskRecord, BudgetRecord

\* The contents that mean nothing are contents.
LEMMA NoSaveType == NoSave \in SaveRecord
<1>1. <<"edit", 0>> \in Contents
  BY DEF Contents
<1> QED BY <1>1 DEF NoSave, SaveRecord, Phases, Options

\* Likewise for the resolve that is not under way.
LEMMA NoResolveType == NoResolve \in ResolveRecord
<1>1. <<"edit", 0>> \in Contents
  BY DEF Contents
<1> QED BY <1>1 DEF NoResolve, ResolveRecord

\* Likewise for the revert that is not under way.
LEMMA NoRevertType == NoRevert \in RevertRecord
BY DEF NoRevert, NoFlags, RevertRecord

-----------------------------------------------------------------------------
(* Saves *)

\* SavesInv, of any sequentializer, saves and working copy.
SavesGood(t, sv, c) ==
    /\ c.versionId # 0
    /\ \A s \in Slots : sv[s].phase # "none" =>
          /\ t.slot = s
          /\ t.running = sv[s].taskId
          /\ sv[s].outer # 0
          /\ sv[s].outer <= sv[s].taskId
          /\ sv[s].taskId <= c.versionId
    /\ t.running # 0 => sv[t.slot].phase # "none"
    /\ t.queued # "none" =>
          /\ t.running # 0
          /\ t.running < c.versionId
          /\ sv[t.slot].cancelled

\* The first phases of a save.
EarlyPhases == {"none", "throttle", "participants", "snapshot"}

\* What the start and the end of a save leave behind: at most one save that
\* has not read anything, and the working copy as it was but for its error.
Settled(st, c) ==
    /\ st.task \in TaskRecord
    /\ st.saves \in [Slots -> SaveRecord]
    /\ st.copy \in {c, [c EXCEPT !.error = FALSE]}
    /\ SavesGood(st.task, st.saves, c)
    /\ st.task.queued = "none"
    /\ st.task.running \in {0, c.versionId}
    /\ \A s \in Slots : /\ st.saves[s].phase \in EarlyPhases
                        /\ st.saves[s].phase = "snapshot" => st.saves[s].stat = c.stat

\* The parts of such a triple.
LEMMA SettledParts ==
    ASSUME NEW t \in TaskRecord, NEW sv \in [Slots -> SaveRecord],
           NEW c, NEW d \in {c, [c EXCEPT !.error = FALSE]},
           SavesGood(t, sv, c), t.queued = "none", t.running \in {0, c.versionId},
           \A s \in Slots : /\ sv[s].phase \in EarlyPhases
                            /\ sv[s].phase = "snapshot" => sv[s].stat = c.stat
    PROVE  Settled(Saving(t, sv, d), c)
BY DEF Settled, Saving

\* Where nothing runs and nothing waits, there is nothing to be settled.
LEMMA IdleSettled ==
    ASSUME NEW t \in TaskRecord, NEW sv \in [Slots -> SaveRecord], NEW c \in CopyRecord,
           c.versionId # 0, \A s \in Slots : sv[s].phase = "none",
           t.queued = "none", t.running = 0
    PROVE  Settled(Saving(t, sv, c), c)
<1>1. SavesGood(t, sv, c)
  BY DEF SavesGood
<1>2. \A s \in Slots : /\ sv[s].phase \in EarlyPhases
                       /\ sv[s].phase = "snapshot" => sv[s].stat = c.stat
  BY DEF EarlyPhases
<1> QED BY <1>1, <1>2, SettledParts

\* doSaveSequential when nothing runs: the new save is the running task, unless
\* the working copy is disposed.
LEMMA StartSaveSettles ==
    ASSUME NEW t \in TaskRecord, NEW sv \in [Slots -> SaveRecord], NEW c \in CopyRecord,
           c.versionId # 0, \A s \in Slots : sv[s].phase = "none",
           t.queued = "none", t.running = 0,
           NEW options \in Options,
           NEW first \in {"throttle", "participants", "snapshot"}
    PROVE  Settled(StartSave(Saving(t, sv, c), options, first), c)
<1>1. 1 \in Slots /\ FreeSlot(sv) = 1
  BY DEF FreeSlot, Slots
<1> DEFINE new == [NoSave EXCEPT !.phase = first, !.outer = c.versionId,
                                 !.taskId = c.versionId, !.options = options]
           t1 == [t EXCEPT !.running = c.versionId, !.slot = 1]
           sv1 == [sv EXCEPT ![1] = new]
           started == Saving(t1, sv1, c)
<1>2. new \in SaveRecord /\ new.phase = first /\ new.taskId = c.versionId
      /\ new.outer = c.versionId
  BY NoSaveType DEF SaveRecord, CopyRecord, Phases
<1>3. t1 \in TaskRecord /\ t1.slot = 1 /\ t1.running = c.versionId /\ t1.queued = "none"
  BY <1>1 DEF TaskRecord, CopyRecord
<1>4. StartSave(Saving(t, sv, c), options, first)
        = IF first # "snapshot" THEN started
          ELSE IF c.disposed THEN Saving(t, sv, c)
          ELSE BeginSnapshot(started, 1)
  BY <1>1 DEF StartSave, Saving
<1>5. CASE first # "snapshot"
  <2>1. /\ sv1 \in [Slots -> SaveRecord] /\ sv1[1] = new
        /\ \A s \in Slots \ {1} : sv1[s] = sv[s]
    BY <1>1, <1>2
  <2>2. SavesGood(t1, sv1, c)
    BY <1>1, <1>2, <1>3, <2>1 DEF SavesGood, CopyRecord
  <2>3. ASSUME NEW s \in Slots
        PROVE  /\ sv1[s].phase \in EarlyPhases
               /\ sv1[s].phase = "snapshot" => sv1[s].stat = c.stat
    BY <1>2, <1>5, <2>1 DEF EarlyPhases
  <2>4. Settled(started, c)
    <3> HIDE DEF t1, sv1, new
    <3>1. \A s \in Slots : /\ sv1[s].phase \in EarlyPhases
                           /\ sv1[s].phase = "snapshot" => sv1[s].stat = c.stat
      BY <2>3
    <3>2. c \in {c, [c EXCEPT !.error = FALSE]} /\ t1.running \in {0, c.versionId}
      BY <1>3
    <3> QED BY <1>3, <2>1, <2>2, <3>1, <3>2, SettledParts
  <2> QED BY <1>4, <1>5, <2>4
<1>6. CASE first = "snapshot" /\ c.disposed
  <2>1. Settled(Saving(t, sv, c), c)
    BY IdleSettled
  <2> QED BY <1>4, <1>6, <2>1
<1>7. CASE first = "snapshot" /\ ~c.disposed
  <2> DEFINE sv2 == [sv1 EXCEPT ![1].phase = "snapshot", ![1].taskId = c.versionId,
                                ![1].stat = c.stat]
             t2 == [t1 EXCEPT !.running = c.versionId, !.slot = 1]
  <2>1. BeginSnapshot(started, 1) = Saving(t2, sv2, [c EXCEPT !.error = FALSE])
    BY DEF BeginSnapshot, Saving
  <2>2. t2 = t1
    BY <1>3 DEF TaskRecord
  <2>3. /\ sv2 \in [Slots -> SaveRecord]
        /\ sv2[1].phase = "snapshot" /\ sv2[1].taskId = c.versionId
        /\ sv2[1].outer = c.versionId /\ sv2[1].stat = c.stat
        /\ \A s \in Slots \ {1} : sv2[s] = sv[s]
    <3> DEFINE last == [new EXCEPT !.phase = "snapshot", !.taskId = c.versionId,
                                   !.stat = c.stat]
    <3> HIDE DEF new
    <3>1. sv1 = [sv EXCEPT ![1] = new] /\ sv1[1] = new
      BY <1>1
    <3>2. last \in SaveRecord
      BY <1>2 DEF SaveRecord, CopyRecord, Phases
    <3>3. /\ last.phase = "snapshot" /\ last.taskId = c.versionId
          /\ last.outer = c.versionId /\ last.stat = c.stat
      BY <1>2 DEF SaveRecord
    <3>4. sv2 = [sv EXCEPT ![1] = last]
      BY <1>1, <3>1
    <3> HIDE DEF last, sv2, sv1
    <3> QED BY <1>1, <3>2, <3>3, <3>4
  <2> HIDE DEF t2, sv2, t1, sv1, new
  <2>4. SavesGood(t2, sv2, c)
    BY <1>1, <1>3, <2>2, <2>3 DEF SavesGood, CopyRecord
  <2>5. ASSUME NEW s \in Slots
        PROVE  /\ sv2[s].phase \in EarlyPhases
               /\ sv2[s].phase = "snapshot" => sv2[s].stat = c.stat
    BY <2>3 DEF EarlyPhases
  <2>6. Settled(Saving(t2, sv2, [c EXCEPT !.error = FALSE]), c)
    BY <1>3, <2>2, <2>3, <2>4, <2>5, SettledParts
  <2> QED BY <1>4, <1>7, <2>1, <2>6
<1> QED BY <1>5, <1>6, <1>7

\* doSave when nothing runs.
LEMMA DoSaveSettles ==
    ASSUME NEW t \in TaskRecord, NEW sv \in [Slots -> SaveRecord], NEW c \in CopyRecord,
           c.versionId # 0, \A s \in Slots : sv[s].phase = "none",
           t.queued = "none", t.running = 0,
           NEW options \in Options,
           NEW first \in {"throttle", "participants", "snapshot"}
    PROVE  Settled(DoSave(Saving(t, sv, c), options, first), c)
<1>1. Settled(StartSave(Saving(t, sv, c), options, first), c)
  BY StartSaveSettles
<1>2. Settled(Saving(t, sv, c), c)
  BY IdleSettled
<1> QED BY <1>1, <1>2 DEF DoSave

\* The sequentializer becomes free: what was queued runs.
LEMMA DoneRunningSettles ==
    ASSUME NEW t \in TaskRecord, NEW sv \in [Slots -> SaveRecord], NEW c \in CopyRecord,
           c.versionId # 0, \A s \in Slots : sv[s].phase = "none",
           NEW first \in {"throttle", "participants", "snapshot"}
    PROVE  LET st == DoneRunning(Saving(t, sv, c), t.running, first)
           IN /\ Settled(st, c)
              /\ t.queued = "none" => st.task.running = 0
<1> DEFINE free == Saving([t EXCEPT !.running = 0], sv, c)
           next == Saving([t EXCEPT !.running = 0, !.queued = "none"], sv, c)
<1>1. DoneRunning(Saving(t, sv, c), t.running, first) = RunQueued(free, first)
  BY DEF DoneRunning, Saving
<1>2. /\ [t EXCEPT !.running = 0] \in TaskRecord
      /\ [t EXCEPT !.running = 0].running = 0
      /\ [t EXCEPT !.running = 0].queued = t.queued
  BY DEF TaskRecord
<1>3. CASE t.queued = "none"
  <2>1. RunQueued(free, first) = free
    BY <1>2, <1>3 DEF RunQueued, Saving
  <2>2. Settled(free, c)
    BY <1>2, <1>3, IdleSettled
  <2>3. free.task.running = 0
    BY <1>2 DEF Saving
  <2> HIDE DEF free
  <2> QED BY <1>1, <2>1, <2>2, <2>3
<1>4. CASE t.queued # "none"
  <2>1. RunQueued(free, first) = DoSave(next, t.queued, first)
    BY <1>2, <1>4 DEF RunQueued, Saving, TaskRecord
  <2>2. t.queued \in Options
    BY <1>4 DEF TaskRecord
  <2>3. /\ [t EXCEPT !.running = 0, !.queued = "none"] \in TaskRecord
        /\ [t EXCEPT !.running = 0, !.queued = "none"].running = 0
        /\ [t EXCEPT !.running = 0, !.queued = "none"].queued = "none"
    BY DEF TaskRecord
  <2>4. Settled(DoSave(next, t.queued, first), c)
    BY <2>2, <2>3, DoSaveSettles
  <2> QED BY <1>1, <1>4, <2>1, <2>4
<1> QED BY <1>3, <1>4

\* The end of a save: doneRunning frees the sequentializer for the id of the
\* inner run(), and finds another save, or none, for the id of the outer one.
LEMMA EndSaveSettles ==
    ASSUME TypeOK, SavesInv,
           NEW s \in Slots, saves[s].phase # "none",
           NEW c \in CopyRecord, c.versionId = copy.versionId,
           EndSave(s, c)
    PROVE  Settled(Saving(task', saves', copy'), c)
<1> DEFINE sv == [saves EXCEPT ![s] = NoSave]
<1>1. /\ task \in TaskRecord /\ saves \in [Slots -> SaveRecord] /\ copy \in CopyRecord
  BY Types
<1>2. /\ sv \in [Slots -> SaveRecord] /\ \A r \in Slots : sv[r].phase = "none"
  <2>1. sv[s].phase = "none"
    BY <1>1 DEF NoSave
  <2>2. \A r \in Slots \ {s} : saves[r].phase = "none" /\ sv[r] = saves[r]
    BY <1>1 DEF SavesInv
  <2> QED BY <1>1, <2>1, <2>2, NoSaveType
<1>3. /\ task.running = saves[s].taskId /\ saves[s].outer # 0
      /\ saves[s].outer <= saves[s].taskId
      /\ task.queued # "none" => saves[s].taskId < c.versionId
      /\ c.versionId # 0
      /\ saves[s].outer \in Nat /\ saves[s].taskId \in Nat /\ c.versionId \in Nat
  BY <1>1 DEF SavesInv, SaveRecord, CopyRecord
<1>4. PICK first \in FirstPhases(c, task.queued) :
        LET st == DoneRunning(Saving(task, sv, c), saves[s].taskId, first)
        IN Become(IF saves[s].phase \in {"throttle", "participants"} THEN st
                  ELSE DoneRunning(st, saves[s].outer, first))
  BY DEF EndSave
<1> DEFINE st == DoneRunning(Saving(task, sv, c), saves[s].taskId, first)
<1>5. first \in {"throttle", "participants", "snapshot"}
  BY DEF FirstPhases
<1> HIDE DEF sv
<1>6. Settled(st, c) /\ (task.queued = "none" => st.task.running = 0)
  BY <1>1, <1>2, <1>3, <1>5, DoneRunningSettles
<1> HIDE DEF st
<1>7. st.task.running # saves[s].outer
  BY <1>3, <1>6 DEF Settled
<1>8. Become(st)
  BY <1>4, <1>7 DEF DoneRunning, st
<1>9. /\ task' = st.task /\ saves' = st.saves /\ copy' = st.copy
  BY <1>8 DEF Become
<1> QED BY <1>6, <1>9 DEF Settled, Saving

-----------------------------------------------------------------------------
(* The steps that end a save *)

\* A step that starts or ends a save keeps the invariant if the flags and the stat of
\* the working copy it leaves are right.
LEMMA SettledStep ==
    ASSUME IInv, NEW c \in CopyRecord,
           Settled(Saving(task', saves', copy'), c),
           ~c.disposed /\ (c.conflict \/ c.error) => c.dirty,
           c.stat <= disk'.mtime, resolve.mtime <= disk'.mtime,
           disk'.by = "us" => c.stat = disk'.mtime,
           disk' \in DiskRecord, notify' \in BOOLEAN, asked' \in Nat,
           budget' \in BudgetRecord, UNCHANGED <<model, resolve, revert>>
    PROVE  IInv'
<1>2. /\ task' \in TaskRecord /\ saves' \in [Slots -> SaveRecord]
      /\ copy' \in {c, [c EXCEPT !.error = FALSE]}
      /\ SavesGood(task', saves', c)
      /\ task'.queued = "none"
      /\ \A r \in Slots : /\ saves'[r].phase \in EarlyPhases
                          /\ saves'[r].phase = "snapshot" => saves'[r].stat = c.stat
  BY DEF Settled, Saving
<1>3. /\ copy' \in CopyRecord /\ copy'.versionId = c.versionId /\ copy'.stat = c.stat
      /\ copy'.dirty = c.dirty /\ copy'.conflict = c.conflict
      /\ copy'.disposed = c.disposed /\ (copy'.error => c.error)
  BY <1>2 DEF CopyRecord
<1>4. TypeOK'
  BY <1>2, <1>3, Types, TypesNext DEF IInv
<1>5. SavesInv'
  BY <1>2, <1>3 DEF SavesInv, SavesGood
<1>6. FlagsInv'
  BY <1>3 DEF IInv, FlagsInv, ConflictAndErrorAreDirty
<1>7. ContentInv'
  BY <1>2 DEF ContentInv, EarlyPhases
<1>8. StatInv'
  BY <1>2, <1>3 DEF StatInv, EarlyPhases
<1>9. RevertInv'
  BY DEF IInv, RevertInv
<1> QED BY <1>4, <1>5, <1>6, <1>7, <1>8, <1>9 DEF IInv

\* The end of a save is such a step.
LEMMA EndStep ==
    ASSUME IInv,
           NEW s \in Slots, saves[s].phase # "none",
           NEW c \in CopyRecord, c.versionId = copy.versionId,
           EndSave(s, c),
           ~c.disposed /\ (c.conflict \/ c.error) => c.dirty,
           c.stat <= disk'.mtime, resolve.mtime <= disk'.mtime,
           disk'.by = "us" => c.stat = disk'.mtime,
           disk' \in DiskRecord, notify' \in BOOLEAN, asked' \in Nat,
           budget' \in BudgetRecord, UNCHANGED <<model, resolve, revert>>
    PROVE  IInv'
<1>1. Settled(Saving(task', saves', copy'), c)
  BY EndSaveSettles DEF IInv
<1> QED BY <1>1, SettledStep

\* What is known of the working copy as long as a save has not written.
LEMMA BeforeWrite ==
    ASSUME IInv, NEW s \in Slots, saves[s].phase \notin {"none", "stat"}
    PROVE  /\ copy \in CopyRecord
           /\ disk.by = "us" => copy.stat = disk.mtime
           /\ copy.stat <= disk.mtime /\ resolve.mtime <= disk.mtime
           /\ ~copy.disposed /\ (copy.conflict \/ copy.error) => copy.dirty
           /\ disk \in DiskRecord /\ notify \in BOOLEAN /\ asked \in Nat
           /\ budget \in BudgetRecord
<1>1. \A r \in Slots : saves[r].phase # "stat"
  BY DEF IInv, SavesInv
<1> QED BY <1>1, Types DEF IInv, StatInv, FlagsInv, ConflictAndErrorAreDirty

\* handleSaveError: the working copy becomes dirty and keeps its stat.
LEMMA ErrorEffect ==
    ASSUME copy \in CopyRecord, NEW conflict \in BOOLEAN
    PROVE  LET c == [copy EXCEPT !.dirty = @ \/ ~copy.disposed, !.error = TRUE,
                                 !.conflict = @ \/ conflict]
           IN /\ c \in CopyRecord /\ c.versionId = copy.versionId /\ c.stat = copy.stat
              /\ ~c.disposed => c.dirty
              /\ copy.dirty => c.dirty
              /\ ~copy.conflict /\ ~conflict => ~c.conflict
BY DEF CopyRecord

\* SnapshotFails, Validate and WriteFails, handleSaveError included.
LEMMA SaveErrorStep ==
    ASSUME IInv, NEW s \in Slots, saves[s].phase \in {"snapshot", "validate", "write"},
           NEW conflict \in BOOLEAN, HandleSaveError(s, conflict),
           disk' \in DiskRecord, disk.mtime <= disk'.mtime,
           disk' = disk \/ disk'.by # "us",
           notify' \in BOOLEAN, budget' \in BudgetRecord,
           UNCHANGED <<model, resolve, revert>>
    PROVE  IInv'
<1> DEFINE c == [copy EXCEPT !.dirty = @ \/ ~copy.disposed, !.error = TRUE,
                             !.conflict = @ \/ conflict]
<1>1. saves[s].phase \notin {"none", "stat"}
  OBVIOUS
<1>2. EndSave(s, c) /\ asked' = 0
  BY DEF HandleSaveError
<1>3. copy \in CopyRecord
  BY <1>1, BeforeWrite
<1>4. /\ c \in CopyRecord /\ c.versionId = copy.versionId /\ c.stat = copy.stat
      /\ ~c.disposed => c.dirty
  BY <1>3, ErrorEffect
<1>5. /\ c.stat <= disk'.mtime /\ resolve.mtime <= disk'.mtime
      /\ disk'.by = "us" => c.stat = disk'.mtime
  BY <1>1, <1>4, BeforeWrite, Types DEF IInv, CopyRecord, DiskRecord, ResolveRecord
<1> HIDE DEF c
<1> QED BY <1>1, <1>2, <1>4, <1>5, EndStep

\* What is spent was there.
LEMMA SpendType ==
    ASSUME budget \in BudgetRecord, NEW what \in {"calls", "events"},
           Spend(what)
    PROVE  budget' \in BudgetRecord
BY BoundsAssumption DEF Spend, BudgetRecord

\* A save has reached one of the steps it ends at because it was cancelled.
LEMMA CancelledStep ==
    ASSUME IInv, NEW s \in Slots,
           saves[s].phase \in {"throttle", "participants", "snapshot"},
           EndSave(s, copy),
           UNCHANGED <<model, resolve, revert, disk, notify, asked, budget>>
    PROVE  IInv'
<1>1. saves[s].phase \notin {"none", "stat"}
  OBVIOUS
<1> QED BY <1>1, BeforeWrite, EndStep

\* A step of one save that is not its end: the others are not under way.
LEMMA OtherSavesIdle ==
    ASSUME IInv, NEW s \in Slots, saves[s].phase # "none"
    PROVE  /\ saves \in [Slots -> SaveRecord]
           /\ \A r \in Slots \ {s} : saves[r].phase = "none"
BY Types DEF IInv, SavesInv

\* ThrottleDone
LEMMA ThrottleDoneStep ==
    ASSUME IInv, NEW s \in Slots, ThrottleDone(s)
    PROVE  IInv'
<1>1. CASE saves[s].cancelled
  BY <1>1, CancelledStep DEF ThrottleDone
<1>2. CASE ~saves[s].cancelled
  <2>1. /\ saves[s].phase = "throttle"
        /\ saves' = [saves EXCEPT ![s].phase = "participants"]
        /\ UNCHANGED <<copy, task, model, resolve, revert, disk, notify, asked, budget>>
    BY <1>2 DEF ThrottleDone
  <2>2. saves' \in [Slots -> SaveRecord]
        /\ \A r \in Slots : saves'[r] = IF r = s THEN [saves[s] EXCEPT !.phase = "participants"]
                                        ELSE saves[r]
    BY <2>1, Types DEF IInv, SaveRecord, Phases
  <2>3. TypeOK'
    BY <2>1, <2>2, Types, TypesNext DEF IInv
  <2>4. SavesInv'
    BY <2>1, <2>2, Types DEF IInv, SavesInv, SaveRecord
  <2>5. ContentInv' /\ StatInv'
    BY <2>1, <2>2, Types DEF IInv, ContentInv, StatInv, SaveRecord, Current
  <2>6. FlagsInv' /\ RevertInv'
    BY <2>1 DEF IInv, FlagsInv, ConflictAndErrorAreDirty, RevertInv
  <2> QED BY <2>3, <2>4, <2>5, <2>6 DEF IInv
<1> QED BY <1>1, <1>2

\* ParticipantsDone: run() is called again, with the version of now; nobody is
\* queued, since a save that somebody waits for is cancelled.
LEMMA ParticipantsDoneStep ==
    ASSUME IInv, NEW s \in Slots, ParticipantsDone(s)
    PROVE  IInv'
<1>0. saves[s].phase = "participants"
  BY DEF ParticipantsDone
<1>1. CASE saves[s].cancelled \/ copy.disposed
  BY <1>0, <1>1, CancelledStep DEF ParticipantsDone
<1>2. CASE ~(saves[s].cancelled \/ copy.disposed)
  <2>1. /\ task' = [task EXCEPT !.running = copy.versionId, !.slot = s]
        /\ saves' = [saves EXCEPT ![s].phase = "snapshot", ![s].taskId = copy.versionId,
                                  ![s].stat = copy.stat]
        /\ copy' = [copy EXCEPT !.error = FALSE]
        /\ UNCHANGED <<model, resolve, revert, disk, notify, asked, budget>>
    BY <1>2 DEF ParticipantsDone, BeginSnapshot, Become, Saving
  <2>2. /\ task \in TaskRecord /\ saves \in [Slots -> SaveRecord] /\ copy \in CopyRecord
    BY Types DEF IInv
  <2>3. /\ saves' \in [Slots -> SaveRecord]
        /\ saves'[s].phase = "snapshot" /\ saves'[s].taskId = copy.versionId
        /\ saves'[s].stat = copy.stat /\ saves'[s].outer = saves[s].outer
        /\ \A r \in Slots \ {s} : saves'[r] = saves[r] /\ saves'[r].phase = "none"
    <3>1. copy.versionId \in Nat /\ copy.stat \in Nat /\ saves[s] \in SaveRecord
      BY <2>2 DEF CopyRecord
    <3>2. saves'[s] = [saves[s] EXCEPT !.phase = "snapshot", !.taskId = copy.versionId,
                                       !.stat = copy.stat]
      BY <2>1, <2>2
    <3>3. /\ saves'[s] \in SaveRecord
          /\ saves'[s].phase = "snapshot" /\ saves'[s].taskId = copy.versionId
          /\ saves'[s].stat = copy.stat /\ saves'[s].outer = saves[s].outer
      BY <3>1, <3>2 DEF SaveRecord, Phases
    <3>4. \A r \in Slots \ {s} : saves'[r] = saves[r] /\ saves'[r].phase = "none"
      BY <1>0, <2>1, <2>2, OtherSavesIdle
    <3>5. saves' = [r \in Slots |-> IF r = s THEN saves'[s] ELSE saves[r]]
      BY <2>1, <2>2
    <3> QED BY <2>2, <3>3, <3>4, <3>5
  <2>4. /\ task' \in TaskRecord /\ task'.running = copy.versionId /\ task'.slot = s
        /\ task'.queued = "none"
    <3>1. task.queued = "none"
      BY <1>0, <1>2 DEF IInv, SavesInv
    <3> QED BY <2>1, <2>2, <3>1 DEF TaskRecord, CopyRecord
  <2>5. /\ copy' \in CopyRecord /\ copy'.versionId = copy.versionId
        /\ copy'.stat = copy.stat /\ copy'.dirty = copy.dirty
        /\ copy'.conflict = copy.conflict /\ ~copy'.error
        /\ copy'.disposed = copy.disposed
    BY <2>1, <2>2 DEF CopyRecord
  <2>6. TypeOK'
    BY <2>1, <2>3, <2>4, <2>5, Types, TypesNext DEF IInv
  <2>7. SavesInv'
    <3>1. saves[s].outer # 0 /\ saves[s].outer <= copy.versionId /\ copy.versionId # 0
      BY <1>0, <2>2 DEF IInv, SavesInv, SaveRecord, CopyRecord
    <3> QED BY <2>2, <2>3, <2>4, <2>5, <3>1 DEF SavesInv, CopyRecord
  <2>8. StatInv'
    <3>1. /\ disk.by = "us" => copy.stat = disk.mtime
          /\ copy.stat <= disk.mtime /\ resolve.mtime <= disk.mtime
      BY <1>0, BeforeWrite
    <3> QED BY <2>1, <2>3, <2>5, <3>1 DEF StatInv
  <2>9. ContentInv'
    BY <2>3 DEF ContentInv
  <2>10. FlagsInv' /\ RevertInv'
    BY <2>1, <2>5 DEF IInv, FlagsInv, ConflictAndErrorAreDirty, RevertInv
  <2> QED BY <2>6, <2>7, <2>8, <2>9, <2>10 DEF IInv
<1> QED BY <1>1, <1>2

\* The model holds a version.
LEMMA CurrentType ==
    ASSUME model \in ModelRecord, model.pos \in DOMAIN model.history
    PROVE  Current.content \in Contents /\ Current.id \in Nat
<1>1. model.history \in Seq(Versions)
  BY DEF ModelRecord
<1>2. Current \in Versions
  BY <1>1 DEF Current
<1> QED BY <1>2 DEF Versions

\* SnapshotDone
LEMMA SnapshotDoneStep ==
    ASSUME IInv, NEW s \in Slots, SnapshotDone(s)
    PROVE  IInv'
<1>0. saves[s].phase = "snapshot"
  BY DEF SnapshotDone
<1>1. CASE saves[s].cancelled
  BY <1>0, <1>1, CancelledStep DEF SnapshotDone
<1>2. CASE ~saves[s].cancelled
  <2>1. /\ saves' = [saves EXCEPT ![s].phase = "validate", ![s].content = Current.content]
        /\ UNCHANGED <<copy, task, model, resolve, revert, disk, notify, asked, budget>>
    BY <1>2 DEF SnapshotDone
  <2>2. Current.content \in Contents /\ Current' = Current
    BY <2>1, Types, CurrentType DEF IInv, Current
  <2>3. /\ saves' \in [Slots -> SaveRecord]
        /\ \A r \in Slots \ {s} : saves'[r] = saves[r]
        /\ saves'[s] = [saves[s] EXCEPT !.phase = "validate", !.content = Current.content]
    BY <2>1, <2>2, Types, ZenonT(40) DEF IInv, SaveRecord, Phases
  <2>4. TypeOK'
    BY <2>1, <2>3, Types, TypesNext DEF IInv
  <2>5. SavesInv'
    BY <2>1, <2>3, <1>0, Types DEF IInv, SavesInv, SaveRecord
  <2>6. ContentInv'
    BY <2>1, <2>2, <2>3, <1>0, Types DEF IInv, ContentInv, SaveRecord
  <2>7. StatInv'
    BY <2>1, <2>3, <1>0, Types DEF IInv, StatInv, SaveRecord
  <2>8. FlagsInv' /\ RevertInv'
    BY <2>1 DEF IInv, FlagsInv, ConflictAndErrorAreDirty, RevertInv
  <2> QED BY <2>4, <2>5, <2>6, <2>7, <2>8 DEF IInv
<1> QED BY <1>1, <1>2

\* SnapshotFails
LEMMA SnapshotFailsStep ==
    ASSUME IInv, NEW s \in Slots, SnapshotFails(s)
    PROVE  IInv'
<1>1. /\ saves[s].phase = "snapshot" /\ Spend("events")
      /\ HandleSaveError(s, FALSE)
      /\ UNCHANGED <<model, resolve, revert, disk, notify>>
  BY DEF SnapshotFails
<1>2. disk \in DiskRecord /\ notify \in BOOLEAN /\ budget' \in BudgetRecord
      /\ disk.mtime <= disk'.mtime
  BY <1>1, Types, SpendType DEF IInv, DiskRecord
<1> QED BY <1>1, <1>2, SaveErrorStep

\* Validate
LEMMA ValidateStep ==
    ASSUME IInv, NEW s \in Slots, Validate(s)
    PROVE  IInv'
<1>0. saves[s].phase = "validate"
  BY DEF Validate
<1>1. CASE HandleSaveError(s, TRUE)
  <2>1. UNCHANGED <<model, resolve, revert, disk, notify, budget>>
    BY DEF Validate
  <2>2. disk \in DiskRecord /\ notify \in BOOLEAN /\ budget \in BudgetRecord
        /\ disk.mtime <= disk'.mtime
    BY <2>1, Types DEF IInv, DiskRecord
  <2> QED BY <1>0, <1>1, <2>1, <2>2, SaveErrorStep
<1>2. CASE saves' = [saves EXCEPT ![s].phase = "write"] /\ UNCHANGED <<copy, task, asked>>
  <2>1. /\ saves' = [saves EXCEPT ![s].phase = "write"]
        /\ UNCHANGED <<copy, task, asked, model, resolve, revert, disk, notify, budget>>
    BY <1>2 DEF Validate
  <2>2. /\ saves' \in [Slots -> SaveRecord]
        /\ \A r \in Slots \ {s} : saves'[r] = saves[r]
        /\ saves'[s] = [saves[s] EXCEPT !.phase = "write"]
    BY <2>1, Types DEF IInv, SaveRecord, Phases
  <2>3. TypeOK'
    BY <2>1, <2>2, Types, TypesNext DEF IInv
  <2>4. SavesInv'
    BY <2>1, <2>2, <1>0, Types DEF IInv, SavesInv, SaveRecord
  <2>5. ContentInv' /\ StatInv'
    BY <2>1, <2>2, <1>0, Types DEF IInv, ContentInv, StatInv, SaveRecord, Current
  <2>6. FlagsInv' /\ RevertInv'
    BY <2>1 DEF IInv, FlagsInv, ConflictAndErrorAreDirty, RevertInv
  <2> QED BY <2>3, <2>4, <2>5, <2>6 DEF IInv
<1> QED BY <1>1, <1>2 DEF Validate

\* Write
LEMMA WriteStep ==
    ASSUME IInv, NEW s \in Slots, Write(s)
    PROVE  IInv'
<1>1. /\ saves[s].phase = "write"
      /\ disk' = [content |-> saves[s].content, mtime |-> disk.mtime + 1, by |-> "us"]
      /\ saves' = [saves EXCEPT ![s].phase = "stat"]
      /\ notify' = TRUE
      /\ UNCHANGED <<model, copy, task, resolve, revert, asked, budget>>
  BY DEF Write
<1>2. /\ saves' \in [Slots -> SaveRecord]
      /\ \A r \in Slots \ {s} : saves'[r] = saves[r] /\ saves'[r].phase = "none"
      /\ saves'[s] = [saves[s] EXCEPT !.phase = "stat"]
      /\ saves[s] \in SaveRecord
  BY <1>1, Types, OtherSavesIdle DEF IInv, SaveRecord, Phases
<1>3. disk' \in DiskRecord /\ disk' .mtime = disk.mtime + 1 /\ disk.mtime \in Nat
      /\ disk'.content = saves[s].content
  BY <1>1, <1>2, Types DEF IInv, SaveRecord, DiskRecord
<1>4. TypeOK'
  BY <1>1, <1>2, <1>3, Types, TypesNext DEF IInv
<1>5. SavesInv'
  BY <1>1, <1>2, Types DEF IInv, SavesInv, SaveRecord
<1>6. ContentInv'
  BY <1>1, <1>2, <1>3 DEF IInv, ContentInv, SaveRecord, Current
<1>7. StatInv'
  <2>1. copy.stat \in Nat /\ resolve.mtime \in Nat
    BY Types DEF IInv, CopyRecord, ResolveRecord
  <2>2. saves'[s].phase = "stat"
    BY <1>2 DEF SaveRecord
  <2> QED BY <1>1, <1>2, <1>3, <2>1, <2>2 DEF IInv, StatInv
<1>8. FlagsInv' /\ RevertInv'
  BY <1>1 DEF IInv, FlagsInv, ConflictAndErrorAreDirty, RevertInv
<1> QED BY <1>4, <1>5, <1>6, <1>7, <1>8 DEF IInv

\* WriteFails
LEMMA WriteFailsStep ==
    ASSUME IInv, NEW s \in Slots, NEW truncated \in BOOLEAN, WriteFails(s, truncated)
    PROVE  IInv'
<1>1. /\ saves[s].phase = "write"
      /\ Spend("events")
      /\ disk' = IF truncated
                 THEN [content |-> <<"broken", disk.mtime + 1>>,
                       mtime |-> disk.mtime + 1, by |-> "failed"]
                 ELSE disk
      /\ notify' = (notify \/ truncated)
      /\ HandleSaveError(s, FALSE)
      /\ UNCHANGED <<model, resolve, revert>>
  BY DEF WriteFails
<1>2. budget' \in BudgetRecord /\ notify' \in BOOLEAN
  BY <1>1, Types, SpendType DEF IInv
<1>3. disk' \in DiskRecord /\ disk.mtime <= disk'.mtime /\ (disk' = disk \/ disk'.by # "us")
  <2>1. disk \in DiskRecord /\ disk.mtime \in Nat
    BY Types DEF IInv, DiskRecord
  <2>2. <<"broken", disk.mtime + 1>> \in Contents
    BY <2>1 DEF Contents
  <2> QED BY <1>1, <2>1, <2>2 DEF DiskRecord
<1> QED BY <1>1, <1>2, <1>3, SaveErrorStep

\* handleSaveSuccess keeps the version and takes over the stat.
LEMMA SuccessEffect ==
    ASSUME IInv, NEW taskId \in Nat
    PROVE  LET c == HandleSaveSuccess(copy, taskId)
           IN /\ c \in CopyRecord /\ c.versionId = copy.versionId
              /\ c.stat = disk.mtime /\ c.disposed = copy.disposed
              /\ ~c.disposed /\ (c.conflict \/ c.error) => c.dirty
              /\ c.conflict => copy.conflict
              /\ copy.dirty /\ ~c.dirty => taskId = copy.versionId
<1> DEFINE c1 == UpdateLastResolvedFileStat(copy, disk.mtime)
<1>1. /\ copy \in CopyRecord /\ disk.mtime \in Nat /\ copy.stat <= disk.mtime
      /\ Current.id \in Nat
      /\ ~copy.disposed /\ (copy.conflict \/ copy.error) => copy.dirty
  BY Types, CurrentType DEF IInv, StatInv, DiskRecord, FlagsInv, ConflictAndErrorAreDirty
<1>2. c1 = [copy EXCEPT !.stat = disk.mtime]
  BY <1>1 DEF UpdateLastResolvedFileStat
<1>3. CASE taskId = copy.versionId /\ ~copy.disposed
  <2>1. HandleSaveSuccess(copy, taskId)
          = [c1 EXCEPT !.dirty = FALSE, !.conflict = FALSE, !.error = FALSE,
                       !.saved = Current.id]
    BY <1>3 DEF HandleSaveSuccess, SetDirty
  <2> QED BY <1>1, <1>2, <1>3, <2>1, ZenonT(40) DEF CopyRecord
<1>4. CASE ~(taskId = copy.versionId /\ ~copy.disposed)
  <2>1. HandleSaveSuccess(copy, taskId) = c1
    BY <1>4 DEF HandleSaveSuccess
  <2> QED BY <1>1, <1>2, <2>1 DEF CopyRecord
<1> QED BY <1>3, <1>4

\* StatDone
LEMMA StatDoneStep ==
    ASSUME IInv, NEW s \in Slots, StatDone(s)
    PROVE  IInv'
<1> DEFINE c == HandleSaveSuccess(copy, saves[s].taskId)
<1>1. /\ saves[s].phase = "stat"
      /\ EndSave(s, c)
      /\ asked' = IF asked <= saves[s].taskId THEN 0 ELSE asked
      /\ UNCHANGED <<model, resolve, revert, disk, notify, budget>>
  BY DEF StatDone
<1>2. /\ c \in CopyRecord /\ c.versionId = copy.versionId /\ c.stat = disk.mtime
      /\ ~c.disposed /\ (c.conflict \/ c.error) => c.dirty
  <2>1. saves[s].taskId \in Nat
    BY Types DEF IInv, SaveRecord
  <2> QED BY <2>1, SuccessEffect
<1>3. /\ disk \in DiskRecord /\ notify \in BOOLEAN /\ asked' \in Nat
      /\ budget \in BudgetRecord /\ resolve.mtime <= disk.mtime /\ c.stat <= disk.mtime
  BY <1>1, <1>2, Types DEF IInv, StatInv, DiskRecord
<1> HIDE DEF c
<1> QED BY <1>1, <1>2, <1>3, EndStep

\* StatFails: the write that the working copy does not hear of is not one of a
\* save that has succeeded.
LEMMA StatFailsStep ==
    ASSUME IInv, NEW s \in Slots, StatFails(s)
    PROVE  IInv'
<1> DEFINE c == [copy EXCEPT !.dirty = @ \/ ~copy.disposed, !.error = TRUE,
                             !.conflict = @ \/ FALSE]
<1>1. /\ saves[s].phase = "stat" /\ Spend("events")
      /\ disk' = [disk EXCEPT !.by = IF @ = "us" THEN "failed" ELSE @]
      /\ EndSave(s, c) /\ asked' = 0
      /\ UNCHANGED <<model, resolve, revert, notify>>
  BY DEF StatFails, HandleSaveError
<1>2. /\ copy \in CopyRecord /\ disk \in DiskRecord /\ notify \in BOOLEAN
      /\ copy.stat <= disk.mtime /\ resolve.mtime <= disk.mtime
  BY Types DEF IInv, StatInv
<1>3. budget' \in BudgetRecord
  BY <1>1, Types, SpendType DEF IInv
<1>4. disk' \in DiskRecord /\ disk'.mtime = disk.mtime /\ disk'.by # "us"
  BY <1>1, <1>2 DEF DiskRecord
<1>5. /\ c \in CopyRecord /\ c.versionId = copy.versionId /\ c.stat = copy.stat
      /\ ~c.disposed => c.dirty
  BY <1>2, ErrorEffect
<1> HIDE DEF c
<1> QED BY <1>1, <1>2, <1>3, <1>4, <1>5, EndStep

\* CancelSave
LEMMA CancelSaveStep ==
    ASSUME IInv, NEW s \in Slots, CancelSave(s)
    PROVE  IInv'
<1>1. /\ Spend("events")
      /\ saves' = [saves EXCEPT ![s].cancelled = TRUE]
      /\ asked' = 0
      /\ UNCHANGED <<model, copy, task, resolve, revert, disk, notify>>
  BY DEF CancelSave
<1>2. /\ saves' \in [Slots -> SaveRecord]
      /\ \A r \in Slots \ {s} : saves'[r] = saves[r]
      /\ saves'[s] = [saves[s] EXCEPT !.cancelled = TRUE]
  BY <1>1, Types DEF IInv, SaveRecord
<1>3. budget' \in BudgetRecord
  BY <1>1, Types, SpendType DEF IInv
<1>4. TypeOK'
  BY <1>1, <1>2, <1>3, Types, TypesNext DEF IInv
<1>5. SavesInv'
  BY <1>1, <1>2, Types DEF IInv, SavesInv, SaveRecord
<1>6. ContentInv' /\ StatInv'
  BY <1>1, <1>2, Types DEF IInv, ContentInv, StatInv, SaveRecord, Current
<1>7. FlagsInv' /\ RevertInv'
  BY <1>1 DEF IInv, FlagsInv, ConflictAndErrorAreDirty, RevertInv
<1> QED BY <1>4, <1>5, <1>6, <1>7 DEF IInv

\* Save: joined, queued behind an older version, or started.
LEMMA SaveStep ==
    ASSUME IInv, NEW options \in Options, Save(options)
    PROVE  IInv'
<1>1. /\ Spend("calls")
      /\ asked' \in {asked, copy.versionId}
      /\ UNCHANGED <<model, resolve, revert, disk, notify>>
  BY DEF Save
<1>2. budget' \in BudgetRecord /\ asked' \in Nat
  BY <1>1, Types, SpendType DEF IInv, CopyRecord
<1>3. /\ task \in TaskRecord /\ saves \in [Slots -> SaveRecord] /\ copy \in CopyRecord
      /\ copy.versionId # 0
  BY Types DEF IInv, SavesInv
<1>4. CASE UNCHANGED <<copy, task, saves>>
  <2>1. TypeOK'
    BY <1>1, <1>2, <1>4, Types, TypesNext DEF IInv
  <2> QED BY <1>1, <1>4, <2>1 DEF IInv, SavesInv, FlagsInv, ConflictAndErrorAreDirty,
                                  ContentInv, StatInv, RevertInv, Current
<1>5. CASE /\ ~Joins
           /\ task.running # 0
           /\ task' = [task EXCEPT !.queued = options]
           /\ saves' = [saves EXCEPT ![task.slot].cancelled = TRUE]
           /\ UNCHANGED copy
  <2> DEFINE s == task.slot
  <2>1. s \in Slots
    BY <1>3 DEF TaskRecord
  <2>2. /\ saves' \in [Slots -> SaveRecord]
        /\ \A r \in Slots \ {s} : saves'[r] = saves[r]
        /\ saves'[s] = [saves[s] EXCEPT !.cancelled = TRUE]
        /\ saves[s] \in SaveRecord
    BY <1>3, <1>5, <2>1 DEF SaveRecord
  <2>3. /\ task' \in TaskRecord /\ task'.slot = s /\ task'.running = task.running
    BY <1>3, <1>5 DEF TaskRecord
  <2>4. task.running < copy.versionId
    <3>1. /\ task.running = saves[s].taskId /\ saves[s].taskId <= copy.versionId
          /\ task.running # copy.versionId
      BY <1>5, <2>1 DEF IInv, SavesInv, Joins
    <3> QED BY <1>3, <2>2, <3>1, SMTT(40) DEF SaveRecord, CopyRecord
  <2> HIDE DEF s
  <2>5. TypeOK'
    BY <1>1, <1>2, <1>3, <1>5, <2>2, <2>3, Types, TypesNext DEF IInv
  <2>6. SavesInv'
    BY <1>5, <2>1, <2>2, <2>3, <2>4 DEF IInv, SavesInv, SaveRecord, s
  <2>7. ContentInv' /\ StatInv'
    BY <1>1, <1>5, <2>1, <2>2 DEF IInv, ContentInv, StatInv, SaveRecord, Current
  <2>8. FlagsInv' /\ RevertInv'
    BY <1>1, <1>5 DEF IInv, FlagsInv, ConflictAndErrorAreDirty, RevertInv
  <2> QED BY <2>5, <2>6, <2>7, <2>8 DEF IInv
<1>6. CASE /\ task.running = 0
           /\ \E first \in FirstPhases(copy, options) :
                 Become(DoSave(Saving(task, saves, copy), options, first))
  <2>1. /\ \A s \in Slots : saves[s].phase = "none"
        /\ task.queued = "none"
    BY <1>3, <1>6 DEF IInv, SavesInv, SaveRecord
  <2>2. PICK first \in FirstPhases(copy, options) :
            Become(DoSave(Saving(task, saves, copy), options, first))
    BY <1>6
  <2>3. first \in {"throttle", "participants", "snapshot"}
    BY DEF FirstPhases
  <2> DEFINE st == DoSave(Saving(task, saves, copy), options, first)
  <2>4. Settled(st, copy)
    BY <1>3, <1>6, <2>1, <2>3, DoSaveSettles
  <2>5. Settled(Saving(task', saves', copy'), copy)
    <3> HIDE DEF st
    <3>1. /\ task' = st.task /\ saves' = st.saves /\ copy' = st.copy
      BY <2>2 DEF Become, st
    <3> QED BY <2>4, <3>1 DEF Settled, Saving
  <2>6. /\ disk' = disk /\ disk \in DiskRecord /\ notify' \in BOOLEAN
        /\ copy.stat <= disk.mtime /\ resolve.mtime <= disk.mtime
        /\ disk.by = "us" => copy.stat = disk.mtime
        /\ ~copy.disposed /\ (copy.conflict \/ copy.error) => copy.dirty
    BY <1>1, <2>1, Types DEF IInv, StatInv, FlagsInv, ConflictAndErrorAreDirty
  <2> QED BY <1>1, <1>2, <1>3, <2>5, <2>6, SettledStep
<1> QED BY <1>4, <1>5, <1>6 DEF Save

-----------------------------------------------------------------------------
(* The steps that leave saves alone *)

\* Such a step keeps the invariant if the version is a new one whenever the
\* contents are, and the stat does not go back.
LEMMA QuietStep ==
    ASSUME IInv, UNCHANGED <<task, saves>>,
           model' \in ModelRecord, model'.pos \in DOMAIN model'.history,
           copy' \in CopyRecord, resolve' \in ResolveRecord, revert' \in RevertRecord,
           disk' \in DiskRecord, notify' \in BOOLEAN, asked' \in Nat,
           budget' \in BudgetRecord,
           \/ copy'.versionId = copy.versionId + 1
           \/ copy'.versionId = copy.versionId /\ model' = model,
           ~copy'.disposed /\ (copy'.conflict \/ copy'.error) => copy'.dirty,
           revert'.undo.conflict \/ revert'.undo.error => revert'.undo.dirty,
           copy.stat <= copy'.stat, copy'.stat <= disk'.mtime,
           resolve'.mtime <= disk'.mtime,
           disk' = disk \/ disk'.by # "us",
           resolve'.force => revert'.phase = "resolving"
    PROVE  IInv'
<1>1. /\ saves \in [Slots -> SaveRecord] /\ copy \in CopyRecord /\ task \in TaskRecord
      /\ disk \in DiskRecord
  BY Types DEF IInv
<1>2. TypeOK'
  BY Types, TypesNext DEF IInv
<1>3. SavesInv'
  BY <1>1 DEF IInv, SavesInv, SaveRecord, CopyRecord, TaskRecord
<1>4. FlagsInv' /\ RevertInv'
  BY DEF FlagsInv, ConflictAndErrorAreDirty, RevertInv
<1>5. ContentInv'
  <2> SUFFICES ASSUME NEW s \in Slots
               PROVE  /\ saves[s].phase \in {"validate", "write", "stat"}
                            /\ saves[s].taskId = copy'.versionId
                         => saves[s].content = Current'.content
                      /\ saves[s].phase = "stat" /\ disk'.by = "us"
                         => disk'.content = saves[s].content
    BY DEF ContentInv
  <2>1. saves[s].phase # "none" => saves[s].taskId <= copy.versionId
    BY DEF IInv, SavesInv
  <2>2. saves[s].taskId \in Nat /\ copy.versionId \in Nat
    BY <1>1 DEF SaveRecord, CopyRecord
  <2>3. saves[s].phase \in {"validate", "write", "stat"}
            /\ saves[s].taskId = copy'.versionId
        => model' = model /\ saves[s].taskId = copy.versionId
    BY <2>1, <2>2
  <2> QED BY <2>3 DEF IInv, ContentInv, Current
<1>6. StatInv'
  BY <1>1 DEF IInv, StatInv, DiskRecord, CopyRecord
<1> QED BY <1>2, <1>3, <1>4, <1>5, <1>6 DEF IInv

\* An edit, and a reload, add a version.
LEMMA ChangedType ==
    ASSUME NEW m \in ModelRecord, m.pos \in DOMAIN m.history, NEW content \in Contents
    PROVE  /\ Changed(m, content) \in ModelRecord
           /\ Changed(m, content).pos \in DOMAIN Changed(m, content).history
<1> DEFINE v == [id |-> m.last + 1, content |-> content]
           h == SubSeq(m.history, 1, m.pos)
<1>1. /\ m.history \in Seq(Versions) /\ m.last \in Nat /\ v \in Versions
      /\ m.pos \in 1 .. Len(m.history)
  BY DEF ModelRecord, Versions
<1>2. h \in Seq(Versions) /\ Len(h) = m.pos
  BY <1>1
<1>3. Append(h, v) \in Seq(Versions) /\ Len(Append(h, v)) = m.pos + 1
  BY <1>1, <1>2
<1>4. Changed(m, content) = [history |-> Append(h, v), pos |-> m.pos + 1, last |-> m.last + 1]
  BY DEF Changed
<1>5. DOMAIN Append(h, v) = 1 .. m.pos + 1
  BY <1>3
<1> HIDE DEF h, v
<1> QED BY <1>1, <1>3, <1>4, <1>5 DEF ModelRecord

\* onModelContentChanged counts the version and keeps the stat; it keeps the
\* flags right, too.
LEMMA ContentChangedEffect ==
    ASSUME NEW c \in CopyRecord, NEW version \in Nat,
           ~c.disposed /\ (c.conflict \/ c.error) => c.dirty
    PROVE  LET d == OnModelContentChanged(c, version)
           IN /\ d \in CopyRecord /\ d.versionId = c.versionId + 1 /\ d.stat = c.stat
              /\ d.disposed = c.disposed
              /\ ~d.disposed /\ (d.conflict \/ d.error) => d.dirty
<1> DEFINE c1 == [c EXCEPT !.versionId = @ + 1]
<1>1. c1 \in CopyRecord /\ c1 = [c EXCEPT !.versionId = c.versionId + 1]
  BY DEF CopyRecord
<1>2. CASE c.ignoreDirty
  <2>1. OnModelContentChanged(c, version) = c1
    BY <1>2 DEF OnModelContentChanged
  <2> QED BY <1>1, <2>1 DEF CopyRecord
<1>3. CASE ~c.ignoreDirty /\ version # c.saved
  <2>1. OnModelContentChanged(c, version) = [c1 EXCEPT !.dirty = TRUE]
    BY <1>3 DEF OnModelContentChanged, SetDirty
  <2> QED BY <1>1, <2>1 DEF CopyRecord
<1>4. CASE ~c.ignoreDirty /\ version = c.saved
  <2>1. OnModelContentChanged(c, version)
          = [c1 EXCEPT !.dirty = FALSE, !.conflict = FALSE, !.error = FALSE,
                       !.saved = version]
    BY <1>4 DEF OnModelContentChanged, SetDirty
  <2> QED BY <1>1, <2>1 DEF CopyRecord
<1> QED BY <1>2, <1>3, <1>4 DEF CopyRecord

\* doSetDirty(false) clears all flags.
LEMMA ClearedEffect ==
    ASSUME NEW c \in CopyRecord, NEW version \in Nat
    PROVE  LET d == SetDirty(c, FALSE, version)
           IN /\ d \in CopyRecord /\ d.versionId = c.versionId /\ d.stat = c.stat
              /\ d.disposed = c.disposed /\ ~d.conflict /\ ~d.error /\ ~d.dirty
BY DEF SetDirty, CopyRecord

\* What the invariant says of the parts that a quiet step leaves alone.
LEMMA QuietParts ==
    ASSUME IInv
    PROVE  /\ model \in ModelRecord /\ model.pos \in DOMAIN model.history
           /\ model.last \in Nat
           /\ copy \in CopyRecord /\ copy.stat \in Nat /\ resolve \in ResolveRecord
           /\ revert \in RevertRecord /\ disk \in DiskRecord /\ notify \in BOOLEAN
           /\ asked \in Nat /\ budget \in BudgetRecord
           /\ ~copy.disposed /\ (copy.conflict \/ copy.error) => copy.dirty
           /\ revert.undo.conflict \/ revert.undo.error => revert.undo.dirty
           /\ copy.stat <= copy.stat /\ copy.stat <= disk.mtime
           /\ resolve.mtime <= disk.mtime
           /\ resolve.force => revert.phase = "resolving"
<1>1. /\ model \in ModelRecord /\ model.pos \in DOMAIN model.history
      /\ copy \in CopyRecord /\ resolve \in ResolveRecord
      /\ revert \in RevertRecord /\ disk \in DiskRecord /\ notify \in BOOLEAN
      /\ asked \in Nat /\ budget \in BudgetRecord
  BY Types DEF IInv
<1>2. copy.stat \in Nat /\ model.last \in Nat
  BY <1>1 DEF CopyRecord, ModelRecord
<1> QED BY <1>1, <1>2 DEF IInv, FlagsInv, ConflictAndErrorAreDirty, StatInv, RevertInv

\* Edit
LEMMA EditStep ==
    ASSUME IInv, Edit
    PROVE  IInv'
<1>1. /\ Spend("calls")
      /\ model' = Changed(model, <<"edit", model.last + 1>>)
      /\ copy' = OnModelContentChanged(copy, model.last + 1)
      /\ asked' \in {asked, 0}
      /\ UNCHANGED <<task, saves, resolve, revert, disk, notify>>
  BY DEF Edit, Answer
<1>2. <<"edit", model.last + 1>> \in Contents /\ model.last + 1 \in Nat
  BY QuietParts DEF Contents
<1>3. model' \in ModelRecord /\ model'.pos \in DOMAIN model'.history
  BY <1>1, <1>2, QuietParts, ChangedType
<1>4. /\ copy' \in CopyRecord /\ copy'.versionId = copy.versionId + 1
      /\ copy'.stat = copy.stat
      /\ ~copy'.disposed /\ (copy'.conflict \/ copy'.error) => copy'.dirty
  BY <1>1, <1>2, QuietParts, ContentChangedEffect
<1>5. budget' \in BudgetRecord /\ asked' \in Nat
  BY <1>1, QuietParts, SpendType
<1> QED BY <1>1, <1>3, <1>4, <1>5, QuietParts, QuietStep

\* UndoRedo
LEMMA UndoRedoStep ==
    ASSUME IInv, NEW pos \in DOMAIN model.history, UndoRedo(pos)
    PROVE  IInv'
<1> DEFINE c == [copy EXCEPT !.undone = TRUE]
<1>1. /\ Spend("calls")
      /\ model' = [model EXCEPT !.pos = pos]
      /\ copy' = OnModelContentChanged(c, model.history[pos].id)
      /\ asked' \in {asked, 0}
      /\ UNCHANGED <<task, saves, resolve, revert, disk, notify>>
  BY DEF UndoRedo, Answer
<1>2. /\ c \in CopyRecord /\ c.versionId = copy.versionId /\ c.stat = copy.stat
      /\ ~c.disposed /\ (c.conflict \/ c.error) => c.dirty
  BY QuietParts DEF CopyRecord
<1>3. /\ model.history[pos].id \in Nat /\ pos \in Nat
  <2>1. model.history \in Seq(Versions)
    BY QuietParts DEF ModelRecord
  <2>2. model.history[pos] \in Versions /\ pos \in Nat
    BY <2>1
  <2> QED BY <2>2 DEF Versions
<1>4. model' \in ModelRecord /\ model'.pos \in DOMAIN model'.history
  BY <1>1, <1>3, QuietParts DEF ModelRecord
<1> HIDE DEF c
<1>5. /\ copy' \in CopyRecord /\ copy'.versionId = copy.versionId + 1
      /\ copy'.stat = copy.stat
      /\ ~copy'.disposed /\ (copy'.conflict \/ copy'.error) => copy'.dirty
  BY <1>1, <1>2, <1>3, ContentChangedEffect, SMTT(40)
<1>6. budget' \in BudgetRecord /\ asked' \in Nat
  BY <1>1, QuietParts, SpendType
<1> QED BY <1>1, <1>4, <1>5, <1>6, QuietParts, QuietStep

\* A resolve that begins has read nothing.
LEMMA StartResolveType ==
    ASSUME IInv, NEW force \in BOOLEAN, StartResolve(force)
    PROVE  /\ resolve' \in ResolveRecord /\ resolve'.mtime <= disk.mtime
           /\ resolve' = resolve \/ (MayResolve /\ resolve'.force = force)
<1>1. CASE ~MayResolve
  BY <1>1, QuietParts DEF StartResolve
<1>2. CASE MayResolve
  <2>1. resolve' = [NoResolve EXCEPT !.phase = "reading", !.force = force,
                                     !.versionId = copy.versionId,
                                     !.etag = IF force THEN 0 ELSE copy.stat]
    BY <1>2 DEF StartResolve
  <2>2. copy.versionId \in Nat /\ copy.stat \in Nat /\ disk.mtime \in Nat
    BY QuietParts DEF CopyRecord, DiskRecord
  <2>3. resolve' \in ResolveRecord /\ resolve'.force = force
    BY <2>1, <2>2, NoResolveType DEF ResolveRecord
  <2>4. resolve'.mtime = 0
    BY <2>1 DEF NoResolve
  <2> QED BY <1>2, <2>2, <2>3, <2>4
<1> QED BY <1>1, <1>2

\* Reload
LEMMA ReloadStep ==
    ASSUME IInv, Reload
    PROVE  IInv'
<1>1. /\ StartResolve(FALSE) /\ notify' = FALSE
      /\ UNCHANGED <<model, copy, task, saves, revert, disk, asked, budget>>
  BY DEF Reload
<1>2. /\ resolve' \in ResolveRecord /\ resolve'.mtime <= disk.mtime
      /\ resolve' = resolve \/ resolve'.force = FALSE
  BY <1>1, StartResolveType
<1> QED BY <1>1, <1>2, QuietParts, QuietStep

\* ReadFile
LEMMA ReadFileStep ==
    ASSUME IInv, ReadFile
    PROVE  IInv'
<1>1. /\ resolve' = [resolve EXCEPT !.phase = "read", !.content = disk.content,
                                    !.mtime = disk.mtime]
      /\ UNCHANGED <<model, copy, task, saves, revert, disk, notify, asked, budget>>
  BY DEF ReadFile
<1>2. /\ resolve' \in ResolveRecord /\ resolve'.mtime <= disk.mtime
      /\ resolve'.force = resolve.force
  <2>1. disk.content \in Contents /\ disk.mtime \in Nat /\ disk.mtime <= disk.mtime
    BY QuietParts DEF DiskRecord
  <2>2. resolve \in ResolveRecord
    BY QuietParts
  <2> QED BY <1>1, <2>1, <2>2 DEF ResolveRecord
<1> QED BY <1>1, <1>2, QuietParts, QuietStep

\* The end of a resolve, with the working copy c: a failed revert brings the
\* flags back that it has kept.
LEMMA EndResolveEffect ==
    ASSUME IInv, NEW c \in CopyRecord, NEW failed \in BOOLEAN, EndResolve(c, failed),
           ~c.disposed /\ (c.conflict \/ c.error) => c.dirty
    PROVE  /\ resolve' \in ResolveRecord /\ ~resolve'.force /\ resolve'.mtime = 0
           /\ revert' \in RevertRecord
           /\ revert'.undo.conflict \/ revert'.undo.error => revert'.undo.dirty
           /\ copy' \in CopyRecord /\ copy'.versionId = c.versionId /\ copy'.stat = c.stat
           /\ ~copy'.disposed /\ (copy'.conflict \/ copy'.error) => copy'.dirty
<1>1. /\ resolve' = NoResolve
      /\ revert' = IF resolve.force THEN NoRevert ELSE revert
      /\ copy' = IF failed /\ resolve.force
                 THEN [c EXCEPT !.dirty = revert.undo.dirty,
                                !.conflict = revert.undo.conflict,
                                !.error = revert.undo.error,
                                !.saved = revert.undo.saved]
                 ELSE c
  BY DEF EndResolve
<1>2. resolve' \in ResolveRecord /\ ~resolve'.force /\ resolve'.mtime = 0
  BY <1>1, NoResolveType DEF NoResolve
<1>3. /\ revert' \in RevertRecord
      /\ revert'.undo.conflict \/ revert'.undo.error => revert'.undo.dirty
  <2>1. ~NoRevert.undo.conflict /\ ~NoRevert.undo.error
    BY DEF NoRevert, NoFlags
  <2> QED BY <1>1, <2>1, NoRevertType, QuietParts
<1>4. /\ copy' \in CopyRecord /\ copy'.versionId = c.versionId /\ copy'.stat = c.stat
      /\ ~copy'.disposed /\ (copy'.conflict \/ copy'.error) => copy'.dirty
  <2>1. CASE failed /\ resolve.force
    <3>1. /\ revert.undo.dirty \in BOOLEAN /\ revert.undo.conflict \in BOOLEAN
          /\ revert.undo.error \in BOOLEAN /\ revert.undo.saved \in Nat
          /\ revert.undo.conflict \/ revert.undo.error => revert.undo.dirty
      BY QuietParts DEF RevertRecord
    <3> QED BY <1>1, <2>1, <3>1 DEF CopyRecord
  <2>2. CASE ~(failed /\ resolve.force)
    BY <1>1, <2>2
  <2> QED BY <2>1, <2>2
<1> QED BY <1>2, <1>3, <1>4

\* updateLastResolvedFileStat with the stat of a read does not go back.
LEMMA StatEffect ==
    ASSUME IInv
    PROVE  LET c == UpdateLastResolvedFileStat(copy, resolve.mtime)
           IN /\ c \in CopyRecord /\ c.versionId = copy.versionId
              /\ copy.stat <= c.stat /\ c.stat <= disk.mtime
              /\ c.disposed = copy.disposed /\ c.dirty = copy.dirty
              /\ c.conflict = copy.conflict /\ c.error = copy.error
<1>1. copy \in CopyRecord /\ copy.stat \in Nat /\ resolve.mtime \in Nat
  BY QuietParts DEF ResolveRecord
<1>2. CASE copy.stat <= resolve.mtime
  <2>1. UpdateLastResolvedFileStat(copy, resolve.mtime) = [copy EXCEPT !.stat = resolve.mtime]
    BY <1>2 DEF UpdateLastResolvedFileStat
  <2> QED BY <1>1, <1>2, <2>1, QuietParts DEF CopyRecord
<1>3. CASE ~(copy.stat <= resolve.mtime)
  <2>1. UpdateLastResolvedFileStat(copy, resolve.mtime) = copy
    BY <1>3 DEF UpdateLastResolvedFileStat
  <2> QED BY <1>1, <2>1, QuietParts
<1> QED BY <1>2, <1>3

\* ReadDone
LEMMA ReadDoneStep ==
    ASSUME IInv, ReadDone
    PROVE  IInv'
<1> DEFINE c == UpdateLastResolvedFileStat(copy, resolve.mtime)
<1>1. /\ c \in CopyRecord /\ c.versionId = copy.versionId
      /\ copy.stat <= c.stat /\ c.stat <= disk.mtime
      /\ c.disposed = copy.disposed /\ c.dirty = copy.dirty
      /\ c.conflict = copy.conflict /\ c.error = copy.error
  BY StatEffect
<1>2. UNCHANGED <<model, task, saves, disk, notify, asked, budget>>
  BY DEF ReadDone
<1>3. \/ EndResolve(c, FALSE)
      \/ EndResolve(copy, FALSE)
      \/ /\ resolve' = [resolve EXCEPT !.phase = "updating"]
         /\ copy' = [c EXCEPT !.ignoreDirty = TRUE]
         /\ UNCHANGED revert
  BY DEF ReadDone
<1> HIDE DEF c
<1>4. ASSUME NEW d \in {c, copy}, EndResolve(d, FALSE)
      PROVE  IInv'
  <2>1. /\ d \in CopyRecord /\ d.versionId = copy.versionId
        /\ copy.stat <= d.stat /\ d.stat <= disk.mtime
        /\ ~d.disposed /\ (d.conflict \/ d.error) => d.dirty
    BY <1>1, QuietParts
  <2>2. /\ resolve' \in ResolveRecord /\ ~resolve'.force /\ resolve'.mtime = 0
        /\ revert' \in RevertRecord
        /\ revert'.undo.conflict \/ revert'.undo.error => revert'.undo.dirty
        /\ copy' \in CopyRecord /\ copy'.versionId = d.versionId /\ copy'.stat = d.stat
        /\ ~copy'.disposed /\ (copy'.conflict \/ copy'.error) => copy'.dirty
    BY <1>4, <2>1, EndResolveEffect
  <2>3. 0 <= disk.mtime
    BY QuietParts DEF DiskRecord
  <2> QED BY <1>2, <2>1, <2>2, <2>3, QuietParts, QuietStep
<1>5. CASE /\ resolve' = [resolve EXCEPT !.phase = "updating"]
           /\ copy' = [c EXCEPT !.ignoreDirty = TRUE]
           /\ UNCHANGED revert
  <2>1. /\ resolve' \in ResolveRecord /\ resolve'.force = resolve.force
        /\ resolve'.mtime = resolve.mtime
    BY <1>5, QuietParts DEF ResolveRecord
  <2>2. /\ copy' \in CopyRecord /\ copy'.versionId = copy.versionId
        /\ copy'.stat = c.stat
        /\ ~copy'.disposed /\ (copy'.conflict \/ copy'.error) => copy'.dirty
    BY <1>1, <1>5, QuietParts DEF CopyRecord
  <2> QED BY <1>1, <1>2, <1>5, <2>1, <2>2, QuietParts, QuietStep
<1> QED BY <1>3, <1>4, <1>5

\* ResolveFails
LEMMA ResolveFailsStep ==
    ASSUME IInv, ResolveFails
    PROVE  IInv'
<1> DEFINE c == [copy EXCEPT !.ignoreDirty = FALSE]
<1>1. /\ Spend("events")
      /\ EndResolve(c, TRUE)
      /\ asked' \in {asked, 0}
      /\ UNCHANGED <<model, task, saves, disk, notify>>
  BY DEF ResolveFails, Answer
<1>2. /\ c \in CopyRecord /\ c.versionId = copy.versionId /\ c.stat = copy.stat
      /\ ~c.disposed /\ (c.conflict \/ c.error) => c.dirty
  BY QuietParts DEF CopyRecord
<1> HIDE DEF c
<1>3. /\ resolve' \in ResolveRecord /\ ~resolve'.force /\ resolve'.mtime = 0
      /\ revert' \in RevertRecord
      /\ revert'.undo.conflict \/ revert'.undo.error => revert'.undo.dirty
      /\ copy' \in CopyRecord /\ copy'.versionId = c.versionId /\ copy'.stat = c.stat
      /\ ~copy'.disposed /\ (copy'.conflict \/ copy'.error) => copy'.dirty
  BY <1>1, <1>2, EndResolveEffect
<1>4. 0 <= disk.mtime /\ asked' \in Nat /\ budget' \in BudgetRecord
  BY <1>1, QuietParts, SpendType DEF DiskRecord
<1> QED BY <1>1, <1>2, <1>3, <1>4, QuietParts, QuietStep

\* UpdateDone
LEMMA UpdateDoneStep ==
    ASSUME IInv, UpdateDone
    PROVE  IInv'
<1> DEFINE c == OnModelContentChanged(copy, model.last + 1)
           c1 == [c EXCEPT !.ignoreDirty = FALSE]
           c2 == SetDirty(c1, FALSE, model.last + 1)
<1>1. /\ model' = Changed(model, resolve.content)
      /\ EndResolve(c2, FALSE)
      /\ asked' = 0
      /\ UNCHANGED <<task, saves, disk, notify, budget>>
  BY DEF UpdateDone
<1>2. model.last + 1 \in Nat /\ resolve.content \in Contents
  BY QuietParts DEF ResolveRecord
<1>3. c \in CopyRecord /\ c.versionId = copy.versionId + 1 /\ c.stat = copy.stat
  BY <1>2, QuietParts, ContentChangedEffect
<1> HIDE DEF c
<1>4. c1 \in CopyRecord /\ c1.versionId = copy.versionId + 1 /\ c1.stat = copy.stat
  BY <1>3 DEF CopyRecord
<1> HIDE DEF c1
<1>5. /\ c2 \in CopyRecord /\ c2.versionId = copy.versionId + 1 /\ c2.stat = copy.stat
      /\ ~c2.conflict /\ ~c2.error
  BY <1>2, <1>4, ClearedEffect
<1> HIDE DEF c2
<1>6. /\ resolve' \in ResolveRecord /\ ~resolve'.force /\ resolve'.mtime = 0
      /\ revert' \in RevertRecord
      /\ revert'.undo.conflict \/ revert'.undo.error => revert'.undo.dirty
      /\ copy' \in CopyRecord /\ copy'.versionId = c2.versionId /\ copy'.stat = c2.stat
      /\ ~copy'.disposed /\ (copy'.conflict \/ copy'.error) => copy'.dirty
  BY <1>1, <1>5, EndResolveEffect
<1>7. model' \in ModelRecord /\ model'.pos \in DOMAIN model'.history
  BY <1>1, <1>2, QuietParts, ChangedType
<1>8. 0 <= disk.mtime
  BY QuietParts DEF DiskRecord
<1> QED BY <1>1, <1>5, <1>6, <1>7, <1>8, QuietParts, QuietStep

\* Revert
LEMMA RevertStep ==
    ASSUME IInv, NEW force \in BOOLEAN, Revert(force)
    PROVE  IInv'
<1>1. /\ ~copy.disposed /\ revert.phase = "idle"
      /\ Spend("events")
      /\ copy' = SetDirty(copy, FALSE, Current.id)
      /\ revert' = [phase |-> "waiting",
                    undo |-> [dirty |-> copy.dirty, conflict |-> copy.conflict,
                              error |-> copy.error, saved |-> copy.saved]]
      /\ asked' = 0
      /\ UNCHANGED <<model, task, saves, resolve, disk, notify>>
  BY DEF Revert
<1>2. /\ copy' \in CopyRecord /\ copy'.versionId = copy.versionId /\ copy'.stat = copy.stat
      /\ ~copy'.conflict /\ ~copy'.error
  BY <1>1, QuietParts, CurrentType, ClearedEffect
<1>3. /\ revert' \in RevertRecord
      /\ revert'.undo.conflict \/ revert'.undo.error => revert'.undo.dirty
  BY <1>1, QuietParts DEF RevertRecord, CopyRecord
<1>4. ~resolve.force
  BY <1>1, QuietParts DEF ResolveRecord
<1>5. budget' \in BudgetRecord
  BY <1>1, QuietParts, SpendType
<1> QED BY <1>1, <1>2, <1>3, <1>4, <1>5, QuietParts, QuietStep

\* RevertResolve
LEMMA RevertResolveStep ==
    ASSUME IInv, RevertResolve
    PROVE  IInv'
<1>1. /\ revert.phase = "waiting"
      /\ StartResolve(TRUE)
      /\ revert' = IF MayResolve THEN [revert EXCEPT !.phase = "resolving"] ELSE NoRevert
      /\ UNCHANGED <<model, copy, task, saves, disk, notify, asked, budget>>
  BY DEF RevertResolve
<1>2. /\ resolve' \in ResolveRecord /\ resolve'.mtime <= disk.mtime
      /\ resolve' = resolve \/ MayResolve
  BY <1>1, StartResolveType
<1>3. /\ revert' \in RevertRecord
      /\ MayResolve => revert'.phase = "resolving"
      /\ revert'.undo.conflict \/ revert'.undo.error => revert'.undo.dirty
  <2>1. CASE MayResolve
    BY <1>1, <2>1, QuietParts DEF RevertRecord
  <2>2. CASE ~MayResolve
    BY <1>1, <2>2, NoRevertType DEF NoRevert, NoFlags
  <2> QED BY <2>1, <2>2
<1>4. resolve'.force => revert'.phase = "resolving"
  BY <1>1, <1>2, <1>3, QuietParts
<1> QED BY <1>1, <1>2, <1>3, <1>4, QuietParts, QuietStep

\* Dispose
LEMMA DisposeStep ==
    ASSUME IInv, Dispose
    PROVE  IInv'
<1>1. /\ copy' = [copy EXCEPT !.disposed = TRUE, !.conflict = FALSE, !.error = FALSE]
      /\ asked' = 0
      /\ UNCHANGED <<model, task, saves, resolve, revert, disk, notify, budget>>
  BY DEF Dispose
<1>2. /\ copy' \in CopyRecord /\ copy'.versionId = copy.versionId /\ copy'.stat = copy.stat
      /\ copy'.disposed
  BY <1>1, QuietParts DEF CopyRecord
<1> QED BY <1>1, <1>2, QuietParts, QuietStep

\* OtherWrites
LEMMA OtherWritesStep ==
    ASSUME IInv, OtherWrites
    PROVE  IInv'
<1>1. /\ Spend("events")
      /\ disk' = [content |-> <<"other", disk.mtime + 1>>, mtime |-> disk.mtime + 1,
                  by |-> "other"]
      /\ notify' = TRUE
      /\ UNCHANGED <<model, copy, task, saves, resolve, revert, asked>>
  BY DEF OtherWrites
<1>2. disk.mtime \in Nat /\ resolve.mtime \in Nat /\ <<"other", disk.mtime + 1>> \in Contents
  BY QuietParts DEF DiskRecord, ResolveRecord, Contents
<1>3. /\ disk' \in DiskRecord /\ disk'.by # "us"
      /\ copy.stat <= disk'.mtime /\ resolve.mtime <= disk'.mtime
  BY <1>1, <1>2, QuietParts DEF DiskRecord
<1>4. budget' \in BudgetRecord
  BY <1>1, QuietParts, SpendType
<1> QED BY <1>1, <1>2, <1>3, <1>4, QuietParts, QuietStep

-----------------------------------------------------------------------------
(* The invariant *)

\* The first state
LEMMA InitInvariant == Init => IInv
<1> SUFFICES ASSUME Init PROVE IInv
  OBVIOUS
<1>1. PICK backup \in BOOLEAN :
        /\ model = [history |-> <<[id |-> 1,
                        content |-> <<IF backup THEN "edit" ELSE "other", 1>>]>>,
                    pos |-> 1, last |-> 1]
        /\ copy = [dirty |-> backup, saved |-> IF backup THEN 0 ELSE 1,
                   conflict |-> FALSE, error |-> FALSE, versionId |-> 1, stat |-> 1,
                   ignoreDirty |-> FALSE, undone |-> FALSE, disposed |-> FALSE]
  BY DEF Init
<1>2. /\ disk = [content |-> <<"other", 1>>, mtime |-> 1, by |-> "other"]
      /\ task = [running |-> 0, slot |-> 1, queued |-> "none"]
      /\ saves = [s \in Slots |-> NoSave]
      /\ resolve = NoResolve /\ revert = NoRevert
      /\ notify = FALSE /\ asked = 0
      /\ budget = [calls |-> MaxCalls, events |-> MaxEvents]
  BY DEF Init
<1>3. model \in ModelRecord /\ model.pos \in DOMAIN model.history
  <2> DEFINE v == [id |-> 1, content |-> <<IF backup THEN "edit" ELSE "other", 1>>]
  <2>1. v \in Versions
    BY DEF Versions, Contents
  <2>2. <<v>> \in Seq(Versions) /\ 1 \in DOMAIN <<v>>
    BY <2>1
  <2> HIDE DEF v
  <2> QED BY <1>1, <2>2 DEF ModelRecord, v
<1>4. copy \in CopyRecord
  BY <1>1 DEF CopyRecord
<1>5. disk \in DiskRecord /\ task \in TaskRecord
  BY <1>2 DEF DiskRecord, TaskRecord, Contents, Slots
<1>6. budget \in BudgetRecord
  BY <1>2, BoundsAssumption DEF BudgetRecord
<1>7. saves \in [Slots -> SaveRecord] /\ \A s \in Slots : saves[s].phase = "none"
  BY <1>2, NoSaveType DEF NoSave
<1>8. TypeOK
  BY <1>2, <1>3, <1>4, <1>5, <1>6, <1>7, NoResolveType, NoRevertType, Types
<1>9. SavesInv /\ ContentInv
  BY <1>1, <1>2, <1>7 DEF SavesInv, ContentInv
<1>10. FlagsInv /\ RevertInv
  BY <1>1, <1>2 DEF FlagsInv, ConflictAndErrorAreDirty, RevertInv, NoRevert, NoFlags, NoResolve
<1>11. StatInv
  BY <1>1, <1>2, <1>7 DEF StatInv, NoResolve
<1> QED BY <1>8, <1>9, <1>10, <1>11 DEF IInv

\* Every step
LEMMA NextInvariant == IInv /\ [Next]_vars => IInv'
<1> SUFFICES ASSUME IInv, [Next]_vars PROVE IInv'
  OBVIOUS
<1>1. CASE Edit
  BY <1>1, EditStep
<1>2. CASE \E pos \in DOMAIN model.history : UndoRedo(pos)
  BY <1>2, UndoRedoStep
<1>3. CASE \E options \in Options : Save(options)
  BY <1>3, SaveStep
<1>4. CASE \E s \in Slots : CancelSave(s) \/ ThrottleDone(s) \/ ParticipantsDone(s)
                            \/ SnapshotDone(s) \/ SnapshotFails(s)
  BY <1>4, CancelSaveStep, ThrottleDoneStep, ParticipantsDoneStep, SnapshotDoneStep,
     SnapshotFailsStep
<1>5. CASE \E s \in Slots : \/ Validate(s) \/ Write(s) \/ StatDone(s) \/ StatFails(s)
                            \/ \E truncated \in BOOLEAN : WriteFails(s, truncated)
  BY <1>5, ValidateStep, WriteStep, StatDoneStep, StatFailsStep, WriteFailsStep
<1>6. CASE Reload \/ ReadFile \/ ReadDone \/ ResolveFails \/ UpdateDone
  BY <1>6, ReloadStep, ReadFileStep, ReadDoneStep, ResolveFailsStep, UpdateDoneStep
<1>7. CASE RevertResolve \/ Dispose \/ OtherWrites
           \/ \E force \in BOOLEAN : Revert(force)
  BY <1>7, RevertResolveStep, DisposeStep, OtherWritesStep, RevertStep
<1>8. CASE UNCHANGED vars
  BY <1>8 DEF vars, IInv, TypeOK, SavesInv, FlagsInv, ConflictAndErrorAreDirty,
              ContentInv, StatInv, RevertInv, Current
<1> QED BY <1>1, <1>2, <1>3, <1>4, <1>5, <1>6, <1>7, <1>8 DEF Next

\* The invariant holds in every state.
LEMMA InvariantHolds == Spec => []IInv
BY InitInvariant, NextInvariant, PTL DEF Spec

-----------------------------------------------------------------------------
(* The theorems *)

\* Every variable keeps its type, and a queued save has a running one to wait
\* for, for any number of edits, saves, failures and writes of others.
THEOREM FileTypeCorrect == Spec => []TypeOK
<1>1. IInv => TypeOK
  BY DEF IInv
<1> QED BY <1>1, InvariantHolds, PTL

\* Two bodies of doSaveSequential are never under way, although the running
\* task changes its id on the way and doneRunning is called for both ids.
THEOREM SavesExclude == Spec => []OneSaveAtATime
<1>1. IInv => OneSaveAtATime
  BY DEF IInv, SavesInv, OneSaveAtATime
<1> QED BY <1>1, InvariantHolds, PTL

\* Conflict and error mode imply dirty, whatever saves, reverts and undos
\* overlap (handleSaveError, doSetDirty, undoSetDirty).
THEOREM FlagsCorrect == Spec => []ConflictAndErrorAreDirty
<1>1. IInv => ConflictAndErrorAreDirty
  BY DEF IInv, FlagsInv
<1> QED BY <1>1, InvariantHolds, PTL

\* Of the working copy the end of a save changes what it was given, and the
\* error mode.
LEMMA EndSaveFlags ==
    ASSUME IInv, NEW s \in Slots, saves[s].phase # "none",
           NEW c \in CopyRecord, c.versionId = copy.versionId, EndSave(s, c)
    PROVE  copy'.dirty = c.dirty /\ copy'.conflict = c.conflict
<1>1. copy' \in {c, [c EXCEPT !.error = FALSE]}
  BY EndSaveSettles DEF IInv, Settled, Saving
<1> QED BY <1>1 DEF CopyRecord

\* A call of save changes no more of the working copy than the error mode.
LEMMA SaveFlags ==
    ASSUME IInv, NEW options \in Options, Save(options)
    PROVE  copy'.dirty = copy.dirty /\ copy'.conflict = copy.conflict
<1>1. copy \in CopyRecord
  BY QuietParts
<1>2. CASE UNCHANGED copy
  BY <1>2
<1>3. CASE \E first \in FirstPhases(copy, options) :
              Become(DoSave(Saving(task, saves, copy), options, first))
  <2>1. PICK first \in FirstPhases(copy, options) :
              Become(DoSave(Saving(task, saves, copy), options, first))
    BY <1>3
  <2>2. copy' \in {copy, [copy EXCEPT !.error = FALSE]}
    BY <2>1 DEF Become, DoSave, StartSave, BeginSnapshot, Saving
  <2> QED BY <1>1, <2>2 DEF CopyRecord
<1> QED BY <1>2, <1>3 DEF Save

\* A save that clears the dirty flag has written what the model holds.
LEMMA ClearsStep ==
    ASSUME IInv, [Next]_vars, copy.dirty, ~copy'.dirty, saves # saves', disk.by = "us"
    PROVE  disk.content = Current.content
<1>1. copy \in CopyRecord
  BY QuietParts
<1>2. ASSUME NEW options \in Options, Save(options)
      PROVE  FALSE
  BY <1>2, SaveFlags
<1>3. ASSUME NEW s \in Slots, saves[s].phase # "none", EndSave(s, copy)
      PROVE  FALSE
  BY <1>1, <1>3, EndSaveFlags
<1>4. ASSUME NEW s \in Slots, saves[s].phase # "none", NEW conflict \in BOOLEAN,
             HandleSaveError(s, conflict)
      PROVE  FALSE
  <2> DEFINE c == [copy EXCEPT !.dirty = @ \/ ~copy.disposed, !.error = TRUE,
                               !.conflict = @ \/ conflict]
  <2>1. c \in CopyRecord /\ c.versionId = copy.versionId /\ c.dirty
    BY <1>1, ErrorEffect
  <2>2. EndSave(s, c)
    BY <1>4 DEF HandleSaveError
  <2> HIDE DEF c
  <2> QED BY <1>4, <2>1, <2>2, EndSaveFlags
<1>5. ASSUME NEW s \in Slots, ThrottleDone(s) \/ SnapshotDone(s) \/ CancelSave(s) \/ Write(s)
      PROVE  FALSE
  BY <1>3, <1>5 DEF ThrottleDone, SnapshotDone, CancelSave, Write
<1>6. ASSUME NEW s \in Slots, ParticipantsDone(s)
      PROVE  FALSE
  <2>1. CASE saves[s].cancelled \/ copy.disposed
    BY <1>3, <1>6, <2>1 DEF ParticipantsDone
  <2>2. CASE ~(saves[s].cancelled \/ copy.disposed)
    <3>1. copy' = [copy EXCEPT !.error = FALSE]
      BY <1>6, <2>2 DEF ParticipantsDone, BeginSnapshot, Become, Saving
    <3> QED BY <1>1, <3>1 DEF CopyRecord
  <2> QED BY <2>1, <2>2
<1>7. ASSUME NEW s \in Slots, NEW truncated \in BOOLEAN,
             \/ Validate(s) \/ WriteFails(s, truncated)
             \/ SnapshotFails(s) \/ StatFails(s)
      PROVE  FALSE
  BY <1>4, <1>7 DEF Validate, WriteFails, SnapshotFails, StatFails
<1>8. ASSUME NEW s \in Slots, StatDone(s)
      PROVE  disk.content = Current.content
  <2> DEFINE c == HandleSaveSuccess(copy, saves[s].taskId)
  <2>1. saves[s].phase = "stat" /\ EndSave(s, c)
    BY <1>8 DEF StatDone
  <2>2. saves[s].taskId \in Nat
    BY Types DEF IInv, SaveRecord
  <2>3. /\ c \in CopyRecord /\ c.versionId = copy.versionId
        /\ copy.dirty /\ ~c.dirty => saves[s].taskId = copy.versionId
    BY <2>2, SuccessEffect
  <2> HIDE DEF c
  <2>4. saves[s].taskId = copy.versionId
    BY <2>1, <2>3, EndSaveFlags
  <2> QED BY <2>1, <2>4 DEF IInv, ContentInv
<1>9. CASE UNCHANGED saves
  BY <1>9
<1>10. \/ UNCHANGED saves
       \/ \E options \in Options : Save(options)
       \/ \E s \in Slots :
             \/ ThrottleDone(s) \/ SnapshotDone(s) \/ CancelSave(s) \/ Write(s)
             \/ ParticipantsDone(s) \/ StatDone(s)
             \/ \E truncated \in BOOLEAN : \/ Validate(s) \/ WriteFails(s, truncated)
                                           \/ SnapshotFails(s) \/ StatFails(s)
  BY DEF Next, vars, Edit, UndoRedo, Reload, ReadFile, ReadDone, ResolveFails,
         UpdateDone, Revert, RevertResolve, Dispose, OtherWrites
<1> QED BY <1>2, <1>5, <1>6, <1>7, <1>8, <1>10

\* When a save clears the dirty flag, the file holds what the model holds,
\* unless another program has written it in between (handleSaveSuccess).
THEOREM ClearedIsWritten == Spec => SaveClearsWhatItWrote
<1>1. IInv /\ [Next]_vars
        => [copy.dirty /\ ~copy'.dirty /\ saves # saves' /\ disk.by = "us"
              => disk.content = Current.content]_vars
  BY ClearsStep
<1> QED BY <1>1, InvariantHolds, PTL DEF Spec, SaveClearsWhatItWrote

\* A conflict is found only with a write of somebody else, or of a failed save.
LEMMA ConflictStep ==
    ASSUME IInv, [Next]_vars, copy'.conflict, ~copy.conflict, revert' = revert
    PROVE  disk.by # "us"
<1>1. copy \in CopyRecord /\ model.last + 1 \in Nat /\ Current.id \in Nat
  BY QuietParts, CurrentType
<1>2. ASSUME NEW c \in CopyRecord, NEW version \in Nat,
             copy' = OnModelContentChanged(c, version), c.conflict = copy.conflict
      PROVE  FALSE
  BY <1>2 DEF OnModelContentChanged, SetDirty, CopyRecord
<1>3. CASE Edit
  BY <1>1, <1>2, <1>3 DEF Edit
<1>4. ASSUME NEW pos \in DOMAIN model.history, UndoRedo(pos)
      PROVE  FALSE
  <2> DEFINE c == [copy EXCEPT !.undone = TRUE]
  <2>1. c \in CopyRecord /\ c.conflict = copy.conflict
    BY <1>1 DEF CopyRecord
  <2>2. model.history[pos].id \in Nat
    <3>1. model.history \in Seq(Versions)
      BY QuietParts DEF ModelRecord
    <3>2. model.history[pos] \in Versions
      BY <3>1
    <3> QED BY <3>2 DEF Versions
  <2>3. copy' = OnModelContentChanged(c, model.history[pos].id)
    BY <1>4 DEF UndoRedo
  <2> HIDE DEF c
  <2> QED BY <1>2, <2>1, <2>2, <2>3
<1>5. ASSUME NEW s \in Slots, saves[s].phase # "none", NEW c \in CopyRecord,
             c.versionId = copy.versionId, ~c.conflict, EndSave(s, c)
      PROVE  FALSE
  BY <1>5, EndSaveFlags
<1>6. ASSUME NEW s \in Slots,
             ThrottleDone(s) \/ SnapshotDone(s) \/ CancelSave(s) \/ Write(s)
      PROVE  FALSE
  BY <1>1, <1>5, <1>6 DEF ThrottleDone, SnapshotDone, CancelSave, Write
<1>7. ASSUME NEW s \in Slots, ParticipantsDone(s)
      PROVE  FALSE
  <2>1. CASE saves[s].cancelled \/ copy.disposed
    BY <1>1, <1>5, <1>7, <2>1 DEF ParticipantsDone
  <2>2. CASE ~(saves[s].cancelled \/ copy.disposed)
    <3>1. copy' = [copy EXCEPT !.error = FALSE]
      BY <1>7, <2>2 DEF ParticipantsDone, BeginSnapshot, Become, Saving
    <3> QED BY <1>1, <3>1 DEF CopyRecord
  <2> QED BY <2>1, <2>2
<1>8. ASSUME NEW s \in Slots, NEW truncated \in BOOLEAN,
             WriteFails(s, truncated) \/ SnapshotFails(s) \/ StatFails(s)
      PROVE  FALSE
  <2> DEFINE c == [copy EXCEPT !.dirty = @ \/ ~copy.disposed, !.error = TRUE,
                               !.conflict = @ \/ FALSE]
  <2>1. c \in CopyRecord /\ c.versionId = copy.versionId /\ ~c.conflict
    BY <1>1, ErrorEffect
  <2>2. saves[s].phase # "none" /\ EndSave(s, c)
    BY <1>8 DEF WriteFails, SnapshotFails, StatFails, HandleSaveError
  <2> HIDE DEF c
  <2> QED BY <1>5, <2>1, <2>2
<1>9. ASSUME NEW s \in Slots, StatDone(s)
      PROVE  FALSE
  <2> DEFINE c == HandleSaveSuccess(copy, saves[s].taskId)
  <2>1. saves[s].phase = "stat" /\ EndSave(s, c)
    BY <1>9 DEF StatDone
  <2>2. saves[s].taskId \in Nat
    BY Types DEF IInv, SaveRecord
  <2>3. /\ c \in CopyRecord /\ c.versionId = copy.versionId /\ ~c.conflict
    BY <2>2, SuccessEffect DEF CopyRecord
  <2> HIDE DEF c
  <2> QED BY <1>5, <2>1, <2>3
<1>10. ASSUME NEW s \in Slots, Validate(s)
       PROVE  disk.by # "us"
  <2>1. saves[s].phase = "validate" /\ (ModifiedSince(saves[s]) \/ UNCHANGED copy)
    BY <1>10 DEF Validate
  <2>2. ModifiedSince(saves[s])
    BY <2>1
  <2>3. saves[s].stat < disk.mtime /\ disk.mtime \in Nat
    BY <2>2, QuietParts DEF ModifiedSince, DiskRecord
  <2> QED BY <2>1, <2>3 DEF IInv, StatInv
<1>11. ASSUME NEW c, NEW failed \in BOOLEAN, EndResolve(c, failed)
       PROVE  c.conflict
  <2>1. ~resolve.force
    <3>1. resolve.force => revert' = NoRevert /\ revert.phase = "resolving"
      BY <1>11, QuietParts DEF EndResolve
    <3> QED BY <3>1 DEF NoRevert
  <2> QED BY <1>11, <2>1 DEF EndResolve
<1>12. CASE ReadDone
  <2> DEFINE c == UpdateLastResolvedFileStat(copy, resolve.mtime)
  <2>1. c \in CopyRecord /\ ~c.conflict
    BY StatEffect
  <2>2. \/ EndResolve(c, FALSE)
        \/ EndResolve(copy, FALSE)
        \/ copy' = [c EXCEPT !.ignoreDirty = TRUE]
    BY <1>12 DEF ReadDone
  <2> HIDE DEF c
  <2> QED BY <1>11, <2>1, <2>2 DEF CopyRecord
<1>13. CASE ResolveFails
  <2>1. EndResolve([copy EXCEPT !.ignoreDirty = FALSE], TRUE)
    BY <1>13 DEF ResolveFails
  <2>2. [copy EXCEPT !.ignoreDirty = FALSE].conflict
    BY <1>11, <2>1
  <2> QED BY <1>1, <2>2 DEF CopyRecord
<1>14. CASE UpdateDone
  <2> DEFINE c == OnModelContentChanged(copy, model.last + 1)
             c1 == [c EXCEPT !.ignoreDirty = FALSE]
  <2>1. EndResolve(SetDirty(c1, FALSE, model.last + 1), FALSE)
    BY <1>14 DEF UpdateDone
  <2>2. c \in CopyRecord
    BY <1>1, QuietParts, ContentChangedEffect
  <2> HIDE DEF c
  <2>3. c1 \in CopyRecord
    BY <2>2 DEF CopyRecord
  <2> HIDE DEF c1
  <2>4. ~SetDirty(c1, FALSE, model.last + 1).conflict
    BY <1>1, <2>3, ClearedEffect
  <2> QED BY <1>11, <2>1, <2>4
<1>15. ASSUME NEW force \in BOOLEAN, Revert(force)
       PROVE  FALSE
  <2>1. copy' = SetDirty(copy, FALSE, Current.id)
    BY <1>15 DEF Revert
  <2> QED BY <1>1, <2>1, ClearedEffect
<1>16. CASE Dispose
  <2>1. copy' = [copy EXCEPT !.disposed = TRUE, !.conflict = FALSE, !.error = FALSE]
    BY <1>16 DEF Dispose
  <2> QED BY <1>1, <2>1 DEF CopyRecord
<1>17. ASSUME NEW options \in Options, Save(options)
       PROVE  FALSE
  BY <1>17, SaveFlags
<1>18. CASE Reload \/ ReadFile \/ RevertResolve \/ OtherWrites \/ UNCHANGED vars
  BY <1>18 DEF Reload, ReadFile, RevertResolve, OtherWrites, vars
<1> QED BY <1>3, <1>4, <1>6, <1>7, <1>8, <1>9, <1>10, <1>12, <1>13, <1>14, <1>15,
           <1>16, <1>17, <1>18 DEF Next

\* A save that finds a conflict finds a write of another program, or of a save
\* of the working copy itself that was reported as failed: never one of a save
\* that succeeded or still awaits its stat, whatever resolve comes in between
\* (updateLastResolvedFileStat, handleSaveError, validateWriteFile).
THEOREM ConflictsAreExplained == Spec => NoConflictAfterSuccess
<1>1. IInv /\ [Next]_vars
        => [copy.conflict' /\ ~copy.conflict /\ revert' = revert => disk.by # "us"]_vars
  BY ConflictStep
<1> QED BY <1>1, InvariantHolds, PTL DEF Spec, NoConflictAfterSuccess

=============================================================================
