----------------------- MODULE StoredFileWorkingCopy -----------------------
(***************************************************************************)
(* One stored file working copy, the object behind an editor of a file     *)
(* (workbench/services/workingCopy/common/storedFileWorkingCopy.ts), from  *)
(* its first resolve to its disposal, with the file on disk.               *)
(*                                                                         *)
(*   - model: the contents with their undo history;                        *)
(*   - copy: the flags and version ids of the working copy;                *)
(*   - task: its TaskSequentializer (base/common/async.ts), that is the id *)
(*     of the running save and the save that waits for it to be over;      *)
(*   - saves: the bodies of doSaveSequential that have not ended.  There   *)
(*     is room for two so that the model can tell whether two ever run;    *)
(*   - resolve: the resolve the manager lets run, at most one at a time;   *)
(*   - revert: a call of revert that waits for its resolve;                *)
(*   - disk: the file; by says who wrote it last: another program, or a    *)
(*     save of the working copy, which then has failed or has not;         *)
(*   - notify: a change of the file the watcher has not reported yet;      *)
(*   - asked: the version of the last explicit save() that is still owed   *)
(*     an answer (0: none), which no action reads.                         *)
(*                                                                         *)
(* The file is read and written through the file service                   *)
(* (platform/files/common/fileService.ts).  Every write gives it a later   *)
(* mtime, and so another etag.                                             *)
(***************************************************************************)
EXTENDS Naturals, Sequences

CONSTANTS
    MaxCalls,       \* edits, undo and redo operations, and calls of save
    MaxEvents       \* calls of revert, cancelled saves, failures, and writes
                    \* of the file by other programs

ASSUME BoundsAssumption == {MaxCalls, MaxEvents} \subseteq Nat

VARIABLES model, copy, task, saves, resolve, revert, disk, notify, asked, budget

vars == <<model, copy, task, saves, resolve, revert, disk, notify, asked, budget>>

-----------------------------------------------------------------------------
(* State *)

\* Each edit, each write of another program and each broken write gives
\* contents nobody has seen before
Contents == {"edit", "other", "broken"} \X Nat

\* A version of the model: its (alternative) version id and its contents
Versions == [id : Nat, content : Contents]

\* The options callers pass: "auto" has an automatic reason, "force" saves
\* also when not dirty, "overwrite" has ignoreModifiedSince
Options == {"auto", "explicit", "force", "overwrite"}

\* Where a save is: waiting because of a recent undo, running participants,
\* taking a snapshot, comparing etags, writing, reading the new stat
Phases == {"none", "throttle", "participants", "snapshot", "validate", "write", "stat"}

Slots == {1, 2}

NoSave == [phase |-> "none", outer |-> 0, taskId |-> 0, options |-> "explicit",
           cancelled |-> FALSE, stat |-> 0, content |-> <<"edit", 0>>]

\* etag is the one the read is to differ from, 0 if the read is forced
NoResolve == [phase |-> "idle", force |-> FALSE, versionId |-> 0, etag |-> 0,
              content |-> <<"edit", 0>>, mtime |-> 0]

NoFlags == [dirty |-> FALSE, conflict |-> FALSE, error |-> FALSE, saved |-> 0]

NoRevert == [phase |-> "idle", undo |-> NoFlags]

Current == model.history[model.pos]

\* Resolved from the file, or from a backup, which makes it dirty
Init ==
    /\ \E backup \in BOOLEAN :
        /\ model = [history |-> <<[id |-> 1,
                        content |-> <<IF backup THEN "edit" ELSE "other", 1>>]>>,
                    pos |-> 1, last |-> 1]
        /\ copy = [dirty |-> backup, saved |-> IF backup THEN 0 ELSE 1,
                   conflict |-> FALSE, error |-> FALSE, versionId |-> 1, stat |-> 1,
                   ignoreDirty |-> FALSE, undone |-> FALSE, disposed |-> FALSE]
    /\ disk = [content |-> <<"other", 1>>, mtime |-> 1, by |-> "other"]
    /\ task = [running |-> 0, slot |-> 1, queued |-> "none"]
    /\ saves = [s \in Slots |-> NoSave]
    /\ resolve = NoResolve
    /\ revert = NoRevert
    /\ notify = FALSE
    /\ asked = 0
    /\ budget = [calls |-> MaxCalls, events |-> MaxEvents]

Spend(what) ==
    /\ budget[what] > 0
    /\ budget' = [budget EXCEPT ![what] = @ - 1]

-----------------------------------------------------------------------------
(* Dirty tracking *)

\* doSetDirty; version is the version id of the model
SetDirty(c, dirty, version) ==
    IF dirty
    THEN [c EXCEPT !.dirty = TRUE]
    ELSE [c EXCEPT !.dirty = FALSE, !.conflict = FALSE, !.error = FALSE,
                   !.saved = version]

\* onModelContentChanged, for the model at the given version
OnModelContentChanged(c, version) ==
    LET c1 == [c EXCEPT !.versionId = @ + 1]
    IN IF c.ignoreDirty THEN c1 ELSE SetDirty(c1, version # c.saved, version)

\* asked is settled when the working copy is not dirty any more
Answer(c) == IF c.dirty THEN asked ELSE 0

\* An edit drops what could be redone
Changed(m, content) ==
    LET v == [id |-> m.last + 1, content |-> content]
    IN [history |-> Append(SubSeq(m.history, 1, m.pos), v),
        pos |-> m.pos + 1, last |-> m.last + 1]

Edit ==
    /\ ~copy.disposed
    /\ Spend("calls")
    /\ model' = Changed(model, <<"edit", model.last + 1>>)
    /\ copy' = OnModelContentChanged(copy, model.last + 1)
    /\ asked' = Answer(copy')
    /\ UNCHANGED <<task, saves, resolve, revert, disk, notify>>

\* Undo and redo bring an earlier version back, with its version id
UndoRedo(pos) ==
    /\ ~copy.disposed
    /\ pos \in {model.pos - 1, model.pos + 1} \cap DOMAIN model.history
    /\ Spend("calls")
    /\ model' = [model EXCEPT !.pos = pos]
    /\ copy' = OnModelContentChanged([copy EXCEPT !.undone = TRUE],
                                     model.history[pos].id)
    /\ asked' = Answer(copy')
    /\ UNCHANGED <<task, saves, resolve, revert, disk, notify>>

-----------------------------------------------------------------------------
(* Saving *)

\* What a step of a save works on: the sequentializer, the saves and the
\* working copy
Saving(t, sv, c) == [task |-> t, saves |-> sv, copy |-> c]

Become(st) == task' = st.task /\ saves' = st.saves /\ copy' = st.copy

\* The first step of doSaveSequential: participants are run unless there are
\* none; an automatic save after a recent undo waits before
FirstPhases(c, options) ==
    {"participants", "snapshot"}
        \cup (IF options = "auto" /\ c.undone THEN {"throttle"} ELSE {})

\* doSaveSequential once the participants are through: it writes what is
\* current from here on, run() is called again, the error mode is left
BeginSnapshot(st, s) ==
    Saving([st.task EXCEPT !.running = st.copy.versionId, !.slot = s],
           [st.saves EXCEPT ![s].phase = "snapshot",
                            ![s].taskId = st.copy.versionId,
                            ![s].stat = st.copy.stat],
           [st.copy EXCEPT !.error = FALSE])

FreeSlot(sv) == IF sv[1].phase = "none" THEN 1 ELSE 2

\* doSaveSequential, up to its first await; without participants a disposed
\* working copy has none
StartSave(st, options, first) ==
    LET s == FreeSlot(st.saves)
        id == st.copy.versionId
        started == Saving([st.task EXCEPT !.running = id, !.slot = s],
                          [st.saves EXCEPT ![s] =
                              [NoSave EXCEPT !.phase = first, !.outer = id,
                                             !.taskId = id, !.options = options]],
                          st.copy)
    IN IF first # "snapshot" THEN started
       ELSE IF st.copy.disposed THEN st
       ELSE BeginSnapshot(started, s)

\* The rest of doSave when no save is running
DoSave(st, options, first) ==
    IF options # "force" /\ ~st.copy.dirty THEN st ELSE StartSave(st, options, first)

\* MUTANT: the queued save is forgotten.
RunQueuedForgotten(st, first) == [st EXCEPT !.task.queued = "none"]

\* runQueued of the sequentializer
RunQueued(st, first) ==
    IF st.task.queued = "none" THEN st
    ELSE DoSave([st EXCEPT !.task.queued = "none"], st.task.queued, first)

\* MUTANT: the queued save is left where it is.
DoneRunningAlone(st, taskId, first) ==
    IF st.task.running # taskId THEN st ELSE [st EXCEPT !.task.running = 0]

\* MUTANT: whatever is running is taken to be done.
DoneRunningAny(st, taskId, first) == RunQueued([st EXCEPT !.task.running = 0], first)

\* doneRunning of the sequentializer
DoneRunning(st, taskId, first) ==
    IF st.task.running # taskId THEN st
    ELSE RunQueued([st EXCEPT !.task.running = 0], first)

\* The save in slot s is over, and the working copy is c.  run() was called
\* with outer, and again with taskId once the snapshot began, so doneRunning
\* is called for both
EndSave(s, c) ==
    \E first \in FirstPhases(c, task.queued) :
        LET sv == saves[s]
            st == DoneRunning(Saving(task, [saves EXCEPT ![s] = NoSave], c),
                              sv.taskId, first)
        IN Become(IF sv.phase \in {"throttle", "participants"} THEN st
                  ELSE DoneRunning(st, sv.outer, first))

\* runSaveParticipants is under way: saves are refused
IgnoreSave == \E s \in Slots : saves[s].phase = "participants"

\* A save of the version that is being saved shares the fate of that save
Joins == IgnoreSave \/ task.running = copy.versionId

\* save, doSave.  A save while another one runs cancels that one, and is
\* queued in place of what was queued before
Save(options) ==
    /\ ~copy.disposed
    /\ ~(options = "auto" /\ (copy.conflict \/ copy.error))
    /\ options # "force" => copy.dirty
    /\ Spend("calls")
    /\ asked' = IF options = "auto" \/ ~copy.dirty
                    \/ (Joins /\ saves[task.slot].cancelled)
                THEN asked ELSE copy.versionId
    /\ \/ /\ Joins
          /\ UNCHANGED <<copy, task, saves>>
       \/ /\ ~Joins
          /\ task.running # 0
          /\ task' = [task EXCEPT !.queued = options]
          /\ saves' = [saves EXCEPT ![task.slot].cancelled = TRUE]
          /\ UNCHANGED copy
       \/ /\ ~Joins
          /\ task.running = 0
          /\ \E first \in FirstPhases(copy, options) :
                Become(DoSave(Saving(task, saves, copy), options, first))
    /\ UNCHANGED <<model, resolve, revert, disk, notify>>

\* The user cancels the progress, or a participant asks for it
CancelSave(s) ==
    /\ saves[s].phase \in {"throttle", "participants", "snapshot"}
    /\ ~saves[s].cancelled
    /\ Spend("events")
    /\ saves' = [saves EXCEPT ![s].cancelled = TRUE]
    /\ asked' = 0
    /\ UNCHANGED <<model, copy, task, resolve, revert, disk, notify>>

\* The delay after an undo is over: participants, unless cancelled meanwhile
ThrottleDone(s) ==
    /\ saves[s].phase = "throttle"
    /\ IF saves[s].cancelled
       THEN EndSave(s, copy)
       ELSE /\ saves' = [saves EXCEPT ![s].phase = "participants"]
            /\ UNCHANGED <<copy, task>>
    /\ UNCHANGED <<model, resolve, revert, disk, notify, asked, budget>>

\* The participants are through, also if they failed.  A save that was
\* cancelled ends here, and so does one of a disposed working copy
ParticipantsDone(s) ==
    /\ saves[s].phase = "participants"
    /\ IF saves[s].cancelled \/ copy.disposed
       THEN EndSave(s, copy)
       ELSE Become(BeginSnapshot(Saving(task, saves, copy), s))
    /\ UNCHANGED <<model, resolve, revert, disk, notify, asked, budget>>

\* model.snapshot resolves with the contents of now
SnapshotDone(s) ==
    /\ saves[s].phase = "snapshot"
    /\ IF saves[s].cancelled
       THEN EndSave(s, copy)
       ELSE /\ saves' = [saves EXCEPT ![s].phase = "validate",
                                      ![s].content = Current.content]
            /\ UNCHANGED <<copy, task>>
    /\ UNCHANGED <<model, resolve, revert, disk, notify, asked, budget>>

\* MUTANT: the working copy is not marked dirty.
HandleSaveErrorNotDirty(s, conflict) ==
    /\ EndSave(s, [copy EXCEPT !.error = TRUE, !.conflict = @ \/ conflict])
    /\ asked' = 0

\* handleSaveError; the dirty flag of a disposed copy is left alone
HandleSaveError(s, conflict) ==
    /\ EndSave(s, [copy EXCEPT !.dirty = @ \/ ~copy.disposed, !.error = TRUE,
                               !.conflict = @ \/ conflict])
    /\ asked' = 0

\* model.snapshot is rejected
SnapshotFails(s) ==
    /\ saves[s].phase = "snapshot"
    /\ ~saves[s].cancelled
    /\ Spend("events")
    /\ HandleSaveError(s, FALSE)
    /\ UNCHANGED <<model, resolve, revert, disk, notify>>

\* validateWriteFile: the file has changed since the stat of the save, and
\* not to the very contents that are to be written
ModifiedSince(sv) ==
    /\ sv.options # "overwrite"
    /\ sv.stat < disk.mtime
    /\ sv.content # disk.content

\* A changed file is a conflict, unless it has the size it had: then it
\* passes for unchanged
Validate(s) ==
    /\ saves[s].phase = "validate"
    /\ \/ /\ ModifiedSince(saves[s])
          /\ HandleSaveError(s, TRUE)
       \/ /\ saves' = [saves EXCEPT ![s].phase = "write"]
          /\ UNCHANGED <<copy, task, asked>>
    /\ UNCHANGED <<model, resolve, revert, disk, notify, budget>>

\* The file is written
Write(s) ==
    /\ saves[s].phase = "write"
    /\ disk' = [content |-> saves[s].content, mtime |-> disk.mtime + 1, by |-> "us"]
    /\ saves' = [saves EXCEPT ![s].phase = "stat"]
    /\ notify' = TRUE
    /\ UNCHANGED <<model, copy, task, resolve, revert, asked, budget>>

\* The write fails, and may leave the file truncated
WriteFails(s, truncated) ==
    /\ saves[s].phase = "write"
    /\ Spend("events")
    /\ disk' = IF truncated
               THEN [content |-> <<"broken", disk.mtime + 1>>,
                     mtime |-> disk.mtime + 1, by |-> "failed"]
               ELSE disk
    /\ notify' = (notify \/ truncated)
    /\ HandleSaveError(s, FALSE)
    /\ UNCHANGED <<model, resolve, revert>>

\* MUTANT: the latest stat to arrive is taken.
UpdateLastResolvedFileStatAlways(c, mtime) == [c EXCEPT !.stat = mtime]

\* updateLastResolvedFileStat: the stat never goes back
UpdateLastResolvedFileStat(c, mtime) ==
    IF c.stat <= mtime THEN [c EXCEPT !.stat = mtime] ELSE c

\* MUTANT: changes made during the save are overlooked.
HandleSaveSuccessAlways(c, versionId) ==
    SetDirty(UpdateLastResolvedFileStat(c, disk.mtime), FALSE, Current.id)

\* handleSaveSuccess
HandleSaveSuccess(c, versionId) ==
    LET c1 == UpdateLastResolvedFileStat(c, disk.mtime)
    IN IF versionId = c.versionId /\ ~c.disposed
       THEN SetDirty(c1, FALSE, Current.id)
       ELSE c1

\* writeFile resolves with the stat of the file at this moment
StatDone(s) ==
    /\ saves[s].phase = "stat"
    /\ EndSave(s, HandleSaveSuccess(copy, saves[s].taskId))
    /\ asked' = IF asked <= saves[s].taskId THEN 0 ELSE asked
    /\ UNCHANGED <<model, resolve, revert, disk, notify, budget>>

\* The file is written but its stat cannot be read: the save has failed, and
\* the working copy does not learn the stat of its own write
StatFails(s) ==
    /\ saves[s].phase = "stat"
    /\ Spend("events")
    /\ disk' = [disk EXCEPT !.by = IF @ = "us" THEN "failed" ELSE @]
    /\ HandleSaveError(s, FALSE)
    /\ UNCHANGED <<model, resolve, revert, notify>>

-----------------------------------------------------------------------------
(* Resolving *)

\* Neither disposed, nor dirty, nor being saved
MayResolve == ~copy.disposed /\ ~copy.dirty /\ task.running = 0

StartResolve(force) ==
    resolve' = IF MayResolve
               THEN [NoResolve EXCEPT !.phase = "reading", !.force = force,
                                      !.versionId = copy.versionId,
                                      !.etag = IF force THEN 0 ELSE copy.stat]
               ELSE resolve

\* reload waits for a pending resolve; a dirty working copy is not reloaded
ReloadProceeds == copy.dirty \/ resolve.phase = "idle"

\* The watcher reports a change: the manager drops the report if the working
\* copy is dirty, and otherwise reloads it
Reload ==
    /\ notify
    /\ ReloadProceeds
    /\ StartResolve(FALSE)
    /\ notify' = FALSE
    /\ UNCHANGED <<model, copy, task, saves, revert, disk, asked, budget>>

\* What the end of a resolve means to the revert that waits for it: the flags
\* are set back when it failed
EndResolve(c, failed) ==
    /\ resolve' = NoResolve
    /\ revert' = IF resolve.force THEN NoRevert ELSE revert
    /\ copy' = IF failed /\ resolve.force
               THEN [c EXCEPT !.dirty = revert.undo.dirty,
                              !.conflict = revert.undo.conflict,
                              !.error = revert.undo.error,
                              !.saved = revert.undo.saved]
               ELSE c

\* The file service reads the file ...
ReadFile ==
    /\ resolve.phase = "reading"
    /\ resolve' = [resolve EXCEPT !.phase = "read", !.content = disk.content,
                                  !.mtime = disk.mtime]
    /\ UNCHANGED <<model, copy, task, saves, revert, disk, notify, asked, budget>>

\* ... and readFileStream is rejected because the file is not modified, or
\* resolves.  Contents that were changed meanwhile are kept
ReadDone ==
    /\ resolve.phase = "read"
    /\ LET c == UpdateLastResolvedFileStat(copy, resolve.mtime)
       IN IF resolve.etag = resolve.mtime
          THEN EndResolve(c, FALSE)
          ELSE IF resolve.versionId # copy.versionId \/ copy.disposed
          THEN EndResolve(copy, FALSE)
          ELSE /\ resolve' = [resolve EXCEPT !.phase = "updating"]
               /\ copy' = [c EXCEPT !.ignoreDirty = TRUE]
               /\ UNCHANGED revert
    /\ UNCHANGED <<model, task, saves, disk, notify, asked, budget>>

\* readFileStream or model.update fails
ResolveFails ==
    /\ resolve.phase \in {"reading", "updating"}
    /\ Spend("events")
    /\ EndResolve([copy EXCEPT !.ignoreDirty = FALSE], TRUE)
    /\ asked' = Answer(copy')
    /\ UNCHANGED <<model, task, saves, disk, notify>>

\* model.update has replaced the contents
UpdateDone ==
    /\ resolve.phase = "updating"
    /\ ~copy.disposed
    /\ model' = Changed(model, resolve.content)
    /\ EndResolve(SetDirty([OnModelContentChanged(copy, model.last + 1)
                                EXCEPT !.ignoreDirty = FALSE],
                           FALSE, model.last + 1),
                  FALSE)
    /\ asked' = 0
    /\ UNCHANGED <<task, saves, disk, notify, budget>>

\* revert, up to the resolve it waits for
Revert(force) ==
    /\ ~copy.disposed
    /\ revert.phase = "idle"
    /\ copy.dirty \/ force
    /\ Spend("events")
    /\ copy' = SetDirty(copy, FALSE, Current.id)
    /\ revert' = [phase |-> "waiting",
                  undo |-> [dirty |-> copy.dirty, conflict |-> copy.conflict,
                            error |-> copy.error, saved |-> copy.saved]]
    /\ asked' = 0
    /\ UNCHANGED <<model, task, saves, resolve, disk, notify>>

\* forceResolveFromFile, once no other resolve is pending.  There is nothing
\* to wait for when the working copy may not be resolved
RevertResolve ==
    /\ revert.phase = "waiting"
    /\ resolve.phase = "idle"
    /\ StartResolve(TRUE)
    /\ revert' = IF MayResolve THEN [revert EXCEPT !.phase = "resolving"] ELSE NoRevert
    /\ UNCHANGED <<model, copy, task, saves, disk, notify, asked, budget>>

-----------------------------------------------------------------------------
(* The rest of the world *)

\* canDispose: neither dirty nor being resolved
CanDispose == ~copy.dirty /\ resolve.phase = "idle" /\ revert.phase = "idle"

\* dispose, which owners call once canDispose has resolved; a save that is
\* under way goes on
Dispose ==
    /\ ~copy.disposed
    /\ CanDispose
    /\ copy' = [copy EXCEPT !.disposed = TRUE, !.conflict = FALSE, !.error = FALSE]
    /\ asked' = 0
    /\ UNCHANGED <<model, task, saves, resolve, revert, disk, notify, budget>>

\* Another program writes the file, as long as the working copy is of interest
OtherWrites ==
    /\ ~copy.disposed
    /\ Spend("events")
    /\ disk' = [content |-> <<"other", disk.mtime + 1>>, mtime |-> disk.mtime + 1,
                by |-> "other"]
    /\ notify' = TRUE
    /\ UNCHANGED <<model, copy, task, saves, resolve, revert, asked>>

-----------------------------------------------------------------------------
(* Specification *)

Next ==
    \/ Edit
    \/ \E pos \in DOMAIN model.history : UndoRedo(pos)
    \/ \E options \in Options : Save(options)
    \/ \E s \in Slots :
        \/ CancelSave(s)
        \/ ThrottleDone(s)
        \/ ParticipantsDone(s)
        \/ SnapshotDone(s)
        \/ SnapshotFails(s)
        \/ Validate(s)
        \/ Write(s)
        \/ \E truncated \in BOOLEAN : WriteFails(s, truncated)
        \/ StatDone(s)
        \/ StatFails(s)
    \/ Reload
    \/ ReadFile
    \/ ReadDone
    \/ ResolveFails
    \/ UpdateDone
    \/ \E force \in BOOLEAN : Revert(force)
    \/ RevertResolve
    \/ Dispose
    \/ OtherWrites

Spec == Init /\ [][Next]_vars

\* Participants come to an end, and the model and the file service answer.
\* Nothing is assumed of users, other programs and the watcher
Fairness ==
    /\ \A s \in Slots :
        WF_vars(\/ ThrottleDone(s) \/ ParticipantsDone(s)
                \/ SnapshotDone(s) \/ SnapshotFails(s)
                \/ Validate(s) \/ Write(s) \/ StatDone(s) \/ StatFails(s)
                \/ \E truncated \in BOOLEAN : WriteFails(s, truncated))
    /\ WF_vars(ReadFile \/ ReadDone \/ ResolveFails \/ UpdateDone)
    /\ WF_vars(RevertResolve)

LiveSpec == Spec /\ Fairness

-----------------------------------------------------------------------------
(* Properties *)

\* Every variable has its type, and a queued save has a running one to wait
\* for.
TypeOK ==
    /\ model \in [history : Seq(Versions), pos : Nat, last : Nat]
    /\ model.pos \in DOMAIN model.history
    /\ copy \in [dirty : BOOLEAN, saved : Nat, conflict : BOOLEAN, error : BOOLEAN,
                 versionId : Nat, stat : Nat, ignoreDirty : BOOLEAN,
                 undone : BOOLEAN, disposed : BOOLEAN]
    /\ task \in [running : Nat, slot : Slots, queued : Options \cup {"none"}]
    /\ saves \in [Slots -> [phase : Phases, outer : Nat, taskId : Nat,
                            options : Options, cancelled : BOOLEAN, stat : Nat,
                            content : Contents]]
    /\ resolve \in [phase : {"idle", "reading", "read", "updating"},
                    force : BOOLEAN, versionId : Nat, etag : Nat,
                    content : Contents, mtime : Nat]
    /\ revert \in [phase : {"idle", "waiting", "resolving"},
                   undo : [dirty : BOOLEAN, conflict : BOOLEAN, error : BOOLEAN,
                           saved : Nat]]
    /\ disk \in [content : Contents, mtime : Nat, by : {"us", "other", "failed"}]
    /\ notify \in BOOLEAN
    /\ asked \in Nat
    /\ budget \in [calls : 0 .. MaxCalls, events : 0 .. MaxEvents]
    /\ task.queued # "none" => task.running # 0

\* "Never ever must 2 saves execute at the same time because this can lead to
\* dirty writes and race conditions" (doSave): two bodies of doSaveSequential
\* are never under way, though run() is called twice for each, under different
\* ids, and each call clears the running task when it is over.
OneSaveAtATime ==
    \A s, t \in Slots :
        saves[s].phase # "none" /\ saves[t].phase # "none" => s = t

\* A working copy in conflict or in error mode is dirty, as the documentation
\* of these states says, whatever saves, reverts and undos overlap.
ConflictAndErrorAreDirty ==
    ~copy.disposed /\ (copy.conflict \/ copy.error) => copy.dirty

\* When a save clears the dirty flag, the file holds what the model holds,
\* unless another program has written it in between (handleSaveSuccess).
SaveClearsWhatItWrote ==
    [][copy.dirty /\ ~copy'.dirty /\ saves # saves' /\ disk.by = "us"
       => disk.content = Current.content]_vars

\* A save that succeeded is not the cause of a later conflict, and neither is
\* one whose stat is still awaited: a save that finds a conflict finds a file
\* last written by another program, or by a save of the working copy itself
\* that was reported as failed after it had touched the file (a write that left
\* it truncated, a stat that could not be read).  handleSaveError takes over no
\* stat, so such a write of its own does make the next save conflict.  A
\* resolve that read the file before a write and comes in after it must not
\* bring the older stat back (updateLastResolvedFileStat).
NoConflictAfterSuccess ==
    [][copy.conflict' /\ ~copy.conflict /\ revert' = revert => disk.by # "us"]_vars

\* An explicit save of a dirty working copy is answered: contents at least as
\* new as at the time of the call are written, unless a write fails, the user
\* cancels, or the working copy ceases to be dirty.  Being refused during the
\* participants of another save, being queued behind one and being replaced
\* in the queue lose nothing.  A save that joins one that is already cancelled
\* is not owed an answer: it shares the fate of that save.
SaveIsHonoured == asked # 0 ~> asked = 0

\* A working copy that is not dirty holds what is on disk ("to remember when
\* the version of the model matches with the saved version on disk",
\* doSetDirty) once nothing is under way, the file was last written by the
\* working copy itself and the watcher has reported it.
CleanIsOnDisk ==
    /\ ~copy.dirty /\ ~copy.disposed /\ disk.by = "us" /\ ~notify
    /\ task.running = 0 /\ resolve.phase = "idle" /\ revert.phase = "idle"
    => disk.content = Current.content

=============================================================================
