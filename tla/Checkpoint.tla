----------------------------- MODULE Checkpoint -----------------------------
(***************************************************************************)
(* Saving and resuming of the fully asynchronous trainer: _save_checkpoint *)
(* writes one folder per parameter version, part after part, under the     *)
(* retention rules of BaseCheckpointManager, and names it in the tracker   *)
(* file at the end; after a crash the program is started again and         *)
(* load_checkpoint of the trainer and of the rollouter read what is left   *)
(* on the disk.  All ranks write a part between two barriers, so a part is *)
(* absent, partial or complete.                                            *)
(***************************************************************************)
EXTENDS Integers, Sequences, FiniteSets

CONSTANTS
    Retention,    \* the retention limits a run may have: functions from the
                  \* worker parts ({"actor"} or {"actor", "critic"}) to
                  \* max_ckpt_to_keep, 0 standing for null
    SaveFreq,     \* trainer.save_freq, a positive number
    LastVersion,  \* bound: the parameter version training ends with
    MaxCrashes    \* bound: how often the program is killed

ASSUME RetentionAssumption ==
    \A k \in Retention :
        k \in [{"actor"} -> Nat] \cup [{"actor", "critic"} -> Nat]
ASSUME NumberAssumption ==
    /\ SaveFreq \in Nat \ {0}
    /\ LastVersion \in Nat
    /\ MaxCrashes \in Nat

Absent == 0       \* tracker: the file does not exist
Torn == -1        \* tracker: opened with "w", which empties it, not written yet
Versions == 1 .. LastVersion

VARIABLES
    keep,      \* the retention limits of this deployment
    status,    \* "up", "down" after a crash, "failed" to load, "done"
    version,   \* current_param_version (kept as a witness while "down")
    lastCkpt,  \* last_ckpt_version
    step,      \* the part _save_checkpoint is at, "train" outside of it
    open,      \* that part has been begun
    paths,     \* previous_saved_paths of every checkpoint manager
    disk,      \* what is on the disk of every part of every version
    folders,   \* the versions whose global_step folder exists
    tracker,   \* latest_checkpointed_iteration.txt
    saved,     \* history: the version of the last save that returned
    crashes    \* history: crashes so far

process == <<version, lastCkpt, step, open, paths>>
storage == <<disk, folders, tracker, saved>>
vars == <<keep, status, process, storage, crashes>>

Managed == DOMAIN keep               \* the parts a checkpoint manager writes
Parts == Managed \cup {"data"}       \* data.pt is written by the rollouter

After(p) ==
    CASE p = "actor"  -> IF "critic" \in Managed THEN "critic" ELSE "data"
      [] p = "critic" -> "data"
      [] p = "data"   -> "tracker"

\* Every variable has its type, and what a manager has registered is complete
\* on the disk.
TypeOK ==
    /\ keep \in Retention
    /\ status \in {"up", "down", "failed", "done"}
    /\ version \in 0 .. LastVersion
    /\ lastCkpt \in 0 .. LastVersion
    /\ step \in {"train", "tracker"} \cup Parts
    /\ open \in BOOLEAN
    /\ paths \in [Managed -> Seq(Versions)]
    /\ \A p \in Managed : \A i \in DOMAIN paths[p] : disk[p][paths[p][i]] = "complete"
    /\ disk \in [Parts -> [Versions -> {"absent", "partial", "complete"}]]
    /\ folders \in SUBSET Versions
    /\ tracker \in Versions \cup {Absent, Torn}
    /\ saved \in 0 .. LastVersion
    /\ crashes \in 0 .. MaxCrashes

Init ==
    /\ keep \in Retention
    /\ status = "up"
    /\ version = 0
    /\ lastCkpt = 0
    /\ step = "train"
    /\ open = FALSE
    /\ paths = [p \in Managed |-> <<>>]
    /\ disk = [p \in Parts |-> [v \in Versions |-> "absent"]]
    /\ folders = {}
    /\ tracker = Absent
    /\ saved = 0
    /\ crashes = 0

-----------------------------------------------------------------------------
(* BaseCheckpointManager *)

\* The k last paths, the ones before them and the removal of these.
MutForgetNothing(s, k) == s
LastOnes(s, k) == IF Len(s) > k THEN SubSeq(s, Len(s) - k + 1, Len(s)) ELSE s
FirstOnes(s, k) == {s[i] : i \in 1 .. Len(s) - k}
remove_previous_save_local_path(files, gone) ==
    [v \in Versions |-> IF v \in gone THEN "absent" ELSE files[v]]

\* How many of the registered checkpoints stay when a new one is begun: a
\* limit of 1 waits for register_checkpoint.
MutSpareFewer(k, s) == IF k > 1 /\ Len(s) >= k THEN k - 2 ELSE Len(s)
MutSpareAll(k, s) == Len(s)
Spared(k, s) == IF k > 1 /\ Len(s) >= k THEN k - 1 ELSE Len(s)
ensure_checkpoint_capacity(p, k, s) ==
    /\ paths' = [paths EXCEPT ![p] = LastOnes(s, Spared(k, s))]
    /\ disk' = [disk EXCEPT ![p] =
           [remove_previous_save_local_path(@, FirstOnes(s, Spared(k, s)))
               EXCEPT ![version] = "partial"]]

\* How many stay when the new one, which is the last of s, is complete.
Limit(k, s) == IF k > 0 THEN k ELSE Len(s)
register_checkpoint(p, k, s) ==
    /\ paths' = [paths EXCEPT ![p] = LastOnes(s, Limit(k, s))]
    /\ disk' = [disk EXCEPT ![p] =
           remove_previous_save_local_path([@ EXCEPT ![version] = "complete"],
                                           FirstOnes(s, Limit(k, s)))]

-----------------------------------------------------------------------------
(* The trainer *)

\* The conditions of _fit_save_checkpoint.  A save is due at every multiple
\* of save_freq and at the end of fit (force), and may happen at any version
\* when the training plan is about to expire.
Unsaved == version # lastCkpt
MutNotDue == Unsaved /\ version = LastVersion
Due == Unsaved /\ (version % SaveFreq = 0 \/ version = LastVersion)

\* fit_step up to _fit_update_weights, when it reaches a new version
Train ==
    /\ status = "up" /\ step = "train"
    /\ ~Due
    /\ version < LastVersion
    /\ version' = version + 1
    /\ UNCHANGED <<keep, status, lastCkpt, step, open, paths, storage, crashes>>

BeginSave ==
    /\ status = "up" /\ step = "train"
    /\ Unsaved
    /\ step' = "actor"
    /\ UNCHANGED <<keep, status, version, lastCkpt, open, paths, storage, crashes>>

\* save_checkpoint of a worker group up to the first barrier: make room, then
\* make the directory the shards are written into.
BeginPart(p) ==
    /\ status = "up" /\ step = p /\ ~open
    /\ ensure_checkpoint_capacity(p, keep[p], paths[p])
    /\ folders' = folders \cup {version}
    /\ open' = TRUE
    /\ UNCHANGED <<keep, status, version, lastCkpt, step, tracker, saved, crashes>>

\* Behind the last barrier: the part is complete and gets registered.
EndPart(p) ==
    /\ status = "up" /\ step = p /\ open
    /\ register_checkpoint(p, keep[p], Append(paths[p], version))
    /\ open' = FALSE
    /\ step' = After(p)
    /\ UNCHANGED <<keep, status, version, lastCkpt, folders, tracker, saved, crashes>>

\* FullyAsyncRollouter.save_checkpoint: the folder, then torch.save of data.pt
SaveData ==
    /\ status = "up" /\ step = "data"
    /\ disk' = [disk EXCEPT !["data"][version] =
                    IF open THEN "complete" ELSE "partial"]
    /\ folders' = folders \cup {version}
    /\ open' = ~open
    /\ step' = IF open THEN After("data") ELSE step
    /\ UNCHANGED <<keep, status, version, lastCkpt, paths, tracker, saved, crashes>>

\* open(tracker, "w")
OpenTracker ==
    /\ status = "up" /\ step = "tracker" /\ ~open
    /\ tracker' = Torn
    /\ open' = TRUE
    /\ UNCHANGED <<keep, status, version, lastCkpt, step, paths, disk, folders,
                   saved, crashes>>

\* The write reaches the file and _fit_save_checkpoint returns.
CloseTracker ==
    /\ status = "up" /\ step = "tracker" /\ open
    /\ tracker' = version
    /\ saved' = version
    /\ lastCkpt' = version
    /\ open' = FALSE
    /\ step' = "train"
    /\ UNCHANGED <<keep, status, version, paths, disk, folders, crashes>>

\* fit returns after its forced save.
Finish ==
    /\ status = "up" /\ step = "train"
    /\ version = LastVersion /\ ~Unsaved
    /\ status' = "done"
    /\ UNCHANGED <<keep, process, storage, crashes>>

-----------------------------------------------------------------------------
(* Crash and restart *)

\* The program is killed; memory, previous_saved_paths too, is lost.
Crash ==
    /\ status = "up"
    /\ crashes < MaxCrashes
    /\ crashes' = crashes + 1
    /\ status' = "down"
    /\ lastCkpt' = 0
    /\ step' = "train"
    /\ open' = FALSE
    /\ paths' = [p \in Managed |-> <<>>]
    /\ UNCHANGED <<keep, version, storage>>

\* load_checkpoint of every worker needs all of its files; the rollouter
\* starts its dataloader from scratch when there is no data.pt.
Loadable(v) ==
    /\ \A p \in Managed : disk[p][v] = "complete"
    /\ disk["data"][v] # "partial"

\* find_latest_ckpt_path gives no folder.
NoCheckpoint == tracker = Absent \/ (tracker # Torn /\ tracker \notin folders)

StartUp(v) ==
    /\ status' = "up"
    /\ version' = v
    /\ lastCkpt' = v
    /\ UNCHANGED <<keep, step, open, paths, storage, crashes>>

StartFromScratch ==
    /\ status = "down"
    /\ NoCheckpoint
    /\ StartUp(0)

Resume ==
    /\ status = "down"
    /\ tracker \in folders
    /\ Loadable(tracker)
    /\ StartUp(tracker)

\* int("") of an empty tracker, or torch.load of a missing or cut file, raises.
FailToLoad ==
    /\ status = "down"
    /\ \/ tracker = Torn
       \/ tracker \in folders /\ ~Loadable(tracker)
    /\ status' = "failed"
    /\ UNCHANGED <<keep, process, storage, crashes>>

Next ==
    \/ Train
    \/ BeginSave
    \/ \E p \in Managed : BeginPart(p) \/ EndPart(p)
    \/ SaveData
    \/ OpenTracker
    \/ CloseTracker
    \/ Finish
    \/ Crash
    \/ StartFromScratch
    \/ Resume
    \/ FailToLoad

\* The program, and whoever starts it again after a crash, keeps going.
Fairness == WF_vars(Next)

Spec == Init /\ [][Next]_vars /\ Fairness

-----------------------------------------------------------------------------
(* Properties *)

\* The checkpoint the tracker names can be loaded whole, whatever part of the
\* next save was running when the program was killed.
TrackerSound ==
    tracker \in Versions =>
        tracker \in folders /\ \A p \in Parts : disk[p][tracker] = "complete"

\* A restart that comes up continues from the last save that returned and
\* repeats at most save_freq versions of training.
RestartKeepsProgress ==
    [][(status = "down" /\ status' = "up") =>
            version' = saved /\ version - version' <= SaveFreq]_vars

PerLife(k) == IF k = 1 THEN 2 ELSE k

\* Retention holds within one life of the program: a life leaves no more than
\* its limit, or the old and the new checkpoint with a limit of 1.  The paths
\* are forgotten at a restart, so every crash may add as many again.
DiskBounded ==
    \A p \in Managed :
        keep[p] > 0 =>
            Cardinality({v \in Versions : disk[p][v] # "absent"})
                <= PerLife(keep[p]) * (crashes + 1)

\* Training ends with its last version saved, unless a crash fell between the
\* two steps of writing the tracker and the restart cannot read it.
TrainingCompletes ==
    <>[](\/ status = "done" /\ tracker = LastVersion
         \/ status = "failed" /\ tracker = Torn)
=============================================================================
