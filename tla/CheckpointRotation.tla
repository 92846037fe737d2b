-------------------------- MODULE CheckpointRotation --------------------------
(***************************************************************************)
(* Saving, rotating and resuming checkpoints: RaySemiTrainer.fit's         *)
(* decisions to save, _save_checkpoint and _load_checkpoint on the driver, *)
(* and FSDPCheckpointManager.save_checkpoint on the workers.               *)
(*                                                                         *)
(* A save is many writes: the workers of each role (actor, then critic)    *)
(* remove old directories and write one shard each, the driver writes      *)
(* data.pt, trainer_state.pt and at last the tracker file.  The process    *)
(* may die between any two of them.  Disk survives, previous_saved_paths   *)
(* does not.  A file is identified with the incarnation of the process     *)
(* that wrote it; of what is inside only whether a restart can read it.    *)
(***************************************************************************)
EXTENDS Integers, Sequences, FiniteSets

CONSTANTS
  Ranks,          \* workers of a role; each writes its own shard
  Roles,          \* number of checkpointed roles: 1 actor, 2 actor and critic
  Keep,           \* max_actor/critic_ckpt_to_keep by role; 0 when null
  TotalSteps,     \* total_training_steps
  MaxStep,        \* bound: a resumed run trains at most up to this step
  TestFreq,       \* trainer.test_freq; 0 when off
  SaveFreq,       \* trainer.save_freq; 0 when off
  ValBeforeTrain, \* trainer.val_before_train
  EsiExpires,     \* the instance may report that it expires soon
  MaxRuns,        \* bound: how many times the job is started
  CrashPoints     \* the points of the program at which it may be killed

Role == 1..Roles
Steps == 0..MaxStep

SavePoints == {"rotate", "remove", "shards", "open_data", "close_data",
               "open_state", "close_state", "open_tracker", "close_tracker"}
RunPoints == {"initial", "ready", "train", "periodic", "advance"} \cup SavePoints

ASSUME RotationAssumption ==
  /\ IsFiniteSet(Ranks) /\ Ranks # {}
  /\ Roles \in Nat \ {0}
  /\ Keep \in [Role -> Nat]
  /\ TotalSteps \in Nat /\ MaxStep \in Nat /\ TotalSteps <= MaxStep /\ MaxRuns \in Nat \ {0}
  /\ TestFreq \in Nat /\ SaveFreq \in Nat
  /\ ValBeforeTrain \in BOOLEAN /\ EsiExpires \in BOOLEAN
  /\ CrashPoints \subseteq RunPoints

\* Contents of a file: missing, cut short by a crash, or whole and written by
\* incarnation 1, 2, ...
Absent == 0
Torn == -1
NoTracker == -2

Side == {"data", "state"}

VARIABLES
  pc,       \* where the driver is
  run,      \* incarnation of the process
  step,     \* self.global_steps
  ret,      \* where fit goes on when the current save returns
  role,     \* the role whose workers are saving
  saved,    \* previous_saved_paths of rank 0, per role, as steps
  doomed,   \* steps whose directory is being removed
  wrote,    \* progress of each rank in the current save
  shard,    \* shard[k][s][r]: file of rank r of role k in global_step_s
  measured, \* neither dictionary of pass rates is empty
  side,     \* side[s]: data.pt and trainer_state.pt in global_step_s
  rated,    \* steps whose trainer_state.pt holds such dictionaries
  tracker   \* latest_checkpointed_iteration.txt

memory == <<run, step, ret, role, saved, doomed, wrote, measured>>
disk == <<shard, side, rated, tracker>>
vars == <<pc, memory, disk>>

Init ==
  /\ pc = "down" /\ run = 0 /\ step = 0 /\ ret = "advance" /\ role = 1
  /\ saved = [k \in Role |-> <<>>] /\ doomed = {}
  /\ wrote = [r \in Ranks |-> "todo"] /\ measured = FALSE /\ rated = {}
  /\ shard = [k \in Role |-> [s \in Steps |-> [r \in Ranks |-> Absent]]]
  /\ side = [s \in Steps |-> [f \in Side |-> Absent]]
  /\ tracker = NoTracker

-----------------------------------------------------------------------------
\* Starting the job.

Whole(content) == content \notin {Absent, Torn}

\* _load_trainer_state: without the file it only warns; min() over an empty dictionary of
\* pass rates raises.
Rated(s) == side[s]["state"] = Absent \/ s \in rated

\* The actor directory must be there in full; a missing data.pt is only warned about,
\* a torn one raises.
Loadable(s) ==
  /\ \A k \in Role, r \in Ranks : Whole(shard[k][s][r])
  /\ \A f \in Side : side[s][f] # Torn
  /\ Rated(s)

\* Mutant: resumes one step before the checkpoint it loads.
StartOneBack ==
  /\ pc = "down" /\ run' = run + 1
  /\ IF tracker \in Steps /\ Loadable(tracker)
       THEN pc' = "initial" /\ step' = tracker - 1
       ELSE pc' = (IF tracker = NoTracker THEN "initial" ELSE "failed") /\ step' = 0
  /\ measured' = (pc' = "initial" /\ tracker \in Steps)
  /\ UNCHANGED <<ret, role, saved, doomed, wrote, disk>>

\* Mutant: takes the newest actor directory instead of the one the tracker names.
StartNewest ==
  /\ pc = "down" /\ run' = run + 1 /\ pc' = "initial"
  /\ LET there == {s \in Steps : \A r \in Ranks : Whole(shard[1][s][r])}
     IN  \/ there = {} /\ step' = 0
         \/ step' \in {s \in there : \A t \in there : t <= s}
  /\ UNCHANGED <<ret, role, saved, doomed, wrote, measured, disk>>

\* __init__ and _load_checkpoint with resume_mode "auto".
Start ==
  /\ pc = "down"
  /\ run' = run + 1
  /\ \/ tracker = NoTracker /\ step' = 0 /\ pc' = "initial"
     \/ tracker \in Steps /\ Loadable(tracker) /\ step' = tracker /\ pc' = "initial"
     \/ tracker \in Steps /\ ~Loadable(tracker) /\ step' = 0 /\ pc' = "failed"
     \/ tracker = Torn /\ step' = 0 /\ pc' = "failed"
  /\ measured' = (pc' = "initial" /\ tracker \in Steps /\ side[tracker]["state"] # Absent)
  /\ UNCHANGED <<ret, role, saved, doomed, wrote, disk>>

\* The process is killed: only the disk is left.
Crash ==
  /\ pc \in CrashPoints /\ run < MaxRuns
  /\ pc' = "down" /\ step' = 0 /\ ret' = "advance" /\ role' = 1
  /\ saved' = [k \in Role |-> <<>>] /\ doomed' = {}
  /\ wrote' = [r \in Ranks |-> "todo"] /\ measured' = FALSE
  /\ UNCHANGED <<run, disk>>

-----------------------------------------------------------------------------
\* fit: when a checkpoint is saved.

IsLastStep == step >= TotalSteps

Due(freq) == freq > 0 /\ (IsLastStep \/ step % freq = 0)

BeginSave(next) ==
  /\ pc' = "rotate" /\ ret' = next /\ role' = 1
  /\ UNCHANGED <<run, step, saved, doomed, wrote, disk>>

GoTo(point) == pc' = point /\ UNCHANGED <<run, step, ret, role, saved, doomed, wrote, disk>>

\* _validate saves when the score beats best_score; whether it does is open.
InitialValidation ==
  /\ pc = "initial"
  /\ UNCHANGED measured
  /\ \/ ValBeforeTrain /\ BeginSave("ready")
     \/ GoTo("ready")

\* One iteration of the batch loop up to and including its validation.  The first batch
\* need not have prompts of both kinds, and supervised training measures no pass rates.
TrainStep ==
  /\ pc = "train"
  /\ measured' \in {measured, TRUE}
  /\ \/ Due(TestFreq) /\ BeginSave("periodic")
     \/ GoTo("periodic")

PeriodicSave ==
  /\ pc = "periodic" /\ UNCHANGED measured
  /\ \/ (Due(SaveFreq) \/ (SaveFreq > 0 /\ EsiExpires)) /\ BeginSave("advance")
     \/ ~Due(SaveFreq) /\ GoTo("advance")

TrainNext == step' = step + 1 /\ pc' = "train"
             /\ UNCHANGED <<run, ret, role, saved, doomed, wrote, measured, disk>>

\* The first global_steps += 1.  The range of epochs may be empty, at any step: it
\* is derived from the trajectories and not from the step.
EnterLoop ==
  /\ pc = "ready" /\ UNCHANGED measured
  /\ \/ GoTo("done")
     \/ step < MaxStep /\ TrainNext

\* Mutant: does not return after the last step.
EndStepForever == pc = "advance" /\ TrainNext

\* The end of an iteration: return after the last step, or leave the loop early
\* because the epochs have run out.
EndStep ==
  /\ pc = "advance" /\ UNCHANGED measured
  /\ \/ GoTo("done")
     \/ ~IsLastStep /\ TrainNext

-----------------------------------------------------------------------------
\* _save_checkpoint, and save_checkpoint on the workers of one role.

\* Mutant: forgets to make room for the new path.
SurplusNoRoom(k) == IF Keep[k] > 0 /\ Len(saved[k]) >= Keep[k] THEN Len(saved[k]) - Keep[k] ELSE 0

\* How many of the oldest saved paths make room for the new one.
Surplus(k) ==
  IF Keep[k] > 0 /\ Len(saved[k]) >= Keep[k] THEN Len(saved[k]) - Keep[k] + 1 ELSE 0

\* Rank 0 picks the directories to remove; the others wait at the barrier.
Rotate ==
  /\ pc = "rotate"
  /\ doomed' = {saved[role][i] : i \in 1..Surplus(role)}
  /\ saved' = [saved EXCEPT ![role] = SubSeq(@, Surplus(role) + 1, Len(@))]
  /\ pc' = "remove"
  /\ UNCHANGED <<run, step, ret, role, wrote, measured, disk>>

\* rmtree: one file at a time.
RemoveShard(s, r) ==
  /\ pc = "remove" /\ s \in doomed /\ shard[role][s][r] # Absent
  /\ shard' = [shard EXCEPT ![role][s][r] = Absent]
  /\ UNCHANGED <<pc, memory, side, rated, tracker>>

\* Mutant: begins the rotation again once the directories are gone.
EndRemovalAgain ==
  /\ pc = "remove"
  /\ \A s \in doomed, r \in Ranks : shard[role][s][r] = Absent
  /\ doomed' = {} /\ wrote' = [r \in Ranks |-> "todo"] /\ pc' = "rotate"
  /\ UNCHANGED <<run, step, ret, role, saved, measured, disk>>

\* The directories are gone: mkdir, and the barrier lets every rank go on.
EndRemoval ==
  /\ pc = "remove"
  /\ \A s \in doomed, r \in Ranks : shard[role][s][r] = Absent
  /\ doomed' = {} /\ wrote' = [r \in Ranks |-> "todo"] /\ pc' = "shards"
  /\ UNCHANGED <<run, step, ret, role, saved, measured, disk>>

\* torch.save truncates the file, then writes it.
OpenShard(r) ==
  /\ pc = "shards" /\ wrote[r] = "todo"
  /\ wrote' = [wrote EXCEPT ![r] = "open"]
  /\ shard' = [shard EXCEPT ![role][step][r] = Torn]
  /\ UNCHANGED <<pc, run, step, ret, role, saved, doomed, measured, side, rated, tracker>>

CloseShard(r) ==
  /\ pc = "shards" /\ wrote[r] = "open"
  /\ wrote' = [wrote EXCEPT ![r] = "done"]
  /\ shard' = [shard EXCEPT ![role][step][r] = run]
  /\ UNCHANGED <<pc, run, step, ret, role, saved, doomed, measured, side, rated, tracker>>

\* Mutant: no barrier after the shards.
RegisterNoBarrier ==
  /\ pc = "shards" /\ \E r \in Ranks : wrote[r] = "done"
  /\ saved' = [saved EXCEPT ![role] = Append(@, step)]
  /\ \/ role < Roles /\ role' = role + 1 /\ pc' = "rotate"
     \/ role = Roles /\ role' = role /\ pc' = "open_data"
  /\ UNCHANGED <<run, step, ret, doomed, wrote, measured, disk>>

\* Every rank is past the last barrier: the path is remembered, and the driver
\* goes on to the next role or to its own files.
Register ==
  /\ pc = "shards" /\ \A r \in Ranks : wrote[r] = "done"
  /\ saved' = [saved EXCEPT ![role] = Append(@, step)]
  /\ \/ role < Roles /\ role' = role + 1 /\ pc' = "rotate"
     \/ role = Roles /\ role' = role /\ pc' = "open_data"
  /\ UNCHANGED <<run, step, ret, doomed, wrote, measured, disk>>

WriteSide(from, f, content, to) ==
  /\ pc = from /\ pc' = to
  /\ side' = [side EXCEPT ![step][f] = content]
  /\ UNCHANGED <<memory, shard, tracker>>

SaveDataloader ==
  /\ UNCHANGED rated
  /\ \/ WriteSide("open_data", "data", Torn, "close_data")
     \/ WriteSide("close_data", "data", run, "open_state")

\* _save_trainer_state
SaveTrainerState ==
  \/ WriteSide("open_state", "state", Torn, "close_state") /\ UNCHANGED rated
  \/ /\ WriteSide("close_state", "state", run, "open_tracker")
     /\ rated' = IF measured THEN rated \cup {step} ELSE rated \ {step}

\* open(..., "w") empties the tracker; the number is there once it is closed.
OpenTracker ==
  /\ pc = "open_tracker" /\ pc' = "close_tracker"
  /\ tracker' = Torn
  /\ UNCHANGED <<memory, shard, side, rated>>

CloseTracker ==
  /\ pc = "close_tracker" /\ pc' = ret
  /\ tracker' = step
  /\ UNCHANGED <<memory, shard, side, rated>>

-----------------------------------------------------------------------------
Save ==
  \/ Rotate \/ EndRemoval \/ Register
  \/ \E s \in Steps, r \in Ranks : RemoveShard(s, r)
  \/ \E r \in Ranks : OpenShard(r) \/ CloseShard(r)
  \/ SaveDataloader \/ SaveTrainerState \/ OpenTracker \/ CloseTracker

Fit == InitialValidation \/ TrainStep \/ PeriodicSave \/ EnterLoop \/ EndStep

Halted == pc \in {"done", "failed"}

\* A finished job, or one that cannot come up, stays as it is.
Halt == Halted /\ UNCHANGED vars

Next == Start \/ Crash \/ Fit \/ Save \/ Halt

SafeSpec == Init /\ [][Next]_vars

\* The driver and the workers keep running, and whoever runs the job starts it
\* again after a crash; nothing is assumed of crashes.
Fairness == WF_vars(Start) /\ WF_vars(Fit) /\ WF_vars(Save)

Spec == SafeSpec /\ Fairness

-----------------------------------------------------------------------------
\* Properties.

TypeOK ==
  /\ pc \in RunPoints \cup {"down", "done", "failed"}
  /\ run \in 0..MaxRuns /\ step \in Steps
  /\ ret \in {"ready", "periodic", "advance"} /\ role \in Role
  /\ saved \in [Role -> Seq(Steps)] /\ doomed \subseteq Steps
  /\ wrote \in [Ranks -> {"todo", "open", "done"}]
  /\ shard \in [Role -> [Steps -> [Ranks -> Torn..MaxRuns]]]
  /\ side \in [Steps -> [Side -> Torn..MaxRuns]]
  /\ measured \in BOOLEAN /\ rated \subseteq Steps
  /\ tracker \in Steps \cup {Torn, NoTracker}

\* All the files of a checkpoint are there, from one and the same incarnation.
Complete(s) ==
  \E i \in 1..run :
    /\ \A k \in Role, r \in Ranks : shard[k][s][r] = i
    /\ \A f \in Side : side[s][f] = i

\* The configurations for which saving is safe: no two saves of one step, and the
\* checkpoint the tracker names is never the one to make room.
SafeSchedule ==
  /\ ~ValBeforeTrain
  /\ TestFreq = 0 \/ SaveFreq = 0
  /\ \A k \in Role : Keep[k] # 1

\* Whenever the tracker file names a step, every file of that checkpoint is whole
\* and all of them come from the same run: neither the rotation of an old path,
\* nor a save in progress, nor a crash in the middle of either touches the
\* checkpoint a restart would load.
TrackedComplete == tracker \in Steps => Complete(tracker)

\* A save only ever works on a checkpoint that is newer than the tracked one, so
\* a crash can cost the progress since the last save but never more, and the
\* tracker never goes back to an older step across restarts.
SavesAhead ==
  pc \in SavePoints /\ tracker \in Steps => tracker < step /\ tracker \notin doomed

\* The actor directories one incarnation leaves on disk never outnumber
\* max_ckpt_to_keep, also while a save is half done.
OwnKeepBound ==
  \A k \in Role : Keep[k] > 0 =>
    Cardinality({s \in Steps : \E r \in Ranks : shard[k][s][r] = run /\ run > 0}) <= Keep[k]

\* What a restart can continue from: no tracker file, or one that was written to its
\* end and names a checkpoint with pass rates.
Usable ==
  \/ tracker = NoTracker
  \/ tracker \in rated
  \/ tracker = Torn /\ pc = "close_tracker" /\ step \in rated

\* Of all the points at which the job can be killed only two can keep it from coming up
\* again: while the tracker file itself is being rewritten, and after a save of empty
\* dictionaries of pass rates, which supervised training makes at every save.  Half
\* removed or half written directories never do.
FailsOnlyUnusable == pc = "failed" => ~Usable

\* However often the job is killed and started again, it gets through its saves and its
\* steps to the end, unless there is nothing it could be resumed from.
Finishes == <>(pc = "done" \/ (pc = "failed" /\ ~Usable))

\* Steps on disk become the commits of the abstract run, which take effect when the
\* tracker file is opened; a crash before it is closed leaves nothing to continue from.
Durable ==
  CASE tracker = NoTracker -> 0
    [] tracker = Torn -> IF pc = "close_tracker" THEN step ELSE 0
    [] OTHER -> tracker

Running == pc \notin {"down", "failed"}

Abstract == INSTANCE AtomicCheckpoint
              WITH up <- Running, at <- IF Running THEN step ELSE 0, durable <- Durable,
                   usable <- Usable

\* The many-write save, rotation, crash and reload implement the atomic checkpoint:
\* what a restart continues from is exactly the last completed save, and it is refused
\* only where the atomic checkpoint refuses it.
ImplementsAtomic == Abstract!ASpec
===============================================================================
