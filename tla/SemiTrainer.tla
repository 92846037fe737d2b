------------------------------ MODULE SemiTrainer ------------------------------
(***************************************************************************)
(* RaySemiTrainer.fit: passes over the data, the pass-rate trajectory of   *)
(* every prompt, the reference database the unlabeled prompts are compared *)
(* with, and how a restart rebuilds them from a checkpoint.                *)
(*                                                                         *)
(* A pass rate is identified with the number of the pass that measured it: *)
(* what a trajectory must get right is which passes it holds.  Saving is   *)
(* one step here; CheckpointRotation says when that is justified.          *)
(***************************************************************************)
EXTENDS Integers, Sequences, FiniteSets, FiniteSetsExt, SequencesExt

CONSTANTS
  Labeled, Unlabeled,  \* prompts (extra_info.index), by extra_info.labeled
  PassLen,             \* len(train_dataloader)
  Configs,             \* the configurations covered
  AtBoundary,          \* what a dataloader restored between two passes does first:
                       \* yield "nothing", start "anew", or either
  MaxRuns,             \* bound: how many times the job is started
  NoCheckpoint         \* no tracker file

Prompts == Labeled \cup Unlabeled

ASSUME SemiAssumption ==
  /\ Labeled \cap Unlabeled = {}
  /\ PassLen \in Nat \ {0} /\ MaxRuns \in Nat \ {0}
  /\ AtBoundary \subseteq {"nothing", "anew"} /\ AtBoundary # {}
  /\ \A c \in Configs :
       /\ c.epochs \in Nat \ {0} /\ c.totalSteps \in Nat /\ c.warmUp \in Nat
       /\ c.updateDb \in BOOLEAN /\ c.supervised \in BOOLEAN /\ c.valBeforeTrain \in BOOLEAN
       /\ \A order \in c.orders :
            /\ order \in Seq(SUBSET Prompts) /\ Len(order) = PassLen
            \* The sampler draws each prompt once.
            /\ \A i, j \in 1..PassLen : i # j => order[i] \cap order[j] = {}

VARIABLES
  conf,      \* the configuration of this job
  pc,        \* where fit is
  run,       \* incarnation of the process
  step,      \* self.global_steps
  epoch,     \* the variable of fit's outer loop
  pass,      \* number of the dataloader pass in progress, 0 before the first
  todo,      \* batches this pass has yet to yield
  passrate,  \* label_passrate_list and unlabel_passrate_list; <<>> when no entry
  ref,       \* ref_passrate_list; <<>> when no entry
  selected,  \* selected_unlabeled_samples of the last filtered batch
  refMinLen, \* the metric ref_min_len of the last filtered batch
  ckpt       \* the checkpoint the tracker names, or NoCheckpoint

memory == <<step, epoch, pass, todo, passrate, ref, selected, refMinLen>>
vars == <<conf, pc, run, memory, ckpt>>

\* What one pass of the dataloader may yield: sequences of batches.
Orders == conf.orders

\* trainer.total_epochs, warm_up, update_db, train_mode and val_before_train
Epochs == conf.epochs
WarmUp == conf.warmUp
UpdateDb == conf.updateDb
Supervised == conf.supervised
ValBeforeTrain == conf.valBeforeTrain

\* What the epochs hold.
EpochSteps == PassLen * Epochs

\* total_training_steps; trainer.total_training_steps overrides it (0 stands for null).
TotalSteps == IF conf.totalSteps > 0 THEN conf.totalSteps ELSE EpochSteps

NoLists == [p \in Prompts |-> <<>>]

\* The prompts a dictionary has an entry for.
Keys(lists) == {p \in Prompts : lists[p] # <<>>}

Shortest(lists, S) == Min({Len(lists[p]) : p \in S})

Blank ==
  /\ step' = 0 /\ epoch' = 0 /\ pass' = 0 /\ todo' = <<>>
  /\ passrate' = NoLists /\ ref' = NoLists
  /\ selected' = {} /\ refMinLen' = 0

Init ==
  /\ conf \in Configs
  /\ pc = "down" /\ run = 0
  /\ step = 0 /\ epoch = 0 /\ pass = 0 /\ todo = <<>>
  /\ passrate = NoLists /\ ref = NoLists
  /\ selected = {} /\ refMinLen = 0
  /\ ckpt = NoCheckpoint

-----------------------------------------------------------------------------
\* Starting, crashing, saving.

Snapshot == [step |-> step, pass |-> pass, todo |-> todo, passrate |-> passrate, ref |-> ref]

MaybeSave == ckpt' \in {ckpt, Snapshot}

\* No checkpoint: train from scratch.
StartFresh ==
  /\ pc = "down" /\ ckpt = NoCheckpoint
  /\ pc' = "initial" /\ run' = run + 1
  /\ UNCHANGED <<memory, ckpt>>

\* The epoch _load_trainer_state resumes from.
ResumeEpoch(lists) ==
  Min({Shortest(lists, Keys(lists) \cap Labeled), Shortest(lists, Keys(lists) \cap Unlabeled)})

\* Mutant: only the labeled trajectories are cut.
CutLabeled(lists, k) ==
  [p \in Prompts |-> IF p \in Labeled THEN SubSeq(lists[p], 1, Min({k, Len(lists[p])})) ELSE lists[p]]

Cut(lists, k) == [p \in Prompts |-> SubSeq(lists[p], 1, Min({k, Len(lists[p])}))]

\* min() over an empty dictionary raises ValueError.
CannotResume ==
  \/ Keys(ckpt.passrate) \cap Labeled = {}
  \/ Keys(ckpt.passrate) \cap Unlabeled = {}

\* Mutant: the reference database is restored without the cut.
StartRefUncut ==
  /\ pc = "down" /\ ckpt # NoCheckpoint /\ ~CannotResume
  /\ run' = run + 1 /\ pc' = "initial"
  /\ step' = ckpt.step /\ pass' = ckpt.pass /\ todo' = ckpt.todo
  /\ LET k == ResumeEpoch(ckpt.passrate)
     IN  epoch' = k /\ passrate' = Cut(ckpt.passrate, k) /\ ref' = ckpt.ref
  /\ UNCHANGED <<selected, refMinLen, ckpt>>

\* _load_checkpoint and _load_trainer_state; the dataloader goes on where it was.
StartFromCheckpoint ==
  /\ pc = "down" /\ ckpt # NoCheckpoint /\ ~CannotResume
  /\ run' = run + 1 /\ pc' = "initial"
  /\ step' = ckpt.step /\ pass' = ckpt.pass /\ todo' = ckpt.todo
  /\ LET k == ResumeEpoch(ckpt.passrate)
     IN  /\ epoch' = k
         /\ passrate' = Cut(ckpt.passrate, k)
         /\ ref' = Cut(ckpt.ref, k)
  /\ UNCHANGED <<selected, refMinLen, ckpt>>

StartFails ==
  /\ pc = "down" /\ ckpt # NoCheckpoint /\ CannotResume
  /\ run' = run + 1 /\ pc' = "load_error"
  /\ UNCHANGED <<memory, ckpt>>

Ended == {"done", "exhausted", "load_error", "batch_error", "query_error"}

Crash ==
  /\ pc \notin Ended \cup {"down"} /\ run < MaxRuns
  /\ pc' = "down" /\ Blank
  /\ UNCHANGED <<conf, run, ckpt>>

\* val_before_train, which may save, and the first global_steps += 1.
EnterLoop ==
  /\ pc = "initial"
  /\ \/ ValBeforeTrain /\ MaybeSave
     \/ UNCHANGED ckpt
  /\ step' = step + 1
  /\ pc' = IF pass > 0 THEN "resumed" ELSE "epoch"
  /\ UNCHANGED <<run, epoch, pass, todo, passrate, ref, selected, refMinLen>>

-----------------------------------------------------------------------------
\* The epoch loop.

NewPass ==
  /\ pass' = pass + 1 /\ todo' \in Orders /\ pc' = "batch"
  /\ UNCHANGED <<run, step, epoch, passrate, ref, selected, refMinLen, ckpt>>

NextEpoch ==
  /\ pc = "epoch" /\ epoch < Epochs
  /\ NewPass

\* The first epoch after a restart iterates over the rest of the interrupted pass.
\* Between two passes it is up to the dataloader.
ResumedEpoch ==
  /\ pc = "resumed" /\ epoch < Epochs
  /\ \/ /\ todo # <<>> \/ "nothing" \in AtBoundary
        /\ pc' = "batch" /\ UNCHANGED <<run, memory, ckpt>>
     \/ todo = <<>> /\ "anew" \in AtBoundary /\ NewPass

\* range(resume_from_epoch, total_epochs) is used up before the last step.
NoEpochLeft ==
  /\ pc \in {"epoch", "resumed"} /\ epoch >= Epochs
  /\ pc' = "exhausted"
  /\ UNCHANGED <<run, memory, ckpt>>

\* Mutant: asks the exhausted dataloader again in the same epoch.
EndPassAgain ==
  /\ pc = "batch" /\ todo = <<>> /\ pc' = "resumed"
  /\ UNCHANGED <<run, memory, ckpt>>

EndPass ==
  /\ pc = "batch" /\ todo = <<>>
  /\ epoch' = epoch + 1 /\ pc' = "epoch"
  /\ UNCHANGED <<run, step, pass, todo, passrate, ref, selected, refMinLen, ckpt>>

-----------------------------------------------------------------------------
\* One batch.

Batch == Head(todo)
\* Mutant: the labeled prompts are not left out.
BatchUAll == Batch

BatchU == Batch \cap Unlabeled

\* Mutant: a second update in the same step.
MeasuredTwice ==
  [p \in Prompts |-> IF p \in Batch THEN passrate[p] \o <<pass, pass>> ELSE passrate[p]]

\* _generate_pseudo_labels_and_update_passrate: one more entry per prompt.
Measured == [p \in Prompts |-> IF p \in Batch THEN Append(passrate[p], pass) ELSE passrate[p]]

\* _get_majority_accuracy calls item() on None when one side is missing.
OneSided == Batch \cap Labeled = {} \/ BatchU = {}

\* copy_dict_with_validation for the labeled prompts: all of them, every time.
LabeledRefs == [p \in Prompts |-> IF p \in Labeled \cap Keys(Measured) THEN Measured[p] ELSE ref[p]]

\* One turn of the loop of copy_dict_with_validation, for an unlabeled prompt.
Insert(db, new, u) ==
  LET kept == [p \in Prompts |-> IF p \in Unlabeled /\ db[u] # <<>> THEN <<>> ELSE db[p]]
  IN  [kept EXCEPT ![u] = new[u]]

\* copy_dict_with_validation for the selected prompts, in the order they have in the
\* batch: the first that db has an entry of empties its unlabeled half, and what new
\* prompts before it had entered is lost too.
Inserted(db, new, sel, lost) ==
  [p \in Prompts |-> IF p \in sel \ lost THEN new[p]
                     ELSE IF p \in Unlabeled /\ sel \cap Keys(db) # {} THEN <<>> ELSE db[p]]
MayBeLost(db, sel) == IF sel \cap Keys(db) = {} THEN {{}} ELSE SUBSET (sel \ Keys(db))

DbMinLen == Shortest(LabeledRefs, Keys(LabeledRefs))

\* Mutant: a query as long as the shortest reference is refused too.
ShortQueryStrict == \E u \in BatchU : Len(Measured[u]) <= DbMinLen

\* _compute_trajectory_cosine: every query must cover the shortest reference.
ShortQuery == \E u \in BatchU : Len(Measured[u]) < DbMinLen

\* Mutant: the warm-up ends one epoch early.
FilteringEarly == ~Supervised /\ epoch >= WarmUp - 1

Filtering == ~Supervised /\ epoch >= WarmUp

NextBatch(point) ==
  /\ pc = "batch" /\ todo # <<>>
  /\ todo' = Tail(todo) /\ pc' = point
  /\ UNCHANGED <<run, step, epoch, pass, ckpt>>

SupervisedBatch ==
  /\ Supervised /\ NextBatch("save")
  /\ UNCHANGED <<passrate, ref, selected, refMinLen>>

\* Before warm-up ends only the labeled prompts are trained on.
WarmUpBatch ==
  /\ ~Supervised /\ epoch < WarmUp
  /\ NextBatch("save") /\ ~OneSided
  /\ passrate' = Measured
  /\ UNCHANGED <<ref, selected, refMinLen>>

\* The top-k and the threshold leave a non-empty part of the unlabeled prompts,
\* which enter the database.
FilteredBatch ==
  /\ Filtering /\ NextBatch("save") /\ ~OneSided /\ ~ShortQuery
  /\ passrate' = Measured
  /\ refMinLen' = DbMinLen
  /\ \E sel \in (SUBSET BatchU) \ {{}} :
       /\ selected' = sel
       /\ \/ UpdateDb /\ \E lost \in MayBeLost(LabeledRefs, sel) :
                           ref' = Inserted(LabeledRefs, Measured, sel, lost)
          \/ ~UpdateDb /\ ref' = LabeledRefs

FailingBatch ==
  /\ ~Supervised
  /\ \/ NextBatch("batch_error") /\ OneSided /\ UNCHANGED ref
     \/ NextBatch("query_error") /\ ~OneSided /\ Filtering /\ ShortQuery /\ ref' = LabeledRefs
  /\ passrate' = Measured
  /\ UNCHANGED <<selected, refMinLen>>

\* Mutant: the last step is taken one step late.
EndStepLate ==
  /\ pc = "save" /\ MaybeSave /\ step' = step + 1
  /\ pc' = IF step > TotalSteps THEN "done" ELSE "batch"
  /\ UNCHANGED <<run, epoch, pass, todo, passrate, ref, selected, refMinLen>>

\* Validation and the periodic save may both checkpoint; then global_steps += 1.
EndStep ==
  /\ pc = "save"
  /\ MaybeSave
  /\ step' = step + 1
  /\ pc' = IF step >= TotalSteps THEN "done" ELSE "batch"
  /\ UNCHANGED <<run, epoch, pass, todo, passrate, ref, selected, refMinLen>>

-----------------------------------------------------------------------------
Load == (StartFresh \/ StartFromCheckpoint \/ StartFails) /\ UNCHANGED conf

Fit ==
  /\ \/ EnterLoop \/ NextEpoch \/ ResumedEpoch \/ NoEpochLeft \/ EndPass
     \/ SupervisedBatch \/ WarmUpBatch \/ FilteredBatch \/ FailingBatch \/ EndStep
  /\ UNCHANGED conf

\* A job that has ended stays as it is.
Halt == pc \in Ended /\ UNCHANGED vars

Next == Load \/ Crash \/ Fit \/ Halt

SafeSpec == Init /\ [][Next]_vars

\* The trainer keeps running and is started again after a crash.
Spec == SafeSpec /\ WF_vars(Load) /\ WF_vars(Fit)

-----------------------------------------------------------------------------
\* Properties.

\* Every pass yields every prompt; otherwise drop_last leaves some of them out.
FullPasses == \A order \in Orders : UNION ToSet(order) = Prompts

Lists == [Prompts -> Seq(Nat)]
Ordered == UNION {{SubSeq(order, i, PassLen) : i \in 1..PassLen + 1} : order \in Orders}
States == [step : Nat, pass : Nat, todo : Ordered \cup {<<>>}, passrate : Lists, ref : Lists]

\* The types of the trainer's state and of the checkpoint.
TypeOK ==
  /\ conf \in Configs
  /\ pc \in Ended \cup {"down", "initial", "epoch", "resumed", "batch", "save"}
  /\ run \in 0..MaxRuns /\ epoch \in 0..Epochs
  /\ Snapshot \in States
  /\ selected \subseteq Unlabeled /\ refMinLen \in Nat
  /\ ckpt \in States \cup {NoCheckpoint}

\* A trajectory never has two entries of one pass and its entries are in the order
\* they were measured, through any number of cuts and resumed passes; without a
\* restart the i-th entry of every trajectory, in the lists and in the reference
\* database, is from the i-th pass: the cosine compares like with like.
Aligned ==
  /\ \A p \in Prompts : \A i \in 1..Len(passrate[p]) - 1 : passrate[p][i] < passrate[p][i + 1]
  /\ run = 1 /\ FullPasses =>
       \A p \in Prompts :
         /\ \A i \in 1..Len(passrate[p]) : passrate[p][i] = i
         /\ \A i \in 1..Len(ref[p]) : ref[p][i] = i

SpreadWithin(n) ==
  \A p, q \in Keys(passrate) : Len(passrate[p]) - Len(passrate[q]) <= n

\* No trajectory is more than one pass ahead of another, as the two commented-out
\* assertions of fit say of the lists.  A restart in the middle of a pass shortens
\* those of the prompts already seen in it: then they stay within two.
EvenLists == FullPasses => SpreadWithin(IF run = 1 THEN 1 ELSE 2)

\* Every reference is an earlier state of the trajectory it was copied from, also
\* after both were cut by a restart.
RefIsPrefix == \A p \in Prompts : IsPrefix(ref[p], passrate[p])

\* Every batch has labeled and unlabeled prompts.
BothSides ==
  \A order \in Orders : \A i \in 1..PassLen :
    order[i] \cap Labeled # {} /\ order[i] \cap Unlabeled # {}

\* When every pass yields every prompt and every batch has both sides, no schedule of
\* saves, crashes and restarts makes a batch abort the run.
NoBatchAborts == FullPasses /\ BothSides => pc \notin {"batch_error", "query_error"}

\* Whenever the unlabeled prompts are filtered the compared trajectories have at
\* least two entries, so the standard deviations and the similarities exist.  It
\* needs warm_up >= 2, and warm_up >= 3 once the run has been restarted.
ScoresDefined ==
  pc = "save" /\ Filtering /\ FullPasses /\ WarmUp >= (IF run = 1 THEN 2 ELSE 3) => refMinLen >= 2

\* The epochs run out before the last step only after a restart, which costs less than
\* a pass of training each time, or when more steps are asked for than they hold: then
\* they have all been trained, less what restarts cost.
EpochsLost ==
  pc = "exhausted" =>
    /\ step > EpochSteps - (run - 1) * PassLen
    /\ Supervised \/ run = 1 => TotalSteps > EpochSteps

\* Crashes are bounded, so training comes to an end.
Finishes == <>(pc \in Ended)

\* fit's "if is_last_step" is where training ends, not because the epochs ran out first.
EndsAtLastStep == pc # "exhausted"

\* A run whose checkpoint exists can be resumed from it.
ResumeSucceeds == pc # "load_error"
===============================================================================
