# TraPO: a TLA+ model of semi-supervised training and asynchronous rollout

TraPO trains a language model on a mixture of labeled and unlabeled prompts. It is a
trainer of its own, `RaySemiTrainer`, on top of the reinforcement-learning library in
`src/verl` and beside the recipes in `src/recipe`. This directory holds TLA+ modules for the
parts whose correctness depends on the order of events, TLC configurations that check
them on small instances, and theorems that TLAPS checks for every instance.

    tlc -workers 2 -config rotation_refines.cfg MCCheckpointRotation.tla
    tlapm CheckpointRotation_proofs.tla   # and SemiTrainer_, PseudoLabel_, BatchDispatch_,
                                          # PartialRollout_, AsyncLoop_, AsyncTraining_,
                                          # AsyncAge_proofs

`F` below is `src/Weakly_Supervised/Research/Semi_RL/semi_ray_trainer.py`, `A` is
`src/recipe/fully_async_policy`.

## 1. Inventory

| Component | State it keeps | Operations | What is hard about it | What makes it correct |
|---|---|---|---|---|
| `RaySemiTrainer` (`F`) | `global_steps`, the epoch, pass rates per prompt (`label_`, `unlabel_passrate_list`), the reference database `ref_passrate_list`, `real_gt`, `best_score` | one batch: measure, filter, update the database, update the policy, validate, save | a restart cuts all lists to the shortest one and derives the epoch from it, the dataloader goes on where it was | trajectories hold the right passes in order and stay comparable; no batch aborts; training ends at its last step |
| Pseudo-label vote (`F` 567-711) | `real_gt`, `majority_answer`, `sample_is_right` | group equal answers, majority, overwrite the ground truth | equality of answers is not an equivalence, ties, responses without an answer, rows that come back | the label is the strict plurality, `real_gt` never holds a pseudo label |
| Checkpoints (`F` 289-499, `verl/utils/checkpoint/`) | directories `global_step_N`, the tracker file, `previous_saved_paths` in memory | save by actor ranks, critic ranks and driver; rotate; find; load | many writes, several processes, a crash between any two; memory lost, disk kept | the tracker names a whole checkpoint; a restart continues from the last completed save |
| Dataloader (`verl/trainer/ppo/ray_trainer.py` 346-426) | position in the pass | iterate, `state_dict` | `drop_last`, behaviour between two passes | steps and data position agree |
| Balancing, filtering, dispatch (`ray_trainer.py` 919-950, `F` 887-956, `single_controller/base/decorator.py`) and micro-batches (`verl/utils/seqlen_balancing.py`) | the order of the batch, the partitions, the workers' results | balance, reorder, filter, chunk, all-reduce, cut, run, restore, collect | the batch is reordered twice and cut twice; workers must agree on their collectives | every row gets its own result; no worker waits for one that has gone on |
| Fully asynchronous recipe (`A`): message queue, rollouter, trainer, parameter synchroniser | queue, staleness counter, pause flag, active tasks, parameter version | put, get, pause, drain, resume, synchronise, validate | asyncio tasks interleaving at every `await`, Ray actors, cancelled generations | bounded staleness, no sample lost or delivered twice, no deadlock, clean end |
| Partial rollout (`A/vllm_rollout`, `A/agent_loop`) | `paused`, cancel events and outputs by request | generate, cancel, resume | a cancel races arrival and end of a generation; servers are told one by one | the pieces of a response fit together and its versions are known |
| Base trainer, advantage, losses (`verl/trainer/ppo`) | tensors | numeric | - | - |
| One-step off-policy, transfer queue recipes | a future, an external queue | pipelined step | - | - |
| Single controller (`verl/single_controller`) | worker groups | dispatch, collect | RPC | - |
| Agent loop, server choice (`verl/experimental/agent_loop`) | heap of request counts, sticky cache | choose server | cache eviction | - |
| `DataProto` (`verl/protocol.py`) | none | pad, chunk, concatenate | boundaries, indices | - |
| Rewards, tools, interactions, models, engines, SFT, scripts | - | - | scoring and tensors, or separate programs | - |

Interactions. `fit` calls the workers through Ray and waits for all of them, so the driver
is one sequential process; concurrency inside one save, or inside one forward pass, comes
from the ranks. `_validate` and the periodic branch of `fit` both call `_save_checkpoint`. The
only channel between two incarnations of a job is the disk: `_save_trainer_state` and
`_load_trainer_state` carry the lists, `data.pt` the dataloader position, the directory's
name the step. In the asynchronous recipe rollouter, trainer, queue and synchroniser are Ray
actors: samples and validation results go through the queue, the synchroniser calls `pause`,
`update_param_version` and `resume` of the rollouter, and the rollouter's own coroutines share
one event loop and one lock.

## 2. Plan

1. Done: `CheckpointRotation`, its abstract specification `AtomicCheckpoint`, and
   `CheckpointRotation_proofs`.
2. Done: `SemiTrainer`, whose save is one step (justified by 1), and `PseudoLabel`.
3. Done: `MessageQueue`, `Rollouter` and `AsyncTraining`, the composition with the trainer and
   the synchroniser; its abstract specification `SampleStream`; `PartialRollout`, what happens to
   one sample inside it.
4. Done: `BatchDispatch`, balancing and micro-batches.
5. Done: the proof modules of every component; section 5 says what they prove.
6. Possible later: the server choice of the agent loop, the checkpoint of the asynchronous
   trainer, keep-alive and shutdown of the queue.

## 3. Modules

### CheckpointRotation

State: `pc` is the point of `fit` or `_save_checkpoint` the driver is at, `run` counts the
incarnations of the process, `saved` is rank 0's `previous_saved_paths` (per role), `wrote`
the progress of every rank, and the disk is `shard`, `side` (data.pt, trainer_state.pt) and
`tracker`. A file holds `Absent`, `Torn` (opened, not yet closed) or the number of the
incarnation that wrote it, which is enough to say whether a checkpoint is whole and of one
piece. A rank's model, optimizer and extra files are one shard; the metadata rank 0 adds
belongs to its shard. Of what is inside a file one thing matters to a restart: `measured` says
whether both dictionaries of pass rates have entries, and `rated` at which steps that held for the
`trainer_state.pt` on disk. `_load_trainer_state` takes `min()` of them, which raises when there
are none (`Rated`, part of `Loadable`); supervised training never has any, and the first batch need
not have prompts of both kinds, so a `TrainStep` may leave `measured` as it is.

| Action | Code |
|---|---|
| `Start` | `_load_checkpoint`, `_load_trainer_state`, `find_latest_ckpt_path`: no tracker, a loadable directory, or an exception (`failed`) |
| `Crash` | the process dies at any point of `CrashPoints`; memory is lost |
| `InitialValidation`, `TrainStep`, `PeriodicSave` | the three places where `fit` may save; whether a score improves `best_score`, and whether the instance expires, is open |
| `EnterLoop`, `EndStep` | the two `global_steps += 1`; the return after the last step, or at any step because the epochs, which are not part of this module, have run out |
| `Rotate`, `RemoveShard`, `EndRemoval` | the worker's rotation, file by file, and the first barrier |
| `OpenShard`, `CloseShard`, `Register` | each rank writes its shard; the last barrier, then `previous_saved_paths.append` |
| `SaveDataloader`, `SaveTrainerState`, `OpenTracker`, `CloseTracker` | the driver's files, each opened (emptied) and then closed |

The directory `global_step_N` itself is never removed, since only its `actor` and `critic`
parts are remembered, so `find_latest_ckpt_path` never falls back to None once there is a
tracker.

`SafeSchedule` names the configurations in which a save cannot hurt the tracked checkpoint.
Each conjunct is needed: with `max_ckpt_to_keep = 1` the only checkpoint is removed before
the new one is written; with both `test_freq` and `save_freq` on (as in
`scripts/run/run_semi.sh`, where the last step makes both due), or with `val_before_train`
after a restart, one step is saved twice and the second save overwrites the tracked files.

### AtomicCheckpoint

What a checkpointed job promises: progress, an indivisible commit, a crash that loses what was
not committed, and a recovery that continues from exactly the last commit. Recovery is refused in two
cases only: what was committed cannot be resumed (`Commit` may leave `usable` FALSE), or the crash hit
the commit itself (`FailCommitting`). `CheckpointRotation` implements it with `durable` mapped to the
step in the tracker and `usable` to `Usable`: no tracker, or one that is not torn and names a rated
checkpoint. The commit happens when the tracker file is opened; a crash before it is closed is
`FailCommitting`.

### SemiTrainer

State: `step`, `epoch`, the dataloader (`pass`, `todo`), the two pass-rate dictionaries as one function
`passrate`, the database `ref`, and the checkpoint `ckpt`; `conf` is the configuration of the job, chosen
once. `TotalSteps` is `trainer.total_training_steps` where that is set, below or above what the epochs
hold (`EpochSteps`), and `EpochSteps` otherwise. A pass rate is identified with the pass that measured
it: which value it has does not matter to the order of events, which pass it belongs to does. The top-k
and threshold selection is any non-empty part of the batch's unlabeled prompts (top-k always keeps one).
`copy_dict_with_validation` inserts the selected entries one by one, each insertion of an entry that is
there dropping the other unlabeled ones (`Insert`); `Inserted` and `MayBeLost` give what the loop leaves
in closed form. `LoopInserts` in `MCSemiTrainer` has TLC compare the two over all databases, selections
and orders of the small instance, and `InsertionsInAnyOrder` proves it. `real_unlabel_passrate_list` is
written and cut together with `unlabel_passrate_list` and is not a variable of its own; the vote is in
`PseudoLabel`.

| Action | Code |
|---|---|
| `StartFresh`, `StartFromCheckpoint`, `StartFails` | `_load_checkpoint`, `_load_trainer_state`: cut to the shortest list, which is also the epoch; `min()` of no list raises |
| `EnterLoop` | `val_before_train` and the first `global_steps += 1` |
| `NextEpoch`, `ResumedEpoch`, `EndPass`, `NoEpochLeft` | the two loops over epochs and batches |
| `SupervisedBatch`, `WarmUpBatch`, `FilteredBatch`, `FailingBatch` | one batch in each mode, and the two exceptions it can raise |
| `EndStep` | validation, the periodic save, `global_steps += 1`, return after the last step |

The dataloader is a library: it yields the batches of a pass in an order out of `Orders`, no prompt twice
in one pass, since the sampler draws without replacement, and goes on where the checkpoint was. What it
does first when the checkpoint was taken exactly between two passes depends on its version, so both
behaviours are allowed (`AtBoundary`).

### PseudoLabel

State: the responses that have voted and `freq_list`, the groups found so far; the ground truth
in the `row` of each prompt; `real_gt`, `majority`, `right` (`sample_is_right`) and their copy in the
checkpoint; and, so that it can be said at all, against what each prompt was last `judged`.

| Action | Code |
|---|---|
| `NewPass`, `Generate`, `EndPass` | rows fresh from the dataset, the prompts of the batch in any order, a checkpoint or none |
| `Vote` | one turn of the loop at `F` 609-625: joins the first group it matches |
| `LabelLabeled` | the vote is only recorded; a leader without an answer raises and is caught |
| `LabelUnlabeled` | truth restored from `real_gt`, real pass rate, unique leader or marker, ground truth overwritten, majority pass rate |
| `LabelFails` | `rep[1]` of an only leader without an answer: `IndexError`, not caught |
| `Restart` | the checkpoint's dictionaries and rows read again |

`verify` of math_verify is any reflexive relation on answers. `PluralityLabel` has the strict
plurality of the equivalence classes as its reference definition and therefore speaks of
equivalences only; under the other relations the label depends on the order of the responses,
which `_balance_batch` changes.

### BatchDispatch

State: the `batch` as the sequence of its rows, the heap of partitions of the driver (`driver`) and
of each worker (`heap`), the workers' `chunk`, `count`, `micro` and `out`, and the collected `result`. A
log probability is identified with the row it was computed from. Lengths are multiples of 1024
tokens and the workload is the code's `24576 * len + len * len`. The heap is a set of states, from
which one is popped that nothing in it precedes; everything the code sorts is listed by rank
(`Sorted`), ties going to the earlier place as Python's stable sort has them.

| Action | Code |
|---|---|
| `Balance`, `Merge` | one merge of `karmarkar_karp`, with and without `equal_size`; the heap's order is the code's `__lt__` |
| `Reorder` | `_balance_batch`: the parts one after the other, short rows at both ends |
| `Filter` | the rows of the labeled prompts and then of the selected ones (`F` 887-956) |
| `Dispatch`, `DispatchFails`, `Collect` | `chunk`, its assertion, and the concatenation of what the first worker of each data-parallel rank returns |
| `Count`, `AllReduce`, `Cut`, `Forward`, `Restore` | `prepare_dynamic_batch`, the MAX over the workers, the order of the micro-batches, one collective forward pass per micro-batch, `restore_dynamic_batch` |

A worker whose peers do not join a collective waits, so a disagreement on the number of
micro-batches is a violation of `Finishes`.

### MessageQueue, Rollouter, AsyncTraining

`MessageQueue` has the actor's methods as operators: they run under its lock, one at a time.
The actor is another process, and Ray promises no order among the calls of an asynchronous one. So a call
the rollouter awaits is three steps: it is sent, it is run, and it is answered. A sample whose
`put_sample` has been sent and not yet run is in `transit`, in none of the queues. `PutRuns`, `SizeRuns`
and `ValidateRuns` run the calls that are under way in any order, so the size that
`update_param_version` is told may be of before or after a put that was sent earlier, while its own terms
were read when it asked (`UpdateStart`). Two things stay at their call: `get_sample`, for which the
trainer does nothing but wait, and the size in `ShouldPause`, which `get_statistics_sync` waits for with the
whole event loop, so that nothing else of the rollouter moves meanwhile.

`Rollouter` models the coroutines of one event loop at the granularity of their awaits. `ready`
is the loop's FIFO queue of callbacks; the coroutine at its head runs until it really waits, and a
free lock, a non-empty queue or a finished task is no wait. What it wakes goes to the end. The
lock is a FIFO of waiters, handed over on release; `due` says which sample a `"task"` in `ready`
belongs to. `at` is the program counter of each coroutine.

| Actions | Code (`A/fully_async_rollouter.py`) |
|---|---|
| `Feed` | `_feed_samples`: fills the pending queue, the end signal last |
| `ProcTop` .. `ProcSubmit` | `_processor_worker`: pause decision, cancel queue before pending queue, the three loops that wait for tasks, the sleep on the condition, submission under the lock |
| `TaskBegin`, `TaskEnd` | `_process_single_sample_streaming` |
| `ServerStarts`, `ServerFinishes`, `ServerCancels`, `ServerRaises` | a generation on the inference servers, which may be cancelled or raise |
| `ConsumerPuts`, `ConsumerIdles`, `MainJoins`, `MainFinishes` .. `MainEnds` | `_consumer_worker` and the end of `_streaming_generation_main` and of `fit` |
| `MonitorLooks`, `MonitorUnpauses`, `MonitorLocks`, `MonitorSleeps` | `_async_monitor_loop`, which decides before it waits for the lock, and takes the lock again to look at `running` |
| `PauseCalled` .. `PauseEnd`, `UpdateCalled` .. `UpdateEnd`, `ResumeCalled` .. `ResumeEnd` | the three calls of the synchroniser |
| `PutRuns`, `SizeRuns`, `ValidateRuns` | the MessageQueue runs a call that has been sent to it |
| `Timer`, `Answers` | the end of the monitor's sleep, the answers to awaited calls, and the arrival of the synchroniser's own (`UpdateArrives`, `ResumeArrives`), at any time |

`AsyncTraining` adds the trainer (`Collect`, `CollectEnd`, `Train`, `ReadValidation`:
`_get_samples_from_queue` and `fit`) and the synchroniser (`SyncPauses`, `PauseReturns`,
`SyncSends`: `wait_last_valid`, `pause` awaited, weights, then `update_param_version` and `resume`
sent without waiting, to arrive when they do: `resume` is handed the result of `update_param_version` and
so comes after its end). `stamp` is the version a sample was last sent with, `dropped` and `failed`
record what the queue and the tasks have lost.

### SampleStream

What the pipeline promises about samples, without coroutines, tasks, servers or locks: they are taken in
their order, at most `maxRequired + 2` of them ahead of the trainer, put into a bounded queue in any
order, and read in batches. One is lost only if its generation fails or if it is the oldest in a full
queue; the finish signal is put once and nothing after it; a batch has `required` samples, none of them
twice and none trained on before. `AsyncTraining` implements it with `out` mapped to everything between
the pending queue and the message queue: the sample in the processor's hand, the tasks, the cancel queue,
the result queue and the call that is in `transit`. Cancelling, continuing, pausing and synchronising are
no steps of it.

### PartialRollout

One sample with its responses over several servers. A token is its position in the response and
the version of the weights that made it. `Begin`, `Answer`, `End` are the agent loop of
`A/agent_loop` (complete responses returned as they are, new tokens behind the earlier ones, the
tokens cut to `response_length` and their log probabilities not); `Arrive`, `Token`, `Complete`,
`Interrupt` are `generate_for_partial`, where the cancel event and the end of the generation race;
`StartCancel` .. `ResumeServer` are the synchronisation, server by server. Any server may get any
request. `Raise` is a generation that ends in an exception, which ends the task (`"failed"`): any one
where `Failing` allows it, and always one that is sent with no room behind its earlier output, whose
`max_tokens` is then 0 (`A/vllm_rollout/vllm_async_server.py` 64-67). `Configs` says how much room the
prompt leaves and whether the engine may fail.

## 4. Runs

| Run | Instance | Shows |
|---|---|---|
| `rotation_refines` | two ranks, two roles, `max_ckpt_to_keep` 2, four steps, three incarnations, periodic saves and an expiring instance; crashes anywhere, pass rates measured or not | `TypeOK`, `TrackedComplete`, `SavesAhead`, `FailsOnlyUnusable`, `ImplementsAtomic` (with a recovery whenever there is something to continue from), `Finishes` |
| `rotation_any_schedule` | every source of saves on, crashes anywhere, two incarnations | `OwnKeepBound` |
| `semi` | seven configurations: warm-up 2 and 3, without `update_db`, with `drop_last`, supervised, and `total_training_steps` set below and above what the epochs hold; three incarnations | `TypeOK`, `Aligned`, `EvenLists`, `RefIsPrefix`, `NoBatchAborts`, `ScoresDefined`, `EpochsLost`, `Finishes` |
| `semi_lost_epoch` | one restart, three epochs | violation of `EndsAtLastStep` |
| `semi_resume_supervised` | one restart in supervised mode | violation of `ResumeSucceeds` |
| `pseudo_label` | four responses under an exact, a two-class, a one-way and a chained `verify`, and one response; two passes | `TypeOK`, `PluralityLabel`, `RealMeasured` |
| `batch_dispatch` | two workers; six rows of three lengths, six prompts of one response, eight rows, and one sequence-parallel group with rows longer than one worker's share of the tokens | `TypeOK`, `Partitioned`, `SpreadBounded`, `ResultsMatchRows`, `DivisibleDispatches`, `Finishes` |
| `async_stream` | four samples, three configurations without partial rollout and two with it, one generation may raise | `TypeOK`, `ProcessorFails`, `Conserved`, `NoDecodeDuringSync`, `EndsComplete`, `ImplementsStream`, `Finishes`, `SyncCompletes` |
| `async_bounds` | six samples, five configurations without partial rollout and two with it | `AheadBounded`, `StalenessCovers`, `AgeBounded` |
| `async_race` | four samples, one at a time | violation of `RestDuringSync` |
| `async_lost` | two samples with partial rollout | violation of `InterruptedContinue` |
| `partial_rollout` | two responses, two servers, responses of two tokens with room for three or for just two, an engine that may raise, two synchronisations | `TypeOK`, `NothingLostOrTwice`, `VersionsBracket`, `FinishedKept`, `Leaves` |

Bounds. Two ranks and two checkpointed roles are the smallest numbers for which barriers and the order of
roles matter; with `max_ckpt_to_keep` 2 the third save rotates, and four steps give a rotation in a first
and in a restarted incarnation; three incarnations are two crashes. For the trainer, two batches per
pass, two labeled and three unlabeled prompts let a batch select two and let a crash fall inside a pass;
four epochs give two after a warm-up of two and one after a warm-up of three; labels are not symmetric
because batches name them. Four responses give a tie of two groups and a plurality of two against one and
one. Two workers with lengths that differ make a worker need fewer micro-batches than the other. With
four samples and `maxRequired` from 1 to 5 the queue fills, the rollouter pauses itself, and a
synchronisation falls on every sample or on every second or third, one of them while the end signal is on
its way; one or two concurrent tasks give a full and a partly full `active_tasks`. The bounds on what is
ahead have a run of six samples, enough for versions to follow each other while earlier samples are still
under way: the two that `StalenessCovers` allows are reached in it, by a sample in the processor's hand
and one in `transit`. Two interruptions of a response of two tokens cover an empty, a partial and a
complete piece; room for three tokens lets an answer outgrow `response_length`, and room for two lets one
be sent again with nothing left to generate. `Failures`, `MaxRuns`, `MaxStep`, `Passes`, `MaxVersion`
bound what the code does not.

### What the violations say

1. `semi_lost_epoch`: after a checkpoint in the first pass the restarted job counts the rest of
   that pass as the second epoch and runs out of epochs one pass early.
2. `semi_resume_supervised`: a run in the default supervised mode cannot be resumed.
3. `async_race`: the monitor decides to lift a pause before it has the lock; if a synchronisation
   has the lock, the pause is lifted when `pause()` returns, and new samples are submitted while
   the weights are exchanged. `NoDecodeDuringSync` shows what protects partial rollout: the
   servers, not the rollouter, are paused.
4. `async_lost`: a sample cancelled after the processor has taken the end signal goes to the
   cancel queue, which nobody reads any more.

### What the properties had to leave out

Behaviour of the code that a stronger property would contradict; each weakening is in the
property or the configuration named.

- A job that was killed need not come up again. The tracker file is emptied before it is written, so a
  crash between the two leaves nothing to continue from; and a checkpoint with no pass rates cannot be
  loaded, which is every checkpoint of supervised training. `FailsOnlyUnusable` says that there is no third
  case, `Finishes` leaves these two out, and `AtomicCheckpoint` has a refusal for each.
- `trainer.total_training_steps` may ask for more steps than the epochs hold; a job then ends when its
  epochs do, restarted or not. `EpochsLost` says that a job that was never resumed runs out of epochs in
  this case only, and how many steps a resumed one can miss of those its epochs hold.
- With `drop_last` a prompt left out of a pass can be shorter than every reference and its batch
  raises (`F` 835), and a batch that lacks one kind of prompt raises at `F` 534: `NoBatchAborts` is
  about full passes whose batches have prompts of both kinds. Without crashes the spread of the list
  lengths is at most one, as two commented-out assertions of `fit` say; with restarts two.
- With `update_db` an unlabeled entry of the database may stay short for good, and updating an
  entry that is there drops all other unlabeled entries, also those of the same batch.
- A vote with one response and no answer raises; the model shows that two responses cannot.
- A micro-batch may exceed `max_token_len` (one and a half times in the instances): the parts are
  balanced by workload and only their number comes from the limit. `SpreadBounded` bounds the
  difference, and only the batch before the filter is balanced over the ranks. A filtered batch
  of one response per prompt may not divide into the ranks, and `chunk` asserts.
- What is in flight may exceed `maxRequired` by two samples that `update_param_version` does not count: the
  one in the processor's hand, and the one whose put is in `transit` while the queue tells its size. So
  the queue can drop two samples per version, and the finish signal may push out one more:
  `AheadBounded`; `StalenessCovers` allows the same two.
- The other way round a sample is counted twice: in the result queue when `update_param_version` reads it, and
  again in the message queue when that tells its size. `StalenessCovers` is an upper bound only.
  The count can then stay too high for good: with one task at a time, `required` 1, `triggerStep` 3,
  `maxRequired` 4 and nine samples TLC finds a state in which the rollouter is paused at its limit with
  nothing in flight, while the trainer waits for the last sample of a version and so begins no
  synchronisation. It needs the actor to run `get_queue_size` after a put that was sent later.
  `Finishes` is checked for configurations and samples where this does not happen.
- A sample that is trained on can be older than `maxRequired` divided by the samples of a version: its
  version may be one behind when its generation ends, the trainer may read a quota before the
  synchronisation that ends a version reaches the rollouter, and two samples more than allowed may be
  in front of it. `AgeBounded` has the resulting bound, `(maxRequired + 1) \div (required * triggerStep)`
  and two versions more. The run does not reach it; that nothing less is right is not claimed. A batch that
  the end signal leaves incomplete is not trained on and may be a version older still.
- A pending queue that holds fewer samples than `max_concurrent_samples` plus one lets the processor
  fail without any generation that raised: it takes `"DONE"` while `pause()` holds the lock, reaches
  the drain loop, `pause()` empties `active_tasks`, and the loop over `done_tasks`
  (`A/fully_async_rollouter.py` 351, 378, 389) finds the name unassigned. The code's queue holds
  128; `ProcessorFails` has the condition.
- At the end samples may remain: dropped by the queue, failed, in the last incomplete batch, or, with
  partial rollout, in the cancel queue. `EndsComplete` says that there is no other place.
- A generation that raises ends the processor or is swallowed by `gather`; the feed may then
  block on the full pending queue and main waits for ever. `Finishes` is for runs without failure; the
  safety properties hold with failures too.
- With partial rollout, a sample that the monitor's race submits to a paused server is back in
  the cancel queue while its finished task is still in `active_tasks`, so `update_param_version`
  counts it twice. `Finishes` is checked for the configurations of `async_stream`, where neither count
  brings the rollouter to a stand.
- The validation result that ends training may be that of an older version
  (`A/fully_async_trainer.py` 292-304), since results are read oldest first.
- With a prompt that leaves room for `response_length` tokens and no more, a response that is cancelled at its
  last token is sent again with `max_tokens` 0, and its task raises. `Leaves` leaves out this
  case and an engine that fails.
- A task that starts while a synchronisation is under way takes the old version as its stamp, and
  its request may arrive when the servers have been resumed with the new weights:
  `VersionsBracket` allows one version more than `param_version_end`.

### Fairness

`CheckpointRotation`: `Start`, `Fit`, `Save` (in `SemiTrainer`, `Load` and `Fit`) are weakly fair: the
driver is a sequential process that does not stop by itself, the ranks answer, and somebody restarts a
job that was killed. Nothing is assumed of crashes except that `MaxRuns` bounds them. `BatchDispatch`:
the driver and the workers run as long as something can; a worker in a collective the others do not join
may wait. `AsyncTraining`: the event loop runs (its FIFO queue makes every scheduled coroutine's turn
come), the trainer runs, the MessageQueue runs the calls that are sent to it (`Actor`), awaited calls are
answered, the monitor's `asyncio.sleep` ends, each generation ends or is cancelled; a failure is never
assumed. `PartialRollout`: a task that can start starts, requests are generated and answered, and a
synchronisation that has begun goes on; none need ever begin. `Leaves` needs that there are finitely many
synchronisations, as training has finitely many steps: that is `MaxVersion`.

## 5. Proofs

Every theorem holds for all values of the constants that the module's named assumption allows
(`RotationAssumption`, `SemiAssumption`, `PseudoLabelAssumption`, `PartialAssumption`,
`RollouterAssumption` and `DispatchAssumption`): any number of ranks, prompts, rows, workers, samples,
servers, passes, versions and restarts. Nothing else is assumed except where a theorem says so. Each
proof has one inductive invariant, which TLC has checked on small instances, one lemma for each conjunct
or action that is not immediate, and a last step that combines them.

### Checkpoints (`CheckpointRotation_proofs`)

- `TypeCorrect`: `SafeSpec => []TypeOK`.
- `TrackedSafe`, `SavesNewer`, `FailsOnlyThere`: under `SafeSchedule`, three invariants of
  `rotation_refines`.
- `Refines`: under `SafeSchedule`, `SafeSpec` implements the safety half of `AtomicCheckpoint`, with
  crashes anywhere.
- `KeepsToBound`: `OwnKeepBound`, for any schedule and any crashes.

`TrackedComplete` is not inductive: it says nothing of the save in progress. `IInv` adds what
the code relies on without saying so: the tracked step is behind the step being saved
(`TrackerBehind`, which needs that no step is saved twice, hence `ReturnPoint`); of the
remembered paths only the newest can be the tracked one (`SavedBehind`), so rotation with
`max_ckpt_to_keep >= 2` never removes it (`DoomedUntracked`); and what the save has written so
far is whole and of this run (`Written`), so that the tracker comes to name a complete
checkpoint. `FailsOnlyUnusable` then follows because a complete checkpoint with pass rates is loadable, and
`Refines` adds `TornWhileWriting`.

`KeepsToBound` has an invariant of its own, `KInv`: every directory with a file of this incarnation
is remembered, being removed, or being written (`OnlyKnown`), rotation has made room before
anything is written (`Room`), and no file is from a later incarnation (`NotYet`), so that a
restart begins with none. After a crash `previous_saved_paths` is gone while the directories are
there, so the bound itself is carried over that state.

### Semi-supervised training (`SemiTrainer_proofs`)

All seven invariants of the run `semi`: `TypeOK`, `Aligned`, `EvenLists`, `RefIsPrefix`, `NoBatchAborts`,
`ScoresDefined`, `EpochsLost`. `IInv` speaks of the lists in memory (`Trained`) and of those in the
checkpoint (`Saved`) in the same terms, `Good`: right shapes; entries of increasing passes, the
current one only where the prompt has been in it (`Chronological`); references that are prefixes
(`Copied`); everybody seen, or still to come in the first pass (`Met`); and with a warm-up of three no
reference that is or will be cut below two entries (`Deep`). The argument is about *levels*, how
long a trajectory will be at the end of the pass (`Level`). A batch leaves every level as it is, a
new pass raises all of them by one, and a restart cuts the lists to the shortest, after which they
are within one of each other again (`Even`). With both kinds of prompts in every batch a labeled
trajectory is always among the shortest; that is why the shortest query is never shorter than the
shortest reference. It needs that no prompt comes twice in a pass.

`EpochsLost` counts the steps in passes (`StepsOf`): `Behind` says how far the epoch can be ahead of the
steps after so many restarts, `Reach` and `Low` tie the epoch to the longest and the shortest
trajectory, `First` says that the first incarnation counts exactly, and `Exact` that a supervised run
does, since it is never resumed.

`InsertionsInAnyOrder` justifies a definition of the model: whatever the database and the selection, the
databases in which the loop of `copy_dict_with_validation` can end, over all orders, are those that
`FilteredBatch` chooses from. One way it is induction over the turns (`LoopEnds`, by `InsertEarly` before the
first entry is met and `InsertLater` after it); the other way an order is given for each (`LoopReaches`):
first what is to be lost, then an entry, then the rest.

### Pseudo labels (`PseudoLabel_proofs`)

- `TruthPreserved`: `RealMeasured`. The invariant `IInv` adds what a restart and the next pass rely
  on: a row that is not the dataset's belongs to an unlabeled prompt whose truth `real_gt` holds
  (`TruthKept`), and the checkpoint says the same (`CheckpointTrue`), whose rows are read afresh. So
  restoring gives the truth (`RestoredIsTruth`) before anything is measured, and only then is the
  row overwritten.
- `LabelIsPlurality`: `PluralityLabel`, for any number of responses in any order. `VInv` adds that the
  groups partition the responses that have voted (`Partition`), that members agree with the first
  of their group and no group could have joined an earlier one (`Agreement`), and that what has no
  answer is alone. Where `verify` is an equivalence the groups are then its classes
  (`GroupsAreClasses`), the only leader is the strict plurality (`PluralityIs`), and a leader without
  an answer has one vote, and so has nobody else (`LoneVote`), whatever `verify` is.
- `TypeCorrect`: `TypeOK`.

### Partial rollout (`PartialRollout_proofs`)

- `PiecesFit`: `NothingLostOrTwice`. The tokens are cut to `response_length` and the log probabilities
  are not; the invariant says that this can differ only once the tokens have reached that length
  (`Fits`), so a later piece is never put behind the wrong token, and that what a request has
  generated goes on where the earlier output ends (`GotGoesOn`). `Joining` is the lemma about
  cutting and concatenating.
- `VersionsCorrect`: `VersionsBracket`. `VInv` adds which versions servers and job can have in each phase
  of a synchronisation (`Phases`, `Stamped`), which requests can be under way in it (`Requests`), and
  that the tokens there are lie between first and last (`AllDated`).
- `FinishedStays`: the action property `FinishedKept`. `TypeCorrect`: `TypeOK`.

### Asynchronous training (`AsyncLoop_proofs`, `AsyncTraining_proofs`, `AsyncAge_proofs`)

All the safety properties of `async_stream` and `async_bounds`, with and without partial rollout, for
any capacity of the pending queue; and `LockExcludes`: of the processor, the monitor and the three
calls at most one is in a section under `self.lock`.

`AsyncLoop_proofs` is about the event loop. `LInv` says that no coroutine is scheduled twice (`Order`),
that who is inside has the lock unless it still waits for it (`Locking`), that as many tasks are
scheduled as samples ask for one (`TaskList`), and that each coroutine is scheduled exactly where it can
go on (`Scheduling`: `Points`, `Runnable`, `Feeding`): no wake-up is missed and none is left over. `Hand`
is what the processor holds.

`AsyncTraining_proofs` puts `Inv` on top. Each conjunct is there for a property or for another conjunct:
`Conserved` needs `Stored`, the finish signal being the last message and sent when the consumer is gone.
`NoDecodeDuringSync` is the end of `Quiet`, which follows a `pause()` from the answer of the servers on:
the race with the monitor may submit samples, but a paused server starts none. `StalenessCovers` needs
`Covered`, which follows one count of `update_param_version` through its three steps: what it has read
when it asks the MessageQueue, of the samples that are not in the queue; what the sum covers once the
queue has told its size; what is assigned. A sample moves from the result queue through `transit` into
the queue in between, in either order with the answer, so one can be missed and, with the processor's,
two. `Training` ties the versions of trainer, call and rollouter together. `AheadBounded` needs
`Bounded`: two samples too many can be on their way, once for each version, and what may still be dropped
(`Spare`) covers them, the sample that arrives behind the finish signal (`Late`) included. `EndsComplete`
needs `Ending`, what is over when the finish signal has been sent and read. `ProcessorFails` needs
`Draining` and `Opening`: in its first turn the processor meets nobody but the feed, so with room in the
pending queue it ends that turn in a wait for a task, which assigns `done_tasks`.

`StreamImplemented` is `SafeSpec => ImplementsStream`. `Conserved` does most of it: the places between
the pending queue and the message queue exclude each other and all others (`OnlyPlace`), so that a step
moves a sample inside `Out`, or exactly one into it or out of it (`OutStep`). `Sized` is added, the queue's
bound and the size of the batch that is trained on; the bound of `Take` comes from `Bounded`. `StreamStep`
then names the step of the stream for each action (`TakeIs`, `DeliverIs`, `FailIs`, `EndIs`, `ReadIs`,
`TrainIs`).

`AsyncAge_proofs` proves `AgeIsBounded`: `AgeBounded`. A version is a quota of samples, so age is
counted in samples: `Old` is a sample's age in them, and reading either leaves a sample's age and
what the current version has read as they are or shifts a quota from one to the other (`OldStep`).
`Spending` is the heart: what is in flight and what has been read since the rollouter's version was
the trainer's (`Spent`) stay within `maxRequired` and a quota together, because the count that
`update_param_version` makes is of a moment when what was read before is out of flight. `Dated` says
that a generation that runs is of the rollouter's version, or of the one before if it began while
that one was about to be replaced. So a sample's age is bounded when its task ends, by what may be
read before it, and `Aging` passes this on through the result queue, the message queue and the
batch, each place in front of it being one more sample that is read first. The quota is a product
of two constants; the lemmas on `Product` are all that is used of it.

### Batch dispatch (`BatchDispatch_proofs`)

`TypesHold`, `Partitions`, `SpreadsBounded`, `ResultsInOrder` and `EveryDispatchDivides`: all invariants of
`batch_dispatch`, for any number of rows, responses, workers and sequence-parallel groups, any
lengths and any prompts that are kept. `DispatchAssumption` says that the prompts' rows divide into
the workers and the workers into sequence-parallel groups, which the code asserts, and that a row
has between one and `max_token_len` tokens for each worker of its sequence-parallel group.

Two things come first. Induction over the naturals is proved for a set of them (`NatInd`), from the
well-foundedness of their order. And `Sorted` is by rank, so that a sort is correct by counting and
not by following an algorithm: in a strict total order on a finite set every rank up to its
cardinality is taken exactly once (`OrderSorts`). The code's orders are such orders (`LessOrder`,
`KeyOrders`), so `Decreasing`, `Ascending`, `Kept` and `MicroBatches` permute what they sort. `FlattenLays` says
where the members of a concatenation are.

Of the invariant `Inv` one conjunct is about each stage.

- `DriverInv`, and `Merging` for the workers: a heap holds every index at one place, its states have
  their largest set first and a spread within the bound (`Heap`). `HeapMerge` keeps all of it:
  `MergedHolds` follows an index to its new place, and `MergedSpread` is the reason why differencing
  works: with the largest set of one state on the smallest of the other no sum of the merged state
  leaves the range that the two spreads allow. `MergedEven` gives the driver parts of one size.
  `Filled` gives the workers parts that are not empty: a set without items weighs nothing, as each
  row has a workload, so it comes last and is the first to be filled; while there is one no set
  has two items, and there are at least as many rows as parts, whatever number the all-reduce
  came to (`CountIs`).
- `BatchInv`: the batch holds every row until it is filtered, and then exactly the rows of some
  prompts, the labeled ones among them (`Filtered`). So its length is a multiple of `n`.
- `WorkInv`: each worker has the slice of its rank (`Chunks`); all go with one number of micro-batches
  (`Working`); what a worker has put out is its chunk in the order of the micro-batches run so far
  (`Progress`). Once all have run that order is a permutation of the chunk, `restore_dynamic_batch`
  undoes it (`RestoredIs`), and the slices of the ranks one after the other are the batch
  (`CollectIs`).

`CollectivesMeet` reads the safety half of `Finishes` off `WorkInv`: while one worker waits in the
all-reduce no other has left it, and while one has a forward pass to run every other is on its way to
it, with the same number of passes. That they then come there is left to TLC.

### Only model-checked

- Liveness: `Finishes`, `SyncCompletes`, `Leaves` and the recovery half of `ImplementsAtomic`. Fairness and
  ENABLED are out of the prover's reach.

No module declares a recursive operator, so that proofs about all of them are possible.

## 6. Not modelled, and why

- Checkpoints: resume modes other than `auto`, HDFS, `del_local_ckpt_after_load` and the Megatron
  checkpoint manager (other deployments of the same protocol).
- `F`: `val_only` and profiling (no effect on the state kept); `on_batch_end` and curriculum
  samplers (not used by the published runs); the values of scores and similarities.
- Balancing: `keep_minibatch`, which no caller passes, `greedy_partition`, which nothing calls, the
  two parameters for pipeline parallelism, auto-padding.
- Asynchronous recipe: `shutdown` of the queue and the `None` of `get_sample` after it, which is never
  reached while both sides run; `clear_queue`, statistics; checkpoints of the trainer; entries of
  `cancel_event` and `req_output` that stay behind when a request is answered without one
  (`A/vllm_rollout/vllm_async_server.py` 106), which hold memory and nothing else.
- Agent loops with tools, and the choice of a server: the model takes any choice.
- Tensor computation (advantages, losses, models, engines, kernels), scoring of answers, data
  preparation and the command-line programs have no state whose order matters. Most of the
  repository is of this kind, or a copy of it for another model or backend, which is why the
  modules stand for a small part of its lines. `PROJECT.json` lists these components one by one.
