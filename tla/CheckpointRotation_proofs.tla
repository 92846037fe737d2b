----------------------- MODULE CheckpointRotation_proofs -----------------------
(***************************************************************************)
(* Theorems about CheckpointRotation for every number of ranks, roles,     *)
(* steps, restarts and every max_ckpt_to_keep.                             *)
(***************************************************************************)
EXTENDS CheckpointRotation, SequenceTheorems, FiniteSetTheorems, TLAPS

\* global_steps is past everything saved so far.
NewStep == pc \in SavePoints \cup {"train"} \/ (pc = "periodic" /\ SaveFreq > 0)

\* The current save has already put its path into saved[k].
Registered(k) ==
  /\ pc \in SavePoints
  /\ k < role \/ pc \notin {"rotate", "remove", "shards"}

AllShards(k) == \A r \in Ranks : shard[k][step][r] = run

Counters ==
  /\ pc = "down" => run < MaxRuns
  /\ pc # "down" => run >= 1

ReturnPoint ==
  pc \in SavePoints => ret = "advance" \/ (ret = "periodic" /\ TestFreq > 0)

TrackerBehind ==
  tracker \in Steps =>
    /\ pc \in {"initial", "ready", "periodic", "advance"} => tracker <= step
    /\ NewStep => tracker < step

SavedBehind ==
  \A k \in Role :
    /\ pc = "down" => saved[k] = <<>>
    /\ \A i \in 1..Len(saved[k]) :
         /\ pc \in {"initial", "ready", "periodic", "advance"} => saved[k][i] <= step
         /\ NewStep /\ ~Registered(k) => saved[k][i] < step
         /\ Registered(k) => saved[k][i] <= step
         /\ Registered(k) /\ i < Len(saved[k]) => saved[k][i] < step
         /\ ~Registered(k) /\ i < Len(saved[k]) => saved[k][i] # tracker

DoomedUntracked ==
  /\ pc # "remove" => doomed = {}
  /\ tracker \notin doomed

\* What the current save has written so far.
Written ==
  pc \in SavePoints =>
    /\ \A k \in Role : k < role => AllShards(k)
    /\ pc = "shards" => \A r \in Ranks : wrote[r] = "done" => shard[role][step][r] = run
    /\ pc \notin {"rotate", "remove", "shards"} => \A k \in Role : AllShards(k)
    /\ pc \in {"open_state", "close_state", "open_tracker", "close_tracker"} =>
         side[step]["data"] = run
    /\ pc \in {"open_tracker", "close_tracker"} => side[step]["state"] = run

IInv ==
  /\ TypeOK /\ Counters /\ ReturnPoint /\ TrackerBehind /\ SavedBehind
  /\ DoomedUntracked /\ Written /\ TrackedComplete

-----------------------------------------------------------------------------
LEMMA TypeInit == Init => TypeOK /\ Counters
BY RotationAssumption
DEF RotationAssumption, Init, TypeOK, Counters, RunPoints, SavePoints, Steps, Role, Side,
    Torn, NoTracker, Absent

\* What a file may hold while it is written and when it is whole.
LEMMA TypeContent == ASSUME TypeOK PROVE Torn \in Torn..MaxRuns /\ run \in Torn..MaxRuns
<1>1. run \in 0..MaxRuns
  BY DEF TypeOK
<1>2. MaxRuns \in Nat
  BY RotationAssumption DEF RotationAssumption
<1> QED BY <1>1, <1>2 DEF Torn

\* The two ways fit moves on: into a save, or past it.
LEMMA TypeBeginSave ==
  ASSUME TypeOK, pc \in RunPoints, Counters, NEW next \in {"ready", "periodic", "advance"},
         BeginSave(next), measured' \in BOOLEAN
  PROVE  TypeOK' /\ Counters'
<1>1. pc' \in RunPoints /\ pc' # "down" /\ pc # "down"
  BY DEF BeginSave, RunPoints, SavePoints
<1>2. role' \in Role
  BY RotationAssumption DEF RotationAssumption, BeginSave, Role
<1> QED BY <1>1, <1>2 DEF BeginSave, TypeOK, Counters, disk

LEMMA TypeGoTo ==
  ASSUME TypeOK, pc \in RunPoints, Counters, NEW next \in RunPoints \cup {"done"}, GoTo(next),
         measured' \in BOOLEAN
  PROVE  TypeOK' /\ Counters'
<1>1. pc' \in RunPoints \cup {"done"} /\ pc' # "down" /\ pc # "down"
  BY DEF GoTo, RunPoints, SavePoints
<1> QED BY <1>1 DEF GoTo, TypeOK, Counters, disk

LEMMA TypeTrainNext ==
  ASSUME TypeOK, pc \in RunPoints, Counters, TrainNext, step < MaxStep
  PROVE  TypeOK' /\ Counters'
<1>1. pc' \in RunPoints /\ pc' # "down" /\ pc # "down"
  BY DEF TrainNext, RunPoints, SavePoints
<1>2. step' \in Steps
  BY RotationAssumption DEF RotationAssumption, TrainNext, TypeOK, Steps
<1> QED BY <1>1, <1>2 DEF TrainNext, TypeOK, Counters, disk

LEMMA TypeStep == TypeOK /\ Counters /\ [Next]_vars => TypeOK' /\ Counters'
<1> SUFFICES ASSUME TypeOK, Counters, [Next]_vars PROVE TypeOK' /\ Counters'
  OBVIOUS
<1>1. CASE Start
  <2>1. step' \in Steps
    BY <1>1, RotationAssumption DEF RotationAssumption, Start, Steps
  <2>2. run' \in 0..MaxRuns /\ run' >= 1
    BY <1>1, RotationAssumption DEF RotationAssumption, Start, TypeOK, Counters
  <2>3. pc' \in {"initial", "failed"}
    BY <1>1 DEF Start
  <2>4. measured' \in BOOLEAN
    BY <1>1 DEF Start
  <2> QED BY <1>1, <2>1, <2>2, <2>3, <2>4 DEF Start, TypeOK, Counters, disk, RunPoints
<1>2. CASE Crash
  <2>1. 0 \in Steps /\ 1 \in Role
    BY RotationAssumption DEF RotationAssumption, Steps, Role
  <2>2. /\ pc' = "down" /\ run < MaxRuns /\ measured' \in BOOLEAN /\ step' = 0 /\ ret' = "advance"
        /\ role' = 1 /\ saved' = [k \in Role |-> <<>>] /\ doomed' = {}
        /\ wrote' = [r \in Ranks |-> "todo"] /\ UNCHANGED <<run, shard, side, rated, tracker>>
    BY <1>2 DEF Crash, disk
  <2> QED BY <2>1, <2>2 DEF TypeOK, Counters
<1>3. CASE Fit
  <2>0. pc \in RunPoints
    BY <1>3 DEF Fit, InitialValidation, TrainStep, PeriodicSave, EnterLoop, EndStep, RunPoints
  <2>a. measured' \in BOOLEAN
    BY <1>3 DEF Fit, InitialValidation, TrainStep, PeriodicSave, EnterLoop, EndStep, TypeOK
  <2>1. CASE InitialValidation
    BY <2>0, <2>a, <2>1, TypeBeginSave, TypeGoTo DEF InitialValidation, RunPoints
  <2>2. CASE TrainStep
    BY <2>0, <2>a, <2>2, TypeBeginSave, TypeGoTo DEF TrainStep, RunPoints
  <2>3. CASE PeriodicSave
    BY <2>0, <2>a, <2>3, TypeBeginSave, TypeGoTo DEF PeriodicSave, RunPoints
  <2>4. CASE EnterLoop
    BY <2>0, <2>a, <2>4, TypeTrainNext, TypeGoTo DEF EnterLoop
  <2>5. CASE EndStep
    <3>1. ~IsLastStep => step < MaxStep
      BY RotationAssumption DEF RotationAssumption, IsLastStep, TypeOK, Steps
    <3> QED BY <2>0, <2>a, <2>5, <3>1, TypeTrainNext, TypeGoTo DEF EndStep
  <2> QED BY <1>3, <2>1, <2>2, <2>3, <2>4, <2>5 DEF Fit
<1>4. CASE Save
  <2>0. pc' \in RunPoints /\ pc' # "down" /\ pc # "down"
    BY <1>4 DEF Save, Rotate, EndRemoval, Register, RemoveShard, OpenShard, CloseShard,
         SaveDataloader, SaveTrainerState, WriteSide, OpenTracker, CloseTracker, TypeOK,
         RunPoints, SavePoints
  <2>1. CASE Rotate
    <3>1. Surplus(role) \in 0..Len(saved[role])
      BY RotationAssumption DEF RotationAssumption, Surplus, TypeOK
    <3>2. SubSeq(saved[role], Surplus(role) + 1, Len(saved[role])) \in Seq(Steps)
      BY <3>1 DEF TypeOK
    <3>3. \A i \in 1..Surplus(role) : saved[role][i] \in Steps
      BY <3>1 DEF TypeOK
    <3> QED BY <2>0, <2>1, <3>2, <3>3 DEF Rotate, TypeOK, Counters, disk
  <2>2. CASE EndRemoval
    BY <2>0, <2>2 DEF EndRemoval, TypeOK, Counters, disk
  <2>3. CASE Register
    <3>0. role \in 1..Roles /\ Roles \in Nat
      BY RotationAssumption DEF RotationAssumption, TypeOK, Role
    <3>a. role' = role \/ (role < Roles /\ role' = role + 1)
      BY <2>3 DEF Register
    <3>1. role' \in Role
      BY <3>0, <3>a DEF Role
    <3>2. Append(saved[role], step) \in Seq(Steps)
      BY DEF TypeOK
    <3> QED BY <2>0, <2>3, <3>1, <3>2 DEF Register, TypeOK, Counters, disk
  <2>4. CASE \E s \in Steps, r \in Ranks : RemoveShard(s, r)
    <3>1. Absent \in Torn..MaxRuns
      BY RotationAssumption DEF RotationAssumption, Absent, Torn
    <3> QED BY <2>0, <2>4, <3>1 DEF RemoveShard, TypeOK, Counters, memory
  <2>5. CASE \E r \in Ranks : OpenShard(r) \/ CloseShard(r)
    <3>1. Torn \in Torn..MaxRuns /\ run \in Torn..MaxRuns
      BY TypeContent
    <3>2. PICK r \in Ranks, c \in Torn..MaxRuns, w \in {"open", "done"} :
            /\ wrote' = [wrote EXCEPT ![r] = w]
            /\ shard' = [shard EXCEPT ![role][step][r] = c]
      BY <2>5, <3>1 DEF OpenShard, CloseShard
    <3>3. UNCHANGED <<pc, run, step, ret, role, saved, doomed, measured, side, rated, tracker>>
      BY <2>5 DEF OpenShard, CloseShard
    <3>4. shard' \in [Role -> [Steps -> [Ranks -> Torn..MaxRuns]]]
      BY <3>2 DEF TypeOK
    <3>5. wrote' \in [Ranks -> {"todo", "open", "done"}]
      BY <3>2 DEF TypeOK
    <3> QED BY <2>0, <3>3, <3>4, <3>5 DEF TypeOK, Counters
  <2>6. CASE SaveDataloader \/ SaveTrainerState
    <3>1. Torn \in Torn..MaxRuns /\ run \in Torn..MaxRuns
      BY TypeContent
    <3>2. PICK f \in Side, c \in Torn..MaxRuns : side' = [side EXCEPT ![step][f] = c]
      BY <2>6, <3>1 DEF SaveDataloader, SaveTrainerState, WriteSide, Side
    <3>3. UNCHANGED <<memory, shard, tracker>>
      BY <2>6 DEF SaveDataloader, SaveTrainerState, WriteSide
    <3>4. rated' \subseteq Steps
      BY <2>6 DEF SaveDataloader, SaveTrainerState, TypeOK
    <3> QED BY <2>0, <3>2, <3>3, <3>4 DEF TypeOK, Counters, memory
  <2>7. CASE OpenTracker \/ CloseTracker
    BY <2>0, <2>7 DEF OpenTracker, CloseTracker, TypeOK, Counters, memory
  <2> QED BY <1>4, <2>1, <2>2, <2>3, <2>4, <2>5, <2>6, <2>7 DEF Save
<1>5. CASE Halt \/ UNCHANGED vars
  BY <1>5 DEF Halt, vars, TypeOK, Counters, memory, disk
<1> QED BY <1>1, <1>2, <1>3, <1>4, <1>5 DEF Next

\* Types are right in every reachable state, with no assumption on the schedule.
THEOREM TypeCorrect == SafeSpec => []TypeOK
<1>1. SafeSpec => [](TypeOK /\ Counters)
  BY TypeInit, TypeStep, PTL DEF SafeSpec
<1> QED BY <1>1, PTL

-----------------------------------------------------------------------------
\* The checkpoint the tracker names survives every step, for a safe schedule.

\* Fit's own steps leave saved paths, doomed directories and the disk alone.
LEMMA FitFrame ==
  ASSUME Fit
  PROVE  UNCHANGED <<run, saved, doomed, disk>> /\ step' \in {step, step + 1}
BY DEF Fit, InitialValidation, TrainStep, PeriodicSave, EnterLoop, EndStep, BeginSave, GoTo,
       TrainNext, memory

\* Where fit can go, and what it knows of the step when it goes there.
LEMMA FitMoves ==
  ASSUME Fit, SafeSchedule, TypeOK
  PROVE  \/ pc \in {"initial", "ready", "advance"} /\ pc' \in {"ready", "done"} /\ step' = step
         \/ pc \in {"ready", "advance"} /\ pc' = "train" /\ step' = step + 1
         \/ pc = "train" /\ pc' = "periodic" /\ step' = step
         \/ /\ pc = "train" /\ pc' = "rotate" /\ ret' = "periodic" /\ step' = step
            /\ TestFreq > 0 /\ role' = 1
         \/ /\ pc = "periodic" /\ pc' = "rotate" /\ ret' = "advance" /\ step' = step
            /\ SaveFreq > 0 /\ role' = 1
         \/ pc = "periodic" /\ pc' = "advance" /\ step' = step
BY DEF Fit, InitialValidation, TrainStep, PeriodicSave, EnterLoop, EndStep, BeginSave, GoTo,
       TrainNext, memory, SafeSchedule, Due

\* A save moves from one of its points to the next, or back to fit.
LEMMA SaveMoves ==
  ASSUME Save
  PROVE  /\ pc \in SavePoints
         /\ pc' \in SavePoints \/ (pc = "close_tracker" /\ pc' = ret)
         /\ UNCHANGED <<run, step, ret>>
BY DEF Save, Rotate, EndRemoval, Register, RemoveShard, OpenShard, CloseShard,
       SaveDataloader, SaveTrainerState, WriteSide, OpenTracker, CloseTracker, memory, SavePoints

LEMMA ReturnPointStep ==
  ASSUME IInv, SafeSchedule, [Next]_vars
  PROVE  ReturnPoint'
<1>1. CASE Start \/ Crash
  BY <1>1 DEF Start, Crash, ReturnPoint, SavePoints
<1>2. CASE Fit
  BY <1>2, FitMoves DEF IInv, ReturnPoint, SavePoints
<1>3. CASE Save
  BY <1>3, SaveMoves DEF IInv, ReturnPoint, SavePoints
<1>4. CASE Halt \/ UNCHANGED vars
  BY <1>4 DEF Halt, vars, memory, IInv, ReturnPoint
<1> QED BY <1>1, <1>2, <1>3, <1>4 DEF Next

LEMMA TrackerBehindStep ==
  ASSUME IInv, SafeSchedule, [Next]_vars
  PROVE  TrackerBehind'
<1> USE DEF IInv, TrackerBehind
<1>0. step \in Nat /\ (tracker \in Steps => tracker \in Nat) /\ SaveFreq \in Nat /\ TestFreq \in Nat
  BY RotationAssumption DEF RotationAssumption, TypeOK, Steps
<1>1. CASE Start
  <2>1. NoTracker \notin Steps /\ Torn \notin Steps
    BY DEF NoTracker, Torn, Steps
  <2>2. pc' \in {"initial", "failed"} /\ tracker' = tracker
    BY <1>1 DEF Start, disk
  <2>3. pc' = "initial" /\ tracker \in Steps => step' = tracker
    BY <1>1, <2>1 DEF Start
  <2> QED BY <1>0, <2>2, <2>3 DEF NewStep, SavePoints
<1>2. CASE Crash
  BY <1>2 DEF Crash, NewStep, SavePoints
<1>3. CASE Fit
  BY <1>0, <1>3, FitMoves, FitFrame DEF NewStep, SavePoints, disk
<1>4. CASE Save
  <2>1. CASE CloseTracker
    BY <1>0, <2>1 DEF CloseTracker, memory, ReturnPoint, NewStep, SavePoints, SafeSchedule
  <2>2. CASE ~CloseTracker
    <3>1. tracker' = tracker \/ tracker' = Torn
      BY <1>4, <2>2 DEF Save, Rotate, EndRemoval, Register, RemoveShard, OpenShard, CloseShard,
           SaveDataloader, SaveTrainerState, WriteSide, OpenTracker, disk
    <3>2. pc' \in SavePoints
      BY <1>4, <2>2 DEF Save, Rotate, EndRemoval, Register, RemoveShard, OpenShard, CloseShard,
           SaveDataloader, SaveTrainerState, WriteSide, OpenTracker, SavePoints
    <3>3. Torn \notin Steps
      BY DEF Torn, Steps
    <3> QED BY <1>0, <1>4, <3>1, <3>2, <3>3, SaveMoves DEF NewStep, SavePoints
  <2> QED BY <2>1, <2>2
<1>5. CASE Halt \/ UNCHANGED vars
  BY <1>5 DEF Halt, vars, memory, disk, NewStep
<1> QED BY <1>1, <1>2, <1>3, <1>4, <1>5 DEF Next

LEMMA DoomedUntrackedStep ==
  ASSUME IInv, SafeSchedule, [Next]_vars
  PROVE  DoomedUntracked'
<1> USE DEF IInv, DoomedUntracked
<1>1. CASE Start \/ Crash
  BY <1>1 DEF Start, Crash, disk
<1>2. CASE Fit
  BY <1>2, FitMoves, FitFrame DEF disk
<1>3. CASE Save
  <2>1. CASE Rotate
    <3>1. ~Registered(role) /\ role \in Role
      BY <2>1 DEF Rotate, Registered, TypeOK, Role
    <3>a. \A i \in 1..Len(saved[role]) : i < Len(saved[role]) => saved[role][i] # tracker
      BY <3>1 DEF SavedBehind
    <3>b. Len(saved[role]) \in Nat
      BY <3>1 DEF TypeOK
    <3>2. \A i \in 1..Len(saved[role]) - 1 : saved[role][i] # tracker
      BY <3>a, <3>b
    <3>3. Surplus(role) <= 0 \/ Surplus(role) <= Len(saved[role]) - 1
      BY <3>1, RotationAssumption DEF RotationAssumption, Surplus, SafeSchedule, TypeOK
    <3>4. Surplus(role) \in Int /\ Len(saved[role]) \in Nat
      BY <3>1, RotationAssumption DEF RotationAssumption, Surplus, TypeOK
    <3> QED BY <2>1, <3>2, <3>3, <3>4 DEF Rotate, disk
  <2>2. CASE CloseTracker
    BY <2>2 DEF CloseTracker, memory, ReturnPoint, SavePoints
  <2>3. CASE ~Rotate /\ ~CloseTracker
    <3>1. (doomed' = doomed /\ (pc' = pc \/ (pc # "remove" /\ pc' # "remove"))) \/ doomed' = {}
      BY <1>3, <2>3 DEF Save, EndRemoval, Register, RemoveShard, OpenShard, CloseShard,
           SaveDataloader, SaveTrainerState, WriteSide, OpenTracker, memory
    <3>2. tracker' = tracker \/ doomed' = {}
      BY <1>3, <2>3 DEF Save, EndRemoval, Register, RemoveShard, OpenShard, CloseShard,
           SaveDataloader, SaveTrainerState, WriteSide, OpenTracker, memory, disk
    <3> QED BY <3>1, <3>2
  <2> QED BY <2>1, <2>2, <2>3
<1>4. CASE Halt \/ UNCHANGED vars
  BY <1>4 DEF Halt, vars, memory, disk
<1> QED BY <1>1, <1>2, <1>3, <1>4 DEF Next

LEMMA SavedBehindStep ==
  ASSUME IInv, SafeSchedule, [Next]_vars
  PROVE  SavedBehind'
<1> USE DEF IInv
<1>0. /\ step \in Nat /\ SaveFreq \in Nat /\ TestFreq \in Nat /\ role \in Role
      /\ \A k \in Role : Len(saved[k]) \in Nat /\ \A i \in 1..Len(saved[k]) : saved[k][i] \in Nat
  <2>1. step \in Nat /\ SaveFreq \in Nat /\ TestFreq \in Nat /\ role \in Role
    BY RotationAssumption DEF RotationAssumption, TypeOK, Steps
  <2>2. SUFFICES ASSUME NEW k \in Role
                 PROVE  /\ Len(saved[k]) \in Nat
                        /\ \A i \in 1..Len(saved[k]) : saved[k][i] \in Nat
    BY <2>1
  <2>3. saved[k] \in Seq(Steps)
    BY DEF TypeOK
  <2>4. Steps \subseteq Nat
    BY RotationAssumption DEF RotationAssumption, Steps
  <2>5. Len(saved[k]) \in Nat /\ \A i \in 1..Len(saved[k]) : saved[k][i] \in Steps
    BY <2>3
  <2> QED BY <2>4, <2>5
<1>1. CASE Start
  <2>1. pc' \in {"initial", "failed"} /\ saved' = saved /\ \A k \in Role : saved[k] = <<>>
    BY <1>1 DEF Start, SavedBehind
  <2> QED BY <2>1 DEF SavedBehind
<1>2. CASE Crash
  <2>1. pc' = "down" /\ \A k \in Role : saved'[k] = <<>>
    BY <1>2 DEF Crash
  <2> QED BY <2>1 DEF SavedBehind
<1>3. CASE Fit
  <2>1. pc \notin SavePoints /\ pc # "down" /\ pc' # "down" /\ \A k \in Role : ~Registered(k)
    BY <1>3, FitMoves DEF Registered, SavePoints
  <2>2. \A k \in Role : ~(Registered(k)')
    BY <1>3, FitMoves DEF Registered, SavePoints, Role
  <2>3. saved' = saved /\ tracker' = tracker
    BY <1>3, FitFrame DEF disk
  <2>4. \A k \in Role : \A i \in 1..Len(saved[k]) :
          /\ pc' \in {"initial", "ready", "periodic", "advance"} => saved[k][i] <= step'
          /\ NewStep' => saved[k][i] < step'
    BY <1>0, <1>3, <2>1, FitMoves DEF SavedBehind, NewStep, SavePoints
  <2> QED BY <2>1, <2>2, <2>3, <2>4 DEF SavedBehind
<1>4. CASE Save
  <2>0. pc \in SavePoints /\ step' = step /\ pc # "down"
    BY <1>4, SaveMoves DEF SavePoints
  <2>1. CASE Rotate
    <3>1. pc = "rotate" /\ pc' = "remove" /\ role' = role /\ tracker' = tracker
      BY <2>1 DEF Rotate, disk
    <3>2. NewStep' /\ NewStep /\ \A k \in Role : Registered(k)' = Registered(k)
      BY <3>1 DEF NewStep, Registered, SavePoints
    <3>3. Surplus(role) \in 0..Len(saved[role])
      BY <1>0, RotationAssumption DEF RotationAssumption, Surplus
    <3> DEFINE S == Surplus(role)
               L == Len(saved[role])
    <3>4. saved' = [saved EXCEPT ![role] = SubSeq(saved[role], S + 1, L)]
      BY <2>1 DEF Rotate
    <3>5. saved \in [Role -> Seq(Steps)]
      BY DEF TypeOK
    <3>6. /\ Len(SubSeq(saved[role], S + 1, L)) = L - S
          /\ \A i \in 1..L - S : SubSeq(saved[role], S + 1, L)[i] = saved[role][S + i]
      BY <1>0, <3>3, <3>5
    <3> HIDE DEF S, L
    <3>7. \A k \in Role : k # role => saved'[k] = saved[k]
      BY <3>4, <3>5
    <3>8. Len(saved'[role]) = L - S /\ \A i \in 1..L - S : saved'[role][i] = saved[role][S + i]
      BY <1>0, <3>4, <3>5, <3>6
    <3>9. S \in Nat /\ L \in Nat /\ S <= L /\ L = Len(saved[role])
      BY <1>0, <3>3 DEF S, L
    <3>10. ~Registered(role)
      BY <1>0, <3>1 DEF Registered, Role
    <3>11. \A i \in 1..L - S : saved'[role][i] < step /\ (i < L - S => saved'[role][i] # tracker)
      <4> SUFFICES ASSUME NEW i \in 1..L - S
                   PROVE  saved'[role][i] < step /\ (i < L - S => saved'[role][i] # tracker)
        OBVIOUS
      <4>1. S + i \in 1..L /\ (i < L - S => S + i < L)
        BY <3>9
      <4> QED BY <1>0, <3>2, <3>8, <3>9, <3>10, <4>1 DEF SavedBehind
    <3> QED BY <1>0, <2>0, <3>1, <3>2, <3>7, <3>8, <3>10, <3>11 DEF SavedBehind
  <2>2. CASE Register
    <3>1. pc = "shards" /\ pc' \in {"rotate", "open_data"} /\ tracker' = tracker
      BY <2>2 DEF Register, disk
    <3>2. \A k \in Role : Registered(k)' <=> Registered(k) \/ k = role
      BY <1>0, <2>2, RotationAssumption DEF RotationAssumption, Register, Registered, SavePoints, Role
    <3>3. saved' = [saved EXCEPT ![role] = Append(saved[role], step)]
      BY <2>2 DEF Register
    <3>4. saved \in [Role -> Seq(Steps)] /\ step \in Steps
      BY DEF TypeOK
    <3>5. \A k \in Role : k # role => saved'[k] = saved[k]
      BY <3>3, <3>4
    <3>6. /\ Len(saved'[role]) = Len(saved[role]) + 1
          /\ \A i \in 1..Len(saved[role]) : saved'[role][i] = saved[role][i]
          /\ saved'[role][Len(saved[role]) + 1] = step
      BY <1>0, <3>3, <3>4
    <3>7. ~Registered(role) /\ NewStep /\ NewStep'
      BY <1>0, <3>1 DEF Registered, NewStep, SavePoints, Role
    <3>8. \A i \in 1..Len(saved[role]) : saved[role][i] < step
      BY <1>0, <3>7 DEF SavedBehind
    <3>9. \A i \in 1..Len(saved'[role]) :
            saved'[role][i] <= step /\ (i < Len(saved'[role]) => saved'[role][i] < step)
      <4>1. Len(saved[role]) \in Nat /\ step \in Nat
        BY <1>0
      <4> SUFFICES ASSUME NEW i \in 1..Len(saved'[role])
                   PROVE  saved'[role][i] <= step
                          /\ (i < Len(saved'[role]) => saved'[role][i] < step)
        OBVIOUS
      <4>2. CASE i \in 1..Len(saved[role])
        <5>1. saved'[role][i] = saved[role][i] /\ saved[role][i] < step /\ saved[role][i] \in Nat
          BY <1>0, <3>6, <3>8, <4>2
        <5> QED BY <4>1, <5>1
      <4>3. CASE i \notin 1..Len(saved[role])
        <5>1. i = Len(saved[role]) + 1
          BY <3>6, <4>1, <4>3
        <5> QED BY <3>6, <4>1, <5>1
      <4> QED BY <4>2, <4>3
    <3> QED BY <1>0, <2>0, <3>1, <3>2, <3>5, <3>7, <3>9 DEF SavedBehind
  <2>3. CASE CloseTracker
    <3>1. pc' \in {"advance", "periodic"} /\ tracker' = step /\ saved' = saved
      BY <2>3 DEF CloseTracker, memory, ReturnPoint, SavePoints
    <3>2. ~NewStep'
      BY <1>0, <2>3 DEF CloseTracker, memory, ReturnPoint, SafeSchedule, NewStep, SavePoints
    <3>3. \A k \in Role : Registered(k) /\ ~(Registered(k)')
      BY <2>3, <3>1 DEF CloseTracker, Registered, SavePoints
    <3> QED BY <1>0, <2>0, <3>1, <3>2, <3>3 DEF SavedBehind
  <2>4. CASE ~Rotate /\ ~Register /\ ~CloseTracker
    <3>1. saved' = saved /\ role' = role /\ pc' \in SavePoints
      BY <1>4, <2>4 DEF Save, EndRemoval, RemoveShard, OpenShard, CloseShard, SavePoints,
           SaveDataloader, SaveTrainerState, WriteSide, OpenTracker, memory
    <3>2. \A k \in Role : Registered(k)' = Registered(k)
      BY <1>4, <2>4, <3>1 DEF Save, EndRemoval, RemoveShard, OpenShard, CloseShard, SavePoints,
           SaveDataloader, SaveTrainerState, WriteSide, OpenTracker, memory, Registered
    <3>3. tracker' = tracker \/ (tracker' = Torn /\ \A k \in Role : Registered(k))
      BY <1>4, <2>4 DEF Save, EndRemoval, RemoveShard, OpenShard, CloseShard, SavePoints,
           SaveDataloader, SaveTrainerState, WriteSide, OpenTracker, disk, Registered
    <3>4. NewStep /\ NewStep'
      BY <2>0, <3>1 DEF NewStep
    <3> QED BY <1>0, <2>0, <3>1, <3>2, <3>3, <3>4 DEF SavedBehind, SavePoints
  <2> QED BY <2>1, <2>2, <2>3, <2>4
<1>5. CASE Halt \/ UNCHANGED vars
  BY <1>5 DEF Halt, vars, memory, disk, NewStep, Registered, SavedBehind
<1> QED BY <1>1, <1>2, <1>3, <1>4, <1>5 DEF Next

LEMMA WrittenStep ==
  ASSUME IInv, SafeSchedule, [Next]_vars
  PROVE  Written'
<1> USE DEF IInv
<1>0. role \in 1..Roles /\ Roles \in Nat /\ step \in Steps
  BY RotationAssumption DEF RotationAssumption, TypeOK, Role
<1>1. CASE Start \/ Crash
  BY <1>1 DEF Start, Crash, Written, SavePoints
<1>2. CASE Fit
  <2>1. pc' \notin SavePoints \/ (pc' = "rotate" /\ role' = 1)
    BY <1>2, FitMoves DEF SavePoints
  <2>2. \A k \in Role : ~(k < 1)
    BY DEF Role
  <2> QED BY <2>1, <2>2 DEF Written
<1>3. CASE Save
  <2>0. UNCHANGED <<run, step>> /\ pc \in SavePoints
    BY <1>3, SaveMoves
  <2>1. CASE Rotate \/ EndRemoval
    <3>1. /\ role' = role /\ shard' = shard /\ pc' \in {"remove", "shards"}
          /\ pc' = "shards" => \A r \in Ranks : wrote'[r] = "todo"
      BY <2>1 DEF Rotate, EndRemoval, disk
    <3> QED BY <2>0, <3>1 DEF Written, AllShards
  <2>2. CASE \E s \in Steps, r \in Ranks : RemoveShard(s, r)
    <3>1. pc = "remove" /\ pc' = "remove" /\ role' = role
      BY <2>2 DEF RemoveShard, memory
    <3>2. \A k \in Role : k # role => shard'[k] = shard[k]
      BY <2>2 DEF RemoveShard, TypeOK
    <3>3. \A k \in Role : k < role => k # role
      BY <1>0 DEF Role
    <3> QED BY <2>0, <3>1, <3>2, <3>3 DEF Written, AllShards
  <2>3. CASE \E r \in Ranks : OpenShard(r) \/ CloseShard(r)
    <3>1. pc = "shards" /\ pc' = "shards" /\ role' = role
      BY <2>3 DEF OpenShard, CloseShard
    <3>2. \A k \in Role : k # role => shard'[k] = shard[k]
      BY <2>3 DEF OpenShard, CloseShard, TypeOK
    <3>3. \A k \in Role : k < role => k # role
      BY <1>0 DEF Role
    <3>4. \A q \in Ranks : wrote'[q] = "done" => shard'[role][step][q] = run
      <4>1. \A q \in Ranks : wrote[q] = "done" => shard[role][step][q] = run
        BY <2>0, <3>1 DEF Written
      <4>2. PICK r \in Ranks : OpenShard(r) \/ CloseShard(r)
        BY <2>3
      <4>3. \A q \in Ranks : q # r => wrote'[q] = wrote[q] /\ shard'[role][step][q] = shard[role][step][q]
        BY <1>0, <4>2 DEF OpenShard, CloseShard, TypeOK
      <4>4. OpenShard(r) => wrote'[r] = "open"
        BY DEF OpenShard, TypeOK
      <4>5. CloseShard(r) => shard'[role][step][r] = run
        BY <1>0 DEF CloseShard, TypeOK
      <4> QED BY <4>1, <4>2, <4>3, <4>4, <4>5
    <3> QED BY <2>0, <3>1, <3>2, <3>3, <3>4 DEF Written, AllShards
  <2>4. CASE Register
    <3>1. AllShards(role)
      BY <2>4 DEF Register, Written, AllShards, SavePoints
    <3>2. \A k \in Role : k <= role => AllShards(k)
      BY <1>0, <2>0, <3>1 DEF Written, Role
    <3>3. shard' = shard /\ (\/ role' = role + 1 /\ pc' = "rotate"
                             \/ role = Roles /\ role' = role /\ pc' = "open_data")
      BY <2>4 DEF Register, disk
    <3>4. \A k \in Role : k < role' => k <= role
      BY <1>0, <3>3 DEF Role
    <3>5. role = Roles => \A k \in Role : k <= role
      BY <1>0 DEF Role
    <3> QED BY <2>0, <3>2, <3>3, <3>4, <3>5 DEF Written, AllShards
  <2>5. CASE SaveDataloader \/ SaveTrainerState
    <3>1. /\ role' = role /\ shard' = shard /\ pc \notin {"rotate", "remove", "shards"}
          /\ pc' \notin {"rotate", "remove", "shards"}
      BY <2>5 DEF SaveDataloader, SaveTrainerState, WriteSide, memory
    <3>2. pc' \in {"open_state", "close_state", "open_tracker", "close_tracker"} =>
            side'[step]["data"] = run
      BY <1>0, <2>0, <2>5 DEF SaveDataloader, SaveTrainerState, WriteSide, Written, TypeOK, Side
    <3>3. pc' \in {"open_tracker", "close_tracker"} => side'[step]["state"] = run
      BY <1>0, <2>0, <2>5 DEF SaveDataloader, SaveTrainerState, WriteSide, Written, TypeOK, Side
    <3> QED BY <2>0, <3>1, <3>2, <3>3 DEF Written, AllShards
  <2>6. CASE OpenTracker
    BY <2>0, <2>6 DEF OpenTracker, memory, Written, AllShards
  <2>7. CASE CloseTracker
    BY <2>7 DEF CloseTracker, ReturnPoint, Written, SavePoints
  <2> QED BY <1>3, <2>1, <2>2, <2>3, <2>4, <2>5, <2>6, <2>7 DEF Save
<1>4. CASE Halt \/ UNCHANGED vars
  BY <1>4 DEF Halt, vars, memory, disk, Written, AllShards
<1> QED BY <1>1, <1>2, <1>3, <1>4 DEF Next

LEMMA TrackedCompleteStep ==
  ASSUME IInv, SafeSchedule, [Next]_vars
  PROVE  TrackedComplete'
<1> USE DEF IInv
<1>0. Torn \notin Steps /\ step \in Steps /\ role \in Role /\ run \in Nat
  BY RotationAssumption DEF RotationAssumption, TypeOK, Torn, Steps
<1>1. CASE tracker' = tracker /\ shard' = shard /\ side' = side /\ run' \in {run, run + 1}
  <2>1. 1..run \subseteq 1..run'
    BY <1>0, <1>1
  <2> QED BY <1>1, <2>1 DEF TrackedComplete, Complete
<1>2. CASE Start \/ Crash \/ Halt \/ UNCHANGED vars
  BY <1>1, <1>2 DEF Start, Crash, Halt, vars, memory, disk
<1>3. CASE Fit
  BY <1>1, <1>3, FitFrame DEF disk
<1>4. CASE Save
  <2>0. UNCHANGED <<run, step>> /\ pc \in SavePoints
    BY <1>4, SaveMoves
  <2>a. tracker \in Steps => tracker # step
    <3>1. \A s \in Steps : ~(s < s)
      BY DEF Steps
    <3> QED BY <1>0, <2>0, <3>1 DEF TrackerBehind, NewStep
  <2>1. CASE Rotate \/ EndRemoval \/ Register
    BY <1>1, <2>0, <2>1 DEF Rotate, EndRemoval, Register, disk
  <2>2. CASE \E s \in Steps, r \in Ranks : RemoveShard(s, r)
    <3>1. PICK s \in Steps, r \in Ranks : RemoveShard(s, r)
      BY <2>2
    <3>2. s # tracker /\ tracker' = tracker /\ side' = side
      BY <3>1 DEF RemoveShard, DoomedUntracked
    <3>3. \A k \in Role, q \in Ranks : tracker \in Steps => shard'[k][tracker][q] = shard[k][tracker][q]
      BY <1>0, <3>1, <3>2 DEF RemoveShard, TypeOK
    <3> QED BY <2>0, <3>2, <3>3 DEF TrackedComplete, Complete
  <2>3. CASE \E r \in Ranks : OpenShard(r) \/ CloseShard(r)
    <3>1. PICK r \in Ranks : OpenShard(r) \/ CloseShard(r)
      BY <2>3
    <3>2. tracker' = tracker /\ side' = side
      BY <3>1 DEF OpenShard, CloseShard
    <3>3. \A k \in Role, q \in Ranks : tracker \in Steps => shard'[k][tracker][q] = shard[k][tracker][q]
      <4>1. PICK c : shard' = [shard EXCEPT ![role][step][r] = c]
        BY <3>1 DEF OpenShard, CloseShard
      <4>2. shard \in [Role -> [Steps -> [Ranks -> Torn..MaxRuns]]]
        BY DEF TypeOK
      <4>3. SUFFICES ASSUME NEW k \in Role, tracker \in Steps
                     PROVE  shard'[k][tracker] = shard[k][tracker]
        OBVIOUS
      <4>4. CASE k # role
        BY <4>1, <4>2, <4>4
      <4>5. CASE k = role
        BY <1>0, <2>a, <4>1, <4>2, <4>3, <4>5
      <4> QED BY <4>4, <4>5
    <3> QED BY <2>0, <3>2, <3>3 DEF TrackedComplete, Complete
  <2>4. CASE SaveDataloader \/ SaveTrainerState
    <3>1. tracker' = tracker /\ shard' = shard
      BY <2>4 DEF SaveDataloader, SaveTrainerState, WriteSide
    <3>2. tracker \in Steps => side'[tracker] = side[tracker]
      BY <1>0, <2>a, <2>4 DEF SaveDataloader, SaveTrainerState, WriteSide, TypeOK
    <3> QED BY <2>0, <3>1, <3>2 DEF TrackedComplete, Complete
  <2>5. CASE OpenTracker
    BY <1>0, <2>5 DEF OpenTracker, TrackedComplete
  <2>6. CASE CloseTracker
    <3>1. tracker' = step /\ shard' = shard /\ side' = side /\ pc = "close_tracker"
      BY <2>6 DEF CloseTracker
    <3>2. /\ \A k \in Role, r \in Ranks : shard[k][step][r] = run
          /\ \A f \in Side : side[step][f] = run
      BY <2>0, <3>1 DEF Written, AllShards, Side
    <3>3. run \in 1..run
      BY <1>0, <3>1 DEF Counters
    <3> QED BY <2>0, <3>1, <3>2, <3>3 DEF TrackedComplete, Complete
  <2> QED BY <1>4, <2>1, <2>2, <2>3, <2>4, <2>5, <2>6 DEF Save
<1> QED BY <1>2, <1>3, <1>4 DEF Next

LEMMA InvInit == Init => IInv
<1> SUFFICES ASSUME Init PROVE IInv
  OBVIOUS
<1>1. TypeOK /\ Counters
  BY TypeInit
<1>2. \A k \in Role : saved[k] = <<>>
  BY DEF Init
<1>3. NoTracker \notin Steps
  BY DEF NoTracker, Steps
<1>4. pc = "down" /\ doomed = {} /\ tracker = NoTracker /\ pc \notin SavePoints
  BY DEF Init, SavePoints
<1> QED
  BY <1>1, <1>2, <1>3, <1>4
  DEF IInv, ReturnPoint, TrackerBehind, SavedBehind, DoomedUntracked, Written, TrackedComplete

\* The strengthened invariant is inductive: each conjunct needs the others.
LEMMA InvStep == IInv /\ SafeSchedule /\ [Next]_vars => IInv'
<1> SUFFICES ASSUME IInv, SafeSchedule, [Next]_vars PROVE IInv'
  OBVIOUS
<1>1. TypeOK' /\ Counters'
  BY TypeStep DEF IInv
<1> QED
  BY <1>1, ReturnPointStep, TrackerBehindStep, SavedBehindStep, DoomedUntrackedStep,
     WrittenStep, TrackedCompleteStep DEF IInv

LEMMA Inductive == ASSUME SafeSchedule PROVE SafeSpec => []IInv
<1>1. IInv /\ [Next]_vars => IInv'
  BY InvStep
<1> QED BY <1>1, InvInit, PTL DEF SafeSpec

\* Under a safe schedule and crashes anywhere, the checkpoint the tracker names always
\* has all its files, whole and from one run, whatever the number of ranks, roles and
\* kept paths: rotation and half-done saves never touch it.
THEOREM TrackedSafe == ASSUME SafeSchedule PROVE SafeSpec => []TrackedComplete
<1>1. IInv => TrackedComplete
  BY DEF IInv
<1> QED BY <1>1, Inductive, PTL

\* Every save under a safe schedule is of a step newer than the tracked one, and the
\* directories it removes are others.
THEOREM SavesNewer == ASSUME SafeSchedule PROVE SafeSpec => []SavesAhead
<1>1. IInv => SavesAhead
  BY DEF IInv, TrackerBehind, DoomedUntracked, SavesAhead, NewStep
<1> QED BY <1>1, Inductive, PTL

\* Under a safe schedule, and with crashes anywhere, a restarted job comes up unless the
\* tracker file was cut short or names a checkpoint that was saved without pass rates: no
\* other file is ever missing or torn.
THEOREM FailsOnlyThere == ASSUME SafeSchedule PROVE SafeSpec => []FailsOnlyUnusable
<1>1. Init => FailsOnlyUnusable
  BY DEF Init, FailsOnlyUnusable
<1>2. IInv /\ FailsOnlyUnusable /\ [Next]_vars => FailsOnlyUnusable'
  <2> SUFFICES ASSUME IInv, FailsOnlyUnusable, [Next]_vars, pc' = "failed" PROVE ~Usable'
    BY DEF FailsOnlyUnusable
  <2>1. CASE Start
    <3>1. pc = "down" /\ UNCHANGED <<tracker, rated>>
      BY <2>1 DEF Start, disk
    <3>2. tracker \in Steps /\ tracker \in rated => Loadable(tracker)
      <4>1. SUFFICES ASSUME tracker \in Steps, tracker \in rated PROVE Loadable(tracker)
        OBVIOUS
      <4>2. run \in Nat /\ \A i \in 1..run : i # Absent /\ i # Torn
        BY RotationAssumption DEF RotationAssumption, IInv, TypeOK, Absent, Torn
      <4> QED BY <4>1, <4>2 DEF IInv, TrackedComplete, Complete, Loadable, Rated, Whole
    <3>3. Torn # NoTracker /\ Torn \notin Steps /\ NoTracker \notin Steps /\ rated \subseteq Steps
      BY DEF Torn, NoTracker, Steps, IInv, TypeOK
    <3>4. (tracker \in Steps /\ ~Loadable(tracker)) \/ tracker = Torn
      BY <2>1 DEF Start
    <3> QED BY <3>1, <3>2, <3>3, <3>4 DEF Usable
  <2>2. CASE Crash
    BY <2>2 DEF Crash
  <2>3. CASE Fit
    BY <2>3 DEF Fit, InitialValidation, TrainStep, PeriodicSave, EnterLoop, EndStep, BeginSave,
         GoTo, TrainNext
  <2>4. CASE Save
    BY <2>4, SaveMoves DEF SavePoints, IInv, ReturnPoint
  <2>5. CASE Halt \/ UNCHANGED vars
    BY <2>5 DEF Halt, vars, memory, disk, FailsOnlyUnusable, Usable
  <2> QED BY <2>1, <2>2, <2>3, <2>4, <2>5 DEF Next
<1> QED BY <1>1, <1>2, Inductive, PTL DEF SafeSpec

-----------------------------------------------------------------------------
\* Refinement: the save in many writes is the abstract atomic commit.

\* The tracker is cut short between its two writes, or for good.
TornWhileWriting ==
  /\ pc = "close_tracker" => tracker = Torn
  /\ tracker = Torn => pc \in {"close_tracker", "down", "failed"}

LEMMA TornStep ==
  ASSUME IInv, TornWhileWriting, SafeSchedule, [Next]_vars
  PROVE  TornWhileWriting'
<1> USE DEF TornWhileWriting
<1>1. CASE Start
  BY <1>1 DEF Start, disk, Torn, NoTracker, Steps
<1>2. CASE Crash
  BY <1>2 DEF Crash, disk
<1>3. CASE Fit
  BY <1>3, FitMoves, FitFrame DEF IInv, disk
<1>4. CASE Save
  <2>1. CASE CloseTracker
    <3>1. tracker' # Torn
      BY <2>1, RotationAssumption DEF RotationAssumption, CloseTracker, IInv, TypeOK, Steps, Torn
    <3> QED BY <2>1, <3>1 DEF CloseTracker, IInv, ReturnPoint, SavePoints
  <2>2. CASE OpenTracker
    BY <2>2 DEF OpenTracker
  <2>3. CASE ~CloseTracker /\ ~OpenTracker
    <3>1. pc \in SavePoints \ {"close_tracker"} /\ pc' # "close_tracker" /\ tracker' = tracker
      BY <1>4, <2>3 DEF Save, Rotate, EndRemoval, Register, RemoveShard, OpenShard, CloseShard,
           SaveDataloader, SaveTrainerState, WriteSide, disk, memory, SavePoints
    <3> QED BY <3>1 DEF SavePoints
  <2> QED BY <2>1, <2>2, <2>3
<1>5. CASE Halt \/ UNCHANGED vars
  BY <1>5 DEF Halt, vars, disk
<1> QED BY <1>1, <1>2, <1>3, <1>4, <1>5 DEF Next

\* Each step of the code is a step of the abstract run, or leaves it alone.
LEMMA StepRefines ==
  ASSUME IInv, TornWhileWriting, FailsOnlyUnusable', SafeSchedule, [Next]_vars
  PROVE  [Abstract!ANext]_(Abstract!avars)
<1> USE DEF Running, Abstract!avars
<1>0. /\ Torn \notin Steps /\ NoTracker \notin Steps /\ Torn # NoTracker /\ step \in Nat
      /\ step \in Steps /\ rated \subseteq Steps
  BY RotationAssumption DEF RotationAssumption, IInv, TypeOK, Torn, NoTracker, Steps
\* As long as neither the tracker nor what it names changes.
<1>a. ASSUME UNCHANGED <<tracker, rated>>, tracker # Torn
      PROVE  Durable' = Durable /\ Usable' = Usable
  BY <1>0, <1>a DEF Durable, Usable
<1>1. CASE Start
  <2>1. pc = "down" /\ pc' \in {"initial", "failed"} /\ UNCHANGED <<tracker, rated>>
    BY <1>1 DEF Start, disk
  <2>2. CASE pc' = "initial"
    <3>1. tracker # Torn
      BY <1>0, <1>1, <2>2 DEF Start
    <3>2. step' = Durable
      BY <1>0, <1>1, <2>2, <3>1 DEF Start, Durable
    <3>3. Usable
      <4>1. CASE tracker = NoTracker
        BY <4>1 DEF Usable
      <4>2. CASE tracker \in Steps /\ Loadable(tracker)
        <5>1. tracker \in rated
          <6>1. run \in Nat /\ \A i \in 1..run : i # Absent
            BY RotationAssumption DEF RotationAssumption, IInv, TypeOK, Absent
          <6> QED BY <4>2, <6>1 DEF IInv, TrackedComplete, Complete, Loadable, Rated, Side
        <5> QED BY <5>1 DEF Usable
      <4> QED BY <1>1, <2>2, <4>1, <4>2 DEF Start
    <3> QED BY <1>a, <2>1, <2>2, <3>1, <3>2, <3>3 DEF Abstract!ANext, Abstract!Recover
  <2>3. CASE pc' = "failed"
    <3>1. Usable' = Usable
      BY <2>1, <2>3 DEF Usable
    <3>2. Durable' = Durable
      BY <2>1, <2>3 DEF Durable
    <3> QED BY <2>1, <2>3, <3>1, <3>2
  <2> QED BY <2>1, <2>2, <2>3
<1>2. CASE Crash
  <2>1. pc \notin {"down", "failed"} /\ pc' = "down" /\ UNCHANGED <<tracker, rated>>
    BY <1>2, RotationAssumption DEF RotationAssumption, Crash, disk, RunPoints, SavePoints
  <2>2. CASE pc = "close_tracker"
    <3>1. tracker = Torn
      BY <2>2 DEF TornWhileWriting
    <3>2. Durable = step /\ Durable' = 0
      BY <1>0, <2>1, <2>2, <3>1 DEF Durable
    <3>3. Usable' = FALSE
      BY <1>0, <2>1, <3>1 DEF Usable
    <3> QED BY <2>1, <3>2, <3>3 DEF Abstract!ANext, Abstract!FailCommitting, Abstract!Down
  <2>3. CASE pc # "close_tracker"
    <3>1. tracker # Torn
      BY <2>1, <2>3 DEF TornWhileWriting
    <3> QED BY <1>a, <2>1, <3>1 DEF Abstract!ANext, Abstract!Fail, Abstract!Down
  <2> QED BY <2>2, <2>3
<1>3. CASE Fit
  <2>1. UNCHANGED <<tracker, rated>> /\ tracker # Torn
    BY <1>3, FitMoves, FitFrame DEF IInv, disk, TornWhileWriting
  <2>2. pc \notin {"down", "failed"} /\ pc' \notin {"down", "failed"}
    BY <1>3, FitMoves DEF IInv
  <2>3. step' = step \/ step' = step + 1
    BY <1>3, FitFrame
  <2> QED BY <1>a, <2>1, <2>2, <2>3 DEF Abstract!ANext, Abstract!Advance
<1>4. CASE Save
  <2>1. step' = step /\ pc \in SavePoints /\ pc \notin {"down", "failed"} /\ pc' \notin {"down", "failed"}
    BY <1>4, SaveMoves DEF SavePoints, IInv, TypeOK
  <2>2. CASE OpenTracker
    <3>1. Durable' = step
      BY <1>0, <2>1, <2>2 DEF OpenTracker, Durable
    <3>2. Usable' \in BOOLEAN
      BY DEF Usable
    <3> QED BY <2>1, <3>1, <3>2 DEF Abstract!ANext, Abstract!Commit
  <2>3. CASE CloseTracker
    <3>1. pc = "close_tracker" /\ tracker = Torn /\ tracker' = step /\ rated' = rated
      BY <2>3 DEF CloseTracker, TornWhileWriting
    <3>2. Durable = step /\ Durable' = step
      BY <1>0, <3>1 DEF Durable
    <3>3. step # Torn /\ step # NoTracker /\ Torn \notin rated
      BY <1>0
    <3>4. Usable' = Usable
      BY <1>0, <3>1, <3>3 DEF Usable
    <3> QED BY <2>1, <3>2, <3>4
  <2>4. CASE ~OpenTracker /\ ~CloseTracker
    <3>1. tracker' = tracker /\ (rated' = rated \/ \E r \in {rated \cup {step}, rated \ {step}} : rated' = r)
      BY <1>4, <2>4 DEF Save, Rotate, EndRemoval, Register, RemoveShard, OpenShard, CloseShard,
           SaveDataloader, SaveTrainerState, WriteSide, disk
    <3>2. pc # "close_tracker"
      BY <1>4, <2>4 DEF Save, Rotate, EndRemoval, Register, RemoveShard, OpenShard, CloseShard,
           SaveDataloader, SaveTrainerState, WriteSide
    <3>3. tracker # Torn
      BY <2>1, <3>2 DEF TornWhileWriting
    <3>4. tracker # step
      <4>1. step \in Steps /\ ~(step < step)
        BY <1>0
      <4>2. tracker \in Steps => tracker < step
        BY <2>1 DEF IInv, TrackerBehind, NewStep
      <4> QED BY <4>1, <4>2
    <3>5. tracker' \in rated' <=> tracker \in rated
      BY <3>1, <3>4
    <3>6. Durable' = Durable /\ Usable' = Usable
      BY <3>1, <3>3, <3>5 DEF Durable, Usable
    <3> QED BY <2>1, <3>6
  <2> QED BY <2>2, <2>3, <2>4
<1>5. CASE Halt \/ UNCHANGED vars
  BY <1>5 DEF Halt, vars, memory, disk, Durable, Usable
<1> QED BY <1>1, <1>2, <1>3, <1>4, <1>5 DEF Next

\* With a safe schedule, and crashes anywhere, saving, rotating, crashing and resuming
\* implement the atomic checkpoint: what a restart continues from is exactly the last
\* commit, unless that was of a state without pass rates or was itself cut short.
THEOREM Refines ==
  ASSUME SafeSchedule
  PROVE  SafeSpec => Abstract!ASafe
<1>1. Init => TornWhileWriting /\ Abstract!AInit
  BY DEF Init, TornWhileWriting, Torn, NoTracker, Abstract!AInit, Running, Durable, Usable
<1>2. IInv /\ TornWhileWriting /\ [Next]_vars => TornWhileWriting'
  BY TornStep
<1>3. IInv /\ TornWhileWriting /\ FailsOnlyUnusable' /\ [Next]_vars
        => [Abstract!ANext]_(Abstract!avars)
  BY StepRefines
<1> QED BY <1>1, <1>2, <1>3, Inductive, FailsOnlyThere, PTL DEF SafeSpec, Abstract!ASafe

-----------------------------------------------------------------------------
\* What one incarnation leaves on disk, for any schedule.

Own(k) == {s \in Steps : \E r \in Ranks : shard[k][s][r] = run /\ run > 0}

Paths(k) == {saved[k][i] : i \in 1..Len(saved[k])}

\* The directories of role k that rank 0 remembers, is removing, or is writing.
Known(k) ==
  Paths(k) \cup (IF k # role THEN {} ELSE IF pc = "remove" THEN doomed
                 ELSE IF pc = "shards" THEN {step} ELSE {})
OnlyKnown == pc # "down" => \A k \in Role : Own(k) \subseteq Known(k)

\* No file is from an incarnation that is yet to come.
NotYet == \A k \in Role, s \in Steps, r \in Ranks : shard[k][s][r] <= run

\* Removing makes room before anything is written.
Room ==
  /\ pc = "remove" => IsFiniteSet(doomed)
  /\ \A k \in Role : Keep[k] > 0 =>
       /\ Len(saved[k]) <= Keep[k]
       /\ k = role /\ pc \in {"remove", "shards"} => Len(saved[k]) < Keep[k]
       /\ k = role /\ pc = "remove" => Len(saved[k]) + Cardinality(doomed) <= Keep[k]

\* After a crash the directories are there and nobody remembers them: the bound itself is kept.
KInv == TypeOK /\ Counters /\ OnlyKnown /\ NotYet /\ Room /\ OwnKeepBound

\* A sequence has no more elements than places.
LEMMA Places ==
  ASSUME NEW A, NEW seq \in Seq(A), NEW m \in 0..Len(seq)
  PROVE  LET T == {seq[i] : i \in 1..m}
         IN  IsFiniteSet(T) /\ Cardinality(T) \in Nat /\ Cardinality(T) <= m
<1> DEFINE T == {seq[i] : i \in 1..m}
           f == [i \in 1..m |-> seq[i]]
<1>1. m \in Nat
  BY LenProperties
<1>2. IsFiniteSet(1..m) /\ Cardinality(1..m) = m
  BY <1>1, FS_Interval
<1>3. f \in Surjection(1..m, T)
  BY DEF Surjection
<1>4. IsFiniteSet(T) /\ Cardinality(T) <= Cardinality(1..m)
  BY <1>2, <1>3, FS_Surjection
<1> QED BY <1>2, <1>4, FS_CardinalityType

\* The room that is left bounds what is there.
LEMMA RoomBounds == TypeOK /\ Room /\ pc # "down" /\ OnlyKnown => OwnKeepBound
<1> SUFFICES ASSUME TypeOK, Room, pc # "down", OnlyKnown PROVE OwnKeepBound
  OBVIOUS
<1> SUFFICES ASSUME NEW k \in Role, Keep[k] > 0
    PROVE  Cardinality(Own(k)) <= Keep[k]
  BY DEF OwnKeepBound, Own
<1> DEFINE n == Len(saved[k])
           more == IF k # role THEN {} ELSE IF pc = "remove" THEN doomed
                   ELSE IF pc = "shards" THEN {step} ELSE {}
           d == Cardinality(more)
<1>1. saved[k] \in Seq(Steps) /\ n \in Nat /\ Keep[k] \in Nat
  BY RotationAssumption, LenProperties DEF TypeOK
<1>2. IsFiniteSet(Paths(k)) /\ Cardinality(Paths(k)) \in Nat /\ Cardinality(Paths(k)) <= n
  <2>1. n \in 0..Len(saved[k])
    BY <1>1
  <2>2. LET T == {saved[k][i] : i \in 1..n}
        IN  IsFiniteSet(T) /\ Cardinality(T) \in Nat /\ Cardinality(T) <= n
    BY <1>1, <2>1, Places
  <2> QED BY <2>2 DEF Paths
<1>3. IsFiniteSet({}) /\ Cardinality({}) = 0 /\ IsFiniteSet({step}) /\ Cardinality({step}) = 1
  BY FS_EmptySet, FS_Singleton
<1>4. IsFiniteSet(more) /\ n + d <= Keep[k]
  <2>1. CASE k = role /\ pc = "remove"
    BY <2>1 DEF Room
  <2>2. CASE k = role /\ pc = "shards"
    <3>1. n < Keep[k] /\ more = {step}
      BY <2>2 DEF Room
    <3> HIDE DEF n, more
    <3> QED BY <1>1, <1>3, <3>1
  <2>3. CASE ~(k = role /\ pc \in {"remove", "shards"})
    <3>1. n <= Keep[k] /\ more = {}
      BY <2>3 DEF Room
    <3> HIDE DEF n, more
    <3> QED BY <1>1, <1>3, <3>1
  <2> QED BY <2>1, <2>2, <2>3
<1>5. d \in Nat
  BY <1>4, FS_CardinalityType
<1>6. Own(k) \subseteq Paths(k) \cup more
  BY DEF OnlyKnown, Known
<1> HIDE DEF n, more
<1>7. /\ IsFiniteSet(Paths(k) \cup more)
      /\ Cardinality(Paths(k) \cup more) <= Cardinality(Paths(k)) + Cardinality(more)
  <2>1. IsFiniteSet(Paths(k) \cap more)
    BY <1>2, FS_Subset
  <2>2. Cardinality(Paths(k) \cap more) \in Nat
    BY <2>1, FS_CardinalityType
  <2>3. /\ IsFiniteSet(Paths(k) \cup more)
        /\ Cardinality(Paths(k) \cup more)
             = Cardinality(Paths(k)) + Cardinality(more) - Cardinality(Paths(k) \cap more)
    BY <1>2, <1>4, FS_Union
  <2> QED BY <1>2, <1>5, <2>2, <2>3
<1>8. IsFiniteSet(Own(k)) /\ Cardinality(Own(k)) <= Cardinality(Paths(k) \cup more)
  BY <1>6, <1>7, FS_Subset
<1>9. Cardinality(Own(k)) \in Nat /\ Cardinality(Paths(k) \cup more) \in Nat
  BY <1>7, <1>8, FS_CardinalityType
<1> QED BY <1>1, <1>2, <1>4, <1>5, <1>7, <1>8, <1>9

LEMMA KInit == Init => KInv
<1> SUFFICES ASSUME Init PROVE KInv
  OBVIOUS
<1>1. TypeOK /\ Counters
  BY TypeInit
<1>2. OnlyKnown /\ NotYet
  BY DEF Init, OnlyKnown, NotYet, Absent
<1>3. Room
  BY RotationAssumption DEF Init, Room
<1>4. \A k \in Role : Own(k) = {}
  BY DEF Init, Own
<1>5. OwnKeepBound
  <2> SUFFICES ASSUME NEW k \in Role, Keep[k] > 0
      PROVE  Cardinality(Own(k)) <= Keep[k]
    BY DEF OwnKeepBound, Own
  <2>1. Cardinality({}) = 0 /\ Keep[k] \in Nat
    BY FS_EmptySet, RotationAssumption
  <2> QED BY <1>4, <2>1
<1> QED BY <1>1, <1>2, <1>3, <1>5 DEF KInv

\* While the process is up, the bound follows from the room.
LEMMA UpStep ==
  ASSUME TypeOK', pc' # "down", OnlyKnown', NotYet', Room', Counters'
  PROVE  KInv'
<1>1. (TypeOK /\ Room /\ pc # "down" /\ OnlyKnown => OwnKeepBound)'
  BY RoomBounds, PTL
<1> QED BY <1>1 DEF KInv

\* Steps of fit: no removal and no writing before, nor right after.
LEMMA QuietKnown ==
  ASSUME KInv, TypeOK', Counters', UNCHANGED <<run, saved, shard>>,
         pc \notin {"down", "remove", "shards"}, pc' \notin {"down", "remove", "shards"}
  PROVE  KInv'
<1>1. \A k \in Role : Known(k)' = Known(k) /\ Own(k)' = Own(k)
  BY DEF Known, Paths, Own
<1>2. OnlyKnown' /\ NotYet'
  BY <1>1 DEF KInv, OnlyKnown, NotYet
<1>3. Room'
  BY DEF KInv, Room
<1> QED BY <1>2, <1>3, UpStep

LEMMA RotateKnown ==
  ASSUME KInv, TypeOK', Counters', Rotate
  PROVE  KInv'
<1> DEFINE n == Len(saved[role])
           m == Surplus(role)
<1>1. /\ pc = "rotate" /\ pc' = "remove" /\ doomed' = {saved[role][i] : i \in 1..m}
      /\ saved' = [saved EXCEPT ![role] = SubSeq(@, m + 1, n)]
      /\ UNCHANGED <<run, step, role, shard>>
  BY DEF Rotate, disk
<1>2. /\ role \in Role /\ saved[role] \in Seq(Steps) /\ n \in Nat /\ Keep[role] \in Nat
      /\ saved \in [Role -> Seq(Steps)]
  BY RotationAssumption, LenProperties DEF KInv, TypeOK
<1>3. /\ m \in 0..n /\ (Keep[role] > 0 => n - m < Keep[role] /\ (n - m) + m <= Keep[role])
  <2>1. Keep[role] > 0 => n <= Keep[role]
    BY <1>2 DEF KInv, Room
  <2> QED BY <1>2, <2>1 DEF Surplus
<1>4. /\ IsFiniteSet(doomed') /\ Cardinality(doomed') \in Nat /\ Cardinality(doomed') <= m
  <2>1. LET T == {saved[role][i] : i \in 1..m}
        IN  IsFiniteSet(T) /\ Cardinality(T) \in Nat /\ Cardinality(T) <= m
    BY <1>2, <1>3, Places
  <2> QED BY <1>1, <2>1
<1>5. /\ saved'[role] = SubSeq(saved[role], m + 1, n)
      /\ \A k \in Role : k # role => saved'[k] = saved[k]
  BY <1>1, <1>2
<1> HIDE DEF n, m
<1>6. /\ Len(saved'[role]) = n - m
      /\ \A i \in 1..n - m : saved'[role][i] = saved[role][m + i]
  <2>0. m + 1 \in Nat /\ n \in Nat /\ m + 1 \in Int /\ n \in Int
    BY <1>2, <1>3
  <2>1. \A i \in m + 1..n : saved[role][i] \in Steps
    BY <1>2, <1>3, ElementOfSeq DEF n
  <2>2. /\ Len(SubSeq(saved[role], m + 1, n)) = IF m + 1 <= n THEN n - (m + 1) + 1 ELSE 0
        /\ \A i \in 1..n - (m + 1) + 1 :
             SubSeq(saved[role], m + 1, n)[i] = saved[role][(m + 1) + i - 1]
    BY <2>0, <2>1, SubSeqProperties
  <2>3. n - (m + 1) + 1 = n - m /\ (~(m + 1 <= n) => n - m = 0)
    BY <1>2, <1>3
  <2>4. Len(SubSeq(saved[role], m + 1, n)) = n - m
    BY <2>2, <2>3
  <2>5. ASSUME NEW i \in 1..n - m
        PROVE  SubSeq(saved[role], m + 1, n)[i] = saved[role][m + i]
    <3>1. SubSeq(saved[role], m + 1, n)[i] = saved[role][(m + 1) + i - 1]
      BY <2>2, <2>3
    <3>2. (m + 1) + i - 1 = m + i
      BY <1>2, <1>3
    <3> QED BY <3>1, <3>2
  <2> QED BY <1>5, <2>4, <2>5
<1>7. Paths(role) \subseteq {saved'[role][j] : j \in 1..Len(saved'[role])} \cup doomed'
  <2> SUFFICES ASSUME NEW i \in 1..n
      PROVE  saved[role][i] \in {saved'[role][j] : j \in 1..n - m} \cup doomed'
    BY <1>1, <1>6 DEF Paths, n
  <2>1. CASE i <= m
    BY <1>1, <1>2, <1>3, <2>1
  <2>2. CASE ~(i <= m)
    <3>1. i - m \in 1..n - m /\ m + (i - m) = i
      BY <1>2, <1>3, <2>2
    <3> QED BY <1>6, <3>1
  <2> QED BY <2>1, <2>2
<1>8. OnlyKnown'
  <2> SUFFICES ASSUME NEW k \in Role PROVE Own(k)' \subseteq Known(k)'
    BY DEF OnlyKnown
  <2>1. Own(k)' = Own(k) /\ Own(k) \subseteq Known(k)
    BY <1>1 DEF Own, KInv, OnlyKnown
  <2>2. Known(k) = Paths(k)
    BY <1>1 DEF Known
  <2>3. CASE k = role
    <3>1. Known(k)' = Paths(k)' \cup doomed'
      BY <1>1, <2>3 DEF Known
    <3>2. Paths(k) \subseteq Paths(k)' \cup doomed'
      BY <1>7, <2>3 DEF Paths
    <3> QED BY <2>1, <2>2, <3>1, <3>2
  <2>4. CASE k # role
    BY <1>1, <1>5, <2>1, <2>2, <2>4 DEF Known, Paths
  <2> QED BY <2>3, <2>4
<1>9. NotYet'
  BY <1>1 DEF KInv, NotYet
<1>10. Room'
  <2>1. Keep[role] > 0 =>
          /\ Len(saved'[role]) < Keep[role] /\ Len(saved'[role]) <= Keep[role]
          /\ Len(saved'[role]) + Cardinality(doomed') <= Keep[role]
    BY <1>2, <1>3, <1>4, <1>6
  <2> QED BY <1>1, <1>4, <1>5, <2>1 DEF KInv, Room
<1> QED BY <1>1, <1>8, <1>9, <1>10, UpStep

LEMMA RegisterKnown ==
  ASSUME KInv, TypeOK', Counters', Register
  PROVE  KInv'
<1>1. /\ pc = "shards" /\ pc' \in {"rotate", "open_data"}
      /\ saved' = [saved EXCEPT ![role] = Append(@, step)]
      /\ UNCHANGED <<run, step, shard>>
  BY DEF Register, disk
<1>2. /\ role \in Role /\ saved[role] \in Seq(Steps) /\ step \in Steps /\ Keep[role] \in Nat
      /\ Len(saved[role]) \in Nat /\ saved \in [Role -> Seq(Steps)]
  BY RotationAssumption, LenProperties DEF KInv, TypeOK
<1>3. /\ saved'[role] = Append(saved[role], step)
      /\ \A k \in Role : k # role => saved'[k] = saved[k]
  BY <1>1, <1>2
<1>4. /\ Len(saved'[role]) = Len(saved[role]) + 1
      /\ \A i \in 1..Len(saved[role]) : saved'[role][i] = saved[role][i]
      /\ saved'[role][Len(saved[role]) + 1] = step
  BY <1>2, <1>3, AppendProperties
<1>5. OnlyKnown'
  <2> SUFFICES ASSUME NEW k \in Role PROVE Own(k)' \subseteq Known(k)'
    BY DEF OnlyKnown
  <2>1. Own(k)' = Own(k) /\ Own(k) \subseteq Known(k)
    BY <1>1 DEF Own, KInv, OnlyKnown
  <2>2. Known(k)' = Paths(k)'
    BY <1>1 DEF Known
  <2>3. CASE k = role
    <3>1. Known(k) = Paths(k) \cup {step}
      BY <1>1, <2>3 DEF Known
    <3>2. Paths(k) \subseteq Paths(k)'
      <4> SUFFICES ASSUME NEW i \in 1..Len(saved[role])
                   PROVE  \E j \in 1..Len(saved'[role]) : saved[role][i] = saved'[role][j]
        BY <2>3 DEF Paths
      <4>1. i \in 1..Len(saved'[role]) /\ saved[role][i] = saved'[role][i]
        BY <1>2, <1>4
      <4> QED BY <4>1
    <3>3. step \in Paths(k)'
      <4>1. Len(saved[role]) + 1 \in 1..Len(saved'[role])
        BY <1>2, <1>4
      <4> QED BY <1>4, <2>3, <4>1 DEF Paths
    <3> QED BY <2>1, <2>2, <3>1, <3>2, <3>3
  <2>4. CASE k # role
    BY <1>3, <2>1, <2>2, <2>4 DEF Known, Paths
  <2> QED BY <2>3, <2>4
<1>6. NotYet'
  BY <1>1 DEF KInv, NotYet
<1>7. Room'
  <2>1. Keep[role] > 0 => Len(saved'[role]) <= Keep[role]
    BY <1>1, <1>2, <1>4 DEF KInv, Room
  <2> QED BY <1>1, <1>3, <2>1 DEF KInv, Room
<1> QED BY <1>1, <1>5, <1>6, <1>7, UpStep

\* Removing and writing files.
LEMMA FilesKnown ==
  ASSUME KInv, TypeOK', Counters', UNCHANGED <<run, step, role, saved>>,
         \/ \E s \in Steps, r \in Ranks : RemoveShard(s, r)
         \/ \E r \in Ranks : OpenShard(r) \/ CloseShard(r)
         \/ EndRemoval
  PROVE  KInv'
<1>1. /\ run \in Nat \ {0} /\ shard \in [Role -> [Steps -> [Ranks -> Torn..MaxRuns]]]
      /\ role \in Role /\ step \in Steps /\ pc \in {"remove", "shards"}
  BY RotationAssumption, SMTT(30) DEF KInv, TypeOK, Counters, RemoveShard, OpenShard, CloseShard, EndRemoval
<1>2. CASE \E s \in Steps, r \in Ranks : RemoveShard(s, r)
  <2>1. PICK s \in Steps, r \in Ranks : RemoveShard(s, r)
    BY <1>2
  <2>2. /\ shard' = [shard EXCEPT ![role][s][r] = Absent] /\ UNCHANGED <<pc, doomed>>
    BY <2>1 DEF RemoveShard, memory
  <2>3. \A k \in Role, t \in Steps, q \in Ranks :
          shard'[k][t][q] = shard[k][t][q] \/ shard'[k][t][q] = 0
    BY <1>1, <2>2 DEF Absent
  <2>4. \A k \in Role : Own(k)' \subseteq Own(k) /\ Known(k)' = Known(k)
    BY <1>1, <2>2, <2>3 DEF Own, Known, Paths
  <2>5. OnlyKnown' /\ NotYet'
    BY <1>1, <2>2, <2>3, <2>4 DEF KInv, OnlyKnown, NotYet
  <2>6. Room'
    BY <2>2 DEF KInv, Room
  <2> QED BY <1>1, <2>2, <2>5, <2>6, UpStep
<1>3. CASE \E r \in Ranks : OpenShard(r) \/ CloseShard(r)
  <2>1. PICK r \in Ranks : OpenShard(r) \/ CloseShard(r)
    BY <1>3
  <2>2. PICK c \in {Torn, run} : shard' = [shard EXCEPT ![role][step][r] = c]
    BY <2>1 DEF OpenShard, CloseShard
  <2>3. pc = "shards" /\ UNCHANGED pc
    BY <2>1 DEF OpenShard, CloseShard
  <2>4. \A k \in Role, t \in Steps, q \in Ranks :
          \/ shard'[k][t][q] = shard[k][t][q]
          \/ k = role /\ t = step /\ shard'[k][t][q] \in {Torn, run}
    BY <1>1, <2>2
  <2>5. \A k \in Role : Known(k)' = Known(k) /\ (k = role => step \in Known(k))
    BY <2>3 DEF Known, Paths
  <2>6. OnlyKnown'
    <3> SUFFICES ASSUME NEW k \in Role, NEW t \in Steps, NEW q \in Ranks, shard'[k][t][q] = run
        PROVE  t \in Known(k)
      BY <2>5 DEF OnlyKnown, Own
    <3>1. CASE shard'[k][t][q] = shard[k][t][q]
      <4>1. t \in Own(k)
        BY <1>1, <3>1 DEF Own
      <4> QED BY <2>3, <4>1 DEF KInv, OnlyKnown
    <3>2. CASE k = role /\ t = step
      BY <2>5, <3>2
    <3> QED BY <2>4, <3>1, <3>2
  <2>7. NotYet'
    <3>1. Torn <= run /\ run <= run
      BY <1>1 DEF Torn
    <3> QED BY <2>4, <3>1 DEF KInv, NotYet
  <2>8. Room'
    BY <2>3 DEF KInv, Room
  <2> QED BY <2>3, <2>6, <2>7, <2>8, UpStep
<1>4. CASE EndRemoval
  <2>1. /\ pc = "remove" /\ pc' = "shards" /\ shard' = shard
        /\ \A s \in doomed, r \in Ranks : shard[role][s][r] = 0
    BY <1>4 DEF EndRemoval, disk, Absent
  <2>2. OnlyKnown'
    <3> SUFFICES ASSUME NEW k \in Role PROVE Own(k)' \subseteq Known(k)'
      BY DEF OnlyKnown
    <3>1. Own(k)' = Own(k) /\ Own(k) \subseteq Known(k) /\ Paths(k)' = Paths(k)
      BY <2>1 DEF Own, Paths, KInv, OnlyKnown
    <3>2. CASE k = role
      <4>1. Known(k) = Paths(k) \cup doomed
        BY <2>1, <3>2 DEF Known
      <4>2. \A s \in doomed : s \notin Own(k)
        BY <1>1, <2>1, <3>2 DEF Own
      <4> QED BY <3>1, <4>1, <4>2 DEF Known
    <3>3. CASE k # role
      BY <3>1, <3>3 DEF Known
    <3> QED BY <3>2, <3>3
  <2>3. NotYet'
    BY <2>1 DEF KInv, NotYet
  <2>4. Room'
    BY <2>1 DEF KInv, Room
  <2> QED BY <2>1, <2>2, <2>3, <2>4, UpStep
<1> QED BY <1>2, <1>3, <1>4

LEMMA KStep == KInv /\ [Next]_vars => KInv'
<1> SUFFICES ASSUME KInv, [Next]_vars PROVE KInv'
  OBVIOUS
<1>1. TypeOK' /\ Counters'
  BY TypeStep DEF KInv
<1>2. CASE Start
  <2>1. /\ pc = "down" /\ pc' \in {"initial", "failed"} /\ run' = run + 1
        /\ UNCHANGED <<saved, shard>>
    BY <1>2 DEF Start, disk
  <2>2. run \in Nat /\ shard \in [Role -> [Steps -> [Ranks -> Torn..MaxRuns]]]
    BY RotationAssumption DEF KInv, TypeOK
  <2>3. \A k \in Role, s \in Steps, r \in Ranks : shard[k][s][r] \in Int /\ shard[k][s][r] <= run
    BY <2>2, RotationAssumption DEF KInv, NotYet, Torn
  <2>4. \A k \in Role, s \in Steps, r \in Ranks : shard'[k][s][r] <= run' /\ shard'[k][s][r] # run'
    BY <2>1, <2>2, <2>3
  <2>5. OnlyKnown' /\ NotYet'
    BY <2>4 DEF OnlyKnown, NotYet, Own
  <2>6. Room'
    BY <2>1 DEF KInv, Room
  <2> QED BY <1>1, <2>1, <2>5, <2>6, UpStep
<1>3. CASE Crash
  <2>1. /\ pc' = "down" /\ saved' = [k \in Role |-> <<>>] /\ UNCHANGED <<run, shard>>
    BY <1>3 DEF Crash, disk
  <2>2. OnlyKnown' /\ NotYet' /\ OwnKeepBound'
    BY <2>1 DEF KInv, OnlyKnown, NotYet, OwnKeepBound
  <2>3. Room'
    BY <2>1, RotationAssumption DEF Room
  <2> QED BY <1>1, <2>2, <2>3 DEF KInv
<1>4. CASE Fit
  <2>1. UNCHANGED <<run, saved, shard>>
    BY <1>4, FitFrame DEF disk
  <2>2. pc \notin {"down", "remove", "shards"} /\ pc' \notin {"down", "remove", "shards"}
    BY <1>4 DEF Fit, InitialValidation, TrainStep, PeriodicSave, EnterLoop, EndStep, BeginSave,
         GoTo, TrainNext
  <2> QED BY <1>1, <2>1, <2>2, QuietKnown
<1>5. CASE Rotate
  BY <1>1, <1>5, RotateKnown
<1>6. CASE Register
  BY <1>1, <1>6, RegisterKnown
<1>7. CASE \/ \E s \in Steps, r \in Ranks : RemoveShard(s, r)
           \/ \E r \in Ranks : OpenShard(r) \/ CloseShard(r)
           \/ EndRemoval
  <2>1. UNCHANGED <<run, step, role, saved>>
    BY <1>7 DEF RemoveShard, OpenShard, CloseShard, EndRemoval, memory
  <2> QED BY <1>1, <1>7, <2>1, FilesKnown
<1>8. CASE SaveDataloader \/ SaveTrainerState \/ OpenTracker \/ CloseTracker
  <2>1. UNCHANGED <<run, saved, shard>>
    BY <1>8 DEF SaveDataloader, SaveTrainerState, WriteSide, OpenTracker, CloseTracker, memory
  <2>2. pc \notin {"down", "remove", "shards"} /\ pc' \notin {"down", "remove", "shards"}
    BY <1>8 DEF SaveDataloader, SaveTrainerState, WriteSide, OpenTracker, CloseTracker, KInv, TypeOK
  <2> QED BY <1>1, <2>1, <2>2, QuietKnown
<1>9. CASE Halt \/ UNCHANGED vars
  <2>1. UNCHANGED vars
    BY <1>9 DEF Halt
  <2>2. OnlyKnown' /\ NotYet' /\ OwnKeepBound' /\ Room'
    BY <2>1 DEF vars, memory, disk, KInv, OnlyKnown, Own, Known, Paths, NotYet, OwnKeepBound, Room
  <2> QED BY <1>1, <2>2 DEF KInv
<1> QED BY <1>2, <1>3, <1>4, <1>5, <1>6, <1>7, <1>8, <1>9 DEF Next, Save

\* Of each role no more directories of one incarnation are on disk than
\* max_ckpt_to_keep allows, whatever the schedule of saves and crashes: the rotation
\* removes before the new directory is written.
THEOREM KeepsToBound == SafeSpec => []OwnKeepBound
<1>1. KInv => OwnKeepBound
  BY DEF KInv
<1> QED BY <1>1, KInit, KStep, PTL DEF SafeSpec
===============================================================================
