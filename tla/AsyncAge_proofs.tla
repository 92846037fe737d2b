----------------------------- MODULE AsyncAge_proofs -----------------------------
(***************************************************************************)
(* How old a sample can be when it is trained on, for any number of        *)
(* samples and any configurations.  Age is counted in samples: what the    *)
(* trainer reads for one version is a quota, and a sample that is on its   *)
(* way to the trainer ages by what is read before it.                      *)
(***************************************************************************)
EXTENDS AsyncTraining_proofs

-----------------------------------------------------------------------------
\* The inductive invariant.

\* The samples of one version, and how many of them the trainer has read.
Quota == conf.required * conf.triggerStep
ReadNow == (local - 1) * conf.required + Len(batch)

\* Neither the end signal has been read, nor a last synchronisation begun.
Streaming == ~final /\ tpc # "done"

Filling ==
  /\ ReadNow <= Quota
  /\ Syncing => local = 1
  /\ tpc = "train" => Len(batch) = conf.required

\* The samples read since the rollouter's version was the trainer's.
Updating == at["update"] \in {"sent", "called", "start"}
Spent == (IF Syncing THEN Quota ELSE 0) + (IF Updating THEN Quota ELSE 0) + ReadNow

\* What is in flight and what has been read, together: a quota may be read before the
\* synchronisation that ends a version reaches the rollouter.
Spending ==
  /\ Flight + Spent <= staleness + Quota + 2
  /\ at["update"] = "assign" => Flight + Spent <= counted + In(hand # 0) + Quota + 1
  /\ Flight + Spent <= conf.maxRequired + Quota + 2
  /\ at["proc"] = "get" => Flight + Spent <= conf.maxRequired + Quota + 1

\* From the end of pause()'s wait to the new version no generation is older than the rollouter;
\* otherwise it can be by one version.
Swapping == at["pause"] \in {"reset", "returned"} \/ tpc = "weights" \/ Updating
Dated ==
  /\ stamp \in [Samples -> Nat]
  /\ \A s \in Samples :
       /\ stamp[s] <= rversion
       /\ gen[s] \notin {"none", "created"} => rversion <= stamp[s] + In(~Swapping)

\* A sample's age when it is read is known when it enters the result queue.  The finish signal
\* is not read before it, but can be pushed out.
Old(s) == (version - stamp[s]) * Quota
Limit == 2 * Quota + conf.maxRequired + 1
Behind(i) == In(\E k \in 1..(i - 1) : queue[k] = Finish)
Aging ==
  /\ \A i \in 1..Len(batch) : Old(batch[i]) <= Limit
  /\ \A i \in 1..Len(queue) : queue[i] # Finish => Old(queue[i]) + ReadNow + i <= Limit + 1 + Behind(i)
  /\ \A s \in transit \cap Samples : Old(s) + ReadNow + Len(queue) <= Limit + In(Has(queue, Finish))
  /\ ~Sent => \A i \in 1..Len(resultq) :
       Old(resultq[i]) + ReadNow + Len(queue) + In(transit # {}) + i <= Limit + 1

AgeInv == Inv /\ Dated /\ (Streaming => Filling /\ Spending /\ Aging)

-----------------------------------------------------------------------------
\* Arithmetic.

LEMMA Product == \A a, b \in Int : a * b \in Int /\ (a + 1) * b = a * b + b
  OBVIOUS

LEMMA ProductNat == \A a, b \in Nat : a * b \in Nat
  OBVIOUS

LEMMA AgeLimit ==
  ASSUME NEW a \in Int, NEW q \in Nat \ {0}, NEW m \in Nat, a * q <= 2 * q + m
  PROVE  a <= (m \div q) + 2
<1>1. m \div q \in Int /\ m < ((m \div q) + 1) * q
  OBVIOUS
<1>2. PICK d \in Int : d = m \div q
  BY <1>1
<1>3. a * q < (d + 3) * q
  BY <1>1, <1>2
<1>4. a < d + 3
  BY <1>3
<1> QED BY <1>2, <1>4

\* The types of the terms, and what the products are before and after.
LEMMA QuotaType ==
  ASSUME Stored, Training
  PROVE  /\ Quota \in Nat \ {0} /\ ReadNow \in Nat /\ Spent \in Nat /\ conf.maxRequired \in Nat
         /\ Limit \in Nat /\ Len(batch) \in Nat /\ Len(queue) \in Nat /\ version \in Nat
         /\ conf.required \in Nat \ {0}
<1>1. /\ conf.required \in Nat \ {0} /\ conf.triggerStep \in Nat \ {0} /\ conf.maxRequired \in Nat
      /\ local - 1 \in Nat /\ version \in Nat
  BY ConfType DEF Training
<1>2. Len(batch) \in Nat /\ Len(queue) \in Nat
  BY LenProperties DEF Stored
<1>3. conf.required * conf.triggerStep \in Nat \ {0}
  BY <1>1
<1>4. (local - 1) * conf.required \in Nat
  BY <1>1, ProductNat
<1>5. Quota \in Nat \ {0} /\ ReadNow \in Nat
  BY <1>2, <1>3, <1>4 DEF Quota, ReadNow
<1> HIDE DEF Quota, ReadNow
<1>6. Spent \in Nat
  BY <1>5 DEF Spent
<1> QED BY <1>1, <1>2, <1>5, <1>6 DEF Limit

-----------------------------------------------------------------------------
\* Reading and training.

\* Streaming is over for good.
LEMMA StreamingBefore ==
  ASSUME Training, [Next]_vars, Streaming'
  PROVE  Streaming /\ ~CollectEnd
<1>1. CASE UNCHANGED trainerVars
  BY <1>1 DEF Streaming, trainerVars, CollectEnd, StartSync, Training
<1>2. CASE Trainer
  <2>1. tpc # "done"
    BY <1>2 DEF Trainer, Collect, CollectEnd, Train, SyncPauses, PauseReturns, SyncSends, ReadValidation
  <2>2. final => final'
    BY <1>2 DEF Trainer, Collect, CollectEnd, Train, SyncPauses, PauseReturns, SyncSends,
      ReadValidation, CallFrame
  <2>3. ~CollectEnd
    BY DEF CollectEnd, StartSync, Streaming
  <2> QED BY <2>1, <2>2, <2>3 DEF Streaming, Training
<1> QED BY <1>1, <1>2, NotTrainer

LEMMA ReadStep ==
  ASSUME LInv, Stored, Training, Streaming, Filling, [Next]_vars, Streaming'
  PROVE  /\ Filling' /\ Quota' = Quota /\ Limit' = Limit /\ ReadNow' \in Nat
         /\ Collect => ReadNow' = ReadNow + 1 /\ version' = version /\ Len(batch') = Len(batch) + 1
         /\ ~Collect => \/ version' = version /\ ReadNow' = ReadNow /\ (batch' = batch \/ batch' = <<>>)
                        \/ version' = version + 1 /\ ReadNow = ReadNow' + Quota /\ batch' = <<>>
<1>0. /\ conf' = conf /\ conf.required \in Nat \ {0} /\ conf.triggerStep \in Nat \ {0}
      /\ batch \in Seq(Samples) /\ Len(batch) \in Nat /\ Len(<<>>) = 0 /\ ~CollectEnd
      /\ local \in 1..conf.triggerStep /\ Len(batch) <= conf.required
  BY DataStep, ConfType, LenProperties, StreamingBefore DEF DataFrames, Stored, Training
<1>1. Quota' = Quota /\ Limit' = Limit /\ Quota \in Nat /\ ReadNow \in Nat
  BY <1>0, QuotaType DEF Quota, Limit
<1>2. CASE UNCHANGED <<local, batch, version, tpc>>
  <2>1. ReadNow' = ReadNow
    BY <1>0, <1>2 DEF ReadNow
  <2>2. Filling'
    BY <1>0, <1>1, <1>2, <2>1 DEF Filling, Syncing
  <2>3. ~Collect
    <3>1. Collect => Len(batch') = Len(batch) + 1
      BY <1>0, AppendProperties DEF Collect
    <3> QED BY <1>0, <1>2, <3>1
  <2> QED BY <1>1, <1>2, <2>1, <2>2, <2>3
<1>3. CASE Collect
  <2>1. /\ tpc = "collect" /\ UNCHANGED <<local, version>>
        /\ \E s \in Samples : batch' = Append(batch, s)
        /\ tpc' = IF Len(batch') = conf.required THEN "train" ELSE "collect"
    BY <1>3 DEF Collect
  <2>2. Len(batch') = Len(batch) + 1 /\ Len(batch) < conf.required
    BY <1>0, <2>1, AppendProperties DEF Training
  <2>3. ReadNow' = ReadNow + 1
    <3>1. (local - 1) * conf.required \in Int
      BY <1>0, Product
    <3> QED BY <1>0, <2>1, <2>2, <3>1 DEF ReadNow
  <2>4. ReadNow + 1 <= Quota
    <3>1. (local - 1) * conf.required + conf.required <= Quota
      <4>1. local <= conf.triggerStep /\ local \in Nat
        BY <1>0
      <4>2. (local - 1) * conf.required + conf.required = local * conf.required
        BY <1>0, <4>1, Product
      <4>3. local * conf.required <= conf.required * conf.triggerStep
        BY <1>0, <4>1
      <4> QED BY <4>2, <4>3 DEF Quota
    <3>2. PICK a \in Int : a = (local - 1) * conf.required
      BY <1>0, Product
    <3>3. a + conf.required <= Quota /\ ReadNow = a + Len(batch)
      BY <3>1, <3>2 DEF ReadNow
    <3> QED BY <1>0, <1>1, <2>2, <3>2, <3>3
  <2>5. ~Syncing'
    BY <2>1 DEF Syncing
  <2> QED BY <1>0, <1>1, <1>3, <2>1, <2>2, <2>3, <2>4, <2>5 DEF Filling
<1>4. CASE Train
  <2>1. /\ tpc = "train" /\ batch' = <<>>
        /\ \/ local < conf.triggerStep /\ local' = local + 1 /\ tpc' = "getval" /\ UNCHANGED version
           \/ ~(local < conf.triggerStep) /\ version' = version + 1 /\ local' = 1 /\ tpc' = "wait_last"
    BY <1>4 DEF Train, StartSync
  <2>2. ~Collect
    BY <2>1 DEF Collect
  <2>3. Len(batch) = conf.required /\ (local - 1) * conf.required \in Int
    BY <1>0, <2>1, Product DEF Filling
  <2>4. ReadNow = local * conf.required
    <3>1. (local - 1) * conf.required + conf.required = local * conf.required
      <4>1. local - 1 \in Int /\ (local - 1) + 1 = local
        BY <1>0
      <4> QED BY <1>0, <4>1, Product
    <3> QED BY <2>3, <3>1 DEF ReadNow
  <2>5. CASE local' = local + 1
    <3>1. tpc' = "getval" /\ version' = version
      BY <1>0, <2>1, <2>5
    <3>2. ReadNow' = local * conf.required
      <4>1. local' - 1 = local /\ Len(batch') = 0 /\ local * conf.required \in Int
        BY <1>0, <2>1, <2>5, Product
      <4> QED BY <1>0, <4>1 DEF ReadNow
    <3>3. ReadNow' = ReadNow
      BY <2>4, <3>2
    <3>4. Filling'
      BY <1>1, <3>1, <3>3 DEF Filling, Syncing
    <3> QED BY <1>1, <2>1, <2>2, <3>1, <3>3, <3>4
  <2>6. CASE local' # local + 1
    <3>1. local = conf.triggerStep /\ local' = 1 /\ version' = version + 1 /\ tpc' = "wait_last"
      BY <1>0, <2>1, <2>6
    <3>2. ReadNow = Quota
      BY <1>0, <2>4, <3>1 DEF Quota
    <3>3. ReadNow' = 0
      <4>1. local' - 1 = 0 /\ Len(batch') = 0 /\ 0 * conf.required = 0
        BY <1>0, <2>1, <3>1
      <4> QED BY <1>0, <4>1 DEF ReadNow
    <3>4. Filling'
      BY <1>1, <3>1, <3>3 DEF Filling
    <3> QED BY <1>1, <2>1, <2>2, <3>1, <3>2, <3>3, <3>4
  <2> QED BY <2>5, <2>6
<1>5. CASE SyncPauses \/ PauseReturns \/ SyncSends \/ ReadValidation
  <2>1. /\ UNCHANGED <<local, batch, version>>
        /\ tpc \in {"wait_last", "pausing", "weights", "getval", "final"}
        /\ tpc' \in {"pausing", "weights", "final", "getval", "collect", "done"}
        /\ Syncing' => Syncing
    BY <1>5 DEF SyncPauses, PauseReturns, SyncSends, ReadValidation, CallFrame, Syncing
  <2>2. ReadNow' = ReadNow
    BY <1>0, <2>1 DEF ReadNow
  <2>3. Filling'
    BY <1>0, <1>1, <2>1, <2>2 DEF Filling
  <2>4. ~Collect
    BY <2>1 DEF Collect
  <2> QED BY <1>1, <2>1, <2>2, <2>3, <2>4
<1>6. UNCHANGED trainerVars => UNCHANGED <<local, batch, version, tpc>>
  BY DEF trainerVars
<1> QED BY <1>0, <1>2, <1>3, <1>4, <1>5, <1>6, NotTrainer DEF Trainer

\* How the two synchronisation terms and the reading of a version take turns.
LEMMA SpentStep ==
  ASSUME LInv, Stored, Training, Streaming, Filling, [Next]_vars, Streaming'
  PROVE  /\ Collect => Spent' = Spent + 1
         /\ UpdateStart(call.version) => Spent' = Spent - Quota
         /\ ~Collect /\ ~UpdateStart(call.version) => Spent' = Spent
<1>0. /\ DOMAIN at = Coroutines /\ "update" \in Coroutines /\ Points
      /\ Quota \in Nat /\ ReadNow \in Nat /\ Quota' = Quota /\ ~CollectEnd /\ ReadNow <= Quota
  BY QuotaType, ReadStep, StreamingBefore DEF LInv, Scheduling, Points, Coroutines, Filling
<1>1. CASE Collect
  <2>1. tpc = "collect" /\ tpc' \in {"train", "collect"} /\ UNCHANGED at
    BY <1>1 DEF Collect, rVars, sched
  <2>2. Syncing' = Syncing /\ Updating' = Updating /\ ~UpdateStart(call.version)
    BY <1>0, <2>1 DEF Syncing, Updating, UpdateStart, RunningAt, RunningIn, Go
  <2> QED BY <1>0, <1>1, <2>2, ReadStep DEF Spent
<1>2. CASE Train
  <2>1. tpc = "train" /\ tpc' \in {"getval", "wait_last"}
    BY <1>2 DEF Train, StartSync, rVars, sched
  <2>2. CASE tpc' = "getval"
    <3>1. /\ ~Syncing /\ ~Syncing' /\ UNCHANGED at /\ ~Collect
          /\ version' = version
      BY <1>2, <2>1, <2>2 DEF Syncing, Train, StartSync, rVars, sched, Collect
    <3>2. ReadNow' = ReadNow
      BY <3>1, ReadStep, QuotaType, SMTT(30) DEF Training
    <3>3. Updating' = Updating /\ ~UpdateStart(call.version)
      BY <1>0, <3>1 DEF Updating, UpdateStart, RunningAt, RunningIn, Go
    <3> QED BY <1>0, <3>1, <3>2, <3>3 DEF Spent
  <2>3. CASE tpc' # "getval"
    <3>1. /\ ~Syncing /\ Syncing' /\ UNCHANGED at /\ ~Collect /\ version' = version + 1
      BY <1>2, <2>1, <2>3 DEF Syncing, Train, StartSync, rVars, sched, Collect
    <3>2. ReadNow = ReadNow' + Quota
      <4>1. version' # version
        BY <3>1 DEF Training
      <4> QED BY <3>1, <4>1, ReadStep
    <3>3. Updating' = Updating /\ ~UpdateStart(call.version) /\ ReadNow' \in Nat
      BY <1>0, <3>1, ReadStep DEF Updating, UpdateStart, RunningAt, RunningIn, Go
    <3>4. Spent' = Spent
      <4>1. CASE Updating
        <5>1. Spent' = Quota + Quota + ReadNow'
          BY <1>0, <3>1, <3>3, <4>1 DEF Spent
        <5>2. Spent = 0 + Quota + ReadNow
          BY <3>1, <4>1 DEF Spent
        <5> QED BY <1>0, <3>2, <3>3, <5>1, <5>2
      <4>2. CASE ~Updating
        <5>1. Spent' = Quota + 0 + ReadNow'
          BY <1>0, <3>1, <3>3, <4>2 DEF Spent
        <5>2. Spent = 0 + 0 + ReadNow
          BY <3>1, <4>2 DEF Spent
        <5> QED BY <1>0, <3>2, <3>3, <5>1, <5>2
      <4> QED BY <4>1, <4>2
    <3> QED BY <3>1, <3>3, <3>4
  <2> QED BY <2>2, <2>3
<1>3. CASE SyncPauses \/ PauseReturns \/ ReadValidation
  <2>1. /\ Syncing' = Syncing /\ at'["update"] = at["update"] /\ ~Collect
        /\ UNCHANGED <<local, batch, conf>>
    BY <1>0, <1>3 DEF SyncPauses, PauseReturns, ReadValidation, CallFrame, Syncing, Go, Collect,
      rVars, sched
  <2>2. ReadNow' = ReadNow
    BY <2>1 DEF ReadNow
  <2>3. Updating' = Updating /\ ~UpdateStart(call.version)
    BY <1>0, <2>1 DEF Updating, UpdateStart, RunningAt, RunningIn, Go
  <2> QED BY <1>0, <2>1, <2>2, <2>3 DEF Spent
<1>4. CASE SyncSends
  <2>1. /\ Syncing /\ ~Syncing' /\ at["update"] = "off" /\ at'["update"] = "sent" /\ ~Collect
        /\ UNCHANGED <<local, batch, conf>>
    BY <1>0, <1>4 DEF SyncSends, CallFrame, Syncing, Collect, Points, Streaming
  <2>2. ReadNow' = ReadNow
    BY <2>1 DEF ReadNow
  <2>3. ~Updating /\ Updating' /\ ~UpdateStart(call.version)
    BY <1>0, <2>1 DEF Updating, UpdateStart, RunningAt, RunningIn, Go
  <2> QED BY <1>0, <2>1, <2>2, <2>3 DEF Spent
<1>5. CASE UNCHANGED trainerVars
  <2>1. /\ Syncing' = Syncing /\ UNCHANGED <<local, batch>> /\ conf' = conf /\ version' = version
    BY <1>5, DataStep DEF Syncing, trainerVars, DataFrames
  <2>2. ReadNow' = ReadNow
    BY <2>1 DEF ReadNow
  <2>3. ~Collect
    <3>1. Collect => Len(batch') = Len(batch) + 1 /\ Len(batch) \in Nat
      BY QuotaType, AppendProperties DEF Collect, Stored
    <3> QED BY <2>1, <3>1
  <2>4. CASE UpdateStart(call.version)
    <3>1. at["update"] = "start" /\ at'["update"] = "size"
      BY <1>0, <2>4 DEF UpdateStart, RunningAt, RunningIn, Go
    <3>2. Updating /\ ~Updating'
      BY <3>1 DEF Updating
    <3>4. Spent' = (IF Syncing THEN Quota ELSE 0) + ReadNow
      BY <1>0, <2>1, <2>2, <3>2 DEF Spent
    <3>5. Spent = (IF Syncing THEN Quota ELSE 0) + Quota + ReadNow
      BY <3>2 DEF Spent
    <3> QED BY <1>0, <2>3, <2>4, <3>4, <3>5
  <2>5. CASE ~UpdateStart(call.version)
    <3>1. Updating' = Updating
      <4>1. /\ UpdateAssign => at["update"] = "assign" /\ at'["update"] = "validate"
            /\ SizeRuns => at["update"] = "size" /\ at'["update"] = "assign"
            /\ ValidateRuns(call.validate) => at["update"] = "validate" /\ at'["update"] = "put"
            /\ UpdateArrives => at["update"] = "sent" /\ at'["update"] = "called"
        BY <1>0 DEF UpdateAssign, SizeRuns, ValidateRuns, UpdateArrives, Wakes, RunningAt, RunningIn, Go
      <4>2. UpdateCalled => at["update"] = "called" /\ at'["update"] = "start"
        BY <1>0 DEF UpdateCalled, Enters, RunningAt, RunningIn, Acquire, Go
      <4>3. UpdateEnd => at["update"] = "put" /\ at'["update"] = "off"
        BY <1>0 DEF UpdateEnd, RunningAt, RunningIn, Go
      <4>4. ~SyncSends
        <5>1. SyncSends => tpc = "weights" /\ tpc' # "weights"
          BY DEF SyncSends
        <5> QED BY <1>5, <5>1 DEF trainerVars
      <4> QED BY <2>5, <4>1, <4>2, <4>3, <4>4, <1>0, PointStep DEF PointFrames, Updating, Update
    <3> QED BY <1>0, <2>1, <2>2, <2>3, <2>5, <3>1 DEF Spent
  <2> QED BY <2>4, <2>5
<1> QED BY <1>0, <1>1, <1>2, <1>3, <1>4, <1>5, NotTrainer DEF Trainer

\* While the rollouter has the trainer's version, or the one before, a quota at most is spent.
LEMMA SpentBound ==
  ASSUME Stored, Training, Streaming, Filling, ~Updating
  PROVE  Spent <= Quota
<1>1. Quota \in Nat /\ ReadNow \in Nat /\ ReadNow <= Quota
  BY QuotaType DEF Filling
<1>2. Syncing => ReadNow = 0
  <2>1. Syncing => local = 1 /\ Len(batch) = 0
    BY DEF Filling, Training, Streaming
  <2>2. Syncing => (local - 1) * conf.required = 0
    BY <2>1, ConfType
  <2> QED BY <2>1, <2>2 DEF ReadNow
<1>3. Spent = (IF Syncing THEN Quota ELSE 0) + ReadNow
  BY <1>1 DEF Spent
<1> QED BY <1>1, <1>2, <1>3

-----------------------------------------------------------------------------
\* What is in flight and what has been read.

\* A sample that is read leaves the flight.
LEMMA CollectFlight ==
  ASSUME LInv, Hand, Stored, Conserved, Training, [Next]_vars, Collect
  PROVE  Flight' <= Flight - 1
<1>0. /\ TaskList /\ taken \in Nat /\ queue \in Seq(Samples \cup {Finish}) /\ batch \in Seq(Samples)
  BY DEF LInv, Scheduling, Feeding, Stored
<1>1. PICK s \in Samples : queue # <<>> /\ s = Head(queue) /\ batch' = Append(batch, s)
  BY DEF Collect, GetSample
<1>2. Has(queue, s)
  <2>1. Len(queue) \in Nat \ {0} /\ s = queue[1]
    BY <1>0, <1>1, EmptySeq, HeadTailProperties
  <2> QED BY <2>1 DEF Has
<1>3. s \in InFlight
  BY <1>0, <1>2, FlightPlaces
<1>4. s \notin InFlight'
  <2>1. Append(batch, s) \in Seq(Samples) /\ Has(Append(batch, s), s)
    BY <1>0, AppendProperties DEF Has
  <2>2. s \in ToSet(batch')
    BY <1>1, <2>1, InSet
  <2> QED BY <2>2 DEF InFlight
<1>5. InFlight' \subseteq InFlight
  <2>1. UNCHANGED at /\ tpc = "collect" /\ taken' = taken
    BY DEF Collect, rVars, sched, picking
  <2>2. ~(ProcGet /\ taken + 1 \in Samples)
    BY <1>0, <2>1 DEF ProcGet
  <2> QED BY <2>2, FlightStep
<1>6. InFlight' \in SUBSET (InFlight \ {s})
  BY <1>4, <1>5
<1>7. IsFiniteSet(InFlight \ {s}) /\ Cardinality(InFlight \ {s}) = Flight - 1
  BY <1>3, FlightType, FS_RemoveElement DEF Flight
<1>8. Cardinality(InFlight') <= Flight - 1
  BY <1>6, <1>7, FS_Subset
<1> QED BY <1>8 DEF Flight

LEMMA SpendingStep ==
  ASSUME LInv, Hand, Stored, Conserved, Training, Covered, Streaming, Filling, Spending,
         [Next]_vars, Streaming'
  PROVE  Spending'
<1>0. /\ DOMAIN at = Coroutines /\ {"proc", "update"} \subseteq Coroutines
      /\ conf' = conf /\ Quota' = Quota /\ conf.maxRequired \in Nat /\ Flight \in Nat /\ Flight' \in Nat
      /\ Spent \in Nat /\ Quota \in Nat /\ ReadNow' \in Nat
      /\ staleness \in Nat /\ counted \in Nat /\ In(hand # 0) \in {0, 1} /\ In(hand' # 0) \in {0, 1}
  BY FlightType, FlightStep, ConfType, DataStep, QuotaType, ReadStep
     DEF LInv, Scheduling, Points, Coroutines, Covered, DataFrames, In
<1>1. Spent' \in Nat
  <2>1. PICK a \in Nat : a = IF Syncing' THEN Quota ELSE 0
    BY <1>0
  <2>2. PICK b \in Nat : b = IF Updating' THEN Quota ELSE 0
    BY <1>0
  <2>3. PICK r \in Nat : r = ReadNow'
    BY <1>0
  <2>4. Spent' = a + b + r
    BY <1>0, <2>1, <2>2, <2>3 DEF Spent
  <2> QED BY <2>4
<1>2. PICK f \in Nat, f1 \in Nat, p \in Nat, p1 \in Nat, q \in Nat, max \in Nat, h \in {0, 1}, h1 \in {0, 1} :
       /\ f = Flight /\ f1 = Flight' /\ p = Spent /\ p1 = Spent' /\ q = Quota
       /\ max = conf.maxRequired /\ h = In(hand # 0) /\ h1 = In(hand' # 0)
  BY <1>0, <1>1
<1>3. staleness \in Nat /\ counted \in Nat
  BY <1>0
<1>4. /\ f + p <= staleness + q + 2
      /\ at["update"] = "assign" => f + p <= counted + h + q + 1
      /\ f + p <= max + q + 2
      /\ at["proc"] = "get" => f + p <= max + q + 1
  BY <1>2 DEF Spending
<1>5. /\ Collect => p1 = p + 1 /\ f1 <= f - 1
      /\ UpdateStart(call.version) => p1 = p - q
      /\ ~Collect /\ ~UpdateStart(call.version) => p1 = p
  BY <1>2, SpentStep, CollectFlight
<1>6. ASSUME f1 + p1 <= staleness' + q + 2,
             at'["update"] = "assign" => f1 + p1 <= counted' + h1 + q + 1,
             f1 + p1 <= max + q + 2,
             at'["proc"] = "get" => f1 + p1 <= max + q + 1
      PROVE  Spending'
  BY <1>0, <1>6, <1>2 DEF Spending
<1>7. /\ staleness' \in Nat /\ counted' \in Nat
      /\ at'["update"] = "assign" => f1 <= counted' + h1 + 1
  BY <1>2, CoveredStep DEF Covered
<1>8. /\ at["update"] = "assign" /\ ~ProcGet => h <= h1
  BY <1>2, HandWhileCounting DEF In, Counting
<1>9. CASE ProcGet
  <2>1. /\ staleness' = staleness + 1 /\ counted' = counted /\ hand = 0 /\ at["proc"] = "get"
        /\ at'["update"] = at["update"] /\ at'["proc"] = "loop"
        /\ hand' = IF taken + 1 \in Samples THEN taken + 1 ELSE hand
    BY <1>0, <1>9 DEF ProcGet, RunningAt, RunningIn, Hand
  <2>2. f1 <= f + 1 /\ (taken + 1 \notin Samples => f1 <= f)
    BY <1>0, <1>2, FlightStep
  <2>3. p1 = p
    <3>1. ~UpdateStart(call.version)
      BY <1>9, RollouterAssumption DEF ProcGet, UpdateStart, RunningAt, RunningIn, Running
    <3>2. ~Collect
      BY <1>0, <2>1 DEF Collect, rVars, sched
    <3> QED BY <1>5, <3>1, <3>2
  <2>4. h = 0 /\ (taken + 1 \in Samples => h1 = 1)
    BY <1>2, <2>1, RollouterAssumption DEF In, Samples
  <2>5. f1 <= f + h1
    BY <1>2, <2>2, <2>4
  <2>6. f1 + p1 <= staleness' + q + 2 /\ f1 + p1 <= max + q + 2
    BY <1>3, <1>4, <2>1, <2>2, <2>3
  <2>7. at'["update"] = "assign" => f1 + p1 <= counted' + h1 + q + 1
    BY <1>3, <1>4, <2>1, <2>3, <2>4, <2>5
  <2> QED BY <1>6, <2>1, <2>6, <2>7
<1>10. CASE ~ProcGet
  <2>1. f1 <= f
    BY <1>10, <1>2, FlightStep
  <2>2. f1 + p1 <= f + p
    BY <1>3, <1>5, <2>1
  <2>3. f1 + p1 <= staleness' + q + 2
    <3>1. CASE staleness' = staleness
      BY <1>3, <1>4, <2>2, <3>1
    <3>2. CASE UpdateAssign
      <4>1. staleness' = counted /\ at["update"] = "assign"
        BY <3>2 DEF UpdateAssign, RunningAt, RunningIn
      <4>2. f + p <= counted + h + q + 1
        BY <1>4, <4>1
      <4> QED BY <1>3, <2>2, <4>1, <4>2
    <3>3. UpdateStart(call.version) => staleness' = staleness
      BY DEF UpdateStart
    <3> QED BY <1>10, <3>1, <3>2, <3>3, DataStep DEF DataFrames, Update
  <2>4. ASSUME at'["update"] = "assign" PROVE f1 + p1 <= counted' + h1 + q + 1
    <3>1. CASE SizeRuns
      <4>1. at["update"] = "size"
        BY <1>0, <3>1 DEF SizeRuns, Go
      <4>2. ~Collect /\ ~UpdateStart(call.version)
        BY <1>0, <2>4, <4>1 DEF Collect, UpdateStart, RunningAt, RunningIn, rVars, sched
      <4>3. p <= q
        BY <1>2, <4>1, SpentBound DEF Updating
      <4>4. p1 = p /\ f1 <= counted' + h1 + 1
        BY <1>5, <1>7, <2>4, <4>2
      <4> QED BY <1>2, <1>7, <4>3, <4>4
    <3>2. CASE ~SizeRuns
      <4>1. at["update"] = "assign"
        BY <2>4, <3>2, CountingStep DEF LInv, Scheduling
      <4>2. counted' = counted
        <5>1. ~Update
          BY <2>4, <4>1, CountingStep DEF LInv, Scheduling, Update
        <5> QED BY <3>2, <5>1, DataStep DEF DataFrames
      <4>3. f + p <= counted + h + q + 1 /\ h <= h1
        BY <1>4, <1>8, <1>10, <4>1
      <4> QED BY <1>3, <2>2, <4>2, <4>3
    <3> QED BY <3>1, <3>2
  <2>5. f1 + p1 <= max + q + 2
    BY <1>3, <1>4, <2>2
  <2>6. ASSUME at'["proc"] = "get" PROVE f1 + p1 <= max + q + 1
    <3>1. CASE ProcTop
      <4>1. staleness < max
        BY <1>0, <1>2, <2>6, <3>1 DEF ProcTop, RunningAt, RunningIn, Acquire, Go, ShouldPause
      <4> QED BY <1>3, <1>4, <2>2, <4>1
    <3>2. CASE ~ProcTop
      <4>1. at["proc"] = "get"
        <5>1. Processor => at'["proc"] # "get"
          BY <1>0, <1>10, <3>2 DEF Processor, ProcMark, ProcLoop, ProcDrain, ProcCollect,
            ProcSleep, ProcNotified, ProcSubmit, ProcStops, CreateTask, Acquire, Go
        <5> QED BY <1>0, <2>6, <5>1, PointStep DEF PointFrames
      <4> QED BY <1>3, <1>4, <2>2, <4>1
    <3> QED BY <3>1, <3>2
  <2> QED BY <1>6, <2>3, <2>4, <2>5, <2>6
<1> QED BY <1>9, <1>10

-----------------------------------------------------------------------------
\* The versions of the generations.

LEMMA StampStep ==
  ASSUME [Next]_vars
  PROVE  stamp' = stamp \/ TaskBegin
<1> USE DEF tasks
<1>1. CASE EventLoop /\ UNCHANGED trainerVars
  <2>1. CASE Feed \/ Processor
    BY <2>1 DEF Feed, Processor, ProcTop, ProcGet, ProcMark, ProcLoop, ProcDrain, ProcCollect, ProcSleep,
      ProcNotified, ProcSubmit
  <2>2. CASE TaskBegin \/ TaskEnd
    BY <2>2 DEF TaskEnd
  <2>3. CASE Stream
    BY <2>3 DEF Stream, ConsumerPuts, ConsumerIdles, MainJoins, MainFinishes, MainLocks, MainEnds
  <2>4. CASE Calls
    BY <2>4 DEF Calls, MonitorLooks, MonitorUnpauses, MonitorLocks, MonitorSleeps, PauseCalled, PauseStart,
      PauseTasks, PauseGathered, PauseEnd, UpdateCalled, UpdateAssign, UpdateEnd, ResumeCalled, ResumeUnpauses,
      ResumeEnd, Enters
  <2> QED BY <1>1, <2>1, <2>2, <2>3, <2>4 DEF EventLoop
<1>2. CASE Update
  BY <1>2 DEF Update, UpdateStart, UpdateAssign
<1>3. CASE Answers \/ Timer \/ Actor
  BY <1>3 DEF Answers, Timer, PutAnswered, FinishAnswered, CancelAnswered, ResetAnswered, SizeAnswered,
    ValidateAnswered, ServerResumed, UpdateArrives, ResumeArrives, Wakes, Actor, PutRuns, SizeRuns,
    ValidateRuns, ActorFrame
<1>4. CASE Server
  BY <1>4 DEF Server, ServerStarts, ServerFinishes, ServerCancels, ServerRaises, ServerAnswers, ServerFrame
<1>5. CASE Trainer
  BY <1>5 DEF Trainer, Collect, CollectEnd, Train, SyncPauses, PauseReturns, SyncSends,
    ReadValidation, CallFrame, rVars
<1>6. CASE UNCHANGED vars
  BY <1>6 DEF vars, rVars
<1> QED BY <1>1, <1>2, <1>3, <1>4, <1>5, <1>6 DEF Next, Loop, Outside, Over, Update

\* A task that has sent its request has been stamped.
LEMMA GenStep ==
  ASSUME TaskList, [Next]_vars, NEW s \in Samples, gen'[s] \notin {"none", "created"}
  PROVE  gen[s] \notin {"none", "created"} \/ (TaskBegin /\ Head(due) = s)
<1>0. gen \in [Samples -> {"none", "sent", "decoding"} \cup Asks]
  BY DEF TaskList
<1>1. CASE ProcSubmit
  <2>1. gen' = gen \/ gen' = [gen EXCEPT ![hand] = "created"]
    BY <1>1 DEF ProcSubmit, CreateTask
  <2> QED BY <1>0, <2>1
<1>2. CASE TaskBegin
  <2>1. gen' = [gen EXCEPT ![Head(due)] = "sent"]
    BY <1>2 DEF TaskBegin
  <2> QED BY <1>0, <1>2, <2>1
<1>3. CASE TaskEnd
  <2>1. gen' = [gen EXCEPT ![Head(due)] = "none"]
    BY <1>3 DEF TaskEnd
  <2> QED BY <1>0, <2>1
<1>4. CASE Server
  <2>1. PICK t \in Samples : ServerStarts(t) \/ ServerFinishes(t) \/ ServerCancels(t) \/ ServerRaises(t)
    BY <1>4 DEF Server
  <2>2. gen[t] \in {"sent", "decoding"} /\ \E answer : gen' = [gen EXCEPT ![t] = answer]
    BY <2>1 DEF ServerStarts, ServerFinishes, ServerCancels, ServerRaises, ServerAnswers
  <2> QED BY <1>0, <2>2
<1>5. CASE ~(ProcSubmit \/ TaskBegin \/ TaskEnd \/ Server)
  BY <1>5, DataStep DEF DataFrames
<1> QED BY <1>1, <1>2, <1>3, <1>4, <1>5

\* A synchronisation ends its wait when no task is busy, and the update ends the swap.
LEMMA SwappingStep ==
  ASSUME LInv, Training, [Next]_vars
  PROVE  /\ Swapping' => Swapping \/ Busy = {}
         /\ rversion' = rversion \/ (rversion' = rversion + 1 /\ Swapping /\ ~Swapping')
<1>0. /\ Order /\ Locking /\ Points /\ Runnable /\ DOMAIN at = Coroutines
      /\ "update" \in Coroutines /\ "pause" \in Coroutines
  BY DEF LInv, Scheduling, Points, Coroutines
<1>1. Swapping' => Swapping \/ Busy = {}
  <2>1. CASE at'["pause"] \in {"reset", "returned"}
    <3>1. PauseGathered => Busy = {}
      <4>1. PauseGathered => "pause" \in Runs /\ at["pause"] = "gather"
        BY <1>0, RunningIs DEF PauseGathered, RunningAt, RunningIn
      <4> QED BY <1>0, <4>1 DEF Runnable, CallsRun
    <3> QED BY <1>0, <2>1, <3>1, PauseWay DEF Swapping
  <2>2. CASE tpc' = "weights"
    <3>1. tpc = "weights" \/ PauseReturns
      BY <2>2, NotTrainer DEF Trainer, trainerVars, Collect, CollectEnd, StartSync, Train, SyncPauses,
        SyncSends, ReadValidation
    <3> QED BY <3>1 DEF Swapping, PauseReturns
  <2>3. CASE at'["update"] \in {"sent", "called", "start"}
    <3>1. /\ Update => at'["update"] \in {"size", "validate"}
          /\ SizeRuns => at'["update"] = "assign"
          /\ ValidateRuns(call.validate) => at'["update"] = "put"
          /\ UpdateEnd => at'["update"] = "off"
          /\ UpdateCalled => at["update"] = "called"
          /\ UpdateArrives => at["update"] = "sent"
          /\ SyncSends => tpc = "weights"
      BY <1>0 DEF Update, UpdateStart, UpdateAssign, UpdateEnd, UpdateCalled, Enters, RunningAt, RunningIn, Go, SyncSends,
        SizeRuns, ValidateRuns, UpdateArrives
    <3> QED BY <1>0, <2>3, <3>1, PointStep DEF PointFrames, Swapping, Updating
  <2> QED BY <2>1, <2>2, <2>3 DEF Swapping, Updating
<1>2. CASE UpdateStart(call.version)
  <2>1. at["update"] = "start" /\ at' = [at EXCEPT !["update"] = "size"] /\ rversion' = call.version
    BY <1>2 DEF UpdateStart, RunningAt, RunningIn, Go
  <2>2. rversion' = rversion + 1
    BY <2>1 DEF Training, In
  <2>3. tpc \notin {"pausing", "weights"} /\ at["pause"] = "off"
    BY <1>0, <2>1 DEF Points
  <2>4. UNCHANGED tpc
    <3>1. ~Trainer
      BY <1>0, <2>1, <2>3 DEF Trainer, Collect, CollectEnd, Train, SyncPauses, PauseReturns, SyncSends,
        ReadValidation, rVars, sched, Go, RollouterIdle
    <3> QED BY <3>1, NotTrainer DEF trainerVars
  <2>5. Swapping /\ ~Swapping'
    BY <1>0, <2>1, <2>3, <2>4 DEF Swapping, Updating
  <2> QED BY <1>1, <2>2, <2>5
<1>3. CASE ~UpdateStart(call.version)
  <2>1. UpdateAssign => rversion' = rversion
    BY DEF UpdateAssign
  <2> QED BY <1>1, <1>3, <2>1, DataStep DEF DataFrames, Update
<1> QED BY <1>2, <1>3

LEMMA DatedStep ==
  ASSUME LInv, Training, Dated, [Next]_vars
  PROVE  Dated'
<1>0. /\ TaskList /\ Order /\ rversion \in Nat /\ stamp \in [Samples -> Nat] /\ gen \in [Samples -> {"none", "sent", "decoding"} \cup Asks]
  BY DEF LInv, Training, Dated, TaskList
<1>1. /\ rversion' \in Nat /\ rversion <= rversion'
      /\ rversion' = rversion \/ (rversion' = rversion + 1 /\ Swapping /\ ~Swapping')
  BY <1>0, SwappingStep
<1>2. TaskBegin => rversion' = rversion /\ Head(due) \in Samples /\ gen[Head(due)] = "created"
                   /\ stamp' = [stamp EXCEPT ![Head(due)] = rversion]
  BY <1>0, TaskRuns DEF TaskBegin, TaskFrame, counting
<1>3. stamp' \in [Samples -> Nat]
  BY <1>0, <1>2, StampStep
<1>4. ASSUME NEW s \in Samples
      PROVE  /\ stamp'[s] <= rversion'
             /\ gen'[s] \notin {"none", "created"} => rversion' <= stamp'[s] + In(~Swapping)'
  <2>1. stamp[s] <= rversion /\ (gen[s] \notin {"none", "created"} => rversion <= stamp[s] + In(~Swapping))
        /\ stamp[s] \in Nat
    BY <1>0 DEF Dated
  <2>2. CASE TaskBegin /\ Head(due) = s
    <3>1. stamp'[s] = rversion'
      BY <1>0, <1>2, <2>2
    <3>2. In(~Swapping)' \in Nat
      BY DEF In
    <3> QED BY <1>1, <3>1, <3>2
  <2>3. CASE ~(TaskBegin /\ Head(due) = s)
    <3>1. stamp'[s] = stamp[s]
      BY <1>0, <1>2, <2>3, StampStep
    <3>2. stamp'[s] <= rversion'
      BY <1>0, <1>1, <2>1, <3>1
    <3>3. ASSUME gen'[s] \notin {"none", "created"} PROVE rversion' <= stamp'[s] + In(~Swapping)'
      <4>1. gen[s] \notin {"none", "created"}
        BY <1>0, <2>3, <3>3, GenStep
      <4>2. Busy # {}
        BY <4>1 DEF Busy
      <4>3. rversion <= stamp[s] + In(~Swapping)
        BY <2>1, <4>1
      <4>4. CASE rversion' = rversion + 1 /\ Swapping /\ ~Swapping'
        <5>1. In(~Swapping) = 0 /\ In(~Swapping)' = 1
          BY <4>4 DEF In
        <5> QED BY <1>0, <2>1, <3>1, <4>3, <4>4, <5>1
      <4>5. CASE rversion' = rversion /\ (Swapping' => Swapping)
        <5>1. CASE Swapping
          <6>1. In(~Swapping) = 0 /\ In(~Swapping)' \in Nat
            BY <5>1 DEF In
          <6> QED BY <1>0, <2>1, <3>1, <4>3, <4>5, <6>1
        <5>2. CASE ~Swapping
          <6>1. In(~Swapping) = 1 /\ In(~Swapping)' = 1
            BY <4>5, <5>2 DEF In
          <6> QED BY <1>0, <2>1, <3>1, <4>3, <4>5, <6>1
        <5> QED BY <5>1, <5>2
      <4> QED BY <1>1, <4>2, <4>4, <4>5, SwappingStep
    <3> QED BY <3>2, <3>3
  <2> QED BY <2>2, <2>3
<1> QED BY <1>3, <1>4 DEF Dated

-----------------------------------------------------------------------------
\* The ages of the samples on their way.

\* A sample whose task runs is nowhere else, and in flight.
LEMMA BusyAlone ==
  ASSUME Hand, Stored, TaskList, Conserved, taken \in Nat, NEW s \in Samples
  PROVE  /\ Count(resultq, s) <= 1
         /\ ~(Has(resultq, s) /\ s \in transit)
         /\ gen[s] \notin {"none", "error"} =>
              /\ ~Has(resultq, s) /\ ~Has(queue, s) /\ ~Has(batch, s)
              /\ s \notin transit /\ s \in InFlight
<1> DEFINE a == In(s > taken)
           b == In(s = hand)
           c == In(gen[s] \notin {"none", "error"})
           d == Count(cancelq, s)
           e == Count(resultq, s)
           f == Count(queue, s)
           g == Count(batch, s)
           h == In(s \in trained)
           i == In(s \in dropped)
           j == In(s \in failed)
           k == In(s \in transit)
<1>1. a + b + c + d + e + k + f + g + h + i + j = 1
  BY DEF Conserved, Places
<1>2. a \in Nat /\ b \in Nat /\ c \in Nat /\ d \in Nat /\ e \in Nat /\ f \in Nat /\ g \in Nat /\ h \in Nat
      /\ i \in Nat /\ j \in Nat /\ k \in Nat
  BY PlacesType
<1>5. s \in InFlight <=> ~(s > taken) /\ s \notin trained /\ s \notin dropped /\ s \notin failed /\ ~Has(batch, s)
  <2>1. s \in ToSet(batch) <=> Has(batch, s)
    BY InSet DEF Stored
  <2>2. s \in 1..taken \cap Samples <=> ~(s > taken)
    BY RollouterAssumption DEF Samples
  <2> QED BY <2>1, <2>2 DEF InFlight
<1> HIDE DEF a, b, c, d, e, f, g, h, i, j, k
<1>6. e <= 1
  BY <1>1, <1>2
<1>8. gen[s] \notin {"none", "error"} =>
        /\ ~Has(resultq, s) /\ ~Has(queue, s) /\ ~Has(batch, s)
        /\ s \notin transit /\ s \in InFlight
  BY <1>5, OnlyPlace
<1>9. ~(Has(resultq, s) /\ s \in transit)
  BY OnlyPlace
<1> QED BY <1>6, <1>8, <1>9 DEF e

\* The results that wait, with the one that comes, are in flight.
LEMMA ResultsInFlight ==
  ASSUME LInv, Hand, Stored, Conserved, ~Sent,
         NEW s \in Samples, gen[s] \notin {"none", "error"}
  PROVE  Len(queue) + Len(resultq) + In(transit # {}) + 1 <= Flight
<1> DEFINE Q == ToSet(queue)
           R == ToSet(resultq)
           T == transit
<1>1. /\ TaskList /\ taken \in Nat /\ resultq \in Seq(Samples) /\ queue \in Seq(Samples)
      /\ Len(queue) \in Nat /\ Len(resultq) \in Nat /\ transit \subseteq Samples
  BY QueueSamples, LenProperties DEF LInv, Scheduling, Feeding, Hand, Stored
<1>2. \A e \in Samples : Count(queue, e) <= 1 /\ Count(resultq, e) <= 1
  BY <1>1, OnePlace, BusyAlone
<1>3. /\ \A i, k \in 1..Len(queue) : queue[i] = queue[k] => i = k
      /\ \A i, k \in 1..Len(resultq) : resultq[i] = resultq[k] => i = k
  BY <1>1, <1>2, CountOnce
<1>4. /\ IsFiniteSet(Q) /\ Cardinality(Q) = Len(queue)
      /\ IsFiniteSet(R) /\ Cardinality(R) = Len(resultq)
  BY <1>1, <1>3, SeqElements
<1>13. IsFiniteSet(T) /\ Cardinality(T) = In(transit # {}) /\ Cardinality(T) \in Nat
  <2>1. CASE transit = {}
    BY <2>1, FS_EmptySet DEF In
  <2>2. CASE transit # {}
    <3>1. PICK e \in transit : TRUE
      BY <2>2
    <3>2. transit = {e}
      BY <1>1, <3>1 DEF Stored
    <3>3. IsFiniteSet({e}) /\ Cardinality({e}) = 1
      BY FS_Singleton
    <3>4. In(transit # {}) = 1
      BY <2>2 DEF In
    <3> QED BY <3>2, <3>3, <3>4
  <2> QED BY <2>1, <2>2
<1>5. /\ \A e \in Q : e \in Samples /\ Has(queue, e)
      /\ \A e \in R : e \in Samples /\ Has(resultq, e)
  <2>1. (\A e \in Q : Has(queue, e)) /\ (\A e \in R : Has(resultq, e))
    BY <1>1, InSet
  <2> QED BY <1>1, <2>1, ElementOfSeq DEF Has
<1>6. Q \cap R = {} /\ (Q \cup R) \cap T = {}
  BY <1>1, <1>5, FlightPlaces, BusyAlone
<1>7. Q \subseteq InFlight /\ R \subseteq InFlight /\ T \subseteq InFlight
  BY <1>1, <1>5, FlightPlaces
<1>8. s \notin Q /\ s \notin R /\ s \notin T /\ s \in InFlight
  BY <1>1, <1>5, BusyAlone
<1> HIDE DEF Q, R, T
<1>9. IsFiniteSet(Q \cup R) /\ Cardinality(Q \cup R) = Len(queue) + Len(resultq)
  <2>1. IsFiniteSet(Q \cup R) /\ Cardinality(Q \cup R) = Cardinality(Q) + Cardinality(R) - Cardinality(Q \cap R)
    BY <1>4, FS_Union
  <2>2. Cardinality(Q \cap R) = 0
    BY <1>6, FS_EmptySet
  <2> QED BY <1>1, <1>4, <2>1, <2>2
<1> DEFINE U == (Q \cup R) \cup T
<1>14. IsFiniteSet(U) /\ Cardinality(U) = Len(queue) + Len(resultq) + In(transit # {})
  <2>1. IsFiniteSet(U) /\ Cardinality(U) = Cardinality(Q \cup R) + Cardinality(T) - Cardinality((Q \cup R) \cap T)
    BY <1>9, <1>13, FS_Union
  <2>2. Cardinality((Q \cup R) \cap T) = 0
    BY <1>6, FS_EmptySet
  <2> QED BY <1>1, <1>9, <1>13, <2>1, <2>2
<1>15. s \notin U /\ U \subseteq InFlight
  BY <1>7, <1>8
<1> HIDE DEF U
<1>10. Cardinality(U \cup {s}) = Len(queue) + Len(resultq) + In(transit # {}) + 1
  BY <1>14, <1>15, FS_AddElement
<1>11. U \cup {s} \in SUBSET InFlight
  BY <1>8, <1>15
<1>12. Cardinality(U \cup {s}) <= Flight
  BY <1>11, FlightType, FS_Subset DEF Flight
<1> QED BY <1>10, <1>12

\* What stays where it is keeps its age and what has been read, together.
LEMMA OldStep ==
  ASSUME LInv, Stored, Training, Dated, Streaming, Filling, [Next]_vars, Streaming',
         NEW s \in Samples, stamp'[s] = stamp[s]
  PROVE  /\ Old(s) \in Int /\ Old(s)' \in Int
         /\ version' = version => Old(s)' = Old(s)
         /\ ~Collect => Old(s) + ReadNow = Old(s)' + ReadNow'
<1>1. /\ Quota' = Quota /\ Quota \in Int /\ version \in Nat /\ stamp[s] \in Nat /\ ReadNow \in Nat /\ ReadNow' \in Nat
  BY ReadStep, QuotaType DEF Dated
<1>2. /\ Old(s) = (version - stamp[s]) * Quota /\ Old(s)' = (version' - stamp[s]) * Quota
      /\ version - stamp[s] \in Int
  BY <1>1 DEF Old
<1>3. Old(s) \in Int
  BY <1>1, <1>2, Product
<1>4. CASE version' = version
  <2>1. Old(s)' = Old(s)
    BY <1>2, <1>4
  <2>2. ~Collect => ReadNow' = ReadNow
    <3>1. version + 1 # version
      BY <1>1
    <3> QED BY <1>4, <3>1, ReadStep
  <2> QED BY <1>1, <1>3, <2>1, <2>2
<1>5. CASE version' # version
  <2>1. version' = version + 1 /\ ReadNow = ReadNow' + Quota
    BY <1>5, ReadStep
  <2>2. version' - stamp[s] = (version - stamp[s]) + 1
    <3>1. PICK v \in Nat, t \in Nat : v = version /\ t = stamp[s]
      BY <1>1
    <3>2. version' - stamp[s] = (v + 1) - t
      BY <2>1, <3>1
    <3>3. (v + 1) - t = (v - t) + 1
      OBVIOUS
    <3> QED BY <3>1, <3>2, <3>3
  <2>3. Old(s)' = Old(s) + Quota
    BY <1>1, <1>2, <2>2, Product
  <2> QED BY <1>1, <1>3, <1>5, <2>1, <2>3
<1> QED BY <1>4, <1>5

\* A generation that ends is not older than what has been read since its version, and a quota.
LEMMA OldBusy ==
  ASSUME LInv, Stored, Training, Dated, NEW s \in Samples, gen[s] \notin {"none", "created"}
  PROVE  Old(s) + ReadNow <= Spent + Quota
<1>1. /\ Quota \in Nat /\ version \in Nat /\ stamp[s] \in Nat /\ ReadNow \in Nat /\ rversion \in Nat
      /\ call.version \in Nat
      /\ rversion <= stamp[s] + In(~Swapping)
      /\ version = call.version + In(Syncing) /\ call.version = rversion + In(Updating)
  BY QuotaType DEF Dated, Training, Updating
<1>2. PICK a \in {0, 1} : a = In(Syncing)
  BY DEF In
<1>3. PICK b \in {0, 1} : b = In(Updating)
  BY DEF In
<1>4. In(~Swapping) <= 1 /\ In(~Swapping) \in Nat
  BY DEF In
<1>5. version - stamp[s] <= a + b + 1
  BY <1>1, <1>2, <1>3, <1>4 DEF Updating
<1>6. PICK o \in Int : o = version - stamp[s]
  BY <1>1
<1>7. PICK q \in Nat : q = Quota
  BY <1>1
<1>8. PICK r \in Nat : r = ReadNow
  BY <1>1
<1>9. Spent = a * q + b * q + r
  BY <1>2, <1>3, <1>7, <1>8 DEF Spent, In
<1>10. o * q <= (a + b + 1) * q
  BY <1>5, <1>6
<1>11. (a + b + 1) * q = a * q + b * q + q
  OBVIOUS
<1>12. o * q + r <= a * q + b * q + r + q
  BY <1>10, <1>11, Product
<1> QED BY <1>6, <1>7, <1>8, <1>9, <1>12 DEF Old

\* Only a task that begins is stamped, and it is nowhere in the queues.
LEMMA StampKept ==
  ASSUME LInv, Hand, Stored, Conserved, Dated, [Next]_vars, NEW s \in Samples,
         Has(queue, s) \/ Has(resultq, s) \/ Has(batch, s) \/ s \in transit
  PROVE  stamp'[s] = stamp[s]
<1>1. Order /\ TaskList /\ taken \in Nat /\ stamp \in [Samples -> Nat]
  BY DEF LInv, Scheduling, Feeding, Dated
<1>2. CASE TaskBegin
  <2>1. gen[Head(due)] = "created" /\ stamp' = [stamp EXCEPT ![Head(due)] = rversion] /\ Head(due) \in Samples
    BY <1>1, <1>2, TaskRuns DEF TaskBegin
  <2>2. Head(due) # s
    BY <1>1, <2>1, BusyAlone
  <2> QED BY <1>1, <2>1, <2>2
<1> QED BY <1>2, StampStep

LEMMA AgingBatch ==
  ASSUME LInv, Hand, Stored, Conserved, Training, Dated, Streaming, Filling, Aging,
         [Next]_vars, Streaming'
  PROVE  (\A i \in 1..Len(batch) : Old(batch[i]) <= Limit)'
<1>0. /\ batch \in Seq(Samples) /\ queue \in Seq(Samples \cup {Finish}) /\ Len(batch) \in Nat
      /\ Limit' = Limit /\ Limit \in Nat /\ ReadNow \in Nat /\ Finish \notin Samples
  BY ReadStep, QuotaType, RollouterAssumption DEF Stored
<1>1. SUFFICES ASSUME NEW i \in 1..Len(batch') PROVE (Old(batch[i]) <= Limit)'
  OBVIOUS
<1>2. ASSUME NEW s \in Samples, s = batch'[i], Old(s)' <= Limit
      PROVE  (Old(batch[i]) <= Limit)'
  BY <1>0, <1>2 DEF Old
<1>3. CASE batch' = batch /\ version' = version
  <2>1. PICK s \in Samples : s = batch[i]
    BY <1>0, <1>3, ElementOfSeq
  <2>2. i \in 1..Len(batch) /\ Has(batch, s)
    BY <1>3, <2>1 DEF Has
  <2>3. stamp'[s] = stamp[s]
    BY <2>2, StampKept
  <2>4. Old(s)' = Old(s)
    BY <1>3, <2>3, OldStep
  <2>5. Old(s) <= Limit
    BY <2>1, <2>2 DEF Aging
  <2> QED BY <1>2, <1>3, <2>1, <2>4, <2>5
<1>4. CASE Collect
  <2>1. PICK m \in Samples : queue # <<>> /\ m = Head(queue) /\ batch' = Append(batch, m)
    BY <1>4 DEF Collect, GetSample
  <2>2. /\ Len(batch') = Len(batch) + 1 /\ batch'[Len(batch) + 1] = m
        /\ \A k \in 1..Len(batch) : batch'[k] = batch[k]
    BY <1>0, <2>1, AppendProperties
  <2>3. version' = version
    BY <1>4 DEF Collect
  <2>4. CASE i \in 1..Len(batch)
    <3>1. PICK s \in Samples : s = batch[i]
      BY <1>0, <2>4, ElementOfSeq
    <3>2. Has(batch, s)
      BY <2>4, <3>1 DEF Has
    <3>3. Old(s)' = Old(s)
      BY <2>3, <3>2, StampKept, OldStep
    <3>4. Old(s) <= Limit
      BY <2>4, <3>1 DEF Aging
    <3> QED BY <1>2, <2>2, <2>4, <3>1, <3>3, <3>4
  <2>5. CASE i \notin 1..Len(batch)
    <3>1. i = Len(batch) + 1
      BY <1>0, <2>2, <2>5
    <3>2. batch'[i] = m
      BY <2>2, <3>1
    <3>3. 1 \in 1..Len(queue) /\ queue[1] = m
      BY <1>0, <2>1, EmptySeq, HeadTailProperties
    <3>4. Has(queue, m) /\ m # Finish
      BY <1>0, <3>3 DEF Has
    <3>5. Old(m)' = Old(m) /\ Old(m) \in Int
      BY <2>3, <3>4, StampKept, OldStep
    <3>6. Old(m) + ReadNow + 1 <= Limit + 1
      <4>1. Behind(1) = 0
        BY DEF Behind, In
      <4>2. Old(m) + ReadNow + 1 <= Limit + 1 + Behind(1)
        BY <3>3, <3>4 DEF Aging
      <4> QED BY <1>0, <3>5, <4>1, <4>2
    <3>7. Old(m) <= Limit
      <4>1. PICK o \in Int, r \in Nat, l \in Nat : o = Old(m) /\ r = ReadNow /\ l = Limit
        BY <1>0, <3>5
      <4>2. o + r + 1 <= l + 1
        BY <3>6, <4>1
      <4>3. o <= l
        BY <4>2
      <4> QED BY <4>1, <4>3
    <3> QED BY <1>2, <3>2, <3>5, <3>7
  <2> QED BY <2>4, <2>5
<1>5. CASE batch' = <<>>
  <2>1. Len(batch') = 0
    BY <1>5
  <2> QED BY <2>1
<1> QED BY <1>3, <1>4, <1>5, ReadStep

\* A finish signal that is read ends the streaming.
LEMMA CollectTail ==
  ASSUME Stored, Collect
  PROVE  /\ queue # <<>> /\ Head(queue) = queue[1] /\ queue[1] \in Samples /\ queue' = Tail(queue)
         /\ Len(queue) \in Nat \ {0} /\ Len(queue') = Len(queue) - 1
         /\ \A k \in 1..Len(queue') : queue'[k] = queue[k + 1]
<1>1. queue \in Seq(Samples \cup {Finish})
  BY DEF Stored
<1>2. queue # <<>> /\ Head(queue) \in Samples /\ queue' = Tail(queue)
  BY DEF Collect, GetSample
<1> QED BY <1>1, <1>2, EmptySeq, HeadTailProperties, LenProperties

LEMMA AgingQueue ==
  ASSUME LInv, Hand, Stored, Conserved, Training, Dated, Streaming, Filling, Aging,
         [Next]_vars, Streaming'
  PROVE  (\A i \in 1..Len(queue) :
            queue[i] # Finish => Old(queue[i]) + ReadNow + i <= Limit + 1 + Behind(i))'
<1>0. /\ queue \in Seq(Samples \cup {Finish}) /\ Len(queue) \in Nat
      /\ Limit' = Limit /\ Limit \in Nat /\ ReadNow \in Nat /\ ReadNow' \in Nat /\ Finish \notin Samples
      /\ queue' \in Seq(Samples \cup {Finish}) /\ Len(queue') \in Nat
  BY ReadStep, QuotaType, RollouterAssumption, StoredStep, LenProperties DEF Stored
<1>1. SUFFICES ASSUME NEW i \in 1..Len(queue'), queue'[i] # Finish
               PROVE (Old(queue[i]) + ReadNow + i <= Limit + 1 + Behind(i))'
  OBVIOUS
<1>2. PICK s \in Samples : s = queue'[i]
  BY <1>0, <1>1, ElementOfSeq
<1>10. PICK b1 \in {0, 1} : b1 = In(\E k \in 1..(i - 1) : queue'[k] = Finish)
  BY DEF In
<1> DEFINE Aged == Old(s)' + ReadNow' + i <= Limit + 1 + b1
           Fits(k, b) == IF Collect THEN i + 1 + b <= k + b1 ELSE i + b <= k + b1
<1>3. SUFFICES Aged
  BY <1>0, <1>2, <1>10 DEF Old, Behind
<1>4. PICK l \in Nat, r \in Nat, r1 \in Nat : l = Limit + 1 /\ r = ReadNow /\ r1 = ReadNow'
  BY <1>0
<1>14. b1 \in Nat
  OBVIOUS
<1>15. i \in Nat
  BY <1>0
<1>11. i \in Nat /\ b1 \in Nat
  BY <1>14, <1>15
\* It was in the queue, or was on its way.
<1>5. ASSUME NEW k \in 1..Len(queue), queue[k] = s, NEW b \in {0, 1}, b = Behind(k), Fits(k, b)
      PROVE  Aged
  <2>1. Has(queue, s) /\ s # Finish
    BY <1>0, <1>5 DEF Has
  <2>2. /\ Old(s) \in Int /\ Old(s)' \in Int /\ (Collect => Old(s)' = Old(s))
        /\ ~Collect => Old(s) + ReadNow = Old(s)' + ReadNow'
    BY <2>1, StampKept, OldStep, ReadStep
  <2>3. PICK o \in Int, o1 \in Int : o = Old(s) /\ o1 = Old(s)'
    BY <2>2
  <2>4. o + r + k <= l + b
    BY <1>4, <1>5, <2>1, <2>3 DEF Aging
  <2>5. o1 + r1 + i + b <= o + r + k + b1
    <3>1. CASE Collect
      <4>1. r1 = r + 1 /\ o1 = o /\ i + 1 + b <= k + b1
        BY <1>4, <1>5, <2>2, <2>3, <3>1, ReadStep
      <4> QED BY <4>1
    <3>2. CASE ~Collect
      <4>1. o + r = o1 + r1 /\ i + b <= k + b1
        BY <1>4, <1>5, <2>2, <2>3, <3>2
      <4> QED BY <4>1
    <3> QED BY <3>1, <3>2
  <2>6. o1 + r1 + i <= l + b1
    <3>1. b \in Nat /\ k \in Nat
      BY <1>0, <1>5
    <3> QED BY <1>11, <2>4, <2>5, <3>1
  <2> QED BY <1>4, <2>3, <2>6
<1> HIDE DEF Aged, Fits
<1>6. CASE queue' = queue
  <2>1. i \in 1..Len(queue) /\ queue[i] = s
    BY <1>2, <1>6
  <2>2. ~Collect
    BY <1>6, CollectTail
  <2>3. b1 = Behind(i)
    BY <1>6, <1>10 DEF Behind
  <2>4. Fits(i, b1)
    BY <1>11, <2>2 DEF Fits
  <2> QED BY <1>5, <1>10, <2>1, <2>3, <2>4
<1>7. CASE Collect
  <2>1. i + 1 \in 1..Len(queue) /\ queue[i + 1] = s
    BY <1>2, <1>7, CollectTail
  <2>2. b1 = Behind(i + 1)
    <3>1. ASSUME NEW k \in 1..((i + 1) - 1), queue[k] = Finish
          PROVE  \E n \in 1..(i - 1) : queue'[n] = Finish
      <4>1. k # 1
        BY <1>0, <1>7, <3>1, CollectTail
      <4>2. k - 1 \in 1..(i - 1) /\ k - 1 \in 1..Len(queue') /\ (k - 1) + 1 = k
        BY <1>0, <4>1
      <4>3. queue'[k - 1] = queue[(k - 1) + 1]
        BY <1>7, <4>2, CollectTail
      <4> QED BY <3>1, <4>2, <4>3
    <3>2. ASSUME NEW n \in 1..(i - 1), queue'[n] = Finish
          PROVE  \E k \in 1..((i + 1) - 1) : queue[k] = Finish
      <4>1. n + 1 \in 1..((i + 1) - 1) /\ n \in 1..Len(queue')
        BY <1>0
      <4>2. queue'[n] = queue[n + 1]
        BY <1>7, <4>1, CollectTail
      <4> QED BY <3>2, <4>1, <4>2
    <3> QED BY <1>10, <3>1, <3>2 DEF Behind, In
  <2>3. Fits(i + 1, b1)
    BY <1>7, <1>11 DEF Fits
  <2> QED BY <1>5, <1>10, <2>1, <2>2, <2>3
<1>8. CASE PutRuns
  <2>1. PICK m \in transit : PutSample(m, conf.maxRequired) /\ transit' = transit \ {m}
    BY <1>8 DEF PutRuns
  <2>2. PICK q \in {queue, Tail(queue)} :
          /\ q \in Seq(Samples \cup {Finish})
          /\ queue' = Append(q, m) /\ queue' \in Seq(Samples \cup {Finish}) /\ Len(queue') = Len(q) + 1
          /\ \A x \in 1..Len(q) : queue'[x] = q[x] /\ Has(queue, q[x])
          /\ queue'[Len(q) + 1] = m
          /\ \A e : Has(queue', e) <=> Has(q, e) \/ e = m
          /\ \/ q = queue /\ dropped' = dropped /\ Len(queue) < conf.maxRequired
             \/ /\ q = Tail(queue) /\ queue # <<>> /\ dropped' = dropped \cup {Head(queue)}
                /\ Len(queue) >= conf.maxRequired
                /\ \A x \in 1..Len(q) : x + 1 \in 1..Len(queue) /\ q[x] = queue[x + 1]
    BY <2>1, PutEffect
  <2>3. Len(q) \in Nat /\ Len(q) <= Len(queue) /\ (q # queue => Len(q) = Len(queue) - 1)
    <3>1. q # queue => q = Tail(queue) /\ queue # <<>>
      BY <2>2
    <3>2. queue # <<>> => Len(Tail(queue)) = Len(queue) - 1
      BY <1>0, HeadTailProperties
    <3> QED BY <1>0, <2>2, <3>1, <3>2, LenProperties
  <2>4. ~Collect
    <3>1. Collect => transit' = transit
      BY DEF Collect, rVars, queues
    <3> QED BY <2>1, <3>1
  <2>5. CASE i \in 1..Len(q)
    <3>1. queue'[i] = q[i]
      BY <2>2, <2>5
    <3>2. CASE q = queue
      <4>1. \A k \in 1..(i - 1) : queue'[k] = queue[k]
        BY <2>2, <2>3, <2>5, <3>2
      <4>2. b1 = Behind(i)
        BY <1>10, <4>1 DEF Behind
      <4>3. Fits(i, b1)
        BY <1>11, <2>4 DEF Fits
      <4>4. i \in 1..Len(queue) /\ queue[i] = s
        BY <1>2, <2>5, <3>1, <3>2
      <4> QED BY <1>5, <1>10, <4>2, <4>3, <4>4
    <3>3. CASE q # queue
      <4>1. i + 1 \in 1..Len(queue) /\ queue[i + 1] = s
        BY <1>2, <2>2, <2>5, <3>1, <3>3
      <4>2. PICK b \in {0, 1} : b = Behind(i + 1)
        BY DEF Behind, In
      <4>3. Fits(i + 1, b)
        BY <1>11, <2>4, <4>2 DEF Fits
      <4> QED BY <1>5, <4>1, <4>2, <4>3
    <3> QED BY <3>2, <3>3
  <2>6. CASE i \notin 1..Len(q)
    <3>1. i = Len(q) + 1
      BY <2>2, <2>3, <2>6
    <3>2. s = m /\ m \in transit \cap Samples
      BY <1>2, <2>2, <3>1
    <3>3. Old(s) \in Int /\ Old(s)' \in Int /\ Old(s) + ReadNow = Old(s)' + ReadNow'
      BY <2>4, <3>2, StampKept, OldStep
    <3>4. Old(s) + ReadNow + Len(queue) <= Limit + In(Has(queue, Finish))
      BY <3>2 DEF Aging
    <3>5. PICK o \in Int, o1 \in Int, n \in Nat, f \in {0, 1} :
            o = Old(s) /\ o1 = Old(s)' /\ n = Len(queue) /\ f = In(Has(queue, Finish))
      BY <1>0, <3>3 DEF In
    <3>9. f \in Nat /\ f <= 1
      BY <3>5
    <3>6. o + r + n + 1 <= l + f /\ o + r = o1 + r1
      <4>1. PICK a \in Nat : a = Limit
        BY <1>0
      <4>2. o + r + n <= a + f /\ l = a + 1
        BY <1>4, <3>4, <3>5, <4>1
      <4>3. o + r + n + 1 <= l + f
        BY <4>2
      <4> QED BY <1>4, <3>3, <3>5, <4>3
    <3>7. i + f <= n + 1 + b1
      <4>1. CASE q = queue
        <5>1. i = n + 1
          BY <3>1, <3>5, <4>1
        <5>2. f = 1 => b1 = 1
          <6>1. ASSUME Has(queue, Finish) PROVE \E k \in 1..(i - 1) : queue'[k] = Finish
            <7>1. PICK k \in 1..Len(queue) : queue[k] = Finish
              BY <6>1 DEF Has
            <7>2. k \in 1..(i - 1) /\ queue'[k] = queue[k]
              BY <2>2, <2>3, <3>1, <4>1
            <7> QED BY <7>1, <7>2
          <6> QED BY <1>10, <3>5, <6>1 DEF In
        <5>3. f <= b1
          BY <1>11, <3>5, <3>9, <5>2
        <5> QED BY <1>11, <3>9, <5>1, <5>3
      <4>2. CASE q # queue
        <5>1. i = n
          BY <2>3, <3>1, <3>5, <4>2
        <5> QED BY <1>11, <3>9, <5>1
      <4> QED BY <4>1, <4>2
    <3>8. o1 + r1 + i <= l + b1
      <4>1. i + f + (o + r + n + 1) <= n + 1 + b1 + (l + f)
        BY <1>11, <3>6, <3>7, <3>9
      <4>2. o1 + r1 + i <= l + b1
        BY <1>11, <3>6, <3>9, <4>1
      <4> QED BY <4>2
    <3> QED BY <1>4, <3>5, <3>8 DEF Aged
  <2> QED BY <2>5, <2>6
<1> QED BY <1>6, <1>7, <1>8, DataStep, StreamingBefore DEF DataFrames

LEMMA AgingTransit ==
  ASSUME LInv, Hand, Stored, Conserved, Training, Dated, Streaming, Filling, Aging,
         [Next]_vars, Streaming'
  PROVE  (\A s \in transit \cap Samples : Old(s) + ReadNow + Len(queue) <= Limit + In(Has(queue, Finish)))'
<1>0. /\ queue \in Seq(Samples \cup {Finish}) /\ resultq \in Seq(Samples) /\ Len(queue) \in Nat
      /\ Limit' = Limit /\ Limit \in Nat /\ ReadNow \in Nat /\ ReadNow' \in Nat /\ Finish \notin Samples
      /\ Len(queue') \in Nat
  BY ReadStep, QuotaType, RollouterAssumption, StoredStep, LenProperties DEF Stored, Hand
<1>1. SUFFICES ASSUME NEW s \in transit' \cap Samples
               PROVE (Old(s) + ReadNow + Len(queue) <= Limit + In(Has(queue, Finish)))'
  OBVIOUS
<1>2. PICK f1 \in {0, 1} : f1 = In(Has(queue', Finish))
  BY DEF In
<1>3. SUFFICES Old(s)' + ReadNow' + Len(queue') <= Limit + f1
  BY <1>0, <1>2 DEF Old, Has
<1>4. PICK l \in Nat, r \in Nat, r1 \in Nat, n \in Nat, n1 \in Nat :
        l = Limit /\ r = ReadNow /\ r1 = ReadNow' /\ n = Len(queue) /\ n1 = Len(queue')
  BY <1>0
\* It was on its way, or comes from the result queue.
<1>5. ASSUME s \in transit, NEW f \in {0, 1}, f = In(Has(queue, Finish)),
             ~Collect => n1 + f <= n + f1, Collect => n1 + 1 + f <= n + f1
      PROVE  Old(s)' + ReadNow' + Len(queue') <= Limit + f1
  <2>1. /\ Old(s) \in Int /\ Old(s)' \in Int /\ (Collect => Old(s)' = Old(s))
        /\ ~Collect => Old(s) + ReadNow = Old(s)' + ReadNow'
    BY <1>5, StampKept, OldStep, ReadStep
  <2>2. PICK o \in Int, o1 \in Int : o = Old(s) /\ o1 = Old(s)'
    BY <2>1
  <2>3. o + r + n <= l + f
    BY <1>4, <1>5, <2>2 DEF Aging
  <2>4. o1 + r1 + n1 + f <= o + r + n + f1
    <3>1. CASE Collect
      <4>1. r1 = r + 1 /\ o1 = o /\ n1 + 1 + f <= n + f1
        BY <1>4, <1>5, <2>1, <2>2, <3>1, ReadStep
      <4> QED BY <4>1
    <3>2. CASE ~Collect
      <4>1. o + r = o1 + r1 /\ n1 + f <= n + f1
        BY <1>4, <1>5, <2>1, <2>2, <3>2
      <4> QED BY <4>1
    <3> QED BY <3>1, <3>2
  <2>5. o1 + r1 + n1 <= l + f1
    BY <2>3, <2>4
  <2> QED BY <1>4, <2>2, <2>5
<1>6. PICK f \in {0, 1} : f = In(Has(queue, Finish))
  BY DEF In
<1>7. CASE Collect
  <2>1. s \in transit
    BY <1>7 DEF Collect, rVars, queues
  <2>2. n1 + 1 = n
    BY <1>4, <1>7, CollectTail
  <2>3. Has(queue, Finish) => Has(queue', Finish)
    <3>1. ASSUME NEW k \in 1..Len(queue), queue[k] = Finish PROVE Has(queue', Finish)
      <4>1. k # 1
        BY <1>0, <1>7, <3>1, CollectTail
      <4>2. k - 1 \in 1..Len(queue') /\ (k - 1) + 1 = k
        BY <1>0, <1>7, <4>1, CollectTail
      <4>3. queue'[k - 1] = queue[(k - 1) + 1]
        BY <1>7, <4>2, CollectTail
      <4> QED BY <3>1, <4>2, <4>3 DEF Has
    <3> QED BY <3>1 DEF Has
  <2>4. f <= f1
    BY <1>2, <1>6, <2>3 DEF In
  <2>5. n1 + 1 + f <= n + f1
    BY <1>2, <1>6, <2>2, <2>4
  <2> QED BY <1>5, <1>6, <1>7, <2>1, <2>5
<1>8. CASE PutRuns
  <2>1. PICK m \in transit : PutSample(m, conf.maxRequired) /\ transit' = transit \ {m}
    BY <1>8 DEF PutRuns
  <2>2. s \in transit /\ s # m /\ m = Finish
    BY <2>1 DEF Stored
  <2>3. f = 0
    BY <1>6, <2>1, <2>2 DEF Stored, In
  <2>4. PICK q \in {queue, Tail(queue)} :
          /\ q \in Seq(Samples \cup {Finish})
          /\ queue' = Append(q, m) /\ queue' \in Seq(Samples \cup {Finish}) /\ Len(queue') = Len(q) + 1
          /\ \A x \in 1..Len(q) : queue'[x] = q[x] /\ Has(queue, q[x])
          /\ queue'[Len(q) + 1] = m
          /\ \A e : Has(queue', e) <=> Has(q, e) \/ e = m
          /\ \/ q = queue /\ dropped' = dropped /\ Len(queue) < conf.maxRequired
             \/ /\ q = Tail(queue) /\ queue # <<>> /\ dropped' = dropped \cup {Head(queue)}
                /\ Len(queue) >= conf.maxRequired
                /\ \A x \in 1..Len(q) : x + 1 \in 1..Len(queue) /\ q[x] = queue[x + 1]
    BY <2>1, PutEffect
  <2>5. f1 = 1
    BY <1>2, <2>2, <2>4 DEF In
  <2>6. n1 <= n + 1
    <3>1. queue # <<>> => Len(Tail(queue)) = Len(queue) - 1
      BY <1>0, HeadTailProperties
    <3>2. q = queue \/ (q = Tail(queue) /\ queue # <<>>)
      BY <2>4
    <3>3. Len(q) <= Len(queue) /\ Len(q) \in Nat
      BY <1>0, <2>4, <3>1, <3>2, LenProperties
    <3> QED BY <1>0, <1>4, <2>4, <3>3
  <2>7. ~Collect
    <3>1. Collect => transit' = transit
      BY DEF Collect, rVars, queues
    <3> QED BY <2>1, <3>1
  <2>8. n1 + f <= n + f1
    BY <2>3, <2>5, <2>6
  <2> QED BY <1>5, <1>6, <2>2, <2>7, <2>8
<1>9. CASE queue' = queue /\ ~Collect
  <2>1. n1 = n /\ f1 = f
    BY <1>2, <1>4, <1>6, <1>9 DEF Has
  <2>2. CASE s \in transit
    <3>1. n1 + f <= n + f1
      BY <1>6, <2>1
    <3> QED BY <1>5, <1>6, <1>9, <2>2, <3>1
  <2>3. CASE s \notin transit
    <3>1. ConsumerPuts
      <4>1. MainFinishes => transit' = transit \cup {Finish}
        BY DEF MainFinishes
      <4>2. PutRuns => transit' \subseteq transit
        BY DEF PutRuns
      <4> QED BY <1>0, <2>3, <4>1, <4>2, DataStep DEF DataFrames
    <3>2. /\ at["consumer"] = "on" /\ resultq # <<>> /\ s = Head(resultq)
      BY <2>3, <3>1 DEF ConsumerPuts, RunningAt, RunningIn
    <3>3. transit = {} /\ ~Sent
      BY <3>2 DEF Stored
    <3>4. 1 \in 1..Len(resultq) /\ resultq[1] = s
      BY <1>0, <3>2, EmptySeq, HeadTailProperties
    <3>5. Has(resultq, s)
      BY <3>4 DEF Has
    <3>6. Old(s) \in Int /\ Old(s)' \in Int /\ Old(s) + ReadNow = Old(s)' + ReadNow'
      BY <1>9, <3>5, StampKept, OldStep
    <3>7. Old(s) + ReadNow + Len(queue) + In(transit # {}) + 1 <= Limit + 1
      BY <3>3, <3>4 DEF Aging
    <3>8. In(transit # {}) = 0
      BY <3>3 DEF In
    <3>9. PICK o \in Int, o1 \in Int : o = Old(s) /\ o1 = Old(s)'
      BY <3>6
    <3>10. o + r + n + 0 + 1 <= l + 1 /\ o + r = o1 + r1
      BY <1>4, <3>6, <3>7, <3>8, <3>9
    <3>11. o1 + r1 + n1 <= l + f1
      BY <1>2, <2>1, <3>10
    <3> QED BY <1>4, <3>9, <3>11
  <2> QED BY <2>2, <2>3
<1> QED BY <1>7, <1>8, <1>9, DataStep, StreamingBefore DEF DataFrames

LEMMA AgingResults ==
  ASSUME LInv, Hand, Stored, Conserved, Training, Dated, Streaming, Filling, Spending, Aging,
         [Next]_vars, Streaming'
  PROVE  (~Sent => \A i \in 1..Len(resultq) :
            Old(resultq[i]) + ReadNow + Len(queue) + In(transit # {}) + i <= Limit + 1)'
<1>0. /\ queue \in Seq(Samples \cup {Finish}) /\ resultq \in Seq(Samples) /\ Len(queue) \in Nat
      /\ Limit' = Limit /\ Limit \in Nat /\ ReadNow \in Nat /\ ReadNow' \in Nat
      /\ queue' \in Seq(Samples \cup {Finish}) /\ Len(queue') \in Nat
      /\ DOMAIN at = Coroutines /\ Order /\ TaskList
  BY ReadStep, QuotaType, StoredStep, LenProperties DEF Stored, Hand, LInv, Scheduling, Points
<1>1. resultq' \in Seq(Samples)
  BY HandFree, HandStep DEF Hand
<1>2. SUFFICES ASSUME ~Sent', NEW i \in 1..Len(resultq')
               PROVE (Old(resultq[i]) + ReadNow + Len(queue) + In(transit # {}) + i <= Limit + 1)'
  OBVIOUS
<1>3. PICK s \in Samples : s = resultq'[i]
  BY <1>1, ElementOfSeq
<1>13. PICK e \in {0, 1}, e1 \in {0, 1} : e = In(transit # {}) /\ e1 = In(transit' # {})
  BY DEF In
<1> DEFINE Aged == Old(s)' + ReadNow' + Len(queue') + e1 + i <= Limit + 1
<1>4. SUFFICES Aged
  BY <1>0, <1>3, <1>13 DEF Old
<1>5. ~Sent /\ ~MainFinishes
  BY <1>2, SentStep
<1>6. PICK l \in Nat, r \in Nat, r1 \in Nat : l = Limit + 1 /\ r = ReadNow /\ r1 = ReadNow'
  BY <1>0
<1>7. PICK n \in Nat, n1 \in Nat : n = Len(queue) /\ n1 = Len(queue')
  BY <1>0
<1>8. l = Limit + 1 /\ r = ReadNow /\ r1 = ReadNow' /\ n = Len(queue) /\ n1 = Len(queue')
  BY <1>6, <1>7
<1> DEFINE Fits(k) == IF Collect THEN n1 + e1 + i + 1 <= n + e + k ELSE n1 + e1 + i <= n + e + k
\* It was in the result queue.
<1>9. ASSUME NEW k \in 1..Len(resultq), resultq[k] = s, Fits(k)
      PROVE  Aged
  <2>1. Has(resultq, s)
    BY <1>9 DEF Has
  <2>2. /\ Old(s) \in Int /\ Old(s)' \in Int /\ (Collect => Old(s)' = Old(s))
        /\ ~Collect => Old(s) + ReadNow = Old(s)' + ReadNow'
    BY <2>1, StampKept, OldStep, ReadStep
  <2>3. PICK o \in Int, o1 \in Int : o = Old(s) /\ o1 = Old(s)'
    BY <2>2
  <2>4. o + r + n + e + k <= l
    BY <1>5, <1>8, <1>9, <1>13, <2>3 DEF Aging
  <2>5. o1 + r1 + n1 + e1 + i <= o + r + n + e + k
    <3>1. CASE Collect
      <4>1. r1 = r + 1 /\ o1 = o /\ n1 + e1 + i + 1 <= n + e + k
        BY <1>8, <1>9, <2>2, <2>3, <3>1, ReadStep
      <4> QED BY <4>1
    <3>2. CASE ~Collect
      <4>1. o + r = o1 + r1 /\ n1 + e1 + i <= n + e + k
        BY <1>8, <1>9, <2>2, <2>3, <3>2
      <4> QED BY <4>1
    <3> QED BY <3>1, <3>2
  <2>6. o1 + r1 + n1 + e1 + i <= l
    BY <2>4, <2>5
  <2> QED BY <1>8, <2>3, <2>6
<1>14. i \in Nat /\ e \in Nat /\ e1 \in Nat
  BY <1>0, <1>1, <1>2, <1>13, LenProperties
<1> HIDE DEF Aged, Fits
<1>10. CASE ~TaskEnd /\ ~ConsumerPuts
  <2>1. resultq' = resultq
    BY <1>10, DataStep DEF DataFrames
  <2>2. i \in 1..Len(resultq) /\ resultq[i] = s
    BY <1>3, <2>1
  <2>3. CASE ~PutRuns /\ ~Collect
    <3>1. queue' = queue /\ transit' = transit
      BY <1>5, <1>10, <2>3, DataStep, StreamingBefore DEF DataFrames
    <3>2. Fits(i)
      <4>1. n1 = n /\ e1 = e
        BY <1>7, <1>13, <3>1
      <4> QED BY <1>14, <2>3, <4>1 DEF Fits
    <3> QED BY <1>9, <2>2, <3>2
  <2>4. CASE Collect
    <3>1. n1 + 1 = n /\ e1 = e
      <4>1. transit' = transit
        BY <2>4 DEF Collect, rVars, queues
      <4> QED BY <1>8, <1>13, <2>4, <4>1, CollectTail
    <3>2. Fits(i)
      BY <1>7, <1>14, <2>4, <3>1 DEF Fits
    <3> QED BY <1>9, <2>2, <3>2
  <2>5. CASE PutRuns
    <3>1. PICK m \in transit : PutSample(m, conf.maxRequired) /\ transit' = transit \ {m}
      BY <2>5 DEF PutRuns
    <3>2. ~Collect
      <4>1. Collect => transit' = transit
        BY DEF Collect, rVars, queues
      <4> QED BY <3>1, <4>1
    <3>3. e = 1 /\ e1 = 0
      <4>1. transit' = {}
        BY <1>5, <3>1 DEF Stored
      <4> QED BY <1>13, <3>1, <4>1 DEF In
    <3>4. n1 <= n + 1
      <4>1. \E q \in {queue, Tail(queue)} :
              /\ Len(queue') = Len(q) + 1
              /\ q = queue \/ (q = Tail(queue) /\ queue # <<>>)
        BY <3>1, PutEffect
      <4>2. queue # <<>> => Len(Tail(queue)) = Len(queue) - 1
        BY <1>0, HeadTailProperties
      <4> QED BY <1>0, <1>8, <4>1, <4>2
    <3>5. Fits(i)
      BY <1>14, <1>7, <3>2, <3>3, <3>4 DEF Fits
    <3> QED BY <1>9, <2>2, <3>5
  <2> QED BY <2>3, <2>4, <2>5
<1>11. CASE ConsumerPuts
  <2>1. /\ resultq # <<>> /\ resultq' = Tail(resultq) /\ UNCHANGED queue /\ at["consumer"] = "on"
    BY <1>11 DEF ConsumerPuts, RunningAt, RunningIn, mqVars
  <2>2. Len(resultq') = Len(resultq) - 1 /\ Len(resultq) \in Nat
        /\ \A k \in 1..Len(resultq') : resultq'[k] = resultq[k + 1]
    BY <1>0, <2>1, HeadTailProperties, LenProperties
  <2>3. i + 1 \in 1..Len(resultq) /\ resultq[i + 1] = s
    BY <1>3, <2>2
  <2>4. ~Collect
    <3>1. Collect => Len(resultq') = Len(resultq)
      BY DEF Collect, rVars, queues
    <3> QED BY <2>2, <3>1
  <2>5. e = 0 /\ n1 = n
    BY <1>8, <1>13, <2>1 DEF Stored, In
  <2>6. Fits(i + 1)
    BY <1>7, <1>14, <2>4, <2>5 DEF Fits
  <2> QED BY <1>9, <2>3, <2>6
\* It was there, or comes from its task.
<1>12. CASE TaskEnd
  <2>1. /\ Running("task") /\ gen[Head(due)] # "created" /\ UNCHANGED <<stamp, queue, transit>>
        /\ resultq' = IF gen[Head(due)] = "complete" THEN Append(resultq, Head(due)) ELSE resultq
    BY <1>12 DEF TaskEnd, TaskFrame, mqVars
  <2>2. Head(due) \in Samples
    BY <1>0, <2>1, TaskRuns
  <2>3. ~Collect
    <3>1. Collect => Len(queue') = Len(queue) - 1
      BY CollectTail
    <3> QED BY <1>0, <2>1, <3>1
  <2>4. ASSUME i \in 1..Len(resultq), resultq[i] = s
        PROVE  Aged
    <3>1. Fits(i)
      <4>1. n1 = n /\ e1 = e
        BY <1>7, <1>13, <2>1
      <4> QED BY <1>7, <1>14, <2>3, <4>1 DEF Fits
    <3> QED BY <1>9, <2>4, <3>1
  <2>5. CASE gen[Head(due)] = "complete"
    <3>1. /\ Len(resultq') = Len(resultq) + 1 /\ resultq'[Len(resultq) + 1] = Head(due) /\ Len(resultq) \in Nat
          /\ \A k \in 1..Len(resultq) : resultq'[k] = resultq[k]
      BY <1>0, <2>1, <2>2, <2>5, AppendProperties, LenProperties
    <3>2. CASE i \in 1..Len(resultq)
      BY <1>3, <2>4, <3>1, <3>2
    <3>3. CASE i \notin 1..Len(resultq)
      <4>1. i = Len(resultq) + 1 /\ s = Head(due)
        BY <1>3, <3>1, <3>3
      <4>2. Old(s) + ReadNow <= Spent + Quota /\ Len(queue) + Len(resultq) + In(transit # {}) + 1 <= Flight
        BY <1>5, <2>5, <4>1, OldBusy, ResultsInFlight
      <4>3. Flight + Spent <= conf.maxRequired + Quota + 2 /\ Limit = 2 * Quota + conf.maxRequired + 1
        BY DEF Spending, Limit
      <4>4. /\ Old(s) \in Int /\ Old(s)' \in Int /\ Old(s) + ReadNow = Old(s)' + ReadNow'
        BY <2>1, <2>3, OldStep
      <4>5. PICK o \in Int, o1 \in Int, f \in Nat, p \in Nat, q \in Nat, m \in Nat :
              /\ o = Old(s) /\ o1 = Old(s)' /\ f = Flight /\ p = Spent /\ q = Quota
              /\ m = conf.maxRequired
        BY <4>4, QuotaType, FlightType DEF Flight
      <4>6. o + r <= p + q /\ o + r = o1 + r1 /\ f + p <= m + q + 2 /\ l = (2 * q + m + 1) + 1
        BY <1>8, <4>2, <4>3, <4>4, <4>5
      <4>7. n1 + e1 + i <= f
        <5>1. n1 = Len(queue) /\ e1 = In(transit # {})
          BY <1>8, <1>13, <2>1
        <5> QED BY <3>1, <4>1, <4>2, <4>5, <5>1
      <4>8. o1 + r1 + n1 + e1 + i <= l
        BY <4>6, <4>7
      <4> QED BY <1>8, <4>5, <4>8 DEF Aged
    <3> QED BY <3>2, <3>3
  <2>6. CASE gen[Head(due)] # "complete"
    <3>1. resultq' = resultq
      BY <2>1, <2>6
    <3> QED BY <1>3, <2>4, <3>1
  <2> QED BY <2>5, <2>6
<1> QED BY <1>10, <1>11, <1>12

-----------------------------------------------------------------------------
\* The invariant, and what it says of the batch.

LEMMA InitAge ==
  ASSUME Init
  PROVE  AgeInv
<1>1. Inv
  BY InitInv
<1>2. /\ conf \in Configs /\ queue = <<>> /\ batch = <<>> /\ resultq = <<>> /\ transit = {} /\ taken = 0
      /\ gen = [s \in Samples |-> "none"] /\ stamp = [s \in Samples |-> 0]
      /\ staleness = 0 /\ counted = 0 /\ rversion = 0 /\ version = 0
      /\ tpc = "collect" /\ local = 1 /\ final = FALSE
      /\ at["update"] = "off" /\ at["proc"] = "top"
  BY DEF Init, MQInit, RInit
<1>3. Stored /\ Training
  BY <1>1 DEF Inv
<1>4. /\ conf.required \in Nat \ {0} /\ Quota \in Nat \ {0} /\ conf.maxRequired \in Nat
  BY <1>3, QuotaType
<1>5. ReadNow = 0
  <2>1. local - 1 = 0 /\ Len(batch) = 0 /\ 0 * conf.required = 0
    BY <1>2, <1>4
  <2> QED BY <1>4, <2>1 DEF ReadNow
<1>6. Spent = 0
  <2>1. ~Syncing /\ ~Updating
    BY <1>2 DEF Syncing, Updating
  <2> QED BY <1>5, <2>1 DEF Spent
<1>7. Flight = 0
  <2>1. InFlight = {}
    BY <1>2 DEF InFlight
  <2> QED BY <2>1, FS_EmptySet DEF Flight
<1>8. Filling
  BY <1>2, <1>4, <1>5 DEF Filling, Syncing
<1>9. Spending
  BY <1>2, <1>4, <1>6, <1>7 DEF Spending
<1>10. Aging
  BY <1>2 DEF Aging
<1>11. Dated
  <2>1. \A s \in Samples : stamp[s] = 0 /\ gen[s] = "none"
    BY <1>2
  <2> QED BY <1>2, <2>1 DEF Dated
<1> QED BY <1>1, <1>8, <1>9, <1>10, <1>11 DEF AgeInv

LEMMA AgeStep ==
  ASSUME AgeInv, [Next]_vars
  PROVE  AgeInv'
<1>1. /\ Inv /\ LInv /\ Hand /\ Stored /\ Conserved /\ Training /\ Covered /\ Dated
      /\ Streaming => Filling /\ Spending /\ Aging
  BY DEF AgeInv, Inv
<1>2. Inv' /\ Dated'
  BY <1>1, InvStep, DatedStep
<1>3. ASSUME Streaming' PROVE Filling' /\ Spending' /\ Aging'
  <2>1. Streaming /\ Filling /\ Spending /\ Aging
    BY <1>1, <1>3, StreamingBefore
  <2>2. Filling' /\ Spending'
    BY <1>1, <1>3, <2>1, ReadStep, SpendingStep
  <2>3. Aging'
    BY <1>1, <1>3, <2>1, AgingBatch, AgingQueue, AgingTransit, AgingResults DEF Aging
  <2> QED BY <2>2, <2>3
<1> QED BY <1>2, <1>3 DEF AgeInv

LEMMA AgeInvariant == SafeSpec => []AgeInv
BY InitAge, AgeStep, PTL DEF SafeSpec

\* A sample that is trained on was generated at most (maxRequired + 1) \div (required * triggerStep)
\* + 2 versions ago, whatever cancellations, synchronisations and waits it has been through.
THEOREM AgeIsBounded == SafeSpec => []AgeBounded
<1>1. ASSUME AgeInv PROVE AgeBounded
  <2>1. Stored /\ Training /\ Dated /\ (Streaming => Aging)
    BY <1>1 DEF AgeInv, Inv
  <2>2. SUFFICES ASSUME tpc \in {"collect", "train"}, NEW i \in DOMAIN batch
                 PROVE  version - stamp[batch[i]] <= (conf.maxRequired + 1) \div (conf.required * conf.triggerStep) + 2
    BY DEF AgeBounded
  <2>3. Streaming
    BY <2>1, <2>2 DEF Streaming, Training
  <2>4. i \in 1..Len(batch) /\ batch \in Seq(Samples)
    BY <2>1, <2>2, LenProperties DEF Stored
  <2>5. batch[i] \in Samples
    BY <2>4, ElementOfSeq
  <2>6. Old(batch[i]) <= Limit
    BY <2>1, <2>3, <2>4 DEF Aging
  <2>7. /\ Quota \in Nat \ {0} /\ conf.maxRequired \in Nat /\ version \in Nat /\ stamp[batch[i]] \in Nat
    BY <2>1, <2>5, QuotaType DEF Dated
  <2>8. PICK a \in Int : a = version - stamp[batch[i]]
    BY <2>7
  <2>9. a * Quota <= 2 * Quota + (conf.maxRequired + 1)
    BY <2>6, <2>7, <2>8 DEF Old, Limit
  <2>10. a <= ((conf.maxRequired + 1) \div Quota) + 2
    BY <2>7, <2>9, AgeLimit
  <2> QED BY <2>8, <2>10 DEF Quota
<1> QED BY <1>1, AgeInvariant, PTL
================================================================================
