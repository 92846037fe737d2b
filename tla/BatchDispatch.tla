----------------------------- MODULE BatchDispatch -----------------------------
(***************************************************************************)
(* The way of a batch through the workers and back: the driver balances    *)
(* it over the workers, filters it, and sends each data-parallel rank its  *)
(* chunk; a worker cuts the chunk into micro-batches of about              *)
(* max_token_len tokens, runs the model on each of them together with the  *)
(* other workers, and puts the log probabilities back in the order of its  *)
(* rows; the driver collects them.                                         *)
(*                                                                         *)
(* Both partitions are Karmarkar-Karp's largest differencing method, one   *)
(* merge per step.  A sample is its row in the batch before balancing, and *)
(* its log probability is identified with it.                              *)
(***************************************************************************)
EXTENDS Integers, Sequences, FiniteSets, FiniteSetsExt, SequencesExt

CONSTANT Configs  \* the batches and the settings covered

ASSUME DispatchAssumption ==
  \A c \in Configs :
    /\ c.prompts \in Nat \ {0} /\ c.n \in Nat \ {0}
    /\ c.labeled \subseteq 1..c.prompts /\ c.labeled # {}
    /\ c.world \in Nat \ {0} /\ c.sp \in Nat \ {0} /\ c.maxToken \in Nat \ {0}
    /\ c.world % c.sp = 0 /\ (c.prompts * c.n) % c.world = 0
    \* The assertion on max_token_len, which is maxToken for each GPU of the sequence.
    /\ \A l \in c.lens : \A r \in 1..c.prompts * c.n : l[r] \in 1..c.maxToken * c.sp

VARIABLES
  conf,   \* the settings
  lens,   \* length of each sample: its row of attention_mask, summed
  pc,     \* where the driver is
  batch,  \* the samples in the order of the driver's batch
  driver, \* states_pq of _balance_batch
  at,     \* where each worker is in compute_log_prob
  chunk,  \* the samples a worker was sent
  count,  \* num_micro_batches of a worker
  heap,   \* states_pq of a worker
  micro,  \* micro_bsz_idx of a worker
  turn,   \* the micro-batch the workers run next
  out,    \* log_probs_lst of a worker, concatenated
  result  \* old_log_probs

onWorkers == <<at, chunk, count, heap, micro, turn, out>>
vars == <<conf, lens, pc, batch, driver, onWorkers, result>>

Rows == 1..conf.prompts * conf.n
Workers == 0..conf.world - 1

-----------------------------------------------------------------------------
\* karmarkar_karp.  A set is [sum, items]; a state is a sequence of k sets in
\* decreasing order; items are indices into the workloads.

\* 6 * 4096 * seqlen + seqlen^2
Workload(len) == 24576 * len + len * len

Loads(samples) == [i \in DOMAIN samples |-> Workload(lens[samples[i]])]

NoItems == [sum |-> 0, items |-> <<>>]
OneItem(loads, i) == [sum |-> loads[i], items |-> <<i>>]
Joined(s, t) == [sum |-> s.sum + t.sum, items |-> s.items \o t.items]

\* The members of S in the order op.
Sorted(S, op(_, _)) ==
  [k \in 1..Cardinality(S) |-> CHOOSE x \in S : Cardinality({y \in S : op(y, x)}) = k - 1]

\* Python's order of lists, for lists of one length.
ListLess(s, t) == \E i \in DOMAIN s : s[i] < t[i] /\ \A j \in 1..i - 1 : s[j] = t[j]

\* Set.__lt__: by sum, then by number of items, then by the items.
Less(s, t) ==
  \/ s.sum < t.sum
  \/ s.sum = t.sum /\ Len(s.items) < Len(t.items)
  \/ s.sum = t.sum /\ Len(s.items) = Len(t.items) /\ ListLess(s.items, t.items)

Decreasing(sets) ==
  LET order == Sorted(DOMAIN sets, LAMBDA i, j : Less(sets[j], sets[i]) \/ (~Less(sets[i], sets[j]) /\ i < j))
  IN  [k \in DOMAIN sets |-> sets[order[k]]]

Spread(state) == Head(state).sum - Last(state).sum

\* State.__lt__: the largest spread is popped first.
Before(s, t) ==
  \/ Spread(s) > Spread(t)
  \/ Spread(s) = Spread(t) /\ Less(Head(t), Head(s))

\* No state is popped before s.
Popped(s, states) == s \in states /\ \A t \in states : ~Before(t, s)

\* Mutant: the largest set gets the largest.
MergedAlike(s, t) == Decreasing([i \in DOMAIN s |-> Joined(s[i], t[i])])

\* State.merge: the largest set of one gets the smallest of the other.
Merged(s, t) == Decreasing([i \in DOMAIN s |-> Joined(s[i], t[Len(s) + 1 - i])])

\* s and t are popped one after the other.
PoppedTwo(s, t, states) == Popped(s, states) /\ Popped(t, states \ {s})

\* One turn of the loop over states_pq.
MergeTwo(s, t, states) == (states \ {s, t}) \cup {Merged(s, t)}

\* Indices by increasing workload.
Ascending(loads, S) ==
  Sorted(S, LAMBDA i, j : loads[i] < loads[j] \/ (loads[i] = loads[j] /\ i < j))

\* equal_size: the items by decreasing workload, in groups of k.
Groups(loads, k) ==
  LET order == Ascending(loads, DOMAIN loads)
      sets == [i \in DOMAIN order |-> OneItem(loads, order[Len(order) + 1 - i])]
  IN  {SubSeq(sets, g * k + 1, (g + 1) * k) : g \in 0..Len(loads) \div k - 1}

\* Otherwise every item starts alone.
Singles(loads, k) ==
  {[j \in 1..k |-> IF j = 1 THEN OneItem(loads, i) ELSE NoItems] : i \in DOMAIN loads}

\* s[::2] and s[1::2]
Evens(s) == [i \in 1..(Len(s) + 1) \div 2 |-> s[2 * i - 1]]
Odds(s) == [i \in 1..Len(s) \div 2 |-> s[2 * i]]

-----------------------------------------------------------------------------
Init ==
  /\ conf \in Configs /\ lens \in conf.lens
  /\ pc = "balance" /\ batch = [r \in Rows |-> r] /\ driver = Groups(Loads(batch), conf.world)
  /\ at = [w \in Workers |-> "idle"] /\ chunk = [w \in Workers |-> <<>>]
  /\ count = [w \in Workers |-> 0] /\ heap = [w \in Workers |-> {}]
  /\ micro = [w \in Workers |-> <<>>] /\ turn = 1 /\ out = [w \in Workers |-> <<>>]
  /\ result = <<>>

\* The driver.

Balance ==
  /\ pc = "balance" /\ Cardinality(driver) > 1
  /\ \E s, t \in driver : PoppedTwo(s, t, driver) /\ driver' = MergeTwo(s, t, driver)
  /\ UNCHANGED <<pc, batch, onWorkers, result>>

\* The short samples of a worker go to both ends; batch.reorder.
Reorder ==
  /\ pc = "balance" /\ Cardinality(driver) = 1
  /\ LET ends(s) == LET up == Ascending(Loads(batch), ToSet(s.items)) IN Evens(up) \o Reverse(Odds(up))
     IN  \E state \in driver : batch' = FlattenSeq([i \in DOMAIN state |-> ends(state[i])])
  /\ pc' = "filter"
  /\ UNCHANGED <<driver, onWorkers, result>>

PromptOf(r) == (r - 1) \div conf.n + 1

\* Mutants: the labeled prompts are among the selected ones; rows are selected one by one.
KeptTwice(sel) == SelectSeq(batch, LAMBDA r : PromptOf(r) \in conf.labeled)
                  \o SelectSeq(batch, LAMBDA r : PromptOf(r) \in sel \cup conf.labeled)
KeptRows(sel) == SelectSeq(batch, LAMBDA r : PromptOf(r) \in conf.labeled)
                 \o SelectSeq(batch, LAMBDA r : PromptOf(r) \in sel /\ r % 2 = 1)

\* Where a row of the batch goes: the labeled rows are first, a selected prompt has the
\* place of its first row.
Group(i) ==
  IF PromptOf(batch[i]) \in conf.labeled THEN 0
  ELSE Min({j \in DOMAIN batch : PromptOf(batch[j]) = PromptOf(batch[i])})

\* keep_indices: the labeled rows, then the selected prompts one after the other.
Kept(sel) ==
  LET kept == {i \in DOMAIN batch : PromptOf(batch[i]) \in conf.labeled \cup sel}
      order == Sorted(kept, LAMBDA i, j : Group(i) < Group(j) \/ (Group(i) = Group(j) /\ i < j))
  IN  [k \in 1..Cardinality(kept) |-> batch[order[k]]]

\* Warm-up selects no unlabeled prompt.
Filter ==
  /\ pc = "filter" /\ pc' = "dispatch"
  /\ \E sel \in SUBSET (1..conf.prompts \ conf.labeled) : batch' = Kept(sel)
  /\ UNCHANGED <<driver, onWorkers, result>>

\* Workers of one sequence-parallel group are one data-parallel rank.
DpSize == conf.world \div conf.sp
DpRank(w) == w \div conf.sp
Collects(w) == w % conf.sp = 0

\* DataProto.chunk: only equal chunks.
Divides == Len(batch) % DpSize = 0

Dispatch ==
  /\ pc = "dispatch" /\ Divides
  /\ LET size == Len(batch) \div DpSize
     IN  chunk' = [w \in Workers |-> SubSeq(batch, DpRank(w) * size + 1, (DpRank(w) + 1) * size)]
  /\ pc' = "wait" /\ at' = [w \in Workers |-> "count"]
  /\ UNCHANGED <<batch, driver, count, heap, micro, turn, out, result>>

DispatchFails ==
  /\ pc = "dispatch" /\ ~Divides
  /\ pc' = "chunk_error"
  /\ UNCHANGED <<batch, driver, onWorkers, result>>

Collect ==
  /\ pc = "wait" /\ \A w \in Workers : at[w] = "returned"
  /\ result' = FlattenSeq([i \in 1..DpSize |-> out[(i - 1) * conf.sp]])
  /\ pc' = "done"
  /\ UNCHANGED <<batch, driver, onWorkers>>

-----------------------------------------------------------------------------
\* The workers.

Tokens(samples) ==
  LET sum[i \in 0..Len(samples)] == IF i = 0 THEN 0 ELSE sum[i - 1] + lens[samples[i]]
  IN  sum[Len(samples)]

\* The rows of a worker's micro-batch.
Samples(w, indices) == [i \in DOMAIN indices |-> chunk[w][indices[i]]]

MaxTokenLen == conf.maxToken * conf.sp

CeilDiv(a, b) == (a + b - 1) \div b

Count(w) ==
  /\ at[w] = "count"
  /\ count' = [count EXCEPT ![w] = Min({Len(chunk[w]), CeilDiv(Tokens(chunk[w]), MaxTokenLen)})]
  /\ at' = [at EXCEPT ![w] = "reduce"]
  /\ UNCHANGED <<chunk, heap, micro, turn, out>>

\* Mutant: a worker goes on with its own number.
AllReduceOwn ==
  /\ \A w \in Workers : at[w] = "reduce"
  /\ heap' = [w \in Workers |-> Singles(Loads(chunk[w]), count[w])]
  /\ at' = [w \in Workers |-> "merge"] /\ UNCHANGED <<count, chunk, micro, turn, out>>

\* all_reduce(MAX) returns when every worker has called it.
AllReduce ==
  /\ \A w \in Workers : at[w] = "reduce"
  /\ LET most == Max({count[w] : w \in Workers})
     IN  /\ count' = [w \in Workers |-> most]
         /\ heap' = [w \in Workers |-> Singles(Loads(chunk[w]), most)]
  /\ at' = [w \in Workers |-> "merge"]
  /\ UNCHANGED <<chunk, micro, turn, out>>

Merge(w) ==
  /\ at[w] = "merge" /\ Cardinality(heap[w]) > 1
  /\ \E s, t \in heap[w] :
       PoppedTwo(s, t, heap[w]) /\ heap' = [heap EXCEPT ![w] = MergeTwo(s, t, heap[w])]
  /\ UNCHANGED <<at, chunk, count, micro, turn, out>>

\* Each part sorted; the heaviest first, and those of even rank before the others.
MicroBatches(state) ==
  LET parts == [i \in DOMAIN state |-> [load |-> state[i].sum, indices |-> Sorted(ToSet(state[i].items), <)]]
      heavier(p, q) == p.load > q.load \/ (p.load = q.load /\ Head(p.indices) > Head(q.indices))
      sorted == Sorted(DOMAIN parts, LAMBDA i, j : heavier(parts[i], parts[j]))
      order == Reverse(Evens(sorted)) \o Odds(sorted)
  IN  [i \in DOMAIN order |-> parts[order[i]].indices]

Cut(w) ==
  /\ at[w] = "merge" /\ Cardinality(heap[w]) = 1
  /\ \E state \in heap[w] : micro' = [micro EXCEPT ![w] = MicroBatches(state)]
  /\ at' = [at EXCEPT ![w] = "forward"]
  /\ UNCHANGED <<chunk, count, heap, turn, out>>

\* The sharded model gathers its weights in every forward pass: all workers run
\* theirs together.
Forward ==
  /\ \A w \in Workers : at[w] = "forward" /\ turn <= Len(micro[w])
  /\ out' = [w \in Workers |-> out[w] \o Samples(w, micro[w][turn])]
  /\ turn' = turn + 1
  /\ UNCHANGED <<at, chunk, count, heap, micro>>

\* Mutant: the rows are permuted once more instead of back.
RestoredTwice(data, indices) == [i \in DOMAIN data |-> data[indices[i]]]

\* restore_dynamic_batch: get_reverse_idx(indices)[indices[i]] = i.
Restored(data, indices) ==
  LET reverse == [j \in DOMAIN data |-> CHOOSE i \in DOMAIN indices : indices[i] = j]
  IN  [j \in DOMAIN data |-> data[reverse[j]]]

Restore(w) ==
  /\ at[w] = "forward" /\ turn > Len(micro[w])
  /\ out' = [out EXCEPT ![w] = Restored(out[w], FlattenSeq(micro[w]))]
  /\ at' = [at EXCEPT ![w] = "returned"]
  /\ UNCHANGED <<chunk, count, heap, micro, turn>>

-----------------------------------------------------------------------------
Driver ==
  /\ Balance \/ Reorder \/ Filter \/ Dispatch \/ DispatchFails \/ Collect
  /\ UNCHANGED <<conf, lens>>

Work ==
  /\ \/ AllReduce \/ Forward
     \/ \E w \in Workers : Count(w) \/ Merge(w) \/ Cut(w) \/ Restore(w)
  /\ UNCHANGED <<conf, lens, pc, batch, driver, result>>

Ended == {"done", "chunk_error"}

\* A worker whose peers do not join a collective waits; an ended call stays as it is.
Wait ==
  /\ pc \in Ended \/ \E w \in Workers : at[w] \in {"reduce", "forward"}
  /\ UNCHANGED vars

Next == Driver \/ Work \/ Wait

\* The driver and the workers keep running.
Spec == Init /\ [][Next]_vars /\ WF_vars(Next)

-----------------------------------------------------------------------------
\* Properties.

\* The types of the driver's and the workers' state.
TypeOK ==
  /\ conf \in Configs /\ lens \in conf.lens
  /\ pc \in Ended \cup {"balance", "filter", "dispatch", "wait"}
  /\ batch \in Seq(Rows) /\ result \in Seq(Rows) /\ IsInjective(batch)
  /\ at \in [Workers -> {"idle", "count", "reduce", "merge", "forward", "returned"}]
  /\ \A w \in Workers :
       /\ chunk[w] \in Seq(Rows) /\ out[w] \in Seq(Rows) /\ micro[w] \in Seq(Seq(Rows))
       /\ count[w] \in 0..Len(chunk[w])
  /\ turn \in Nat \ {0}

Indices(state) == UNION {ToSet(state[i].items) : i \in DOMAIN state}

\* Every index has one place.
Holds(states, indices) ==
  /\ UNION {Indices(state) : state \in states} = indices
  /\ \A s, t \in states : \A i \in DOMAIN s, j \in DOMAIN t :
       \A p \in DOMAIN s[i].items, q \in DOMAIN t[j].items :
         s[i].items[p] = t[j].items[q] => s = t /\ i = j /\ p = q

\* From the first merge to the last the states of a heap hold every row exactly once, and
\* at the end the assertions on the partitions hold: the driver's parts are of one size,
\* and no micro-batch is empty although the all-reduce may ask a worker for more of them
\* than its own tokens need.
Partitioned ==
  /\ Holds(driver, Rows)
  /\ \A w \in Workers : heap[w] # {} => Holds(heap[w], DOMAIN chunk[w])
  /\ Cardinality(driver) = 1 =>
       \A s \in driver : \A i \in DOMAIN s : Len(s[i].items) * conf.world = Cardinality(Rows)
  /\ \A w \in Workers : Cardinality(heap[w]) = 1 =>
       \A s \in heap[w] : \A i \in DOMAIN s : s[i].items # <<>>

\* Merging never widens a spread: no rank is given more work than another by more
\* than one sample can differ from another, and no micro-batch is heavier than
\* another by more than one sample.
SpreadBounded ==
  /\ LET work == ToSet(Loads([r \in Rows |-> r]))
     IN  \A s \in driver : Spread(s) <= Max(work) - Min(work)
  /\ \A w \in Workers : \A s \in heap[w] : Spread(s) <= Max(ToSet(Loads(chunk[w])))

\* The log probability in each row is that of the sample in this row of the batch,
\* after two reorderings, the cut into micro-batches, and the way back.
ResultsMatchRows == pc = "done" => result = batch

\* When rollout.n is a multiple of the number of data-parallel ranks every filtered
\* batch can be dispatched, whatever prompts it keeps.
DivisibleDispatches == conf.n % DpSize = 0 => pc # "chunk_error"

\* Every call returns: the workers agree on the number of forward passes, so none of
\* them waits in a collective the others never join.
Finishes == <>(pc \in Ended)

=============================================================================
