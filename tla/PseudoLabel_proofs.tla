--------------------------- MODULE PseudoLabel_proofs ---------------------------
(***************************************************************************)
(* The truth that a pseudo label overwrites is never lost (RealMeasured),  *)
(* for any prompts, answers, number of responses and passes, and any       *)
(* relation verify; and where verify is an equivalence the label is the    *)
(* answer of the strict plurality (PluralityLabel).                        *)
(***************************************************************************)
EXTENDS PseudoLabel, SequenceTheorems, FiniteSetTheorems, WellFoundedInduction, TLAPS

\* The dictionaries have an entry for every prompt, and a vote is on one of them.
Shapes ==
  /\ todo \subseteq Prompts /\ (pc = "vote" => prompt \in Prompts)
  /\ row = [p \in Prompts |-> row[p]]
  /\ real_gt = [p \in Prompts |-> real_gt[p]] /\ majority = [p \in Prompts |-> majority[p]]
  /\ right \in [Prompts -> BOOLEAN]
  /\ judged = [p \in Prompts |-> [real |-> judged[p].real, majority |-> judged[p].majority]]
  /\ ckpt = [real_gt |-> ckpt.real_gt, majority |-> ckpt.majority, right |-> ckpt.right]
  /\ ckpt.real_gt = [p \in Prompts |-> ckpt.real_gt[p]]
  /\ ckpt.majority = [p \in Prompts |-> ckpt.majority[p]]
  /\ ckpt.right \in [Prompts -> BOOLEAN]

\* A row that is not the dataset's is that of an unlabeled prompt whose truth is kept.
TruthKept ==
  \A p \in Prompts :
    /\ real_gt[p] \in {Unknown, conf.truth}
    /\ row[p] = conf.truth \/ (p \notin Labeled /\ real_gt[p] = conf.truth)

\* What was measured last was measured against the truth.
JudgedTruly ==
  \A p \in Prompts :
    /\ judged[p].real = conf.truth
    /\ right[p] = (<<conf.truth, majority[p]>> \in conf.verify)

\* The same of the checkpoint, which is read with fresh rows.
CheckpointTrue ==
  \A p \in Prompts :
    /\ ckpt.real_gt[p] \in {Unknown, conf.truth}
    /\ ckpt.right[p] = (<<conf.truth, ckpt.majority[p]>> \in conf.verify)

IInv == conf \in Configs /\ Shapes /\ TruthKept /\ JudgedTruly /\ CheckpointTrue

-----------------------------------------------------------------------------
LEMMA InitHolds == Init => IInv
<1> SUFFICES ASSUME Init PROVE IInv
  OBVIOUS
<1>1. conf \in Configs /\ Shapes
  BY DEF Init, Shapes, Saved
<1>2. \A x : <<x, NoMajority>> \notin conf.verify
  BY <1>1, PseudoLabelAssumption
<1>3. TruthKept
  BY DEF Init, TruthKept
<1>4. JudgedTruly
  <2> SUFFICES ASSUME NEW p \in Prompts
      PROVE  judged[p].real = conf.truth /\ right[p] = (<<conf.truth, majority[p]>> \in conf.verify)
    BY DEF JudgedTruly
  <2>1. judged[p].real = conf.truth /\ right[p] = FALSE /\ majority[p] = NoMajority
    BY DEF Init
  <2>2. (<<conf.truth, NoMajority>> \in conf.verify) = FALSE
    BY <1>2
  <2> QED BY <2>1, <2>2
<1>5. CheckpointTrue
  BY <1>4 DEF Init, CheckpointTrue, JudgedTruly, Saved
<1> QED BY <1>1, <1>3, <1>4, <1>5 DEF IInv

\* Restoring the ground truth gives the truth, whatever the row says.
LEMMA RestoredIsTruth ==
  ASSUME IInv, prompt \in Prompts
  PROVE  Restored = conf.truth
<1>1. real_gt[prompt] = Unknown => row[prompt] = conf.truth
  BY PseudoLabelAssumption DEF IInv, TruthKept
<1> QED BY <1>1 DEF Restored, IInv, TruthKept

\* Steps that leave rows, votes and the checkpoint alone.
LEMMA QuietStep ==
  ASSUME IInv, UNCHANGED <<conf, row, state, ckpt>>,
         todo' \subseteq Prompts, pc' = "vote" => prompt' \in Prompts
  PROVE  IInv'
<1>1. Shapes'
  BY DEF IInv, Shapes, state
<1> QED BY <1>1 DEF IInv, TruthKept, JudgedTruly, CheckpointTrue, state

\* What replacing the real pass rate's measure does to each entry.
LEMMA RealUpdate ==
  ASSUME Shapes, NEW v, judged' = [judged EXCEPT ![prompt].real = v]
  PROVE  judged' = [p \in Prompts |-> [real |-> IF p = prompt THEN v ELSE judged[p].real,
                                       majority |-> judged[p].majority]]
<1> DEFINE new == [p \in Prompts |-> [real |-> IF p = prompt THEN v ELSE judged[p].real,
                                      majority |-> judged[p].majority]]
<1>1. judged = [p \in Prompts |-> [real |-> judged[p].real, majority |-> judged[p].majority]]
  BY DEF Shapes
<1>2. judged' = [p \in Prompts |-> IF p = prompt THEN [judged[p] EXCEPT !.real = v] ELSE judged[p]]
  BY <1>1
<1>3. ASSUME NEW p \in Prompts
      PROVE  [judged[p] EXCEPT !.real = v] = [real |-> v, majority |-> judged[p].majority]
  <2>1. judged[p] = [real |-> judged[p].real, majority |-> judged[p].majority]
    BY <1>1
  <2> QED BY <2>1
<1>4. \A p \in Prompts : judged'[p] = new[p]
  BY <1>1, <1>2, <1>3
<1> QED BY <1>2, <1>4

LEMMA LabeledStep ==
  ASSUME IInv, LabelLabeled
  PROVE  IInv'
<1> DEFINE answer == IF Winner = Unparsable THEN NoMajority ELSE Winner
<1>1. /\ prompt \in Prompts /\ prompt \in Labeled
      /\ majority' = [majority EXCEPT ![prompt] = answer]
      /\ right' = [right EXCEPT ![prompt] = IsRight(row[prompt], answer)]
      /\ judged' = [judged EXCEPT ![prompt].real = row[prompt]]
      /\ UNCHANGED <<conf, todo, prompt, row, real_gt, ckpt>>
  BY DEF LabelLabeled, EndPrompt, voting, Prompts
<1> HIDE DEF answer
<1>2. row[prompt] = conf.truth
  BY <1>1 DEF IInv, TruthKept
<1>3. judged' = [p \in Prompts |-> [real |-> IF p = prompt THEN row[prompt] ELSE judged[p].real,
                                    majority |-> judged[p].majority]]
  BY <1>1, RealUpdate DEF IInv
<1>4. Shapes'
  <2>1. right' \in [Prompts -> BOOLEAN]
    <3>1. IsRight(row[prompt], answer) \in BOOLEAN
      BY DEF IsRight
    <3> QED BY <1>1, <3>1 DEF IInv, Shapes
  <2>2. majority' = [p \in Prompts |-> majority'[p]]
    BY <1>1 DEF IInv, Shapes
  <2>3. judged' = [p \in Prompts |-> [real |-> judged'[p].real, majority |-> judged'[p].majority]]
    BY <1>3
  <2> QED BY <1>1, <2>1, <2>2, <2>3 DEF IInv, Shapes
<1>5. JudgedTruly'
  BY <1>1, <1>2, <1>3 DEF IInv, Shapes, JudgedTruly, IsRight
<1> QED BY <1>1, <1>4, <1>5 DEF IInv, TruthKept, CheckpointTrue

LEMMA UnlabeledStep ==
  ASSUME IInv, LabelUnlabeled
  PROVE  IInv'
<1> DEFINE answer == IF Unique THEN Winner ELSE NoMajority
<1>1. prompt \in Prompts /\ prompt \in Unlabeled
  BY DEF LabelUnlabeled, Prompts
<1>2. Restored = conf.truth
  BY <1>1, RestoredIsTruth
<1>3. /\ majority' = [majority EXCEPT ![prompt] = answer]
      /\ real_gt' = [real_gt EXCEPT ![prompt] = IF @ = Unknown THEN conf.truth ELSE @]
      /\ row' = [row EXCEPT ![prompt] = answer]
      /\ judged' = [judged EXCEPT ![prompt] = [real |-> conf.truth, majority |-> answer]]
      /\ right' = [right EXCEPT ![prompt] = IsRight(conf.truth, answer)]
      /\ UNCHANGED <<conf, todo, prompt, ckpt>>
  BY <1>2 DEF LabelUnlabeled, EndPrompt, voting
<1> HIDE DEF answer
<1>4. Shapes'
  <2>1. right' \in [Prompts -> BOOLEAN]
    <3>1. IsRight(conf.truth, answer) \in BOOLEAN
      BY DEF IsRight
    <3> QED BY <1>3, <3>1 DEF IInv, Shapes
  <2>2. judged' = [p \in Prompts |-> [real |-> IF p = prompt THEN conf.truth ELSE judged[p].real,
                                      majority |-> IF p = prompt THEN answer ELSE judged[p].majority]]
    BY <1>3 DEF IInv, Shapes
  <2>3. judged' = [p \in Prompts |-> [real |-> judged'[p].real, majority |-> judged'[p].majority]]
    BY <2>2
  <2>4. majority' = [p \in Prompts |-> majority'[p]]
    BY <1>3 DEF IInv, Shapes
  <2>5. real_gt' = [p \in Prompts |-> real_gt'[p]]
    BY <1>3 DEF IInv, Shapes
  <2>6. row' = [p \in Prompts |-> row'[p]]
    BY <1>3 DEF IInv, Shapes
  <2> QED BY <1>1, <1>3, <2>1, <2>3, <2>4, <2>5, <2>6 DEF IInv, Shapes
<1>5. TruthKept'
  BY <1>1, <1>3, PseudoLabelAssumption DEF IInv, Shapes, TruthKept
<1>6. JudgedTruly'
  BY <1>1, <1>3 DEF IInv, Shapes, JudgedTruly, IsRight
<1> QED BY <1>3, <1>4, <1>5, <1>6 DEF IInv, CheckpointTrue

LEMMA FailingStep ==
  ASSUME IInv, LabelFails
  PROVE  IInv'
<1>1. prompt \in Prompts
  BY DEF LabelFails, Prompts
<1>2. Restored = conf.truth
  BY <1>1, RestoredIsTruth
<1>3. /\ pc' = "error"
      /\ row' = [row EXCEPT ![prompt] = conf.truth]
      /\ judged' = [judged EXCEPT ![prompt].real = conf.truth]
      /\ UNCHANGED <<conf, todo, prompt, real_gt, majority, right, ckpt>>
  BY <1>2 DEF LabelFails, voting
<1>4. judged' = [p \in Prompts |-> [real |-> IF p = prompt THEN conf.truth ELSE judged[p].real,
                                    majority |-> judged[p].majority]]
  BY <1>3, RealUpdate DEF IInv
<1>5. Shapes'
  BY <1>1, <1>3, <1>4, ZenonT(30) DEF IInv, Shapes
<1>6. TruthKept' /\ JudgedTruly'
  BY <1>1, <1>3, <1>4 DEF IInv, Shapes, TruthKept, JudgedTruly
<1> QED BY <1>3, <1>5, <1>6 DEF IInv, CheckpointTrue

-----------------------------------------------------------------------------
LEMMA StepHolds == IInv /\ [Next]_vars => IInv'
<1> SUFFICES ASSUME IInv, [Next]_vars PROVE IInv'
  OBVIOUS
<1>1. CASE NewPass
  <2>1. /\ row' = [p \in Prompts |-> conf.truth] /\ todo' = Prompts /\ pc' = "generate"
        /\ UNCHANGED <<conf, prompt, real_gt, majority, right, judged, ckpt>>
    BY <1>1 DEF NewPass, voting, state
  <2> QED BY <2>1 DEF IInv, Shapes, TruthKept, JudgedTruly, CheckpointTrue
<1>2. CASE Generate
  BY <1>2, QuietStep DEF Generate, IInv, Shapes
<1>3. CASE EndPass
  <2>1. /\ ckpt' = ckpt \/ ckpt' = [real_gt |-> real_gt, majority |-> majority, right |-> right]
        /\ pc' = "pass"
        /\ UNCHANGED <<conf, todo, prompt, row, real_gt, majority, right, judged>>
    BY <1>3 DEF EndPass, Saved, state
  <2>2. Shapes'
    BY <2>1 DEF IInv, Shapes
  <2>3. CheckpointTrue'
    BY <2>1 DEF IInv, TruthKept, JudgedTruly, CheckpointTrue
  <2> QED BY <2>1, <2>2, <2>3 DEF IInv, TruthKept, JudgedTruly
<1>4. CASE LabelLabeled
  BY <1>4, LabeledStep
<1>5. CASE LabelUnlabeled
  BY <1>5, UnlabeledStep
<1>6. CASE LabelFails
  BY <1>6, FailingStep
<1>7. CASE Restart
  <2>1. /\ row' = [p \in Prompts |-> conf.truth] /\ todo' = {} /\ pc' = "pass"
        /\ real_gt' = ckpt.real_gt /\ majority' = ckpt.majority /\ right' = ckpt.right
        /\ UNCHANGED <<conf, prompt, judged, ckpt>>
    BY <1>7 DEF Restart
  <2> QED BY <2>1 DEF IInv, Shapes, TruthKept, JudgedTruly, CheckpointTrue
<1>8. ASSUME NEW answer \in Answers \cup {Unparsable}, Vote(answer)
      PROVE  IInv'
  BY <1>8, QuietStep DEF Vote, IInv, Shapes
<1>9. CASE Done \/ UNCHANGED vars
  BY <1>9, QuietStep DEF Done, vars, voting, state, IInv, Shapes
<1> QED BY <1>1, <1>2, <1>3, <1>4, <1>5, <1>6, <1>7, <1>8, <1>9 DEF Next

\* No pass rate is measured against a pseudo label where the truth is meant, in any pass
\* and after any restart, for every relation verify: what LabelUnlabeled overwrites,
\* real_gt has kept.
THEOREM TruthPreserved == Spec => []RealMeasured
<1>1. IInv => RealMeasured
  BY DEF IInv, TruthKept, JudgedTruly, RealMeasured, IsRight
<1> QED BY <1>1, InitHolds, StepHolds, PTL DEF Spec
-----------------------------------------------------------------------------
\* The vote.

Parsed == Answers \cup {Unparsable}
Groups == [rep : Parsed, members : SUBSET Nat]
Rep(k) == freq_list[k].rep
Members(k) == freq_list[k].members
Voters == 1..Len(responses)

\* The groups found so far partition the responses that have voted.
Partition ==
  /\ responses \in Seq(Parsed) /\ Len(responses) <= conf.n /\ freq_list \in Seq(Groups)
  /\ \A k \in DOMAIN freq_list : Members(k) \subseteq Voters /\ Members(k) # {}
  /\ \A k, j \in DOMAIN freq_list : k # j => Members(k) \cap Members(j) = {}
  /\ \A i \in Voters : \E k \in DOMAIN freq_list : i \in Members(k)

\* Each member says what the first of its group says, and no group could have joined an
\* earlier one.  What has no answer is alone.
Agreement ==
  \A k \in DOMAIN freq_list :
    /\ \A i \in Members(k) : responses[i] = Rep(k) \/ Match(Rep(k), responses[i])
    /\ Rep(k) = Unparsable => \A i, j \in Members(k) : i = j
    /\ \A j \in DOMAIN freq_list : k < j => ~Match(Rep(k), Rep(j))

Grouped == Partition /\ Agreement

\* What has no answer matches nothing.
LEMMA MatchesAnswers ==
  ASSUME conf \in Configs
  PROVE  /\ conf.n \in Nat \ {0}
         /\ \A x, y : Match(x, y) => x \in Answers /\ y \in Answers
         /\ \A x \in Answers : Match(x, x)
         /\ Unparsable \notin Answers /\ NoMajority \notin Answers
  BY PseudoLabelAssumption DEF Match, Reflexive

LEMMA GroupIs ==
  ASSUME Partition, NEW k \in DOMAIN freq_list
  PROVE  /\ DOMAIN freq_list = 1..Len(freq_list) /\ Len(freq_list) \in Nat
         /\ DOMAIN responses = Voters /\ Len(responses) \in Nat
         /\ k \in Nat /\ Rep(k) \in Parsed
         /\ Members(k) \subseteq Voters /\ Members(k) # {}
         /\ \A i \in Voters : responses[i] \in Parsed
<1>1. DOMAIN freq_list = 1..Len(freq_list) /\ Len(freq_list) \in Nat
  BY LenProperties DEF Partition
<1>2. DOMAIN responses = Voters /\ Len(responses) \in Nat
  BY LenProperties DEF Partition, Voters
<1>3. freq_list[k] \in Groups
  BY <1>1, ElementOfSeq DEF Partition
<1>4. Rep(k) \in Parsed
  BY <1>3 DEF Groups, Rep
<1>5. \A i \in Voters : responses[i] \in Parsed
  BY ElementOfSeq DEF Partition, Voters
<1> QED BY <1>1, <1>2, <1>4, <1>5 DEF Partition

\* Where verify is an equivalence, a group is a class of it.
LEMMA GroupsAreClasses ==
  ASSUME conf \in Configs, Grouped, Equivalence(conf.verify),
         NEW k \in DOMAIN freq_list, NEW i \in Members(k)
  PROVE  Same(i) = Members(k)
<1>1. /\ \A x, y : Match(x, y) => x \in Answers /\ y \in Answers
      /\ \A x \in Answers : Match(x, x)
      /\ Unparsable \notin Answers
  BY MatchesAnswers
<1>2. /\ \A x, y : Match(x, y) => Match(y, x)
      /\ \A x, y, z : Match(x, y) /\ Match(y, z) => Match(x, z)
  BY <1>1 DEF Equivalence, Match
<1>3. /\ DOMAIN responses = Voters /\ Members(k) \subseteq Voters
      /\ \A j \in Voters : responses[j] \in Parsed
  BY GroupIs DEF Grouped
<1>4. ASSUME NEW m \in DOMAIN freq_list, NEW j \in Members(m), Rep(m) # Unparsable
      PROVE  Match(Rep(m), responses[j])
  <2>1. Rep(m) \in Answers
    BY <1>4, GroupIs DEF Grouped, Parsed
  <2> QED BY <1>1, <2>1 DEF Grouped, Agreement
<1>5. ASSUME NEW j \in Members(k)
      PROVE  j \in Same(i)
  <2>1. CASE Rep(k) = Unparsable
    BY <2>1 DEF Grouped, Agreement, Same
  <2>2. CASE Rep(k) # Unparsable
    <3>1. Match(Rep(k), responses[i]) /\ Match(Rep(k), responses[j])
      BY <1>4, <2>2
    <3> QED BY <1>2, <1>3, <3>1 DEF Same
  <2> QED BY <2>1, <2>2
<1>6. ASSUME NEW j \in Same(i)
      PROVE  j \in Members(k)
  <2>1. CASE j = i
    BY <2>1
  <2>2. CASE j # i
    <3>1. j \in Voters /\ Match(responses[i], responses[j])
      BY <1>3, <2>2 DEF Same
    <3>2. PICK m \in DOMAIN freq_list : j \in Members(m)
      BY <3>1 DEF Grouped, Partition
    <3>3. responses[i] \in Answers /\ responses[j] \in Answers
      BY <1>1, <3>1
    <3>4. Rep(k) # Unparsable /\ Rep(m) # Unparsable
      BY <1>1, <3>2, <3>3 DEF Grouped, Agreement
    <3>5. Match(Rep(k), responses[i]) /\ Match(Rep(m), responses[j])
      BY <1>4, <3>2, <3>4
    <3>6. Match(Rep(k), Rep(m)) /\ Match(Rep(m), Rep(k))
      BY <1>2, <3>1, <3>5
    <3>7. ~(k < m) /\ ~(m < k)
      BY <3>6 DEF Grouped, Agreement
    <3>8. k \in Nat /\ m \in Nat
      BY GroupIs DEF Grouped
    <3> QED BY <3>2, <3>7, <3>8
  <2> QED BY <2>1, <2>2
<1> QED BY <1>5, <1>6

-----------------------------------------------------------------------------
\* The leaders.

LEMMA MinNat ==
  ASSUME NEW S \in SUBSET Nat, S # {}
  PROVE  Min(S) \in S /\ \A y \in S : Min(S) <= y
<1> DEFINE Less == OpToRel(<, Nat)
<1>1. IsWellFoundedOn(Less, Nat)
  BY NatLessThanWellFounded
<1>2. \A x, y \in Nat : <<y, x>> \in Less <=> y < x
  BY DEF OpToRel
<1> HIDE DEF Less
<1>3. PICK x \in S : \A y \in S : ~ (<<y, x>> \in Less)
  BY <1>1, WFMin
<1>4. \A y \in S : ~ (y < x)
  BY <1>2, <1>3
<1>5. \A y \in S : x <= y
  BY <1>4
<1> QED BY <1>5 DEF Min

LEMMA VotersAre ==
  ASSUME Partition
  PROVE  IsFiniteSet(Voters) /\ Cardinality(Voters) = Len(responses)
<1> DEFINE n == Len(responses)
<1>1. n \in Nat
  BY LenProperties DEF Partition
<1> HIDE DEF n
<1>2. IsFiniteSet(1..n) /\ Cardinality(1..n) = n
  BY <1>1, FS_Interval
<1> QED BY <1>2 DEF Voters, n

LEMMA VotesAre ==
  ASSUME Partition, NEW k \in DOMAIN freq_list
  PROVE  /\ Votes(freq_list[k]) \in Nat \ {0} /\ Votes(freq_list[k]) <= Len(responses)
         /\ \A i : Members(k) = {i} => Votes(freq_list[k]) = 1
<1>1. Members(k) \subseteq Voters /\ Members(k) # {} /\ Len(responses) \in Nat
  BY GroupIs
<1>2. IsFiniteSet(Voters) /\ Cardinality(Voters) = Len(responses)
  BY VotersAre
<1>3. IsFiniteSet(Members(k)) /\ Cardinality(Members(k)) <= Cardinality(Voters)
  BY <1>1, <1>2, FS_Subset
<1>4. Cardinality(Members(k)) \in Nat /\ Cardinality(Members(k)) # 0
  BY <1>1, <1>3, FS_CardinalityType, FS_EmptySet
<1>5. \A i : Cardinality({i}) = 1
  BY FS_Singleton
<1> QED BY <1>2, <1>3, <1>4, <1>5 DEF Votes, Members

\* Among the groups there is a largest one.
LEMMA LeaderExists ==
  ASSUME Partition, responses # <<>>
  PROVE  /\ IsFiniteSet(Leaders) /\ Leaders \subseteq DOMAIN freq_list
         /\ Min(Leaders) \in Leaders
<1>1. DOMAIN freq_list = 1..Len(freq_list) /\ Len(freq_list) \in Nat
  BY LenProperties DEF Partition
<1>2. Len(responses) \in Nat \ {0}
  BY EmptySeq, LenProperties DEF Partition
<1>3. PICK first \in DOMAIN freq_list : 1 \in Members(first)
  BY <1>2 DEF Partition, Voters
<1> DEFINE vote == [k \in DOMAIN freq_list |-> Votes(freq_list[k])]
           bounds == {m \in Nat : \A k \in DOMAIN freq_list : vote[k] <= m}
<1>4. \A k \in DOMAIN freq_list : vote[k] \in Nat \ {0} /\ vote[k] <= Len(responses)
  BY VotesAre
<1>5. Leaders = {k \in DOMAIN freq_list : \A j \in DOMAIN freq_list : vote[j] <= vote[k]}
  BY DEF Leaders
<1> HIDE DEF vote
<1>6. Len(responses) \in bounds
  BY <1>2, <1>4
<1>7. PICK m \in bounds : \A y \in bounds : m <= y
  BY <1>6, MinNat
<1>8. \E k \in DOMAIN freq_list : vote[k] = m
  <2> SUFFICES ASSUME \A k \in DOMAIN freq_list : vote[k] # m PROVE FALSE
    OBVIOUS
  <2>1. \A k \in DOMAIN freq_list : vote[k] <= m - 1
    BY <1>4, <1>7
  <2>2. m - 1 \in Nat
    BY <1>3, <1>4, <1>7, <2>1
  <2> QED BY <1>7, <2>1, <2>2
<1>9. Leaders # {}
  BY <1>5, <1>7, <1>8
<1>10. Leaders \subseteq 1..Len(freq_list) /\ Leaders \in SUBSET Nat
  BY <1>1, <1>5
<1>11. IsFiniteSet(1..Len(freq_list))
  BY <1>1, FS_Interval
<1>12. IsFiniteSet(Leaders)
  BY <1>10, <1>11, FS_Subset
<1> QED BY <1>1, <1>9, <1>10, <1>12, MinNat

\* The only leader has more votes than anybody else.
LEMMA OnlyLeader ==
  ASSUME Partition, responses # <<>>, Unique
  PROVE  /\ Min(Leaders) \in DOMAIN freq_list /\ Winner = Rep(Min(Leaders))
         /\ \A j \in DOMAIN freq_list \ {Min(Leaders)} :
              Votes(freq_list[j]) < Votes(freq_list[Min(Leaders)])
<1> DEFINE k == Min(Leaders)
<1>1. IsFiniteSet(Leaders) /\ Leaders \subseteq DOMAIN freq_list /\ k \in Leaders
  BY LeaderExists
<1>2. PICK x : Leaders = {x}
  BY <1>1, FS_Singleton DEF Unique
<1>3. Leaders = {k}
  BY <1>1, <1>2
<1> HIDE DEF k
<1>4. ASSUME NEW j \in DOMAIN freq_list, j # k
      PROVE  Votes(freq_list[j]) < Votes(freq_list[k])
  <2>1. j \notin Leaders /\ k \in Leaders /\ k \in DOMAIN freq_list
    BY <1>1, <1>3, <1>4
  <2>2. \A m \in DOMAIN freq_list : Votes(freq_list[m]) \in Nat
    BY VotesAre
  <2>3. \A m \in DOMAIN freq_list : Votes(freq_list[m]) <= Votes(freq_list[k])
    BY <2>1 DEF Leaders
  <2>4. PICK m \in DOMAIN freq_list : ~(Votes(freq_list[m]) <= Votes(freq_list[j]))
    BY <2>1 DEF Leaders
  <2>5. Votes(freq_list[m]) <= Votes(freq_list[k])
    BY <2>3
  <2> HIDE DEF Leaders
  <2> QED BY <2>1, <2>2, <2>4, <2>5
<1> QED BY <1>1, <1>4 DEF k, Winner, Rep

\* The members of the only leader are the strict plurality.
LEMMA PluralityIs ==
  ASSUME conf \in Configs, Grouped, Equivalence(conf.verify), responses # <<>>
  PROVE  /\ Unique => Plurality = Members(Min(Leaders))
         /\ ~Unique => Plurality = {}
<1>1. /\ IsFiniteSet(Leaders) /\ Leaders \subseteq DOMAIN freq_list /\ Min(Leaders) \in Leaders
      /\ DOMAIN responses = Voters
  BY LeaderExists, GroupIs DEF Grouped
<1>2. \A k \in DOMAIN freq_list : Votes(freq_list[k]) = Cardinality(Members(k))
  BY DEF Votes, Members
<1>3. \A k \in DOMAIN freq_list : \A i \in Members(k) : Same(i) = Members(k)
  BY GroupsAreClasses
<1>4. /\ \A k \in DOMAIN freq_list : Members(k) \subseteq Voters /\ Members(k) # {}
      /\ \A i \in Voters : \E k \in DOMAIN freq_list : i \in Members(k)
      /\ \A k, j \in DOMAIN freq_list : k # j => Members(k) \cap Members(j) = {}
  BY DEF Grouped, Partition
<1>5. ASSUME NEW k \in DOMAIN freq_list, NEW i \in Members(k)
      PROVE  i \in Plurality <=> \A j \in DOMAIN freq_list \ {k} :
                                   Votes(freq_list[j]) < Votes(freq_list[k])
  <2>1. i \in Voters /\ Same(i) = Members(k)
    BY <1>3, <1>4
  <2>2. ASSUME i \in Plurality, NEW j \in DOMAIN freq_list, j # k
        PROVE  Votes(freq_list[j]) < Votes(freq_list[k])
    <3>1. PICK q : q \in Members(j)
      BY <1>4
    <3>2. q \in Voters \ Same(i) /\ Same(q) = Members(j)
      BY <1>3, <1>4, <2>1, <2>2, <3>1
    <3>3. Cardinality(Same(q)) < Cardinality(Same(i))
      BY <1>1, <2>2, <3>2 DEF Plurality
    <3> QED BY <1>2, <2>1, <3>2, <3>3
  <2>3. ASSUME \A j \in DOMAIN freq_list \ {k} : Votes(freq_list[j]) < Votes(freq_list[k]),
               NEW q \in Voters \ Same(i)
        PROVE  Cardinality(Same(q)) < Cardinality(Same(i))
    <3>1. PICK j \in DOMAIN freq_list : q \in Members(j)
      BY <1>4
    <3>2. j # k /\ Same(q) = Members(j)
      BY <1>3, <2>1, <3>1
    <3> QED BY <1>2, <2>1, <2>3, <3>2
  <2> QED BY <1>1, <2>1, <2>2, <2>3 DEF Plurality
<1>6. Plurality \subseteq Voters
  BY <1>1 DEF Plurality
<1>7. ASSUME Unique PROVE Plurality = Members(Min(Leaders))
  <2> DEFINE k == Min(Leaders)
  <2>1. k \in DOMAIN freq_list
        /\ \A j \in DOMAIN freq_list \ {k} : Votes(freq_list[j]) < Votes(freq_list[k])
    BY <1>7, OnlyLeader DEF Grouped
  <2>2. \A j \in DOMAIN freq_list : Votes(freq_list[j]) \in Nat
    BY VotesAre DEF Grouped
  <2> HIDE DEF k
  <2>3. Members(k) \subseteq Plurality
    BY <1>5, <2>1
  <2>4. ASSUME NEW i \in Plurality PROVE i \in Members(k)
    <3>1. PICK j \in DOMAIN freq_list : i \in Members(j)
      BY <1>4, <1>6
    <3>2. \A m \in DOMAIN freq_list \ {j} : Votes(freq_list[m]) < Votes(freq_list[j])
      BY <1>5, <3>1
    <3>3. j = k
      <4> SUFFICES ASSUME j # k PROVE FALSE
        OBVIOUS
      <4>1. Votes(freq_list[k]) < Votes(freq_list[j]) /\ Votes(freq_list[j]) < Votes(freq_list[k])
        BY <2>1, <3>2
      <4> QED BY <2>1, <2>2, <4>1
    <3> QED BY <3>1, <3>3
  <2>5. Plurality = Members(k)
    BY <2>3, <2>4
  <2> QED BY <2>5 DEF k
<1>8. ASSUME NEW i \in Plurality PROVE Unique
  <2>1. PICK k \in DOMAIN freq_list : i \in Members(k)
    BY <1>4, <1>6
  <2>2. \A m \in DOMAIN freq_list \ {k} : Votes(freq_list[m]) < Votes(freq_list[k])
    BY <1>5, <2>1
  <2>3. \A j \in DOMAIN freq_list : Votes(freq_list[j]) \in Nat
    BY VotesAre DEF Grouped
  <2>4. ASSUME NEW j \in Leaders PROVE j = k
    <3> SUFFICES ASSUME j # k PROVE FALSE
      OBVIOUS
    <3>1. j \in DOMAIN freq_list /\ Votes(freq_list[k]) <= Votes(freq_list[j])
      BY <2>1, <2>4 DEF Leaders
    <3>2. Votes(freq_list[j]) < Votes(freq_list[k])
      BY <2>2, <3>1
    <3> QED BY <2>1, <2>3, <3>1, <3>2
  <2>5. Leaders = {k}
    BY <1>1, <2>4
  <2> QED BY <2>5, FS_Singleton DEF Unique
<1> QED BY <1>7, <1>8

\* An only leader without an answer has one vote, and then so has nobody else.
LEMMA LoneVote ==
  ASSUME Grouped, responses # <<>>, Unique, Winner = Unparsable
  PROVE  Len(responses) = 1
<1> DEFINE k == Min(Leaders)
<1>1. /\ k \in DOMAIN freq_list /\ Rep(k) = Unparsable
      /\ \A j \in DOMAIN freq_list \ {k} : Votes(freq_list[j]) < Votes(freq_list[k])
  BY OnlyLeader DEF Grouped
<1> HIDE DEF k
<1>2. PICK i : Members(k) = {i}
  <2>1. PICK i \in Members(k) : TRUE
    BY <1>1 DEF Grouped, Partition
  <2>2. \A j \in Members(k) : j = i
    BY <1>1 DEF Grouped, Agreement
  <2> QED BY <2>1, <2>2
<1>3. Votes(freq_list[k]) = 1
  BY <1>1, <1>2, VotesAre DEF Grouped
<1>4. DOMAIN freq_list = {k}
  <2>1. \A j \in DOMAIN freq_list : Votes(freq_list[j]) \in Nat \ {0}
    BY VotesAre DEF Grouped
  <2>2. ASSUME NEW j \in DOMAIN freq_list PROVE j = k
    <3> SUFFICES ASSUME j # k PROVE FALSE
      OBVIOUS
    <3>1. Votes(freq_list[j]) < 1
      BY <1>1, <1>3
    <3> QED BY <2>1, <3>1
  <2> QED BY <1>1, <2>2
<1>5. Voters = {i}
  BY <1>1, <1>2, <1>4 DEF Grouped, Partition
<1>6. Cardinality(Voters) = Len(responses)
  BY VotersAre DEF Grouped
<1> QED BY <1>5, <1>6, FS_Singleton

-----------------------------------------------------------------------------
\* Another response votes.

LEMMA FunctionIsSeq == ASSUME NEW S, NEW n \in Nat, NEW f \in [1..n -> S] PROVE f \in Seq(S)
  BY SeqDef

LEMMA JoinsGroup ==
  ASSUME conf \in Configs, Grouped, Len(responses) < conf.n,
         NEW answer \in Parsed, responses' = Append(responses, answer), conf' = conf,
         NEW k \in DOMAIN freq_list, Match(Rep(k), answer),
         freq_list' = [freq_list EXCEPT ![k].members = @ \cup {Len(responses')}]
  PROVE  Grouped'
<1> PICK i : i = Len(responses) + 1
  OBVIOUS
<1>1. /\ DOMAIN freq_list = 1..Len(freq_list) /\ Len(freq_list) \in Nat
      /\ Len(responses) \in Nat /\ conf.n \in Nat
  BY GroupIs, MatchesAnswers DEF Grouped
<1>2. /\ responses' \in Seq(Parsed) /\ Len(responses') = i
      /\ \A j \in 1..Len(responses) : responses'[j] = responses[j]
      /\ responses'[i] = answer
  BY <1>1, AppendProperties DEF Grouped, Partition
<1>3. /\ Voters' = Voters \cup {i} /\ i \notin Voters /\ i \in Nat
      /\ Len(responses') <= conf'.n
  BY <1>1, <1>2 DEF Voters
<1>4. \A j \in DOMAIN freq_list : Members(j) \subseteq Voters /\ Members(j) # {}
  BY DEF Grouped, Partition
<1>5. /\ freq_list \in Seq(Groups)
      /\ \A j \in DOMAIN freq_list : freq_list[j] \in Groups
  BY <1>1, ElementOfSeq DEF Grouped, Partition
<1>6. /\ DOMAIN freq_list' = DOMAIN freq_list
      /\ \A j \in DOMAIN freq_list :
           freq_list'[j] = [rep |-> Rep(j), members |-> Members(j) \cup IF j = k THEN {i} ELSE {}]
  <2>1. \A j \in DOMAIN freq_list : freq_list[j] = [rep |-> Rep(j), members |-> Members(j)]
    BY <1>5 DEF Groups, Rep, Members
  <2>2. freq_list' = [freq_list EXCEPT ![k].members = @ \cup {i}]
    BY <1>2
  <2>3. freq_list = [j \in 1..Len(freq_list) |-> freq_list[j]]
    BY <1>1, <1>5
  <2>4. DOMAIN freq_list' = DOMAIN freq_list
    BY <2>2, <2>3
  <2>5. ASSUME NEW j \in DOMAIN freq_list
        PROVE  freq_list'[j]
                 = [rep |-> Rep(j), members |-> Members(j) \cup IF j = k THEN {i} ELSE {}]
    <3>1. CASE j = k
      <4> DEFINE g == freq_list[k]
                 r == Rep(k)
                 m == Members(k)
      <4>1. freq_list'[k] = [g EXCEPT !.members = @ \cup {i}] /\ g = [rep |-> r, members |-> m]
        BY <2>1, <2>2, <2>3
      <4> HIDE DEF g, r, m
      <4>2. freq_list'[k] = [rep |-> r, members |-> m \cup {i}]
        BY <4>1, ZenonT(30)
      <4>3. freq_list'[k] = [rep |-> Rep(k), members |-> Members(k) \cup {i}]
        BY <4>2 DEF r, m
      <4>4. Members(k) \cup (IF j = k THEN {i} ELSE {}) = Members(k) \cup {i}
        BY <3>1
      <4> QED BY <3>1, <4>3, <4>4
    <3>2. CASE j # k
      <4>1. freq_list'[j] = freq_list[j]
        BY <2>2, <2>3, <3>2
      <4> QED BY <2>1, <3>2, <4>1
    <3> QED BY <3>1, <3>2
  <2> QED BY <2>4, <2>5
<1>7. \A j \in DOMAIN freq_list :
        Rep(j)' = Rep(j) /\ Members(j)' = Members(j) \cup IF j = k THEN {i} ELSE {}
  BY <1>6 DEF Rep, Members
<1>8. freq_list' \in Seq(Groups)
  <2>1. \A j \in 1..Len(freq_list) : freq_list'[j] \in Groups
    BY <1>1, <1>3, <1>5, <1>6 DEF Groups, Rep, Members
  <2>2. freq_list' = [j \in 1..Len(freq_list) |-> freq_list'[j]]
    BY <1>1
  <2>3. freq_list' \in [1..Len(freq_list) -> Groups]
    BY <2>1, <2>2
  <2>4. Len(freq_list) \in Nat
    BY <1>1
  <2> QED BY <2>3, <2>4, FunctionIsSeq
<1>9. Partition'
  <2>1. \A j \in DOMAIN freq_list' : Members(j)' \subseteq Voters' /\ Members(j)' # {}
    BY <1>3, <1>4, <1>6, <1>7
  <2>2. \A j, m \in DOMAIN freq_list' : j # m => Members(j)' \cap Members(m)' = {}
    <3>1. \A j, m \in DOMAIN freq_list : j # m => Members(j) \cap Members(m) = {}
      BY DEF Grouped, Partition
    <3>2. \A j \in DOMAIN freq_list : i \notin Members(j)
      BY <1>3, <1>4
    <3> QED BY <1>6, <1>7, <3>1, <3>2
  <2>3. \A j \in Voters' : \E m \in DOMAIN freq_list' : j \in Members(m)'
    <3>1. \A j \in Voters : \E m \in DOMAIN freq_list : j \in Members(m)
      BY DEF Grouped, Partition
    <3>2. \A j \in Voters : \E m \in DOMAIN freq_list' : j \in Members(m)'
      BY <1>6, <1>7, <3>1
    <3>3. i \in Members(k)' /\ k \in DOMAIN freq_list'
      BY <1>6, <1>7
    <3> QED BY <1>3, <3>2, <3>3
  <2> QED BY <1>2, <1>3, <1>8, <2>1, <2>2, <2>3 DEF Partition
<1>10. Agreement'
  <2> SUFFICES ASSUME NEW j \in DOMAIN freq_list'
      PROVE  /\ \A v \in Members(j)' : responses'[v] = Rep(j)' \/ Match(Rep(j), responses[v])'
             /\ Rep(j)' = Unparsable => \A v, w \in Members(j)' : v = w
             /\ \A m \in DOMAIN freq_list' : j < m => ~Match(Rep(j), Rep(m))'
    BY DEF Agreement
  <2>1. Rep(k) # Unparsable
    BY MatchesAnswers
  <2>2. \A x, y : Match(x, y)' <=> Match(x, y)
    BY DEF Match
  <2>3. ASSUME NEW v \in Members(j)'
        PROVE  responses'[v] = Rep(j) \/ Match(Rep(j), responses'[v])
    <3>1. CASE v \in Members(j)
      BY <1>2, <1>4, <3>1 DEF Grouped, Agreement, Voters
    <3>2. CASE v \notin Members(j)
      BY <1>2, <1>7, <2>3, <3>2
    <3> QED BY <3>1, <3>2
  <2>4. j \in DOMAIN freq_list
    BY <1>6
  <2>5. Rep(j) = Unparsable => \A v, w \in Members(j)' : v = w
    BY <1>7, <2>1, <2>4 DEF Grouped, Agreement
  <2>6. \A m \in DOMAIN freq_list : j < m => ~Match(Rep(j), Rep(m))
    BY <2>4 DEF Grouped, Agreement
  <2> QED BY <1>6, <1>7, <2>2, <2>3, <2>4, <2>5, <2>6
<1> QED BY <1>9, <1>10 DEF Grouped

LEMMA StandsAlone ==
  ASSUME conf \in Configs, Grouped, Len(responses) < conf.n,
         NEW answer \in Parsed, responses' = Append(responses, answer), conf' = conf,
         \A k \in DOMAIN freq_list : ~Match(Rep(k), answer),
         freq_list' = Append(freq_list, [rep |-> answer, members |-> {Len(responses')}])
  PROVE  Grouped'
<1> PICK i : i = Len(responses) + 1
  OBVIOUS
<1> PICK new : new = Len(freq_list) + 1
  OBVIOUS
<1>1. /\ DOMAIN freq_list = 1..Len(freq_list) /\ Len(freq_list) \in Nat
      /\ Len(responses) \in Nat /\ conf.n \in Nat
  BY LenProperties, MatchesAnswers DEF Grouped, Partition
<1>2. /\ responses' \in Seq(Parsed) /\ Len(responses') = i
      /\ \A j \in 1..Len(responses) : responses'[j] = responses[j]
      /\ responses'[i] = answer
  BY <1>1, AppendProperties DEF Grouped, Partition
<1>3. /\ Voters' = Voters \cup {i} /\ i \notin Voters /\ i \in Nat
      /\ Len(responses') <= conf'.n
  BY <1>1, <1>2 DEF Voters
<1>4. \A j \in DOMAIN freq_list : Members(j) \subseteq Voters /\ Members(j) # {}
  BY DEF Grouped, Partition
<1>5. [rep |-> answer, members |-> {i}] \in Groups
  BY <1>3 DEF Groups
<1>6. /\ freq_list' \in Seq(Groups) /\ Len(freq_list') = new
      /\ \A j \in 1..Len(freq_list) : freq_list'[j] = freq_list[j]
      /\ freq_list'[new] = [rep |-> answer, members |-> {i}]
  BY <1>1, <1>2, <1>5, AppendProperties DEF Grouped, Partition
<1>7. /\ DOMAIN freq_list' = DOMAIN freq_list \cup {new}
      /\ \A j \in DOMAIN freq_list : j < new /\ Rep(j)' = Rep(j) /\ Members(j)' = Members(j)
      /\ Rep(new)' = answer /\ Members(new)' = {i}
      /\ new \notin DOMAIN freq_list /\ new \in Nat
  <2>1. DOMAIN freq_list' = 1..new
    BY <1>6, LenProperties
  <2>2. /\ DOMAIN freq_list' = DOMAIN freq_list \cup {new}
        /\ new \notin DOMAIN freq_list /\ new \in Nat /\ \A j \in DOMAIN freq_list : j < new
    BY <1>1, <2>1
  <2> QED BY <1>1, <1>6, <2>2 DEF Rep, Members
<1>8. Partition'
  <2>1. \A j \in DOMAIN freq_list' : Members(j)' \subseteq Voters' /\ Members(j)' # {}
    BY <1>3, <1>4, <1>7, SMTT(30)
  <2>2. \A j, m \in DOMAIN freq_list' : j # m => Members(j)' \cap Members(m)' = {}
    BY <1>3, <1>4, <1>7 DEF Grouped, Partition
  <2>3. \A j \in Voters' : \E m \in DOMAIN freq_list' : j \in Members(m)'
    <3>1. \A j \in Voters : \E m \in DOMAIN freq_list : j \in Members(m)
      BY DEF Grouped, Partition
    <3>2. \A j \in Voters : \E m \in DOMAIN freq_list' : j \in Members(m)'
      BY <1>7, <3>1
    <3>3. i \in Members(new)' /\ new \in DOMAIN freq_list'
      BY <1>7
    <3> QED BY <1>3, <3>2, <3>3
  <2> QED BY <1>2, <1>3, <1>6, <2>1, <2>2, <2>3 DEF Partition
<1>9. Agreement'
  <2> SUFFICES ASSUME NEW j \in DOMAIN freq_list'
      PROVE  /\ \A v \in Members(j)' : responses'[v] = Rep(j)' \/ Match(Rep(j), responses[v])'
             /\ Rep(j)' = Unparsable => \A v, w \in Members(j)' : v = w
             /\ \A m \in DOMAIN freq_list' : j < m => ~Match(Rep(j), Rep(m))'
    BY DEF Agreement
  <2>1. \A x, y : Match(x, y)' <=> Match(x, y)
    BY DEF Match
  <2>2. CASE j = new
    <3>1. \A m \in DOMAIN freq_list' : ~(new < m)
      BY <1>1, <1>7
    <3> QED BY <1>2, <1>7, <2>2, <3>1
  <2>3. CASE j \in DOMAIN freq_list
    <3>1. \A v \in Members(j) : responses'[v] = responses[v]
      BY <1>2, <1>4, <2>3 DEF Voters
    <3>2. /\ \A v \in Members(j) : responses'[v] = Rep(j) \/ Match(Rep(j), responses'[v])
          /\ Rep(j) = Unparsable => \A v, w \in Members(j) : v = w
          /\ \A m \in DOMAIN freq_list : j < m => ~Match(Rep(j), Rep(m))
      BY <2>3, <3>1 DEF Grouped, Agreement
    <3>3. \A m \in DOMAIN freq_list' : j < m => ~Match(Rep(j), Rep(m)')
      BY <1>7, <2>3, <3>2
    <3> QED BY <1>7, <2>1, <2>3, <3>2, <3>3, ZenonT(30)
  <2> QED BY <1>7, <2>2, <2>3
<1> QED BY <1>8, <1>9 DEF Grouped

LEMMA VoteStep ==
  ASSUME conf \in Configs, Grouped, NEW answer \in Parsed, Vote(answer)
  PROVE  Grouped'
<1> DEFINE found == {k \in DOMAIN freq_list : Match(freq_list[k].rep, answer)}
<1>1. /\ Len(responses) < conf.n /\ conf' = conf /\ responses' = Append(responses, answer)
      /\ freq_list' = IF found = {}
                      THEN Append(freq_list, [rep |-> answer, members |-> {Len(responses')}])
                      ELSE [freq_list EXCEPT ![Min(found)].members = @ \cup {Len(responses')}]
  BY DEF Vote, Voting
<1>2. CASE found = {}
  BY <1>1, <1>2, StandsAlone DEF Rep
<1>3. CASE found # {}
  <2>1. found \in SUBSET Nat
    BY LenProperties DEF Grouped, Partition
  <2>2. Min(found) \in found
    BY <1>3, <2>1, MinNat
  <2>3. Min(found) \in DOMAIN freq_list /\ Match(Rep(Min(found)), answer)
    BY <2>2 DEF Rep
  <2>4. freq_list' = [freq_list EXCEPT ![Min(found)].members = @ \cup {Len(responses')}]
    BY <1>1, <1>3
  <2> HIDE DEF found
  <2> QED BY <1>1, <2>3, <2>4, JoinsGroup
<1> QED BY <1>2, <1>3

\* Nobody has voted.
LEMMA NoVotes ==
  conf \in Configs /\ responses = <<>> /\ freq_list = <<>> => Grouped /\ Len(responses) # conf.n
<1> SUFFICES ASSUME conf \in Configs, responses = <<>>, freq_list = <<>>
    PROVE  Grouped /\ Len(responses) # conf.n
  OBVIOUS
<1> DEFINE none == <<>>
<1>1. none \in Seq(Parsed) /\ none \in Seq(Groups) /\ Len(none) = 0
  OBVIOUS
<1>2. DOMAIN none = {} /\ 1..Len(none) = {}
  BY <1>1, LenProperties
<1>3. conf.n \in Nat \ {0}
  BY MatchesAnswers
<1>4. responses = none /\ freq_list = none
  OBVIOUS
<1> HIDE DEF none
<1> QED BY <1>1, <1>2, <1>3, <1>4 DEF Grouped, Partition, Agreement, Voters

-----------------------------------------------------------------------------
\* The labels.

Labels == [Prompts -> Answers \cup {NoMajority}]

Typed ==
  /\ pc \in {"pass", "generate", "vote", "error"} /\ pass \in 0..Passes /\ prompt \in Prompts
  /\ row \in Labels /\ majority \in Labels /\ ckpt.majority \in Labels

\* What the last vote has given stays until the next one starts.
VInv ==
  /\ IInv /\ Typed /\ Grouped /\ (pc = "pass" => responses = <<>> /\ freq_list = <<>>)
  /\ PluralityLabel

LEMMA VInvInit == Init => VInv
<1> SUFFICES ASSUME Init PROVE VInv
  OBVIOUS
<1>1. conf \in Configs /\ conf.truth \in Answers /\ pc = "pass"
  BY PseudoLabelAssumption DEF Init
<1>2. Typed
  BY <1>1, PseudoLabelAssumption DEF Init, Typed, Labels, Saved
<1>3. Grouped
  BY <1>1, NoVotes DEF Init
<1> QED BY <1>1, <1>2, <1>3, InitHolds DEF Init, VInv, PluralityLabel

\* A vote is over after at least one response.
LEMMA SomeVoted ==
  ASSUME conf \in Configs, Grouped, Voted
  PROVE  responses # <<>> /\ Winner \in Parsed
<1>1. Len(responses) # 0
  BY MatchesAnswers DEF Voted
<1>2. responses # <<>>
  BY <1>1, EmptySeq DEF Grouped, Partition
<1>3. Min(Leaders) \in DOMAIN freq_list
  BY <1>2, LeaderExists DEF Grouped
<1>4. Rep(Min(Leaders)) \in Parsed
  BY <1>3, GroupIs DEF Grouped
<1> QED BY <1>2, <1>4 DEF Winner, Rep

\* Steps that leave the vote alone.
LEMMA GroupedKept ==
  ASSUME Grouped, UNCHANGED <<conf, responses, freq_list>>
  PROVE  Grouped'
  BY DEF Grouped, Partition, Agreement, Voters, Rep, Members, Match

LEMMA PluralityKept ==
  ASSUME UNCHANGED <<conf, responses>>
  PROVE  /\ Plurality' = Plurality /\ \A x, y : Match(x, y)' <=> Match(x, y)
         /\ Equivalence(conf.verify)' <=> Equivalence(conf.verify)
<1>1. \A x, y : Match(x, y)' <=> Match(x, y)
  BY DEF Match
<1>2. \A i : Same(i)' = Same(i)
  BY DEF Same, Match
<1>3. Plurality' = Plurality
  BY <1>2 DEF Plurality
<1> QED BY <1>1, <1>3 DEF Equivalence

LEMMA LabeledKeeps ==
  ASSUME VInv, LabelLabeled
  PROVE  VInv'
<1> DEFINE answer == IF Winner = Unparsable THEN NoMajority ELSE Winner
<1>1. /\ pc' = "generate" /\ prompt \in Labeled
      /\ majority' = [majority EXCEPT ![prompt] = answer]
      /\ UNCHANGED <<conf, pass, prompt, responses, freq_list, row, ckpt>>
  BY DEF LabelLabeled, EndPrompt, voting
<1>2. answer \in Answers \cup {NoMajority}
  BY SomeVoted DEF VInv, IInv, LabelLabeled, Parsed
<1>3. Grouped' /\ IInv'
  BY <1>1, GroupedKept, LabeledStep DEF VInv
<1>4. Typed'
  BY <1>1, <1>2 DEF VInv, Typed, Labels
<1>5. prompt' \notin Unlabeled
  BY <1>1, PseudoLabelAssumption
<1> QED BY <1>1, <1>3, <1>4, <1>5 DEF VInv, PluralityLabel

LEMMA UnlabeledKeeps ==
  ASSUME VInv, LabelUnlabeled
  PROVE  VInv'
<1> DEFINE answer == IF Unique THEN Winner ELSE NoMajority
<1>1. /\ pc' = "generate" /\ prompt \in Prompts
      /\ majority' = [majority EXCEPT ![prompt] = answer]
      /\ row' = [row EXCEPT ![prompt] = answer]
      /\ UNCHANGED <<conf, pass, prompt, responses, freq_list, ckpt>>
  BY DEF LabelUnlabeled, EndPrompt, voting, VInv, Typed
<1>2. conf \in Configs /\ Grouped /\ responses # <<>> /\ Winner \in Parsed
  BY SomeVoted DEF VInv, IInv, LabelUnlabeled
<1>3. answer \in Answers \cup {NoMajority}
  BY <1>2 DEF LabelUnlabeled, Parsed
<1>4. Grouped' /\ IInv'
  BY <1>1, GroupedKept, UnlabeledStep DEF VInv
<1>5. Typed'
  BY <1>1, <1>3 DEF VInv, Typed, Labels
<1>6. majority'[prompt] = answer
  BY <1>1 DEF VInv, Typed, Labels
<1>7. ASSUME Equivalence(conf.verify)
      PROVE  /\ answer = NoMajority <=> Plurality = {}
             /\ \A i \in Plurality : Match(answer, responses[i])
  <2>1. CASE Unique
    <3> DEFINE k == Min(Leaders)
    <3>1. k \in DOMAIN freq_list /\ answer = Rep(k) /\ Plurality = Members(k)
      BY <1>2, <1>7, <2>1, OnlyLeader, PluralityIs DEF Grouped
    <3> HIDE DEF k
    <3>2. answer \in Answers
      BY <1>2, <2>1 DEF LabelUnlabeled, Parsed
    <3>3. Members(k) # {}
      BY <1>2, <3>1 DEF Grouped, Partition
    <3>4. \A i \in Members(k) : Match(answer, responses[i])
      BY <1>2, <3>1, <3>2, MatchesAnswers DEF Grouped, Agreement
    <3>5. answer # NoMajority
      BY <1>2, <3>2, MatchesAnswers
    <3> QED BY <3>1, <3>3, <3>4, <3>5
  <2>2. CASE ~Unique
    BY <1>2, <1>7, <2>2, PluralityIs
  <2> QED BY <2>1, <2>2
<1>8. /\ Plurality' = Plurality /\ \A x, y : Match(x, y)' <=> Match(x, y)
      /\ Equivalence(conf.verify)' <=> Equivalence(conf.verify)
  BY <1>1, PluralityKept
<1> HIDE DEF answer
<1>9. PluralityLabel'
  BY <1>1, <1>6, <1>7, <1>8 DEF PluralityLabel
<1> QED BY <1>1, <1>4, <1>5, <1>9 DEF VInv

LEMMA FailureKeeps ==
  ASSUME VInv, LabelFails
  PROVE  VInv'
<1>1. /\ pc' = "error" /\ Restored = conf.truth
      /\ row' = [row EXCEPT ![prompt] = Restored]
      /\ UNCHANGED <<conf, pass, prompt, responses, freq_list, majority, ckpt>>
  BY RestoredIsTruth DEF LabelFails, voting, VInv, Typed
<1>2. Grouped' /\ IInv'
  BY <1>1, GroupedKept, FailingStep DEF VInv
<1>3. conf \in Configs /\ conf.truth \in Answers
  BY PseudoLabelAssumption DEF VInv, IInv
<1>4. Typed'
  BY <1>1, <1>3 DEF VInv, Typed, Labels
<1>5. Len(responses) = 1 /\ Len(responses) = conf.n
  BY <1>3, SomeVoted, LoneVote DEF LabelFails, Voted, VInv
<1>6. PluralityLabel'
  BY <1>1, <1>5 DEF PluralityLabel
<1> QED BY <1>1, <1>2, <1>4, <1>6 DEF VInv

LEMMA VInvStep == VInv /\ [Next]_vars => VInv'
<1> SUFFICES ASSUME VInv, [Next]_vars PROVE VInv'
  OBVIOUS
<1>1. IInv'
  BY StepHolds DEF VInv
<1>2. conf \in Configs /\ conf.truth \in Answers /\ conf' \in Configs
  BY <1>1, PseudoLabelAssumption DEF VInv, IInv
<1>3. ASSUME conf' = conf, responses' = <<>>, freq_list' = <<>>, pc' # "error"
      PROVE  Grouped' /\ PluralityLabel'
  <2>1. (conf \in Configs /\ responses = <<>> /\ freq_list = <<>> =>
           Grouped /\ Len(responses) # conf.n)'
    BY NoVotes, PTL
  <2>2. Grouped' /\ Len(responses') # conf'.n
    BY <1>2, <1>3, <2>1
  <2> QED BY <1>3, <2>2 DEF PluralityLabel
<1>4. CASE NewPass
  <2>1. /\ pass' = pass + 1 /\ pass < Passes /\ row' = [p \in Prompts |-> conf.truth]
        /\ pc' = "generate" /\ UNCHANGED <<conf, prompt, responses, freq_list, majority, ckpt>>
        /\ responses = <<>> /\ freq_list = <<>>
    BY <1>4 DEF NewPass, voting, state, VInv
  <2>2. Typed'
    BY <1>2, <2>1, PseudoLabelAssumption DEF VInv, Typed, Labels
  <2> QED BY <1>1, <1>3, <2>1, <2>2 DEF VInv
<1>5. CASE Generate
  <2>1. /\ prompt' \in Prompts /\ pc' = "vote" /\ responses' = <<>> /\ freq_list' = <<>>
        /\ UNCHANGED <<conf, pass, row, majority, ckpt>>
    BY <1>5 DEF Generate, state, VInv, IInv, Shapes
  <2>2. Typed'
    BY <2>1 DEF VInv, Typed
  <2> QED BY <1>1, <1>3, <2>1, <2>2 DEF VInv
<1>6. CASE EndPass
  <2>1. /\ pc' = "pass" /\ responses' = <<>> /\ freq_list' = <<>>
        /\ ckpt' = ckpt \/ ckpt'.majority = majority
        /\ UNCHANGED <<conf, pass, prompt, row, majority>>
    BY <1>6 DEF EndPass, Saved, state
  <2>2. Typed'
    BY <2>1 DEF VInv, Typed
  <2> QED BY <1>1, <1>3, <2>1, <2>2 DEF VInv
<1>7. CASE LabelLabeled
  BY <1>7, LabeledKeeps
<1>8. CASE LabelUnlabeled
  BY <1>8, UnlabeledKeeps
<1>9. CASE LabelFails
  BY <1>9, FailureKeeps
<1>10. CASE Restart
  <2>1. /\ pc' = "pass" /\ responses' = <<>> /\ freq_list' = <<>>
        /\ row' = [p \in Prompts |-> conf.truth] /\ majority' = ckpt.majority
        /\ UNCHANGED <<conf, pass, prompt, ckpt>>
    BY <1>10 DEF Restart
  <2>2. Typed'
    BY <1>2, <2>1 DEF VInv, Typed, Labels
  <2> QED BY <1>1, <1>3, <2>1, <2>2 DEF VInv
<1>11. ASSUME NEW answer \in Answers \cup {Unparsable}, Vote(answer)
       PROVE  VInv'
  <2>1. pc' = "vote" /\ pc = "vote" /\ UNCHANGED <<conf, pass, prompt, row, majority, ckpt>>
    BY <1>11 DEF Vote, Voting, state
  <2>2. Grouped'
    BY <1>2, <1>11, VoteStep DEF VInv, Parsed
  <2>3. Typed'
    BY <2>1 DEF VInv, Typed
  <2> QED BY <1>1, <2>1, <2>2, <2>3 DEF VInv, PluralityLabel
<1>12. CASE Done \/ UNCHANGED vars
  <2>1. UNCHANGED <<conf, pc, pass, prompt, responses, freq_list, row, majority, ckpt>>
    BY <1>12 DEF Done, vars, voting, state
  <2>2. Grouped'
    BY <2>1, GroupedKept DEF VInv
  <2>3. Typed'
    BY <2>1 DEF VInv, Typed
  <2>4. PluralityLabel'
    BY <2>1, PluralityKept DEF VInv, PluralityLabel
  <2> QED BY <1>1, <2>1, <2>2, <2>3, <2>4 DEF VInv
<1> QED BY <1>4, <1>5, <1>6, <1>7, <1>8, <1>9, <1>10, <1>11, <1>12 DEF Next

LEMMA VInvHolds == Spec => []VInv
  BY VInvInit, VInvStep, PTL DEF Spec

\* The rows, the groups and what is kept of the vote have their types.
THEOREM TypeCorrect == Spec => []TypeOK
<1>1. VInv => TypeOK
  <2> SUFFICES ASSUME VInv PROVE TypeOK
    OBVIOUS
  <2>1. /\ conf \in Configs /\ conf.truth \in Answers /\ todo \subseteq Prompts
        /\ conf.n \in Nat
    BY PseudoLabelAssumption DEF VInv, IInv, Shapes
  <2>2. real_gt \in [Prompts -> Answers \cup {Unknown}] /\ right \in [Prompts -> BOOLEAN]
    BY <2>1 DEF VInv, IInv, Shapes, TruthKept
  <2>3. \A b \in ToSet(freq_list) :
          b.rep \in Answers \cup {Unparsable} /\ b.members \subseteq 1..conf.n
    <3>1. ASSUME NEW k \in DOMAIN freq_list
          PROVE  Rep(k) \in Parsed /\ Members(k) \subseteq 1..conf.n
      <4>1. Rep(k) \in Parsed /\ Members(k) \subseteq Voters /\ Len(responses) \in Nat
        BY GroupIs DEF VInv, Grouped
      <4>2. Len(responses) <= conf.n
        BY DEF VInv, Grouped, Partition
      <4> QED BY <2>1, <4>1, <4>2 DEF Voters
    <3> QED BY <3>1 DEF ToSet, Rep, Members, Parsed
  <2> QED BY <2>1, <2>2, <2>3 DEF VInv, Typed, Labels, Grouped, Partition, Parsed, TypeOK, Saved
<1> QED BY <1>1, VInvHolds, PTL

\* Where verify is an equivalence, the loop over the responses finds the strict plurality,
\* in whatever order they come; and two responses or more never raise in rep[1].
THEOREM LabelIsPlurality == Spec => []PluralityLabel
<1>1. VInv => PluralityLabel
  BY DEF VInv
<1> QED BY <1>1, VInvHolds, PTL
===============================================================================
