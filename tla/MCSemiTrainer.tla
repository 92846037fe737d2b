----------------------------- MODULE MCSemiTrainer -----------------------------
(* Small instances of SemiTrainer for TLC. *)
EXTENDS SemiTrainer

CONSTANTS l1, l2, u1, u2, u3

TwoLabeled == {l1, l2}
ThreeUnlabeled == {u1, u2, u3}

\* Two batches, each with a labeled and an unlabeled prompt, every prompt once; one
\* of them may select two.
WideOrders ==
  {<<{l1, u1, u2}, {l2, u3}>>, <<{l2, u3}, {l1, u1, u2}>>,
   <<{l1, u3}, {l2, u1, u2}>>, <<{l1, u2}, {l2, u1, u3}>>}

\* Five prompts in batches of two: drop_last leaves one of them out of each pass.
DropLastOrders ==
  {<<{l1, u1}, {l2, u2}>>, <<{l1, u1}, {l2, u3}>>, <<{l1, u2}, {l2, u3}>>,
   <<{l2, u3}, {l1, u2}>>}

\* The same, and a shuffle that puts the labeled prompts in a batch of their own.
AnyOrders == DropLastOrders \cup {<<{l1, l2}, {u1, u2}>>}

Either == {"nothing", "anew"}
Anew == {"anew"}

\* The loop of copy_dict_with_validation ends in the databases that Inserted gives.
ASSUME LoopInserts ==
  \A known \in SUBSET Prompts, sel \in SUBSET Unlabeled :
    LET db == [p \in Prompts |-> IF p \in known THEN <<1>> ELSE <<>>]
        new == [p \in Prompts |-> <<1, 2>>]
    IN  {FoldLeft(LAMBDA d, u : Insert(d, new, u), db, order) : order \in SetToSeqs(sel)}
          = {Inserted(db, new, sel, lost) : lost \in MayBeLost(db, sel)}

Conf(epochs, warmUp, updateDb, valBeforeTrain, orders) ==
  [epochs |-> epochs, totalSteps |-> 0, warmUp |-> warmUp, updateDb |-> updateDb,
   supervised |-> FALSE, valBeforeTrain |-> valBeforeTrain, orders |-> orders]

SupervisedConf == [Conf(3, 2, TRUE, TRUE, WideOrders) EXCEPT !.supervised = TRUE]

All ==
  {Conf(4, 2, TRUE, FALSE, WideOrders), Conf(4, 3, TRUE, TRUE, WideOrders),
   Conf(5, 2, FALSE, FALSE, WideOrders), Conf(4, 2, TRUE, FALSE, AnyOrders), SupervisedConf,
   \* trainer.total_training_steps set below and above what the epochs hold.
   [Conf(4, 2, TRUE, FALSE, WideOrders) EXCEPT !.totalSteps = 5],
   [Conf(2, 1, TRUE, FALSE, WideOrders) EXCEPT !.totalSteps = 7]}
LostEpoch == {Conf(3, 2, TRUE, FALSE, WideOrders)}
SupervisedOnly == {[SupervisedConf EXCEPT !.valBeforeTrain = FALSE]}
===============================================================================
