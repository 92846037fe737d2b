------------------------------- MODULE PseudoLabel -------------------------------
(***************************************************************************)
(* _generate_pseudo_labels_and_update_passrate: the responses to a prompt  *)
(* vote on an answer.  For a labeled prompt the vote is only recorded; for *)
(* an unlabeled one the winner overwrites the ground truth in the row, and *)
(* the true one is kept in real_gt to measure the real pass rate with.     *)
(*                                                                         *)
(* verify of math_verify is any reflexive relation: it need be neither     *)
(* symmetric nor transitive.  A response without a parsed answer raises in *)
(* every comparison and so matches nothing, not even itself.               *)
(***************************************************************************)
EXTENDS Integers, Sequences, FiniteSets, SequencesExt, FiniteSetsExt

CONSTANTS
  Labeled, Unlabeled,  \* prompts
  Answers,             \* what a response may be parsed to
  Unparsable,          \* the empty result of parse
  NoMajority,          \* "__NoMajorityAnswer__"
  Unknown,             \* not in real_gt
  Configs,             \* the configurations covered
  Passes               \* bound: passes over the prompts

Prompts == Labeled \cup Unlabeled
Reflexive(rel) == \A a \in Answers : <<a, a>> \in rel

ASSUME PseudoLabelAssumption ==
  /\ Labeled \cap Unlabeled = {} /\ Prompts # {}
  /\ {Unparsable, NoMajority, Unknown} \cap Answers = {} /\ NoMajority # Unparsable
  /\ Passes \in Nat
  /\ \A c \in Configs : /\ c.n \in Nat \ {0} /\ c.truth \in Answers
                        /\ c.verify \subseteq Answers \X Answers /\ Reflexive(c.verify)

VARIABLES
  conf,       \* rollout.n, the relation verify and the true answer
  pc, pass,   \* where the trainer is, passes begun
  todo,       \* prompts of this pass still to be labeled
  prompt,     \* the prompt whose responses vote
  responses,  \* their parsed answers, as far as they have voted
  freq_list,  \* answers found so far: [rep, members], members of 1..n
  row,        \* reward_model.ground_truth of each row of this pass
  real_gt,    \* self.real_gt
  majority,   \* self.majority_answer
  right,      \* self.sample_is_right
  judged,     \* what the real, and the majority pass rate were last measured against
  ckpt        \* real_gt, majority and right of the checkpoint, or empty ones

voting == <<prompt, responses, freq_list>>
state == <<real_gt, majority, right, judged>>
vars == <<conf, pc, pass, todo, voting, row, state, ckpt>>

Saved == [real_gt |-> real_gt, majority |-> majority, right |-> right]

Init ==
  /\ conf \in Configs
  /\ pc = "pass" /\ pass = 0 /\ todo = {}
  /\ prompt = CHOOSE p \in Prompts : TRUE
  /\ responses = <<>> /\ freq_list = <<>>
  /\ row = [p \in Prompts |-> conf.truth]
  /\ real_gt = [p \in Prompts |-> Unknown]
  /\ majority = [p \in Prompts |-> NoMajority] /\ right = [p \in Prompts |-> FALSE]
  /\ judged = [p \in Prompts |-> [real |-> conf.truth, majority |-> NoMajority]]
  /\ ckpt = Saved

\* The rows come fresh from the dataset in every pass.
NewPass ==
  /\ pc = "pass" /\ pass < Passes
  /\ pass' = pass + 1 /\ todo' = Prompts /\ row' = [p \in Prompts |-> conf.truth]
  /\ pc' = "generate"
  /\ UNCHANGED <<conf, voting, state, ckpt>>

\* The responses to one prompt are next.
Generate ==
  /\ pc = "generate" /\ todo # {}
  /\ \E p \in todo : prompt' = p /\ todo' = todo \ {p}
  /\ responses' = <<>> /\ freq_list' = <<>> /\ pc' = "vote"
  /\ UNCHANGED <<conf, pass, row, state, ckpt>>

\* A checkpoint, or none, at the end of a pass.
EndPass ==
  /\ pc = "generate" /\ todo = {}
  /\ pc' = "pass" /\ ckpt' \in {ckpt, Saved}
  /\ responses' = <<>> /\ freq_list' = <<>>
  /\ UNCHANGED <<conf, pass, todo, prompt, row, state>>

-----------------------------------------------------------------------------
\* The vote.

\* exist_answer[1] == answer[1] or verify(exist_answer, answer)
Match(exist, answer) == <<exist, answer>> \in conf.verify

Voting == pc = "vote" /\ Len(responses) < conf.n
Voted == pc = "vote" /\ Len(responses) = conf.n

\* The next response joins the first answer it matches, or stands for a new one.
Vote(answer) ==
  /\ Voting /\ responses' = Append(responses, answer)
  /\ LET i == Len(responses')
         found == {k \in DOMAIN freq_list : Match(freq_list[k].rep, answer)}
     IN  freq_list' = IF found = {} THEN Append(freq_list, [rep |-> answer, members |-> {i}])
                                    ELSE [freq_list EXCEPT ![Min(found)].members = @ \cup {i}]
  /\ UNCHANGED <<conf, pc, pass, todo, prompt, row, state, ckpt>>

Votes(b) == Cardinality(b.members)
Leaders == {k \in DOMAIN freq_list :
              \A j \in DOMAIN freq_list : Votes(freq_list[j]) <= Votes(freq_list[k])}
Winner == freq_list[Min(Leaders)].rep

\* Mutant: a tie goes to the first answer.
UniqueFirst == TRUE

\* count_freq[max_count] == 1
Unique == Cardinality(Leaders) = 1

\* verify(ground_truth, majority_answer); the marker matches no answer.
IsRight(ground_truth, answer) == <<ground_truth, answer>> \in conf.verify

EndPrompt == pc' = "generate" /\ UNCHANGED <<conf, pass, todo, voting, ckpt>>

\* Mutant: a leader without an answer becomes the label.
LabelLabeledUncaught ==
  /\ Voted /\ prompt \in Labeled
  /\ majority' = [majority EXCEPT ![prompt] = Winner]
  /\ right' = [right EXCEPT ![prompt] = IsRight(row[prompt], Winner)]
  /\ judged' = [judged EXCEPT ![prompt].real = row[prompt]]
  /\ UNCHANGED <<row, real_gt>>
  /\ EndPrompt

\* A labeled prompt: the first leader, a leader that has no answer raises and is caught.
LabelLabeled ==
  /\ Voted /\ prompt \in Labeled
  /\ LET answer == IF Winner = Unparsable THEN NoMajority ELSE Winner
     IN  /\ majority' = [majority EXCEPT ![prompt] = answer]
         /\ right' = [right EXCEPT ![prompt] = IsRight(row[prompt], answer)]
  /\ judged' = [judged EXCEPT ![prompt].real = row[prompt]]
  /\ UNCHANGED <<row, real_gt>>
  /\ EndPrompt

\* Restores the ground truth, where it is known.
Restored == IF real_gt[prompt] # Unknown THEN real_gt[prompt] ELSE row[prompt]

\* Mutant: the pseudo label is recorded as the truth.
LabelRecordsLate ==
  /\ Voted /\ prompt \in Unlabeled
  /\ ~(Unique /\ Winner = Unparsable)
  /\ LET answer == IF Unique THEN Winner ELSE NoMajority
     IN  /\ majority' = [majority EXCEPT ![prompt] = answer]
         /\ real_gt' = [real_gt EXCEPT ![prompt] = IF @ = Unknown THEN answer ELSE @]
         /\ row' = [row EXCEPT ![prompt] = answer]
         /\ judged' = [judged EXCEPT ![prompt] = [real |-> Restored, majority |-> answer]]
         /\ right' = [right EXCEPT ![prompt] = IsRight(Restored, answer)]
  /\ EndPrompt

\* An unlabeled prompt: measured against the truth, then labeled with the only leader,
\* or with the marker that no response equals, and measured against that.
LabelUnlabeled ==
  /\ Voted /\ prompt \in Unlabeled
  /\ ~(Unique /\ Winner = Unparsable)
  /\ LET answer == IF Unique THEN Winner ELSE NoMajority
     IN  /\ majority' = [majority EXCEPT ![prompt] = answer]
         /\ real_gt' = [real_gt EXCEPT ![prompt] = IF @ = Unknown THEN Restored ELSE @]
         /\ row' = [row EXCEPT ![prompt] = answer]
         /\ judged' = [judged EXCEPT ![prompt] = [real |-> Restored, majority |-> answer]]
         /\ right' = [right EXCEPT ![prompt] = IsRight(Restored, answer)]
  /\ EndPrompt

\* rep[1] of an only leader without an answer raises IndexError, after the real pass
\* rate has been added.
LabelFails ==
  /\ Voted /\ prompt \in Unlabeled
  /\ Unique /\ Winner = Unparsable
  /\ pc' = "error"
  /\ row' = [row EXCEPT ![prompt] = Restored]
  /\ judged' = [judged EXCEPT ![prompt].real = Restored]
  /\ UNCHANGED <<conf, pass, todo, voting, real_gt, majority, right, ckpt>>

\* A restart: what the checkpoint holds, and rows that are read again.
Restart ==
  /\ pc \in {"generate", "error"} /\ pass < Passes
  /\ pc' = "pass" /\ row' = [p \in Prompts |-> conf.truth]
  /\ real_gt' = ckpt.real_gt /\ majority' = ckpt.majority /\ right' = ckpt.right
  /\ responses' = <<>> /\ freq_list' = <<>> /\ todo' = {}
  /\ UNCHANGED <<conf, pass, prompt, judged, ckpt>>

Done == (pc = "error" \/ (pc = "pass" /\ pass = Passes)) /\ UNCHANGED vars

Next ==
  \/ NewPass \/ Generate \/ EndPass \/ LabelLabeled \/ LabelUnlabeled \/ LabelFails \/ Restart
  \/ Done
  \/ \E answer \in Answers \cup {Unparsable} : Vote(answer)

Spec == Init /\ [][Next]_vars

-----------------------------------------------------------------------------
\* Properties.

\* The types of the rows, the vote and what is kept of it.
TypeOK ==
  /\ conf \in Configs /\ pc \in {"pass", "generate", "vote", "error"} /\ pass \in 0..Passes
  /\ todo \subseteq Prompts /\ prompt \in Prompts
  /\ responses \in Seq(Answers \cup {Unparsable})
  /\ \A b \in ToSet(freq_list) :
       b.rep \in Answers \cup {Unparsable} /\ b.members \subseteq 1..conf.n
  /\ row \in [Prompts -> Answers \cup {NoMajority}]
  /\ Saved \in [real_gt : [Prompts -> Answers \cup {Unknown}],
                majority : [Prompts -> Answers \cup {NoMajority}], right : [Prompts -> BOOLEAN]]

Equivalence(rel) ==
  \A a, b, c \in Answers : /\ <<a, b>> \in rel => <<b, a>> \in rel
                           /\ <<a, b>> \in rel /\ <<b, c>> \in rel => <<a, c>> \in rel

\* The responses that say the same as the i-th.
Same(i) == {i} \cup {j \in DOMAIN responses : Match(responses[i], responses[j])}

\* The responses that outnumber every other answer, if there are such.
Plurality ==
  {i \in DOMAIN responses : \A j \in DOMAIN responses \ Same(i) :
                              Cardinality(Same(j)) < Cardinality(Same(i))}

\* Where verify is an equivalence the pseudo label does not depend on the order of the
\* responses: it is the answer of the strict plurality, and the marker if there is none.
\* For any other relation the loop's result depends on that order.  A winner without an
\* answer ends the run, but never with two responses or more: those without an answer
\* have one vote each.
PluralityLabel ==
  /\ pc = "generate" /\ Len(responses) = conf.n /\ prompt \in Unlabeled
     /\ Equivalence(conf.verify) =>
       /\ majority[prompt] = NoMajority <=> Plurality = {}
       /\ \A i \in Plurality : Match(majority[prompt], responses[i])
  /\ pc = "error" => conf.n = 1

\* No pass rate is ever measured against a pseudo label where the real one is meant, in
\* any pass and after any restart, and majority_is_right compares the vote with the
\* truth: what is overwritten has been kept before.
RealMeasured ==
  \A p \in Prompts :
    /\ judged[p].real = conf.truth /\ real_gt[p] \in {Unknown, conf.truth}
    /\ right[p] <=> IsRight(conf.truth, majority[p])
===============================================================================
