--------------------------- MODULE SemiTrainer_proofs ---------------------------
(***************************************************************************)
(* The trajectories and the reference database of the trainer keep their   *)
(* order, whatever is saved, cut and resumed: the safety properties of     *)
(* SemiTrainer for any prompts, any number of batches, epochs and          *)
(* restarts, and any configurations.                                       *)
(*                                                                         *)
(* The argument is about levels: how long a trajectory will be when the    *)
(* pass is over.  A batch leaves every level as it is, a new pass raises   *)
(* all of them by one, and a restart cuts the trajectories to the shortest *)
(* one, which leaves the levels within one of each other.                  *)
(***************************************************************************)
EXTENDS SemiTrainer, SequenceTheorems, FiniteSetTheorems, WellFoundedInduction, TLAPS

-----------------------------------------------------------------------------
\* Smallest numbers, prefixes and cuts.

LEMMA MinNat ==
  ASSUME NEW S \in SUBSET Nat, S # {}
  PROVE  Min(S) \in S /\ \A y \in S : Min(S) <= y
<1> DEFINE Less == OpToRel(<, Nat)
<1>1. IsWellFoundedOn(Less, Nat)
  BY NatLessThanWellFounded
<1>2. \A x, y \in Nat : <<y, x>> \in Less <=> y < x
  BY DEF OpToRel
<1> HIDE DEF Less
<1>3. \E x \in S : \A y \in S : ~ (<<y, x>> \in Less)
  BY <1>1, WFMin
<1>4. PICK x \in S : \A y \in S : ~ (<<y, x>> \in Less)
  BY <1>3
<1>5. \A y \in S : ~ (y < x)
  BY <1>2, <1>4
<1>6. \A y \in S : x <= y
  BY <1>5
<1> QED BY <1>6 DEF Min

LEMMA MinOfTwo ==
  ASSUME NEW a \in Nat, NEW b \in Nat
  PROVE  Min({a, b}) = IF a <= b THEN a ELSE b
<1>1. Min({a, b}) \in {a, b} /\ \A y \in {a, b} : Min({a, b}) <= y
  BY MinNat
<1> QED BY <1>1

LEMMA PrefixIs ==
  ASSUME NEW A, NEW s \in Seq(A), NEW t \in Seq(A)
  PROVE  IsPrefix(s, t) <=> Len(s) <= Len(t) /\ \A i \in 1..Len(s) : s[i] = t[i]
<1>1. Len(s) \in Nat /\ Len(t) \in Nat
  BY LenProperties
<1>2. SubSeq(s, 1, Len(s)) = s
  BY SubSeqFull
<1>3. ASSUME Len(s) <= Len(t)
      PROVE  /\ SubSeq(t, 1, Len(s)) \in Seq(A) /\ Len(SubSeq(t, 1, Len(s))) = Len(s)
             /\ \A i \in 1..Len(s) : SubSeq(t, 1, Len(s))[i] = t[i]
  <2>1. \A i \in 1..Len(s) : t[i] \in A
    BY <1>1, <1>3, ElementOfSeq
  <2>2. /\ SubSeq(t, 1, Len(s)) \in Seq(A)
        /\ Len(SubSeq(t, 1, Len(s))) = IF 1 <= Len(s) THEN Len(s) - 1 + 1 ELSE 0
        /\ \A i \in 1..Len(s) - 1 + 1 : SubSeq(t, 1, Len(s))[i] = t[1 + i - 1]
    BY <1>1, <2>1, SubSeqProperties
  <2> QED BY <1>1, <2>2
<1>4. ASSUME Len(s) <= Len(t), \A i \in 1..Len(s) : s[i] = t[i]
      PROVE  s = SubSeq(t, 1, Len(s))
  <2> DEFINE u == SubSeq(t, 1, Len(s))
  <2>1. u \in Seq(A) /\ Len(s) = Len(u) /\ \A i \in 1..Len(s) : s[i] = u[i]
    BY <1>3, <1>4
  <2> HIDE DEF u
  <2>2. s = u
    BY <2>1, SeqEqual
  <2> QED BY <2>2 DEF u
<1>5. ASSUME Len(s) <= Len(t), s = SubSeq(t, 1, Len(s))
      PROVE  \A i \in 1..Len(s) : s[i] = t[i]
  BY <1>3, <1>5
<1> QED BY <1>2, <1>4, <1>5 DEF IsPrefix

\* What a cut leaves of a trajectory.
LEMMA CutFacts ==
  ASSUME NEW lists \in Lists, NEW k \in Nat
  PROVE  /\ Cut(lists, k) \in Lists
         /\ \A p \in Prompts :
              /\ Len(Cut(lists, k)[p]) = IF k <= Len(lists[p]) THEN k ELSE Len(lists[p])
              /\ \A i \in 1..Len(Cut(lists, k)[p]) : Cut(lists, k)[p][i] = lists[p][i]
<1>1. ASSUME NEW p \in Prompts
      PROVE  /\ Cut(lists, k)[p] \in Seq(Nat)
             /\ Len(Cut(lists, k)[p]) = IF k <= Len(lists[p]) THEN k ELSE Len(lists[p])
             /\ \A i \in 1..Len(Cut(lists, k)[p]) : Cut(lists, k)[p][i] = lists[p][i]
  <2> DEFINE s == lists[p]
             m == IF k <= Len(s) THEN k ELSE Len(s)
  <2>1. s \in Seq(Nat)
    BY DEF Lists
  <2>2. Len(s) \in Nat
    BY <2>1, LenProperties
  <2>3. m \in Nat /\ m <= Len(s)
    BY <2>2
  <2>4. Cut(lists, k)[p] = SubSeq(s, 1, m)
    BY <2>2, MinOfTwo DEF Cut
  <2> HIDE DEF s, m
  <2>5. \A i \in 1..m : s[i] \in Nat
    BY <2>1, <2>2, <2>3, ElementOfSeq
  <2>6. /\ SubSeq(s, 1, m) \in Seq(Nat)
        /\ Len(SubSeq(s, 1, m)) = IF 1 <= m THEN m - 1 + 1 ELSE 0
        /\ \A i \in 1..m - 1 + 1 : SubSeq(s, 1, m)[i] = s[1 + i - 1]
    BY <2>3, <2>5, SubSeqProperties
  <2>7. /\ SubSeq(s, 1, m) \in Seq(Nat) /\ Len(SubSeq(s, 1, m)) = m
        /\ \A i \in 1..m : SubSeq(s, 1, m)[i] = s[i]
    BY <2>3, <2>6
  <2> QED BY <2>4, <2>7 DEF s, m
<1>2. Cut(lists, k) = [p \in Prompts |-> Cut(lists, k)[p]]
  BY DEF Cut
<1>3. Cut(lists, k) \in [Prompts -> Seq(Nat)]
  BY <1>1, <1>2
<1> QED BY <1>1, <1>3 DEF Lists

-----------------------------------------------------------------------------
\* What a pass has yet to yield.

Coming(t) == UNION ToSet(t)
Suffix(t) == \E order \in Orders, i \in 1..PassLen + 1 : t = SubSeq(order, i, PassLen)

LEMMA OrderIs ==
  ASSUME conf \in Configs, NEW order \in Orders
  PROVE  /\ order \in Seq(SUBSET Prompts) /\ Len(order) = PassLen /\ PassLen \in Nat \ {0}
         /\ \A i \in 1..PassLen : order[i] \subseteq Prompts
         /\ \A i, j \in 1..PassLen : i # j => order[i] \cap order[j] = {}
<1>1. /\ order \in Seq(SUBSET Prompts) /\ Len(order) = PassLen /\ PassLen \in Nat \ {0}
      /\ \A i, j \in 1..PassLen : i # j => order[i] \cap order[j] = {}
  BY SemiAssumption DEF Orders
<1>2. \A i \in 1..Len(order) : order[i] \in SUBSET Prompts
  BY <1>1, ElementOfSeq
<1> QED BY <1>1, <1>2

LEMMA SuffixIs ==
  ASSUME conf \in Configs, NEW order \in Orders, NEW i \in 1..PassLen + 1,
         NEW t, t = SubSeq(order, i, PassLen)
  PROVE  /\ t \in Seq(SUBSET Prompts) /\ Len(t) = PassLen + 1 - i
         /\ \A j \in 1..Len(t) : t[j] = order[i + j - 1]
         /\ Coming(t) = UNION {order[j] : j \in i..PassLen}
<1>1. /\ order \in Seq(SUBSET Prompts) /\ Len(order) = PassLen /\ PassLen \in Nat \ {0}
      /\ \A j \in 1..PassLen : order[j] \in SUBSET Prompts
  BY OrderIs
<1>2. \A j \in i..PassLen : order[j] \in SUBSET Prompts
  BY <1>1
<1>3. /\ SubSeq(order, i, PassLen) \in Seq(SUBSET Prompts)
      /\ Len(SubSeq(order, i, PassLen)) = IF i <= PassLen THEN PassLen - i + 1 ELSE 0
      /\ \A j \in 1..PassLen - i + 1 : SubSeq(order, i, PassLen)[j] = order[i + j - 1]
  BY <1>1, <1>2, SubSeqProperties
<1>4. /\ t \in Seq(SUBSET Prompts) /\ Len(t) = PassLen + 1 - i
      /\ \A j \in 1..Len(t) : t[j] = order[i + j - 1]
  BY <1>1, <1>3
<1>5. DOMAIN t = 1..Len(t)
  BY <1>4, LenProperties
<1>6. ToSet(t) = {order[j] : j \in i..PassLen}
  <2>1. \A j \in 1..Len(t) : i + j - 1 \in i..PassLen
    BY <1>1, <1>4
  <2>2. \A j \in i..PassLen : j - i + 1 \in 1..Len(t) /\ t[j - i + 1] = order[j]
    BY <1>1, <1>4
  <2>3. ToSet(t) = {t[j] : j \in 1..Len(t)}
    BY <1>5 DEF ToSet
  <2>4. \A x \in ToSet(t) : x \in {order[j] : j \in i..PassLen}
    BY <1>4, <2>1, <2>3
  <2>5. \A x \in {order[j] : j \in i..PassLen} : x \in ToSet(t)
    BY <2>2, <2>3
  <2> QED BY <2>4, <2>5
<1> QED BY <1>4, <1>6 DEF Coming

\* A new pass.
LEMMA WholeOrder ==
  ASSUME conf \in Configs, NEW order \in Orders
  PROVE  /\ Suffix(order) /\ Len(order) = PassLen /\ Coming(order) \subseteq Prompts
         /\ FullPasses => Coming(order) = Prompts
<1>1. /\ order \in Seq(SUBSET Prompts) /\ Len(order) = PassLen /\ PassLen \in Nat \ {0}
      /\ \A i \in 1..PassLen : order[i] \subseteq Prompts
  BY OrderIs
<1>2. order = SubSeq(order, 1, PassLen) /\ 1 \in 1..PassLen + 1
  BY <1>1, SubSeqFull
<1>3. Coming(order) = UNION {order[j] : j \in 1..PassLen}
  BY <1>2, SuffixIs
<1> QED BY <1>1, <1>2, <1>3 DEF Suffix, FullPasses, Coming

\* The end of a pass.
LEMMA NothingComes == Coming(<<>>) = {}
<1> DEFINE none == <<>>
<1>1. none \in Seq({}) /\ Len(none) = 0
  OBVIOUS
<1>2. DOMAIN none = 1..0
  BY <1>1, LenProperties
<1> HIDE DEF none
<1>3. ToSet(none) = {}
  BY <1>2 DEF ToSet
<1> QED BY <1>3 DEF Coming, none

LEMMA SuffixFacts ==
  ASSUME conf \in Configs, NEW t, Suffix(t)
  PROVE  /\ t \in Seq(SUBSET Prompts) /\ Len(t) \in 0..PassLen /\ Coming(t) \subseteq Prompts
         /\ t = <<>> <=> Len(t) = 0
         /\ BothSides => t \in Orders \/ \E l \in Labeled : l \notin Coming(t)
<1>1. PICK order \in Orders, i \in 1..PassLen + 1 : t = SubSeq(order, i, PassLen)
  BY DEF Suffix
<1>2. /\ t \in Seq(SUBSET Prompts) /\ Len(t) = PassLen + 1 - i
      /\ Coming(t) = UNION {order[j] : j \in i..PassLen}
  BY <1>1, SuffixIs
<1>3. /\ order \in Seq(SUBSET Prompts) /\ Len(order) = PassLen /\ PassLen \in Nat \ {0}
      /\ \A j \in 1..PassLen : order[j] \subseteq Prompts
      /\ \A j, k \in 1..PassLen : j # k => order[j] \cap order[k] = {}
  BY OrderIs
<1>4. Coming(t) \subseteq Prompts
  BY <1>2, <1>3
<1>5. t = <<>> <=> Len(t) = 0
  BY <1>2, EmptySeq
<1>6. ASSUME BothSides, i # 1
      PROVE  \E l \in Labeled : l \notin Coming(t)
  <2>1. PICK l \in Labeled : l \in order[1]
    BY <1>3, <1>6 DEF BothSides
  <2>2. \A j \in i..PassLen : l \notin order[j]
    BY <1>3, <1>6, <2>1
  <2> QED BY <1>2, <2>2
<1>7. CASE i = 1
  <2>1. t = order
    BY <1>1, <1>3, <1>7, SubSeqFull
  <2> QED BY <1>2, <1>3, <1>4, <1>5, <2>1 DEF Coming
<1>8. CASE i # 1
  BY <1>2, <1>3, <1>4, <1>5, <1>6, <1>8
<1> QED BY <1>7, <1>8

\* The next batch.
LEMMA BatchFacts ==
  ASSUME conf \in Configs, NEW t, Suffix(t), t # <<>>
  PROVE  /\ Suffix(Tail(t)) /\ Len(Tail(t)) = Len(t) - 1
         /\ Head(t) \subseteq Prompts /\ Coming(t) = Head(t) \cup Coming(Tail(t))
         /\ Head(t) \cap Coming(Tail(t)) = {}
         /\ BothSides => Head(t) \cap Labeled # {} /\ Head(t) \cap Unlabeled # {}
<1>1. PICK order \in Orders, i \in 1..PassLen + 1 : t = SubSeq(order, i, PassLen)
  BY DEF Suffix
<1>2. /\ t \in Seq(SUBSET Prompts) /\ Len(t) = PassLen + 1 - i
      /\ Coming(t) = UNION {order[j] : j \in i..PassLen}
  BY <1>1, SuffixIs
<1>3. /\ order \in Seq(SUBSET Prompts) /\ Len(order) = PassLen /\ PassLen \in Nat \ {0}
      /\ \A j \in 1..PassLen : order[j] \subseteq Prompts
      /\ \A j, k \in 1..PassLen : j # k => order[j] \cap order[k] = {}
  BY OrderIs
<1>4. Len(t) \in Nat \ {0}
  BY <1>2, EmptySeq
<1>5. i \in 1..PassLen
  BY <1>2, <1>3, <1>4
<1>6. Head(t) = order[i] /\ Tail(t) = SubSeq(order, i + 1, PassLen)
  BY <1>1, <1>3, <1>5, HeadTailOfSubSeq
<1>7. i + 1 \in 1..PassLen + 1
  BY <1>3, <1>5
<1>8. /\ Len(Tail(t)) = PassLen + 1 - (i + 1)
      /\ Coming(Tail(t)) = UNION {order[j] : j \in i + 1..PassLen}
  BY <1>6, <1>7, SuffixIs
<1>9. i..PassLen = {i} \cup (i + 1..PassLen)
  BY <1>3, <1>5
<1>10. Coming(t) = Head(t) \cup Coming(Tail(t))
  BY <1>2, <1>6, <1>8, <1>9
<1>11. Head(t) \cap Coming(Tail(t)) = {}
  BY <1>3, <1>5, <1>6, <1>8
<1>12. Suffix(Tail(t))
  BY <1>6, <1>7 DEF Suffix
<1>13. BothSides => Head(t) \cap Labeled # {} /\ Head(t) \cap Unlabeled # {}
  BY <1>5, <1>6 DEF BothSides
<1>14. Head(t) \subseteq Prompts /\ Len(Tail(t)) = Len(t) - 1
  BY <1>2, <1>3, <1>5, <1>6, <1>8
<1> QED BY <1>10, <1>11, <1>12, <1>13, <1>14

-----------------------------------------------------------------------------
\* The inductive invariant.  lists and db are the trajectories and the reference database,
\* of the trainer or of the checkpoint, in pass n with the batches rest to come.

\* How long a trajectory will be at the end of the pass.
Level(lists, rest, p) == Len(lists[p]) + (IF p \in Coming(rest) THEN 1 ELSE 0)

Shaped(lists, db, n, rest) ==
  /\ n \in Nat /\ lists \in Lists /\ db \in Lists
  /\ IF n = 0 THEN rest = <<>> ELSE Suffix(rest)
  /\ Supervised => lists = NoLists

\* The passes are in their order, and the current one is there only when the prompt has
\* been in it.
Chronological(lists, n, rest) ==
  \A p \in Prompts :
    /\ \A i \in 1..Len(lists[p]) :
         /\ lists[p][i] \in 1..n
         /\ p \in Coming(rest) => lists[p][i] < n
         /\ i > 1 => lists[p][i - 1] < lists[p][i]
    /\ Level(lists, rest, p) <= n

Copied(db, lists) == \A p \in Prompts : IsPrefix(db[p], lists[p])

\* Who has no entry yet is to get the first in this pass.
Met(lists, n, rest) ==
  \A p \in Prompts : Len(lists[p]) = 0 => n = 0 \/ (n = 1 /\ p \in Coming(rest))

\* No reference is so short that it has no deviation, and none will be cut so short.
Deep(db, lists) ==
  \A p \in Prompts : Len(db[p]) > 0 =>
    Len(db[p]) >= 2 /\ \A q \in Prompts : Len(lists[q]) >= 2

Semi == ~Supervised /\ FullPasses
Good(lists, db, n, rest) ==
  /\ Shaped(lists, db, n, rest) /\ Chronological(lists, n, rest) /\ Copied(db, lists)
  /\ Semi => Met(lists, n, rest)
  /\ Semi /\ WarmUp >= 3 => Deep(db, lists)

\* At the end of the pass the trajectories will differ by one at most and, with both sides
\* in every batch, a labeled prompt will have one of the shortest.
Even(lists, rest) ==
  /\ \A p, q \in Prompts : Level(lists, rest, p) <= Level(lists, rest, q) + 1
  /\ BothSides =>
       \A u \in Unlabeled : \E l \in Labeled : Level(lists, rest, l) <= Level(lists, rest, u)

InPass == {"batch", "save", "batch_error", "query_error"}
Points ==
  /\ conf \in Configs
  /\ pc \in Ended \cup {"down", "initial", "epoch", "resumed", "batch", "save"}
  /\ run \in 0..MaxRuns /\ epoch \in 0..Epochs /\ step \in Nat
  /\ selected \subseteq Unlabeled /\ refMinLen \in Nat
  /\ run = 0 => pc = "down" /\ ckpt = NoCheckpoint
  /\ pc = "down" => run < MaxRuns /\ step = 0 /\ epoch = 0 /\ pass = 0 /\ todo = <<>>
  /\ pc = "down" => passrate = NoLists /\ ref = NoLists
  /\ pc = "initial" /\ pass = 0 => step = 0 /\ epoch = 0
  /\ pc \in InPass => epoch < Epochs /\ pass > 0
  /\ pc = "resumed" => pass > 0
  /\ pc = "epoch" => todo = <<>>

\* A trajectory is ahead of the epoch by what this pass adds to it, at most.
Reach ==
  IF pc \in InPass \cup {"done"}
  THEN \A p \in Prompts : Level(passrate, todo, p) <= epoch + 1
  ELSE \A p \in Prompts : Len(passrate[p]) <= epoch

\* The first incarnation counts its passes as epochs and has an entry from each.
First ==
  run = 1 /\ FullPasses =>
    /\ \A p \in Prompts : \A i \in 1..Len(passrate[p]) : passrate[p][i] = i
    /\ ~Supervised => \A p \in Prompts : Level(passrate, todo, p) = pass
    /\ pc \in {"initial", "epoch"} => epoch = pass
    /\ pc \in {"batch", "save"} => epoch = pass - 1
    /\ pc # "resumed" /\ (pc = "initial" => pass = 0)
    /\ Semi /\ WarmUp >= 2 => Deep(ref, passrate)

\* A trajectory is behind the epoch by one at most.
Low ==
  Semi =>
    /\ pc \in {"initial", "resumed", "batch", "save"} =>
         \A p \in Prompts : epoch <= Level(passrate, todo, p)
    /\ pc = "epoch" => \A p \in Prompts : epoch <= Len(passrate[p]) + 1

\* n passes are so many steps.
StepsOf(n) == n * PassLen

\* Every restart puts the epoch ahead of the steps by a pass at most.
Behind ==
  /\ pc \in {"initial", "save"} /\ pass > 0 => step >= StepsOf(epoch - run + 2) - Len(todo)
  /\ pc \in {"resumed", "batch"} => step > StepsOf(epoch - run + 2) - Len(todo)
  /\ pc = "epoch" => step > StepsOf(epoch - run + 1)
  /\ pc = "exhausted" => step > StepsOf(epoch - run + 1) /\ epoch = Epochs

\* A first incarnation is not resumed, nor is a supervised run ever: its epochs and steps
\* agree.
NotResumed == Supervised \/ run = 1
Exact ==
  NotResumed =>
    /\ pc # "resumed" /\ (pc = "initial" => pass = 0)
    /\ pc \in {"epoch", "batch"} => step <= TotalSteps
    /\ pc = "exhausted" => TotalSteps > StepsOf(Epochs)
    /\ pc = "epoch" => step = StepsOf(epoch) + 1
    /\ pc = "batch" => step = StepsOf(epoch + 1) - Len(todo) + 1
    /\ pc = "save" => step = StepsOf(epoch + 1) - Len(todo)

\* The lists in memory.
Trained == Good(passrate, ref, pass, todo) /\ (Semi /\ pass > 0 => Even(passrate, todo))

\* The lists of the checkpoint, and what the epoch of a restart from it will be.
Fields(c) == c = [step |-> c.step, pass |-> c.pass, todo |-> c.todo,
                  passrate |-> c.passrate, ref |-> c.ref]
Saved ==
  ckpt # NoCheckpoint =>
    /\ Fields(ckpt) /\ ckpt.step \in Nat
    /\ Good(ckpt.passrate, ckpt.ref, ckpt.pass, ckpt.todo)
    /\ \A p \in Prompts :
         /\ Len(ckpt.passrate[p]) <= Epochs
         /\ ckpt.step >= StepsOf(Len(ckpt.passrate[p]) - run + 1) - Len(ckpt.todo)

IInv ==
  /\ Points /\ Trained /\ Saved /\ Reach /\ First /\ Low /\ Behind /\ Exact
  /\ NoBatchAborts /\ ScoresDefined

-----------------------------------------------------------------------------
\* What the parts of a pass do to the lists.

LEMMA LenNat ==
  ASSUME NEW lists \in Lists, NEW p \in Prompts
  PROVE  lists[p] \in Seq(Nat) /\ Len(lists[p]) \in Nat /\ (lists[p] = <<>> <=> Len(lists[p]) = 0)
<1>1. lists[p] \in Seq(Nat)
  BY DEF Lists
<1> QED BY <1>1, LenProperties, EmptySeq

LEMMA LevelIs ==
  ASSUME NEW lists \in Lists, NEW p \in Prompts, NEW rest
  PROVE  /\ Len(lists[p]) \in Nat /\ Level(lists, rest, p) \in Nat
         /\ p \in Coming(rest) => Level(lists, rest, p) = Len(lists[p]) + 1
         /\ p \notin Coming(rest) => Level(lists, rest, p) = Len(lists[p])
<1> DEFINE length == Len(lists[p])
<1>1. length \in Nat
  BY LenNat
<1>2. Level(lists, rest, p) = IF p \in Coming(rest) THEN length + 1 ELSE length + 0
  BY DEF Level
<1> HIDE DEF length
<1>3. CASE p \in Coming(rest)
  <2>1. Level(lists, rest, p) = length + 1 /\ length + 1 \in Nat
    BY <1>1, <1>2, <1>3
  <2> QED BY <1>1, <1>3, <2>1 DEF length
<1>4. CASE p \notin Coming(rest)
  <2>1. Level(lists, rest, p) = length
    BY <1>1, <1>2, <1>4
  <2> QED BY <1>1, <1>4, <2>1 DEF length
<1> QED BY <1>3, <1>4

\* A new pass begins.
LEMMA NewPassGood ==
  ASSUME conf \in Configs, NEW lists, NEW db, NEW n, Good(lists, db, n, <<>>), NEW order \in Orders
  PROVE  /\ Good(lists, db, n + 1, order)
         /\ Semi => \A p \in Prompts : Level(lists, order, p) = Len(lists[p]) + 1
         /\ Semi /\ (n > 0 => Even(lists, <<>>)) => Even(lists, order)
<1>1. n \in Nat /\ lists \in Lists /\ db \in Lists
  BY DEF Good, Shaped
<1>2. \A p \in Prompts : Len(lists[p]) \in Nat /\ Level(lists, <<>>, p) = Len(lists[p])
  BY <1>1, LevelIs, NothingComes
<1>3. Shaped(lists, db, n + 1, order)
  BY <1>1, WholeOrder DEF Good, Shaped
<1>4. Chronological(lists, n + 1, order)
  <2>1. ASSUME NEW p \in Prompts, NEW i \in 1..Len(lists[p])
        PROVE  /\ lists[p][i] \in 1..n + 1 /\ lists[p][i] < n + 1
               /\ i > 1 => lists[p][i - 1] < lists[p][i]
    <3>1. lists[p][i] \in 1..n /\ (i > 1 => lists[p][i - 1] < lists[p][i])
      BY DEF Good, Chronological
    <3> QED BY <1>1, <3>1
  <2>2. ASSUME NEW p \in Prompts PROVE Level(lists, order, p) <= n + 1
    <3>1. Len(lists[p]) <= n
      BY <1>2 DEF Good, Chronological
    <3>2. Level(lists, order, p) \in {Len(lists[p]), Len(lists[p]) + 1}
      BY <1>1, LevelIs
    <3> QED BY <1>1, <1>2, <3>1, <3>2
  <2> QED BY <2>1, <2>2 DEF Chronological
<1>5. ASSUME Semi PROVE Coming(order) = Prompts
  BY <1>5, WholeOrder DEF Semi
<1>6. ASSUME Semi PROVE Met(lists, n + 1, order)
  <2> SUFFICES ASSUME NEW p \in Prompts, Len(lists[p]) = 0 PROVE n = 0
    BY <1>1, <1>5, <1>6 DEF Met
  <2>1. n = 0 \/ (n = 1 /\ p \in Coming(<<>>))
    BY <1>6 DEF Good, Met
  <2> QED BY <2>1, NothingComes
<1>7. ASSUME Semi, NEW p \in Prompts PROVE Level(lists, order, p) = Len(lists[p]) + 1
  BY <1>5, <1>7 DEF Level
<1>8. ASSUME Semi, n > 0 => Even(lists, <<>>) PROVE Even(lists, order)
  <2>1. ASSUME NEW p \in Prompts PROVE n = 0 => Len(lists[p]) = 0
    BY <1>1, <1>2 DEF Good, Chronological
  <2>2. \A p, q \in Prompts : Len(lists[p]) <= Len(lists[q]) + 1
    BY <1>1, <1>2, <1>8, <2>1 DEF Even
  <2>3. ASSUME BothSides, NEW u \in Unlabeled
        PROVE  \E l \in Labeled : Len(lists[l]) <= Len(lists[u])
    <3>1. CASE n = 0
      <4>1. 1 \in 1..PassLen
        BY SemiAssumption
      <4>2. PICK l \in Labeled : l \in order[1]
        BY <2>3, <4>1 DEF BothSides
      <4> QED BY <1>2, <2>1, <3>1, <4>2 DEF Prompts
    <3>2. CASE n > 0
      BY <1>2, <1>8, <2>3, <3>2 DEF Even, Prompts
    <3> QED BY <1>1, <3>1, <3>2
  <2>4. \A p, q \in Prompts : Level(lists, order, p) <= Level(lists, order, q) + 1
    BY <1>2, <1>7, <1>8, <2>2
  <2>5. ASSUME BothSides, NEW u \in Unlabeled
        PROVE  \E l \in Labeled : Level(lists, order, l) <= Level(lists, order, u)
    BY <1>2, <1>7, <1>8, <2>3, <2>5 DEF Prompts
  <2> QED BY <2>4, <2>5 DEF Even
<1> QED BY <1>3, <1>4, <1>6, <1>7, <1>8 DEF Good

\* A pass rate is appended for each prompt of the batch.
LEMMA MeasuredIs ==
  ASSUME passrate \in Lists, pass \in Nat
  PROVE  /\ Measured \in Lists
         /\ \A p \in Prompts :
              /\ Len(Measured[p]) = Len(passrate[p]) + (IF p \in Batch THEN 1 ELSE 0)
              /\ \A i \in 1..Len(passrate[p]) : Measured[p][i] = passrate[p][i]
              /\ p \in Batch => Measured[p][Len(passrate[p]) + 1] = pass
<1>1. ASSUME NEW p \in Prompts
      PROVE  /\ Measured[p] \in Seq(Nat)
             /\ Len(Measured[p]) = Len(passrate[p]) + (IF p \in Batch THEN 1 ELSE 0)
             /\ \A i \in 1..Len(passrate[p]) : Measured[p][i] = passrate[p][i]
             /\ p \in Batch => Measured[p][Len(passrate[p]) + 1] = pass
  <2>1. passrate[p] \in Seq(Nat) /\ Len(passrate[p]) \in Nat
    BY LenNat
  <2>2. CASE p \in Batch
    <3>1. Measured[p] = Append(passrate[p], pass)
      BY <2>2 DEF Measured
    <3>2. /\ Append(passrate[p], pass) \in Seq(Nat)
          /\ Len(Append(passrate[p], pass)) = Len(passrate[p]) + 1
          /\ \A i \in 1..Len(passrate[p]) : Append(passrate[p], pass)[i] = passrate[p][i]
          /\ Append(passrate[p], pass)[Len(passrate[p]) + 1] = pass
      BY <2>1, AppendProperties
    <3> QED BY <2>2, <3>1, <3>2
  <2>3. CASE p \notin Batch
    <3>1. Measured[p] = passrate[p]
      BY <2>3 DEF Measured
    <3> QED BY <2>1, <2>3, <3>1
  <2> QED BY <2>2, <2>3
<1>2. Measured = [p \in Prompts |-> Measured[p]]
  BY DEF Measured
<1>3. Measured \in [Prompts -> Seq(Nat)]
  BY <1>1, <1>2
<1> QED BY <1>1, <1>3 DEF Lists

\* The trainer's batch.
LEMMA BatchIs ==
  ASSUME conf \in Configs, Good(passrate, ref, pass, todo), todo # <<>>
  PROVE  /\ pass > 0 /\ Suffix(todo) /\ Suffix(Tail(todo)) /\ Len(Tail(todo)) = Len(todo) - 1
         /\ Batch \subseteq Prompts /\ Coming(todo) = Batch \cup Coming(Tail(todo))
         /\ Batch \cap Coming(Tail(todo)) = {}
         /\ BothSides => Batch \cap Labeled # {} /\ BatchU # {}
         /\ \A p \in Prompts :
              Level(Measured, Tail(todo), p) = Level(passrate, todo, p)
<1>1. pass \in Nat /\ pass # 0 /\ Suffix(todo) /\ passrate \in Lists
  BY DEF Good, Shaped
<1>2. /\ Suffix(Tail(todo)) /\ Len(Tail(todo)) = Len(todo) - 1
      /\ Batch \subseteq Prompts /\ Coming(todo) = Batch \cup Coming(Tail(todo))
      /\ Batch \cap Coming(Tail(todo)) = {}
      /\ BothSides => Batch \cap Labeled # {} /\ BatchU # {}
  BY <1>1, BatchFacts DEF Batch, BatchU
<1>3. ASSUME NEW p \in Prompts PROVE Level(Measured, Tail(todo), p) = Level(passrate, todo, p)
  <2>1. /\ Len(passrate[p]) \in Nat
        /\ Len(Measured[p]) = Len(passrate[p]) + (IF p \in Batch THEN 1 ELSE 0)
    BY <1>1, MeasuredIs, LenNat
  <2>2. p \in Coming(todo) <=> (p \in Batch \/ p \in Coming(Tail(todo)))
    BY <1>2
  <2>3. ~(p \in Batch /\ p \in Coming(Tail(todo)))
    BY <1>2
  <2>4. Measured \in Lists
    BY <1>1, MeasuredIs
  <2>5. CASE p \in Batch
    BY <1>1, <2>1, <2>2, <2>3, <2>4, <2>5, LevelIs
  <2>6. CASE p \notin Batch
    BY <1>1, <2>1, <2>2, <2>4, <2>6, LevelIs
  <2> QED BY <2>5, <2>6
<1> QED BY <1>1, <1>2, <1>3

\* A list is a copy of an earlier one when it is that, the present one or empty.
LEMMA CopiedStill ==
  ASSUME passrate \in Lists, ref \in Lists, pass \in Nat, Copied(ref, passrate),
         NEW db \in Lists, \A p \in Prompts : db[p] \in {<<>>, ref[p], Measured[p]}
  PROVE  Copied(db, Measured)
<1> SUFFICES ASSUME NEW p \in Prompts PROVE IsPrefix(db[p], Measured[p])
  BY DEF Copied
<1>1. /\ passrate[p] \in Seq(Nat) /\ ref[p] \in Seq(Nat) /\ Measured[p] \in Seq(Nat)
      /\ Len(passrate[p]) \in Nat /\ Len(ref[p]) \in Nat /\ Len(Measured[p]) \in Nat
  BY LenNat, MeasuredIs
<1>2. /\ Len(Measured[p]) >= Len(passrate[p])
      /\ \A i \in 1..Len(passrate[p]) : Measured[p][i] = passrate[p][i]
  <2>1. Len(Measured[p]) = Len(passrate[p]) + (IF p \in Batch THEN 1 ELSE 0)
    BY MeasuredIs
  <2> DEFINE old == Len(passrate[p])
             new == Len(Measured[p])
  <2>2. new = old + 1 \/ new = old + 0
    BY <2>1
  <2>3. old \in Nat
    BY <1>1
  <2> HIDE DEF old, new
  <2>4. new >= old
    BY <2>2, <2>3
  <2> QED BY <2>4, MeasuredIs DEF old, new
<1>3. CASE db[p] = <<>>
  <2> DEFINE none == db[p]
  <2>1. none \in Seq(Nat) /\ Len(none) = 0
    BY <1>3, EmptySeq
  <2> HIDE DEF none
  <2>2. Len(none) <= Len(Measured[p]) /\ \A i \in 1..Len(none) : none[i] = Measured[p][i]
    BY <1>1, <2>1
  <2>3. IsPrefix(none, Measured[p])
    BY <1>1, <2>1, <2>2, PrefixIs
  <2> QED BY <2>3 DEF none
<1>4. CASE db[p] = ref[p]
  <2>1. Len(ref[p]) <= Len(passrate[p]) /\ \A i \in 1..Len(ref[p]) : ref[p][i] = passrate[p][i]
    <3>1. IsPrefix(ref[p], passrate[p])
      BY <1>1 DEF Copied
    <3> QED BY <1>1, <3>1, PrefixIs, SMTT(30)
  <2>2. Len(ref[p]) <= Len(Measured[p]) /\ \A i \in 1..Len(ref[p]) : ref[p][i] = Measured[p][i]
    BY <1>1, <1>2, <2>1
  <2>3. IsPrefix(ref[p], Measured[p])
    BY <1>1, <2>2, PrefixIs
  <2> QED BY <1>4, <2>3
<1>5. CASE db[p] = Measured[p]
  <2>1. IsPrefix(Measured[p], Measured[p])
    BY <1>1, PrefixIs
  <2> QED BY <1>5, <2>1
<1> QED BY <1>3, <1>4, <1>5

\* References stay long enough when all trajectories are.
LEMMA DeepStill ==
  ASSUME passrate \in Lists, ref \in Lists, pass \in Nat, Deep(ref, passrate),
         NEW db \in Lists, \A p \in Prompts : db[p] \in {<<>>, ref[p], Measured[p]},
         db = ref \/ \A p \in Prompts : Len(Measured[p]) >= 2
  PROVE  Deep(db, Measured)
<1>1. \A p \in Prompts : /\ Len(passrate[p]) \in Nat /\ Len(ref[p]) \in Nat
                         /\ Len(Measured[p]) \in Nat /\ Len(Measured[p]) >= Len(passrate[p])
  <2> TAKE p \in Prompts
  <2> DEFINE old == Len(passrate[p])
             new == Len(Measured[p])
  <2>1. new = old + 1 \/ new = old + 0
    BY MeasuredIs
  <2>2. old \in Nat
    BY LenNat
  <2>3. Len(ref[p]) \in Nat /\ Len(Measured[p]) \in Nat
    BY LenNat, MeasuredIs
  <2> HIDE DEF old, new
  <2>4. new >= old
    BY <2>1, <2>2
  <2> QED BY <2>2, <2>3, <2>4 DEF old, new
<1>2. Len(<<>>) = 0
  BY EmptySeq
<1> SUFFICES ASSUME NEW p \in Prompts, Len(db[p]) > 0
             PROVE  Len(db[p]) >= 2 /\ \A q \in Prompts : Len(Measured[q]) >= 2
  BY DEF Deep
<1>3. CASE db = ref
  <2>1. Len(ref[p]) >= 2 /\ \A q \in Prompts : Len(passrate[q]) >= 2
    BY <1>3 DEF Deep
  <2> QED BY <1>1, <1>3, <2>1
<1>4. CASE \A q \in Prompts : Len(Measured[q]) >= 2
  <2>1. Len(db[p]) >= 2
    BY <1>2, <1>4 DEF Deep
  <2> QED BY <1>4, <2>1
<1> QED BY <1>3, <1>4

\* A batch is measured.
LEMMA MeasureGood ==
  ASSUME conf \in Configs, Good(passrate, ref, pass, todo), todo # <<>>, ~Supervised,
         NEW db \in Lists, \A p \in Prompts : db[p] \in {<<>>, ref[p], Measured[p]},
         Semi /\ WarmUp >= 3 => db = ref \/ \A p \in Prompts : Len(Measured[p]) >= 2
  PROVE  Good(Measured, db, pass, Tail(todo))
<1>1. pass \in Nat /\ passrate \in Lists /\ ref \in Lists
  BY DEF Good, Shaped
<1>2. /\ pass > 0 /\ Suffix(Tail(todo)) /\ Coming(todo) = Batch \cup Coming(Tail(todo))
      /\ Batch \cap Coming(Tail(todo)) = {}
      /\ \A p \in Prompts : Level(Measured, Tail(todo), p) = Level(passrate, todo, p)
  BY BatchIs
<1>3. Shaped(Measured, db, pass, Tail(todo))
  BY <1>1, <1>2, MeasuredIs DEF Shaped
<1>4. Chronological(Measured, pass, Tail(todo))
  <2>1. ASSUME NEW p \in Prompts PROVE Level(Measured, Tail(todo), p) <= pass
    BY <1>2 DEF Good, Chronological
  <2>2. ASSUME NEW p \in Prompts, NEW i \in 1..Len(Measured[p])
        PROVE  /\ Measured[p][i] \in 1..pass
               /\ p \in Coming(Tail(todo)) => Measured[p][i] < pass
               /\ i > 1 => Measured[p][i - 1] < Measured[p][i]
    <3> DEFINE old == Len(passrate[p])
    <3>1. old \in Nat /\ Len(Measured[p]) = IF p \in Batch THEN old + 1 ELSE old + 0
      BY <1>1, LenNat, MeasuredIs
    <3>2. ASSUME NEW j \in 1..old
          PROVE  /\ passrate[p][j] \in 1..pass /\ Measured[p][j] = passrate[p][j]
                 /\ p \in Coming(todo) => passrate[p][j] < pass
                 /\ j > 1 => passrate[p][j - 1] < passrate[p][j]
      BY <1>1, MeasuredIs DEF Good, Chronological
    <3>3. p \in Batch => Measured[p][old + 1] = pass
      BY <1>1, MeasuredIs
    <3> HIDE DEF old
    <3>4. CASE i \in 1..old
      <4>1. i > 1 => i - 1 \in 1..old
        BY <3>1, <3>4
      <4>2. Measured[p][i] = passrate[p][i] /\ (i > 1 => Measured[p][i - 1] = passrate[p][i - 1])
        BY <3>2, <3>4, <4>1
      <4> QED BY <1>2, <3>2, <3>4, <4>2
    <3>5. CASE i \notin 1..old
      <4>1. p \in Batch /\ i = old + 1
        BY <3>1, <3>5
      <4>2. Measured[p][i] = pass /\ p \notin Coming(Tail(todo)) /\ p \in Coming(todo)
        BY <1>2, <3>3, <4>1
      <4>3. ASSUME i > 1 PROVE Measured[p][i - 1] < pass
        <5>1. i - 1 = old /\ i - 1 \in 1..old
          BY <3>1, <4>1, <4>3
        <5> QED BY <3>2, <4>2, <5>1
      <4> QED BY <1>1, <1>2, <4>2, <4>3
    <3> QED BY <3>4, <3>5
  <2> QED BY <2>1, <2>2 DEF Chronological
<1>5. Copied(db, Measured)
  BY <1>1, CopiedStill DEF Good
<1>6. ASSUME Semi PROVE Met(Measured, pass, Tail(todo))
  <2> SUFFICES ASSUME NEW p \in Prompts, Len(Measured[p]) = 0
               PROVE  pass = 1 /\ p \in Coming(Tail(todo))
    BY DEF Met
  <2> DEFINE old == Len(passrate[p])
  <2>1. old \in Nat /\ 0 = IF p \in Batch THEN old + 1 ELSE old + 0
    BY <1>1, LenNat, MeasuredIs
  <2> HIDE DEF old
  <2>2. p \notin Batch /\ old = 0
    BY <2>1
  <2>3. pass = 1 /\ p \in Coming(todo)
    BY <1>2, <1>6, <2>2 DEF Good, Met, old
  <2> QED BY <1>2, <2>2, <2>3
<1>7. ASSUME Semi, WarmUp >= 3 PROVE Deep(db, Measured)
  BY <1>1, <1>7, DeepStill DEF Good
<1> QED BY <1>3, <1>4, <1>5, <1>6, <1>7 DEF Good

\* A batch of a supervised run only goes by.
LEMMA PassedGood ==
  ASSUME conf \in Configs, Good(passrate, ref, pass, todo), todo # <<>>, Supervised
  PROVE  Good(passrate, ref, pass, Tail(todo))
<1>1. pass \in Nat /\ passrate \in Lists /\ ref \in Lists /\ ~Semi
  BY DEF Good, Shaped, Semi
<1>2. /\ pass > 0 /\ Suffix(Tail(todo)) /\ Coming(todo) = Batch \cup Coming(Tail(todo))
  BY BatchIs
<1>3. Shaped(passrate, ref, pass, Tail(todo))
  BY <1>1, <1>2 DEF Good, Shaped
<1>4. ASSUME NEW p \in Prompts PROVE Level(passrate, Tail(todo), p) <= pass
  <2>1. Level(passrate, todo, p) <= pass
    BY DEF Good, Chronological
  <2> QED BY <1>1, <1>2, <2>1, LevelIs
<1>5. Chronological(passrate, pass, Tail(todo))
  BY <1>2, <1>4 DEF Good, Chronological
<1> QED BY <1>1, <1>3, <1>5 DEF Good

LEMMA MeasureEven ==
  ASSUME conf \in Configs, Good(passrate, ref, pass, todo), todo # <<>>, Even(passrate, todo)
  PROVE  Even(Measured, Tail(todo))
<1>1. \A p \in Prompts : Level(Measured, Tail(todo), p) = Level(passrate, todo, p)
  BY BatchIs
<1>2. Labeled \subseteq Prompts /\ Unlabeled \subseteq Prompts
  BY DEF Prompts
<1>3. \A p, q \in Prompts : Level(Measured, Tail(todo), p) <= Level(Measured, Tail(todo), q) + 1
  BY <1>1 DEF Even
<1>4. ASSUME BothSides, NEW u \in Unlabeled
      PROVE  \E l \in Labeled : Level(Measured, Tail(todo), l) <= Level(Measured, Tail(todo), u)
  BY <1>1, <1>2, <1>4 DEF Even
<1> QED BY <1>3, <1>4 DEF Even

-----------------------------------------------------------------------------
\* A step keeps the configuration.

LEMMA Kept ==
  ASSUME conf' = conf
  PROVE  /\ Orders' = Orders /\ Epochs' = Epochs /\ WarmUp' = WarmUp /\ TotalSteps' = TotalSteps
         /\ (Supervised' <=> Supervised) /\ (FullPasses' <=> FullPasses)
         /\ (BothSides' <=> BothSides) /\ (Semi' <=> Semi)
<1>1. Orders' = Orders /\ Epochs' = Epochs /\ WarmUp' = WarmUp /\ Supervised' = Supervised
  BY DEF Orders, Epochs, WarmUp, Supervised
<1>2. FullPasses' <=> FullPasses
  BY <1>1 DEF FullPasses
<1>3. BothSides' <=> BothSides
  BY <1>1 DEF BothSides
<1> QED BY <1>1, <1>2, <1>3 DEF TotalSteps, EpochSteps, Epochs, Semi

LEMMA GoodKept ==
  ASSUME conf' = conf, Good(passrate', ref', pass', todo')
  PROVE  Good(passrate, ref, pass, todo)'
<1>1. Shaped(passrate, ref, pass, todo)'
  BY Kept DEF Good, Shaped, Suffix
<1>2. Chronological(passrate, pass, todo)'
  BY DEF Good, Chronological, Level
<1>3. Copied(ref, passrate)'
  BY DEF Good, Copied
<1>4. (Semi => Met(passrate, pass, todo))'
  BY Kept DEF Good, Met
<1>5. (Semi /\ WarmUp >= 3 => Deep(ref, passrate))'
  BY Kept DEF Good, Deep
<1> QED BY <1>1, <1>2, <1>3, <1>4, <1>5 DEF Good

LEMMA GoodSaved ==
  ASSUME conf' = conf, Good(ckpt'.passrate, ckpt'.ref, ckpt'.pass, ckpt'.todo)
  PROVE  Good(ckpt.passrate, ckpt.ref, ckpt.pass, ckpt.todo)'
<1>1. Shaped(ckpt.passrate, ckpt.ref, ckpt.pass, ckpt.todo)'
  BY Kept DEF Good, Shaped, Suffix
<1>2. Chronological(ckpt.passrate, ckpt.pass, ckpt.todo)'
  BY DEF Good, Chronological, Level
<1>3. Copied(ckpt.ref, ckpt.passrate)'
  BY DEF Good, Copied
<1>4. (Semi => Met(ckpt.passrate, ckpt.pass, ckpt.todo))'
  BY Kept DEF Good, Met
<1>5. (Semi /\ WarmUp >= 3 => Deep(ckpt.ref, ckpt.passrate))'
  BY Kept DEF Good, Deep
<1> QED BY <1>1, <1>2, <1>3, <1>4, <1>5 DEF Good

LEMMA EvenKept ==
  ASSUME conf' = conf, Even(passrate', todo')
  PROVE  Even(passrate, todo)'
BY Kept DEF Even, Level

-----------------------------------------------------------------------------
\* The reference database after a filtered batch.

LEMMA RefChange ==
  ASSUME passrate \in Lists, ref \in Lists, pass \in Nat
  PROVE  /\ LabeledRefs \in Lists
         /\ \A p \in Prompts : LabeledRefs[p] \in {<<>>, ref[p], Measured[p]}
         /\ \A sel, lost : LET db == Inserted(LabeledRefs, Measured, sel, lost)
                           IN  /\ db \in Lists
                               /\ \A p \in Prompts : db[p] \in {<<>>, ref[p], Measured[p]}
<1>1. Measured \in Lists
  BY MeasuredIs
<1>2. \A p \in Prompts : <<>> \in Seq(Nat) /\ ref[p] \in Seq(Nat) /\ Measured[p] \in Seq(Nat)
  BY <1>1, LenNat, EmptySeq
<1>3. \A p \in Prompts : LabeledRefs[p] \in {ref[p], Measured[p]}
  BY DEF LabeledRefs
<1>4. LabeledRefs \in [Prompts -> Seq(Nat)]
  BY <1>2 DEF LabeledRefs
<1>5. ASSUME NEW sel, NEW lost
      PROVE  LET db == Inserted(LabeledRefs, Measured, sel, lost)
             IN  /\ db \in Lists
                 /\ \A p \in Prompts : db[p] \in {<<>>, ref[p], Measured[p]}
  <2> DEFINE db == Inserted(LabeledRefs, Measured, sel, lost)
  <2>1. \A p \in Prompts : db[p] \in {<<>>, LabeledRefs[p], Measured[p]}
    BY DEF Inserted
  <2>2. \A p \in Prompts : db[p] \in {<<>>, ref[p], Measured[p]}
    BY <1>3, <2>1
  <2>3. db = [p \in Prompts |-> db[p]]
    BY DEF Inserted
  <2> HIDE DEF db
  <2>4. db \in [Prompts -> Seq(Nat)]
    BY <1>2, <2>2, <2>3
  <2> QED BY <2>2, <2>4 DEF db, Lists
<1> QED BY <1>3, <1>4, <1>5 DEF Lists

\* ref_min_len is the length of a reference.
LEMMA DbMinLenIs ==
  ASSUME conf \in Configs, Good(passrate, ref, pass, todo), todo # <<>>, Batch \cap Labeled # {}
  PROVE  /\ \E p \in Keys(LabeledRefs) : DbMinLen = Len(LabeledRefs[p])
         /\ \A p \in Keys(LabeledRefs) : DbMinLen <= Len(LabeledRefs[p])
         /\ DbMinLen \in Nat
<1>1. passrate \in Lists /\ ref \in Lists /\ pass \in Nat
  BY DEF Good, Shaped
<1>2. LabeledRefs \in Lists /\ Measured \in Lists
  BY <1>1, RefChange, MeasuredIs
<1>3. PICK p \in Batch : p \in Labeled
  OBVIOUS
<1>4. p \in Prompts
  BY <1>3, BatchIs
<1>5. Measured[p] # <<>>
  <2>1. Measured[p] = Append(passrate[p], pass)
    BY <1>3, <1>4 DEF Measured
  <2>2. Len(Append(passrate[p], pass)) = Len(passrate[p]) + 1 /\ Len(passrate[p]) \in Nat
    BY <1>1, <1>4, LenNat, AppendProperties
  <2>3. Len(Measured[p]) # 0
    BY <2>1, <2>2
  <2> QED BY <1>2, <1>4, <2>3, LenNat
<1>6. LabeledRefs[p] = Measured[p]
  BY <1>3, <1>4, <1>5 DEF LabeledRefs, Keys
<1>7. p \in Keys(LabeledRefs)
  BY <1>4, <1>5, <1>6 DEF Keys
<1> DEFINE S == {Len(LabeledRefs[q]) : q \in Keys(LabeledRefs)}
<1>8. \A q \in Keys(LabeledRefs) : Len(LabeledRefs[q]) \in Nat
  BY <1>2, LenNat DEF Keys
<1>9. S \in SUBSET Nat /\ S # {}
  BY <1>7, <1>8
<1>10. DbMinLen = Min(S)
  BY DEF DbMinLen, Shortest
<1> HIDE DEF S
<1>11. DbMinLen \in S /\ \A y \in S : DbMinLen <= y
  BY <1>9, <1>10, MinNat
<1> QED BY <1>9, <1>11 DEF S

-----------------------------------------------------------------------------
\* A restart.

LEMMA ResumeFacts ==
  ASSUME NEW lists \in Lists,
         Keys(lists) \cap Labeled # {}, Keys(lists) \cap Unlabeled # {}
  PROVE  /\ ResumeEpoch(lists) \in Nat \ {0}
         /\ \A p \in Keys(lists) : ResumeEpoch(lists) <= Len(lists[p])
         /\ \E p \in Keys(lists) : ResumeEpoch(lists) = Len(lists[p])
<1>1. ASSUME NEW S \in SUBSET Keys(lists), S # {}
      PROVE  /\ Shortest(lists, S) \in Nat \ {0}
             /\ \A p \in S : Shortest(lists, S) <= Len(lists[p])
             /\ \E p \in S : Shortest(lists, S) = Len(lists[p])
  <2> DEFINE lengths == {Len(lists[p]) : p \in S}
  <2>1. \A p \in S : Len(lists[p]) \in Nat /\ Len(lists[p]) # 0
    BY <1>1, LenNat DEF Keys
  <2>2. lengths \in SUBSET Nat /\ lengths # {}
    BY <1>1, <2>1
  <2>3. Shortest(lists, S) = Min(lengths)
    BY DEF Shortest
  <2> HIDE DEF lengths
  <2>4. Shortest(lists, S) \in lengths /\ \A y \in lengths : Shortest(lists, S) <= y
    BY <2>2, <2>3, MinNat
  <2> QED BY <2>1, <2>4 DEF lengths
<1> DEFINE a == Shortest(lists, Keys(lists) \cap Labeled)
           b == Shortest(lists, Keys(lists) \cap Unlabeled)
<1>2. /\ a \in Nat \ {0} /\ \A p \in Keys(lists) \cap Labeled : a <= Len(lists[p])
      /\ \E p \in Keys(lists) \cap Labeled : a = Len(lists[p])
  BY <1>1
<1>3. /\ b \in Nat \ {0} /\ \A p \in Keys(lists) \cap Unlabeled : b <= Len(lists[p])
      /\ \E p \in Keys(lists) \cap Unlabeled : b = Len(lists[p])
  BY <1>1
<1>4. ResumeEpoch(lists) = IF a <= b THEN a ELSE b
  BY <1>2, <1>3, MinOfTwo DEF ResumeEpoch
<1>5. \A p \in Keys(lists) : p \in Labeled \/ p \in Unlabeled
  BY DEF Keys, Prompts
<1>6. \A p \in Keys(lists) : Len(lists[p]) \in Nat
  BY LenNat DEF Keys
<1> HIDE DEF a, b
<1> QED BY <1>2, <1>3, <1>4, <1>5, <1>6

\* The lists of a checkpoint, cut.
LEMMA CutGood ==
  ASSUME conf \in Configs, NEW lists, NEW db, NEW n, NEW rest, Good(lists, db, n, rest),
         Keys(lists) \cap Labeled # {}, Keys(lists) \cap Unlabeled # {}
  PROVE  LET k == ResumeEpoch(lists) IN
         /\ n > 0 /\ ~Supervised /\ Good(Cut(lists, k), Cut(db, k), n, rest)
         /\ \A p \in Prompts : Len(Cut(lists, k)[p]) <= k
         /\ Semi => Even(Cut(lists, k), rest)
         /\ Semi => \A p \in Prompts : k <= Level(Cut(lists, k), rest, p)
<1> DEFINE k == ResumeEpoch(lists)
<1>1. n \in Nat /\ lists \in Lists /\ db \in Lists
  BY DEF Good, Shaped
<1>2. /\ k \in Nat /\ k # 0 /\ \A p \in Keys(lists) : k <= Len(lists[p])
      /\ \E p \in Keys(lists) : k = Len(lists[p])
  BY <1>1, ResumeFacts
<1> HIDE DEF k
<1> DEFINE cut == Cut(lists, k)
           dbCut == Cut(db, k)
<1>3. /\ cut \in Lists
      /\ \A p \in Prompts :
           /\ Len(cut[p]) = IF k <= Len(lists[p]) THEN k ELSE Len(lists[p])
           /\ \A i \in 1..Len(cut[p]) : cut[p][i] = lists[p][i]
  BY <1>1, <1>2, CutFacts
<1>4. /\ dbCut \in Lists
      /\ \A p \in Prompts :
           /\ Len(dbCut[p]) = IF k <= Len(db[p]) THEN k ELSE Len(db[p])
           /\ \A i \in 1..Len(dbCut[p]) : dbCut[p][i] = db[p][i]
  <2>1. db \in Lists /\ k \in Nat
    BY <1>1, <1>2
  <2> QED BY <2>1, CutFacts
<1> HIDE DEF cut, dbCut
<1>5. \A p \in Prompts : /\ Len(lists[p]) \in Nat /\ Len(db[p]) \in Nat
                         /\ Len(cut[p]) \in Nat /\ Len(dbCut[p]) \in Nat
  BY <1>1, <1>3, <1>4, LenNat
<1>6. \A p \in Prompts : /\ Len(cut[p]) <= k /\ Len(cut[p]) <= Len(lists[p])
                         /\ Len(cut[p]) = 0 => Len(lists[p]) = 0
  BY <1>2, <1>3, <1>5
<1>7. n > 0 /\ ~Supervised
  <2>1. PICK p \in Keys(lists) : k = Len(lists[p])
    BY <1>2
  <2>2. p \in Prompts /\ lists[p] # <<>>
    BY <2>1 DEF Keys
  <2>3. ~Supervised
    BY <2>2 DEF Good, Shaped, NoLists
  <2>4. k \in 1..Len(lists[p])
    BY <1>2, <2>1
  <2>5. lists[p][k] \in 1..n
    BY <2>2, <2>4 DEF Good, Chronological
  <2> QED BY <1>1, <2>3, <2>5
<1>8. Shaped(cut, dbCut, n, rest)
  BY <1>3, <1>4, <1>7 DEF Good, Shaped
<1>9. Chronological(cut, n, rest)
  <2>1. ASSUME NEW p \in Prompts, NEW i \in 1..Len(cut[p])
        PROVE  /\ cut[p][i] \in 1..n /\ (p \in Coming(rest) => cut[p][i] < n)
               /\ i > 1 => cut[p][i - 1] < cut[p][i]
    <3>1. i \in 1..Len(lists[p])
      BY <1>5, <1>6
    <3>2. i > 1 => i - 1 \in 1..Len(cut[p])
      BY <1>5
    <3>3. /\ lists[p][i] \in 1..n /\ (p \in Coming(rest) => lists[p][i] < n)
          /\ i > 1 => lists[p][i - 1] < lists[p][i]
      BY <3>1 DEF Good, Chronological
    <3> QED BY <1>3, <3>2, <3>3
  <2>2. ASSUME NEW p \in Prompts PROVE Level(cut, rest, p) <= n
    <3>1. Level(lists, rest, p) <= n
      BY DEF Good, Chronological
    <3> QED BY <1>1, <1>3, <1>5, <1>6, <3>1, LevelIs
  <2> QED BY <2>1, <2>2 DEF Chronological
<1>10. Copied(dbCut, cut)
  <2> SUFFICES ASSUME NEW p \in Prompts PROVE IsPrefix(dbCut[p], cut[p])
    BY DEF Copied
  <2>1. /\ db[p] \in Seq(Nat) /\ lists[p] \in Seq(Nat)
        /\ dbCut[p] \in Seq(Nat) /\ cut[p] \in Seq(Nat)
    BY <1>1, <1>3, <1>4, LenNat
  <2>2. Len(db[p]) <= Len(lists[p]) /\ \A i \in 1..Len(db[p]) : db[p][i] = lists[p][i]
    BY <2>1, PrefixIs, SMTT(30) DEF Good, Copied
  <2>3. Len(dbCut[p]) <= Len(cut[p]) /\ Len(dbCut[p]) <= Len(db[p])
    BY <1>2, <1>3, <1>4, <1>5, <2>2
  <2>4. \A i \in 1..Len(dbCut[p]) : dbCut[p][i] = cut[p][i]
    BY <1>3, <1>4, <1>5, <2>2, <2>3
  <2> QED BY <2>1, <2>3, <2>4, PrefixIs
<1>11. Semi => Met(cut, n, rest)
  BY <1>6 DEF Good, Met
<1>12. ASSUME Semi, WarmUp >= 3 PROVE Deep(dbCut, cut)
  <2> SUFFICES ASSUME NEW p \in Prompts, Len(dbCut[p]) > 0
               PROVE  Len(dbCut[p]) >= 2 /\ \A q \in Prompts : Len(cut[q]) >= 2
    BY DEF Deep
  <2>1. Len(db[p]) > 0
    BY <1>2, <1>4, <1>5
  <2>2. Len(db[p]) >= 2 /\ \A q \in Prompts : Len(lists[q]) >= 2
    BY <1>12, <2>1 DEF Good, Deep
  <2>3. k >= 2
    BY <1>2, <2>2 DEF Keys
  <2> QED BY <1>2, <1>3, <1>4, <1>5, <2>2, <2>3
<1>13. Good(cut, dbCut, n, rest)
  BY <1>8, <1>9, <1>10, <1>11, <1>12 DEF Good
<1>14. \A p \in Prompts : p \in Keys(lists) \/ Len(lists[p]) = 0
  BY <1>1, LenNat DEF Keys
<1>15. \A p \in Prompts :
        /\ Len(cut[p]) \in Nat /\ Level(cut, rest, p) \in Nat
        /\ p \in Coming(rest) => Level(cut, rest, p) = Len(cut[p]) + 1
        /\ p \notin Coming(rest) => Level(cut, rest, p) = Len(cut[p])
  BY <1>3, LevelIs
\* All are cut to the same length, or it is the first pass.
<1>16. ASSUME Semi, NEW p \in Prompts
       PROVE  Len(cut[p]) = k \/ (k = 1 /\ n = 1 /\ Len(cut[p]) = 0 /\ p \in Coming(rest))
  <2>1. CASE p \in Keys(lists)
    BY <1>2, <1>3, <2>1
  <2>2. CASE Len(lists[p]) = 0
    <3>1. n = 1 /\ p \in Coming(rest)
      BY <1>7, <1>16, <2>2 DEF Good, Met
    <3>2. PICK q \in Keys(lists) : k = Len(lists[q])
      BY <1>2
    <3>3. q \in Prompts
      BY DEF Keys
    <3>4. Level(lists, rest, q) <= 1
      BY <3>1, <3>3 DEF Good, Chronological
    <3>5. Len(lists[q]) <= Level(lists, rest, q)
      BY <1>1, <3>3, LevelIs
    <3>6. k \in Nat /\ k # 0 /\ k <= Level(lists, rest, q)
      BY <1>2, <3>2, <3>5
    <3>7. Level(lists, rest, q) \in Nat
      BY <1>1, <3>3, LevelIs
    <3>8. k = 1
      BY <3>4, <3>7, <3>6
    <3>9. Len(cut[p]) = 0
      BY <1>5, <1>6, <2>2
    <3> QED BY <3>1, <3>8, <3>9
  <2> QED BY <1>14, <2>1, <2>2
<1>17. ASSUME Semi, NEW p \in Prompts PROVE k <= Level(cut, rest, p)
  <2>1. CASE Len(cut[p]) = k
    BY <1>2, <1>15, <2>1
  <2>2. CASE Len(cut[p]) # k
    <3>1. k = 1 /\ Len(cut[p]) = 0 /\ p \in Coming(rest)
      BY <1>16, <1>17, <2>2
    <3> QED BY <1>15, <3>1
  <2> QED BY <2>1, <2>2
<1>18. ASSUME Semi PROVE Even(cut, rest)
  <2>1. \A p \in Prompts : Level(cut, rest, p) \in {k, k + 1}
    <3> TAKE p \in Prompts
    <3>1. CASE Len(cut[p]) = k
      BY <1>15, <3>1
    <3>2. CASE Len(cut[p]) # k
      <4>1. k = 1 /\ Len(cut[p]) = 0 /\ p \in Coming(rest)
        BY <1>16, <1>18, <3>2
      <4> QED BY <1>15, <4>1
    <3> QED BY <3>1, <3>2
  <2>2. \A p, q \in Prompts : Level(cut, rest, p) <= Level(cut, rest, q) + 1
    BY <1>2, <2>1
  <2>3. ASSUME BothSides, NEW u \in Unlabeled
        PROVE  \E l \in Labeled : Level(cut, rest, l) <= Level(cut, rest, u)
    <3>1. u \in Prompts
      BY DEF Prompts
    <3>2. PICK l \in Labeled : l \in Keys(lists)
      OBVIOUS
    <3>3. l \in Prompts
      BY DEF Prompts
    <3>4. CASE n = 1
      <4>1. Level(cut, rest, l) <= 1
        BY <1>9, <3>3, <3>4 DEF Chronological
      <4>2. 1 <= Level(cut, rest, u)
        BY <1>2, <1>17, <1>18, <1>15, <3>1
      <4>3. Level(cut, rest, l) \in Nat /\ Level(cut, rest, u) \in Nat
        BY <1>15, <3>1, <3>3
      <4> QED BY <4>1, <4>2, <4>3
    <3>5. CASE n # 1
      <4>1. \A p \in Prompts : Len(cut[p]) = k
        BY <1>16, <1>18, <3>5
      <4>2. Suffix(rest)
        BY <1>7, <1>1 DEF Good, Shaped
      <4>3. rest \in Orders \/ \E m \in Labeled : m \notin Coming(rest)
        BY <2>3, <4>2, SuffixFacts
      <4>4. CASE rest \in Orders
        <5>1. Coming(rest) = Prompts
          BY <1>18, <4>4, WholeOrder DEF Semi
        <5>2. Level(cut, rest, l) = k + 1 /\ Level(cut, rest, u) = k + 1
          BY <1>15, <3>1, <3>3, <4>1, <5>1
        <5> QED BY <1>2, <5>2
      <4>5. ASSUME NEW m \in Labeled, m \notin Coming(rest)
            PROVE  Level(cut, rest, m) <= Level(cut, rest, u)
        <5>1. m \in Prompts
          BY DEF Prompts
        <5>2. Level(cut, rest, m) = k
          BY <1>15, <4>1, <4>5, <5>1
        <5> QED BY <1>2, <2>1, <3>1, <5>2
      <4> QED BY <4>3, <4>4, <4>5
    <3> QED BY <3>4, <3>5
  <2> QED BY <2>2, <2>3 DEF Even
<1> QED BY <1>6, <1>7, <1>13, <1>17, <1>18 DEF k, cut, dbCut

-----------------------------------------------------------------------------
\* A filtered batch.

\* Every prompt that is compared, or entered, has been measured twice.
LEMMA MeasuredTwiceAtLeast ==
  ASSUME conf \in Configs, Good(passrate, ref, pass, todo), todo # <<>>,
         \A p \in Prompts : Level(passrate, todo, p) >= 3
  PROVE  \A p \in Prompts : Len(Measured[p]) >= 2
<1> SUFFICES ASSUME NEW p \in Prompts PROVE Len(Measured[p]) >= 2
  OBVIOUS
<1>1. Measured \in Lists
  BY MeasuredIs DEF Good, Shaped
<1>2. Level(Measured, Tail(todo), p) >= 3
  BY BatchIs
<1>3. /\ Len(Measured[p]) \in Nat
      /\ p \in Coming(Tail(todo)) => Level(Measured, Tail(todo), p) = Len(Measured[p]) + 1
      /\ p \notin Coming(Tail(todo)) => Level(Measured, Tail(todo), p) = Len(Measured[p])
  BY <1>1, LevelIs
<1> QED BY <1>2, <1>3

LEMMA LongReferences ==
  ASSUME conf \in Configs, Good(passrate, ref, pass, todo), todo # <<>>, Batch \cap Labeled # {},
         Deep(ref, passrate), \A p \in Prompts : Len(Measured[p]) >= 2
  PROVE  DbMinLen >= 2
<1>1. passrate \in Lists /\ ref \in Lists /\ pass \in Nat
  BY DEF Good, Shaped
<1>2. PICK p \in Keys(LabeledRefs) : DbMinLen = Len(LabeledRefs[p])
  BY DbMinLenIs
<1>3. p \in Prompts /\ LabeledRefs[p] # <<>>
  BY <1>2 DEF Keys
<1>4. LabeledRefs[p] \in {ref[p], Measured[p]}
  BY <1>3 DEF LabeledRefs
<1>5. CASE LabeledRefs[p] = Measured[p]
  BY <1>2, <1>3, <1>5
<1>6. CASE LabeledRefs[p] = ref[p]
  <2>1. Len(ref[p]) \in Nat /\ Len(ref[p]) # 0
    BY <1>1, <1>3, <1>6, LenNat
  <2>2. Len(ref[p]) > 0
    BY <2>1
  <2> QED BY <1>2, <1>3, <1>6, <2>2 DEF Deep
<1> QED BY <1>4, <1>5, <1>6

\* No query is shorter than the shortest reference.
LEMMA QueriesCover ==
  ASSUME conf \in Configs, Good(passrate, ref, pass, todo), todo # <<>>, Semi, BothSides,
         Even(passrate, todo)
  PROVE  ~OneSided /\ ~ShortQuery
<1>1. /\ Batch \cap Labeled # {} /\ BatchU # {} /\ Batch \subseteq Prompts /\ pass > 0
      /\ Batch \cap Coming(Tail(todo)) = {}
  BY BatchIs
<1>2. passrate \in Lists /\ ref \in Lists /\ pass \in Nat /\ Measured \in Lists
  BY MeasuredIs DEF Good, Shaped
<1>3. ASSUME NEW p \in Prompts
      PROVE  /\ Len(Measured[p]) \in Nat /\ Level(Measured, Tail(todo), p) \in Nat
             /\ p \in Coming(Tail(todo)) => Level(Measured, Tail(todo), p) = Len(Measured[p]) + 1
             /\ p \notin Coming(Tail(todo)) => Level(Measured, Tail(todo), p) = Len(Measured[p])
  BY <1>2, LevelIs
<1>4. \A p \in Labeled : Len(Measured[p]) # 0 => DbMinLen <= Len(Measured[p])
  <2> SUFFICES ASSUME NEW p \in Labeled, Len(Measured[p]) # 0 PROVE DbMinLen <= Len(Measured[p])
    OBVIOUS
  <2>1. p \in Prompts
    BY DEF Prompts
  <2>2. Measured[p] # <<>>
    BY <1>2, <2>1, LenNat
  <2>3. LabeledRefs[p] = Measured[p] /\ p \in Keys(LabeledRefs)
    BY <2>1, <2>2 DEF LabeledRefs, Keys
  <2>4. DbMinLen <= Len(LabeledRefs[p])
    BY <1>1, <2>3, DbMinLenIs
  <2> QED BY <2>3, <2>4
<1>5. ASSUME NEW u \in BatchU PROVE ~(Len(Measured[u]) < DbMinLen)
  <2>1. u \in Prompts /\ u \in Unlabeled /\ u \in Batch
    BY <1>1 DEF BatchU
  <2>2. Level(Measured, Tail(todo), u) = Len(Measured[u]) /\ Len(Measured[u]) \in Nat
    BY <1>1, <1>3, <2>1
  <2>3. Even(Measured, Tail(todo))
    BY MeasureEven
  <2>4. PICK l \in Labeled : Level(Measured, Tail(todo), l) <= Level(Measured, Tail(todo), u)
    BY <2>1, <2>3 DEF Even
  <2>5. l \in Prompts
    BY DEF Prompts
  <2>6. DbMinLen \in Nat
    BY <1>1, DbMinLenIs
  <2>7. CASE Len(Measured[l]) # 0
    <3>1. Len(Measured[l]) <= Level(Measured, Tail(todo), l)
      BY <1>3, <2>5
    <3>2. DbMinLen <= Len(Measured[l]) /\ Len(Measured[l]) \in Nat
      BY <1>3, <1>4, <2>5, <2>7
    <3>3. Level(Measured, Tail(todo), l) \in Nat
      BY <1>3, <2>5
    <3> QED BY <2>2, <2>4, <2>6, <3>1, <3>2, <3>3
  <2>8. CASE Len(Measured[l]) = 0
    <3>1. Good(Measured, ref, pass, Tail(todo))
      BY <1>2, MeasureGood DEF Semi
    <3>2. pass = 1
      BY <1>1, <2>5, <2>8, <3>1 DEF Good, Met
    <3>3. PICK b \in Batch : b \in Labeled
      BY <1>1
    <3>4. b \in Prompts /\ Level(Measured, Tail(todo), b) <= 1
      BY <1>1, <3>1, <3>2, <3>3 DEF Good, Chronological
    <3>5. ASSUME NEW p \in Batch PROVE Len(Measured[p]) # 0
      <4>1. p \in Prompts
        BY <1>1
      <4>2. Measured[p] = Append(passrate[p], pass) /\ passrate[p] \in Seq(Nat)
        BY <1>2, <4>1, LenNat DEF Measured
      <4>3. Len(passrate[p]) \in Nat /\ Len(Append(passrate[p], pass)) = Len(passrate[p]) + 1
        BY <1>2, <4>1, <4>2, LenNat, AppendProperties
      <4> QED BY <4>2, <4>3
    <3>6. Len(Measured[b]) <= 1 /\ Len(Measured[b]) \in Nat
      BY <1>1, <1>3, <3>3, <3>4
    <3>7. DbMinLen <= Len(Measured[b])
      BY <1>4, <3>3, <3>5
    <3>8. Len(Measured[u]) # 0
      BY <2>1, <3>5
    <3> QED BY <2>2, <2>6, <3>6, <3>7, <3>8
  <2> QED BY <2>7, <2>8
<1> QED BY <1>1, <1>5 DEF OneSided, ShortQuery

-----------------------------------------------------------------------------
\* Steps and passes.

LEMMA StepsFacts ==
  /\ PassLen \in Nat \ {0}
  /\ \A n \in Int : StepsOf(n) \in Int /\ StepsOf(n + 1) = StepsOf(n) + PassLen
  /\ \A n, m \in Int : n <= m => StepsOf(n) <= StepsOf(m)
  /\ StepsOf(0) = 0 /\ StepsOf(1) = PassLen
  /\ conf \in Configs => Epochs \in Nat \ {0} /\ TotalSteps \in Nat \ {0}
  /\ conf \in Configs => EpochSteps = StepsOf(Epochs)
<1>1. PassLen \in Nat \ {0}
  BY SemiAssumption
<1>2. \A n \in Int : StepsOf(n) \in Int /\ StepsOf(n + 1) = StepsOf(n) + PassLen
  BY <1>1 DEF StepsOf
<1>3. ASSUME NEW n \in Int, NEW m \in Int, n <= m PROVE StepsOf(n) <= StepsOf(m)
  <2> DEFINE d == m - n
  <2>1. d \in Nat /\ m = n + d
    BY <1>3
  <2> HIDE DEF d
  <2>2. (n + d) * PassLen = n * PassLen + d * PassLen
    BY <1>1, <2>1
  <2>3. d * PassLen \in Nat /\ n * PassLen \in Int
    BY <1>1, <2>1
  <2> QED BY <2>1, <2>2, <2>3 DEF StepsOf
<1>4. StepsOf(0) = 0 /\ StepsOf(1) = PassLen
  BY <1>1 DEF StepsOf
<1>5. conf \in Configs => Epochs \in Nat \ {0}
  BY SemiAssumption DEF Epochs
<1>6. ASSUME conf \in Configs PROVE EpochSteps = StepsOf(Epochs) /\ TotalSteps \in Nat \ {0}
  <2>1. EpochSteps = StepsOf(Epochs)
    BY <1>1, <1>5, <1>6 DEF EpochSteps, StepsOf
  <2>2. StepsOf(1) <= StepsOf(Epochs) /\ StepsOf(Epochs) \in Int
    <3>1. 1 \in Int /\ Epochs \in Int /\ 1 <= Epochs
      BY <1>5, <1>6
    <3> QED BY <1>2, <1>3, <3>1
  <2>3. EpochSteps \in Nat \ {0}
    BY <1>1, <1>4, <2>1, <2>2
  <2>4. conf.totalSteps \in Nat
    BY <1>6, SemiAssumption
  <2> QED BY <2>1, <2>3, <2>4 DEF TotalSteps
<1> QED BY <1>1, <1>2, <1>3, <1>4, <1>5, <1>6

-----------------------------------------------------------------------------
\* Before anything is measured.

LEMMA EmptyLists ==
  /\ NoLists \in Lists
  /\ \A p \in Prompts : Len(NoLists[p]) = 0 /\ Level(NoLists, <<>>, p) = 0
  /\ conf \in Configs => Good(NoLists, NoLists, 0, <<>>)
<1>1. <<>> \in Seq(Nat)
  OBVIOUS
<1>2. NoLists \in Lists
  BY <1>1 DEF NoLists, Lists
<1>3. \A p \in Prompts : NoLists[p] = <<>> /\ Len(NoLists[p]) = 0
  <2>1. \A p \in Prompts : NoLists[p] = <<>>
    BY DEF NoLists
  <2> QED BY <1>2, <2>1, LenNat
<1>4. \A p \in Prompts : Level(NoLists, <<>>, p) = 0
  BY <1>2, <1>3, LevelIs, NothingComes
<1>5. Chronological(NoLists, 0, <<>>)
  BY <1>3, <1>4 DEF Chronological
<1>6. Copied(NoLists, NoLists)
  BY <1>2, LenNat, PrefixIs DEF Copied
<1>7. Deep(NoLists, NoLists)
  BY <1>3 DEF Deep
<1> QED BY <1>2, <1>3, <1>4, <1>5, <1>6, <1>7 DEF Good, Shaped, Met

Down ==
  /\ conf \in Configs /\ pc = "down" /\ run \in 0..MaxRuns - 1
  /\ step = 0 /\ epoch = 0 /\ pass = 0 /\ todo = <<>>
  /\ passrate = NoLists /\ ref = NoLists /\ selected = {} /\ refMinLen = 0
  /\ run = 0 => ckpt = NoCheckpoint

LEMMA DownInv == Down /\ Saved => IInv
<1> SUFFICES ASSUME Down, Saved PROVE IInv
  OBVIOUS
<1>1. MaxRuns \in Nat \ {0}
  BY SemiAssumption
<1>2. Points
  BY <1>1, StepsFacts DEF Down, Points, Ended, InPass
<1>3. Trained
  BY EmptyLists DEF Down, Trained
<1>4. Reach
  BY EmptyLists DEF Down, Reach, InPass
<1>5. First
  <2>1. Deep(NoLists, NoLists)
    BY EmptyLists DEF Deep
  <2>2. \A p \in Prompts : \A i \in 1..Len(NoLists[p]) : NoLists[p][i] = i
    BY EmptyLists
  <2> QED BY <2>1, <2>2, EmptyLists DEF Down, First
<1>6. Low /\ Behind /\ Exact /\ NoBatchAborts /\ ScoresDefined
  BY DEF Down, Low, Behind, Exact, NoBatchAborts, ScoresDefined
<1> QED BY <1>2, <1>3, <1>4, <1>5, <1>6 DEF IInv

LEMMA InitInv == Init => IInv
<1> SUFFICES ASSUME Init PROVE IInv
  OBVIOUS
<1>1. Down
  BY SemiAssumption DEF Init, Down
<1>2. Saved
  BY DEF Init, Saved
<1> QED BY <1>1, <1>2, DownInv

-----------------------------------------------------------------------------
\* What the steps share.

LEMMA LevelKept ==
  ASSUME passrate' = passrate, todo' = todo
  PROVE  \A p \in Prompts : Level(passrate, todo, p)' = Level(passrate, todo, p)
BY DEF Level

LEMMA ListsKept ==
  ASSUME IInv, conf' = conf, passrate' = passrate, ref' = ref, pass' = pass, todo' = todo
  PROVE  Trained'
<1>1. Good(passrate, ref, pass, todo)'
  <2>1. Good(passrate', ref', pass', todo')
    BY DEF IInv, Trained
  <2> QED BY <2>1, GoodKept
<1>2. ASSUME Semi', pass' > 0 PROVE Even(passrate, todo)'
  <2>1. Even(passrate', todo')
    BY <1>2, Kept DEF IInv, Trained
  <2> QED BY <2>1, EvenKept
<1> QED BY <1>1, <1>2 DEF Trained

LEMMA LensKept ==
  ASSUME IInv
  PROVE  /\ conf \in Configs /\ pass \in Nat /\ passrate \in Lists /\ ref \in Lists
         /\ \A p \in Prompts :
              /\ Len(passrate[p]) \in Nat /\ Level(passrate, todo, p) \in Nat
              /\ Len(passrate[p]) <= Level(passrate, todo, p)
              /\ Level(passrate, todo, p) <= Len(passrate[p]) + 1
              /\ todo = <<>> => Level(passrate, todo, p) = Len(passrate[p])
         /\ Len(todo) \in 0..PassLen
<1>1. pass \in Nat /\ passrate \in Lists /\ ref \in Lists /\ conf \in Configs
  BY DEF IInv, Trained, Good, Shaped, Points
<1>2. ASSUME NEW p \in Prompts
      PROVE  /\ Len(passrate[p]) \in Nat /\ Level(passrate, todo, p) \in Nat
             /\ Len(passrate[p]) <= Level(passrate, todo, p)
             /\ Level(passrate, todo, p) <= Len(passrate[p]) + 1
             /\ todo = <<>> => Level(passrate, todo, p) = Len(passrate[p])
  <2>1. todo = <<>> => p \notin Coming(todo)
    BY NothingComes
  <2> QED BY <1>1, <2>1, LevelIs
<1>3. Len(todo) \in 0..PassLen
  <2>1. CASE pass = 0
    BY <2>1, StepsFacts, EmptySeq DEF IInv, Trained, Good, Shaped
  <2>2. CASE pass # 0
    BY <1>1, <2>2, SuffixFacts DEF IInv, Trained, Good, Shaped
  <2> QED BY <2>1, <2>2
<1> QED BY <1>1, <1>2, <1>3

\* A checkpoint is written with the lists as they are.
LEMMA SavedKept ==
  ASSUME IInv, conf' = conf, run' = run, ckpt' = ckpt \/ (MaybeSave /\ pc \in {"initial", "save"})
  PROVE  Saved'
<1>1. CASE ckpt' = ckpt
  <2> SUFFICES ASSUME ckpt' # NoCheckpoint PROVE Saved'
    BY DEF Saved
  <2>1. Good(ckpt.passrate, ckpt.ref, ckpt.pass, ckpt.todo)'
    BY <1>1, GoodSaved DEF IInv, Saved
  <2> QED BY <1>1, <2>1, Kept DEF IInv, Saved, Fields, StepsOf
<1>2. CASE ckpt' = Snapshot /\ pc \in {"initial", "save"}
  <2>1. /\ ckpt'.step = step /\ ckpt'.pass = pass /\ ckpt'.todo = todo
        /\ ckpt'.passrate = passrate /\ ckpt'.ref = ref /\ Fields(ckpt)'
    BY <1>2 DEF Snapshot, Fields
  <2>2. Good(ckpt.passrate, ckpt.ref, ckpt.pass, ckpt.todo)'
    BY <2>1, GoodSaved DEF IInv, Trained
  <2>3. /\ step \in Nat /\ run \in Nat /\ run # 0 /\ epoch \in 0..Epochs /\ Epochs \in Nat
        /\ pc = "save" => epoch < Epochs /\ pass > 0
        /\ pc = "initial" /\ pass = 0 => step = 0 /\ epoch = 0
    <3>1. conf \in Configs
      BY DEF IInv, Points
    <3>2. Epochs \in Nat /\ MaxRuns \in Nat
      BY <3>1, SemiAssumption, StepsFacts
    <3> QED BY <1>2, <3>2 DEF IInv, Points, InPass
  <2>4. ASSUME NEW p \in Prompts
        PROVE  /\ Len(passrate[p]) <= Epochs
               /\ step >= StepsOf(Len(passrate[p]) - run + 1) - Len(todo)
    <3> DEFINE length == Len(passrate[p])
    <3>1. length \in Nat /\ length <= Level(passrate, todo, p) /\ Level(passrate, todo, p) \in Nat
      BY LensKept
    <3>2. length <= (IF pc = "save" THEN epoch + 1 ELSE epoch + 0)
      <4>1. CASE pc = "save"
        <5>1. Level(passrate, todo, p) <= epoch + 1
          BY <4>1 DEF IInv, Reach, InPass
        <5> QED BY <2>3, <3>1, <4>1, <5>1
      <4>2. CASE pc = "initial"
        BY <2>3, <4>2 DEF IInv, Reach, InPass
      <4> QED BY <1>2, <4>1, <4>2
    <3>3. Len(todo) \in Nat
      BY LensKept, StepsFacts
    <3> HIDE DEF length
    <3>4. length <= Epochs /\ length <= epoch + 1
      BY <1>2, <2>3, <3>1, <3>2
    <3>5. CASE pass > 0
      <4>1. step >= StepsOf(epoch - run + 2) - Len(todo)
        BY <1>2, <3>5 DEF IInv, Behind
      <4>2. StepsOf(length - run + 1) <= StepsOf(epoch - run + 2)
        <5>1. /\ length - run + 1 \in Int /\ epoch - run + 2 \in Int
              /\ length - run + 1 <= epoch - run + 2
          BY <2>3, <3>1, <3>4
        <5> QED BY <5>1, StepsFacts
      <4>3. StepsOf(length - run + 1) \in Int /\ StepsOf(epoch - run + 2) \in Int
        <5>1. length - run + 1 \in Int /\ epoch - run + 2 \in Int
          BY <2>3, <3>1
        <5> QED BY <5>1, StepsFacts
      <4>4. step >= StepsOf(length - run + 1) - Len(todo)
        BY <2>3, <3>3, <4>1, <4>2, <4>3
      <4> QED BY <3>4, <4>4 DEF length
    <3>6. CASE ~(pass > 0)
      <4>1. pass = 0
        BY <3>6, LensKept
      <4>2. length = 0 /\ step = 0
        BY <1>2, <2>3, <3>1, <3>2, <4>1
      <4>3. StepsOf(length - run + 1) <= StepsOf(0) /\ StepsOf(length - run + 1) \in Int
        <5>1. length - run + 1 \in Int /\ 0 \in Int /\ length - run + 1 <= 0
          BY <2>3, <4>2
        <5> QED BY <5>1, StepsFacts
      <4>4. step >= StepsOf(length - run + 1) - Len(todo)
        BY <2>3, <3>3, <4>2, <4>3, StepsFacts, SMTT(30)
      <4> QED BY <3>4, <4>4 DEF length
    <3> QED BY <3>5, <3>6
  <2>5. \A p \in Prompts :
          /\ Len(ckpt'.passrate[p]) <= Epochs
          /\ ckpt'.step >= StepsOf(Len(ckpt'.passrate[p]) - run + 1) - Len(ckpt'.todo)
    BY <2>1, <2>4
  <2> QED BY <2>1, <2>2, <2>3, <2>5, Kept DEF Saved, StepsOf
<1> QED BY <1>1, <1>2 DEF MaybeSave

-----------------------------------------------------------------------------
\* The actions preserve the invariant.

\* run + 1 weakens what is claimed of the checkpoint.
LEMMA SavedLater ==
  ASSUME IInv, conf' = conf, run' = run + 1, ckpt' = ckpt
  PROVE  Saved'
<1> SUFFICES ASSUME ckpt' # NoCheckpoint PROVE Saved'
  BY DEF Saved
<1>1. Good(ckpt.passrate, ckpt.ref, ckpt.pass, ckpt.todo)'
  BY GoodSaved DEF IInv, Saved
<1>2. run \in Nat /\ ckpt.passrate \in Lists /\ Len(ckpt.todo) \in Nat
  <2>1. conf \in Configs /\ run \in Nat
    BY SemiAssumption DEF IInv, Points
  <2>2. Shaped(ckpt.passrate, ckpt.ref, ckpt.pass, ckpt.todo)
    BY DEF IInv, Saved, Good
  <2>3. CASE ckpt.pass = 0
    BY <2>1, <2>2, <2>3, EmptySeq DEF Shaped
  <2>4. CASE ckpt.pass # 0
    <3>1. Suffix(ckpt.todo) /\ ckpt.passrate \in Lists
      BY <2>2, <2>4 DEF Shaped
    <3>2. Len(ckpt.todo) \in 0..PassLen
      BY <2>1, <3>1, SuffixFacts
    <3>3. PassLen \in Nat
      BY StepsFacts
    <3>4. Len(ckpt.todo) \in Nat
      BY <3>2, <3>3
    <3> QED BY <2>1, <3>1, <3>4
  <2> QED BY <2>3, <2>4
<1>3. ASSUME NEW p \in Prompts
      PROVE  ckpt.step >= StepsOf(Len(ckpt.passrate[p]) - (run + 1) + 1) - Len(ckpt.todo)
  <2> DEFINE length == Len(ckpt.passrate[p])
             left == Len(ckpt.todo)
  <2>1. length \in Nat /\ left \in Nat
    BY <1>2, LenNat
  <2>2. ckpt.step \in Nat /\ ckpt.step >= StepsOf(length - run + 1) - left
    BY DEF IInv, Saved
  <2> HIDE DEF length, left
  <2>3. /\ length - run + 1 \in Int /\ length - (run + 1) + 1 \in Int
        /\ length - (run + 1) + 1 <= length - run + 1
    BY <1>2, <2>1
  <2>4. /\ StepsOf(length - (run + 1) + 1) <= StepsOf(length - run + 1)
        /\ StepsOf(length - (run + 1) + 1) \in Int /\ StepsOf(length - run + 1) \in Int
    BY <2>3, StepsFacts
  <2>5. ckpt.step >= StepsOf(length - (run + 1) + 1) - left
    BY <2>1, <2>2, <2>4
  <2> QED BY <2>5 DEF length, left
<1> QED BY <1>1, <1>3, Kept DEF IInv, Saved, Fields, StepsOf

LEMMA StartFreshInv ==
  ASSUME IInv, StartFresh, conf' = conf
  PROVE  IInv'
<1>1. /\ conf \in Configs /\ run \in Nat /\ run < MaxRuns /\ MaxRuns \in Nat
      /\ step = 0 /\ epoch = 0 /\ pass = 0 /\ todo = <<>> /\ passrate = NoLists /\ ref = NoLists
  BY SemiAssumption DEF IInv, Points, StartFresh
<1>2. /\ step' = step /\ epoch' = epoch /\ pass' = pass /\ todo' = todo /\ passrate' = passrate
      /\ ref' = ref /\ selected' = selected /\ refMinLen' = refMinLen /\ ckpt' = ckpt
      /\ pc' = "initial" /\ run' = run + 1 /\ ckpt = NoCheckpoint
  BY DEF StartFresh, memory
<1>3. Points'
  BY <1>1, <1>2, Kept DEF IInv, Points, Ended, InPass
<1>4. Trained'
  BY <1>2, ListsKept
<1>5. Saved'
  BY <1>2 DEF Saved
<1>6. \A p \in Prompts : Len(passrate[p]) = 0 /\ Level(passrate, todo, p)' = 0
  BY <1>1, <1>2, LevelKept, EmptyLists
<1>7. Reach'
  BY <1>1, <1>2, <1>6 DEF Reach, InPass
<1>8. First'
  <2>1. Deep(ref, passrate)'
    BY <1>1, <1>2, EmptyLists DEF Deep
  <2>2. \A p \in Prompts : \A i \in 1..Len(passrate'[p]) : passrate'[p][i] = i
    BY <1>2, <1>6
  <2> QED BY <1>1, <1>2, <1>6, <2>1, <2>2 DEF First
<1>9. Low'
  BY <1>1, <1>2, <1>6 DEF Low
<1>10. Behind' /\ Exact' /\ NoBatchAborts' /\ ScoresDefined'
  BY <1>1, <1>2 DEF Behind, Exact, NoBatchAborts, ScoresDefined
<1> QED BY <1>3, <1>4, <1>5, <1>7, <1>8, <1>9, <1>10 DEF IInv

LEMMA StartFailsInv ==
  ASSUME IInv, StartFails, conf' = conf
  PROVE  IInv'
<1>1. /\ conf \in Configs /\ run \in Nat /\ run < MaxRuns /\ MaxRuns \in Nat /\ run # 0
      /\ step = 0 /\ epoch = 0 /\ pass = 0 /\ todo = <<>> /\ passrate = NoLists /\ ref = NoLists
  BY SemiAssumption DEF IInv, Points, StartFails
<1>2. /\ step' = step /\ epoch' = epoch /\ pass' = pass /\ todo' = todo /\ passrate' = passrate
      /\ ref' = ref /\ selected' = selected /\ refMinLen' = refMinLen /\ ckpt' = ckpt
      /\ pc' = "load_error" /\ run' = run + 1
  BY DEF StartFails, memory
<1>3. Points'
  BY <1>1, <1>2, Kept DEF IInv, Points, Ended, InPass
<1>4. Trained'
  BY <1>2, ListsKept
<1>5. Saved'
  BY <1>2, SavedLater
<1>6. Reach'
  BY <1>1, <1>2, EmptyLists DEF Reach, InPass
<1>7. First' /\ Low' /\ Behind' /\ Exact' /\ NoBatchAborts' /\ ScoresDefined'
  BY <1>1, <1>2 DEF First, Low, Behind, Exact, NoBatchAborts, ScoresDefined
<1> QED BY <1>3, <1>4, <1>5, <1>6, <1>7 DEF IInv

LEMMA CrashInv ==
  ASSUME IInv, Crash
  PROVE  IInv'
<1>1. /\ conf' = conf /\ run' = run /\ ckpt' = ckpt /\ pc' = "down"
      /\ step' = 0 /\ epoch' = 0 /\ pass' = 0 /\ todo' = <<>>
      /\ passrate' = NoLists /\ ref' = NoLists /\ selected' = {} /\ refMinLen' = 0
      /\ pc # "down" /\ run < MaxRuns
  BY DEF Crash, Blank
<1>2. Down'
  <2>1. conf \in Configs /\ run \in 0..MaxRuns - 1 /\ run # 0
    BY <1>1, SemiAssumption DEF IInv, Points
  <2>2. NoLists' = NoLists
    BY DEF NoLists
  <2> QED BY <1>1, <2>1, <2>2 DEF Down
<1>3. Saved'
  BY <1>1, SavedKept
<1>4. (Down /\ Saved => IInv)'
  BY DownInv, PTL
<1> QED BY <1>2, <1>3, <1>4

LEMMA StartFromCheckpointInv ==
  ASSUME IInv, StartFromCheckpoint, conf' = conf
  PROVE  IInv'
<1> DEFINE k == ResumeEpoch(ckpt.passrate)
<1>1. /\ conf \in Configs /\ run \in Nat /\ run < MaxRuns /\ MaxRuns \in Nat /\ run # 0
      /\ ckpt # NoCheckpoint /\ selected \subseteq Unlabeled /\ refMinLen \in Nat
  BY SemiAssumption DEF IInv, Points, StartFromCheckpoint
<1>2. /\ step' = ckpt.step /\ epoch' = k /\ pass' = ckpt.pass /\ todo' = ckpt.todo
      /\ passrate' = Cut(ckpt.passrate, k) /\ ref' = Cut(ckpt.ref, k)
      /\ selected' = selected /\ refMinLen' = refMinLen /\ ckpt' = ckpt
      /\ pc' = "initial" /\ run' = run + 1
  BY DEF StartFromCheckpoint
<1>3. Keys(ckpt.passrate) \cap Labeled # {} /\ Keys(ckpt.passrate) \cap Unlabeled # {}
  BY DEF StartFromCheckpoint, CannotResume
<1>4. /\ Good(ckpt.passrate, ckpt.ref, ckpt.pass, ckpt.todo) /\ ckpt.step \in Nat
      /\ \A p \in Prompts :
           /\ Len(ckpt.passrate[p]) <= Epochs
           /\ ckpt.step >= StepsOf(Len(ckpt.passrate[p]) - run + 1) - Len(ckpt.todo)
  BY <1>1 DEF IInv, Saved
<1>5. /\ ckpt.passrate \in Lists /\ k \in Nat /\ k # 0
      /\ \E p \in Prompts : k = Len(ckpt.passrate[p])
  <2>1. ckpt.passrate \in Lists
    BY <1>4 DEF Good, Shaped
  <2> QED BY <1>3, <2>1, ResumeFacts DEF Keys
<1>6. /\ ckpt.pass > 0 /\ ~Supervised
      /\ Good(Cut(ckpt.passrate, k), Cut(ckpt.ref, k), ckpt.pass, ckpt.todo)
      /\ \A p \in Prompts : Len(Cut(ckpt.passrate, k)[p]) <= k
      /\ Semi => Even(Cut(ckpt.passrate, k), ckpt.todo)
      /\ Semi => \A p \in Prompts : k <= Level(Cut(ckpt.passrate, k), ckpt.todo, p)
  BY <1>1, <1>3, <1>4, CutGood
<1>7. k <= Epochs
  BY <1>4, <1>5
<1> HIDE DEF k
<1>8. Points'
  <2>1. Epochs \in Nat
    BY <1>1, StepsFacts
  <2> QED BY <1>1, <1>2, <1>4, <1>5, <1>6, <1>7, <2>1, Kept DEF Points, Ended, InPass
<1>9. Trained'
  <2>1. Good(passrate, ref, pass, todo)'
    BY <1>2, <1>6, GoodKept
  <2>2. ASSUME Semi' PROVE Even(passrate, todo)'
    BY <1>2, <1>6, <2>2, EvenKept, Kept
  <2> QED BY <2>1, <2>2 DEF Trained
<1>10. Saved'
  BY <1>2, SavedLater
<1>11. Reach'
  BY <1>2, <1>6 DEF Reach, InPass
<1>12. First'
  BY <1>1, <1>2 DEF First
<1>13. Low'
  <2>1. ASSUME NEW p \in Prompts, Semi PROVE k <= Level(passrate, todo, p)'
    BY <1>2, <1>6, <2>1 DEF Level
  <2> QED BY <1>2, <2>1, Kept DEF Low
<1>14. Behind'
  <2>1. PICK p \in Prompts : k = Len(ckpt.passrate[p])
    BY <1>5
  <2>2. ckpt.step >= StepsOf(k - run + 1) - Len(ckpt.todo)
    BY <1>4, <2>1
  <2>3. k - run + 1 = k - (run + 1) + 2
    BY <1>1, <1>5
  <2> QED BY <1>2, <2>2, <2>3 DEF Behind, StepsOf
<1>15. Exact' /\ NoBatchAborts' /\ ScoresDefined'
  <2>1. ~NotResumed'
    BY <1>1, <1>2, <1>6, Kept DEF NotResumed
  <2> QED BY <1>2, <2>1 DEF Exact, NoBatchAborts, ScoresDefined
<1> QED BY <1>8, <1>9, <1>10, <1>11, <1>12, <1>13, <1>14, <1>15 DEF IInv

LEMMA EnterLoopInv ==
  ASSUME IInv, EnterLoop, conf' = conf
  PROVE  IInv'
<1>1. /\ conf \in Configs /\ run \in Nat /\ run # 0 /\ pc = "initial" /\ step \in Nat
      /\ pass \in Nat /\ epoch \in Nat /\ (pass = 0 => step = 0 /\ epoch = 0 /\ todo = <<>>)
  BY SemiAssumption DEF IInv, Points, EnterLoop, Trained, Good, Shaped
<1>2. /\ step' = step + 1 /\ epoch' = epoch /\ pass' = pass /\ todo' = todo
      /\ passrate' = passrate /\ ref' = ref /\ selected' = selected /\ refMinLen' = refMinLen
      /\ run' = run /\ (ckpt' = ckpt \/ MaybeSave)
      /\ pc' = IF pass > 0 THEN "resumed" ELSE "epoch"
  BY DEF EnterLoop
<1>3. pc' \in {"resumed", "epoch"} /\ (pc' = "resumed" => pass > 0) /\ (pc' = "epoch" => pass = 0)
  BY <1>1, <1>2
<1>4. Points'
  BY <1>1, <1>2, <1>3, Kept DEF IInv, Points, Ended, InPass
<1>5. Trained'
  BY <1>2, ListsKept
<1>6. Saved'
  BY <1>1, <1>2, SavedKept
<1>7. Reach'
  BY <1>1, <1>2, <1>3 DEF IInv, Reach, InPass
<1>8. First'
  <2> SUFFICES ASSUME run = 1, FullPasses PROVE First'
    BY <1>2, Kept DEF First
  <2>1. pass = 0 /\ pc' = "epoch"
    BY <1>1, <1>2 DEF IInv, First
  <2>2. \A p \in Prompts : Level(passrate, todo, p)' = Level(passrate, todo, p)
    BY <1>2, LevelKept
  <2>3. Deep(ref, passrate)' <=> Deep(ref, passrate)
    BY <1>2 DEF Deep
  <2> QED BY <1>1, <1>2, <2>1, <2>2, <2>3, Kept DEF IInv, First
<1>9. Low'
  <2> SUFFICES ASSUME Semi PROVE Low'
    BY Kept DEF Low
  <2>1. \A p \in Prompts : Level(passrate, todo, p)' = Level(passrate, todo, p)
    BY <1>2, LevelKept
  <2>2. pc' = "resumed" => \A p \in Prompts : epoch' <= Level(passrate, todo, p)'
    BY <1>1, <1>2, <2>1 DEF IInv, Low
  <2>3. pc' = "epoch" => \A p \in Prompts : epoch' <= Len(passrate'[p]) + 1
    <3>1. \A p \in Prompts : Len(passrate[p]) \in Nat
      BY LensKept
    <3> QED BY <1>1, <1>2, <1>3, <3>1
  <2> QED BY <1>3, <2>2, <2>3 DEF Low
<1>10. Behind'
  <2>1. Len(todo) \in Nat
    BY LensKept, StepsFacts
  <2>2. CASE pc' = "resumed"
    <3>1. step >= StepsOf(epoch - run + 2) - Len(todo)
      BY <1>1, <1>3, <2>2 DEF IInv, Behind
    <3>2. epoch - run + 2 \in Int
      BY <1>1
    <3>3. StepsOf(epoch - run + 2) \in Int
      BY <3>2, StepsFacts
    <3>4. step + 1 > StepsOf(epoch - run + 2) - Len(todo)
      BY <1>1, <2>1, <3>1, <3>3
    <3> QED BY <1>2, <2>2, <3>4 DEF Behind, StepsOf
  <2>3. CASE pc' = "epoch"
    <3>1. epoch = 0 /\ step = 0
      BY <1>1, <1>3, <2>3
    <3>2. epoch - run + 1 \in Int /\ 0 \in Int /\ epoch - run + 1 <= 0
      BY <1>1, <3>1
    <3>3. StepsOf(epoch - run + 1) <= 0 /\ StepsOf(epoch - run + 1) \in Int
      BY <3>2, StepsFacts
    <3>4. step + 1 > StepsOf(epoch - run + 1)
      BY <3>1, <3>3
    <3> QED BY <1>2, <2>3, <3>4 DEF Behind, StepsOf
  <2> QED BY <1>3, <2>2, <2>3
<1>11. Exact'
  <2> SUFFICES ASSUME NotResumed PROVE Exact'
    BY <1>1, <1>2, Kept DEF Exact, NotResumed
  <2>1. pass = 0 /\ pc' = "epoch" /\ epoch = 0 /\ step = 0
    BY <1>1, <1>2 DEF IInv, Exact
  <2>2. 1 <= TotalSteps
    <3>1. TotalSteps \in Nat \ {0}
      BY <1>1, StepsFacts
    <3> QED BY <3>1
  <2>3. StepsOf(epoch)' = 0
    BY <1>2, <2>1, StepsFacts DEF StepsOf
  <2> QED BY <1>2, <2>1, <2>2, <2>3, Kept DEF Exact
<1>12. NoBatchAborts' /\ ScoresDefined'
  BY <1>3 DEF NoBatchAborts, ScoresDefined
<1> QED BY <1>4, <1>5, <1>6, <1>7, <1>8, <1>9, <1>10, <1>11, <1>12 DEF IInv

\* Both ways a pass begins.
LEMMA NewPassInv ==
  ASSUME IInv, NewPass, conf' = conf, epoch < Epochs,
         pc = "epoch" \/ (pc = "resumed" /\ todo = <<>>)
  PROVE  IInv'
<1>1. /\ conf \in Configs /\ run \in Nat /\ run # 0 /\ step \in Nat
      /\ pass \in Nat /\ epoch \in Nat /\ todo = <<>> /\ Epochs \in Nat
  <2>1. conf \in Configs
    BY DEF IInv, Points
  <2>2. Epochs \in Nat /\ MaxRuns \in Nat
    BY <2>1, SemiAssumption, StepsFacts
  <2> QED BY <2>2 DEF IInv, Points, Trained, Good, Shaped
<1>2. /\ step' = step /\ epoch' = epoch /\ pass' = pass + 1 /\ todo' \in Orders
      /\ passrate' = passrate /\ ref' = ref /\ selected' = selected /\ refMinLen' = refMinLen
      /\ run' = run /\ ckpt' = ckpt /\ pc' = "batch"
  BY DEF NewPass
<1>3. /\ Good(passrate, ref, pass + 1, todo')
      /\ Semi => \A p \in Prompts : Level(passrate, todo', p) = Len(passrate[p]) + 1
      /\ Semi => Even(passrate, todo')
  BY <1>1, <1>2, NewPassGood DEF IInv, Trained
<1>4. \A p \in Prompts : /\ Len(passrate[p]) \in Nat /\ Level(passrate, todo, p) = Len(passrate[p])
                         /\ Level(passrate, todo', p) <= Len(passrate[p]) + 1
                         /\ Level(passrate, todo', p) \in Nat
  <2>1. passrate \in Lists
    BY LensKept
  <2>2. \A p \in Prompts : /\ Len(passrate[p]) \in Nat
                           /\ Level(passrate, todo', p) <= Len(passrate[p]) + 1
                           /\ Level(passrate, todo', p) \in Nat
    BY <2>1, LevelIs
  <2> QED BY <1>1, <2>2, LensKept
<1>5. \A p \in Prompts : Level(passrate, todo, p)' = Level(passrate, todo', p)
  BY <1>2 DEF Level
<1>6. Points'
  BY <1>1, <1>2, Kept DEF IInv, Points, Ended, InPass
<1>7. Trained'
  <2>1. Good(passrate, ref, pass, todo)'
    BY <1>2, <1>3, GoodKept
  <2>2. ASSUME Semi' PROVE Even(passrate, todo)'
    BY <1>2, <1>3, <2>2, EvenKept, Kept
  <2> QED BY <2>1, <2>2 DEF Trained
<1>8. Saved'
  BY <1>2, SavedKept
<1>9. Reach'
  <2>1. \A p \in Prompts : Len(passrate[p]) <= epoch
    BY DEF IInv, Reach, InPass
  <2>2. ASSUME NEW p \in Prompts PROVE Level(passrate, todo', p) <= epoch + 1
    BY <1>1, <1>4, <2>1
  <2> QED BY <1>2, <1>5, <2>2 DEF Reach, InPass
<1>10. First'
  <2> SUFFICES ASSUME run = 1, FullPasses PROVE First'
    BY <1>2, Kept DEF First
  <2>1. epoch = pass /\ \A p \in Prompts : \A i \in 1..Len(passrate[p]) : passrate[p][i] = i
    BY DEF IInv, First
  <2>2. ASSUME ~Supervised, NEW p \in Prompts PROVE Level(passrate, todo', p) = pass + 1
    <3>1. Level(passrate, todo, p) = pass
      BY <2>2 DEF IInv, First
    <3>2. Level(passrate, todo', p) = Len(passrate[p]) + 1
      BY <1>3, <2>2 DEF Semi
    <3> QED BY <1>4, <3>1, <3>2
  <2>3. /\ Deep(ref, passrate)' <=> Deep(ref, passrate)
        /\ Semi /\ WarmUp >= 2 => Deep(ref, passrate)
    BY <1>2 DEF IInv, First, Deep
  <2> QED BY <1>1, <1>2, <1>5, <2>1, <2>2, <2>3, Kept DEF First
<1>11. Low'
  <2> SUFFICES ASSUME Semi PROVE Low'
    BY Kept DEF Low
  <2>1. \A p \in Prompts : epoch <= Len(passrate[p]) + 1
    <3> TAKE p \in Prompts
    <3>1. epoch <= Len(passrate[p]) + 1 \/ epoch <= Level(passrate, todo, p)
      BY DEF IInv, Low
    <3> QED BY <1>1, <1>4, <3>1
  <2> QED BY <1>2, <1>3, <1>5, <2>1 DEF Low
<1>12. Behind'
  <2>1. todo' \in Seq(SUBSET Prompts) /\ Len(todo') = PassLen
    BY <1>1, <1>2, OrderIs
  <2>2. /\ epoch - run + 1 \in Int /\ epoch - run + 2 \in Int
        /\ (epoch - run + 1) + 1 = epoch - run + 2
    BY <1>1
  <2>3. /\ StepsOf(epoch - run + 2) = StepsOf(epoch - run + 1) + PassLen
        /\ StepsOf(epoch - run + 2) \in Int /\ StepsOf(epoch - run + 1) \in Int /\ PassLen \in Nat
    BY <2>2, StepsFacts
  <2>4. step > StepsOf(epoch - run + 2) - PassLen
    <3>1. CASE pc = "epoch"
      <4>1. step > StepsOf(epoch - run + 1)
        BY <3>1 DEF IInv, Behind
      <4> QED BY <1>1, <2>3, <4>1
    <3>2. CASE pc = "resumed"
      <4>1. step > StepsOf(epoch - run + 2) - Len(todo) /\ Len(todo) = 0
        BY <1>1, <3>2, EmptySeq DEF IInv, Behind
      <4> QED BY <1>1, <2>3, <4>1
    <3> QED BY <3>1, <3>2
  <2> QED BY <1>2, <2>1, <2>4 DEF Behind, StepsOf
<1>13. Exact'
  <2> SUFFICES ASSUME NotResumed PROVE Exact'
    BY <1>1, <1>2, Kept DEF Exact, NotResumed
  <2>1. step <= TotalSteps /\ step = StepsOf(epoch) + 1
    BY DEF IInv, Exact
  <2>2. StepsOf(epoch + 1) = StepsOf(epoch) + PassLen /\ StepsOf(epoch) \in Int /\ PassLen \in Nat
    <3>1. epoch \in Int
      BY <1>1
    <3> QED BY <3>1, StepsFacts
  <2>3. Len(todo') = PassLen
    BY <1>1, <1>2, OrderIs
  <2>4. step = StepsOf(epoch + 1) - PassLen + 1
    BY <2>1, <2>2
  <2> QED BY <1>2, <2>1, <2>3, <2>4, Kept DEF Exact, StepsOf
<1>14. NoBatchAborts' /\ ScoresDefined'
  BY <1>2 DEF NoBatchAborts, ScoresDefined
<1> QED BY <1>6, <1>7, <1>8, <1>9, <1>10, <1>11, <1>12, <1>13, <1>14 DEF IInv

LEMMA ResumedEpochInv ==
  ASSUME IInv, ResumedEpoch, conf' = conf
  PROVE  IInv'
<1>1. CASE todo = <<>> /\ "anew" \in AtBoundary /\ NewPass
  BY <1>1, NewPassInv DEF ResumedEpoch
<1>2. CASE pc' = "batch" /\ UNCHANGED <<run, memory, ckpt>>
  <2>1. /\ step' = step /\ epoch' = epoch /\ pass' = pass /\ todo' = todo
        /\ passrate' = passrate /\ ref' = ref /\ selected' = selected /\ refMinLen' = refMinLen
        /\ run' = run /\ ckpt' = ckpt /\ pc' = "batch" /\ pc = "resumed" /\ epoch < Epochs
    BY <1>2 DEF ResumedEpoch, memory
  <2>2. \A p \in Prompts : Level(passrate, todo, p)' = Level(passrate, todo, p)
    BY <2>1, LevelKept
  <2>3. Points'
    BY <2>1, Kept DEF IInv, Points, Ended, InPass
  <2>4. Trained'
    BY <2>1, ListsKept
  <2>5. Saved'
    BY <2>1, SavedKept
  <2>6. Reach'
    <3>1. ASSUME NEW p \in Prompts PROVE Level(passrate, todo, p) <= epoch + 1
      <4>1. Len(passrate[p]) <= epoch /\ epoch \in Nat
        BY <2>1 DEF IInv, Reach, InPass, Points
      <4> QED BY <4>1, LensKept
    <3> QED BY <2>1, <2>2, <3>1 DEF Reach, InPass
  <2>7. First'
    BY <2>1, Kept DEF IInv, First
  <2>8. Low'
    BY <2>1, <2>2, Kept DEF IInv, Low
  <2>9. Behind'
    BY <2>1 DEF IInv, Behind, StepsOf
  <2>10. Exact'
    BY <2>1, Kept DEF IInv, Exact, NotResumed
  <2>11. NoBatchAborts' /\ ScoresDefined'
    BY <2>1 DEF NoBatchAborts, ScoresDefined
  <2> QED BY <2>3, <2>4, <2>5, <2>6, <2>7, <2>8, <2>9, <2>10, <2>11 DEF IInv
<1> QED BY <1>1, <1>2 DEF ResumedEpoch

LEMMA NoEpochLeftInv ==
  ASSUME IInv, NoEpochLeft, conf' = conf
  PROVE  IInv'
<1>1. /\ step' = step /\ epoch' = epoch /\ pass' = pass /\ todo' = todo
      /\ passrate' = passrate /\ ref' = ref /\ selected' = selected /\ refMinLen' = refMinLen
      /\ run' = run /\ ckpt' = ckpt /\ pc' = "exhausted" /\ pc \in {"epoch", "resumed"}
      /\ epoch >= Epochs
  BY DEF NoEpochLeft, memory
<1>2. /\ conf \in Configs /\ run \in Nat /\ run # 0 /\ step \in Nat
      /\ epoch \in Nat /\ Epochs \in Nat /\ epoch = Epochs
  <2>1. conf \in Configs
    BY DEF IInv, Points
  <2>2. Epochs \in Nat /\ MaxRuns \in Nat
    BY <2>1, SemiAssumption, StepsFacts
  <2> QED BY <1>1, <2>1, <2>2 DEF IInv, Points
<1>3. Points'
  BY <1>1, Kept DEF IInv, Points, Ended, InPass
<1>4. Trained'
  BY <1>1, ListsKept
<1>5. Saved'
  BY <1>1, SavedKept
<1>6. Reach'
  BY <1>1 DEF IInv, Reach, InPass
<1>7. First'
  <2>1. \A p \in Prompts : Level(passrate, todo, p)' = Level(passrate, todo, p)
    BY <1>1, LevelKept
  <2>2. Deep(ref, passrate)' <=> Deep(ref, passrate)
    BY <1>1 DEF Deep
  <2> QED BY <1>1, <2>1, <2>2, Kept DEF IInv, First
<1>8. ASSUME NotResumed PROVE TotalSteps > StepsOf(Epochs)
  <2>1. step <= TotalSteps /\ step = StepsOf(epoch) + 1
    BY <1>1, <1>8 DEF IInv, Exact
  <2>2. StepsOf(Epochs) \in Int /\ TotalSteps \in Int
    BY <1>2, StepsFacts
  <2> QED BY <1>2, <2>1, <2>2
<1>9. Behind'
  <2>1. Len(todo) \in Nat /\ Len(todo) <= PassLen /\ PassLen \in Nat
    BY LensKept, StepsFacts
  <2>2. /\ epoch - run + 1 \in Int /\ epoch - run + 2 \in Int
        /\ (epoch - run + 1) + 1 = epoch - run + 2
    BY <1>2
  <2>3. /\ StepsOf(epoch - run + 2) = StepsOf(epoch - run + 1) + PassLen
        /\ StepsOf(epoch - run + 2) \in Int /\ StepsOf(epoch - run + 1) \in Int
    BY <2>2, StepsFacts
  <2>4. step > StepsOf(epoch - run + 1)
    <3>1. CASE pc = "epoch"
      BY <3>1 DEF IInv, Behind
    <3>2. CASE pc = "resumed"
      <4>1. step > StepsOf(epoch - run + 2) - Len(todo)
        BY <3>2 DEF IInv, Behind
      <4> QED BY <1>2, <2>1, <2>3, <4>1
    <3> QED BY <1>1, <3>1, <3>2
  <2> QED BY <1>1, <1>2, <2>4, Kept DEF Behind, StepsOf
<1>10. Exact'
  BY <1>1, <1>8, Kept DEF Exact, NotResumed, StepsOf
<1>11. Low' /\ NoBatchAborts' /\ ScoresDefined'
  BY <1>1 DEF Low, NoBatchAborts, ScoresDefined
<1> QED BY <1>3, <1>4, <1>5, <1>6, <1>7, <1>9, <1>10, <1>11 DEF IInv

LEMMA EndPassInv ==
  ASSUME IInv, EndPass, conf' = conf
  PROVE  IInv'
<1>1. /\ step' = step /\ epoch' = epoch + 1 /\ pass' = pass /\ todo' = todo
      /\ passrate' = passrate /\ ref' = ref /\ selected' = selected /\ refMinLen' = refMinLen
      /\ run' = run /\ ckpt' = ckpt /\ pc' = "epoch" /\ pc = "batch" /\ todo = <<>>
  BY DEF EndPass
<1>2. /\ conf \in Configs /\ run \in Nat /\ run # 0 /\ step \in Nat /\ pass \in Nat
      /\ epoch \in Nat /\ epoch < Epochs /\ Epochs \in Nat /\ Len(todo) = 0
  <2>1. conf \in Configs
    BY DEF IInv, Points
  <2>2. Epochs \in Nat /\ MaxRuns \in Nat
    BY <2>1, SemiAssumption, StepsFacts
  <2> QED BY <1>1, <2>1, <2>2, EmptySeq DEF IInv, Points, InPass, Trained, Good, Shaped
<1>3. \A p \in Prompts : /\ Level(passrate, todo, p)' = Level(passrate, todo, p)
                         /\ Level(passrate, todo, p) = Len(passrate[p])
                         /\ Len(passrate[p]) \in Nat
  BY <1>1, LevelKept, LensKept
<1>4. Points'
  BY <1>1, <1>2, Kept DEF IInv, Points, Ended, InPass
<1>5. Trained'
  BY <1>1, ListsKept
<1>6. Saved'
  BY <1>1, SavedKept
<1>7. Reach'
  <2>1. \A p \in Prompts : Level(passrate, todo, p) <= epoch + 1
    BY <1>1 DEF IInv, Reach, InPass
  <2> QED BY <1>1, <1>3, <2>1 DEF Reach, InPass
<1>8. First'
  <2> SUFFICES ASSUME run = 1, FullPasses PROVE First'
    BY <1>1, Kept DEF First
  <2>1. epoch = pass - 1
    BY <1>1 DEF IInv, First
  <2>2. Deep(ref, passrate)' <=> Deep(ref, passrate)
    BY <1>1 DEF Deep
  <2>3. epoch + 1 = pass
    BY <1>2, <2>1
  <2> QED BY <1>1, <1>3, <2>2, <2>3, Kept DEF IInv, First
<1>9. Low'
  <2> SUFFICES ASSUME Semi PROVE Low'
    BY Kept DEF Low
  <2>1. ASSUME NEW p \in Prompts PROVE epoch + 1 <= Len(passrate[p]) + 1
    <3>1. epoch <= Level(passrate, todo, p)
      BY <1>1 DEF IInv, Low
    <3> QED BY <1>2, <1>3, <3>1
  <2> QED BY <1>1, <2>1 DEF Low
<1>10. Behind'
  <2>1. step > StepsOf(epoch - run + 2) - Len(todo)
    BY <1>1 DEF IInv, Behind
  <2>2. epoch - run + 2 \in Int /\ (epoch + 1) - run + 1 = epoch - run + 2
    BY <1>2
  <2>3. StepsOf(epoch - run + 2) \in Int
    BY <2>2, StepsFacts
  <2>4. step > StepsOf((epoch + 1) - run + 1)
    BY <1>2, <2>1, <2>2, <2>3
  <2> QED BY <1>1, <2>4 DEF Behind, StepsOf
<1>11. Exact'
  <2> SUFFICES ASSUME NotResumed PROVE Exact'
    BY <1>1, <1>2, Kept DEF Exact, NotResumed
  <2>1. step <= TotalSteps /\ step = StepsOf(epoch + 1) - Len(todo) + 1
    BY <1>1 DEF IInv, Exact
  <2>2. StepsOf(epoch + 1) \in Int
    <3>1. epoch + 1 \in Int
      BY <1>2
    <3> QED BY <3>1, StepsFacts
  <2>3. step = StepsOf(epoch + 1) + 1
    BY <1>2, <2>1, <2>2
  <2> QED BY <1>1, <2>1, <2>3, Kept DEF Exact, StepsOf
<1>12. NoBatchAborts' /\ ScoresDefined'
  BY <1>1 DEF NoBatchAborts, ScoresDefined
<1> QED BY <1>4, <1>5, <1>6, <1>7, <1>8, <1>9, <1>10, <1>11, <1>12 DEF IInv

LEMMA EndStepInv ==
  ASSUME IInv, EndStep, conf' = conf
  PROVE  IInv'
<1>1. /\ step' = step + 1 /\ epoch' = epoch /\ pass' = pass /\ todo' = todo
      /\ passrate' = passrate /\ ref' = ref /\ selected' = selected /\ refMinLen' = refMinLen
      /\ run' = run /\ pc = "save" /\ MaybeSave
      /\ pc' = IF step >= TotalSteps THEN "done" ELSE "batch"
  BY DEF EndStep
<1>2. /\ conf \in Configs /\ run \in Nat /\ run # 0 /\ step \in Nat /\ pass \in Nat /\ pass > 0
      /\ epoch \in Nat /\ epoch < Epochs /\ Epochs \in Nat /\ TotalSteps \in Int
  <2>1. conf \in Configs
    BY DEF IInv, Points
  <2>2. Epochs \in Nat /\ MaxRuns \in Nat /\ TotalSteps \in Int
    BY <2>1, SemiAssumption, StepsFacts
  <2> QED BY <1>1, <2>1, <2>2 DEF IInv, Points, InPass, Trained, Good, Shaped
<1>3. pc' \in {"done", "batch"} /\ (pc' = "batch" => step + 1 <= TotalSteps)
  BY <1>1, <1>2
<1>4. \A p \in Prompts : Level(passrate, todo, p)' = Level(passrate, todo, p)
  BY <1>1, LevelKept
<1>5. Points'
  BY <1>1, <1>2, <1>3, Kept, SavedKept DEF IInv, Points, Ended, InPass
<1>6. Trained'
  BY <1>1, ListsKept
<1>7. Saved'
  BY <1>1, SavedKept
<1>8. Reach'
  BY <1>1, <1>3, <1>4 DEF IInv, Reach, InPass
<1>9. First'
  <2>1. Deep(ref, passrate)' <=> Deep(ref, passrate)
    BY <1>1 DEF Deep
  <2> QED BY <1>1, <1>3, <1>4, <2>1, Kept DEF IInv, First
<1>10. Low'
  BY <1>1, <1>3, <1>4, Kept DEF IInv, Low
<1>11. Behind'
  <2>1. step >= StepsOf(epoch - run + 2) - Len(todo)
    BY <1>1, <1>2 DEF IInv, Behind
  <2>2. epoch - run + 2 \in Int /\ Len(todo) \in Nat
    BY <1>2, LensKept, StepsFacts
  <2>3. StepsOf(epoch - run + 2) \in Int
    BY <2>2, StepsFacts
  <2>4. step + 1 > StepsOf(epoch - run + 2) - Len(todo)
    BY <1>2, <2>1, <2>2, <2>3
  <2> QED BY <1>1, <1>3, <2>4 DEF Behind, StepsOf
<1>12. Exact'
  <2> SUFFICES ASSUME NotResumed PROVE Exact'
    BY <1>1, <1>2, Kept DEF Exact, NotResumed
  <2>1. step = StepsOf(epoch + 1) - Len(todo)
    BY <1>1 DEF IInv, Exact
  <2>2. step + 1 = StepsOf(epoch + 1) - Len(todo) + 1
    BY <2>1
  <2> QED BY <1>1, <1>3, <2>2, Kept DEF Exact, StepsOf
<1>13. NoBatchAborts' /\ ScoresDefined'
  BY <1>3 DEF NoBatchAborts, ScoresDefined
<1> QED BY <1>5, <1>6, <1>7, <1>8, <1>9, <1>10, <1>11, <1>12, <1>13 DEF IInv

\* Whenever the prompts are filtered, warm_up passes have measured them.
LEMMA LongEnough ==
  ASSUME IInv, pc = "batch", todo # <<>>, Semi, Filtering,
         WarmUp >= 3 \/ (run = 1 /\ WarmUp >= 2)
  PROVE  \A p \in Prompts : Len(Measured[p]) >= 2
<1>1. /\ conf \in Configs /\ Good(passrate, ref, pass, todo) /\ pass \in Nat
      /\ epoch \in Nat /\ epoch >= WarmUp /\ WarmUp \in Nat
  <2>1. conf \in Configs
    BY DEF IInv, Points
  <2>2. WarmUp \in Nat
    BY <2>1, SemiAssumption DEF WarmUp
  <2> QED BY <2>1, <2>2 DEF IInv, Points, Trained, Good, Shaped, Filtering
<1>2. ASSUME NEW p \in Prompts PROVE Level(passrate, todo, p) >= 3
  <2>1. Level(passrate, todo, p) \in Nat /\ epoch <= Level(passrate, todo, p)
    BY LensKept DEF IInv, Low
  <2>2. CASE WarmUp >= 3
    BY <1>1, <2>1, <2>2
  <2>3. CASE run = 1 /\ WarmUp >= 2
    <3>1. Level(passrate, todo, p) = pass /\ epoch = pass - 1
      BY <2>3 DEF IInv, First, Semi
    <3> QED BY <1>1, <2>3, <3>1
  <2> QED BY <2>2, <2>3
<1> QED BY <1>1, <1>2, MeasuredTwiceAtLeast

\* What every batch that is measured does.
\* A batch less to come and a step in progress.
LEMMA ExactBatch ==
  ASSUME IInv, conf' = conf, run' = run, step' = step, epoch' = epoch, epoch \in Nat,
         step \in Nat, Len(todo) \in Nat, Len(todo') = Len(todo) - 1,
         pc = "batch", pc' \in {"save", "batch_error", "query_error"}
  PROVE  Exact'
<1> SUFFICES ASSUME NotResumed PROVE Exact'
  BY Kept DEF Exact, NotResumed
<1>1. step = StepsOf(epoch + 1) - Len(todo) + 1
  BY DEF IInv, Exact
<1>2. StepsOf(epoch + 1) \in Int
  <2>1. epoch + 1 \in Int
    OBVIOUS
  <2> QED BY <2>1, StepsFacts
<1>3. step = StepsOf(epoch + 1) - (Len(todo) - 1)
  BY <1>1, <1>2
<1> QED BY <1>3, Kept DEF Exact, StepsOf

LEMMA MeasuredBatch ==
  ASSUME IInv, conf' = conf, ~Supervised, passrate' = Measured,
         NEW point \in {"save", "batch_error", "query_error"}, NextBatch(point),
         ref' \in Lists, \A p \in Prompts : ref'[p] \in {<<>>, ref[p], Measured[p]},
         ref' = ref \/ Filtering, selected' \subseteq Unlabeled, refMinLen' \in Nat
  PROVE  Points' /\ Trained' /\ Saved' /\ Reach' /\ First' /\ Low' /\ Behind' /\ Exact'
<1>1. /\ step' = step /\ epoch' = epoch /\ pass' = pass /\ todo' = Tail(todo) /\ todo # <<>>
      /\ run' = run /\ ckpt' = ckpt /\ pc' = point /\ pc = "batch"
  BY DEF NextBatch
<1>2. /\ conf \in Configs /\ run \in Nat /\ run # 0 /\ step \in Nat /\ pass \in Nat /\ pass > 0
      /\ epoch \in Nat /\ epoch < Epochs /\ Epochs \in Nat
      /\ Good(passrate, ref, pass, todo) /\ passrate \in Lists /\ ref \in Lists
  <2>1. conf \in Configs
    BY DEF IInv, Points
  <2>2. Epochs \in Nat /\ MaxRuns \in Nat
    BY <2>1, SemiAssumption, StepsFacts
  <2> QED BY <1>1, <2>1, <2>2 DEF IInv, Points, InPass, Trained, Good, Shaped
<1>3. ASSUME Semi, WarmUp >= 3 \/ (run = 1 /\ WarmUp >= 2)
      PROVE  ref' = ref \/ \A p \in Prompts : Len(Measured[p]) >= 2
  BY <1>1, <1>3, LongEnough
<1>4. /\ Len(Tail(todo)) = Len(todo) - 1
      /\ \A p \in Prompts : Level(Measured, Tail(todo), p) = Level(passrate, todo, p)
  BY <1>1, <1>2, BatchIs
<1>5. \A p \in Prompts : Level(passrate, todo, p)' = Level(passrate, todo, p)
  BY <1>1, <1>4 DEF Level
<1>6. /\ point \in InPass
      /\ point \notin {"resumed", "down", "initial", "epoch", "batch", "exhausted", "done"}
  BY DEF InPass
<1>7. Points'
  <2>1. conf' \in Configs /\ run' \in 0..MaxRuns /\ epoch' \in 0..Epochs /\ step' \in Nat
    BY <1>1 DEF IInv, Points
  <2> QED BY <1>1, <1>2, <1>6, <2>1, Kept DEF Points, Ended, InPass
<1>8. Trained'
  <2>1. Good(Measured, ref', pass, Tail(todo))
    BY <1>1, <1>2, <1>3, MeasureGood
  <2>2. Good(passrate, ref, pass, todo)'
    BY <1>1, <2>1, GoodKept
  <2>3. ASSUME Semi' PROVE Even(passrate, todo)'
    <3>1. Even(passrate, todo)
      BY <1>2, <2>3, Kept DEF IInv, Trained
    <3>2. Even(Measured, Tail(todo))
      BY <1>1, <1>2, <3>1, MeasureEven
    <3> QED BY <1>1, <3>2, EvenKept
  <2> QED BY <2>2, <2>3 DEF Trained
<1>9. Saved'
  BY <1>1, SavedKept
<1>10. Reach'
  <2>1. \A p \in Prompts : Level(passrate, todo, p) <= epoch + 1
    BY <1>1 DEF IInv, Reach, InPass
  <2> QED BY <1>1, <1>5, <1>6, <2>1 DEF Reach
<1>11. First'
  <2> SUFFICES ASSUME run = 1, FullPasses PROVE First'
    BY <1>1, Kept DEF First
  <2>1. ASSUME NEW p \in Prompts, NEW i \in 1..Len(Measured[p]) PROVE Measured[p][i] = i
    <3> DEFINE old == Len(passrate[p])
    <3>1. old \in Nat /\ Len(Measured[p]) = IF p \in Batch THEN old + 1 ELSE old + 0
      BY <1>2, LenNat, MeasuredIs
    <3>2. \A j \in 1..old : Measured[p][j] = j
      BY <1>2, MeasuredIs DEF IInv, First
    <3>3. p \in Batch => Measured[p][old + 1] = pass /\ old + 1 = pass
      <4> SUFFICES ASSUME p \in Batch PROVE Measured[p][old + 1] = pass /\ old + 1 = pass
        OBVIOUS
      <4>1. p \in Coming(todo)
        BY <1>1, <1>2, BatchIs
      <4>2. Level(passrate, todo, p) = pass
        BY DEF IInv, First
      <4>3. Level(passrate, todo, p) = old + 1
        BY <1>2, <4>1, LevelIs
      <4> QED BY <1>2, <4>2, <4>3, MeasuredIs
    <3> HIDE DEF old
    <3>4. CASE i \in 1..old
      BY <3>2, <3>4
    <3>5. CASE i \notin 1..old
      <4>1. p \in Batch /\ i = old + 1
        BY <3>1, <3>5
      <4> QED BY <3>3, <4>1
    <3> QED BY <3>4, <3>5
  <2>2. ASSUME Semi, WarmUp >= 2 PROVE Deep(ref, passrate)'
    <3>1. Deep(ref, passrate)
      BY <2>2 DEF IInv, First
    <3>2. ref' = ref \/ \A p \in Prompts : Len(Measured[p]) >= 2
      BY <1>3, <2>2
    <3>3. Deep(ref', Measured)
      BY <1>2, <3>1, <3>2, DeepStill
    <3> QED BY <3>3 DEF Deep
  <2>3. epoch = pass - 1 /\ \A p \in Prompts : Level(passrate, todo, p) = pass
    BY <1>1 DEF IInv, First
  <2> QED BY <1>1, <1>5, <1>6, <2>1, <2>2, <2>3, Kept DEF First
<1>12. Low'
  <2>1. ASSUME Semi, NEW p \in Prompts PROVE epoch <= Level(passrate, todo, p)
    BY <1>1, <2>1 DEF IInv, Low
  <2> QED BY <1>1, <1>5, <1>6, <2>1, Kept DEF Low
<1>13. Behind'
  <2>1. step > StepsOf(epoch - run + 2) - Len(todo)
    BY <1>1 DEF IInv, Behind
  <2>2. epoch - run + 2 \in Int /\ Len(todo) \in Nat
    BY <1>2, LensKept, StepsFacts
  <2>3. StepsOf(epoch - run + 2) \in Int
    BY <2>2, StepsFacts
  <2>4. step >= StepsOf(epoch - run + 2) - (Len(todo) - 1)
    BY <1>2, <2>1, <2>2, <2>3
  <2> QED BY <1>1, <1>4, <1>6, <2>4 DEF Behind, StepsOf
<1>14. Exact'
  BY <1>1, <1>2, <1>4, <1>6, ExactBatch
<1> QED BY <1>7, <1>8, <1>9, <1>10, <1>11, <1>12, <1>13, <1>14

LEMMA SupervisedBatchInv ==
  ASSUME IInv, SupervisedBatch, conf' = conf
  PROVE  IInv'
<1>1. /\ step' = step /\ epoch' = epoch /\ pass' = pass /\ todo' = Tail(todo) /\ todo # <<>>
      /\ passrate' = passrate /\ ref' = ref /\ selected' = selected /\ refMinLen' = refMinLen
      /\ run' = run /\ ckpt' = ckpt /\ pc' = "save" /\ pc = "batch" /\ Supervised
  BY DEF SupervisedBatch, NextBatch
<1>2. /\ conf \in Configs /\ run \in Nat /\ run # 0 /\ step \in Nat /\ pass \in Nat /\ pass > 0
      /\ epoch \in Nat /\ epoch < Epochs /\ Epochs \in Nat
      /\ Good(passrate, ref, pass, todo) /\ passrate \in Lists /\ passrate = NoLists
  <2>1. conf \in Configs
    BY DEF IInv, Points
  <2>2. Epochs \in Nat /\ MaxRuns \in Nat
    BY <2>1, SemiAssumption, StepsFacts
  <2> QED BY <1>1, <2>1, <2>2 DEF IInv, Points, InPass, Trained, Good, Shaped
<1>3. Points'
  BY <1>1, <1>2, Kept DEF IInv, Points, Ended, InPass
<1>4. Trained'
  <2>1. Good(passrate, ref, pass, Tail(todo))
    BY <1>1, <1>2, PassedGood
  <2>2. Good(passrate, ref, pass, todo)'
    BY <1>1, <2>1, GoodKept
  <2> QED BY <1>1, <2>2, Kept DEF Trained, Semi
<1>5. Saved'
  BY <1>1, SavedKept
<1>6. Reach'
  <2>1. ASSUME NEW p \in Prompts PROVE Level(passrate, todo, p)' <= epoch + 1
    <3>1. Len(passrate[p]) = 0
      BY <1>2, EmptyLists
    <3>2. Level(passrate, Tail(todo), p) \in {0, 1}
      BY <1>2, <3>1, LevelIs
    <3>3. Level(passrate, todo, p)' = Level(passrate, Tail(todo), p)
      BY <1>1 DEF Level
    <3> QED BY <1>2, <3>2, <3>3
  <2> QED BY <1>1, <2>1 DEF Reach, InPass
<1>7. First'
  BY <1>1, Kept DEF IInv, First, Semi
<1>8. Low'
  BY <1>1, Kept DEF Low, Semi
<1>9. Len(Tail(todo)) = Len(todo) - 1 /\ Len(todo) \in Nat
  BY <1>1, <1>2, BatchIs, LensKept, StepsFacts
<1>10. Behind'
  <2>1. step > StepsOf(epoch - run + 2) - Len(todo)
    BY <1>1 DEF IInv, Behind
  <2>2. epoch - run + 2 \in Int
    BY <1>2
  <2>3. StepsOf(epoch - run + 2) \in Int
    BY <2>2, StepsFacts
  <2>4. step >= StepsOf(epoch - run + 2) - (Len(todo) - 1)
    BY <1>2, <1>9, <2>1, <2>3
  <2> QED BY <1>1, <1>9, <2>4 DEF Behind, StepsOf
<1>11. Exact'
  BY <1>1, <1>2, <1>9, ExactBatch
<1>12. NoBatchAborts' /\ ScoresDefined'
  BY <1>1, Kept DEF NoBatchAborts, ScoresDefined, Filtering
<1> QED BY <1>3, <1>4, <1>5, <1>6, <1>7, <1>8, <1>10, <1>11, <1>12 DEF IInv

LEMMA WarmUpBatchInv ==
  ASSUME IInv, WarmUpBatch, conf' = conf
  PROVE  IInv'
<1>1. /\ NextBatch("save") /\ passrate' = Measured /\ ref' = ref /\ selected' = selected
      /\ refMinLen' = refMinLen /\ ~Supervised /\ epoch < WarmUp
  BY DEF WarmUpBatch
<1>2. ref \in Lists /\ selected \subseteq Unlabeled /\ refMinLen \in Nat
  BY DEF IInv, Points, Trained, Good, Shaped
<1>3. Points' /\ Trained' /\ Saved' /\ Reach' /\ First' /\ Low' /\ Behind' /\ Exact'
  BY <1>1, <1>2, MeasuredBatch
<1>4. NoBatchAborts'
  BY <1>1 DEF NextBatch, NoBatchAborts
<1>5. ScoresDefined'
  <2>1. epoch' = epoch /\ epoch \in Nat /\ WarmUp \in Nat
    BY <1>1, SemiAssumption DEF NextBatch, IInv, Points, WarmUp
  <2> QED BY <1>1, <2>1, Kept DEF ScoresDefined, Filtering
<1> QED BY <1>3, <1>4, <1>5 DEF IInv

LEMMA FilteredBatchInv ==
  ASSUME IInv, FilteredBatch, conf' = conf
  PROVE  IInv'
<1>1. /\ NextBatch("save") /\ passrate' = Measured /\ refMinLen' = DbMinLen /\ Filtering
      /\ ~Supervised /\ Batch \cap Labeled # {} /\ pc = "batch" /\ todo # <<>>
      /\ run' = run /\ pc' = "save" /\ epoch' = epoch
  BY DEF FilteredBatch, Filtering, NextBatch, OneSided
<1>2. /\ conf \in Configs /\ Good(passrate, ref, pass, todo)
      /\ passrate \in Lists /\ ref \in Lists /\ pass \in Nat
  BY DEF IInv, Points, Trained, Good, Shaped
<1>3. DbMinLen \in Nat
  BY <1>1, <1>2, DbMinLenIs
<1>4. ref' \in Lists /\ \A p \in Prompts : ref'[p] \in {<<>>, ref[p], Measured[p]}
  <2>1. ref' = LabeledRefs \/ \E sel, lost : ref' = Inserted(LabeledRefs, Measured, sel, lost)
    BY DEF FilteredBatch
  <2> QED BY <1>2, <2>1, RefChange
<1>5. selected' \subseteq Unlabeled
  BY DEF FilteredBatch, BatchU
<1>6. Points' /\ Trained' /\ Saved' /\ Reach' /\ First' /\ Low' /\ Behind' /\ Exact'
  BY <1>1, <1>3, <1>4, <1>5, MeasuredBatch
<1>7. NoBatchAborts'
  BY <1>1 DEF NoBatchAborts
<1>8. ScoresDefined'
  <2> SUFFICES ASSUME FullPasses, WarmUp >= 3 \/ (run = 1 /\ WarmUp >= 2) PROVE DbMinLen >= 2
    <3>1. WarmUp >= (IF run = 1 THEN 2 ELSE 3) => WarmUp >= 3 \/ (run = 1 /\ WarmUp >= 2)
      OBVIOUS
    <3> QED BY <1>1, <3>1, Kept DEF ScoresDefined
  <2>1. Semi
    BY <1>1 DEF Semi
  <2>2. Deep(ref, passrate)
    BY <1>2, <2>1 DEF IInv, First, Good
  <2>3. \A p \in Prompts : Len(Measured[p]) >= 2
    BY <1>1, <2>1, LongEnough
  <2> QED BY <1>1, <1>2, <2>2, <2>3, LongReferences
<1> QED BY <1>6, <1>7, <1>8 DEF IInv

LEMMA FailingBatchInv ==
  ASSUME IInv, FailingBatch, conf' = conf
  PROVE  IInv'
<1>1. /\ ~Supervised /\ passrate' = Measured /\ selected' = selected /\ refMinLen' = refMinLen
      /\ \/ NextBatch("batch_error") /\ OneSided /\ ref' = ref
         \/ NextBatch("query_error") /\ Filtering /\ ShortQuery /\ ref' = LabeledRefs
  BY DEF FailingBatch
<1>2. /\ conf \in Configs /\ Good(passrate, ref, pass, todo) /\ passrate \in Lists /\ ref \in Lists
      /\ pass \in Nat /\ selected \subseteq Unlabeled /\ refMinLen \in Nat
  BY DEF IInv, Points, Trained, Good, Shaped
<1>3. /\ LabeledRefs \in Lists
      /\ \A p \in Prompts : LabeledRefs[p] \in {<<>>, ref[p], Measured[p]}
  BY <1>2, RefChange
<1>4. Points' /\ Trained' /\ Saved' /\ Reach' /\ First' /\ Low' /\ Behind' /\ Exact'
  <2>1. CASE NextBatch("batch_error") /\ ref' = ref
    BY <1>1, <1>2, <2>1, MeasuredBatch
  <2>2. CASE NextBatch("query_error") /\ Filtering /\ ref' = LabeledRefs
    BY <1>1, <1>2, <1>3, <2>2, MeasuredBatch
  <2> QED BY <1>1, <2>1, <2>2
<1>5. NoBatchAborts'
  <2> SUFFICES ASSUME FullPasses, BothSides PROVE FALSE
    BY Kept DEF NoBatchAborts
  <2>1. pc = "batch" /\ todo # <<>>
    BY <1>1 DEF NextBatch
  <2>2. Semi /\ pass > 0
    BY <1>1, <2>1 DEF Semi, IInv, Points, InPass
  <2>3. Even(passrate, todo)
    BY <2>2 DEF IInv, Trained
  <2> QED BY <1>1, <1>2, <2>1, <2>2, <2>3, QueriesCover
<1>6. ScoresDefined'
  BY <1>1 DEF NextBatch, ScoresDefined
<1> QED BY <1>4, <1>5, <1>6 DEF IInv

-----------------------------------------------------------------------------
\* The loop of copy_dict_with_validation.

\* A set of naturals that has 0, and n + 1 with n, has every natural.
LEMMA NaturalsIn ==
  ASSUME NEW T, 0 \in T, \A n \in Nat : n \in T => n + 1 \in T
  PROVE  \A n \in Nat : n \in T
<1> SUFFICES ASSUME Nat \ T # {} PROVE FALSE
  OBVIOUS
<1> DEFINE Less == OpToRel(<, Nat)
<1>1. IsWellFoundedOn(Less, Nat)
  BY NatLessThanWellFounded
<1>2. \A x, y \in Nat : <<y, x>> \in Less <=> y < x
  BY DEF OpToRel
<1> HIDE DEF Less
<1>3. Nat \ T \subseteq Nat
  OBVIOUS
<1>4. PICK m \in Nat \ T : \A k \in Nat \ T : <<k, m>> \notin Less
  BY <1>1, <1>3, WFMin
<1>5. m # 0 /\ m - 1 \in Nat /\ m - 1 < m
  BY <1>4
<1>6. m - 1 \in T
  BY <1>2, <1>4, <1>5
<1> QED BY <1>4, <1>5, <1>6

\* The first i prompts of an order.
Past(order, i) == {order[j] : j \in 1..i}

\* order has the members of sel, each once.
Enumerates(order, n, sel) ==
  /\ n \in Nat /\ order \in [1..n -> sel]
  /\ \A i, j \in 1..n : order[i] = order[j] => i = j
  /\ Past(order, n) = sel

\* The loop of copy_dict_with_validation: d[i] is the database after i turns.
Turns(d, db, new, order, n) ==
  d[0] = db /\ \A i \in 1..n : d[i] = Insert(d[i - 1], new, order[i])

\* One turn more, when an entry has been met before.
LEMMA InsertLater ==
  ASSUME NEW db, NEW new, NEW sel \in SUBSET Unlabeled, NEW u \in Unlabeled \ sel,
         sel \cap Keys(db) # {}, NEW lost \in SUBSET (sel \ Keys(db))
  PROVE  Insert(Inserted(db, new, sel, lost), new, u) = Inserted(db, new, sel \cup {u}, lost)
<1> DEFINE d == Inserted(db, new, sel, lost)
           e == Inserted(db, new, sel \cup {u}, lost)
<1>1. u \in Prompts /\ u \notin lost /\ (sel \cup {u}) \cap Keys(db) # {}
  BY DEF Prompts
<1>2. d[u] = <<>>
  BY <1>1 DEF Inserted
<1>3. Insert(d, new, u) = [p \in Prompts |-> IF p = u THEN new[u] ELSE d[p]]
  BY <1>2 DEF Insert
<1>4. ASSUME NEW p \in Prompts PROVE e[p] = IF p = u THEN new[u] ELSE d[p]
  BY <1>1 DEF Inserted
<1>5. e = [p \in Prompts |-> e[p]]
  BY DEF Inserted
<1> HIDE DEF d, e
<1>6. Insert(d, new, u) = e
  BY <1>3, <1>4, <1>5
<1> QED BY <1>6 DEF d, e

\* One turn more, when none has been met yet: an entry empties what is there.
LEMMA InsertEarly ==
  ASSUME NEW db, NEW new, NEW sel \in SUBSET Unlabeled, NEW u \in Unlabeled \ sel,
         sel \cap Keys(db) = {}
  PROVE  Insert(Inserted(db, new, sel, {}), new, u)
           = Inserted(db, new, sel \cup {u}, IF u \in Keys(db) THEN sel ELSE {})
<1> DEFINE lost == IF u \in Keys(db) THEN sel ELSE {}
           d == Inserted(db, new, sel, {})
           e == Inserted(db, new, sel \cup {u}, lost)
<1>1. u \in Prompts /\ u \notin lost /\ sel \subseteq Prompts
  BY DEF Prompts
<1>2. d[u] = db[u]
  BY <1>1 DEF Inserted
<1>3. d[u] # <<>> <=> u \in Keys(db)
  BY <1>1, <1>2 DEF Keys
<1>4. Insert(d, new, u) = [p \in Prompts |-> IF p = u THEN new[u]
                                             ELSE IF p \in Unlabeled /\ u \in Keys(db) THEN <<>> ELSE d[p]]
  BY <1>3 DEF Insert
<1>5. ASSUME NEW p \in Prompts
      PROVE  e[p] = IF p = u THEN new[u] ELSE IF p \in Unlabeled /\ u \in Keys(db) THEN <<>> ELSE d[p]
  <2>1. CASE u \in Keys(db)
    <3>1. (sel \cup {u}) \cap Keys(db) # {} /\ lost = sel
      BY <2>1
    <3>2. d[p] = IF p \in sel THEN new[p] ELSE db[p]
      BY DEF Inserted
    <3>3. e[p] = IF p = u THEN new[p] ELSE IF p \in Unlabeled THEN <<>> ELSE db[p]
      BY <3>1 DEF Inserted
    <3> QED BY <2>1, <3>2, <3>3
  <2>2. CASE u \notin Keys(db)
    <3>1. (sel \cup {u}) \cap Keys(db) = {} /\ lost = {}
      BY <2>2
    <3>2. d[p] = IF p \in sel THEN new[p] ELSE db[p]
      BY DEF Inserted
    <3>3. e[p] = IF p \in sel \cup {u} THEN new[p] ELSE db[p]
      BY <3>1 DEF Inserted
    <3> QED BY <2>2, <3>2, <3>3
  <2> QED BY <2>1, <2>2
<1>6. e = [p \in Prompts |-> e[p]]
  BY DEF Inserted
<1> HIDE DEF d, e
<1>7. Insert(d, new, u) = e
  BY <1>4, <1>5, <1>6
<1> QED BY <1>7 DEF d, e

\* An insertion with no prompts leaves the database.
LEMMA InsertNone ==
  ASSUME NEW db, NEW new, db = [p \in Prompts |-> db[p]]
  PROVE  Inserted(db, new, {}, {}) = db
BY DEF Inserted

\* What is gone through up to i, and one further.
LEMMA PastStep ==
  ASSUME NEW sel, NEW n, NEW order, Enumerates(order, n, sel), NEW i \in Nat, i + 1 \in 1..n
  PROVE  /\ Past(order, i) \in SUBSET sel
         /\ order[i + 1] \in sel \ Past(order, i)
         /\ Past(order, i + 1) = Past(order, i) \cup {order[i + 1]}
<1>1. n \in Nat /\ order \in [1..n -> sel] /\ \A j, k \in 1..n : order[j] = order[k] => j = k
  BY DEF Enumerates
<1>2. 1..i \subseteq 1..n /\ i + 1 \notin 1..i /\ 1..(i + 1) = 1..i \cup {i + 1}
  BY <1>1
<1>3. order[i + 1] \notin Past(order, i)
  BY <1>1, <1>2 DEF Past
<1>4. Past(order, i + 1) = Past(order, i) \cup {order[i + 1]}
  BY <1>2 DEF Past
<1>5. Past(order, i) \subseteq sel
  BY <1>1, <1>2 DEF Past
<1> QED BY <1>1, <1>3, <1>4, <1>5

\* The loop ends in one of the databases that Inserted gives.
LEMMA LoopEnds ==
  ASSUME NEW db, NEW new, db = [p \in Prompts |-> db[p]],
         NEW sel \in SUBSET Unlabeled, NEW n, NEW order, Enumerates(order, n, sel),
         NEW d, Turns(d, db, new, order, n)
  PROVE  \E lost \in MayBeLost(db, sel) : d[n] = Inserted(db, new, sel, lost)
<1> DEFINE Closed(i) == \E lost \in MayBeLost(db, Past(order, i)) : d[i] = Inserted(db, new, Past(order, i), lost)
           T == {i \in Nat : i <= n => Closed(i)}
<1>0. n \in Nat /\ Past(order, n) = sel
  BY DEF Enumerates
<1>1. Closed(0)
  <2>1. Past(order, 0) = {}
    BY DEF Past
  <2>2. {} \in MayBeLost(db, {})
    BY DEF MayBeLost
  <2> QED BY <2>1, <2>2, InsertNone DEF Turns
<1>2. ASSUME NEW i \in Nat, i + 1 <= n, Closed(i) PROVE Closed(i + 1)
  <2>1. PICK past : past = Past(order, i)
    OBVIOUS
  <2>2. PICK u : u = order[i + 1]
    OBVIOUS
  <2>3. PICK lost \in MayBeLost(db, past) : d[i] = Inserted(db, new, past, lost)
    BY <1>2, <2>1
  <2>4. i + 1 \in 1..n
    BY <1>0, <1>2
  <2>5. past \in SUBSET Unlabeled /\ u \in Unlabeled \ past /\ Past(order, i + 1) = past \cup {u}
    BY <2>1, <2>2, <2>4, PastStep
  <2>6. d[i + 1] = Insert(d[i], new, u)
    <3>1. d[i + 1] = Insert(d[i + 1 - 1], new, u)
      BY <2>2, <2>4 DEF Turns
    <3>2. i + 1 - 1 = i
      OBVIOUS
    <3> QED BY <3>1, <3>2
  <2>7. CASE past \cap Keys(db) # {}
    <3>1. lost \in SUBSET (past \ Keys(db))
      BY <2>3, <2>7 DEF MayBeLost
    <3>2. d[i + 1] = Inserted(db, new, past \cup {u}, lost)
      BY <2>3, <2>5, <2>6, <2>7, <3>1, InsertLater
    <3>3. lost \in MayBeLost(db, past \cup {u})
      BY <2>7, <3>1 DEF MayBeLost
    <3> QED BY <2>5, <3>2, <3>3
  <2>8. CASE past \cap Keys(db) = {}
    <3>1. lost = {}
      BY <2>3, <2>8 DEF MayBeLost
    <3>2. PICK more : more = IF u \in Keys(db) THEN past ELSE {}
      OBVIOUS
    <3>3. d[i + 1] = Inserted(db, new, past \cup {u}, more)
      BY <2>3, <2>5, <2>6, <2>8, <3>1, <3>2, InsertEarly
    <3>4. more \in MayBeLost(db, past \cup {u})
      BY <2>8, <3>2 DEF MayBeLost
    <3> QED BY <2>5, <3>3, <3>4
  <2> QED BY <2>7, <2>8
<1>3. 0 \in T
  BY <1>1
<1>4. \A i \in Nat : i \in T => i + 1 \in T
  <2> SUFFICES ASSUME NEW i \in Nat, i \in T PROVE i + 1 \in T
    OBVIOUS
  <2> HIDE DEF Closed
  <2>1. i + 1 <= n => i <= n
    BY <1>0
  <2>2. i + 1 <= n => Closed(i + 1)
    BY <1>2, <2>1
  <2> QED BY <2>2
<1> HIDE DEF T
<1>5. n \in T
  BY <1>0, <1>3, <1>4, NaturalsIn
<1> USE DEF T
<1>6. Closed(n)
  <2> HIDE DEF Closed
  <2> QED BY <1>0, <1>5
<1> QED BY <1>0, <1>6

\* The first of an order that db has an entry of is at a + 1, and those before it are lost.
LostAt(order, n, a, lost, db) ==
  \/ a = n /\ lost = {}
  \/ a + 1 \in 1..n /\ order[a + 1] \in Keys(db) /\ lost = Past(order, a)

LEMMA LoopDoes ==
  ASSUME NEW db, NEW new, db = [p \in Prompts |-> db[p]],
         NEW sel \in SUBSET Unlabeled, NEW n, NEW order, Enumerates(order, n, sel),
         NEW a \in Nat, Past(order, a) \cap Keys(db) = {},
         NEW lost, LostAt(order, n, a, lost, db)
  PROVE  \E d : Turns(d, db, new, order, n) /\ d[n] = Inserted(db, new, sel, lost)
<1> DEFINE Gone(i) == IF i <= a THEN {} ELSE lost
           After(i) == Inserted(db, new, Past(order, i), Gone(i))
<1>0. /\ n \in Nat /\ a <= n /\ Past(order, n) = sel
      /\ \/ a = n /\ lost = {}
         \/ a + 1 \in 1..n /\ order[a + 1] \in Keys(db) /\ lost = Past(order, a)
  BY DEF Enumerates, LostAt
<1>1. After(0) = db
  <2>1. Past(order, 0) = {} /\ Gone(0) = {}
    BY DEF Past
  <2> QED BY <2>1, InsertNone
<1>2. ASSUME NEW i \in Nat, i + 1 \in 1..n
      PROVE  After(i + 1) = Insert(After(i), new, order[i + 1])
  <2>1. PICK past : past = Past(order, i)
    OBVIOUS
  <2>2. PICK u : u = order[i + 1]
    OBVIOUS
  <2>3. past \in SUBSET Unlabeled /\ u \in Unlabeled \ past /\ Past(order, i + 1) = past \cup {u}
    BY <1>2, <2>1, <2>2, PastStep
  <2>4. CASE i <= a
    <3>1. past \cap Keys(db) = {}
      <4>1. 1..i \subseteq 1..a
        BY <2>4
      <4>2. past \subseteq Past(order, a)
        BY <2>1, <4>1 DEF Past
      <4> QED BY <4>2
    <3>2. PICK more : more = IF u \in Keys(db) THEN past ELSE {}
      OBVIOUS
    <3>3. Insert(Inserted(db, new, past, {}), new, u) = Inserted(db, new, past \cup {u}, more)
      BY <2>3, <3>1, <3>2, InsertEarly
    <3>4. Gone(i) = {}
      BY <2>4
    <3>5. Gone(i + 1) = more
      <4>1. CASE i + 1 <= a
        <5>1. u \in Past(order, a)
          BY <2>2, <4>1 DEF Past
        <5>2. u \notin Keys(db)
          BY <5>1
        <5> QED BY <3>2, <4>1, <5>2
      <4>2. CASE ~(i + 1 <= a)
        <5>1. i = a /\ a + 1 \in 1..n /\ a # n
          BY <1>0, <1>2, <2>4, <4>2
        <5>2. u \in Keys(db) /\ lost = past
          BY <1>0, <2>1, <2>2, <5>1
        <5> QED BY <3>2, <4>2, <5>2
      <4> QED BY <4>1, <4>2
    <3> HIDE DEF Gone
    <3> QED BY <2>1, <2>2, <2>3, <3>3, <3>4, <3>5
  <2>5. CASE ~(i <= a)
    <3>1. a + 1 \in 1..i /\ a # n
      BY <1>0, <1>2, <2>5
    <3>2. order[a + 1] \in past /\ order[a + 1] \in Keys(db)
      BY <1>0, <2>1, <3>1 DEF Past
    <3>3. lost \in SUBSET (past \ Keys(db))
      <4>1. 1..a \subseteq 1..i
        BY <3>1
      <4>2. Past(order, a) \subseteq past
        BY <2>1, <4>1 DEF Past
      <4> QED BY <1>0, <3>1, <4>2
    <3>4. Insert(Inserted(db, new, past, lost), new, u) = Inserted(db, new, past \cup {u}, lost)
      <4>1. past \cap Keys(db) # {}
        BY <3>2
      <4> QED BY <2>3, <3>3, <4>1, InsertLater
    <3>5. Gone(i) = lost /\ Gone(i + 1) = lost
      BY <2>5
    <3> HIDE DEF Gone
    <3> QED BY <2>1, <2>2, <2>3, <3>4, <3>5
  <2> QED BY <2>4, <2>5
<1>3. After(n) = Inserted(db, new, sel, lost)
  BY <1>0
<1> DEFINE d == [i \in 0..n |-> After(i)]
<1>4. \A i \in 0..n : d[i] = After(i)
  OBVIOUS
<1> HIDE DEF After
<1>5. Turns(d, db, new, order, n)
  <2>1. d[0] = db
    BY <1>0, <1>1, <1>4
  <2>2. ASSUME NEW i \in 1..n PROVE d[i] = Insert(d[i - 1], new, order[i])
    <3>1. PICK j \in Nat : j = i - 1
      OBVIOUS
    <3>2. i = j + 1 /\ j \in 0..n /\ i \in 0..n
      BY <1>0, <3>1
    <3>3. After(j + 1) = Insert(After(j), new, order[j + 1])
      BY <1>2, <3>2
    <3> QED BY <1>4, <3>1, <3>2, <3>3
  <2> QED BY <2>1, <2>2 DEF Turns
<1>6. d[n] = Inserted(db, new, sel, lost)
  BY <1>0, <1>3, <1>4
<1> QED BY <1>5, <1>6

LEMMA HasOrder ==
  ASSUME NEW S, IsFiniteSet(S)
  PROVE  \E n, order : Enumerates(order, n, S)
<1>1. PICK n \in Nat : ExistsBijection(1..n, S)
  BY FS_NatBijection
<1>2. PICK f : f \in Bijection(1..n, S)
  BY <1>1 DEF ExistsBijection
<1>3. /\ f \in [1..n -> S]
      /\ \A i, j \in 1..n : f[i] = f[j] => i = j
      /\ \A s \in S : \E i \in 1..n : f[i] = s
  BY <1>2 DEF Bijection, Injection, Surjection, IsInjective
<1>4. Past(f, n) = S
  BY <1>3 DEF Past
<1> QED BY <1>3, <1>4 DEF Enumerates

\* Of a set with the members of some part first.
LEMMA HasOrderFrom ==
  ASSUME NEW S, IsFiniteSet(S), NEW A \in SUBSET S, NEW k \in S \ A
  PROVE  \E n, order, a : /\ Enumerates(order, n, S) /\ a \in Nat /\ a + 1 \in 1..n
                          /\ Past(order, a) = A /\ order[a + 1] = k
<1>1. PICK a, f : Enumerates(f, a, A)
  <2>1. IsFiniteSet(A)
    BY FS_Subset
  <2> QED BY <2>1, HasOrder
<1>2. PICK B : B = S \ (A \cup {k})
  OBVIOUS
<1>3. PICK b, g : Enumerates(g, b, B)
  <2>1. IsFiniteSet(B)
    BY <1>2, FS_Subset
  <2> QED BY <2>1, HasOrder
<1>4. /\ a \in Nat /\ f \in [1..a -> A] /\ \A i, j \in 1..a : f[i] = f[j] => i = j
      /\ \A s \in A : \E i \in 1..a : f[i] = s
  BY <1>1 DEF Enumerates, Past
<1>5. /\ b \in Nat /\ g \in [1..b -> B] /\ \A i, j \in 1..b : g[i] = g[j] => i = j
      /\ \A s \in B : \E i \in 1..b : g[i] = s
  BY <1>3 DEF Enumerates, Past
<1>6. PICK n \in Nat : n = a + 1 + b
  BY <1>4, <1>5
<1> DEFINE order == [i \in 1..n |-> IF i <= a THEN f[i] ELSE IF i = a + 1 THEN k ELSE g[i - (a + 1)]]
<1>7. /\ \A i \in 1..a : i \in 1..n /\ order[i] = f[i] /\ order[i] \in A
      /\ a + 1 \in 1..n /\ order[a + 1] = k
      /\ \A i \in 1..b : i + (a + 1) \in 1..n /\ order[i + (a + 1)] = g[i]
  BY <1>4, <1>5, <1>6
<1>8. \A i \in 1..n : \/ i \in 1..a
                      \/ i = a + 1
                      \/ i > a + 1 /\ i - (a + 1) \in 1..b /\ order[i] = g[i - (a + 1)] /\ order[i] \in B
  BY <1>4, <1>5, <1>6
<1>9. order \in [1..n -> S]
  <2>1. \A i \in 1..n : order[i] \in S
    BY <1>2, <1>7, <1>8
  <2> QED BY <2>1
<1> HIDE DEF order
<1>10. A \cap B = {} /\ k \notin A /\ k \notin B
  BY <1>2
<1>11. ASSUME NEW i \in 1..n, NEW j \in 1..n, order[i] = order[j] PROVE i = j
  <2>1. CASE i \in 1..a
    <3>1. j \in 1..a
      BY <1>7, <1>8, <1>10, <1>11, <2>1
    <3> QED BY <1>4, <1>7, <1>11, <2>1, <3>1
  <2>2. CASE i = a + 1
    BY <1>7, <1>8, <1>10, <1>11, <2>2
  <2>3. CASE i > a + 1 /\ i - (a + 1) \in 1..b /\ order[i] = g[i - (a + 1)] /\ order[i] \in B
    <3>1. j - (a + 1) \in 1..b /\ order[j] = g[j - (a + 1)]
      BY <1>7, <1>8, <1>10, <1>11, <2>3
    <3>2. i - (a + 1) = j - (a + 1)
      BY <1>5, <1>11, <2>3, <3>1
    <3> QED BY <1>4, <3>2
  <2> QED BY <1>8, <2>1, <2>2, <2>3
<1>12. Past(order, a) = A
  <2>1. \A s \in A : \E i \in 1..a : order[i] = s
    BY <1>4, <1>7
  <2> QED BY <1>7, <2>1 DEF Past
<1>13. Past(order, n) = S
  <2>1. \A s \in S : \E i \in 1..n : order[i] = s
    <3> TAKE s \in S
    <3>1. CASE s \in A
      BY <1>4, <1>7, <3>1
    <3>2. CASE s = k
      BY <1>7, <3>2
    <3>3. CASE s \in B
      <4>1. PICK i \in 1..b : g[i] = s
        BY <1>5, <3>3
      <4> QED BY <1>7, <4>1
    <3> QED BY <1>2, <3>1, <3>2, <3>3
  <2> QED BY <1>9, <2>1 DEF Past
<1>14. Enumerates(order, n, S)
  BY <1>6, <1>9, <1>11, <1>13 DEF Enumerates
<1> QED BY <1>4, <1>7, <1>12, <1>14

\* Every one of them is reached, with some order.
LEMMA LoopReaches ==
  ASSUME NEW db, NEW new, db = [p \in Prompts |-> db[p]],
         NEW sel \in SUBSET Unlabeled, IsFiniteSet(sel), NEW lost \in MayBeLost(db, sel)
  PROVE  \E n, order, d : /\ Enumerates(order, n, sel) /\ Turns(d, db, new, order, n)
                          /\ d[n] = Inserted(db, new, sel, lost)
<1>1. CASE sel \cap Keys(db) = {}
  <2>1. lost = {}
    BY <1>1 DEF MayBeLost
  <2>2. PICK n, order : Enumerates(order, n, sel)
    BY HasOrder
  <2>3. PICK a \in Nat : a = n
    BY <2>2 DEF Enumerates
  <2>4. Past(order, a) \cap Keys(db) = {} /\ LostAt(order, n, a, lost, db)
    BY <1>1, <2>1, <2>2, <2>3 DEF Enumerates, LostAt
  <2>5. \E d : Turns(d, db, new, order, n) /\ d[n] = Inserted(db, new, sel, lost)
    BY <2>2, <2>4, LoopDoes
  <2> QED BY <2>2, <2>5
<1>2. CASE sel \cap Keys(db) # {}
  <2>1. lost \in SUBSET sel /\ lost \cap Keys(db) = {}
    BY <1>2 DEF MayBeLost
  <2>2. PICK k \in sel : k \in Keys(db)
    BY <1>2
  <2>3. PICK n, order, a : /\ Enumerates(order, n, sel) /\ a \in Nat /\ a + 1 \in 1..n
                           /\ Past(order, a) = lost /\ order[a + 1] = k
    <3>1. k \in sel \ lost
      BY <2>1, <2>2
    <3> QED BY <2>1, <3>1, HasOrderFrom
  <2>4. Past(order, a) \cap Keys(db) = {}
    BY <2>1, <2>3
  <2>5. LostAt(order, n, a, lost, db)
    BY <2>2, <2>3 DEF LostAt
  <2>6. \E d : Turns(d, db, new, order, n) /\ d[n] = Inserted(db, new, sel, lost)
    <3>1. Enumerates(order, n, sel) /\ a \in Nat
      BY <2>3
    <3> QED BY <2>4, <2>5, <3>1, LoopDoes
  <2> QED BY <2>3, <2>6
<1> QED BY <1>1, <1>2

-----------------------------------------------------------------------------
\* The theorems.

LEMMA Inductive == SafeSpec => []IInv
<1>1. Init => IInv
  BY InitInv
<1>2. IInv /\ [Next]_vars => IInv'
  <2> SUFFICES ASSUME IInv, [Next]_vars PROVE IInv'
    OBVIOUS
  <2>1. CASE Load
    BY <2>1, StartFreshInv, StartFromCheckpointInv, StartFailsInv DEF Load
  <2>2. CASE Crash
    BY <2>2, CrashInv
  <2>3. CASE Fit
    <3>1. conf' = conf
      BY <2>3 DEF Fit
    <3>2. CASE EnterLoop
      BY <3>1, <3>2, EnterLoopInv
    <3>3. CASE NextEpoch
      BY <3>1, <3>3, NewPassInv DEF NextEpoch
    <3>4. CASE ResumedEpoch
      BY <3>1, <3>4, ResumedEpochInv
    <3>5. CASE NoEpochLeft
      BY <3>1, <3>5, NoEpochLeftInv
    <3>6. CASE EndPass
      BY <3>1, <3>6, EndPassInv
    <3>7. CASE SupervisedBatch
      BY <3>1, <3>7, SupervisedBatchInv
    <3>8. CASE WarmUpBatch
      BY <3>1, <3>8, WarmUpBatchInv
    <3>9. CASE FilteredBatch
      BY <3>1, <3>9, FilteredBatchInv
    <3>10. CASE FailingBatch
      BY <3>1, <3>10, FailingBatchInv
    <3>11. CASE EndStep
      BY <3>1, <3>11, EndStepInv
    <3> QED BY <2>3, <3>2, <3>3, <3>4, <3>5, <3>6, <3>7, <3>8, <3>9, <3>10, <3>11 DEF Fit
  <2>4. CASE UNCHANGED vars
    <3>1. /\ conf' = conf /\ pc' = pc /\ run' = run /\ step' = step /\ epoch' = epoch
          /\ pass' = pass /\ todo' = todo /\ passrate' = passrate /\ ref' = ref
          /\ selected' = selected /\ refMinLen' = refMinLen /\ ckpt' = ckpt
      BY <2>4 DEF vars, memory
    <3>2. Points' /\ Exact' /\ NoBatchAborts'
      BY <3>1, Kept DEF IInv, Points, Exact, NotResumed, NoBatchAborts, StepsOf
    <3>3. Reach' /\ Low'
      BY <3>1, Kept DEF IInv, Reach, Level, Low
    <3>4. First' /\ Behind' /\ ScoresDefined'
      BY <3>1, Kept DEF IInv, First, Deep, Level, Behind, ScoresDefined, Filtering, StepsOf
    <3> QED BY <3>1, <3>2, <3>3, <3>4, ListsKept, SavedKept DEF IInv
  <2> QED BY <2>1, <2>2, <2>3, <2>4 DEF Next, Halt
<1> QED BY <1>1, <1>2, PTL DEF SafeSpec

\* The state of fit and the checkpoint have their types in every run: epochs never run
\* past total_epochs and what is saved can be restored.
THEOREM TypeCorrect == SafeSpec => []TypeOK
<1>1. ASSUME NEW t, Suffix(t) \/ t = <<>> PROVE t \in Ordered \cup {<<>>}
  BY <1>1 DEF Suffix, Ordered
<1>2. ASSUME NEW lists, NEW db, NEW n, NEW rest, Good(lists, db, n, rest)
      PROVE  n \in Nat /\ rest \in Ordered \cup {<<>>} /\ lists \in Lists /\ db \in Lists
  <2>1. Suffix(rest) \/ rest = <<>>
    BY <1>2 DEF Good, Shaped
  <2>2. rest \in Ordered \cup {<<>>}
    BY <1>1, <2>1
  <2> QED BY <1>2, <2>2 DEF Good, Shaped
<1>3. IInv => TypeOK
  <2> SUFFICES ASSUME IInv PROVE TypeOK
    OBVIOUS
  <2>1. Snapshot \in States
    BY <1>2 DEF IInv, Trained, Points, Snapshot, States
  <2>2. ckpt # NoCheckpoint => ckpt \in States
    <3> SUFFICES ASSUME ckpt # NoCheckpoint PROVE ckpt \in States
      OBVIOUS
    <3>1. /\ ckpt = [step |-> ckpt.step, pass |-> ckpt.pass, todo |-> ckpt.todo,
                     passrate |-> ckpt.passrate, ref |-> ckpt.ref]
          /\ ckpt.step \in Nat /\ Good(ckpt.passrate, ckpt.ref, ckpt.pass, ckpt.todo)
      BY DEF IInv, Saved, Fields
    <3>2. /\ ckpt.pass \in Nat /\ ckpt.todo \in Ordered \cup {<<>>}
          /\ ckpt.passrate \in Lists /\ ckpt.ref \in Lists
      BY <1>2, <3>1
    <3> QED BY <3>1, <3>2 DEF States
  <2> QED BY <2>1, <2>2 DEF IInv, Points, TypeOK
<1> QED BY <1>3, Inductive, PTL

\* The entries of a trajectory are of increasing passes, through any restarts; before the
\* first restart the i-th entry, here and in the reference database, is of the i-th pass.
THEOREM TrajectoriesAligned == SafeSpec => []Aligned
<1>1. IInv => Aligned
  <2> SUFFICES ASSUME IInv PROVE Aligned
    OBVIOUS
  <2>1. ASSUME NEW p \in Prompts, NEW i \in 1..Len(passrate[p]) - 1
        PROVE  passrate[p][i] < passrate[p][i + 1]
    <3> DEFINE length == Len(passrate[p])
    <3>1. length \in Nat
      BY LensKept
    <3>2. i \in 1..length - 1
      OBVIOUS
    <3> HIDE DEF length
    <3>3. i + 1 \in 1..length /\ i + 1 > 1 /\ (i + 1) - 1 = i
      BY <3>1, <3>2
    <3>4. passrate[p][(i + 1) - 1] < passrate[p][i + 1]
      BY <3>3 DEF IInv, Trained, Good, Chronological, length
    <3> QED BY <3>3, <3>4
  <2>2. ASSUME run = 1, FullPasses, NEW p \in Prompts
        PROVE  /\ \A i \in 1..Len(passrate[p]) : passrate[p][i] = i
               /\ \A i \in 1..Len(ref[p]) : ref[p][i] = i
    <3>1. \A i \in 1..Len(passrate[p]) : passrate[p][i] = i
      BY <2>2 DEF IInv, First
    <3>2. /\ ref[p] \in Seq(Nat) /\ passrate[p] \in Seq(Nat)
          /\ Len(ref[p]) \in Nat /\ Len(passrate[p]) \in Nat
      BY LensKept, LenNat
    <3>3. Len(ref[p]) <= Len(passrate[p]) /\ \A i \in 1..Len(ref[p]) : ref[p][i] = passrate[p][i]
      BY <3>2, PrefixIs DEF IInv, Trained, Good, Copied
    <3> QED BY <3>1, <3>2, <3>3, SMTT(30)
  <2> QED BY <2>1, <2>2 DEF Aligned
<1> QED BY <1>1, Inductive, PTL

\* The lists of pass rates differ in length by one at most, and by two after a restart.
THEOREM ListsEven == SafeSpec => []EvenLists
<1>1. IInv => EvenLists
  <2> SUFFICES ASSUME IInv, FullPasses, NEW p \in Keys(passrate), NEW q \in Keys(passrate)
               PROVE  Len(passrate[p]) - Len(passrate[q]) <= IF run = 1 THEN 1 ELSE 2
    BY DEF EvenLists, SpreadWithin
  <2>1. p \in Prompts /\ q \in Prompts /\ passrate[p] # <<>>
    BY DEF Keys
  <2>2. \A r \in {p, q} : /\ Len(passrate[r]) \in Nat /\ Level(passrate, todo, r) \in Nat
                          /\ Len(passrate[r]) <= Level(passrate, todo, r)
                          /\ Level(passrate, todo, r) <= Len(passrate[r]) + 1
    BY <2>1, LensKept
  <2>3. Len(passrate[p]) # 0
    BY <2>1, LensKept, LenNat
  <2>4. Semi
    BY <2>1 DEF Semi, IInv, Trained, Good, Shaped, NoLists
  <2>5. pass > 0
    <3>1. Level(passrate, todo, p) <= pass /\ pass \in Nat
      BY <2>1, LensKept DEF IInv, Trained, Good, Chronological
    <3> QED BY <2>2, <2>3, <3>1
  <2>6. Level(passrate, todo, p) <= Level(passrate, todo, q) + 1
    BY <2>1, <2>4, <2>5 DEF IInv, Trained, Even
  <2>7. Len(passrate[p]) <= Len(passrate[q]) + 2
    BY <2>2, <2>6
  <2>8. ASSUME run = 1 PROVE Len(passrate[p]) <= Len(passrate[q]) + 1
    <3>1. Level(passrate, todo, p) = Level(passrate, todo, q)
      BY <2>1, <2>4, <2>8 DEF IInv, First, Semi
    <3> QED BY <2>2, <3>1
  <2>9. CASE run = 1
    BY <2>2, <2>8, <2>9
  <2>10. CASE run # 1
    BY <2>2, <2>7, <2>10
  <2> QED BY <2>9, <2>10
<1> QED BY <1>1, Inductive, PTL

\* A reference is always an earlier state of the trajectory it was copied from.
THEOREM ReferencesArePrefixes == SafeSpec => []RefIsPrefix
<1>1. IInv => RefIsPrefix
  BY DEF IInv, Trained, Good, Copied, RefIsPrefix
<1> QED BY <1>1, Inductive, PTL

\* With both sides in every batch no restart makes the vote or the cosine abort.
THEOREM BatchesNeverAbort == SafeSpec => []NoBatchAborts
<1>1. IInv => NoBatchAborts
  BY DEF IInv
<1> QED BY <1>1, Inductive, PTL

\* After a warm-up that is long enough, all that is compared has two entries.
THEOREM ScoresAreDefined == SafeSpec => []ScoresDefined
<1>1. IInv => ScoresDefined
  BY DEF IInv
<1> QED BY <1>1, Inductive, PTL

\* A restart costs less than a pass of training, and without one the last step is reached
\* unless more steps are asked for than the epochs hold.
THEOREM FewEpochsLost == SafeSpec => []EpochsLost
<1>1. IInv => EpochsLost
  <2> SUFFICES ASSUME IInv, pc = "exhausted"
               PROVE  /\ step > EpochSteps - (run - 1) * PassLen
                      /\ NotResumed => TotalSteps > EpochSteps
    BY DEF EpochsLost, NotResumed
  <2>1. step > StepsOf(Epochs - run + 1)
    BY DEF IInv, Behind
  <2>2. conf \in Configs /\ run \in Int
    BY SemiAssumption DEF IInv, Points
  <2>3. Epochs \in Int /\ PassLen \in Nat /\ EpochSteps = StepsOf(Epochs)
    BY <2>2, StepsFacts
  <2>4. StepsOf(Epochs - run + 1) = EpochSteps - (run - 1) * PassLen
    BY <2>2, <2>3 DEF StepsOf
  <2>5. NotResumed => TotalSteps > EpochSteps
    BY <2>3 DEF IInv, Exact
  <2> QED BY <2>1, <2>4, <2>5
<1> QED BY <1>1, Inductive, PTL

\* copy_dict_with_validation inserts the selected prompts one by one, an entry that is there
\* emptying the unlabeled half: over all orders the loop ends in exactly the databases
\* that Inserted gives for what MayBeLost allows.
THEOREM InsertionsInAnyOrder ==
  ASSUME NEW db, NEW new, db = [p \in Prompts |-> db[p]], NEW sel \in SUBSET Unlabeled, IsFiniteSet(sel)
  PROVE  \A e : (\E n, order, d : Enumerates(order, n, sel) /\ Turns(d, db, new, order, n) /\ d[n] = e)
                <=> \E lost \in MayBeLost(db, sel) : e = Inserted(db, new, sel, lost)
<1>1. ASSUME NEW n, NEW order, NEW d, Enumerates(order, n, sel), Turns(d, db, new, order, n)
      PROVE  \E lost \in MayBeLost(db, sel) : d[n] = Inserted(db, new, sel, lost)
  BY <1>1, LoopEnds
<1>2. ASSUME NEW lost \in MayBeLost(db, sel)
      PROVE  \E n, order, d : /\ Enumerates(order, n, sel) /\ Turns(d, db, new, order, n)
                              /\ d[n] = Inserted(db, new, sel, lost)
  BY LoopReaches
<1>3. ASSUME NEW e
      PROVE  (\E n, order, d : Enumerates(order, n, sel) /\ Turns(d, db, new, order, n) /\ d[n] = e)
               => \E lost \in MayBeLost(db, sel) : e = Inserted(db, new, sel, lost)
  BY <1>1
<1>4. ASSUME NEW e
      PROVE  (\E lost \in MayBeLost(db, sel) : e = Inserted(db, new, sel, lost))
               => \E n, order, d : Enumerates(order, n, sel) /\ Turns(d, db, new, order, n) /\ d[n] = e
  BY <1>2
<1> QED BY <1>3, <1>4
===============================================================================
