---------------------------- MODULE AsyncLoop_proofs ----------------------------
(***************************************************************************)
(* The event loop of the rollouter and its lock, for any number of         *)
(* samples, any capacity of the pending queue and any configurations: no   *)
(* coroutine is scheduled twice, none is inside the lock that does not     *)
(* hold it, and each is scheduled exactly where it can go on.              *)
(***************************************************************************)
EXTENDS AsyncTraining, SequenceTheorems, FiniteSetTheorems, TLAPS

-----------------------------------------------------------------------------
\* Sequences.

Has(seq, e) == \E i \in 1..Len(seq) : seq[i] = e

\* Nothing but "task" occurs twice.
Once(seq) == \A i, j \in 1..Len(seq) : seq[i] = seq[j] /\ seq[i] # "task" => i = j

LEMMA HasConcat ==
  ASSUME NEW A, NEW s \in Seq(A), NEW t \in Seq(A), NEW e
  PROVE  Has(s \o t, e) <=> Has(s, e) \/ Has(t, e)
<1>1. /\ s \o t \in Seq(A) /\ Len(s \o t) = Len(s) + Len(t)
      /\ \A i \in 1..Len(s) + Len(t) : (s \o t)[i] = IF i <= Len(s) THEN s[i] ELSE t[i - Len(s)]
  BY ConcatProperties
<1>2. Len(s) \in Nat /\ Len(t) \in Nat
  BY LenProperties
<1> DEFINE st == s \o t
<1> HIDE DEF st
<1>3. /\ Len(st) = Len(s) + Len(t)
      /\ \A i \in 1..Len(s) + Len(t) : st[i] = IF i <= Len(s) THEN s[i] ELSE t[i - Len(s)]
  BY <1>1 DEF st
<1>4. ASSUME NEW i \in 1..Len(st) PROVE Has(s, st[i]) \/ Has(t, st[i])
  <2>1. CASE i <= Len(s)
    BY <1>2, <1>3, <2>1 DEF Has
  <2>2. CASE ~(i <= Len(s))
    <3>1. i - Len(s) \in 1..Len(t) /\ st[i] = t[i - Len(s)]
      BY <1>2, <1>3, <2>2
    <3> QED BY <3>1 DEF Has
  <2> QED BY <2>1, <2>2
<1>5. ASSUME NEW i \in 1..Len(s) PROVE Has(st, s[i])
  <2>1. i \in 1..Len(st) /\ st[i] = s[i]
    BY <1>2, <1>3
  <2> QED BY <2>1 DEF Has
<1>6. ASSUME NEW i \in 1..Len(t) PROVE Has(st, t[i])
  <2>1. Len(s) + i \in 1..Len(st) /\ ~(Len(s) + i <= Len(s)) /\ (Len(s) + i) - Len(s) = i
    BY <1>2, <1>3
  <2>2. st[Len(s) + i] = t[i]
    BY <1>3, <2>1
  <2> QED BY <2>1, <2>2 DEF Has
<1>7. ASSUME Has(st, e) PROVE Has(s, e) \/ Has(t, e)
  <2>1. PICK i \in 1..Len(st) : st[i] = e
    BY <1>7 DEF Has
  <2> QED BY <1>4, <2>1
<1>8. ASSUME Has(s, e) PROVE Has(st, e)
  <2>1. PICK i \in 1..Len(s) : s[i] = e
    BY <1>8 DEF Has
  <2> QED BY <1>5, <2>1
<1>9. ASSUME Has(t, e) PROVE Has(st, e)
  <2>1. PICK i \in 1..Len(t) : t[i] = e
    BY <1>9 DEF Has
  <2> QED BY <1>6, <2>1
<1>10. Has(st, e) <=> Has(s, e) \/ Has(t, e)
  BY <1>7, <1>8, <1>9
<1> QED BY <1>10 DEF st

LEMMA OnceConcat ==
  ASSUME NEW A, NEW s \in Seq(A), NEW t \in Seq(A), Once(s), Once(t),
         \A e : Has(s, e) /\ Has(t, e) => e = "task"
  PROVE  Once(s \o t)
<1>1. /\ s \o t \in Seq(A) /\ Len(s \o t) = Len(s) + Len(t)
      /\ \A i \in 1..Len(s) + Len(t) : (s \o t)[i] = IF i <= Len(s) THEN s[i] ELSE t[i - Len(s)]
  BY ConcatProperties
<1>2. Len(s) \in Nat /\ Len(t) \in Nat
  BY LenProperties
<1> DEFINE st == s \o t
<1> HIDE DEF st
<1>3. /\ Len(st) = Len(s) + Len(t)
      /\ \A i \in 1..Len(s) + Len(t) : st[i] = IF i <= Len(s) THEN s[i] ELSE t[i - Len(s)]
  BY <1>1 DEF st
<1>4. ASSUME NEW i \in 1..Len(st)
      PROVE  \/ i \in 1..Len(s) /\ st[i] = s[i]
             \/ ~(i <= Len(s)) /\ i - Len(s) \in 1..Len(t) /\ st[i] = t[i - Len(s)]
  BY <1>2, <1>3
<1>5. ASSUME NEW i \in 1..Len(st), NEW j \in 1..Len(st), st[i] = st[j], st[i] # "task"
      PROVE  i = j
  <2>1. CASE i \in 1..Len(s) /\ st[i] = s[i] /\ j \in 1..Len(s) /\ st[j] = s[j]
    BY <1>5, <2>1 DEF Once
  <2>2. CASE /\ i - Len(s) \in 1..Len(t) /\ st[i] = t[i - Len(s)]
             /\ j - Len(s) \in 1..Len(t) /\ st[j] = t[j - Len(s)]
    <3>1. i - Len(s) = j - Len(s)
      BY <1>5, <2>2 DEF Once
    <3> QED BY <1>2, <3>1
  <2>3. ASSUME NEW k \in 1..Len(s), NEW l \in 1..Len(t), s[k] = t[l], s[k] # "task"
        PROVE  FALSE
    BY <2>3 DEF Has
  <2> QED BY <1>4, <1>5, <2>1, <2>2, <2>3
<1> QED BY <1>5 DEF Once, st

LEMMA TailOnce ==
  ASSUME NEW A, NEW s \in Seq(A), s # <<>>, Once(s)
  PROVE  /\ Once(Tail(s)) /\ Head(s) = s[1] /\ Has(s, Head(s))
         /\ \A e : e # "task" => (Has(Tail(s), e) <=> Has(s, e) /\ e # Head(s))
         /\ \A e : Has(Tail(s), e) => Has(s, e)
<1>1. /\ Tail(s) \in Seq(A) /\ Len(Tail(s)) = Len(s) - 1
      /\ \A i \in 1..Len(Tail(s)) : Tail(s)[i] = s[i + 1]
  BY HeadTailProperties
<1>2. Len(s) \in Nat \ {0} /\ Head(s) = s[1]
  BY EmptySeq
<1> DEFINE t == Tail(s)
<1> HIDE DEF t
<1>3. Len(t) = Len(s) - 1 /\ \A i \in 1..Len(t) : i + 1 \in 1..Len(s) /\ t[i] = s[i + 1] /\ i + 1 # 1
  BY <1>1, <1>2 DEF t
<1>4. Once(t)
  <2> SUFFICES ASSUME NEW i \in 1..Len(t), NEW j \in 1..Len(t), t[i] = t[j], t[i] # "task"
      PROVE  i = j
    BY DEF Once
  <2>1. i + 1 = j + 1
    BY <1>3 DEF Once
  <2> QED BY <2>1
<1>5. \A e : Has(t, e) => Has(s, e)
  BY <1>3 DEF Has
<1>6. 1 \in 1..Len(s)
  BY <1>2
<1>7. ASSUME NEW e, e # "task" PROVE Has(t, e) <=> Has(s, e) /\ e # Head(s)
  <2>1. ASSUME NEW i \in 1..Len(t), t[i] = e PROVE e # Head(s)
    BY <1>2, <1>3, <1>6, <1>7, <2>1 DEF Once
  <2>2. ASSUME NEW i \in 1..Len(s), s[i] = e, e # Head(s) PROVE Has(t, e)
    <3>1. i # 1 /\ i - 1 \in 1..Len(t) /\ (i - 1) + 1 = i
      BY <1>2, <1>3, <2>2
    <3>2. t[i - 1] = e
      BY <1>3, <2>2, <3>1
    <3> QED BY <3>1, <3>2 DEF Has
  <2> QED BY <1>5, <2>1, <2>2 DEF Has
<1> QED BY <1>2, <1>4, <1>5, <1>6, <1>7 DEF t, Has

\* How often an element occurs.
LEMMA CountType ==
  ASSUME NEW A, NEW seq \in Seq(A), NEW e
  PROVE  /\ {i \in 1..Len(seq) : seq[i] = e} = {i \in DOMAIN seq : seq[i] = e}
         /\ IsFiniteSet({i \in DOMAIN seq : seq[i] = e})
         /\ Count(seq, e) \in Nat
         /\ Has(seq, e) <=> Count(seq, e) >= 1
<1> DEFINE places == {i \in DOMAIN seq : seq[i] = e}
<1>1. DOMAIN seq = 1..Len(seq) /\ Len(seq) \in Nat
  BY LenProperties
<1>2. IsFiniteSet(places)
  <2>1. IsFiniteSet(1..Len(seq))
    BY <1>1, FS_Interval
  <2>2. places \in SUBSET (1..Len(seq))
    BY <1>1
  <2> QED BY <2>1, <2>2, FS_Subset
<1>3. Cardinality(places) \in Nat /\ (Cardinality(places) = 0 <=> places = {})
  BY <1>2, FS_CardinalityType, FS_EmptySet
<1>4. Has(seq, e) <=> places # {}
  BY <1>1 DEF Has
<1> QED BY <1>1, <1>2, <1>3, <1>4 DEF Count

LEMMA CountEmpty ==
  ASSUME NEW e
  PROVE  Count(<<>>, e) = 0
<1> DEFINE none == <<>>
<1>1. none \in Seq({}) /\ Len(none) = 0
  OBVIOUS
<1>2. DOMAIN none = 1..0
  BY <1>1, LenProperties
<1> HIDE DEF none
<1>3. {i \in DOMAIN none : none[i] = e} = {}
  BY <1>2
<1>4. Count(none, e) = 0
  BY <1>3, FS_EmptySet DEF Count
<1> QED BY <1>4 DEF none

LEMMA CountAppend ==
  ASSUME NEW A, NEW seq \in Seq(A), NEW x \in A, NEW e
  PROVE  Count(Append(seq, x), e) = Count(seq, e) + In(x = e)
<1> DEFINE more == Append(seq, x)
           places == {i \in DOMAIN seq : seq[i] = e}
<1>1. /\ more \in Seq(A) /\ Len(more) = Len(seq) + 1 /\ Len(seq) \in Nat
      /\ \A i \in 1..Len(seq) : more[i] = seq[i]
      /\ more[Len(seq) + 1] = x
      /\ DOMAIN more = 1..Len(seq) + 1 /\ DOMAIN seq = 1..Len(seq)
  BY AppendProperties, LenProperties
<1> HIDE DEF more
<1>2. IsFiniteSet(places) /\ Cardinality(places) = Count(seq, e) /\ Count(seq, e) \in Nat
  BY CountType DEF Count
<1>3. ~(Len(seq) + 1 \in places)
  BY <1>1
<1>4. CASE x = e
  <2>1. {i \in DOMAIN more : more[i] = e} = places \cup {Len(seq) + 1}
    BY <1>1, <1>4
  <2> QED BY <1>2, <1>3, <1>4, <2>1, FS_AddElement DEF Count, In, more
<1>5. CASE x # e
  <2>1. {i \in DOMAIN more : more[i] = e} = places
    BY <1>1, <1>5
  <2>2. Count(more, e) = Count(seq, e)
    BY <2>1 DEF Count
  <2>3. In(x = e) = 0
    BY <1>5 DEF In
  <2> QED BY <1>2, <2>2, <2>3 DEF more
<1> QED BY <1>4, <1>5

LEMMA CountConcat ==
  ASSUME NEW A, NEW s \in Seq(A), NEW t \in Seq(A), NEW e, ~Has(t, e)
  PROVE  Count(s \o t, e) = Count(s, e)
<1> DEFINE st == s \o t
<1>1. /\ st \in Seq(A) /\ Len(st) = Len(s) + Len(t)
      /\ \A i \in 1..Len(s) + Len(t) : st[i] = IF i <= Len(s) THEN s[i] ELSE t[i - Len(s)]
      /\ DOMAIN st = 1..Len(st) /\ DOMAIN s = 1..Len(s) /\ Len(s) \in Nat /\ Len(t) \in Nat
  BY ConcatProperties, LenProperties
<1> HIDE DEF st
<1>2. ASSUME NEW i \in 1..Len(st), st[i] = e PROVE i \in 1..Len(s) /\ s[i] = e
  <2>1. CASE i <= Len(s)
    BY <1>1, <1>2, <2>1
  <2>2. CASE ~(i <= Len(s))
    <3>1. i - Len(s) \in 1..Len(t) /\ st[i] = t[i - Len(s)]
      BY <1>1, <2>2
    <3> QED BY <1>2, <3>1 DEF Has
  <2> QED BY <2>1, <2>2
<1>3. ASSUME NEW i \in 1..Len(s) PROVE i \in 1..Len(st) /\ st[i] = s[i]
  BY <1>1
<1>4. {i \in DOMAIN st : st[i] = e} = {i \in DOMAIN s : s[i] = e}
  BY <1>1, <1>2, <1>3
<1> QED BY <1>4 DEF Count, st

LEMMA CountTail ==
  ASSUME NEW A, NEW seq \in Seq(A), seq # <<>>, NEW e
  PROVE  Count(Tail(seq), e) = Count(seq, e) - In(Head(seq) = e)
<1> DEFINE t == Tail(seq)
           places == {i \in DOMAIN seq : seq[i] = e}
           later == places \ {1}
           before == {i \in DOMAIN t : t[i] = e}
           f == [i \in later |-> i - 1]
<1>1. /\ t \in Seq(A) /\ Len(t) = Len(seq) - 1 /\ \A i \in 1..Len(t) : t[i] = seq[i + 1]
      /\ DOMAIN t = 1..Len(t) /\ DOMAIN seq = 1..Len(seq) /\ Len(seq) \in Nat \ {0}
      /\ Head(seq) = seq[1]
  BY HeadTailProperties, LenProperties, EmptySeq
<1> HIDE DEF t
<1>2. IsFiniteSet(places) /\ Cardinality(places) = Count(seq, e) /\ Count(seq, e) \in Nat
  BY CountType DEF Count
<1>3. IsFiniteSet(later) /\ Cardinality(later) = Count(seq, e) - In(Head(seq) = e)
  <2>1. 1 \in places <=> Head(seq) = e
    BY <1>1
  <2> HIDE DEF places
  <2> QED BY <1>2, <2>1, FS_RemoveElement DEF In
<1>4. f \in Bijection(later, before)
  <2>1. \A i \in later : i \in Nat /\ i - 1 \in before
    BY <1>1
  <2>2. \A j \in before : j + 1 \in later /\ (j + 1) - 1 = j
    BY <1>1
  <2>3. f \in [later -> before]
    BY <2>1
  <2>4. \A i, j \in later : f[i] = f[j] => i = j
    BY <2>1
  <2>5. \A j \in before : \E i \in later : f[i] = j
    BY <2>2
  <2> QED BY <2>3, <2>4, <2>5 DEF Bijection, Injection, Surjection, IsInjective
<1>5. Cardinality(before) = Cardinality(later)
  BY <1>3, <1>4, FS_Bijection DEF ExistsBijection
<1> QED BY <1>3, <1>5 DEF Count, t
-----------------------------------------------------------------------------
\* The coroutines that are scheduled, and those that wait for the lock.

Runs == {c \in Coroutines : Has(ready, c)}
Queued == {c \in Coroutines : Has(waiters, c)}

Order ==
  /\ ready \in Seq(Coroutines \cup {"task"}) /\ Once(ready)
  /\ waiters \in Seq(Coroutines) /\ Once(waiters)

\* A sequence of coroutines to wake, and their set.
Woken(seq, S) ==
  /\ seq \in Seq(Coroutines) /\ Once(seq)
  /\ S = {c \in Coroutines : Has(seq, c)}

LEMMA NoTask ==
  ASSUME NEW seq \in Seq(Coroutines)
  PROVE  ~Has(seq, "task") /\ seq \in Seq(Coroutines \cup {"task"}) /\ \A e : Has(seq, e) => e \in Coroutines
<1>1. \A i \in 1..Len(seq) : seq[i] \in Coroutines
  BY ElementOfSeq
<1>2. "task" \notin Coroutines
  BY DEF Coroutines
<1>3. seq \in Seq(Coroutines \cup {"task"})
  BY SeqMonotonic
<1> QED BY <1>1, <1>2, <1>3 DEF Has

LEMMA WokenNone == Woken(<<>>, {})
BY DEF Woken, Has, Once

LEMMA WokenOne ==
  ASSUME NEW c \in Coroutines
  PROVE  Woken(<<c>>, {c})
BY DEF Woken, Has, Once

LEMMA WokenBoth ==
  ASSUME NEW s, NEW S, NEW t, NEW T, Woken(s, S), Woken(t, T), S \cap T = {}
  PROVE  Woken(s \o t, S \cup T)
<1>1. s \o t \in Seq(Coroutines)
  BY ConcatProperties DEF Woken
<1>2. \A e : Has(s, e) /\ Has(t, e) => e = "task"
  BY NoTask DEF Woken
<1>3. Once(s \o t)
  BY <1>2, OnceConcat DEF Woken
<1>4. \A c : Has(s \o t, c) <=> Has(s, c) \/ Has(t, c)
  BY HasConcat DEF Woken
<1> QED BY <1>1, <1>3, <1>4 DEF Woken

\* The running coroutine is Head(ready): it waits, after waking others.
LEMMA WaitsStep ==
  ASSUME Order, ready # <<>>, NEW w, NEW S, Woken(w, S), S \cap Runs \subseteq {Head(ready)},
         ready' = Tail(ready) \o w
  PROVE  /\ ready' \in Seq(Coroutines \cup {"task"}) /\ Once(ready')
         /\ Runs' = (Runs \ {Head(ready)}) \cup S
         /\ Count(ready', "task") = Count(ready, "task") - In(Head(ready) = "task")
<1>1. w \in Seq(Coroutines \cup {"task"}) /\ Once(w) /\ ~Has(w, "task")
  BY NoTask DEF Woken
<1>2. Tail(ready) \in Seq(Coroutines \cup {"task"})
  BY HeadTailProperties DEF Order
<1>3. /\ Once(Tail(ready))
      /\ \A e : e # "task" => (Has(Tail(ready), e) <=> Has(ready, e) /\ e # Head(ready))
  BY TailOnce DEF Order
<1>4. \A e : Has(w, e) => e \in S /\ e \in Coroutines
  BY NoTask DEF Woken
<1>5. \A e : Has(Tail(ready), e) /\ Has(w, e) => e = "task"
  BY <1>3, <1>4 DEF Runs
<1>6. ready' \in Seq(Coroutines \cup {"task"}) /\ Once(ready')
  BY <1>1, <1>2, <1>3, <1>5, OnceConcat, ConcatProperties
<1>7. \A e : Has(ready', e) <=> Has(Tail(ready), e) \/ Has(w, e)
  BY <1>1, <1>2, HasConcat
<1>8. "task" \notin Coroutines
  BY DEF Coroutines
<1>9. Runs' = (Runs \ {Head(ready)}) \cup S
  BY <1>3, <1>7, <1>8 DEF Runs, Woken
<1>10. Count(ready', "task") = Count(Tail(ready), "task")
  BY <1>1, <1>2, CountConcat
<1>11. Count(Tail(ready), "task") = Count(ready, "task") - In(Head(ready) = "task")
  BY CountTail DEF Order
<1> QED BY <1>6, <1>9, <1>10, <1>11

\* It goes on.
LEMMA ContinuesStep ==
  ASSUME Order, ready # <<>>, NEW w, NEW S, Woken(w, S), S \cap Runs = {}, ready' = ready \o w
  PROVE  /\ ready' \in Seq(Coroutines \cup {"task"}) /\ Once(ready')
         /\ Runs' = Runs \cup S /\ ready'[1] = ready[1]
         /\ Count(ready', "task") = Count(ready, "task")
<1>1. w \in Seq(Coroutines \cup {"task"}) /\ Once(w) /\ ~Has(w, "task")
  BY NoTask DEF Woken
<1>2. ready \in Seq(Coroutines \cup {"task"}) /\ Once(ready) /\ Len(ready) \in Nat \ {0}
  BY EmptySeq DEF Order
<1>3. \A e : Has(w, e) => e \in S /\ e \in Coroutines
  BY NoTask DEF Woken
<1>4. \A e : Has(ready, e) /\ Has(w, e) => e = "task"
  BY <1>3 DEF Runs
<1>5. ready' \in Seq(Coroutines \cup {"task"}) /\ Once(ready')
  BY <1>1, <1>2, <1>4, OnceConcat, ConcatProperties
<1>6. \A e : Has(ready', e) <=> Has(ready, e) \/ Has(w, e)
  BY <1>1, <1>2, HasConcat
<1>7. Runs' = Runs \cup S
  BY <1>6 DEF Runs, Woken
<1>8. ready'[1] = ready[1]
  <2>1. Len(w) \in Nat
    BY <1>1, LenProperties
  <2>2. 1 \in 1..Len(ready) + Len(w) /\ 1 <= Len(ready)
    BY <1>2, <2>1
  <2> QED BY <1>1, <1>2, <2>2, ConcatProperties
<1> QED BY <1>1, <1>2, <1>5, <1>7, <1>8, CountConcat

\* A coroutine, or a task, is scheduled from outside.
LEMMA WakeStep ==
  ASSUME Order, NEW c \in Coroutines \cup {"task"}, c \notin Runs, ready' = Append(ready, c)
  PROVE  /\ ready' \in Seq(Coroutines \cup {"task"}) /\ Once(ready')
         /\ Runs' = Runs \cup ({c} \ {"task"}) /\ (ready # <<>> => ready'[1] = ready[1])
         /\ Count(ready', "task") = Count(ready, "task") + In(c = "task")
<1> DEFINE A == Coroutines \cup {"task"}
<1>1. ready \in Seq(A) /\ <<c>> \in Seq(A) /\ Once(<<c>>) /\ \A e : Has(<<c>>, e) <=> e = c
  BY DEF Order, Once, Has
<1>2. ready' = ready \o <<c>> /\ ready' \in Seq(A)
  BY <1>1, AppendIsConcat, AppendProperties
<1>3. "task" \notin Coroutines
  BY DEF Coroutines
<1>4. Once(ready')
  <2>1. \A e : Has(ready, e) /\ Has(<<c>>, e) => e = "task"
    BY <1>1 DEF Runs
  <2> QED BY <1>1, <1>2, <2>1, OnceConcat DEF Order
<1>5. \A e : Has(ready', e) <=> Has(ready, e) \/ e = c
  <2> HIDE DEF A
  <2>1. \A e : Has(ready \o <<c>>, e) <=> Has(ready, e) \/ Has(<<c>>, e)
    BY <1>1, HasConcat
  <2> QED BY <1>1, <1>2, <2>1
<1>6. Runs' = Runs \cup ({c} \ {"task"})
  BY <1>3, <1>5 DEF Runs
<1>7. ready # <<>> => ready'[1] = ready[1]
  <2> SUFFICES ASSUME ready # <<>> PROVE ready'[1] = ready[1]
    OBVIOUS
  <2>1. 1 \in 1..Len(ready)
    BY <1>1, EmptySeq
  <2> QED BY <1>1, <2>1, AppendProperties
<1>8. Count(ready', "task") = Count(ready, "task") + In(c = "task")
  BY <1>1, CountAppend
<1> QED BY <1>2, <1>4, <1>6, <1>7, <1>8
-----------------------------------------------------------------------------
\* The lock.

\* Where c takes the lock, and where it is until it gives it back.
AtLock(c) ==
  \/ c = "proc" /\ at["proc"] \in {"mark", "drain", "sleep", "submit"}
  \/ c = "main" /\ at["main"] = "stop"
  \/ c = "monitor" /\ at["monitor"] \in {"unpause", "check"}
  \/ c \in {"pause", "update"} /\ at[c] = "start"
  \/ c = "resume" /\ at["resume"] = "unpause"
Inside(c) ==
  \/ AtLock(c)
  \/ c = "proc" /\ at["proc"] = "wait"
  \/ c = "pause" /\ at["pause"] \in {"cancel", "tasks", "gather", "reset"}
  \/ c = "update" /\ at["update"] \in {"size", "assign", "validate", "put"}
  \/ c = "resume" /\ at["resume"] = "server"

\* Who is inside has the lock, unless it still waits for it; who waits is not scheduled.
Locking ==
  /\ lock \in Coroutines \cup {Nobody} /\ (lock = Nobody => waiters = <<>>)
  /\ \A c \in Coroutines :
       /\ c \in Queued => c \notin Runs /\ AtLock(c)
       /\ lock = c <=> Inside(c) /\ c \notin Queued
       /\ AtLock(c) /\ c \notin Queued => c \in Runs

\* The lock's part of an action's effect.
Handed == IF waiters = <<>> THEN {} ELSE {Head(waiters)}

LEMMA ReleaseEffect ==
  ASSUME Order, Locking, Release
  PROVE  /\ Woken(NextHolder, Handed) /\ Handed \subseteq Queued
         /\ waiters' \in Seq(Coroutines) /\ Once(waiters')
         /\ Queued' = Queued \ Handed
         /\ lock' \in Coroutines \cup {Nobody} /\ (lock' = Nobody => waiters' = <<>>)
         /\ \A c \in Coroutines : lock' = c <=> c \in Handed
<1>0. Nobody \notin Coroutines
  BY RollouterAssumption
<1>1. CASE waiters = <<>>
  <2>1. NextHolder = <<>> /\ Handed = {} /\ waiters' = waiters /\ lock' = Nobody
    BY <1>1 DEF Release, NextHolder, Handed
  <2>2. Queued' = Queued \ Handed
    BY <2>1 DEF Queued
  <2> QED BY <1>0, <1>1, <2>1, <2>2, WokenNone DEF Order
<1>2. CASE waiters # <<>>
  <2>1. NextHolder = <<Head(waiters)>> /\ Handed = {Head(waiters)} /\ waiters' = Tail(waiters)
        /\ lock' = Head(waiters)
    BY <1>2 DEF Release, NextHolder, Handed
  <2>2. Head(waiters) \in Coroutines /\ Tail(waiters) \in Seq(Coroutines)
    BY <1>2, HeadTailProperties DEF Order
  <2>3. /\ Once(Tail(waiters)) /\ Has(waiters, Head(waiters))
        /\ \A e : e # "task" => (Has(Tail(waiters), e) <=> Has(waiters, e) /\ e # Head(waiters))
    BY <1>2, TailOnce DEF Order
  <2>4. "task" \notin Coroutines
    BY DEF Coroutines
  <2>5. Queued' = Queued \ Handed /\ Handed \subseteq Queued
    BY <2>1, <2>2, <2>3, <2>4 DEF Queued
  <2> QED BY <1>0, <2>1, <2>2, <2>3, <2>5, WokenOne
<1> QED BY <1>1, <1>2

LEMMA AcquireEffect ==
  ASSUME Order, Locking, NEW c \in Coroutines, Running(c), NEW point, Acquire(c, point),
         c \notin Queued
  PROVE  /\ at' = [at EXCEPT ![c] = point] /\ due' = due
         /\ Order' /\ Count(ready', "task") = Count(ready, "task")
         /\ lock' \in Coroutines
         /\ \/ lock = Nobody /\ lock' = c /\ Queued' = Queued /\ Runs' = Runs
            \/ lock # Nobody /\ lock' = lock /\ Queued' = Queued \cup {c} /\ Runs' = Runs \ {c}
<1>0. ready # <<>> /\ Head(ready) = c /\ c # "task"
  BY DEF Running, Coroutines
<1>1. at' = [at EXCEPT ![c] = point] /\ due' = due
  BY DEF Acquire, Go
<1>2. CASE lock = Nobody
  <2>1. lock' = c /\ ready' = ready \o <<>> /\ waiters' = waiters
    BY <1>2 DEF Acquire, Continues
  <2>2. /\ ready' \in Seq(Coroutines \cup {"task"}) /\ Once(ready') /\ Runs' = Runs \cup {}
        /\ Count(ready', "task") = Count(ready, "task")
    <3>1. {} \cap Runs = {}
      OBVIOUS
    <3> QED BY <1>0, <2>1, <3>1, ContinuesStep, WokenNone
  <2>3. Queued' = Queued
    BY <2>1 DEF Queued
  <2> QED BY <1>1, <1>2, <2>1, <2>2, <2>3 DEF Order
<1>3. CASE lock # Nobody
  <2>1. lock' = lock /\ ready' = Tail(ready) \o <<>> /\ waiters' = Append(waiters, c)
    BY <1>3 DEF Acquire, Waits
  <2>2. /\ ready' \in Seq(Coroutines \cup {"task"}) /\ Once(ready') /\ Runs' = Runs \ {c}
        /\ Count(ready', "task") = Count(ready, "task") - In(c = "task")
    BY <1>0, <2>1, WaitsStep, WokenNone
  <2>3. Count(ready, "task") \in Nat /\ In(c = "task") = 0
    BY <1>0, CountType DEF Order, In
  <2>4. waiters \in Seq(Coroutines) /\ <<c>> \in Seq(Coroutines) /\ Once(<<c>>) /\ \A e : Has(<<c>>, e) <=> e = c
    BY DEF Order, Once, Has
  <2>5. waiters' = waiters \o <<c>> /\ waiters' \in Seq(Coroutines)
    BY <2>1, <2>4, AppendIsConcat, AppendProperties
  <2>6. ~Has(waiters, c)
    BY DEF Queued
  <2>7. Once(waiters')
    BY <2>4, <2>5, <2>6, OnceConcat DEF Order
  <2>8. \A e : Has(waiters \o <<c>>, e) <=> Has(waiters, e) \/ Has(<<c>>, e)
    BY <2>4, HasConcat
  <2>9. Queued' = Queued \cup {c}
    BY <2>4, <2>5, <2>8 DEF Queued
  <2> QED BY <1>1, <1>3, <2>1, <2>2, <2>3, <2>5, <2>7, <2>9 DEF Order, Locking
<1> QED BY <1>2, <1>3

\* What becomes of the lock when c asks for it ...
LEMMA AcquireLocking ==
  ASSUME Order, Locking, DOMAIN at = Coroutines, NEW c \in Coroutines, Running(c), ~Inside(c),
         NEW point, Acquire(c, point), AtLock(c)'
  PROVE  Locking'
<1>1. c \in Runs /\ c \notin Queued /\ lock # c
  <2>1. ready # <<>> /\ Has(ready, c)
    BY TailOnce DEF Running, Order
  <2> QED BY <2>1 DEF Runs, Locking
<1>2. /\ at' = [at EXCEPT ![c] = point] /\ lock' \in Coroutines
      /\ \/ lock = Nobody /\ lock' = c /\ Queued' = Queued /\ Runs' = Runs
         \/ lock # Nobody /\ lock' = lock /\ Queued' = Queued \cup {c} /\ Runs' = Runs \ {c}
  BY <1>1, AcquireEffect
<1>3. ASSUME NEW d \in Coroutines, d # c
      PROVE  (AtLock(d)' <=> AtLock(d)) /\ (Inside(d)' <=> Inside(d))
  BY <1>2, <1>3 DEF AtLock, Inside, Coroutines
<1>4. Inside(c)'
  BY DEF Inside
<1>5. Nobody \notin Coroutines
  BY RollouterAssumption
<1> QED BY <1>1, <1>2, <1>3, <1>4, <1>5 DEF Locking

\* ... when its holder c leaves it, waking those in S ...
LEMMA ReleaseLocking ==
  ASSUME Order, Locking, DOMAIN at = Coroutines, NEW c \in Coroutines, lock = c, Release,
         ~Inside(c)', \A d \in Coroutines \ {c} : (AtLock(d)' <=> AtLock(d)) /\ (Inside(d)' <=> Inside(d)),
         Handed \subseteq Runs', Runs \ {c} \subseteq Runs',
         \A d \in Runs' : d \in Runs \/ d \in Handed \/ d \notin Queued
  PROVE  Locking'
<1>1. /\ Handed \subseteq Queued /\ Queued' = Queued \ Handed
      /\ lock' \in Coroutines \cup {Nobody} /\ (lock' = Nobody => waiters' = <<>>)
      /\ \A d \in Coroutines : lock' = d <=> d \in Handed
  BY ReleaseEffect
<1>2. \A d \in Coroutines : AtLock(d)' => Inside(d)'
  BY DEF Inside
<1>3. Handed \subseteq Coroutines
  BY <1>1 DEF Queued
<1> QED BY <1>1, <1>2, <1>3 DEF Locking

\* ... and when nobody asks for it and nobody leaves it.
LEMMA KeepLocking ==
  ASSUME Order, Locking, DOMAIN at = Coroutines, UNCHANGED <<lock, waiters>>,
         \A d \in Coroutines :
           /\ AtLock(d)' => AtLock(d) /\ (d \in Runs => d \in Runs')
           /\ d \in Queued => AtLock(d)' /\ d \notin Runs'
           /\ Inside(d)' <=> Inside(d)
  PROVE  Locking'
<1>1. Queued' = Queued
  BY DEF Queued
<1> QED BY <1>1 DEF Locking
-----------------------------------------------------------------------------
\* The inductive invariant of the event loop.

Points ==
  /\ DOMAIN at = Coroutines
  /\ at["feed"] \in {"on", "full", "done"}
  /\ at["proc"] \in {"top", "get", "mark", "loop", "drain", "wait", "sleep", "asleep",
                     "notified", "submit", "ended", "failed"}
  /\ at["consumer"] \in {"idle", "on", "put", "off"}
  /\ at["main"] \in {"on", "join", "put", "stop", "done"}
  /\ at["monitor"] \in {"sleep", "awake", "unpause", "loop", "check", "off"}
  /\ at["pause"] \in {"off", "called", "start", "cancel", "tasks", "gather", "reset", "returned"}
  /\ at["update"] \in {"off", "sent", "called", "start", "size", "assign", "validate", "put"}
  /\ at["resume"] \in {"off", "sent", "called", "unpause", "server"}
  /\ at["pause"] # "off" => tpc = "pausing"
  /\ tpc \in {"pausing", "weights"} => at["update"] = "off" /\ at["resume"] = "off"

\* A coroutine is scheduled exactly where it can go on.
FeedRuns == "feed" \in Runs <=> at["feed"] = "on"
ProcRuns ==
  /\ at["proc"] \in {"top", "loop", "notified"} => "proc" \in Runs
  /\ at["proc"] \in {"asleep", "ended", "failed"} => "proc" \notin Runs
  /\ at["proc"] = "get" => ("proc" \in Runs <=> fed > taken)
  /\ at["proc"] = "wait" => ("proc" \in Runs <=> finished + raised > 0)
ConsumerRuns == "consumer" \in Runs <=> at["consumer"] = "on"
MainRuns ==
  /\ at["main"] = "done" => "main" \notin Runs
  /\ "main" \in Runs \/ at["main"] # "on" => at["feed"] = "done" /\ at["proc"] \in {"ended", "failed"}
  /\ at["main"] = "join" => at["proc"] = "ended" /\ ("main" \in Runs => at["consumer"] = "idle")
CallsRun ==
  /\ at["monitor"] \in {"sleep", "off"} => "monitor" \notin Runs
  /\ at["monitor"] \in {"awake", "loop"} => "monitor" \in Runs
  /\ at["pause"] \in {"off", "cancel", "returned"} => "pause" \notin Runs
  /\ at["pause"] \in {"called", "tasks"} => "pause" \in Runs
  /\ at["pause"] = "gather" => ("pause" \in Runs <=> Busy = {})
  /\ at["update"] \in {"off", "sent", "size", "validate"} => "update" \notin Runs
  /\ at["update"] = "called" => "update" \in Runs
  /\ at["resume"] \in {"off", "sent"} => "resume" \notin Runs
  /\ at["resume"] = "called" => "resume" \in Runs
Runnable == FeedRuns /\ ProcRuns /\ ConsumerRuns /\ MainRuns /\ CallsRun

\* The processor gets a sample before the feed, which it wakes, runs again.
Feeding ==
  /\ fed \in 0..Total + 1 /\ taken \in Nat /\ fed - taken \in 0..PendingCap
  /\ at["feed"] = "done" <=> fed = Total + 1
  /\ loop = "end" => taken = Total + 1
  /\ finished \in Nat /\ raised \in Nat
  /\ at["proc"] = "ended" => loop = "end" /\ Busy = {}
  /\ at["proc"] = "get" /\ "proc" \in Runs /\ at["feed"] = "on" => ready[1] = "proc"

Asks == {"created", "complete", "cancelled", "error"}

\* The samples whose tasks are scheduled.
TaskList ==
  /\ gen \in [Samples -> {"none", "sent", "decoding"} \cup Asks]
  /\ due \in Seq(Samples) /\ \A s \in Samples : Count(due, s) = In(gen[s] \in Asks)
  /\ Count(ready, "task") = Len(due)

Scheduling == Points /\ Runnable /\ Feeding
LInv == Order /\ Locking /\ TaskList /\ Scheduling

-----------------------------------------------------------------------------
LEMMA RunningIs ==
  ASSUME Order, Locking, NEW c \in Coroutines, Running(c)
  PROVE  /\ ready # <<>> /\ Head(ready) = c /\ ready[1] = c /\ c \in Runs /\ c # "task"
         /\ c \notin Queued /\ (lock = c <=> Inside(c))
<1>1. ready # <<>> /\ Head(ready) = c /\ ready[1] = c /\ Has(ready, c)
  BY TailOnce DEF Running, Order
<1>2. c \in Runs /\ c # "task"
  BY <1>1 DEF Runs, Coroutines
<1> QED BY <1>1, <1>2 DEF Locking

LEMMA TasksKept ==
  ASSUME TaskList, UNCHANGED <<gen, due>>, Count(ready', "task") = Count(ready, "task")
  PROVE  TaskList' /\ Busy' = Busy
BY DEF TaskList, Busy

\* Steps of a coroutine c that waits after waking those in S and leaves the lock alone.
LEMMA QuietWait ==
  ASSUME Order, Locking, NEW c \in Coroutines, Running(c), NEW w, NEW S, Woken(w, S),
         S \cap Runs \subseteq {c}, Waits(w), UNCHANGED waiters
  PROVE  /\ Order' /\ Runs' = (Runs \ {c}) \cup S /\ Queued' = Queued
         /\ Count(ready', "task") = Count(ready, "task")
<1>1. ready # <<>> /\ Head(ready) = c /\ c # "task"
  BY RunningIs
<1>2. /\ ready' \in Seq(Coroutines \cup {"task"}) /\ Once(ready')
      /\ Runs' = (Runs \ {c}) \cup S
      /\ Count(ready', "task") = Count(ready, "task") - In(c = "task")
  BY <1>1, WaitsStep DEF Waits
<1>3. Count(ready, "task") \in Nat /\ In(c = "task") = 0
  BY <1>1, CountType DEF Order, In
<1>4. Queued' = Queued
  BY DEF Queued
<1> QED BY <1>2, <1>3, <1>4 DEF Order

LEMMA QuietContinue ==
  ASSUME Order, Locking, NEW c \in Coroutines, Running(c), NEW w, NEW S, Woken(w, S),
         S \cap Runs = {}, Continues(w), UNCHANGED waiters
  PROVE  /\ Order' /\ Runs' = Runs \cup S /\ Queued' = Queued /\ ready'[1] = c
         /\ Count(ready', "task") = Count(ready, "task")
<1>1. ready # <<>> /\ ready[1] = c
  BY RunningIs
<1>2. /\ ready' \in Seq(Coroutines \cup {"task"}) /\ Once(ready')
      /\ Runs' = Runs \cup S /\ ready'[1] = ready[1]
      /\ Count(ready', "task") = Count(ready, "task")
  BY <1>1, ContinuesStep DEF Continues
<1>3. Queued' = Queued
  BY DEF Queued
<1> QED BY <1>1, <1>2, <1>3 DEF Order

LEMMA WokenIf ==
  ASSUME NEW c \in Coroutines, NEW P
  PROVE  Woken(IF P THEN <<c>> ELSE <<>>, IF P THEN {c} ELSE {})
<1>1. CASE P
  BY <1>1, WokenOne
<1>2. CASE ~P
  BY <1>2, WokenNone
<1> QED BY <1>1, <1>2

LEMMA MinOfTwo ==
  ASSUME NEW a \in Nat, NEW b \in Nat
  PROVE  Min({a, b}) = IF a <= b THEN a ELSE b
<1>1. CASE a <= b
  <2>1. \A x \in {a, b} : (\A y \in {a, b} : x <= y) => x = a
    BY <1>1
  <2> QED BY <1>1, <2>1 DEF Min
<1>2. CASE ~(a <= b)
  <2>1. \A x \in {a, b} : (\A y \in {a, b} : x <= y) => x = b
    BY <1>2
  <2> QED BY <1>2, <2>1 DEF Min
<1> QED BY <1>1, <1>2

LEMMA FeedStep ==
  ASSUME LInv, Feed, UNCHANGED tpc
  PROVE  LInv'
<1> DEFINE wakesProc == at["proc"] = "get"
           more == fed' = Total + 1
           wakesMain == more /\ at["proc"] = "failed"
           S == (IF wakesProc THEN {"proc"} ELSE {}) \cup (IF wakesMain THEN {"main"} ELSE {})
           w == (IF wakesProc THEN <<"proc">> ELSE <<>>) \o (IF wakesMain THEN <<"main">> ELSE <<>>)
<1>0. Order /\ Locking /\ TaskList /\ Points /\ Runnable /\ Feeding
  BY DEF LInv, Scheduling
<1>1. /\ Running("feed") /\ at["feed"] = "on" /\ Waits(w) /\ fed' = Min({taken + PendingCap, Total + 1})
      /\ at' = [at EXCEPT !["feed"] = IF more THEN "done" ELSE "full"]
      /\ UNCHANGED <<due, lock, waiters, taken, loop, finished, raised, gen, tpc>>
  BY DEF Feed, RunningAt, RunningIn, Go, MainWoken, picking, tasks
<1>2. "feed" \in Coroutines /\ "proc" \in Coroutines /\ "main" \in Coroutines
  BY DEF Coroutines
<1>3. ready[1] = "feed" /\ "feed" \in Runs
  BY <1>0, <1>1, <1>2, RunningIs
<1>4. S \cap Runs = {}
  BY <1>0, <1>1, <1>3 DEF Runnable, FeedRuns, ProcRuns, ConsumerRuns, MainRuns, CallsRun, Feeding
<1>5. Woken(w, S)
  BY <1>2, WokenIf, WokenBoth
<1>6. /\ Order' /\ Runs' = (Runs \ {"feed"}) \cup S /\ Queued' = Queued
      /\ Count(ready', "task") = Count(ready, "task")
  BY <1>0, <1>1, <1>2, <1>4, <1>5, QuietWait
<1>7. TaskList' /\ Busy' = Busy
  BY <1>0, <1>1, <1>6, TasksKept
<1>8. fed' \in 0..Total + 1 /\ fed' > taken /\ fed' - taken \in 0..PendingCap
  <2>1. Total \in Nat \ {0} /\ PendingCap \in Nat \ {0}
    BY RollouterAssumption
  <2>2. taken \in Nat /\ taken <= Total
    BY <1>0, <1>1, <2>1 DEF Feeding
  <2> QED BY <1>1, <2>1, <2>2, MinOfTwo
<1>9. Locking'
  <2>1. at["main"] = "on"
    BY <1>0, <1>1 DEF Runnable, MainRuns
  <2>2. \A d \in Queued : d \in Coroutines /\ d \notin Runs /\ AtLock(d) /\ d \notin S
    BY <1>0, <1>1, <2>1 DEF Locking, Queued, AtLock
  <2>3. \A d \in Coroutines : (AtLock(d)' <=> AtLock(d)) /\ (Inside(d)' <=> Inside(d))
    BY <1>0, <1>1 DEF Points, AtLock, Inside, Coroutines
  <2>4. \A d \in Coroutines : AtLock(d) => d # "feed"
    BY <1>1 DEF AtLock
  <2> HIDE DEF S
  <2> QED BY <1>0, <1>1, <1>6, <2>2, <2>3, <2>4, KeepLocking DEF Points
<1>10. Points'
  BY <1>0, <1>1 DEF Points, Coroutines
<1>11. Runnable'
  BY <1>0, <1>1, <1>2, <1>6, <1>7, <1>8 DEF Runnable, FeedRuns, ProcRuns, ConsumerRuns, MainRuns,
    CallsRun, Points, Feeding
<1>12. Feeding'
  BY <1>0, <1>1, <1>2, <1>7, <1>8 DEF Feeding, Points
<1> QED BY <1>6, <1>7, <1>9, <1>10, <1>11, <1>12 DEF LInv, Scheduling
-----------------------------------------------------------------------------
\* Those who wait for the lock are where they take it.
LEMMA HandedAt ==
  ASSUME Order, Locking
  PROVE  /\ Handed \subseteq Queued /\ Handed \cap Runs = {}
         /\ "feed" \notin Queued /\ "consumer" \notin Queued
         /\ "main" \in Queued => at["main"] = "stop"
         /\ "proc" \in Queued => at["proc"] \in {"mark", "drain", "sleep", "submit"}
         /\ "monitor" \in Queued => at["monitor"] \in {"unpause", "check"}
         /\ "pause" \in Queued => at["pause"] = "start"
         /\ "update" \in Queued => at["update"] = "start"
         /\ "resume" \in Queued => at["resume"] = "unpause"
<1>1. Handed \subseteq Queued
  <2>1. waiters # <<>> => Head(waiters) \in Coroutines /\ Has(waiters, Head(waiters))
    BY HeadTailProperties, TailOnce DEF Order
  <2> QED BY <2>1 DEF Handed, Queued
<1>2. \A d \in Queued : d \in Coroutines /\ d \notin Runs /\ AtLock(d)
  BY DEF Locking, Queued
<1> QED BY <1>1, <1>2 DEF AtLock

\* Every step that only asks for the lock.
LEMMA AcquireStep ==
  ASSUME LInv, NEW c \in {"proc", "main", "monitor", "pause", "update", "resume"}, Running(c), ~Inside(c),
         NEW point, Acquire(c, point), AtLock(c)',
         UNCHANGED <<fed, taken, loop, finished, raised, gen, tpc>>
  PROVE  LInv'
<1>0. Order /\ Locking /\ TaskList /\ Points /\ Runnable /\ Feeding
  BY DEF LInv, Scheduling
<1>1. c \in Coroutines /\ c \in Runs /\ c \notin Queued /\ ready[1] = c
  BY <1>0, RunningIs DEF Coroutines
<1>2. /\ at' = [at EXCEPT ![c] = point] /\ due' = due
      /\ Order' /\ Count(ready', "task") = Count(ready, "task")
      /\ Runs' = Runs \/ Runs' = Runs \ {c}
  BY <1>0, <1>1, AcquireEffect
<1>3. Locking'
  BY <1>0, <1>1, AcquireLocking DEF Points
<1>4. TaskList' /\ Busy' = Busy
  BY <1>0, <1>2, TasksKept
<1>5. Points'
  BY <1>0, <1>1, <1>2 DEF Points, Coroutines, AtLock, Runnable, FeedRuns, ProcRuns, ConsumerRuns,
    MainRuns, CallsRun
<1>6. Runnable'
  BY <1>0, <1>1, <1>2, <1>4 DEF Points, Coroutines, AtLock, Runnable, FeedRuns, ProcRuns,
    ConsumerRuns, MainRuns, CallsRun
<1>7. Feeding'
  BY <1>0, <1>1, <1>2, <1>4 DEF Points, Coroutines, AtLock, Feeding, Runnable, FeedRuns,
    ProcRuns, ConsumerRuns, MainRuns, CallsRun
<1> QED BY <1>2, <1>3, <1>4, <1>5, <1>6, <1>7 DEF LInv, Scheduling

\* The effect of every step that gives the lock back and wakes those in S.
LEMMA ReleaseStep ==
  ASSUME Order, Locking, Points, NEW c \in Coroutines, Running(c), Inside(c), Release,
         NEW w, NEW S, Woken(w, S), Handed \subseteq S, S \cap Runs = {}, S \cap Queued \subseteq Handed,
         Waits(w) \/ Continues(w), ~Inside(c)',
         \A d \in Coroutines \ {c} : (AtLock(d)' <=> AtLock(d)) /\ (Inside(d)' <=> Inside(d))
  PROVE  /\ Order' /\ Locking' /\ Count(ready', "task") = Count(ready, "task")
         /\ Waits(w) => Runs' = (Runs \ {c}) \cup S
         /\ Continues(w) => Runs' = Runs \cup S
<1>1. ready # <<>> /\ Head(ready) = c /\ c # "task" /\ c \in Runs /\ lock = c
  BY RunningIs
<1>2. ASSUME Waits(w)
      PROVE  /\ ready' \in Seq(Coroutines \cup {"task"}) /\ Once(ready')
             /\ Count(ready', "task") = Count(ready, "task") /\ Runs' = (Runs \ {c}) \cup S
  <2>1. /\ ready' \in Seq(Coroutines \cup {"task"}) /\ Once(ready')
        /\ Runs' = (Runs \ {c}) \cup S
        /\ Count(ready', "task") = Count(ready, "task") - In(c = "task")
    BY <1>1, <1>2, WaitsStep DEF Waits
  <2>2. Count(ready, "task") \in Nat /\ In(c = "task") = 0
    BY <1>1, CountType DEF Order, In
  <2> QED BY <2>1, <2>2
<1>3. ASSUME Continues(w)
      PROVE  /\ ready' \in Seq(Coroutines \cup {"task"}) /\ Once(ready')
             /\ Count(ready', "task") = Count(ready, "task") /\ Runs' = Runs \cup S
  BY <1>1, <1>3, ContinuesStep DEF Continues
<1>4. /\ ready' \in Seq(Coroutines \cup {"task"}) /\ Once(ready')
      /\ Count(ready', "task") = Count(ready, "task")
      /\ Runs' = (Runs \ {c}) \cup S \/ Runs' = Runs \cup S
  BY <1>2, <1>3
<1>5. Order'
  BY <1>4, ReleaseEffect DEF Order
<1>6. Locking'
  BY <1>1, <1>4, ReleaseLocking DEF Points
<1> QED BY <1>2, <1>3, <1>4, <1>5, <1>6
-----------------------------------------------------------------------------
\* The processor.

LEMMA ProcTopStep ==
  ASSUME LInv, ProcTop, UNCHANGED tpc
  PROVE  LInv'
<1>0. Order /\ Locking /\ TaskList /\ Points /\ Runnable /\ Feeding
  BY DEF LInv, Scheduling
<1>1. /\ Running("proc") /\ at["proc"] = "top" /\ "proc" \in Coroutines /\ ~Inside("proc")
      /\ UNCHANGED <<fed, taken, finished, raised, gen>>
  BY DEF ProcTop, RunningAt, RunningIn, Coroutines, Inside, AtLock, tasks
<1>2. CASE paused \/ ShouldPause
  <2>1. Acquire("proc", "mark") /\ loop' = loop
    BY <1>2 DEF ProcTop
  <2>2. AtLock("proc")'
    BY <1>0, <2>1 DEF Acquire, Go, AtLock, Points, Coroutines
  <2> QED BY <1>1, <2>1, <2>2, AcquireStep
<1>3. CASE ~(paused \/ ShouldPause)
  <2>1. /\ UNCHANGED <<due, lock, waiters>>
        /\ \/ at' = [at EXCEPT !["proc"] = "loop"] /\ Continues(<<>>) /\ loop' = "room"
           \/ at' = [at EXCEPT !["proc"] = "get"] /\ fed > taken /\ Continues(<<>>) /\ loop' = loop
           \/ at' = [at EXCEPT !["proc"] = "get"] /\ ~(fed > taken) /\ Waits(<<>>) /\ loop' = loop
    BY <1>3 DEF ProcTop, Go
  <2>2. /\ Order' /\ Queued' = Queued /\ Count(ready', "task") = Count(ready, "task")
        /\ \/ at' = [at EXCEPT !["proc"] = "loop"] /\ loop' = "room" /\ Runs' = Runs
           \/ /\ at' = [at EXCEPT !["proc"] = "get"] /\ fed > taken /\ loop' = loop
              /\ Runs' = Runs /\ ready'[1] = "proc"
           \/ at' = [at EXCEPT !["proc"] = "get"] /\ ~(fed > taken) /\ loop' = loop /\ Runs' = Runs \ {"proc"}
    <3>1. {} \cap Runs = {} /\ {} \cap Runs \subseteq {"proc"} /\ Runs \cup {} = Runs
          /\ (Runs \ {"proc"}) \cup {} = Runs \ {"proc"}
      OBVIOUS
    <3>2. ASSUME Continues(<<>>)
          PROVE  /\ Order' /\ Queued' = Queued /\ Count(ready', "task") = Count(ready, "task")
                 /\ Runs' = Runs /\ ready'[1] = "proc"
      BY <1>0, <1>1, <2>1, <3>1, <3>2, QuietContinue, WokenNone
    <3>3. ASSUME Waits(<<>>)
          PROVE  /\ Order' /\ Queued' = Queued /\ Count(ready', "task") = Count(ready, "task")
                 /\ Runs' = Runs \ {"proc"}
      BY <1>0, <1>1, <2>1, <3>1, <3>3, QuietWait, WokenNone
    <3> QED BY <2>1, <3>2, <3>3
  <2>3. "proc" \in Runs
    BY <1>0, <1>1, RunningIs
  <2>4. TaskList' /\ Busy' = Busy
    BY <1>0, <1>1, <2>1, <2>2, TasksKept
  <2>5. Locking'
    BY <1>0, <1>1, <2>1, <2>2, KeepLocking DEF Points, AtLock, Inside, Coroutines, Locking
  <2>6. Points'
    BY <1>0, <2>1 DEF Points, Coroutines
  <2>7. Runnable'
    BY <1>0, <1>1, <2>1, <2>2, <2>3, <2>4 DEF Runnable, FeedRuns, ProcRuns, ConsumerRuns,
      MainRuns, CallsRun, Points, Coroutines
  <2>8. Feeding'
    BY <1>0, <1>1, <2>1, <2>2, <2>4 DEF Feeding, Points, Coroutines
  <2> QED BY <2>2, <2>4, <2>5, <2>6, <2>7, <2>8 DEF LInv, Scheduling
<1> QED BY <1>2, <1>3

LEMMA ProcGetStep ==
  ASSUME LInv, ProcGet, UNCHANGED tpc
  PROVE  LInv'
<1> DEFINE w == IF at["feed"] = "full" THEN <<"feed">> ELSE <<>>
           S == IF at["feed"] = "full" THEN {"feed"} ELSE {}
<1>0. Order /\ Locking /\ TaskList /\ Points /\ Runnable /\ Feeding
  BY DEF LInv, Scheduling
<1>1. /\ Running("proc") /\ at["proc"] = "get" /\ Continues(w)
      /\ taken' = taken + 1 /\ (loop' = "room" \/ (loop' = "end" /\ taken' \notin Samples))
      /\ at' = [at EXCEPT !["proc"] = "loop", !["feed"] = IF @ = "full" THEN "on" ELSE @]
      /\ UNCHANGED <<due, lock, waiters, fed, finished, raised, gen>>
  <2>1. Running("proc") /\ at["proc"] = "get" /\ Continues(w) /\ taken' = taken + 1
    BY DEF ProcGet, RunningAt, RunningIn
  <2>2. loop' = "room" \/ (loop' = "end" /\ taken' \notin Samples)
    <3>1. IF taken' \in Samples THEN hand' = taken' /\ loop' = "room" ELSE loop' = "end" /\ UNCHANGED hand
      BY DEF ProcGet
    <3> QED BY <3>1
  <2>3. at' = [at EXCEPT !["proc"] = "loop", !["feed"] = IF @ = "full" THEN "on" ELSE @]
    BY DEF ProcGet
  <2>4. UNCHANGED <<due, lock, waiters, fed, finished, raised, gen>>
    BY DEF ProcGet, tasks
  <2> QED BY <2>1, <2>2, <2>3, <2>4
<1>2. "proc" \in Coroutines /\ "feed" \in Coroutines
  BY DEF Coroutines
<1>3. "proc" \in Runs
  BY <1>0, <1>1, <1>2, RunningIs
<1>4. fed > taken /\ S \cap Runs = {}
  BY <1>0, <1>1, <1>3 DEF Runnable, FeedRuns, ProcRuns, ConsumerRuns, MainRuns, CallsRun
<1>5. /\ Order' /\ Runs' = Runs \cup S /\ Queued' = Queued
      /\ Count(ready', "task") = Count(ready, "task")
  BY <1>0, <1>1, <1>2, <1>4, QuietContinue, WokenIf
<1>6. TaskList' /\ Busy' = Busy
  BY <1>0, <1>1, <1>5, TasksKept
<1>7. Locking'
  BY <1>0, <1>1, <1>5, KeepLocking DEF Points, AtLock, Inside, Coroutines, Locking, Runnable,
    FeedRuns, ProcRuns, ConsumerRuns, MainRuns, CallsRun
<1>8. Points'
  BY <1>0, <1>1 DEF Points, Coroutines
<1>9. Runnable'
  BY <1>0, <1>1, <1>3, <1>5, <1>6 DEF Runnable, FeedRuns, ProcRuns, ConsumerRuns, MainRuns,
    CallsRun, Points, Coroutines
<1>10. Feeding'
  <2>1. Total \in Nat \ {0} /\ PendingCap \in Nat
    BY RollouterAssumption
  <2>2. taken' \in Nat /\ fed - taken' \in 0..PendingCap
    BY <1>0, <1>1, <1>4, <2>1 DEF Feeding
  <2>3. loop' = "end" => taken' = Total + 1
    BY <1>0, <1>1, <1>4, <2>1 DEF Feeding, Samples
  <2> QED BY <1>0, <1>1, <1>6, <2>1, <2>2, <2>3 DEF Feeding, Points, Coroutines
<1> QED BY <1>5, <1>6, <1>7, <1>8, <1>9, <1>10 DEF LInv, Scheduling

\* Steps of the processor that give the lock back and go on or wait at point.
LEMMA ProcReleases ==
  ASSUME LInv, Running("proc"), at["proc"] \in {"mark", "drain", "wait", "sleep", "submit"}, Release,
         NEW point \in {"loop", "top", "asleep", "failed"}, Go("proc", point),
         NEW ended \in BOOLEAN,
         \/ Continues(NextHolder) /\ point \in {"loop", "top"} /\ ~ended
         \/ /\ Waits(NextHolder \o (IF ended THEN <<"main">> ELSE <<>>)) /\ point = "failed"
            /\ (ended => at["feed"] = "done")
         \/ Waits(NextHolder) /\ point = "asleep" /\ ~ended,
         UNCHANGED <<due, fed, taken, gen, tpc>>, finished' \in Nat, raised' \in Nat,
         loop' = loop \/ loop' = "pause"
  PROVE  LInv'
<1> DEFINE M == IF ended THEN {"main"} ELSE {}
           m == IF ended THEN <<"main">> ELSE <<>>
           S == Handed \cup M
<1>0. Order /\ Locking /\ TaskList /\ Points /\ Runnable /\ Feeding
  BY DEF LInv, Scheduling
<1>1. /\ "proc" \in Coroutines /\ "main" \in Coroutines /\ Inside("proc")
      /\ at' = [at EXCEPT !["proc"] = point]
  BY DEF Coroutines, Inside, AtLock, Go
<1>2. "proc" \in Runs /\ "proc" \notin Queued
  BY <1>0, <1>1, RunningIs
<1>3. "main" \notin Runs /\ at["main"] = "on"
  BY <1>0 DEF Runnable, FeedRuns, ProcRuns, ConsumerRuns, MainRuns, CallsRun, Points
<1>4. /\ Handed \subseteq Queued /\ Handed \cap Runs = {} /\ "main" \notin Queued
      /\ "feed" \notin Queued /\ "consumer" \notin Queued
  BY <1>0, <1>3, HandedAt
<1>5. Woken(NextHolder, Handed) /\ Woken(NextHolder \o m, S)
  <2>1. Woken(NextHolder, Handed) /\ Woken(m, M)
    BY <1>0, <1>1, ReleaseEffect, WokenIf
  <2>2. Handed \cap M = {}
    BY <1>4
  <2> HIDE DEF m, M
  <2> QED BY <2>1, <2>2, WokenBoth
<1>6. S \cap Runs = {} /\ S \cap Queued \subseteq Handed
  BY <1>3, <1>4
<1>7. ~Inside("proc")' /\ \A d \in Coroutines \ {"proc"} : (AtLock(d)' <=> AtLock(d)) /\ (Inside(d)' <=> Inside(d))
  BY <1>0, <1>1 DEF Inside, AtLock, Points, Coroutines
<1>8. /\ Order' /\ Locking' /\ Count(ready', "task") = Count(ready, "task")
      /\ \/ point \in {"loop", "top"} /\ Runs' = Runs \cup Handed /\ ~ended
         \/ point = "failed" /\ Runs' = (Runs \ {"proc"}) \cup S /\ (ended => at["feed"] = "done")
         \/ point = "asleep" /\ Runs' = (Runs \ {"proc"}) \cup Handed /\ ~ended
  <2>1. CASE Continues(NextHolder) /\ point \in {"loop", "top"} /\ ~ended
    BY <1>0, <1>1, <1>4, <1>5, <1>6, <1>7, <2>1, ReleaseStep
  <2>2. CASE Waits(NextHolder \o m) /\ point = "failed" /\ (ended => at["feed"] = "done")
    <3> HIDE DEF m, M
    <3> QED BY <1>0, <1>1, <1>5, <1>6, <1>7, <2>2, ReleaseStep
  <2>3. CASE Waits(NextHolder) /\ point = "asleep" /\ ~ended
    BY <1>0, <1>1, <1>4, <1>5, <1>6, <1>7, <2>3, ReleaseStep
  <2> QED BY <2>1, <2>2, <2>3
<1>9. TaskList' /\ Busy' = Busy
  BY <1>0, <1>8, TasksKept
<1>10. Points'
  BY <1>0, <1>1 DEF Points, Coroutines
<1>11. Runnable'
  <2>1. /\ "proc" \notin Handed /\ "main" \notin Handed /\ "feed" \notin Handed /\ "consumer" \notin Handed
        /\ "monitor" \in Handed => at["monitor"] \in {"unpause", "check"}
        /\ "pause" \in Handed => at["pause"] = "start"
        /\ "update" \in Handed => at["update"] = "start"
        /\ "resume" \in Handed => at["resume"] = "unpause"
    BY <1>0, <1>2, <1>4, HandedAt
  <2> HIDE DEF Handed
  <2>2. CASE point \in {"loop", "top"} /\ Runs' = Runs \cup Handed
    <3>1. /\ at'["proc"] \in {"loop", "top"} /\ at'["feed"] = at["feed"] /\ at'["consumer"] = at["consumer"]
          /\ at'["main"] = at["main"] /\ at'["monitor"] = at["monitor"] /\ at'["pause"] = at["pause"]
          /\ at'["update"] = at["update"] /\ at'["resume"] = at["resume"]
      BY <1>0, <1>1, <2>2 DEF Points, Coroutines
    <3>2. FeedRuns' /\ ProcRuns'
      BY <1>0, <1>2, <2>1, <2>2, <3>1 DEF Runnable, FeedRuns, ProcRuns
    <3>3. ConsumerRuns' /\ MainRuns'
      BY <1>0, <1>3, <2>1, <2>2, <3>1 DEF Runnable, ConsumerRuns, MainRuns
    <3>4. CallsRun'
      BY <1>0, <1>9, <2>1, <2>2, <3>1 DEF Runnable, CallsRun
    <3> QED BY <3>2, <3>3, <3>4 DEF Runnable
  <2>3. CASE point = "asleep" /\ Runs' = (Runs \ {"proc"}) \cup Handed
    BY <1>0, <1>1, <1>2, <1>3, <1>9, <2>1, <2>3 DEF Runnable, FeedRuns, ProcRuns, ConsumerRuns,
      MainRuns, CallsRun, Points, Coroutines
  <2>4. CASE point = "failed" /\ Runs' = (Runs \ {"proc"}) \cup S /\ (ended => at["feed"] = "done")
    BY <1>0, <1>1, <1>2, <1>3, <1>9, <2>1, <2>4 DEF Runnable, FeedRuns, ProcRuns, ConsumerRuns,
      MainRuns, CallsRun, Points, Coroutines
  <2> QED BY <1>8, <2>2, <2>3, <2>4
<1>12. Feeding'
  BY <1>0, <1>1, <1>8, <1>9 DEF Feeding, Points, Coroutines
<1> QED BY <1>8, <1>9, <1>10, <1>11, <1>12 DEF LInv, Scheduling

LEMMA ProcMarkStep ==
  ASSUME LInv, ProcMark, UNCHANGED tpc
  PROVE  LInv'
<1>1. /\ Running("proc") /\ at["proc"] = "mark" /\ Release /\ Go("proc", "loop")
      /\ Continues(NextHolder) /\ loop' = "pause"
      /\ UNCHANGED <<due, fed, taken, gen, finished, raised>>
  BY DEF ProcMark, RunningAt, RunningIn, tasks
<1>2. finished' \in Nat /\ raised' \in Nat
  BY <1>1 DEF LInv, Scheduling, Feeding
<1> QED BY <1>1, <1>2, ProcReleases

LEMMA BusyFinite ==
  /\ IsFiniteSet(Samples) /\ IsFiniteSet(Busy)
  /\ Cardinality(Busy) \in Nat /\ (Cardinality(Busy) = 0 <=> Busy = {})
<1>1. IsFiniteSet(Samples)
  BY RollouterAssumption, FS_Interval DEF Samples
<1>2. Busy \in SUBSET Samples
  BY DEF Busy
<1>3. IsFiniteSet(Busy)
  BY <1>1, <1>2, FS_Subset
<1> QED BY <1>1, <1>3, FS_CardinalityType, FS_EmptySet

LEMMA ProcLoopStep ==
  ASSUME LInv, ProcLoop, UNCHANGED tpc
  PROVE  LInv'
<1>0. Order /\ Locking /\ TaskList /\ Points /\ Runnable /\ Feeding
  BY DEF LInv, Scheduling
<1>1. /\ Running("proc") /\ at["proc"] = "loop" /\ "proc" \in Coroutines /\ ~Inside("proc")
      /\ UNCHANGED <<fed, taken, loop, finished, raised, gen>>
  BY DEF ProcLoop, RunningAt, RunningIn, Coroutines, Inside, AtLock, tasks, picking
<1>2. \/ \E point \in {"drain", "sleep", "submit"} : Acquire("proc", point)
      \/ /\ ~MustDrain /\ loop = "end" /\ Go("proc", "ended")
         /\ Waits(MainWoken(at.feed = "done", TRUE)) /\ UNCHANGED <<due, lock, waiters>>
  BY DEF ProcLoop
<1>3. ASSUME NEW point \in {"drain", "sleep", "submit"}, Acquire("proc", point)
      PROVE  LInv'
  <2>1. AtLock("proc")'
    BY <1>0, <1>3 DEF Acquire, Go, AtLock, Points, Coroutines
  <2> QED BY <1>1, <1>3, <2>1, AcquireStep
<1>4. ASSUME ~MustDrain, loop = "end", Go("proc", "ended"),
             Waits(MainWoken(at.feed = "done", TRUE)), UNCHANGED <<due, lock, waiters>>
      PROVE  LInv'
  <2> DEFINE w == IF at["feed"] = "done" THEN <<"main">> ELSE <<>>
             S == IF at["feed"] = "done" THEN {"main"} ELSE {}
  <2>1. Waits(w) /\ at' = [at EXCEPT !["proc"] = "ended"] /\ "main" \in Coroutines
    BY <1>4 DEF MainWoken, Go, Coroutines
  <2>2. "main" \notin Runs /\ "proc" \in Runs
    BY <1>0, <1>1 DEF Runnable, MainRuns, ProcRuns, Points
  <2>3. Woken(w, S) /\ S \cap Runs \subseteq {"proc"}
    BY <2>1, <2>2, WokenIf
  <2>4. /\ Order' /\ Runs' = (Runs \ {"proc"}) \cup S /\ Queued' = Queued
        /\ Count(ready', "task") = Count(ready, "task")
    <3> HIDE DEF w, S
    <3> QED BY <1>0, <1>1, <1>4, <2>1, <2>3, QuietWait
  <2>5. TaskList' /\ Busy' = Busy
    BY <1>0, <1>1, <1>4, <2>4, TasksKept
  <2>6. Busy = {}
    <3>1. ~(Active > 0)
      BY <1>4 DEF MustDrain
    <3> QED BY <1>0, <3>1, BusyFinite DEF Active, Feeding
  <2>7. Locking'
    <3>1. at["main"] = "on"
      BY <1>0, <1>1 DEF Runnable, MainRuns
    <3>2. \A d \in Queued : d \in Coroutines /\ d \notin Runs /\ AtLock(d) /\ d \notin S
      BY <1>0, <1>1, <3>1 DEF Locking, Queued, AtLock
    <3>3. \A d \in Coroutines : (AtLock(d)' <=> AtLock(d)) /\ (Inside(d)' <=> Inside(d))
      BY <1>0, <1>1, <2>1 DEF Points, AtLock, Inside, Coroutines
    <3>4. \A d \in Coroutines : AtLock(d) => d # "proc"
      BY <1>1 DEF AtLock
    <3> HIDE DEF S
    <3> QED BY <1>0, <1>1, <1>4, <2>4, <3>2, <3>3, <3>4, KeepLocking DEF Points
  <2>8. Points'
    BY <1>0, <2>1 DEF Points, Coroutines
  <2>9. Runnable'
    BY <1>0, <1>1, <2>1, <2>2, <2>4, <2>5
       DEF Runnable, FeedRuns, ProcRuns, ConsumerRuns, MainRuns, CallsRun, Points, Coroutines
  <2>10. Feeding'
    BY <1>0, <1>1, <1>4, <2>1, <2>5, <2>6 DEF Feeding, Points, Coroutines
  <2> QED BY <2>4, <2>5, <2>7, <2>8, <2>9, <2>10 DEF LInv, Scheduling
<1> QED BY <1>2, <1>3, <1>4

LEMMA ProcDrainStep ==
  ASSUME LInv, ProcDrain, UNCHANGED tpc
  PROVE  LInv'
<1>0. Order /\ Locking /\ TaskList /\ Points /\ Runnable /\ Feeding
  BY DEF LInv, Scheduling
<1>1. /\ Running("proc") /\ at["proc"] = "drain" /\ "proc" \in Coroutines
      /\ UNCHANGED <<due, fed, taken, loop, finished, raised, gen>>
  BY DEF ProcDrain, RunningAt, RunningIn, Coroutines, tasks, picking
<1>2. \/ /\ Go("proc", "wait") /\ UNCHANGED <<lock, waiters>>
         /\ Waits(IF finished + raised > 0 THEN <<"proc">> ELSE <<>>)
      \/ Release /\ Go("proc", "loop") /\ Continues(NextHolder)
      \/ Release /\ ProcStops("failed")
  BY DEF ProcDrain
<1>3. finished' \in Nat /\ raised' \in Nat
  BY <1>0, <1>1 DEF Feeding
<1>4. CASE Release /\ Go("proc", "loop") /\ Continues(NextHolder)
  BY <1>1, <1>3, <1>4, ProcReleases
<1>5. CASE Release /\ ProcStops("failed")
  <2>1. Go("proc", "failed") /\ Waits(NextHolder \o (IF at["feed"] = "done" THEN <<"main">> ELSE <<>>))
    BY <1>5 DEF ProcStops, MainWoken
  <2>2. (at["feed"] = "done") \in BOOLEAN
    OBVIOUS
  <2> QED BY <1>1, <1>3, <1>5, <2>1, <2>2, ProcReleases
<1>6. CASE /\ Go("proc", "wait") /\ UNCHANGED <<lock, waiters>>
           /\ Waits(IF finished + raised > 0 THEN <<"proc">> ELSE <<>>)
  <2> DEFINE w == IF finished + raised > 0 THEN <<"proc">> ELSE <<>>
             S == IF finished + raised > 0 THEN {"proc"} ELSE {}
  <2>1. Waits(w) /\ at' = [at EXCEPT !["proc"] = "wait"]
    BY <1>6 DEF Go
  <2>2. Woken(w, S) /\ S \cap Runs \subseteq {"proc"}
    BY <1>1, WokenIf
  <2>3. /\ Order' /\ Runs' = (Runs \ {"proc"}) \cup S /\ Queued' = Queued
        /\ Count(ready', "task") = Count(ready, "task")
    <3> HIDE DEF w, S
    <3> QED BY <1>0, <1>1, <1>6, <2>1, <2>2, QuietWait
  <2>4. TaskList' /\ Busy' = Busy
    BY <1>0, <1>1, <2>3, TasksKept
  <2>5. "proc" \in Runs /\ "proc" \notin Queued
    BY <1>0, <1>1, RunningIs
  <2>6. Locking'
    BY <1>0, <1>1, <1>6, <2>1, <2>3, <2>5, KeepLocking DEF Points, AtLock, Inside, Coroutines, Locking
  <2>7. Points'
    BY <1>0, <2>1 DEF Points, Coroutines
  <2>8. Runnable'
    BY <1>0, <1>1, <2>1, <2>3, <2>4, <2>5
       DEF Runnable, FeedRuns, ProcRuns, ConsumerRuns, MainRuns, CallsRun, Points, Coroutines
  <2>9. Feeding'
    BY <1>0, <1>1, <2>1, <2>4 DEF Feeding, Points, Coroutines
  <2> QED BY <2>3, <2>4, <2>6, <2>7, <2>8, <2>9 DEF LInv, Scheduling
<1> QED BY <1>2, <1>4, <1>5, <1>6

LEMMA ProcCollectStep ==
  ASSUME LInv, ProcCollect, UNCHANGED tpc
  PROVE  LInv'
<1>1. /\ Running("proc") /\ at["proc"] = "wait" /\ finished' = 0 /\ raised' = 0 /\ Release
      /\ IF raised > 0 THEN ProcStops("failed") ELSE Go("proc", "loop") /\ Continues(NextHolder)
      /\ UNCHANGED <<due, fed, taken, loop, gen>>
  BY DEF ProcCollect, RunningAt, RunningIn, picking
<1>2. CASE Go("proc", "loop") /\ Continues(NextHolder)
  BY <1>1, <1>2, ProcReleases
<1>3. CASE ProcStops("failed")
  <2>1. Go("proc", "failed") /\ Waits(NextHolder \o (IF at["feed"] = "done" THEN <<"main">> ELSE <<>>))
    BY <1>3 DEF ProcStops, MainWoken
  <2>2. (at["feed"] = "done") \in BOOLEAN
    OBVIOUS
  <2> QED BY <1>1, <2>1, <2>2, ProcReleases
<1> QED BY <1>1, <1>2, <1>3

LEMMA ProcSleepStep ==
  ASSUME LInv, ProcSleep, UNCHANGED tpc
  PROVE  LInv'
<1>1. /\ Running("proc") /\ at["proc"] = "sleep" /\ Release
      /\ IF paused THEN Go("proc", "asleep") /\ Waits(NextHolder)
                   ELSE Go("proc", "top") /\ Continues(NextHolder)
      /\ UNCHANGED <<due, fed, taken, loop, gen, finished, raised>>
  BY DEF ProcSleep, RunningAt, RunningIn, picking, tasks
<1>2. finished' \in Nat /\ raised' \in Nat
  BY <1>1 DEF LInv, Scheduling, Feeding
<1>3. CASE Go("proc", "asleep") /\ Waits(NextHolder)
  BY <1>1, <1>2, <1>3, ProcReleases
<1>4. CASE Go("proc", "top") /\ Continues(NextHolder)
  BY <1>1, <1>2, <1>4, ProcReleases
<1> QED BY <1>1, <1>3, <1>4

LEMMA ProcNotifiedStep ==
  ASSUME LInv, ProcNotified, UNCHANGED tpc
  PROVE  LInv'
<1>1. /\ Running("proc") /\ at["proc"] = "notified" /\ "proc" \in Coroutines /\ ~Inside("proc")
      /\ UNCHANGED <<fed, taken, loop, finished, raised, gen>>
  BY DEF ProcNotified, RunningAt, RunningIn, Coroutines, Inside, AtLock, tasks, picking
<1>2. \E point \in {"sleep", "submit"} : Acquire("proc", point)
  BY DEF ProcNotified
<1>3. PICK point \in {"sleep", "submit"} : Acquire("proc", point)
  BY <1>2
<1>4. AtLock("proc")'
  BY <1>3 DEF Acquire, Go, AtLock, Points, Coroutines, LInv, Scheduling
<1> QED BY <1>1, <1>3, <1>4, AcquireStep

\* What the processor has in its hand, and where it goes on when it is notified; the queues
\* hold samples.
Hand ==
  /\ hand \in 0..Total /\ cancelq \in Seq(Samples) /\ resultq \in Seq(Samples)
  /\ at["proc"] \in {"top", "get", "mark"} => hand = 0
  /\ at["proc"] \in {"loop", "drain", "wait", "sleep", "asleep", "notified", "submit", "ended"} =>
       (loop = "room" <=> hand # 0)
  /\ at["proc"] = "submit" => loop = "room"
  /\ at["proc"] = "sleep" => loop = "pause"
  /\ at["proc"] \in {"asleep", "notified"} => loop \in {"pause", "room"}

LEMMA ProcSubmitStep ==
  ASSUME LInv, Hand, hand # 0 => gen[hand] = "none", ProcSubmit, UNCHANGED tpc
  PROVE  LInv'
<1>0. Order /\ Locking /\ TaskList /\ Points /\ Runnable /\ Feeding
  BY DEF LInv, Scheduling
<1>1. /\ Running("proc") /\ at["proc"] = "submit" /\ Release /\ Inside("proc") /\ "proc" \in Coroutines
      /\ IF paused THEN Go("proc", "asleep") /\ Waits(NextHolder) /\ UNCHANGED <<gen, hand, due>>
                   ELSE CreateTask
      /\ UNCHANGED <<fed, taken, loop, finished, raised>>
  BY DEF ProcSubmit, RunningAt, RunningIn, Inside, AtLock, Coroutines
<1>2. finished' \in Nat /\ raised' \in Nat
  BY <1>0, <1>1 DEF Feeding
<1>3. CASE Go("proc", "asleep") /\ Waits(NextHolder) /\ UNCHANGED <<gen, hand, due>>
  BY <1>1, <1>2, <1>3, ProcReleases
<1>4. CASE CreateTask
  <2> DEFINE A == Coroutines \cup {"task"}
             more == ready \o <<"task">>
  <2>1. /\ gen' = [gen EXCEPT ![hand] = "created"] /\ due' = Append(due, hand)
        /\ at' = [at EXCEPT !["proc"] = "top"] /\ ready' = ready \o (<<"task">> \o NextHolder)
    BY <1>4 DEF CreateTask, Go, Continues
  <2>2. hand \in Samples /\ gen[hand] = "none"
    BY <1>1 DEF Hand, Samples
  <2>3. /\ ready \in Seq(A) /\ <<"task">> \in Seq(A) /\ Once(<<"task">>)
        /\ \A e : Has(<<"task">>, e) <=> e = "task"
    BY <1>0 DEF Order, Once, Has
  <2>4. /\ Woken(NextHolder, Handed) /\ Handed \subseteq Queued /\ Handed \cap Runs = {}
        /\ NextHolder \in Seq(Coroutines) /\ NextHolder \in Seq(A) /\ Once(NextHolder)
        /\ ~Has(NextHolder, "task")
    BY <1>0, <1>1, ReleaseEffect, HandedAt, NoTask DEF Woken
  <2>5. "task" \notin Coroutines
    BY DEF Coroutines
  <2> HIDE DEF A
  <2>6. more \in Seq(A) /\ ready' = more \o NextHolder
    BY <2>1, <2>3, <2>4, ConcatAssociative, ConcatProperties
  <2>7. Once(more) /\ \A e : Has(more, e) <=> Has(ready, e) \/ e = "task"
    BY <1>0, <2>3, HasConcat, OnceConcat DEF Order
  <2>8. Count(more, "task") = Count(ready, "task") + 1
    <3>1. "task" \in A /\ more = Append(ready, "task")
      BY <2>3, AppendIsConcat DEF A
    <3>2. Count(Append(ready, "task"), "task") = Count(ready, "task") + In("task" = "task")
      BY <2>3, <3>1, CountAppend
    <3>3. In("task" = "task") = 1
      BY DEF In
    <3> HIDE DEF more
    <3> QED BY <3>1, <3>2, <3>3
  <2> HIDE DEF more
  <2>9. \A e : Has(ready', e) <=> Has(more, e) \/ Has(NextHolder, e)
    BY <2>4, <2>6, HasConcat
  <2>10. Runs' = Runs \cup Handed
    BY <2>4, <2>5, <2>7, <2>9 DEF Runs, Woken
  <2>11. Once(ready')
    <3>1. \A e : Has(more, e) /\ Has(NextHolder, e) => e = "task"
      BY <2>4, <2>7, NoTask DEF Runs, Woken
    <3> QED BY <2>4, <2>6, <2>7, <3>1, OnceConcat
  <2>12. ready' \in Seq(A) /\ Count(ready', "task") = Count(ready, "task") + 1
    BY <2>4, <2>6, <2>8, CountConcat, ConcatProperties
  <2>13. Order'
    BY <1>0, <1>1, <2>11, <2>12, ReleaseEffect DEF Order, A
  <2>14. \A d \in Coroutines \ {"proc"} : (AtLock(d)' <=> AtLock(d)) /\ (Inside(d)' <=> Inside(d))
    BY <1>0, <2>1 DEF Inside, AtLock, Points, Coroutines
  <2>15. ~Inside("proc")'
    BY <1>0, <2>1 DEF Inside, AtLock, Points, Coroutines
  <2>16. lock = "proc" /\ "proc" \in Runs /\ "proc" \notin Queued
    BY <1>0, <1>1, RunningIs
  <2>17. Locking'
    BY <1>0, <1>1, <2>4, <2>10, <2>14, <2>15, <2>16, ReleaseLocking DEF Points
  <2>18. TaskList'
    <3>1. gen' \in [Samples -> {"none", "sent", "decoding"} \cup Asks]
      BY <1>0, <2>1, <2>2 DEF TaskList, Asks
    <3>2. due' \in Seq(Samples) /\ Len(due') = Len(due) + 1
      BY <1>0, <2>1, <2>2, AppendProperties DEF TaskList
    <3>3. ASSUME NEW s \in Samples PROVE Count(due', s) = In(gen'[s] \in Asks)
      <4>1. Count(due', s) = Count(due, s) + In(hand = s) /\ Count(due, s) = In(gen[s] \in Asks)
        BY <1>0, <2>1, <2>2, CountAppend DEF TaskList
      <4> QED BY <1>0, <2>1, <2>2, <4>1 DEF In, TaskList, Asks
    <3> QED BY <1>0, <2>12, <3>1, <3>2, <3>3 DEF TaskList
  <2>19. at["pause"] # "gather"
    BY <1>0, <2>16 DEF Locking, Inside, AtLock, Coroutines
  <2>20. Points'
    BY <1>0, <2>1 DEF Points, Coroutines
  <2>21. /\ "proc" \notin Handed /\ "main" \notin Handed /\ "feed" \notin Handed /\ "consumer" \notin Handed
         /\ "monitor" \in Handed => at["monitor"] \in {"unpause", "check"}
         /\ "pause" \in Handed => at["pause"] = "start"
         /\ "update" \in Handed => at["update"] = "start"
         /\ "resume" \in Handed => at["resume"] = "unpause"
    BY <1>0, <1>1, <2>4, <2>16, HandedAt DEF Runnable, MainRuns
  <2>22. Runnable'
    <3> HIDE DEF Handed
    <3>1. /\ at'["proc"] = "top" /\ at'["feed"] = at["feed"] /\ at'["consumer"] = at["consumer"]
          /\ at'["main"] = at["main"] /\ at'["monitor"] = at["monitor"] /\ at'["pause"] = at["pause"]
          /\ at'["update"] = at["update"] /\ at'["resume"] = at["resume"]
      BY <1>0, <2>1 DEF Points, Coroutines
    <3>2. FeedRuns' /\ ProcRuns'
      BY <1>0, <2>10, <2>16, <2>21, <3>1 DEF Runnable, FeedRuns, ProcRuns
    <3>3. ConsumerRuns' /\ MainRuns'
      BY <1>0, <1>1, <2>10, <2>21, <3>1 DEF Runnable, ConsumerRuns, MainRuns
    <3>4. CallsRun'
      BY <1>0, <2>10, <2>19, <2>21, <3>1 DEF Runnable, CallsRun
    <3> QED BY <3>2, <3>3, <3>4 DEF Runnable
  <2>23. Feeding'
    BY <1>0, <1>1, <2>1 DEF Feeding, Points, Coroutines
  <2> QED BY <2>13, <2>17, <2>18, <2>20, <2>22, <2>23 DEF LInv, Scheduling
<1> QED BY <1>1, <1>3, <1>4
-----------------------------------------------------------------------------
\* The tasks and the servers.

\* A scheduled task is the head of due, and its sample occurs there only once.
LEMMA TaskRuns ==
  ASSUME Order, TaskList, Running("task")
  PROVE  /\ ready # <<>> /\ Head(ready) = "task" /\ due # <<>> /\ Head(due) \in Samples
         /\ gen[Head(due)] \in Asks /\ Head(due) \in Busy
         /\ Tail(due) \in Seq(Samples) /\ Len(Tail(due)) = Len(due) - 1
         /\ \A s \in Samples : Count(Tail(due), s) = IF s = Head(due) THEN 0 ELSE In(gen[s] \in Asks)
<1>1. ready # <<>> /\ Head(ready) = "task" /\ Has(ready, "task")
  BY TailOnce DEF Running, Order
<1>2. Count(ready, "task") >= 1
  BY <1>1, CountType DEF Order
<1>3. due \in Seq(Samples) /\ Len(due) >= 1
  BY <1>2 DEF TaskList
<1>4. due # <<>>
  BY <1>3
<1>5. /\ Head(due) \in Samples /\ Tail(due) \in Seq(Samples) /\ Len(Tail(due)) = Len(due) - 1
      /\ Head(due) = due[1] /\ 1 \in 1..Len(due)
  BY <1>3, <1>4, HeadTailProperties, LenProperties
<1>6. Has(due, Head(due))
  BY <1>5 DEF Has
<1>7. Count(due, Head(due)) >= 1
  BY <1>3, <1>6, CountType
<1>8. gen[Head(due)] \in Asks
  BY <1>5, <1>7 DEF TaskList, In
<1>9. ASSUME NEW s \in Samples
      PROVE  Count(Tail(due), s) = IF s = Head(due) THEN 0 ELSE In(gen[s] \in Asks)
  <2>1. Count(Tail(due), s) = Count(due, s) - In(Head(due) = s) /\ Count(due, s) = In(gen[s] \in Asks)
    BY <1>3, <1>4, CountTail DEF TaskList
  <2> QED BY <1>8, <2>1 DEF In
<1>10. Head(due) \in Busy
  BY <1>5, <1>8 DEF Busy, Asks
<1> QED BY <1>1, <1>4, <1>5, <1>8, <1>9, <1>10

LEMMA TaskBeginStep ==
  ASSUME LInv, TaskBegin, UNCHANGED tpc
  PROVE  LInv'
<1>0. Order /\ Locking /\ TaskList /\ Points /\ Runnable /\ Feeding
  BY DEF LInv, Scheduling
<1> DEFINE s == Head(due)
<1>1. /\ Running("task") /\ gen[s] = "created" /\ gen' = [gen EXCEPT ![s] = "sent"]
      /\ due' = Tail(due) /\ Waits(<<>>)
      /\ UNCHANGED <<at, lock, waiters, fed, taken, loop, finished, raised>>
  BY DEF TaskBegin, TaskFrame, picking
<1>2. /\ ready # <<>> /\ Head(ready) = "task" /\ s \in Samples
      /\ Tail(due) \in Seq(Samples) /\ Len(Tail(due)) = Len(due) - 1
      /\ \A t \in Samples : Count(Tail(due), t) = IF t = s THEN 0 ELSE In(gen[t] \in Asks)
  BY <1>0, <1>1, TaskRuns
<1> HIDE DEF s
<1>3. "task" \notin Coroutines
  BY DEF Coroutines
<1>4. /\ ready' \in Seq(Coroutines \cup {"task"}) /\ Once(ready') /\ Runs' = Runs
      /\ Count(ready', "task") = Count(ready, "task") - 1
  <2>1. /\ ready' \in Seq(Coroutines \cup {"task"}) /\ Once(ready')
        /\ Runs' = (Runs \ {Head(ready)}) \cup {}
        /\ Count(ready', "task") = Count(ready, "task") - In(Head(ready) = "task")
    <3>1. {} \cap Runs \subseteq {Head(ready)}
      OBVIOUS
    <3> QED BY <1>0, <1>1, <1>2, <3>1, WaitsStep, WokenNone DEF Waits
  <2> QED BY <1>2, <1>3, <2>1 DEF In, Runs
<1>5. Order' /\ Queued' = Queued
  BY <1>0, <1>1, <1>4 DEF Order, Queued
<1>6. Locking'
  BY <1>0, <1>1, <1>4, <1>5, KeepLocking DEF Points, AtLock, Inside, Locking
<1>7. TaskList' /\ Busy' = Busy
  <2>1. gen' \in [Samples -> {"none", "sent", "decoding"} \cup Asks]
    BY <1>0, <1>1, <1>2 DEF TaskList, Asks
  <2>2. \A t \in Samples : Count(due', t) = In(gen'[t] \in Asks)
    BY <1>0, <1>1, <1>2 DEF TaskList, Asks, In
  <2>3. Busy' = Busy
    BY <1>0, <1>1, <1>2 DEF TaskList, Busy
  <2> QED BY <1>0, <1>1, <1>2, <1>4, <2>1, <2>2, <2>3 DEF TaskList
<1>8. Points'
  BY <1>0, <1>1 DEF Points
<1>9. Runnable'
  BY <1>0, <1>1, <1>4, <1>7 DEF Runnable, FeedRuns, ProcRuns, ConsumerRuns, MainRuns, CallsRun
<1>10. Feeding'
  <2>1. ready[1] = "task"
    BY <1>0, <1>2, TailOnce DEF Order
  <2>2. ~(at["proc"] = "get" /\ "proc" \in Runs /\ at["feed"] = "on")
    <3>1. "proc" # "task"
      OBVIOUS
    <3> QED BY <1>0, <2>1, <3>1 DEF Feeding
  <2> QED BY <1>0, <1>1, <1>4, <1>7, <2>2 DEF Feeding
<1> QED BY <1>5, <1>6, <1>7, <1>8, <1>9, <1>10 DEF LInv, Scheduling

LEMMA TaskEndStep ==
  ASSUME LInv, TaskEnd, UNCHANGED tpc
  PROVE  LInv'
<1>0. Order /\ Locking /\ TaskList /\ Points /\ Runnable /\ Feeding
  BY DEF LInv, Scheduling
<1> DEFINE s == Head(due)
           wakesConsumer == gen[s] = "complete" /\ at["consumer"] = "idle"
           wakesProc == at["proc"] = "wait" /\ finished + raised = 0
           wakesPause == at["pause"] = "gather" /\ Cardinality(Busy) = 1
           C == IF wakesConsumer THEN {"consumer"} ELSE {}
           P == IF wakesProc THEN {"proc"} ELSE {}
           Q == IF wakesPause THEN {"pause"} ELSE {}
           c == IF wakesConsumer THEN <<"consumer">> ELSE <<>>
           p == IF wakesProc THEN <<"proc">> ELSE <<>>
           q == IF wakesPause THEN <<"pause">> ELSE <<>>
<1>1. /\ Running("task") /\ gen' = [gen EXCEPT ![s] = "none"]
      /\ IF gen[s] = "error" THEN raised' = raised + 1 /\ UNCHANGED finished
                             ELSE finished' = finished + 1 /\ UNCHANGED raised
      /\ at' = IF wakesConsumer THEN [at EXCEPT !["consumer"] = "on"] ELSE at
      /\ Waits(c \o (p \o q))
      /\ due' = Tail(due) /\ UNCHANGED <<lock, waiters, fed, taken, loop>>
  BY DEF TaskEnd, TaskFrame, TaskWakes, picking
<1>2. finished' \in Nat /\ raised' \in Nat /\ finished' + raised' > 0
  <2>1. finished \in Nat /\ raised \in Nat
    BY <1>0 DEF Feeding
  <2>2. CASE gen[s] = "error"
    BY <1>1, <2>1, <2>2
  <2>3. CASE gen[s] # "error"
    BY <1>1, <2>1, <2>3
  <2> QED BY <2>2, <2>3
<1>3. /\ ready # <<>> /\ Head(ready) = "task" /\ s \in Samples /\ s \in Busy
      /\ Tail(due) \in Seq(Samples) /\ Len(Tail(due)) = Len(due) - 1
      /\ \A t \in Samples : Count(Tail(due), t) = IF t = s THEN 0 ELSE In(gen[t] \in Asks)
  BY <1>0, <1>1, TaskRuns
<1> HIDE DEF s
<1>4. "task" \notin Coroutines /\ {"consumer", "proc", "pause"} \subseteq Coroutines
  BY DEF Coroutines
<1>5. /\ "consumer" \in C => "consumer" \notin Runs
      /\ "proc" \in P => "proc" \notin Runs
      /\ "pause" \in Q => "pause" \notin Runs
  BY <1>0, <1>2, <1>3, BusyFinite DEF Runnable, ConsumerRuns, ProcRuns, CallsRun
<1>6. Woken(c \o (p \o q), C \cup (P \cup Q))
  <2>1. Woken(c, C) /\ Woken(p, P) /\ Woken(q, Q)
    BY <1>4, WokenIf
  <2>2. P \cap Q = {} /\ C \cap (P \cup Q) = {}
    OBVIOUS
  <2> HIDE DEF c, C, p, P, q, Q
  <2> QED BY <2>1, <2>2, WokenBoth
<1>7. /\ ready' \in Seq(Coroutines \cup {"task"}) /\ Once(ready') /\ Runs' = Runs \cup (C \cup (P \cup Q))
      /\ Count(ready', "task") = Count(ready, "task") - 1
  <2>1. (C \cup (P \cup Q)) \cap Runs \subseteq {Head(ready)}
    BY <1>5
  <2> HIDE DEF c, C, p, P, q, Q
  <2>2. /\ ready' \in Seq(Coroutines \cup {"task"}) /\ Once(ready')
        /\ Runs' = (Runs \ {Head(ready)}) \cup (C \cup (P \cup Q))
        /\ Count(ready', "task") = Count(ready, "task") - In(Head(ready) = "task")
    BY <1>0, <1>1, <1>3, <1>6, <2>1, WaitsStep DEF Waits
  <2> QED BY <1>3, <1>4, <2>2 DEF In, Runs
<1>8. Order' /\ Queued' = Queued
  BY <1>0, <1>1, <1>7 DEF Order, Queued
<1>9. /\ DOMAIN at' = Coroutines
      /\ at'["consumer"] = IF wakesConsumer THEN "on" ELSE at["consumer"]
      /\ at'["feed"] = at["feed"] /\ at'["proc"] = at["proc"] /\ at'["main"] = at["main"]
      /\ at'["monitor"] = at["monitor"] /\ at'["pause"] = at["pause"]
      /\ at'["update"] = at["update"] /\ at'["resume"] = at["resume"]
  BY <1>0, <1>1 DEF Points, Coroutines
<1>10. \A d \in Coroutines : (AtLock(d)' <=> AtLock(d)) /\ (Inside(d)' <=> Inside(d))
  BY <1>9 DEF AtLock, Inside, Coroutines
<1>11. Locking'
  <2>1. \A d \in Queued : AtLock(d) /\ d \in Coroutines /\ d \notin Runs
    BY <1>0 DEF Locking, Queued
  <2>2. \A d \in Queued : d \notin C \cup (P \cup Q)
    BY <2>1 DEF AtLock
  <2> HIDE DEF C, P, Q
  <2> QED BY <1>0, <1>1, <1>7, <1>10, <2>1, <2>2, KeepLocking DEF Points
<1>12. Busy' = Busy \ {s}
  BY <1>0, <1>1, <1>3 DEF TaskList, Busy
<1>13. TaskList'
  <2>1. gen' \in [Samples -> {"none", "sent", "decoding"} \cup Asks]
    BY <1>0, <1>1, <1>3 DEF TaskList, Asks
  <2>2. \A t \in Samples : Count(due', t) = In(gen'[t] \in Asks)
    BY <1>0, <1>1, <1>3 DEF TaskList, Asks, In
  <2> QED BY <1>0, <1>1, <1>3, <1>7, <2>1, <2>2 DEF TaskList
<1>14. Cardinality(Busy) = 1 <=> Busy' = {}
  <2>1. Cardinality(Busy \ {s}) = Cardinality(Busy) - 1
    BY <1>3, BusyFinite, FS_RemoveElement
  <2>2. IsFiniteSet(Busy \ {s}) /\ Cardinality(Busy) \in Nat
    BY BusyFinite, FS_RemoveElement
  <2>3. Cardinality(Busy \ {s}) = 0 <=> Busy \ {s} = {}
    BY <2>2, FS_EmptySet
  <2> QED BY <1>12, <2>1, <2>2, <2>3
<1>15. Points'
  BY <1>0, <1>1, <1>9 DEF Points
<1>16. Runnable'
  <2>1. at["proc"] # "ended"
    BY <1>0, <1>3 DEF Feeding
  <2>2. FeedRuns' /\ ProcRuns'
    <3>1. FeedRuns'
      BY <1>0, <1>7, <1>9 DEF Runnable, FeedRuns
    <3>2. "proc" \in Runs' <=> "proc" \in Runs \/ wakesProc
      BY <1>7
    <3>3. finished + raised = 0 \/ finished + raised > 0
      BY <1>0 DEF Feeding
    <3>4. at["proc"] = "wait" => "proc" \in Runs'
      BY <1>0, <3>2, <3>3 DEF Runnable, ProcRuns
    <3>5. ProcRuns'
      BY <1>0, <1>1, <1>2, <1>9, <3>2, <3>4 DEF Runnable, ProcRuns
    <3> QED BY <3>1, <3>5
  <2>3. ConsumerRuns' /\ MainRuns'
    BY <1>0, <1>1, <1>7, <1>9, <2>1 DEF Runnable, ConsumerRuns, MainRuns
  <2>4. CallsRun'
    BY <1>0, <1>3, <1>7, <1>9, <1>14 DEF Runnable, CallsRun
  <2> QED BY <2>2, <2>3, <2>4 DEF Runnable
<1>17. Feeding'
  <2>1. ready[1] = "task" /\ "proc" # "task"
    BY <1>0, <1>3, TailOnce DEF Order
  <2>2. ~(at["proc"] = "get" /\ "proc" \in Runs /\ at["feed"] = "on")
    BY <1>0, <2>1 DEF Feeding
  <2>3. ~(at'["proc"] = "get" /\ "proc" \in Runs' /\ at'["feed"] = "on")
    BY <1>7, <1>9, <2>2
  <2> HIDE DEF C, P, Q
  <2> QED BY <1>0, <1>1, <1>2, <1>9, <1>12, <2>3 DEF Feeding
<1> QED BY <1>8, <1>11, <1>13, <1>15, <1>16, <1>17 DEF LInv, Scheduling

LEMMA ServerStep ==
  ASSUME LInv, Server, UNCHANGED tpc
  PROVE  LInv'
<1>0. Order /\ Locking /\ TaskList /\ Points /\ Runnable /\ Feeding
  BY DEF LInv, Scheduling
<1>1. PICK s \in Samples : ServerStarts(s) \/ ServerFinishes(s) \/ ServerCancels(s) \/ ServerRaises(s)
  BY DEF Server
<1>2. /\ gen[s] \in {"sent", "decoding"}
      /\ UNCHANGED <<at, lock, waiters, fed, taken, loop, finished, raised>>
      /\ \/ gen' = [gen EXCEPT ![s] = "decoding"] /\ UNCHANGED <<ready, due>>
         \/ \E answer \in Asks : /\ gen' = [gen EXCEPT ![s] = answer]
                                 /\ ready' = Append(ready, "task") /\ due' = Append(due, s)
  <2>1. CASE ServerStarts(s)
    BY <2>1 DEF ServerStarts, ServerFrame, picking
  <2>2. CASE ServerFinishes(s)
    BY <2>2 DEF ServerFinishes, ServerAnswers, ServerFrame, picking, Asks
  <2>3. CASE ServerCancels(s)
    BY <2>3 DEF ServerCancels, ServerAnswers, ServerFrame, picking, Asks
  <2>4. CASE ServerRaises(s)
    BY <2>4 DEF ServerRaises, ServerAnswers, ServerFrame, picking, Asks
  <2> QED BY <1>1, <2>1, <2>2, <2>3, <2>4
<1>3. /\ Busy' = Busy /\ gen' \in [Samples -> {"none", "sent", "decoding"} \cup Asks]
  BY <1>0, <1>2 DEF Busy, TaskList, Asks
<1>4. /\ Order' /\ Runs' = Runs /\ Queued' = Queued /\ TaskList'
      /\ ready # <<>> => ready'[1] = ready[1]
  <2>1. CASE gen' = [gen EXCEPT ![s] = "decoding"] /\ UNCHANGED <<ready, due>>
    <3>1. \A t \in Samples : Count(due', t) = In(gen'[t] \in Asks)
      BY <1>0, <1>2, <2>1 DEF TaskList, Asks
    <3>2. Order' /\ Runs' = Runs /\ Queued' = Queued
      BY <1>0, <1>2, <2>1 DEF Order, Runs, Queued
    <3>3. TaskList'
      BY <1>0, <1>3, <2>1, <3>1 DEF TaskList
    <3> QED BY <2>1, <3>2, <3>3
  <2>2. ASSUME NEW answer \in Asks, gen' = [gen EXCEPT ![s] = answer],
               ready' = Append(ready, "task"), due' = Append(due, s)
        PROVE  /\ Order' /\ Runs' = Runs /\ Queued' = Queued /\ TaskList'
               /\ ready # <<>> => ready'[1] = ready[1]
    <3>1. "task" \notin Coroutines /\ "task" \notin Runs
      BY DEF Coroutines, Runs
    <3>2. /\ ready' \in Seq(Coroutines \cup {"task"}) /\ Once(ready')
          /\ Runs' = Runs \cup ({"task"} \ {"task"}) /\ (ready # <<>> => ready'[1] = ready[1])
          /\ Count(ready', "task") = Count(ready, "task") + In("task" = "task")
      BY <1>0, <2>2, <3>1, WakeStep
    <3>3. Runs' = Runs /\ Count(ready', "task") = Count(ready, "task") + 1
      BY <3>2 DEF In
    <3>4. due' \in Seq(Samples) /\ Len(due') = Len(due) + 1
      BY <1>0, <2>2, AppendProperties DEF TaskList
    <3>5. ASSUME NEW t \in Samples PROVE Count(due', t) = In(gen'[t] \in Asks)
      <4>1. Count(due', t) = Count(due, t) + In(s = t) /\ Count(due, t) = In(gen[t] \in Asks)
        BY <1>0, <2>2, CountAppend DEF TaskList
      <4> QED BY <1>0, <1>2, <2>2, <4>1 DEF In, TaskList, Asks
    <3>6. TaskList'
      BY <1>0, <1>3, <3>3, <3>4, <3>5 DEF TaskList
    <3>7. Order' /\ Queued' = Queued
      BY <1>0, <1>2, <3>2 DEF Order, Queued
    <3> QED BY <3>2, <3>3, <3>6, <3>7
  <2> QED BY <1>2, <2>1, <2>2
<1>5. Locking'
  BY <1>0, <1>2, <1>4, KeepLocking DEF Points, AtLock, Inside, Locking
<1>6. Scheduling'
  <2>1. "proc" \in Runs => ready # <<>>
    BY DEF Runs, Has
  <2>2. Points'
    BY <1>0, <1>2 DEF Points
  <2>3. Runnable'
    BY <1>0, <1>2, <1>3, <1>4
       DEF Runnable, FeedRuns, ProcRuns, ConsumerRuns, MainRuns, CallsRun
  <2>4. Feeding'
    BY <1>0, <1>2, <1>3, <1>4, <2>1 DEF Feeding
  <2> QED BY <2>2, <2>3, <2>4 DEF Scheduling
<1> QED BY <1>4, <1>5, <1>6 DEF LInv
-----------------------------------------------------------------------------
\* The other coroutines: steps that leave the lock alone.

LEMMA QuietStep ==
  ASSUME Order, Locking, TaskList, DOMAIN at = Coroutines, NEW c \in Coroutines, Running(c),
         NEW w, NEW S, Woken(w, S), S \cap Runs = {}, Waits(w), UNCHANGED <<lock, waiters, gen, due>>,
         \A d \in Coroutines :
           /\ AtLock(d)' => AtLock(d) /\ d # c
           /\ Inside(d)' <=> Inside(d)
           /\ d \in Queued => AtLock(d)' /\ d \notin S
  PROVE  Order' /\ Locking' /\ TaskList' /\ Busy' = Busy /\ Runs' = (Runs \ {c}) \cup S
<1>1. /\ Order' /\ Runs' = (Runs \ {c}) \cup S /\ Queued' = Queued
      /\ Count(ready', "task") = Count(ready, "task")
  BY QuietWait
<1>2. TaskList' /\ Busy' = Busy
  BY <1>1, TasksKept
<1>3. \A d \in Queued : d \in Coroutines /\ d \notin Runs
  BY DEF Locking, Queued
<1>4. Locking'
  BY <1>1, <1>3, KeepLocking
<1> QED BY <1>1, <1>2, <1>4

\* Feeding, after a step of another coroutine than the processor.
LEMMA FeedingKept ==
  ASSUME Feeding, NEW c, ready[1] = c, c # "proc", UNCHANGED <<fed, taken, loop>>,
         finished' \in Nat, raised' \in Nat, Busy' = Busy, at'["feed"] = at["feed"],
         at'["proc"] = at["proc"] \/ at'["proc"] \notin {"ended", "get"},
         at'["proc"] = "get" /\ "proc" \in Runs' => "proc" \in Runs
  PROVE  Feeding'
BY DEF Feeding

LEMMA ConsumerPutsStep ==
  ASSUME LInv, ConsumerPuts, UNCHANGED tpc
  PROVE  LInv'
<1>0. Order /\ Locking /\ TaskList /\ Points /\ Runnable /\ Feeding
  BY DEF LInv, Scheduling
<1>1. /\ Running("consumer") /\ at["consumer"] = "on" /\ at' = [at EXCEPT !["consumer"] = "put"]
      /\ Waits(<<>>) /\ UNCHANGED <<due, lock, waiters, fed, taken, loop, finished, raised, gen>>
  BY DEF ConsumerPuts, RunningAt, RunningIn, Go, picking, tasks
<1>2. "consumer" \in Coroutines /\ ready[1] = "consumer"
  BY <1>0, <1>1, RunningIs DEF Coroutines
<1>3. \A d \in Coroutines :
        /\ AtLock(d)' => AtLock(d) /\ d # "consumer"
        /\ Inside(d)' <=> Inside(d)
        /\ d \in Queued => AtLock(d)'
  BY <1>0, <1>1 DEF Points, AtLock, Inside, Locking, Coroutines
<1>4. Order' /\ Locking' /\ TaskList' /\ Busy' = Busy /\ Runs' = (Runs \ {"consumer"}) \cup {}
  <2>1. {} \cap Runs = {} /\ DOMAIN at = Coroutines
    BY <1>0 DEF Points
  <2> QED BY <1>0, <1>1, <1>2, <1>3, <2>1, QuietStep, WokenNone
<1>5. Points'
  BY <1>0, <1>1 DEF Points, Coroutines
<1>6. Runnable'
  BY <1>0, <1>1, <1>4
     DEF Runnable, FeedRuns, ProcRuns, ConsumerRuns, MainRuns, CallsRun, Points, Coroutines
<1>7. Feeding'
  <2>1. at'["feed"] = at["feed"] /\ at'["proc"] = at["proc"]
    BY <1>0, <1>1 DEF Points, Coroutines
  <2>2. finished' \in Nat /\ raised' \in Nat /\ "proc" # "consumer"
    BY <1>0, <1>1 DEF Feeding
  <2> QED BY <1>0, <1>1, <1>2, <1>4, <2>1, <2>2, FeedingKept
<1> QED BY <1>4, <1>5, <1>6, <1>7 DEF LInv, Scheduling

LEMMA ConsumerIdlesStep ==
  ASSUME LInv, ConsumerIdles, UNCHANGED tpc
  PROVE  LInv'
<1> DEFINE w == IF at["main"] = "join" THEN <<"main">> ELSE <<>>
           S == IF at["main"] = "join" THEN {"main"} ELSE {}
<1>0. Order /\ Locking /\ TaskList /\ Points /\ Runnable /\ Feeding
  BY DEF LInv, Scheduling
<1>1. /\ Running("consumer") /\ at["consumer"] = "on" /\ at' = [at EXCEPT !["consumer"] = "idle"]
      /\ Waits(w) /\ UNCHANGED <<due, lock, waiters, fed, taken, loop, finished, raised, gen>>
  BY DEF ConsumerIdles, RunningAt, RunningIn, Go, picking, tasks
<1>2. {"consumer", "main"} \subseteq Coroutines /\ ready[1] = "consumer"
  BY <1>0, <1>1, RunningIs DEF Coroutines
<1>3. \A d \in Coroutines :
        /\ AtLock(d)' => AtLock(d) /\ d # "consumer"
        /\ Inside(d)' <=> Inside(d)
        /\ d \in Queued => AtLock(d)' /\ d \notin S
  BY <1>0, <1>1 DEF Points, AtLock, Inside, Locking, Coroutines
<1>4. Woken(w, S) /\ S \cap Runs = {}
  <2>1. Woken(w, S)
    BY <1>2, WokenIf
  <2>2. S \cap Runs = {}
    BY <1>0, <1>1 DEF Runnable, MainRuns
  <2> QED BY <2>1, <2>2
<1>5. Order' /\ Locking' /\ TaskList' /\ Busy' = Busy /\ Runs' = (Runs \ {"consumer"}) \cup S
  <2>1. DOMAIN at = Coroutines
    BY <1>0 DEF Points
  <2> HIDE DEF w, S
  <2> QED BY <1>0, <1>1, <1>2, <1>3, <1>4, <2>1, QuietStep
<1>6. Points'
  BY <1>0, <1>1 DEF Points, Coroutines
<1>7. Runnable'
  BY <1>0, <1>1, <1>5
     DEF Runnable, FeedRuns, ProcRuns, ConsumerRuns, MainRuns, CallsRun, Points, Coroutines
<1>8. Feeding'
  <2>1. at'["feed"] = at["feed"] /\ at'["proc"] = at["proc"]
    BY <1>0, <1>1 DEF Points, Coroutines
  <2>2. finished' \in Nat /\ raised' \in Nat /\ "proc" # "consumer"
    BY <1>0, <1>1 DEF Feeding
  <2> QED BY <1>0, <1>1, <1>2, <1>5, <2>1, <2>2, FeedingKept
<1> QED BY <1>5, <1>6, <1>7, <1>8 DEF LInv, Scheduling

LEMMA MainJoinsStep ==
  ASSUME LInv, MainJoins, UNCHANGED tpc
  PROVE  LInv'
<1>0. Order /\ Locking /\ TaskList /\ Points /\ Runnable /\ Feeding
  BY DEF LInv, Scheduling
<1>1. /\ Running("main") /\ at["main"] = "on" /\ at["proc"] = "ended"
      /\ at' = [at EXCEPT !["main"] = "join"]
      /\ Waits(<<>>) /\ UNCHANGED <<due, lock, waiters, fed, taken, loop, finished, raised, gen>>
  BY DEF MainJoins, RunningAt, RunningIn, Go, picking, tasks
<1>2. "main" \in Coroutines /\ ready[1] = "main" /\ "main" \in Runs
  BY <1>0, <1>1, RunningIs DEF Coroutines
<1>3. \A d \in Coroutines :
        /\ AtLock(d)' => AtLock(d) /\ d # "main"
        /\ Inside(d)' <=> Inside(d)
        /\ d \in Queued => AtLock(d)'
  BY <1>0, <1>1 DEF Points, AtLock, Inside, Locking, Coroutines
<1>4. Order' /\ Locking' /\ TaskList' /\ Busy' = Busy /\ Runs' = (Runs \ {"main"}) \cup {}
  <2>1. {} \cap Runs = {} /\ DOMAIN at = Coroutines
    BY <1>0 DEF Points
  <2> QED BY <1>0, <1>1, <1>2, <1>3, <2>1, QuietStep, WokenNone
<1>5. Points'
  BY <1>0, <1>1 DEF Points, Coroutines
<1>6. Runnable'
  BY <1>0, <1>1, <1>2, <1>4
     DEF Runnable, FeedRuns, ProcRuns, ConsumerRuns, MainRuns, CallsRun, Points, Coroutines
<1>7. Feeding'
  <2>1. at'["feed"] = at["feed"] /\ at'["proc"] = at["proc"]
    BY <1>0, <1>1 DEF Points, Coroutines
  <2>2. finished' \in Nat /\ raised' \in Nat /\ "proc" # "main"
    BY <1>0, <1>1 DEF Feeding
  <2> QED BY <1>0, <1>1, <1>2, <1>4, <2>1, <2>2, FeedingKept
<1> QED BY <1>4, <1>5, <1>6, <1>7 DEF LInv, Scheduling

LEMMA RemoveOnce ==
  ASSUME NEW A, NEW s \in Seq(A), Once(s), NEW e, e # "task"
  PROVE  /\ RemoveFirst(s, e) \in Seq(A) /\ Once(RemoveFirst(s, e))
         /\ \A x : Has(RemoveFirst(s, e), x) <=> Has(s, x) /\ x # e
         /\ Count(RemoveFirst(s, e), "task") = Count(s, "task")
<1>1. CASE ~Has(s, e)
  <2>1. RemoveFirst(s, e) = s
    BY <1>1 DEF RemoveFirst, Has
  <2> QED BY <1>1, <2>1
<1>2. CASE Has(s, e)
  <2>1. PICK k \in 1..Len(s) : s[k] = e
    BY <1>2 DEF Has
  <2>2. {i \in 1..Len(s) : s[i] = e} = {k}
    BY <2>1 DEF Once
  <2>3. Min({k}) = k
    BY <2>1 DEF Min
  <2>4. RemoveFirst(s, e) = RemoveAt(s, k)
    BY <1>2, <2>2, <2>3 DEF RemoveFirst, SelectInSeq, Has
  <2> DEFINE a == SubSeq(s, 1, k - 1)
             b == SubSeq(s, k + 1, Len(s))
             r == RemoveAt(s, k)
  <2>5. Len(s) \in Nat /\ k \in Nat /\ \A i \in 1..Len(s) : s[i] \in A
    BY <2>1, LenProperties, ElementOfSeq
  <2>6. /\ a \in Seq(A) /\ Len(a) = k - 1 /\ \A i \in 1..k - 1 : a[i] = s[i]
        /\ b \in Seq(A) /\ Len(b) = Len(s) - k /\ \A i \in 1..Len(s) - k : b[i] = s[k + i]
    <3>1. \A m \in 1..Len(s) + 1, n \in Int : n \in m - 1..Len(s) =>
            /\ SubSeq(s, m, n) \in Seq(A)
            /\ Len(SubSeq(s, m, n)) = (n - m) + 1
            /\ \A i \in 1..(n - m) + 1 : SubSeq(s, m, n)[i] = s[(m + i) - 1]
      BY <2>5, SubSeqProperties
    <3>2. /\ 1 \in 1..Len(s) + 1 /\ k - 1 \in Int /\ k - 1 \in 1 - 1..Len(s)
          /\ k + 1 \in 1..Len(s) + 1 /\ Len(s) \in Int /\ Len(s) \in (k + 1) - 1..Len(s)
      BY <2>1, <2>5
    <3>3. /\ a \in Seq(A) /\ Len(a) = ((k - 1) - 1) + 1
          /\ \A i \in 1..((k - 1) - 1) + 1 : a[i] = s[(1 + i) - 1]
      BY <3>1, <3>2
    <3>4. /\ b \in Seq(A) /\ Len(b) = (Len(s) - (k + 1)) + 1
          /\ \A i \in 1..(Len(s) - (k + 1)) + 1 : b[i] = s[((k + 1) + i) - 1]
      BY <3>1, <3>2
    <3> HIDE DEF a, b
    <3> QED BY <2>1, <2>5, <3>3, <3>4
  <2>7. r = a \o b
    BY DEF RemoveAt
  <2> HIDE DEF a, b, r
  <2>8. /\ r \in Seq(A) /\ Len(r) = Len(s) - 1
        /\ \A i \in 1..Len(s) - 1 : r[i] = IF i < k THEN s[i] ELSE s[i + 1]
    <3>1. /\ r \in Seq(A) /\ Len(r) = Len(a) + Len(b)
          /\ \A i \in 1..Len(a) + Len(b) : r[i] = IF i <= Len(a) THEN a[i] ELSE b[i - Len(a)]
      BY <2>6, <2>7, ConcatProperties
    <3>2. Len(a) + Len(b) = Len(s) - 1
      BY <2>1, <2>5, <2>6
    <3>3. ASSUME NEW i \in 1..Len(s) - 1
          PROVE  r[i] = IF i < k THEN s[i] ELSE s[i + 1]
      <4>1. CASE i < k
        <5>1. i <= Len(a) /\ i \in 1..k - 1 /\ i \in 1..Len(a) + Len(b)
          BY <2>1, <2>5, <2>6, <3>2, <4>1
        <5> QED BY <2>6, <3>1, <4>1, <5>1
      <4>2. CASE ~(i < k)
        <5>1. ~(i <= Len(a)) /\ i - Len(a) \in 1..Len(s) - k /\ k + (i - Len(a)) = i + 1
              /\ i \in 1..Len(a) + Len(b)
          BY <2>1, <2>5, <2>6, <3>2, <4>2
        <5> QED BY <2>6, <3>1, <4>2, <5>1
      <4> QED BY <4>1, <4>2
    <3> QED BY <3>1, <3>2, <3>3
  <2> DEFINE from == [i \in 1..Len(r) |-> IF i < k THEN i ELSE i + 1]
  <2>9. \A i \in 1..Len(r) : from[i] \in 1..Len(s) /\ from[i] # k /\ r[i] = s[from[i]]
    BY <2>1, <2>5, <2>8
  <2>10. \A i, j \in 1..Len(r) : from[i] = from[j] => i = j
    BY <2>1, <2>5, <2>8
  <2>11. ASSUME NEW j \in 1..Len(s), j # k
         PROVE  \E i \in 1..Len(r) : from[i] = j
    <3>1. CASE j < k
      <4>1. j \in 1..Len(r) /\ from[j] = j
        BY <2>1, <2>5, <2>8, <3>1
      <4> QED BY <4>1
    <3>2. CASE ~(j < k)
      <4>1. j - 1 \in 1..Len(r) /\ from[j - 1] = j
        BY <2>1, <2>5, <2>8, <2>11, <3>2
      <4> QED BY <4>1
    <3> QED BY <3>1, <3>2
  <2>12. from \in [1..Len(r) -> 1..Len(s)]
    BY <2>9
  <2> HIDE DEF from
  <2>13. Once(r)
    BY <2>9, <2>10, SMTT(30) DEF Once
  <2>14. ASSUME NEW x PROVE Has(r, x) <=> Has(s, x) /\ x # e
    <3>1. ASSUME NEW i \in 1..Len(r), r[i] = x PROVE Has(s, x) /\ x # e
      BY <2>1, <2>2, <2>9, <3>1 DEF Has
    <3>2. ASSUME NEW j \in 1..Len(s), s[j] = x, x # e PROVE Has(r, x)
      BY <2>1, <2>9, <2>11, <3>2 DEF Has
    <3> QED BY <3>1, <3>2 DEF Has
  <2>15. Count(r, "task") = Count(s, "task")
    <3> DEFINE before == {i \in DOMAIN s : s[i] = "task"}
               after == {i \in DOMAIN r : r[i] = "task"}
               f == [i \in after |-> from[i]]
    <3>1. DOMAIN s = 1..Len(s) /\ DOMAIN r = 1..Len(r) /\ IsFiniteSet(before) /\ IsFiniteSet(after)
      BY <2>8, LenProperties, CountType
    <3>2. f \in [after -> before]
      BY <2>9, <3>1
    <3>3. \A i, j \in after : f[i] = f[j] => i = j
      BY <2>10, <3>1
    <3>4. \A j \in before : \E i \in after : f[i] = j
      BY <2>1, <2>9, <2>11, <3>1, SMTT(30)
    <3>5. f \in Bijection(after, before)
      BY <3>2, <3>3, <3>4 DEF Bijection, Injection, Surjection, IsInjective
    <3>6. Cardinality(after) = Cardinality(before)
      BY <3>1, <3>5, FS_Bijection DEF ExistsBijection
    <3> QED BY <3>6 DEF Count
  <2> QED BY <2>4, <2>8, <2>13, <2>14, <2>15 DEF r
<1> QED BY <1>1, <1>2

LEMMA MainFinishesStep ==
  ASSUME LInv, MainFinishes, UNCHANGED tpc
  PROVE  LInv'
<1> DEFINE rest == Tail(ready)
<1>0. Order /\ Locking /\ TaskList /\ Points /\ Runnable /\ Feeding
  BY DEF LInv, Scheduling
<1>1. /\ Running("main") /\ at["main"] \in {"on", "join"}
      /\ at' = [at EXCEPT !["main"] = "put", !["consumer"] = "off"]
      /\ ready' = RemoveFirst(rest, "consumer")
      /\ UNCHANGED <<due, lock, waiters, fed, taken, loop, finished, raised, gen>>
  BY DEF MainFinishes, RunningIn, picking, tasks
<1>2. /\ "main" \in Coroutines /\ "consumer" \in Coroutines /\ "task" \notin Coroutines
      /\ "consumer" # "task" /\ "main" # "task"
  BY DEF Coroutines
<1>3. ready[1] = "main" /\ Head(ready) = "main" /\ "main" \in Runs /\ ready # <<>>
  BY <1>0, <1>1, <1>2, RunningIs
<1>4. /\ rest \in Seq(Coroutines \cup {"task"}) /\ Once(rest)
      /\ \A e : e # "task" => (Has(rest, e) <=> Has(ready, e) /\ e # "main")
      /\ Count(rest, "task") = Count(ready, "task")
  <2>1. rest \in Seq(Coroutines \cup {"task"})
    BY <1>0, <1>3, HeadTailProperties DEF Order
  <2>2. Count(rest, "task") = Count(ready, "task") - In("main" = "task")
    BY <1>0, <1>3, CountTail DEF Order
  <2>3. Count(ready, "task") \in Nat /\ In("main" = "task") = 0
    BY <1>0, <1>2, CountType DEF Order, In
  <2> QED BY <1>0, <1>3, <2>1, <2>2, <2>3, TailOnce DEF Order
<1> HIDE DEF rest
<1>5. /\ ready' \in Seq(Coroutines \cup {"task"}) /\ Once(ready')
      /\ \A e : Has(ready', e) <=> Has(rest, e) /\ e # "consumer"
      /\ Count(ready', "task") = Count(ready, "task")
  BY <1>1, <1>2, <1>4, RemoveOnce
<1>6. Order' /\ Queued' = Queued
  BY <1>0, <1>1, <1>5 DEF Order, Queued
<1>7. Runs' = Runs \ {"main", "consumer"}
  BY <1>2, <1>4, <1>5 DEF Runs
<1>8. TaskList' /\ Busy' = Busy
  BY <1>0, <1>1, <1>5, TasksKept
<1>9. \A d \in Coroutines : (AtLock(d)' <=> AtLock(d)) /\ (Inside(d)' <=> Inside(d))
  BY <1>0, <1>1 DEF Points, AtLock, Inside, Coroutines
<1>10. Locking'
  <2>1. \A d \in Queued : AtLock(d) /\ d \in Coroutines /\ d \notin Runs
    BY <1>0 DEF Locking, Queued
  <2>2. ~AtLock("main") /\ ~AtLock("consumer")
    BY <1>1 DEF AtLock
  <2> QED BY <1>0, <1>1, <1>7, <1>9, <2>1, <2>2, KeepLocking DEF Points
<1>11. Points'
  BY <1>0, <1>1 DEF Points, Coroutines
<1>12. Runnable'
  BY <1>0, <1>1, <1>3, <1>7, <1>8
     DEF Runnable, FeedRuns, ProcRuns, ConsumerRuns, MainRuns, CallsRun, Points, Coroutines
<1>13. Feeding'
  <2>1. at'["feed"] = at["feed"] /\ at'["proc"] = at["proc"]
    BY <1>0, <1>1 DEF Points, Coroutines
  <2>2. finished' \in Nat /\ raised' \in Nat /\ "proc" # "main"
    BY <1>0, <1>1 DEF Feeding
  <2> QED BY <1>0, <1>1, <1>3, <1>7, <1>8, <2>1, <2>2, FeedingKept
<1> QED BY <1>6, <1>8, <1>10, <1>11, <1>12, <1>13 DEF LInv, Scheduling
-----------------------------------------------------------------------------
\* The monitor and the calls: steps that ask for the lock or give it back.

LEMMA MonitorLooksStep ==
  ASSUME LInv, MonitorLooks, UNCHANGED tpc
  PROVE  LInv'
<1>0. Order /\ Locking /\ TaskList /\ Points /\ Runnable /\ Feeding
  BY DEF LInv, Scheduling
<1>1. /\ Running("monitor") /\ at["monitor"] = "awake" /\ ~Inside("monitor")
      /\ UNCHANGED <<fed, taken, loop, finished, raised, gen>>
  BY DEF MonitorLooks, RunningAt, RunningIn, Inside, AtLock, picking, tasks
<1>2. CASE trigger /\ ~ShouldPause
  <2>1. Acquire("monitor", "unpause")
    BY <1>2 DEF MonitorLooks
  <2>2. AtLock("monitor")'
    BY <1>0, <2>1 DEF Acquire, Go, AtLock, Points, Coroutines
  <2> QED BY <1>1, <2>1, <2>2, AcquireStep
<1>3. CASE ~(trigger /\ ~ShouldPause)
  <2>1. /\ at' = [at EXCEPT !["monitor"] = "loop"] /\ Continues(<<>>) /\ UNCHANGED <<due, lock, waiters>>
    BY <1>3 DEF MonitorLooks, Go
  <2>2. "monitor" \in Coroutines /\ ready[1] = "monitor" /\ "monitor" \in Runs
    BY <1>0, <1>1, RunningIs DEF Coroutines
  <2>3. /\ Order' /\ Runs' = Runs /\ Queued' = Queued /\ ready'[1] = "monitor"
        /\ Count(ready', "task") = Count(ready, "task")
    <3>1. {} \cap Runs = {} /\ Runs \cup {} = Runs
      OBVIOUS
    <3> QED BY <1>0, <1>1, <2>1, <2>2, <3>1, QuietContinue, WokenNone
  <2>4. TaskList' /\ Busy' = Busy
    BY <1>0, <1>1, <2>1, <2>3, TasksKept
  <2>5. Locking'
    BY <1>0, <1>1, <2>1, <2>2, <2>3, KeepLocking DEF Points, AtLock, Inside, Locking, Coroutines
  <2>6. Points'
    BY <1>0, <2>1 DEF Points, Coroutines
  <2>7. Runnable'
    BY <1>0, <1>1, <2>1, <2>2, <2>3, <2>4
       DEF Runnable, FeedRuns, ProcRuns, ConsumerRuns, MainRuns, CallsRun, Points, Coroutines
  <2>8. Feeding'
    <3>1. at'["feed"] = at["feed"] /\ at'["proc"] = at["proc"]
      BY <1>0, <2>1 DEF Points, Coroutines
    <3>2. finished' \in Nat /\ raised' \in Nat /\ "proc" # "monitor"
      BY <1>0, <1>1 DEF Feeding
    <3> QED BY <1>0, <1>1, <2>2, <2>3, <2>4, <3>1, <3>2, FeedingKept
  <2> QED BY <2>3, <2>4, <2>5, <2>6, <2>7, <2>8 DEF LInv, Scheduling
<1> QED BY <1>2, <1>3

\* main after its last message, and the monitor before each sleep.
LEMMA LocksStep ==
  ASSUME LInv, MainLocks \/ MonitorLocks, UNCHANGED tpc
  PROVE  LInv'
<1>1. PICK c \in {"main", "monitor"}, point \in {"stop", "check"} :
        /\ Running(c) /\ Acquire(c, point)
        /\ \/ c = "main" /\ point = "stop" /\ at["main"] = "put"
           \/ c = "monitor" /\ point = "check" /\ at["monitor"] = "loop"
        /\ UNCHANGED <<fed, taken, loop, finished, raised, gen>>
  BY DEF MainLocks, MonitorLocks, RunningAt, RunningIn, picking, tasks
<1>2. ~Inside(c)
  BY <1>1 DEF Inside, AtLock
<1>3. AtLock(c)'
  BY <1>1 DEF LInv, Scheduling, Points, Acquire, Go, AtLock, Coroutines
<1> QED BY <1>1, <1>2, <1>3, AcquireStep

LEMMA EntersStep ==
  ASSUME LInv, PauseCalled \/ UpdateCalled \/ ResumeCalled, UNCHANGED tpc
  PROVE  LInv'
<1>1. PICK c \in {"pause", "update", "resume"}, point \in {"start", "unpause"} :
        Enters(c, point) /\ (c = "resume" <=> point = "unpause")
  BY DEF PauseCalled, UpdateCalled, ResumeCalled
<1>2. /\ Running(c) /\ at[c] = "called" /\ Acquire(c, point)
      /\ UNCHANGED <<fed, taken, loop, finished, raised, gen>>
  BY <1>1 DEF Enters, RunningAt, RunningIn, picking, tasks
<1>3. ~Inside(c)
  BY <1>2 DEF Inside, AtLock
<1>4. AtLock(c)'
  BY <1>1, <1>2 DEF LInv, Scheduling, Points, Acquire, Go, AtLock, Coroutines
<1> QED BY <1>2, <1>3, <1>4, AcquireStep

\* The holder c leaves the lock, with or without a notification of the processor.
LEMMA CallReleases ==
  ASSUME LInv, NEW c \in {"main", "monitor", "pause", "update", "resume"}, Running(c), Inside(c), Release,
         NEW point, \/ c = "main" /\ point = "done"
                    \/ c = "monitor" /\ point \in {"loop", "sleep", "off"}
                    \/ c = "pause" /\ point = "returned"
                    \/ c \in {"update", "resume"} /\ point = "off",
         NEW n, NEW N \in {{}, {"proc"}}, Woken(n, N), N = {"proc"} => at["proc"] = "asleep",
         IF point = "loop" THEN Continues(n \o NextHolder) ELSE Waits(n \o NextHolder),
         DOMAIN at' = Coroutines, at'[c] = point,
         \A d \in Coroutines \ {c, "proc"} : at'[d] = at[d],
         at'["proc"] = IF N = {"proc"} THEN "notified" ELSE at["proc"],
         UNCHANGED <<due, fed, taken, loop, finished, raised, gen, tpc>>
  PROVE  LInv'
<1>0. Order /\ Locking /\ TaskList /\ Points /\ Runnable /\ Feeding
  BY DEF LInv, Scheduling
<1>1. /\ c \in Coroutines /\ c # "proc" /\ c \in Runs /\ c \notin Queued /\ lock = c
      /\ ready[1] = c /\ ready # <<>>
  BY <1>0, RunningIs DEF Coroutines
<1>2. N = {"proc"} => "proc" \notin Runs /\ "proc" \notin Queued
  BY <1>0, HandedAt DEF Runnable, ProcRuns
<1>3. Woken(NextHolder, Handed) /\ Handed \subseteq Queued /\ Handed \cap Runs = {}
  BY <1>0, ReleaseEffect, HandedAt
<1> DEFINE S == N \cup Handed
<1>4. Woken(n \o NextHolder, S) /\ S \cap Runs = {} /\ S \cap Queued \subseteq Handed /\ Handed \subseteq S
  <2>1. N \cap Handed = {}
    BY <1>2, <1>3
  <2> QED BY <1>2, <1>3, <2>1, WokenBoth
<1>5. ~Inside(c)'
  BY <1>1 DEF Inside, AtLock
<1>6. \A d \in Coroutines \ {c} : (AtLock(d)' <=> AtLock(d)) /\ (Inside(d)' <=> Inside(d))
  BY DEF Inside, AtLock, Coroutines
<1>7. /\ Order' /\ Locking' /\ Count(ready', "task") = Count(ready, "task")
      /\ Runs' = (IF point = "loop" THEN Runs ELSE Runs \ {c}) \cup S
  <2> HIDE DEF S
  <2>1. CASE point = "loop"
    BY <1>0, <1>1, <1>4, <1>5, <1>6, <2>1, ReleaseStep
  <2>2. CASE point # "loop"
    BY <1>0, <1>1, <1>4, <1>5, <1>6, <2>2, ReleaseStep
  <2> QED BY <2>1, <2>2
<1>8. TaskList' /\ Busy' = Busy
  BY <1>0, <1>7, TasksKept
<1>9. Points'
  <2>1. /\ at'["feed"] = at["feed"] /\ at'["consumer"] = at["consumer"]
        /\ at'["main"] = at["main"] \/ at'["main"] = "done"
        /\ at'["proc"] = at["proc"] \/ at'["proc"] = "notified"
        /\ \/ at'["monitor"] = at["monitor"]
           \/ at'["monitor"] \in {"loop", "sleep", "off"}
        /\ \/ at'["pause"] = at["pause"]
           \/ at'["pause"] = "returned" /\ at["pause"] # "off"
        /\ at'["update"] = at["update"] \/ at'["update"] = "off"
        /\ at'["resume"] = at["resume"] \/ at'["resume"] = "off"
    BY DEF Coroutines, Inside, AtLock
  <2> QED BY <1>0, <2>1 DEF Points
<1>10. /\ "feed" \notin Handed /\ "consumer" \notin Handed /\ c \notin Handed
       /\ "main" \in Handed => at["main"] = "stop"
       /\ "proc" \in Handed => at["proc"] \in {"mark", "drain", "sleep", "submit"}
       /\ "monitor" \in Handed => at["monitor"] \in {"unpause", "check"}
       /\ "pause" \in Handed => at["pause"] = "start"
       /\ "update" \in Handed => at["update"] = "start"
       /\ "resume" \in Handed => at["resume"] = "unpause"
  BY <1>0, <1>1, <1>3, HandedAt
<1>11. Runnable'
  <2> HIDE DEF Handed
  <2>1. /\ at'["feed"] = at["feed"] /\ at'["consumer"] = at["consumer"]
        /\ c # "feed" /\ c # "consumer"
    BY DEF Coroutines
  <2>2. FeedRuns' /\ ConsumerRuns'
    BY <1>0, <1>7, <1>10, <2>1 DEF Runnable, FeedRuns, ConsumerRuns
  <2>3. ProcRuns'
    <3>1. "proc" \in Runs' <=> "proc" \in Runs \/ "proc" \in N \/ "proc" \in Handed
      BY <1>1, <1>7
    <3>2. CASE N = {"proc"}
      BY <3>1, <3>2 DEF ProcRuns
    <3>3. CASE N = {}
      BY <1>0, <1>10, <3>1, <3>3 DEF Runnable, ProcRuns
    <3> QED BY <3>2, <3>3
  <2>4. MainRuns'
    <3>1. CASE c = "main"
      <4>1. at["main"] = "stop" /\ at'["main"] = "done" /\ point # "loop"
        BY <3>1 DEF Inside, AtLock
      <4>2. at'["proc"] = at["proc"] /\ at["proc"] \in {"ended", "failed"} /\ at["feed"] = "done"
        BY <1>0, <4>1 DEF Runnable, MainRuns
      <4>3. "main" \notin Runs'
        BY <1>7, <1>10, <3>1, <4>1
      <4> QED BY <2>1, <4>1, <4>2, <4>3 DEF MainRuns
    <3>2. CASE c # "main"
      <4>1. at'["main"] = at["main"] /\ ("main" \in Runs' <=> "main" \in Runs \/ "main" \in Handed)
        BY <1>7, <3>2 DEF Coroutines
      <4>2. at["proc"] = "asleep" \/ at'["proc"] = at["proc"]
        OBVIOUS
      <4> QED BY <1>0, <1>10, <2>1, <4>1, <4>2 DEF Runnable, MainRuns
    <3> QED BY <3>1, <3>2
  <2>5. CallsRun'
    <3>1. CASE point = "loop"
      <4>1. /\ at'["monitor"] = "loop" /\ at'["pause"] = at["pause"] /\ at'["update"] = at["update"]
            /\ at'["resume"] = at["resume"] /\ "monitor" \in Runs'
            /\ \A d \in {"pause", "update", "resume"} : d \in Runs' <=> d \in Runs \/ d \in Handed
        BY <1>1, <1>7, <3>1 DEF Coroutines
      <4> QED BY <1>0, <1>8, <1>10, <4>1 DEF Runnable, CallsRun
    <3>2. CASE point # "loop"
      BY <1>0, <1>1, <1>7, <1>8, <1>10, <3>2 DEF Runnable, CallsRun, Coroutines
    <3> QED BY <3>1, <3>2
  <2> QED BY <2>2, <2>3, <2>4, <2>5 DEF Runnable
<1>12. Feeding'
  <2>1. at'["feed"] = at["feed"] /\ (at'["proc"] = at["proc"] \/ at'["proc"] \notin {"ended", "get"})
    BY <1>1 DEF Coroutines
  <2>2. finished' \in Nat /\ raised' \in Nat
    BY <1>0 DEF Feeding
  <2>3. at'["proc"] = "get" /\ "proc" \in Runs' => "proc" \in Runs
    BY <1>7, <1>10
  <2> QED BY <1>0, <1>1, <1>8, <2>1, <2>2, <2>3, FeedingKept
<1> QED BY <1>7, <1>8, <1>9, <1>11, <1>12 DEF LInv, Scheduling

LEMMA MonitorUnpausesStep ==
  ASSUME LInv, MonitorUnpauses, UNCHANGED tpc
  PROVE  LInv'
<1> DEFINE N == IF at["proc"] = "asleep" THEN {"proc"} ELSE {}
<1>1. /\ Running("monitor") /\ at["monitor"] = "unpause" /\ Release /\ Inside("monitor")
      /\ at' = [at EXCEPT !["monitor"] = "loop", !["proc"] = IF @ = "asleep" THEN "notified" ELSE @]
      /\ Continues(Notified \o NextHolder)
      /\ UNCHANGED <<due, fed, taken, loop, finished, raised, gen>>
  BY DEF MonitorUnpauses, RunningAt, RunningIn, GoNotifying, Inside, AtLock, picking, tasks
<1>2. Woken(Notified, N)
  BY WokenIf DEF Notified, Coroutines
<1>3. /\ DOMAIN at' = Coroutines /\ at'["monitor"] = "loop"
      /\ \A d \in Coroutines \ {"monitor", "proc"} : at'[d] = at[d]
      /\ at'["proc"] = IF at["proc"] = "asleep" THEN "notified" ELSE at["proc"]
  BY <1>1 DEF LInv, Scheduling, Points, Coroutines
<1>4. N \in {{}, {"proc"}} /\ (N = {"proc"} <=> at["proc"] = "asleep")
  OBVIOUS
<1> HIDE DEF N
<1> QED BY <1>1, <1>2, <1>3, <1>4, CallReleases

LEMMA CallEndsStep ==
  ASSUME LInv, MainEnds \/ MonitorSleeps \/ PauseEnd \/ UpdateEnd \/ ResumeEnd, UNCHANGED tpc
  PROVE  LInv'
<1>1. PICK c \in {"main", "monitor", "pause", "update", "resume"} :
        /\ \/ c = "main" /\ MainEnds
           \/ c = "monitor" /\ MonitorSleeps
           \/ c = "pause" /\ PauseEnd
           \/ c = "update" /\ UpdateEnd
           \/ c = "resume" /\ ResumeEnd
  OBVIOUS
<1>2. PICK point \in {"done", "sleep", "off", "returned"} :
        /\ Running(c) /\ Inside(c) /\ Release /\ at' = [at EXCEPT ![c] = point] /\ Waits(NextHolder)
        /\ \/ c = "main" /\ point = "done"
           \/ c = "monitor" /\ point \in {"sleep", "off"}
           \/ c = "pause" /\ point = "returned"
           \/ c \in {"update", "resume"} /\ point = "off"
        /\ UNCHANGED <<due, fed, taken, loop, finished, raised, gen>>
  <2>1. CASE c = "main"
    BY <1>1, <2>1 DEF MainEnds, RunningAt, RunningIn, Inside, AtLock, Go, picking, tasks
  <2>2. CASE c = "monitor"
    <3> DEFINE next == IF at.main = "done" THEN "off" ELSE "sleep"
    <3>1. /\ Running(c) /\ at[c] = "check" /\ Release /\ at' = [at EXCEPT ![c] = next] /\ Waits(NextHolder)
          /\ UNCHANGED <<due, fed, taken, loop, finished, raised, gen>>
      BY <1>1, <2>2 DEF MonitorSleeps, RunningAt, RunningIn, Go, picking, tasks
    <3>2. Inside(c) /\ next \in {"sleep", "off"}
      BY <2>2, <3>1 DEF Inside, AtLock
    <3> QED BY <2>2, <3>1, <3>2
  <2>3. CASE c \in {"pause", "update", "resume"}
    BY <1>1, <2>3 DEF PauseEnd, UpdateEnd, ResumeEnd, RunningAt, RunningIn, Inside, AtLock, Go, picking, tasks
  <2> QED BY <2>1, <2>2, <2>3
<1>3. Waits(<<>> \o NextHolder)
  <2>1. NextHolder \in Seq(Coroutines)
    BY <1>2, ReleaseEffect DEF LInv, Woken
  <2>2. <<>> \o NextHolder = NextHolder
    BY <2>1, ConcatEmptySeq
  <2> QED BY <1>2, <2>2
<1>4. /\ DOMAIN at' = Coroutines /\ at'[c] = point /\ c # "proc"
      /\ \A d \in Coroutines \ {c, "proc"} : at'[d] = at[d]
      /\ at'["proc"] = IF {} = {"proc"} THEN "notified" ELSE at["proc"]
  BY <1>2 DEF LInv, Scheduling, Points, Coroutines
<1>5. {} \in {{}, {"proc"}} /\ {} # {"proc"}
  OBVIOUS
<1> QED BY <1>2, <1>3, <1>4, <1>5, WokenNone, CallReleases
-----------------------------------------------------------------------------
\* Steps inside the lock.

\* A coroutine that goes on inside the lock; w wakes those in S.
LEMMA InsideStep ==
  ASSUME LInv, NEW c \in {"pause", "update", "resume"}, Running(c), Inside(c),
         NEW point, at'[c] = point, DOMAIN at' = Coroutines,
         \A d \in Coroutines \ {c, "proc"} : at'[d] = at[d],
         NEW w, NEW S \in {{}, {"proc"}}, Woken(w, S), Waits(w), S = {"proc"} => at["proc"] = "asleep",
         at'["proc"] = IF S = {"proc"} THEN "notified" ELSE at["proc"],
         \/ c = "pause" /\ point \in {"cancel", "reset"}
         \/ c = "pause" /\ point = "gather" /\ Busy # {}
         \/ c = "update" /\ point \in {"size", "validate"}
         \/ c = "resume" /\ point = "server",
         UNCHANGED <<due, lock, waiters, fed, taken, loop, gen, tpc>>,
         \/ UNCHANGED <<finished, raised>>
         \/ finished' \in Nat /\ raised' \in Nat /\ at["proc"] # "wait"
  PROVE  LInv'
<1>0. Order /\ Locking /\ TaskList /\ Points /\ Runnable /\ Feeding
  BY DEF LInv, Scheduling
<1>1. /\ c \in Coroutines /\ "proc" \in Coroutines /\ c # "proc" /\ c \in Runs /\ c \notin Queued
      /\ ready[1] = c
  BY <1>0, RunningIs DEF Coroutines
<1>2. S = {"proc"} => "proc" \notin Runs /\ "proc" \notin Queued
  BY <1>0, HandedAt DEF Runnable, ProcRuns
<1>3. \A d \in Coroutines :
        /\ AtLock(d)' => AtLock(d) /\ d # c
        /\ Inside(d)' <=> Inside(d)
        /\ d \in Queued => AtLock(d)' /\ d \notin S
  <2>1. ~AtLock(c)' /\ Inside(c)'
    BY DEF AtLock, Inside
  <2>2. \A d \in Coroutines \ {c} : (AtLock(d)' <=> AtLock(d)) /\ (Inside(d)' <=> Inside(d))
    BY DEF AtLock, Inside, Coroutines
  <2>3. \A d \in Queued : AtLock(d)
    BY <1>0 DEF Locking, Queued
  <2> QED BY <1>1, <1>2, <2>1, <2>2, <2>3
<1>4. Order' /\ Locking' /\ TaskList' /\ Busy' = Busy /\ Runs' = (Runs \ {c}) \cup S
  <2>1. S \cap Runs = {} /\ DOMAIN at = Coroutines
    BY <1>0, <1>2 DEF Points
  <2> QED BY <1>0, <1>1, <1>3, <2>1, QuietStep
<1>5. /\ at'["feed"] = at["feed"] /\ at'["consumer"] = at["consumer"] /\ at'["main"] = at["main"]
      /\ at'["monitor"] = at["monitor"]
  BY DEF Coroutines
<1>6. Points'
  <2>1. /\ at'["proc"] = at["proc"] \/ at'["proc"] = "notified"
        /\ \/ at'["pause"] = at["pause"]
           \/ at["pause"] # "off" /\ at'["pause"] \in {"cancel", "gather", "reset"}
        /\ \/ at'["update"] = at["update"]
           \/ at["update"] # "off" /\ at'["update"] \in {"size", "validate"}
        /\ \/ at'["resume"] = at["resume"]
           \/ at["resume"] # "off" /\ at'["resume"] = "server"
    BY DEF Coroutines, Inside, AtLock
  <2> QED BY <1>0, <1>5, <2>1 DEF Points
<1>7. FeedRuns' /\ ConsumerRuns'
  BY <1>0, <1>1, <1>4, <1>5 DEF Runnable, FeedRuns, ConsumerRuns
<1>8. ProcRuns'
  <2>1. "proc" \in Runs' <=> "proc" \in Runs \/ "proc" \in S
    BY <1>1, <1>4
  <2>2. CASE S = {"proc"}
    BY <2>1, <2>2 DEF ProcRuns
  <2>3. CASE S = {}
    BY <1>0, <2>1, <2>3 DEF Runnable, ProcRuns
  <2> QED BY <2>2, <2>3
<1>9. MainRuns'
  BY <1>0, <1>1, <1>2, <1>4, <1>5 DEF Runnable, MainRuns
<1>10. CallsRun'
  <2>1. CASE c = "pause"
    <3>1. at'["pause"] = point /\ at'["update"] = at["update"] /\ at'["resume"] = at["resume"]
      BY <2>1 DEF Coroutines
    <3>2. "pause" \notin Runs' /\ \A d \in {"monitor", "update", "resume"} : d \in Runs' <=> d \in Runs
      BY <1>1, <1>4, <2>1
    <3> QED BY <1>0, <1>4, <1>5, <2>1, <3>1, <3>2 DEF Runnable, CallsRun
  <2>2. CASE c # "pause"
    <3>1. /\ at'["pause"] = at["pause"]
          /\ c = "update" => /\ at'["update"] \in {"size", "validate"} /\ at'["resume"] = at["resume"]
                            /\ "update" \notin Runs'
          /\ c = "resume" => at'["resume"] = "server" /\ at'["update"] = at["update"]
      BY <1>1, <1>4, <2>2 DEF Coroutines
    <3>2. \A d \in {"monitor", "pause", "update", "resume"} \ {c} : d \in Runs' <=> d \in Runs
      BY <1>4
    <3> QED BY <1>0, <1>4, <1>5, <2>2, <3>1, <3>2 DEF Runnable, CallsRun
  <2> QED BY <2>1, <2>2
<1>11. Feeding'
  <2>1. finished' \in Nat /\ raised' \in Nat
    BY <1>0 DEF Feeding
  <2>2. at'["proc"] = at["proc"] \/ at'["proc"] \notin {"ended", "get"}
    OBVIOUS
  <2>3. at'["proc"] = "get" /\ "proc" \in Runs' => "proc" \in Runs
    BY <1>4, <2>2
  <2> QED BY <1>0, <1>1, <1>4, <1>5, <2>1, <2>2, <2>3, FeedingKept
<1> QED BY <1>4, <1>6, <1>7, <1>8, <1>9, <1>10, <1>11 DEF LInv, Scheduling, Runnable

\* The same for a step that changes only its own point and wakes nobody.
LEMMA InsideQuiet ==
  ASSUME LInv, NEW c \in {"pause", "update", "resume"}, Running(c), Inside(c),
         NEW point, Go(c, point), Waits(<<>>),
         \/ c = "pause" /\ point \in {"cancel", "reset"}
         \/ c = "pause" /\ point = "gather" /\ Busy # {}
         \/ c = "update" /\ point \in {"size", "validate"},
         UNCHANGED <<due, lock, waiters, fed, taken, loop, gen, tpc>>,
         \/ UNCHANGED <<finished, raised>>
         \/ finished' \in Nat /\ raised' \in Nat /\ at["proc"] # "wait"
  PROVE  LInv'
<1>1. /\ DOMAIN at' = Coroutines /\ at'[c] = point
      /\ \A d \in Coroutines \ {c, "proc"} : at'[d] = at[d]
      /\ at'["proc"] = IF {} = {"proc"} THEN "notified" ELSE at["proc"]
  BY DEF LInv, Scheduling, Points, Coroutines, Go
<1>2. {} \in {{}, {"proc"}} /\ {} # {"proc"}
  OBVIOUS
<1> QED BY <1>1, <1>2, WokenNone, InsideStep

\* While pause holds the lock the processor is not waiting for tasks.
LEMMA PauseAlone ==
  ASSUME Order, Locking, at["pause"] \in {"cancel", "tasks", "gather", "reset"}
  PROVE  lock = "pause" /\ at["proc"] # "wait"
BY DEF Locking, Inside, AtLock, Coroutines

LEMMA PauseStartStep ==
  ASSUME LInv, PauseStart, UNCHANGED tpc
  PROVE  LInv'
<1>0. Order /\ Locking /\ TaskList /\ Points /\ Runnable /\ Feeding
  BY DEF LInv, Scheduling
<1>1. /\ Running("pause") /\ at["pause"] = "start" /\ Inside("pause")
      /\ IF conf.partial THEN Go("pause", "cancel") /\ Waits(<<>>)
                         ELSE Go("pause", "tasks") /\ Continues(<<>>)
      /\ UNCHANGED <<due, lock, waiters, fed, taken, loop, finished, raised, gen>>
  BY DEF PauseStart, RunningAt, RunningIn, Inside, AtLock, picking, tasks
<1>2. CASE Go("pause", "cancel") /\ Waits(<<>>)
  BY <1>1, <1>2, InsideQuiet
<1>3. CASE Go("pause", "tasks") /\ Continues(<<>>)
  <2>1. /\ "pause" \in Coroutines /\ "pause" \in Runs /\ "pause" \notin Queued /\ ready[1] = "pause"
    BY <1>0, <1>1, RunningIs DEF Coroutines
  <2>2. at' = [at EXCEPT !["pause"] = "tasks"]
    BY <1>3 DEF Go
  <2>3. /\ Order' /\ Runs' = Runs /\ Queued' = Queued /\ ready'[1] = "pause"
        /\ Count(ready', "task") = Count(ready, "task")
    <3>1. {} \cap Runs = {} /\ Runs \cup {} = Runs
      OBVIOUS
    <3> QED BY <1>0, <1>1, <1>3, <2>1, <3>1, QuietContinue, WokenNone
  <2>4. TaskList' /\ Busy' = Busy
    BY <1>0, <1>1, <2>3, TasksKept
  <2>5. Locking'
    BY <1>0, <1>1, <2>1, <2>2, <2>3, KeepLocking DEF Points, AtLock, Inside, Locking, Coroutines
  <2>6. Points'
    BY <1>0, <1>1, <2>2 DEF Points, Coroutines
  <2>7. Runnable'
    BY <1>0, <1>1, <2>1, <2>2, <2>3, <2>4
       DEF Runnable, FeedRuns, ProcRuns, ConsumerRuns, MainRuns, CallsRun, Points, Coroutines
  <2>8. Feeding'
    <3>1. at'["feed"] = at["feed"] /\ at'["proc"] = at["proc"]
      BY <1>0, <2>2 DEF Points, Coroutines
    <3>2. finished' \in Nat /\ raised' \in Nat /\ "proc" # "pause"
      BY <1>0, <1>1 DEF Feeding
    <3> QED BY <1>0, <1>1, <2>1, <2>3, <2>4, <3>1, <3>2, FeedingKept
  <2> QED BY <2>3, <2>4, <2>5, <2>6, <2>7, <2>8 DEF LInv, Scheduling
<1> QED BY <1>1, <1>2, <1>3

LEMMA PauseWaitsStep ==
  ASSUME LInv, PauseTasks \/ PauseGathered, UNCHANGED tpc
  PROVE  LInv'
<1>1. /\ Running("pause") /\ at["pause"] \in {"tasks", "gather"} /\ Inside("pause") /\ Waits(<<>>)
      /\ UNCHANGED <<due, lock, waiters, fed, taken, loop, gen>>
      /\ \/ Go("pause", "reset") /\ finished' = 0 /\ raised' = 0
         \/ Go("pause", "gather") /\ Busy # {} /\ UNCHANGED <<finished, raised>>
  BY DEF PauseTasks, PauseGathered, RunningAt, RunningIn, Inside, AtLock, picking, tasks
<1>2. at["proc"] # "wait"
  BY <1>1, PauseAlone DEF LInv
<1>3. CASE Go("pause", "reset") /\ finished' = 0 /\ raised' = 0
  BY <1>1, <1>2, <1>3, InsideQuiet
<1>4. CASE Go("pause", "gather") /\ Busy # {} /\ UNCHANGED <<finished, raised>>
  BY <1>1, <1>4, InsideQuiet
<1> QED BY <1>1, <1>3, <1>4

\* update_param_version between the lock and its last call.
Update == UpdateStart(call.version) \/ UpdateAssign

LEMMA UpdateStep ==
  ASSUME LInv, Update, UNCHANGED tpc
  PROVE  LInv'
<1>1. PICK point \in {"size", "validate"} :
        /\ Running("update") /\ at["update"] \in {"start", "assign"} /\ Go("update", point) /\ Waits(<<>>)
        /\ UNCHANGED <<due, lock, waiters, fed, taken, loop, gen, finished, raised>>
  BY DEF Update, UpdateStart, UpdateAssign, RunningAt, RunningIn, picking, tasks
<1>2. Inside("update")
  BY <1>1 DEF Inside, AtLock
<1> QED BY <1>1, <1>2, InsideQuiet

LEMMA ResumeUnpausesStep ==
  ASSUME LInv, ResumeUnpauses, UNCHANGED tpc
  PROVE  LInv'
<1> DEFINE N == IF at["proc"] = "asleep" THEN {"proc"} ELSE {}
           point == IF conf.partial THEN "server" ELSE "off"
<1>1. /\ Running("resume") /\ at["resume"] = "unpause" /\ Inside("resume")
      /\ at' = [at EXCEPT !["resume"] = point, !["proc"] = IF @ = "asleep" THEN "notified" ELSE @]
      /\ IF conf.partial THEN Waits(Notified) /\ UNCHANGED <<lock, waiters>>
                         ELSE Waits(Notified \o NextHolder) /\ Release
      /\ UNCHANGED <<due, fed, taken, loop, finished, raised, gen>>
  BY DEF ResumeUnpauses, RunningAt, RunningIn, GoNotifying, Inside, AtLock, picking, tasks
<1>2. Woken(Notified, N)
  BY WokenIf DEF Notified, Coroutines
<1>3. /\ DOMAIN at' = Coroutines /\ at'["resume"] = point
      /\ \A d \in Coroutines \ {"resume", "proc"} : at'[d] = at[d]
      /\ at'["proc"] = IF at["proc"] = "asleep" THEN "notified" ELSE at["proc"]
  BY <1>1 DEF LInv, Scheduling, Points, Coroutines
<1>4. N \in {{}, {"proc"}} /\ (N = {"proc"} <=> at["proc"] = "asleep")
  OBVIOUS
<1>5. (conf.partial => point = "server") /\ (~conf.partial => point = "off")
  OBVIOUS
<1> HIDE DEF N, point
<1>6. CASE conf.partial
  <2>1. Waits(Notified) /\ UNCHANGED <<lock, waiters>> /\ point = "server" /\ UNCHANGED <<finished, raised>>
    BY <1>1, <1>5, <1>6
  <2>2. at'["proc"] = IF N = {"proc"} THEN "notified" ELSE at["proc"]
    BY <1>3, <1>4
  <2> QED BY <1>1, <1>2, <1>3, <1>4, <2>1, <2>2, InsideStep
<1>7. CASE ~conf.partial
  BY <1>1, <1>2, <1>3, <1>4, <1>5, <1>7, CallReleases
<1> QED BY <1>6, <1>7
-----------------------------------------------------------------------------
\* What reaches the event loop from outside.

LEMMA OutsideStep ==
  ASSUME LInv, NEW c \in Coroutines \ {"proc", "feed"}, c \notin Runs, c \notin Queued,
         ready' = Append(ready, c),
         UNCHANGED <<due, lock, waiters, fed, taken, loop, gen, finished, raised>>,
         at'["feed"] = at["feed"], at'["proc"] = at["proc"],
         \A d \in Coroutines : (AtLock(d)' <=> AtLock(d)) /\ (Inside(d)' <=> Inside(d))
  PROVE  Order' /\ Locking' /\ TaskList' /\ Feeding' /\ Busy' = Busy /\ Runs' = Runs \cup {c}
<1>0. Order /\ Locking /\ TaskList /\ Points /\ Feeding
  BY DEF LInv, Scheduling
<1>1. c # "task" /\ c \in Coroutines \cup {"task"}
  BY DEF Coroutines
<1>2. /\ ready' \in Seq(Coroutines \cup {"task"}) /\ Once(ready')
      /\ Runs' = Runs \cup ({c} \ {"task"}) /\ (ready # <<>> => ready'[1] = ready[1])
      /\ Count(ready', "task") = Count(ready, "task") + In(c = "task")
  BY <1>0, <1>1, WakeStep
<1>3. Runs' = Runs \cup {c} /\ Count(ready', "task") = Count(ready, "task")
  <2>1. Count(ready, "task") \in Nat /\ In(c = "task") = 0
    BY <1>0, <1>1, CountType DEF Order, In
  <2> QED BY <1>1, <1>2, <2>1
<1>4. Order' /\ Queued' = Queued
  BY <1>0, <1>2 DEF Order, Queued
<1>5. TaskList' /\ Busy' = Busy
  BY <1>0, <1>3, TasksKept
<1>6. Locking'
  <2>1. \A d \in Queued : AtLock(d) /\ d \in Coroutines /\ d \notin Runs
    BY <1>0 DEF Locking, Queued
  <2> QED BY <1>0, <1>3, <2>1, KeepLocking DEF Points
<1>7. Feeding'
  <2>1. "proc" \in Runs' => "proc" \in Runs /\ ready # <<>>
    BY <1>3 DEF Runs, Has
  <2> QED BY <1>0, <1>2, <1>5, <2>1 DEF Feeding
<1> QED BY <1>3, <1>4, <1>5, <1>6, <1>7

LEMMA ScheduledIs ==
  ASSUME Order, NEW c \in Coroutines
  PROVE  Scheduled(c) <=> c \in Runs
<1>1. DOMAIN ready = 1..Len(ready)
  BY LenProperties DEF Order
<1> QED BY <1>1 DEF Scheduled, ToSet, Runs, Has

LEMMA AnswersStep ==
  ASSUME LInv, Answers \/ Timer, UNCHANGED tpc
  PROVE  LInv'
<1>0. Order /\ Locking /\ TaskList /\ Points /\ Runnable /\ Feeding
  BY DEF LInv, Scheduling
<1>1. PICK c \in Coroutines, point \in {"awake", "on", "tasks", "reset", "assign", "put", "server", "called"} :
        /\ Wakes(c, point)
        /\ \/ c = "monitor" /\ at[c] = "sleep" /\ point = "awake"
           \/ c = "consumer" /\ at[c] = "put" /\ point = "on"
           \/ c = "pause" /\ at[c] = "cancel" /\ point = "tasks"
           \/ c = "pause" /\ at[c] = "reset" /\ point = "reset"
           \/ c = "update" /\ at[c] = "assign" /\ point = "assign"
           \/ c = "update" /\ at[c] = "put" /\ point = "put"
           \/ c = "update" /\ at[c] = "sent" /\ point = "called"
           \/ c = "main" /\ at[c] = "put" /\ point = "put"
           \/ c = "resume" /\ at[c] = "server" /\ point = "server"
           \/ c = "resume" /\ at[c] = "sent" /\ point = "called"
  <2>1. "monitor" \in Coroutines /\ "consumer" \in Coroutines /\ "pause" \in Coroutines
        /\ "update" \in Coroutines /\ "resume" \in Coroutines /\ "main" \in Coroutines
    BY DEF Coroutines
  <2>2. CASE Timer
    BY <2>1, <2>2 DEF Timer
  <2>3. CASE PutAnswered
    BY <2>1, <2>3 DEF PutAnswered
  <2>4. CASE CancelAnswered
    BY <2>1, <2>4 DEF CancelAnswered
  <2>5. CASE ResetAnswered
    BY <2>1, <2>5 DEF ResetAnswered
  <2>6. CASE SizeAnswered
    BY <2>1, <2>6 DEF SizeAnswered
  <2>7. CASE ValidateAnswered
    BY <2>1, <2>7 DEF ValidateAnswered
  <2>8. CASE ServerResumed
    BY <2>1, <2>8 DEF ServerResumed
  <2>9. CASE ResumeArrives
    BY <2>1, <2>9 DEF ResumeArrives
  <2>10. CASE UpdateArrives
    BY <2>1, <2>10 DEF UpdateArrives
  <2>11. CASE FinishAnswered
    BY <2>1, <2>11 DEF FinishAnswered
  <2> QED BY <2>2, <2>3, <2>4, <2>5, <2>6, <2>7, <2>8, <2>9, <2>10, <2>11 DEF Answers
<1>2. /\ ~Scheduled(c) /\ at' = [at EXCEPT ![c] = point] /\ ready' = Append(ready, c)
      /\ UNCHANGED <<due, lock, waiters, fed, taken, loop, gen, finished, raised>>
  BY <1>1 DEF Wakes, Go, picking, tasks
<1>3. /\ DOMAIN at' = Coroutines /\ at'[c] = point /\ \A d \in Coroutines \ {c} : at'[d] = at[d]
      /\ c # "proc" /\ c # "feed"
  BY <1>0, <1>1, <1>2 DEF Points
<1>4. \A d \in Coroutines : (AtLock(d)' <=> AtLock(d)) /\ (Inside(d)' <=> Inside(d))
  <2>1. (AtLock(c)' <=> AtLock(c)) /\ (Inside(c)' <=> Inside(c))
    BY <1>1, <1>3 DEF AtLock, Inside
  <2>2. \A d \in Coroutines \ {c} : (AtLock(d)' <=> AtLock(d)) /\ (Inside(d)' <=> Inside(d))
    BY <1>3 DEF AtLock, Inside, Coroutines
  <2> QED BY <2>1, <2>2
<1>5. c \notin Runs /\ c \notin Queued
  <2>1. ~AtLock(c)
    BY <1>1 DEF AtLock
  <2> QED BY <1>0, <1>2, <2>1, ScheduledIs DEF Locking
<1>6. /\ at'["feed"] = at["feed"] /\ at'["proc"] = at["proc"] /\ at'["main"] = at["main"]
  BY <1>1, <1>3 DEF Coroutines
<1>7. Order' /\ Locking' /\ TaskList' /\ Feeding' /\ Busy' = Busy /\ Runs' = Runs \cup {c}
  BY <1>2, <1>3, <1>4, <1>5, <1>6, OutsideStep
<1>8. /\ \/ at'["consumer"] = at["consumer"] /\ ("consumer" \in Runs' <=> "consumer" \in Runs)
         \/ at["consumer"] = "put" /\ at'["consumer"] = "on" /\ "consumer" \in Runs'
      /\ \/ at'["monitor"] = at["monitor"] /\ ("monitor" \in Runs' <=> "monitor" \in Runs)
         \/ at["monitor"] = "sleep" /\ at'["monitor"] = "awake" /\ "monitor" \in Runs'
      /\ \/ at'["pause"] = at["pause"] /\ ("pause" \in Runs' <=> "pause" \in Runs)
         \/ at["pause"] = "cancel" /\ at'["pause"] = "tasks" /\ "pause" \in Runs'
         \/ at["pause"] = "reset" /\ at'["pause"] = "reset"
      /\ \/ at'["update"] = at["update"] /\ ("update" \in Runs' <=> "update" \in Runs)
         \/ at["update"] \in {"assign", "put"} /\ at'["update"] = at["update"]
         \/ at["update"] = "sent" /\ at'["update"] = "called" /\ "update" \in Runs'
      /\ \/ at'["resume"] = at["resume"] /\ ("resume" \in Runs' <=> "resume" \in Runs)
         \/ at["resume"] = "server" /\ at'["resume"] = "server"
         \/ at["resume"] = "sent" /\ at'["resume"] = "called" /\ "resume" \in Runs'
      /\ \A d \in {"feed", "proc"} : d \in Runs' <=> d \in Runs
      /\ ("main" \in Runs' <=> "main" \in Runs) \/ at["main"] = "put"
  <2>1. \A d \in Coroutines \ {c} : at'[d] = at[d] /\ (d \in Runs' <=> d \in Runs)
    BY <1>3, <1>7
  <2>2. c \in Runs' /\ at'[c] = point
    BY <1>3, <1>7
  <2> QED BY <1>1, <1>3, <2>1, <2>2 DEF Coroutines
<1>9. Points'
  BY <1>0, <1>3, <1>6, <1>8 DEF Points
<1>10. FeedRuns' /\ ProcRuns'
  BY <1>0, <1>2, <1>6, <1>8 DEF Runnable, FeedRuns, ProcRuns
<1>11. ConsumerRuns' /\ MainRuns'
  BY <1>0, <1>6, <1>8 DEF Runnable, ConsumerRuns, MainRuns
<1>12. CallsRun'
  BY <1>0, <1>7, <1>8 DEF Runnable, CallsRun
<1> QED BY <1>7, <1>9, <1>10, <1>11, <1>12 DEF LInv, Scheduling, Runnable

\* The MessageQueue may only answer a call of update_param_version, whose coroutine waits.
LEMMA ActorStep ==
  ASSUME LInv, Actor, UNCHANGED tpc
  PROVE  LInv'
<1>0. Order /\ Locking /\ TaskList /\ Points /\ Runnable /\ Feeding
  BY DEF LInv, Scheduling
<1>1. /\ UNCHANGED <<ready, due, lock, waiters, fed, taken, loop, gen, finished, raised>>
      /\ \/ at' = at
         \/ at["update"] = "size" /\ at' = [at EXCEPT !["update"] = "assign"]
         \/ at["update"] = "validate" /\ at' = [at EXCEPT !["update"] = "put"]
  BY DEF Actor, PutRuns, SizeRuns, ValidateRuns, ActorFrame, Go, picking, tasks
<1>2. /\ DOMAIN at' = Coroutines /\ \A d \in Coroutines \ {"update"} : at'[d] = at[d]
      /\ \/ at'["update"] = at["update"]
         \/ at["update"] = "size" /\ at'["update"] = "assign"
         \/ at["update"] = "validate" /\ at'["update"] = "put"
  BY <1>0, <1>1 DEF Points, Coroutines
<1>3. /\ at'["feed"] = at["feed"] /\ at'["proc"] = at["proc"] /\ at'["consumer"] = at["consumer"]
      /\ at'["main"] = at["main"] /\ at'["monitor"] = at["monitor"] /\ at'["pause"] = at["pause"]
      /\ at'["resume"] = at["resume"]
  BY <1>2 DEF Coroutines
<1>4. Order' /\ Runs' = Runs /\ Queued' = Queued /\ Busy' = Busy
  BY <1>0, <1>1 DEF Order, Runs, Queued, Busy
<1>5. \A d \in Coroutines : (AtLock(d)' <=> AtLock(d)) /\ (Inside(d)' <=> Inside(d))
  BY <1>2, <1>3 DEF AtLock, Inside
<1>6. Locking'
  <2>1. \A d \in Queued : AtLock(d) /\ d \in Coroutines /\ d \notin Runs
    BY <1>0 DEF Locking, Queued
  <2> QED BY <1>0, <1>1, <1>4, <1>5, <2>1, KeepLocking DEF Points
<1>7. TaskList' /\ Feeding'
  BY <1>0, <1>1, <1>3, <1>4 DEF TaskList, Feeding
<1>8. Points'
  BY <1>0, <1>2, <1>3 DEF Points
<1>9. Runnable'
  BY <1>0, <1>1, <1>2, <1>3, <1>4
     DEF Runnable, FeedRuns, ProcRuns, ConsumerRuns, MainRuns, CallsRun
<1> QED BY <1>4, <1>6, <1>7, <1>8, <1>9 DEF LInv, Scheduling

\* The steps of the trainer that call nothing of the rollouter.
LEMMA TrainerQuiet ==
  ASSUME LInv, UNCHANGED rVars, tpc \notin {"pausing", "weights"}, tpc' \notin {"pausing", "weights"}
  PROVE  LInv'
<1>1. UNCHANGED <<at, ready, due, lock, waiters, fed, taken, loop, finished, raised, gen>>
  BY DEF rVars, sched, picking, tasks
<1>2. Order' /\ Runs' = Runs /\ Queued' = Queued /\ Busy' = Busy
  BY <1>1 DEF LInv, Order, Runs, Queued, Busy
<1>3. Locking'
  BY <1>1, <1>2 DEF LInv, Locking, AtLock, Inside
<1>4. TaskList' /\ Feeding'
  BY <1>1, <1>2 DEF LInv, Scheduling, TaskList, Feeding
<1>5. Points'
  BY <1>1 DEF LInv, Scheduling, Points
<1>6. Runnable'
  BY <1>1, <1>2
     DEF LInv, Scheduling, Runnable, FeedRuns, ProcRuns, ConsumerRuns, MainRuns, CallsRun
<1> QED BY <1>2, <1>3, <1>4, <1>5, <1>6 DEF LInv, Scheduling

LEMMA TrainerStep ==
  ASSUME LInv, Trainer
  PROVE  LInv'
<1>0. Order /\ Locking /\ TaskList /\ Points /\ Runnable /\ Feeding
  BY DEF LInv, Scheduling
<1>1. CASE Collect
  <2>1. UNCHANGED rVars /\ tpc = "collect" /\ tpc' \in {"train", "collect"}
    BY <1>1 DEF Collect
  <2> QED BY <2>1, TrainerQuiet
<1>2. CASE CollectEnd
  <2>1. UNCHANGED rVars /\ tpc = "collect" /\ tpc' \in {"wait_last", "done"}
    BY <1>2 DEF CollectEnd, StartSync
  <2> QED BY <2>1, TrainerQuiet
<1>3. CASE Train
  <2>1. UNCHANGED rVars /\ tpc = "train" /\ tpc' \in {"wait_last", "getval"}
    BY <1>3 DEF Train, StartSync
  <2> QED BY <2>1, TrainerQuiet
<1>4. CASE ReadValidation
  <2>1. UNCHANGED rVars /\ tpc \in {"getval", "final"} /\ tpc' \in {"collect", "done"}
    BY <1>4 DEF ReadValidation
  <2> QED BY <2>1, TrainerQuiet
<1>5. CASE SyncPauses
  <2>1. /\ tpc = "wait_last" /\ at["update"] = "off" /\ at["resume"] = "off"
        /\ at' = [at EXCEPT !["pause"] = "called"] /\ ready' = Append(ready, "pause") /\ tpc' = "pausing"
        /\ UNCHANGED <<due, lock, waiters, fed, taken, loop, gen, finished, raised>>
    BY <1>5 DEF SyncPauses, RollouterIdle, CallFrame, picking, tasks
  <2>2. at["pause"] = "off" /\ "pause" \in Coroutines
    BY <1>0, <2>1 DEF Points, Coroutines
  <2>3. "pause" \notin Runs /\ "pause" \notin Queued
    BY <1>0, <2>2, HandedAt DEF Runnable, CallsRun
  <2>4. /\ DOMAIN at' = Coroutines /\ at'["pause"] = "called"
        /\ \A d \in Coroutines \ {"pause"} : at'[d] = at[d]
    BY <1>0, <2>1, <2>2 DEF Points
  <2>5. \A d \in Coroutines : (AtLock(d)' <=> AtLock(d)) /\ (Inside(d)' <=> Inside(d))
    BY <2>2, <2>4 DEF AtLock, Inside, Coroutines
  <2>6. at'["feed"] = at["feed"] /\ at'["proc"] = at["proc"]
    BY <2>4 DEF Coroutines
  <2>7. Order' /\ Locking' /\ TaskList' /\ Feeding' /\ Busy' = Busy /\ Runs' = Runs \cup {"pause"}
    BY <2>1, <2>2, <2>3, <2>5, <2>6, OutsideStep
  <2>8. Points'
    BY <1>0, <2>1, <2>4 DEF Points, Coroutines
  <2>9. Runnable'
    BY <1>0, <2>1, <2>4, <2>7
       DEF Runnable, FeedRuns, ProcRuns, ConsumerRuns, MainRuns, CallsRun, Coroutines
  <2> QED BY <2>7, <2>8, <2>9 DEF LInv, Scheduling
<1>6. CASE PauseReturns
  <2>1. /\ tpc = "pausing" /\ at["pause"] = "returned" /\ at' = [at EXCEPT !["pause"] = "off"]
        /\ tpc' = "weights"
        /\ UNCHANGED <<ready, due, lock, waiters, fed, taken, loop, gen, finished, raised>>
    BY <1>6 DEF PauseReturns, Go, CallFrame, picking, tasks
  <2>2. /\ DOMAIN at' = Coroutines /\ at'["pause"] = "off"
        /\ \A d \in Coroutines \ {"pause"} : at'[d] = at[d]
    BY <1>0, <2>1 DEF Points, Coroutines
  <2>3. Order' /\ Runs' = Runs /\ Queued' = Queued /\ Busy' = Busy
    BY <1>0, <2>1 DEF Order, Runs, Queued, Busy
  <2>4. \A d \in Coroutines : (AtLock(d)' <=> AtLock(d)) /\ (Inside(d)' <=> Inside(d))
    BY <2>1, <2>2 DEF AtLock, Inside, Coroutines
  <2>5. Locking'
    <3>1. \A d \in Queued : AtLock(d) /\ d \in Coroutines /\ d \notin Runs
      BY <1>0 DEF Locking, Queued
    <3> QED BY <1>0, <2>1, <2>3, <2>4, <3>1, KeepLocking DEF Points
  <2>6. TaskList'
    BY <1>0, <2>1 DEF TaskList
  <2>7. Points'
    BY <1>0, <2>1, <2>2 DEF Points, Coroutines
  <2>8. Runnable'
    BY <1>0, <2>1, <2>2, <2>3
       DEF Runnable, FeedRuns, ProcRuns, ConsumerRuns, MainRuns, CallsRun, Coroutines
  <2>9. Feeding'
    BY <1>0, <2>1, <2>2, <2>3 DEF Feeding, Coroutines
  <2> QED BY <2>3, <2>5, <2>6, <2>7, <2>8, <2>9 DEF LInv, Scheduling
<1>7. CASE SyncSends
  <2>1. /\ tpc = "weights" /\ tpc' \in {"final", "getval"}
        /\ at' = [at EXCEPT !["update"] = "sent", !["resume"] = "sent"]
        /\ UNCHANGED <<ready, due, lock, waiters, fed, taken, loop, gen, finished, raised>>
    BY <1>7 DEF SyncSends, CallFrame, picking, tasks
  <2>2. /\ at["pause"] = "off" /\ at["update"] = "off" /\ at["resume"] = "off"
        /\ "update" \in Coroutines /\ "resume" \in Coroutines
    BY <1>0, <2>1 DEF Points, Coroutines
  <2>3. "update" \notin Runs /\ "resume" \notin Runs
    BY <1>0, <2>2 DEF Runnable, CallsRun
  <2>4. /\ DOMAIN at' = Coroutines /\ at'["update"] = "sent" /\ at'["resume"] = "sent"
        /\ \A d \in Coroutines \ {"update", "resume"} : at'[d] = at[d]
    BY <1>0, <2>1, <2>2 DEF Points
  <2>5. Order' /\ Runs' = Runs /\ Queued' = Queued /\ Busy' = Busy
    BY <1>0, <2>1 DEF Order, Runs, Queued, Busy
  <2>6. \A d \in Coroutines : (AtLock(d)' <=> AtLock(d)) /\ (Inside(d)' <=> Inside(d))
    BY <2>2, <2>4 DEF AtLock, Inside, Coroutines
  <2>7. Locking'
    <3>1. \A d \in Queued : AtLock(d) /\ d \in Coroutines /\ d \notin Runs
      BY <1>0 DEF Locking, Queued
    <3> QED BY <1>0, <2>1, <2>5, <2>6, <3>1, KeepLocking DEF Points
  <2>8. TaskList'
    BY <1>0, <2>1 DEF TaskList
  <2>9. Points'
    BY <1>0, <2>1, <2>2, <2>4 DEF Points, Coroutines
  <2>10. Runnable'
    BY <1>0, <2>1, <2>3, <2>4, <2>5
       DEF Runnable, FeedRuns, ProcRuns, ConsumerRuns, MainRuns, CallsRun, Coroutines
  <2>11. Feeding'
    BY <1>0, <2>1, <2>4, <2>5 DEF Feeding, Coroutines
  <2> QED BY <2>5, <2>7, <2>8, <2>9, <2>10, <2>11 DEF LInv, Scheduling
<1> QED BY <1>1, <1>2, <1>3, <1>4, <1>5, <1>6, <1>7 DEF Trainer
-----------------------------------------------------------------------------
\* The processor's hand.

LEMMA HandKept ==
  ASSUME Hand, UNCHANGED <<hand, loop>>, cancelq' \in Seq(Samples), resultq' \in Seq(Samples),
         at'["proc"] = at["proc"] \/ (at["proc"] = "asleep" /\ at'["proc"] = "notified")
  PROVE  Hand'
BY DEF Hand

LEMMA ProcessorHand ==
  ASSUME LInv, Hand, Processor
  PROVE  Hand'
<1>0. Points /\ TaskList /\ "proc" \in Coroutines
  BY DEF LInv, Scheduling, Coroutines
<1>1. Total \in Nat \ {0}
  BY RollouterAssumption
<1>2. CASE ProcTop
  <2>1. at["proc"] = "top" /\ hand = 0 /\ resultq' = resultq
    BY <1>2 DEF ProcTop, RunningAt, RunningIn, Hand
  <2>2. CASE paused \/ ShouldPause
    <3>1. at'["proc"] = "mark" /\ UNCHANGED <<hand, loop, cancelq>>
      BY <1>0, <1>2, <2>2 DEF ProcTop, Acquire, Go, Points
    <3> QED BY <2>1, <3>1 DEF Hand
  <2>3. CASE ~(paused \/ ShouldPause) /\ cancelq # <<>>
    <3>1. /\ at'["proc"] = "loop" /\ loop' = "room" /\ hand' = Head(cancelq) /\ cancelq' = Tail(cancelq)
      BY <1>0, <1>2, <2>3 DEF ProcTop, Go, Points
    <3>2. hand' \in Samples /\ cancelq' \in Seq(Samples)
      BY <2>3, <3>1, HeadTailProperties DEF Hand
    <3>3. hand' \in 0..Total /\ hand' # 0
      BY <1>1, <3>2 DEF Samples
    <3> QED BY <2>1, <3>1, <3>2, <3>3 DEF Hand
  <2>4. CASE ~(paused \/ ShouldPause) /\ ~(cancelq # <<>>)
    <3>1. at'["proc"] = "get" /\ UNCHANGED <<hand, loop, cancelq>>
      BY <1>0, <1>2, <2>4 DEF ProcTop, Go, Points
    <3> QED BY <2>1, <3>1 DEF Hand
  <2> QED BY <2>2, <2>3, <2>4
<1>3. CASE ProcGet
  <2>1. at["proc"] = "get" /\ hand = 0 /\ UNCHANGED <<cancelq, resultq>> /\ at'["proc"] = "loop"
    BY <1>0, <1>3 DEF ProcGet, RunningAt, RunningIn, Hand, queues, Points, Coroutines
  <2>2. IF taken' \in Samples THEN hand' = taken' /\ loop' = "room" ELSE loop' = "end" /\ UNCHANGED hand
    BY <1>3 DEF ProcGet
  <2>3. CASE taken' \in Samples
    <3>1. hand' \in 0..Total /\ hand' # 0
      BY <1>1, <2>2, <2>3 DEF Samples
    <3> QED BY <2>1, <2>2, <2>3, <3>1 DEF Hand
  <2>4. CASE taken' \notin Samples
    BY <2>1, <2>2, <2>4 DEF Hand
  <2> QED BY <2>3, <2>4
<1>4. CASE ProcMark
  <2>1. at["proc"] = "mark" /\ at'["proc"] = "loop" /\ loop' = "pause" /\ UNCHANGED <<hand, cancelq, resultq>>
    BY <1>0, <1>4 DEF ProcMark, RunningAt, RunningIn, Go, queues, Points
  <2> QED BY <2>1 DEF Hand
<1>5. CASE ProcLoop
  <2>1. /\ at["proc"] = "loop" /\ UNCHANGED <<hand, loop, cancelq, resultq>>
        /\ \/ at'["proc"] \in {"drain", "ended"}
           \/ at'["proc"] = "sleep" /\ loop = "pause"
           \/ at'["proc"] = "submit" /\ loop = "room"
    BY <1>0, <1>5 DEF ProcLoop, RunningAt, RunningIn, Acquire, Go, queues, picking, Points
  <2> QED BY <2>1 DEF Hand
<1>6. CASE ProcDrain \/ ProcCollect
  <2>1. /\ at["proc"] \in {"drain", "wait"} /\ UNCHANGED <<hand, loop, cancelq, resultq>>
        /\ at'["proc"] \in {"wait", "loop", "failed"}
    BY <1>0, <1>6 DEF ProcDrain, ProcCollect, ProcStops, RunningAt, RunningIn, Go, queues, picking, Points
  <2> QED BY <2>1 DEF Hand
<1>7. CASE ProcSleep
  <2>1. /\ at["proc"] = "sleep" /\ at'["proc"] \in {"asleep", "top"}
        /\ UNCHANGED <<hand, loop, cancelq, resultq>>
    BY <1>0, <1>7 DEF ProcSleep, RunningAt, RunningIn, Go, queues, picking, Points
  <2> QED BY <2>1 DEF Hand
<1>8. CASE ProcNotified
  <2>1. /\ at["proc"] = "notified" /\ at'["proc"] = IF loop = "pause" THEN "sleep" ELSE "submit"
        /\ UNCHANGED <<hand, loop, cancelq, resultq>>
    BY <1>0, <1>8 DEF ProcNotified, RunningAt, RunningIn, Acquire, Go, queues, picking, Points
  <2> QED BY <2>1 DEF Hand
<1>9. CASE ProcSubmit
  <2>1. /\ at["proc"] = "submit" /\ UNCHANGED <<loop, cancelq, resultq>>
        /\ \/ at'["proc"] = "asleep" /\ UNCHANGED hand
           \/ at'["proc"] = "top" /\ hand' = 0
    BY <1>0, <1>9 DEF ProcSubmit, CreateTask, RunningAt, RunningIn, Go, queues, Points
  <2> QED BY <1>1, <2>1 DEF Hand
<1> QED BY <1>2, <1>3, <1>4, <1>5, <1>6, <1>7, <1>8, <1>9 DEF Processor

LEMMA HandStep ==
  ASSUME LInv, Hand, [Next]_vars
  PROVE  Hand'
<1>0. Order /\ TaskList /\ DOMAIN at = Coroutines /\ "proc" \in Coroutines
      /\ cancelq \in Seq(Samples) /\ resultq \in Seq(Samples)
  BY DEF LInv, Scheduling, Points, Coroutines, Hand
<1>1. CASE Processor
  BY <1>1, ProcessorHand
<1>2. CASE Feed
  <2>1. UNCHANGED <<hand, loop, cancelq, resultq>> /\ at'["proc"] = at["proc"]
    BY <1>0, <1>2 DEF Feed, Go, queues
  <2> QED BY <1>0, <2>1, HandKept
<1>3. CASE TaskBegin
  <2>1. UNCHANGED <<at, hand, loop, cancelq, resultq>>
    BY <1>3 DEF TaskBegin, TaskFrame, picking, queues
  <2> QED BY <1>0, <2>1, HandKept
<1>4. CASE TaskEnd
  <2>1. UNCHANGED <<hand, loop>> /\ at'["proc"] = at["proc"]
    BY <1>0, <1>4 DEF TaskEnd, TaskFrame, picking
  <2>2. /\ cancelq' \in {cancelq, Append(cancelq, Head(due))}
        /\ resultq' \in {resultq, Append(resultq, Head(due))}
    BY <1>4 DEF TaskEnd
  <2>3. Head(due) \in Samples
    BY <1>0, <1>4, TaskRuns DEF TaskEnd
  <2>4. Append(cancelq, Head(due)) \in Seq(Samples) /\ Append(resultq, Head(due)) \in Seq(Samples)
    BY <1>0, <2>3, AppendProperties
  <2> QED BY <1>0, <2>1, <2>2, <2>4, HandKept
<1>5. CASE Stream
  <2>1. UNCHANGED <<hand, loop, cancelq>> /\ at'["proc"] = at["proc"]
    BY <1>0, <1>5 DEF Stream, ConsumerPuts, ConsumerIdles, MainJoins, MainFinishes, MainLocks,
      MainEnds, Acquire, Go, picking, queues
  <2>2. resultq' = resultq \/ (resultq # <<>> /\ resultq' = Tail(resultq))
    BY <1>5 DEF Stream, ConsumerPuts, ConsumerIdles, MainJoins, MainFinishes, MainLocks, MainEnds, queues
  <2>3. resultq # <<>> => Tail(resultq) \in Seq(Samples)
    BY <1>0, HeadTailProperties
  <2> QED BY <1>0, <2>1, <2>2, <2>3, HandKept
<1>6. CASE Calls
  <2>1. UNCHANGED <<hand, loop, cancelq, resultq>>
    BY <1>6 DEF Calls, MonitorLooks, MonitorUnpauses, MonitorLocks, MonitorSleeps, PauseCalled,
      PauseStart, PauseTasks, PauseGathered, PauseEnd, UpdateCalled, UpdateAssign, UpdateEnd, ResumeCalled, ResumeUnpauses, ResumeEnd,
      Enters, picking, queues
  <2>2. at'["proc"] = at["proc"] \/ (at["proc"] = "asleep" /\ at'["proc"] = "notified")
    <3>1. CASE MonitorLooks \/ MonitorLocks \/ MonitorSleeps
      BY <1>0, <3>1 DEF MonitorLooks, MonitorLocks, MonitorSleeps, Acquire, Go
    <3>2. CASE PauseCalled \/ UpdateCalled \/ ResumeCalled
      BY <1>0, <3>2 DEF PauseCalled, UpdateCalled, ResumeCalled, Enters, Acquire, Go
    <3>3. CASE PauseStart \/ PauseTasks \/ PauseGathered \/ PauseEnd \/ UpdateAssign \/ UpdateEnd \/ ResumeEnd
      BY <1>0, <3>3 DEF PauseStart, PauseTasks, PauseGathered, PauseEnd, UpdateAssign, UpdateEnd, ResumeEnd, Go
    <3>4. CASE MonitorUnpauses \/ ResumeUnpauses
      <4>1. \E c \in {"monitor", "resume"}, point \in {"loop", "server", "off"} : GoNotifying(c, point)
        BY <3>4 DEF MonitorUnpauses, ResumeUnpauses
      <4> QED BY <1>0, <4>1 DEF GoNotifying
    <3> QED BY <1>6, <3>1, <3>2, <3>3, <3>4 DEF Calls
  <2> QED BY <1>0, <2>1, <2>2, HandKept
<1>7. CASE UpdateStart(call.version)
  <2>1. UNCHANGED <<hand, loop, cancelq, resultq>> /\ at'["proc"] = at["proc"]
    BY <1>0, <1>7 DEF UpdateStart, Go, picking, queues
  <2> QED BY <1>0, <2>1, HandKept
<1>8. CASE Answers \/ Timer
  <2>1. UNCHANGED <<hand, loop, cancelq, resultq>> /\ at'["proc"] = at["proc"]
    BY <1>0, <1>8 DEF Answers, Timer, PutAnswered, CancelAnswered, ResetAnswered, SizeAnswered,
      ValidateAnswered, FinishAnswered, UpdateArrives, ServerResumed, ResumeArrives, Wakes, Go, picking, queues
  <2> QED BY <1>0, <2>1, HandKept
<1>9. CASE Server
  <2>1. UNCHANGED <<at, hand, loop, cancelq, resultq>>
    BY <1>9 DEF Server, ServerStarts, ServerFinishes, ServerCancels, ServerRaises, ServerAnswers,
      ServerFrame, picking, queues
  <2> QED BY <1>0, <2>1, HandKept
<1>10. CASE Trainer
  <2>1. UNCHANGED <<hand, loop, cancelq, resultq>>
    BY <1>10 DEF Trainer, Collect, CollectEnd, Train, SyncPauses, PauseReturns, SyncSends,
      ReadValidation, CallFrame, rVars, picking, queues
  <2>2. at'["proc"] = at["proc"]
    <3>1. CASE SyncPauses \/ PauseReturns \/ SyncSends
      BY <1>0, <3>1 DEF SyncPauses, PauseReturns, SyncSends, Go
    <3>2. CASE Collect \/ CollectEnd \/ Train \/ ReadValidation
      BY <3>2 DEF Collect, CollectEnd, Train, ReadValidation, rVars, sched
    <3> QED BY <1>10, <3>1, <3>2 DEF Trainer
  <2> QED BY <1>0, <2>1, <2>2, HandKept
<1>12. CASE Actor
  <2>1. UNCHANGED <<hand, loop, cancelq, resultq>> /\ at'["proc"] = at["proc"]
    BY <1>0, <1>12 DEF Actor, PutRuns, SizeRuns, ValidateRuns, ActorFrame, Go, picking, queues
  <2> QED BY <1>0, <2>1, HandKept
<1>11. CASE UNCHANGED vars
  BY <1>0, <1>11, HandKept DEF vars, rVars, sched, picking, queues
<1> QED BY <1>1, <1>2, <1>3, <1>4, <1>5, <1>6, <1>7, <1>8, <1>9, <1>10, <1>11, <1>12
        DEF Next, Loop, Outside, Over, EventLoop

-----------------------------------------------------------------------------
\* The invariant.

LEMMA InitLoop ==
  ASSUME Init
  PROVE  LInv /\ Hand
<1> DEFINE go == [feed |-> "on", proc |-> "top", consumer |-> "idle", main |-> "on", monitor |-> "sleep",
                  pause |-> "off", update |-> "off", resume |-> "off"]
<1>1. /\ at = go /\ ready = <<"feed", "proc">> /\ due = <<>> /\ lock = Nobody /\ waiters = <<>>
      /\ fed = 0 /\ taken = 0 /\ hand = 0 /\ loop = "none" /\ finished = 0 /\ raised = 0
      /\ gen = [s \in Samples |-> "none"] /\ cancelq = <<>> /\ resultq = <<>> /\ tpc = "collect"
  BY DEF Init, RInit
<1>2. Total \in Nat \ {0} /\ PendingCap \in Nat \ {0} /\ Nobody \notin Coroutines
  BY RollouterAssumption
<1>3. /\ ready \in Seq(Coroutines \cup {"task"}) /\ Len(ready) = 2 /\ ready[1] = "feed" /\ ready[2] = "proc"
  BY <1>1 DEF Coroutines
<1>4. Order
  BY <1>1, <1>3 DEF Order, Once
<1>5. \A c : Has(ready, c) <=> c \in {"feed", "proc"}
  BY <1>3 DEF Has
<1>6. Runs = {"feed", "proc"} /\ Queued = {}
  BY <1>1, <1>5 DEF Runs, Queued, Coroutines, Has
<1>7. /\ DOMAIN at = Coroutines /\ at["feed"] = "on" /\ at["proc"] = "top" /\ at["consumer"] = "idle"
      /\ at["main"] = "on" /\ at["monitor"] = "sleep" /\ at["pause"] = "off" /\ at["update"] = "off"
      /\ at["resume"] = "off"
  BY <1>1 DEF Coroutines
<1>8. Locking
  <2>1. \A c \in Coroutines : ~AtLock(c) /\ ~Inside(c)
    BY <1>7 DEF AtLock, Inside
  <2> QED BY <1>1, <1>2, <1>6, <2>1 DEF Locking
<1>9. Busy = {}
  BY <1>1 DEF Busy
<1>10. TaskList
  <2>1. gen \in [Samples -> {"none", "sent", "decoding"} \cup Asks] /\ due \in Seq(Samples) /\ Len(due) = 0
    BY <1>1
  <2>2. \A s \in Samples : Count(due, s) = In(gen[s] \in Asks)
    BY <1>1, CountEmpty DEF In, Asks
  <2>3. Count(ready, "task") = 0
    <3>1. ~Has(ready, "task")
      BY <1>5
    <3>2. Count(ready, "task") \in Nat /\ (Has(ready, "task") <=> Count(ready, "task") >= 1)
      BY <1>3, CountType
    <3> QED BY <3>1, <3>2
  <2> QED BY <2>1, <2>2, <2>3 DEF TaskList
<1>11. Points
  BY <1>1, <1>7 DEF Points
<1>12. Runnable
  BY <1>1, <1>6, <1>7, <1>9 DEF Runnable, FeedRuns, ProcRuns, ConsumerRuns, MainRuns, CallsRun
<1>13. Feeding
  BY <1>1, <1>2, <1>3, <1>7, <1>9 DEF Feeding
<1>14. Hand
  BY <1>1, <1>2, <1>7 DEF Hand
<1> QED BY <1>4, <1>8, <1>10, <1>11, <1>12, <1>13, <1>14 DEF LInv, Scheduling

LEMMA LoopStep ==
  ASSUME LInv, Hand, hand # 0 => gen[hand] = "none", [Next]_vars
  PROVE  LInv'
<1>1. CASE EventLoop /\ UNCHANGED tpc
  <2>1. CASE Processor
    BY <1>1, <2>1, ProcTopStep, ProcGetStep, ProcMarkStep, ProcLoopStep, ProcDrainStep,
      ProcCollectStep, ProcSleepStep, ProcNotifiedStep, ProcSubmitStep DEF Processor
  <2>2. CASE Stream
    BY <1>1, <2>2, ConsumerPutsStep, ConsumerIdlesStep, MainJoinsStep, MainFinishesStep, LocksStep,
      CallEndsStep DEF Stream
  <2>3. CASE Calls
    BY <1>1, <2>3, MonitorLooksStep, MonitorUnpausesStep, LocksStep, UpdateStep, EntersStep, PauseStartStep, PauseWaitsStep,
       CallEndsStep, ResumeUnpausesStep DEF Calls, Update
  <2> QED BY <1>1, <2>1, <2>2, <2>3, FeedStep, TaskBeginStep, TaskEndStep DEF EventLoop
<1>2. CASE (UpdateStart(call.version) \/ Actor \/ Answers \/ Timer \/ Server) /\ UNCHANGED tpc
  BY <1>2, UpdateStep, ActorStep, AnswersStep, ServerStep DEF Update
<1>3. CASE Trainer
  BY <1>3, TrainerStep
<1>4. CASE UNCHANGED vars
  <2>1. UNCHANGED <<at, ready, due, lock, waiters, fed, taken, loop, finished, raised, gen, tpc>>
    BY <1>4 DEF vars, rVars, sched, picking, tasks, trainerVars
  <2>2. Order' /\ Runs' = Runs /\ Queued' = Queued /\ Busy' = Busy
    BY <2>1 DEF LInv, Order, Runs, Queued, Busy
  <2>3. Locking'
    BY <2>1, <2>2 DEF LInv, Locking, AtLock, Inside
  <2>4. TaskList' /\ Points' /\ Feeding'
    BY <2>1, <2>2 DEF LInv, Scheduling, TaskList, Points, Feeding
  <2>5. Runnable'
    BY <2>1, <2>2
       DEF LInv, Scheduling, Runnable, FeedRuns, ProcRuns, ConsumerRuns, MainRuns, CallsRun
  <2> QED BY <2>2, <2>3, <2>4, <2>5 DEF LInv, Scheduling
<1> QED BY <1>1, <1>2, <1>3, <1>4 DEF Next, Loop, Outside, Over, trainerVars
===============================================================================
