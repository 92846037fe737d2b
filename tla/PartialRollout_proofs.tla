------------------------- MODULE PartialRollout_proofs -------------------------
(***************************************************************************)
(* However a sample is interrupted and continued, for any number of        *)
(* responses, servers and synchronisations and any lengths: its responses  *)
(* are put together right (NothingLostOrTwice), the versions it is given   *)
(* are those of its tokens (VersionsBracket), and what is finished is not  *)
(* generated again (FinishedKept).                                         *)
(***************************************************************************)
EXTENDS PartialRollout, SequenceTheorems, TLAPS

Output == [response_ids : Seq(Tokens), log_probs : Seq(Tokens), is_cancel : BOOLEAN,
           first : 0..MaxVersion, last : 0..MaxVersion]
Request == [at : {"none", "sent", "generating"}, server : Servers \cup {None},
            got : Seq(Tokens), set : BOOLEAN]

\* A synchronisation that has begun has a version to go to.
Bounded ==
  /\ {stamp, weights, current} \subseteq 0..MaxVersion
  /\ phase \in {"cancelling", "weights"} => weights < MaxVersion

Shapes ==
  /\ Bounded
  /\ output \in [Responses -> Output \cup {None}]
  /\ request \in [Responses -> Request]

\* The tokens are at their positions and have their log probabilities; there are more of
\* these only when the tokens have been cut.
Fits(ids, probs) ==
  /\ Len(ids) <= ResponseLength /\ Len(ids) <= Len(probs)
  /\ \A k \in 1..Len(ids) : probs[k] = ids[k] /\ ids[k].pos = k
  /\ Len(ids) < ResponseLength => Len(probs) = Len(ids)

AllFit == \A i \in Responses : Present(i) => Fits(output[i].response_ids, output[i].log_probs)

\* What a request has generated goes on where the earlier output ends.
GotGoesOn ==
  \A i \in Responses : \A k \in 1..Len(request[i].got) :
    request[i].got[k].pos = Len(Earlier(i)) + k

IInv == Shapes /\ AllFit /\ GotGoesOn

-----------------------------------------------------------------------------
\* Cutting the tokens, but not their log probabilities, keeps them together.
LEMMA Joining ==
  ASSUME NEW ids \in Seq(Tokens), NEW probs \in Seq(Tokens), NEW got \in Seq(Tokens),
         Fits(ids, probs), \A k \in 1..Len(got) : got[k].pos = Len(ids) + k
  PROVE  Cut(ids \o got) \in Seq(Tokens) /\ Fits(Cut(ids \o got), probs \o got)
<1> DEFINE all == ids \o got
           both == probs \o got
<1>1. /\ all \in Seq(Tokens) /\ both \in Seq(Tokens)
      /\ Len(all) = Len(ids) + Len(got) /\ Len(both) = Len(probs) + Len(got)
      /\ \A k \in 1..Len(all) : all[k] = IF k <= Len(ids) THEN ids[k] ELSE got[k - Len(ids)]
      /\ \A k \in 1..Len(both) : both[k] = IF k <= Len(probs) THEN probs[k] ELSE got[k - Len(probs)]
  BY ConcatProperties
<1>2. Len(ids) \in Nat /\ Len(probs) \in Nat /\ Len(got) \in Nat /\ ResponseLength \in Nat
  BY LenProperties, PartialAssumption
<1> HIDE DEF all, both
<1>3. /\ Len(ids) <= ResponseLength /\ Len(ids) <= Len(probs)
      /\ \A k \in 1..Len(ids) : probs[k] = ids[k] /\ ids[k].pos = k
      /\ Len(ids) < ResponseLength => Len(probs) = Len(ids)
  BY DEF Fits
<1>4. ASSUME NEW k \in 1..Len(all), k <= ResponseLength
      PROVE  k \in 1..Len(both) /\ both[k] = all[k] /\ all[k].pos = k
  <2>1. k \in Nat /\ 1 <= k /\ k <= Len(ids) + Len(got)
    BY <1>1, <1>2
  <2>2. CASE k <= Len(ids)
    <3>1. k \in 1..Len(ids) /\ k \in 1..Len(both) /\ k <= Len(probs)
      BY <1>1, <1>2, <1>3, <2>1, <2>2
    <3> QED BY <1>1, <1>3, <2>2, <3>1
  <2>3. CASE k > Len(ids)
    <3>1. Len(probs) = Len(ids)
      BY <1>2, <1>3, <1>4, <2>1, <2>3
    <3>2. /\ k - Len(ids) \in 1..Len(got) /\ k \in 1..Len(both) /\ ~(k <= Len(ids))
          /\ Len(ids) + (k - Len(ids)) = k
      BY <1>1, <1>2, <2>1, <2>3, <3>1
    <3>3. both[k] = got[k - Len(ids)] /\ all[k] = got[k - Len(ids)]
      BY <1>1, <3>1, <3>2
    <3>4. got[k - Len(ids)].pos = k
      BY <3>2
    <3> QED BY <3>2, <3>3, <3>4
  <2> QED BY <1>2, <2>1, <2>2, <2>3
<1>5. CASE Len(all) > ResponseLength
  <2>1. Cut(all) = SubSeq(all, 1, ResponseLength)
    BY <1>5 DEF Cut
  <2>2. /\ Cut(all) \in Seq(Tokens) /\ Len(Cut(all)) = ResponseLength
        /\ \A k \in 1..ResponseLength : Cut(all)[k] = all[k]
    BY <1>1, <1>2, <1>5, <2>1, SubSeqProperties
  <2>3. Len(both) >= ResponseLength
    BY <1>1, <1>2, <1>3, <1>5
  <2>4. \A k \in 1..ResponseLength : both[k] = all[k] /\ all[k].pos = k
    BY <1>1, <1>2, <1>4, <1>5
  <2>5. Fits(Cut(all), both)
    <3> DEFINE cut == Cut(all)
    <3>1. /\ Len(cut) = ResponseLength /\ Len(cut) <= Len(both)
          /\ \A k \in 1..Len(cut) : both[k] = cut[k] /\ cut[k].pos = k
      BY <2>2, <2>3, <2>4
    <3> HIDE DEF cut
    <3>2. Fits(cut, both)
      BY <1>2, <3>1 DEF Fits
    <3> QED BY <3>2 DEF cut
  <2> QED BY <2>2, <2>5 DEF all, both
<1>6. CASE ~(Len(all) > ResponseLength)
  <2>1. Cut(all) = all
    BY <1>6 DEF Cut
  <2>2. Len(all) < ResponseLength => Len(both) = Len(all)
    <3>1. Len(all) < ResponseLength => Len(ids) < ResponseLength
      BY <1>1, <1>2
    <3> QED BY <1>1, <1>3, <3>1
  <2>3. Len(all) <= Len(both) /\ Len(all) <= ResponseLength
    BY <1>1, <1>2, <1>3, <1>6
  <2>4. \A k \in 1..Len(all) : both[k] = all[k] /\ all[k].pos = k
    BY <1>1, <1>2, <1>4, <2>3
  <2>5. Fits(all, both)
    BY <2>2, <2>3, <2>4 DEF Fits
  <2> QED BY <1>1, <2>1, <2>5 DEF all, both
<1> QED BY <1>5, <1>6

-----------------------------------------------------------------------------
LEMMA InitHolds == Init => IInv
BY PartialAssumption DEF Init, IInv, Shapes, Bounded, AllFit, GotGoesOn, Present, NoRequest,
  FreshRequest, Request

\* Before its first output a response has neither tokens nor log probabilities.
LEMMA EarlierFits ==
  ASSUME Shapes, AllFit, NEW i \in Responses
  PROVE  /\ Earlier(i) \in Seq(Tokens) /\ EarlierProbs(i) \in Seq(Tokens)
         /\ Fits(Earlier(i), EarlierProbs(i))
<1>1. CASE output[i] = None
  BY <1>1, PartialAssumption DEF Earlier, EarlierProbs, Fits
<1>2. CASE output[i] # None
  <2>1. output[i] \in Output
    BY <1>2 DEF Shapes
  <2> QED BY <1>2, <2>1 DEF Earlier, EarlierProbs, AllFit, Present, Output
<1> QED BY <1>1, <1>2

\* An answer puts the pieces together.
LEMMA AnswerStep ==
  ASSUME IInv, NEW i \in Responses, NEW got \in Seq(Tokens), NEW cancel \in BOOLEAN,
         \A k \in 1..Len(got) : got[k].pos = Len(Earlier(i)) + k,
         Answer(i, got, cancel), UNCHANGED sync
  PROVE  IInv'
<1> DEFINE ids == Cut(Earlier(i) \o got)
           probs == EarlierProbs(i) \o got
           first == IF output[i] = None THEN stamp ELSE output[i].first
           new == [response_ids |-> ids, log_probs |-> probs, is_cancel |-> cancel,
                   first |-> first, last |-> stamp]
<1>1. ids \in Seq(Tokens) /\ probs \in Seq(Tokens) /\ Fits(ids, probs)
  BY EarlierFits, Joining, ConcatProperties DEF IInv
<1>2. first \in 0..MaxVersion /\ stamp \in 0..MaxVersion
  BY DEF IInv, Shapes, Bounded, Output
<1>3. /\ output' = [output EXCEPT ![i] = new] /\ request' = [request EXCEPT ![i] = NoRequest]
      /\ UNCHANGED <<stamp, phase, weights, current>>
  BY DEF Answer, sync
<1> HIDE DEF ids, probs, first
<1>4. new \in Output /\ NoRequest \in Request /\ NoRequest.got = <<>>
  BY <1>1, <1>2 DEF Output, NoRequest, FreshRequest, Request
<1>5. new.response_ids = ids /\ new.log_probs = probs
  OBVIOUS
<1> HIDE DEF new
<1>6. Shapes'
  BY <1>3, <1>4 DEF IInv, Shapes, Bounded
<1>7. AllFit'
  BY <1>1, <1>3, <1>5 DEF IInv, Shapes, AllFit, Present
<1>8. GotGoesOn'
  <2> SUFFICES ASSUME NEW j \in Responses, NEW k \in 1..Len(request'[j].got)
      PROVE  request'[j].got[k].pos = Len(Earlier(j)') + k
    BY DEF GotGoesOn
  <2>1. CASE j = i
    BY <1>3, <1>4, <2>1 DEF IInv, Shapes
  <2>2. CASE j # i
    BY <1>3, <2>2 DEF IInv, Shapes, GotGoesOn, Earlier
  <2> QED BY <2>1, <2>2
<1> QED BY <1>6, <1>7, <1>8 DEF IInv

LEMMA TokenStep ==
  ASSUME IInv, NEW i \in Responses, Token(i)
  PROVE  IInv'
<1> DEFINE next == Len(Earlier(i)) + Len(request[i].got) + 1
           token == [pos |-> next, ver |-> weights]
<1>1. request[i] \in Request /\ request[i].got \in Seq(Tokens) /\ Earlier(i) \in Seq(Tokens)
  BY EarlierFits DEF IInv, Shapes, Request
<1>2. token \in Tokens /\ token.pos = next
  <2>1. weights \in 0..MaxVersion
    BY DEF IInv, Shapes, Bounded, Token
  <2>2. next \in Nat \ {0}
    BY <1>1, LenProperties
  <2> QED BY <2>1, <2>2 DEF Tokens
<1>3. /\ request' = [request EXCEPT ![i].got = Append(@, token)]
      /\ UNCHANGED <<output, stamp, phase, weights, current>>
  BY DEF Token, sync
<1> DEFINE got == Append(request[i].got, token)
<1>4. /\ got \in Seq(Tokens) /\ Len(got) = Len(request[i].got) + 1
      /\ \A k \in 1..Len(got) : got[k] = IF k = Len(got) THEN token ELSE request[i].got[k]
  BY <1>1, <1>2, AppendProperties
<1> HIDE DEF got, token
<1>5. request' = [request EXCEPT ![i] = [request[i] EXCEPT !.got = got]]
  BY <1>3 DEF got
<1>6. [request[i] EXCEPT !.got = got] \in Request /\ [request[i] EXCEPT !.got = got].got = got
  BY <1>1, <1>4 DEF Request
<1>7. Shapes'
  BY <1>3, <1>5, <1>6 DEF IInv, Shapes, Bounded
<1>8. AllFit'
  BY <1>3 DEF IInv, AllFit, Present
<1>9. GotGoesOn'
  <2> SUFFICES ASSUME NEW j \in Responses, NEW k \in 1..Len(request'[j].got)
      PROVE  request'[j].got[k].pos = Len(Earlier(j)) + k
    BY <1>3 DEF GotGoesOn, Earlier
  <2>1. CASE j = i
    <3>1. request'[j].got = got
      BY <1>5, <1>6, <2>1 DEF IInv, Shapes
    <3>2. k \in 1..Len(got) /\ Len(request[i].got) \in Nat /\ Len(Earlier(i)) \in Nat
      BY <1>1, <3>1, LenProperties
    <3>3. CASE k = Len(got)
      BY <1>2, <1>4, <2>1, <3>1, <3>2, <3>3
    <3>4. CASE k # Len(got)
      <4>1. k \in 1..Len(request[i].got) /\ got[k] = request[i].got[k]
        BY <1>4, <3>2, <3>4
      <4> QED BY <2>1, <3>1, <4>1 DEF IInv, GotGoesOn
    <3> QED BY <3>3, <3>4
  <2>2. CASE j # i
    BY <1>5, <2>2 DEF IInv, Shapes, GotGoesOn
  <2> QED BY <2>1, <2>2
<1> QED BY <1>7, <1>8, <1>9 DEF IInv

\* Steps that change no output and at most begin requests or set their cancel events.
LEMMA QuietStep ==
  ASSUME IInv, UNCHANGED output, Bounded',
         request' \in [Responses -> Request],
         \A i \in Responses : request'[i].got \in {<<>>, request[i].got}
  PROVE  IInv'
<1>1. Shapes' /\ AllFit'
  BY DEF IInv, Shapes, AllFit, Present
<1>2. GotGoesOn'
  BY DEF IInv, GotGoesOn, Earlier
<1> QED BY <1>1, <1>2 DEF IInv

\* A request as it is, or with its event set.
LEMMA RequestKept ==
  ASSUME Shapes, NEW i \in Responses
  PROVE  /\ request[i] \in Request /\ [request[i] EXCEPT !.set = TRUE] \in Request
         /\ [request[i] EXCEPT !.set = TRUE].got = request[i].got
         /\ [request[i] EXCEPT !.at = "generating"] \in Request
         /\ [request[i] EXCEPT !.at = "generating"].got = request[i].got
BY DEF Shapes, Request

LEMMA GenerationStep ==
  ASSUME IInv, NEW i \in Responses, Generation(i)
  PROVE  IInv'
<1>1. request[i] \in Request /\ request[i].got \in Seq(Tokens)
  BY DEF IInv, Shapes, Request
<1>2. \A k \in 1..Len(request[i].got) : request[i].got[k].pos = Len(Earlier(i)) + k
  BY DEF IInv, GotGoesOn
<1>3. CASE Arrive(i)
  <2>1. CASE Answer(i, <<>>, TRUE) /\ UNCHANGED sync
    <3>1. <<>> \in Seq(Tokens) /\ \A k \in 1..Len(<<>>) : <<>>[k].pos = Len(Earlier(i)) + k
      BY EmptySeq
    <3> QED BY <2>1, <3>1, AnswerStep
  <2>2. CASE /\ request' = [request EXCEPT ![i].at = "generating"]
             /\ UNCHANGED <<job, output, stamp, sync>>
    <3>1. request' = [request EXCEPT ![i] = [request[i] EXCEPT !.at = "generating"]]
      BY <2>2
    <3>2. request' \in [Responses -> Request]
      BY <3>1, RequestKept DEF IInv, Shapes
    <3>3. \A j \in Responses : request'[j].got = request[j].got
      BY <3>1, RequestKept DEF IInv, Shapes
    <3> QED BY <2>2, <3>2, <3>3, QuietStep DEF IInv, Shapes, Bounded, sync
  <2> QED BY <1>3, <2>1, <2>2 DEF Arrive
<1>4. CASE Token(i)
  BY <1>4, TokenStep
<1>5. CASE Complete(i)
  BY <1>1, <1>2, <1>5, AnswerStep DEF Complete
<1>6. CASE Interrupt(i)
  BY <1>1, <1>2, <1>6, AnswerStep DEF Interrupt
<1>7. CASE Raise(i)
  <2>1. NoRequest \in Request /\ NoRequest.got = <<>>
    BY EmptySeq DEF NoRequest, FreshRequest, Request
  <2>2. request' = [j \in Responses |-> NoRequest] /\ UNCHANGED <<output, stamp, phase, weights, current>>
    BY <1>7 DEF Raise, sync
  <2>3. Bounded'
    BY <2>2 DEF IInv, Shapes, Bounded
  <2> QED BY <2>1, <2>2, <2>3, QuietStep
<1> QED BY <1>3, <1>4, <1>5, <1>6, <1>7 DEF Generation

LEMMA BeginStep ==
  ASSUME IInv, Begin
  PROVE  IInv'
<1>1. PICK server \in [Responses -> Servers] :
        request' = [i \in Responses |->
                      IF i \in Unfinished THEN FreshRequest("sent", server[i]) ELSE NoRequest]
  BY DEF Begin
<1>2. ASSUME NEW i \in Responses
      PROVE  request'[i] \in Request /\ request'[i].got = <<>>
  BY <1>1, EmptySeq DEF Request, NoRequest, FreshRequest
<1>3. request' \in [Responses -> Request] /\ \A i \in Responses : request'[i].got = <<>>
  BY <1>1, <1>2
<1>4. UNCHANGED output /\ Bounded'
  BY DEF Begin, IInv, Shapes, Bounded, sync
<1> QED BY <1>3, <1>4, QuietStep

LEMMA CancelStep ==
  ASSUME IInv, NEW s \in Servers, CancelServer(s)
  PROVE  IInv'
<1>1. request' = [i \in Responses |->
         IF request[i].at = "generating" /\ request[i].server = s
           THEN [request[i] EXCEPT !.set = TRUE] ELSE request[i]]
  BY DEF CancelServer
<1>2. request' \in [Responses -> Request]
  BY <1>1, RequestKept DEF IInv
<1>3. \A i \in Responses : request'[i].got = request[i].got
  BY <1>1, RequestKept DEF IInv
<1>4. Bounded' /\ UNCHANGED output
  BY DEF CancelServer, SyncFrame, IInv, Shapes, Bounded
<1> QED BY <1>2, <1>3, <1>4, QuietStep DEF IInv, Shapes

-----------------------------------------------------------------------------
LEMMA StepHolds == IInv /\ [Next]_vars => IInv'
<1> SUFFICES ASSUME IInv, [Next]_vars PROVE IInv'
  OBVIOUS
<1>1. CASE Begin
  BY <1>1, BeginStep
<1>2. ASSUME NEW i \in Responses, Generation(i) PROVE IInv'
  BY <1>2, GenerationStep
<1>3. ASSUME NEW s \in Servers, CancelServer(s) PROVE IInv'
  BY <1>3, CancelStep
<1>4. CASE NewWeights \/ UpdateVersion
  BY <1>4, PartialAssumption, QuietStep DEF NewWeights, UpdateVersion, SyncFrame, IInv, Shapes,
    Bounded
<1>5. CASE End \/ StartCancel \/ Gather \/ (\E s \in Servers : ResumeServer(s)) \/ Over \/ UNCHANGED vars
  BY <1>5, QuietStep DEF End, StartCancel, Gather, ResumeServer, Over, SyncFrame, vars, sync, IInv,
    Shapes, Bounded
<1> QED BY <1>1, <1>2, <1>3, <1>4, <1>5 DEF Next, Sync

\* However often a sample is interrupted and continued, the tokens of its responses are
\* those from the first position on, each once and with its own log probability, though
\* run() cuts the tokens and not the log probabilities.
THEOREM PiecesFit == SafeSpec => []NothingLostOrTwice
<1>1. IInv => NothingLostOrTwice
  <2> SUFFICES ASSUME IInv, NEW i \in Responses, Present(i)
      PROVE  /\ \A k \in DOMAIN output[i].response_ids : output[i].response_ids[k].pos = k
             /\ IsPrefix(output[i].response_ids, output[i].log_probs)
    BY DEF NothingLostOrTwice
  <2> DEFINE ids == output[i].response_ids
             probs == output[i].log_probs
  <2>1. ids \in Seq(Tokens) /\ probs \in Seq(Tokens) /\ Fits(ids, probs)
    BY DEF IInv, Shapes, Output, AllFit, Present
  <2> HIDE DEF ids, probs
  <2>2. Len(ids) \in Nat /\ Len(probs) \in Nat /\ DOMAIN ids = 1..Len(ids)
    BY <2>1, LenProperties
  <2>3. \A k \in 1..Len(ids) : probs[k] = ids[k] /\ ids[k] \in Tokens /\ probs[k] \in Tokens
    BY <2>1, <2>2, ElementOfSeq DEF Fits
  <2>4. /\ SubSeq(ids, 1, Len(ids)) \in Seq(Tokens) /\ SubSeq(probs, 1, Len(ids)) \in Seq(Tokens)
        /\ Len(SubSeq(ids, 1, Len(ids))) = Len(ids) /\ Len(SubSeq(probs, 1, Len(ids))) = Len(ids)
        /\ \A k \in 1..Len(ids) : SubSeq(ids, 1, Len(ids))[k] = SubSeq(probs, 1, Len(ids))[k]
    BY <2>2, <2>3, SubSeqProperties
  <2>5. SubSeq(ids, 1, Len(ids)) = SubSeq(probs, 1, Len(ids))
    BY <2>4, SeqEqual
  <2>6. \A k \in DOMAIN ids : ids[k].pos = k
    BY <2>1, <2>2 DEF Fits
  <2> QED BY <2>1, <2>5, <2>6 DEF IsPrefix, Fits, ids, probs
<1> QED BY <1>1, InitHolds, StepHolds, PTL DEF SafeSpec

-----------------------------------------------------------------------------
\* The phases of a synchronisation and what a sample and its requests may do in them.

\* While weights are exchanged every server is paused and nothing is generated.
Exchanging == phase \in {"weights", "version"}

Phases ==
  /\ job \in {"queued", "running", "left", "failed"}
  /\ phase \in {"open", "cancelling", "weights", "version", "resuming"}
  /\ paused \in [Servers -> BOOLEAN]
  /\ Exchanging => \A s \in Servers : paused[s]
  /\ current = IF phase = "version" THEN weights - 1 ELSE weights

\* A sample runs through at most one change of the weights, which it was begun before.
Stamped == job = "running" =>
  stamp <= weights /\ weights <= stamp + 1 /\ (phase = "weights" => stamp = weights)

\* Requests are only there while the sample runs, for its unfinished responses, and what
\* one has generated is of the present weights.
Requests == \A i \in Responses :
  /\ request[i].at # "none" =>
       job = "running" /\ i \in Unfinished /\ request[i].server \in Servers
  /\ request[i].at = "generating" => ~Exchanging
  /\ request[i].at # "generating" => request[i].got = <<>>
  /\ \A k \in 1..Len(request[i].got) : request[i].got[k].ver = weights

Dated(ids, first, last, now) ==
  /\ \A k \in 1..Len(ids) : first <= ids[k].ver /\ ids[k].ver <= last + 1 /\ ids[k].ver <= now
  /\ \A k \in 1..Len(ids) - 1 : ids[k].ver <= ids[k + 1].ver

AllDated == \A i \in Responses : Present(i) =>
  /\ output[i].first <= weights
  /\ Dated(output[i].response_ids, output[i].first, output[i].last, weights)

VInv == IInv /\ Phases /\ Stamped /\ Requests /\ AllDated
\* What is new is of the present weights, which no earlier token is newer than.
LEMMA JoiningDated ==
  ASSUME NEW ids \in Seq(Tokens), NEW got \in Seq(Tokens), NEW first \in 0..MaxVersion,
         NEW last \in 0..MaxVersion, stamp \in 0..MaxVersion, weights \in 0..MaxVersion,
         Dated(ids, first, last, weights), first <= weights, weights <= stamp + 1,
         \A k \in 1..Len(got) : got[k].ver = weights
  PROVE  Dated(Cut(ids \o got), first, stamp, weights)
<1> DEFINE all == ids \o got
           cut == Cut(all)
<1>1. /\ all \in Seq(Tokens) /\ Len(all) = Len(ids) + Len(got)
      /\ \A k \in 1..Len(all) : all[k] = IF k <= Len(ids) THEN ids[k] ELSE got[k - Len(ids)]
  BY ConcatProperties
<1>2. Len(ids) \in Nat /\ Len(got) \in Nat /\ Len(all) \in Nat /\ ResponseLength \in Nat
  BY <1>1, LenProperties, PartialAssumption
<1> HIDE DEF all
<1>3. /\ \A k \in 1..Len(ids) : first <= ids[k].ver /\ ids[k].ver <= weights
      /\ \A k \in 1..Len(ids) - 1 : ids[k].ver <= ids[k + 1].ver
  BY DEF Dated
<1>4. ASSUME NEW k \in 1..Len(all)
      PROVE  first <= all[k].ver /\ all[k].ver <= weights /\ (k > Len(ids) => all[k].ver = weights)
  <2>1. CASE k <= Len(ids)
    BY <1>1, <1>2, <1>3, <2>1
  <2>2. CASE k > Len(ids)
    <3>1. k - Len(ids) \in 1..Len(got) /\ ~(k <= Len(ids))
      BY <1>1, <1>2, <2>2
    <3>2. all[k].ver = weights
      BY <1>1, <3>1
    <3> QED BY <3>2
  <2> QED BY <1>2, <2>1, <2>2
<1>5. ASSUME NEW k \in 1..Len(all) - 1
      PROVE  all[k].ver <= all[k + 1].ver
  <2>0. k \in 1..Len(all) /\ k + 1 \in 1..Len(all) /\ k \in Nat
    BY <1>2
  <2>1. CASE k + 1 <= Len(ids)
    <3>1. k \in 1..Len(ids) - 1 /\ k <= Len(ids)
      BY <1>2, <2>0, <2>1
    <3> QED BY <1>1, <1>3, <2>0, <2>1, <3>1
  <2>2. CASE k + 1 > Len(ids)
    BY <1>4, <2>0, <2>2
  <2> QED BY <1>2, <2>0, <2>1, <2>2
<1>6. /\ Len(cut) <= Len(all) /\ Len(cut) \in Nat
      /\ \A k \in 1..Len(cut) : cut[k] = all[k]
  <2>1. CASE Len(all) > ResponseLength
    <3>1. cut = SubSeq(all, 1, ResponseLength)
      BY <2>1 DEF Cut
    <3> QED BY <1>1, <1>2, <2>1, <3>1, SubSeqProperties
  <2>2. CASE ~(Len(all) > ResponseLength)
    BY <1>2, <2>2 DEF Cut
  <2> QED BY <2>1, <2>2
<1> HIDE DEF cut
<1>7. ASSUME NEW k \in 1..Len(cut)
      PROVE  first <= cut[k].ver /\ cut[k].ver <= stamp + 1 /\ cut[k].ver <= weights
  <2>1. k \in 1..Len(all) /\ all[k] \in Tokens
    BY <1>1, <1>2, <1>6, ElementOfSeq
  <2>2. all[k].ver \in 0..MaxVersion /\ cut[k] = all[k]
    BY <1>6, <2>1 DEF Tokens
  <2> QED BY <1>4, <2>1, <2>2, PartialAssumption
<1>8. ASSUME NEW k \in 1..Len(cut) - 1
      PROVE  cut[k].ver <= cut[k + 1].ver
  <2>1. k \in 1..Len(cut) /\ k + 1 \in 1..Len(cut) /\ k \in 1..Len(all) - 1
    BY <1>2, <1>6
  <2> QED BY <1>5, <1>6, <2>1
<1> QED BY <1>7, <1>8 DEF Dated, cut, all

LEMMA InitDated == Init => Phases /\ Stamped /\ Requests /\ AllDated
BY EmptySeq DEF Init, Phases, Exchanging, Stamped, Requests, AllDated, Present, NoRequest,
  FreshRequest

\* Steps of the sample that leave the synchronisation alone.
LEMMA AnswerDated ==
  ASSUME VInv, NEW i \in Responses, request[i].at # "none", NEW cancel \in BOOLEAN,
         NEW got, got = request[i].got \/ got = <<>>,
         Answer(i, got, cancel), UNCHANGED sync
  PROVE  Phases' /\ Stamped' /\ Requests' /\ AllDated'
<1> DEFINE ids == Cut(Earlier(i) \o got)
           probs == EarlierProbs(i) \o got
           first == IF output[i] = None THEN stamp ELSE output[i].first
           last == IF output[i] = None THEN stamp ELSE output[i].last
           new == [response_ids |-> ids, log_probs |-> probs, is_cancel |-> cancel,
                   first |-> first, last |-> stamp]
<1>1. /\ output' = [output EXCEPT ![i] = new] /\ request' = [request EXCEPT ![i] = NoRequest]
      /\ UNCHANGED <<job, stamp, paused, phase, weights, current>>
  BY DEF Answer, sync
<1>2. Phases' /\ Stamped'
  BY <1>1 DEF VInv, Phases, Exchanging, Stamped
<1>3. NoRequest.at = "none" /\ NoRequest.got = <<>> /\ Len(NoRequest.got) = 0
  BY DEF NoRequest, FreshRequest
<1>4. output \in [Responses -> Output \cup {None}] /\ request \in [Responses -> Request]
  BY DEF VInv, IInv, Shapes
<1>5. Requests'
  <2> SUFFICES ASSUME NEW j \in Responses
      PROVE  /\ request'[j].at # "none" =>
                  job' = "running" /\ (j \in Unfinished)' /\ request'[j].server \in Servers
             /\ request'[j].at = "generating" => ~Exchanging'
             /\ request'[j].at # "generating" => request'[j].got = <<>>
             /\ \A k \in 1..Len(request'[j].got) : request'[j].got[k].ver = weights'
    BY DEF Requests
  <2>1. CASE j = i
    BY <1>1, <1>3, <1>4, <2>1
  <2>2. CASE j # i
    <3>1. request'[j] = request[j] /\ output'[j] = output[j]
      BY <1>1, <1>4, <2>2
    <3> QED BY <1>1, <3>1 DEF VInv, Requests, Unfinished, Cancelled, Exchanging
  <2> QED BY <2>1, <2>2
<1>6. Dated(ids, first, stamp, weights) /\ first <= weights
  <2>1. stamp \in 0..MaxVersion /\ weights \in 0..MaxVersion /\ job = "running"
    BY DEF VInv, IInv, Shapes, Bounded, Requests
  <2>2. stamp <= weights /\ weights <= stamp + 1
    BY <2>1 DEF VInv, Stamped
  <2>3. /\ Earlier(i) \in Seq(Tokens) /\ first \in 0..MaxVersion /\ last \in 0..MaxVersion
        /\ first <= weights /\ Dated(Earlier(i), first, last, weights)
    <3>1. CASE output[i] = None
      <4>1. Earlier(i) = <<>> /\ Earlier(i) \in Seq(Tokens) /\ Len(Earlier(i)) = 0
        BY <3>1, EmptySeq DEF Earlier
      <4> QED BY <2>1, <2>2, <3>1, <4>1 DEF Dated
    <3>2. CASE output[i] # None
      <4>1. output[i] \in Output
        BY <1>4, <3>2
      <4> QED BY <3>2, <4>1 DEF VInv, AllDated, Present, Earlier, Output
    <3> QED BY <3>1, <3>2
  <2>4. got \in Seq(Tokens) /\ \A k \in 1..Len(got) : got[k].ver = weights
    <3>1. CASE got = request[i].got
      BY <1>4, <3>1 DEF Request, VInv, Requests
    <3>2. CASE got = <<>>
      <4>1. Len(got) = 0 /\ got \in Seq(Tokens)
        BY <3>2
      <4> QED BY <4>1
    <3> QED BY <3>1, <3>2
  <2> QED BY <2>1, <2>2, <2>3, <2>4, JoiningDated
<1>7. new.response_ids = ids /\ new.first = first /\ new.last = stamp
  OBVIOUS
<1> HIDE DEF new, ids, first
<1>8. AllDated'
  <2> SUFFICES ASSUME NEW j \in Responses, Present(j)'
      PROVE  /\ output'[j].first <= weights'
             /\ Dated(output'[j].response_ids, output'[j].first, output'[j].last, weights')
    BY DEF AllDated
  <2>1. CASE j = i
    <3>1. output'[j] = new
      BY <1>1, <1>4, <2>1
    <3> QED BY <1>1, <1>6, <1>7, <3>1 DEF Dated
  <2>2. CASE j # i
    <3>1. output'[j] = output[j]
      BY <1>1, <1>4, <2>2
    <3> QED BY <1>1, <3>1 DEF VInv, AllDated, Present, Dated
  <2> QED BY <2>1, <2>2
<1> QED BY <1>2, <1>5, <1>8

\* A request that goes on: its output and everything else stay.
LEMMA RequestStep ==
  ASSUME VInv, NEW i \in Responses, UNCHANGED <<job, output, stamp, sync>>,
         NEW new \in Request, request' = [request EXCEPT ![i] = new], request[i].at # "none",
         new.server = request[i].server, new.at = "generating", ~Exchanging,
         \A k \in 1..Len(new.got) : new.got[k].ver = weights
  PROVE  Phases' /\ Stamped' /\ Requests' /\ AllDated'
<1>1. UNCHANGED <<paused, phase, weights, current>>
  BY DEF sync
<1>2. Phases' /\ Stamped' /\ AllDated'
  BY <1>1 DEF VInv, Phases, Exchanging, Stamped, AllDated, Present, Dated
<1>3. request \in [Responses -> Request]
  BY DEF VInv, IInv, Shapes
<1>4. Requests'
  <2> SUFFICES ASSUME NEW j \in Responses
      PROVE  /\ request'[j].at # "none" =>
                  job' = "running" /\ (j \in Unfinished)' /\ request'[j].server \in Servers
             /\ request'[j].at = "generating" => ~Exchanging'
             /\ request'[j].at # "generating" => request'[j].got = <<>>
             /\ \A k \in 1..Len(request'[j].got) : request'[j].got[k].ver = weights'
    BY DEF Requests
  <2>1. (j \in Unfinished)' <=> j \in Unfinished
    BY DEF Unfinished, Cancelled
  <2>2. CASE j = i
    <3>1. request'[j] = new
      BY <1>3, <2>2
    <3> QED BY <1>1, <2>1, <2>2, <3>1 DEF VInv, Requests, Exchanging
  <2>3. CASE j # i
    <3>1. request'[j] = request[j]
      BY <1>3, <2>3
    <3> QED BY <1>1, <2>1, <3>1 DEF VInv, Requests, Exchanging
  <2> QED BY <2>2, <2>3
<1> QED BY <1>2, <1>4

LEMMA GenerationDated ==
  ASSUME VInv, NEW i \in Responses, Generation(i)
  PROVE  Phases' /\ Stamped' /\ Requests' /\ AllDated'
<1>1. request[i] \in Request
  BY DEF VInv, IInv, Shapes
<1>2. CASE Arrive(i)
  <2>1. CASE Answer(i, <<>>, TRUE) /\ UNCHANGED sync
    BY <1>2, <2>1, AnswerDated DEF Arrive
  <2>2. CASE /\ ~paused[request[i].server]
             /\ request' = [request EXCEPT ![i].at = "generating"]
             /\ UNCHANGED <<job, output, stamp, sync>>
    <3> DEFINE new == [request[i] EXCEPT !.at = "generating"]
    <3>1. request' = [request EXCEPT ![i] = new] /\ request[i].at = "sent"
      BY <1>2, <2>2 DEF Arrive
    <3>2. new \in Request /\ new.server = request[i].server /\ new.at = "generating" /\ new.got = request[i].got
      BY <1>1 DEF Request
    <3>3. request[i].server \in Servers /\ \A k \in 1..Len(request[i].got) : request[i].got[k].ver = weights
      BY <3>1 DEF VInv, Requests
    <3>4. ~Exchanging
      BY <2>2, <3>3 DEF VInv, Phases
    <3> HIDE DEF new
    <3>5. request[i].at # "none" /\ \A k \in 1..Len(new.got) : new.got[k].ver = weights
      BY <3>1, <3>2, <3>3
    <3> QED BY <2>2, <3>1, <3>2, <3>4, <3>5, RequestStep
  <2> QED BY <1>2, <2>1, <2>2 DEF Arrive
<1>3. CASE Token(i)
  <2> DEFINE token == [pos |-> Len(Earlier(i)) + Len(request[i].got) + 1, ver |-> weights]
             got == Append(request[i].got, token)
             new == [request[i] EXCEPT !.got = got]
  <2>1. request[i].got \in Seq(Tokens) /\ request[i].at = "generating"
    BY <1>1, <1>3 DEF Request, Token
  <2>2. token \in Tokens /\ token.ver = weights
    <3>1. weights \in 0..MaxVersion
      BY <1>3 DEF VInv, IInv, Shapes, Bounded, Token
    <3>2. Len(Earlier(i)) \in Nat /\ Len(request[i].got) \in Nat
      BY <2>1, EarlierFits, LenProperties DEF VInv, IInv
    <3>3. Len(Earlier(i)) + Len(request[i].got) + 1 \in Nat \ {0}
      BY <3>2
    <3> QED BY <3>1, <3>3 DEF Tokens
  <2>3. /\ request' = [request EXCEPT ![i].got = Append(@, token)]
        /\ UNCHANGED <<job, output, stamp, sync>>
    BY <1>3 DEF Token
  <2>4. request' = [request EXCEPT ![i] = new]
    BY <2>3
  <2>5. /\ got \in Seq(Tokens) /\ Len(got) = Len(request[i].got) + 1 /\ Len(request[i].got) \in Nat
        /\ \A k \in 1..Len(got) : got[k] = IF k = Len(got) THEN token ELSE request[i].got[k]
    BY <2>1, <2>2, AppendProperties
  <2> HIDE DEF got, token
  <2>6. \A k \in 1..Len(request[i].got) : request[i].got[k].ver = weights
    BY DEF VInv, Requests
  <2>7. \A k \in 1..Len(got) : got[k].ver = weights
    <3> SUFFICES ASSUME NEW k \in 1..Len(got) PROVE got[k].ver = weights
      OBVIOUS
    <3>1. CASE k = Len(got)
      BY <2>2, <2>5, <3>1
    <3>2. CASE k # Len(got)
      <4>1. k \in 1..Len(request[i].got) /\ got[k] = request[i].got[k]
        BY <2>5, <3>2
      <4> QED BY <2>6, <4>1
    <3> QED BY <3>1, <3>2
  <2>8. new \in Request /\ new.server = request[i].server /\ new.at = "generating" /\ new.got = got
    BY <1>1, <2>1, <2>5 DEF Request
  <2>9. ~Exchanging
    BY <2>1 DEF VInv, Requests
  <2> HIDE DEF new
  <2> QED BY <2>1, <2>3, <2>4, <2>7, <2>8, <2>9, RequestStep
<1>4. CASE Complete(i)
  BY <1>4, AnswerDated DEF Complete
<1>5. CASE Interrupt(i)
  BY <1>5, AnswerDated DEF Interrupt
<1>6. CASE Raise(i)
  <2>1. \A j \in Responses : request'[j].at = "none" /\ request'[j].got = <<>> /\ Len(request'[j].got) = 0
    BY <1>6 DEF Raise, NoRequest, FreshRequest
  <2>2. job' = "failed" /\ UNCHANGED <<output, stamp, paused, phase, weights, current>>
    BY <1>6 DEF Raise, sync
  <2>3. Phases' /\ Stamped'
    BY <2>2 DEF VInv, Phases, Exchanging, Stamped
  <2>4. Requests'
    BY <2>1 DEF Requests
  <2>5. AllDated'
    BY <2>2 DEF VInv, AllDated, Present, Dated
  <2> QED BY <2>3, <2>4, <2>5
<1> QED BY <1>2, <1>3, <1>4, <1>5, <1>6 DEF Generation

LEMMA BeginDated ==
  ASSUME VInv, Begin
  PROVE  Phases' /\ Stamped' /\ Requests' /\ AllDated'
<1>1. PICK server \in [Responses -> Servers] :
        request' = [i \in Responses |->
                      IF i \in Unfinished THEN FreshRequest("sent", server[i]) ELSE NoRequest]
  BY DEF Begin
<1>2. job' = "running" /\ stamp' = current /\ UNCHANGED <<output, paused, phase, weights, current>>
  BY DEF Begin, sync
<1>3. weights \in Nat /\ current \in Nat
  BY PartialAssumption DEF VInv, IInv, Shapes, Bounded
<1>4. Phases' /\ Stamped' /\ AllDated'
  <2>1. Phases'
    BY <1>2 DEF VInv, Phases, Exchanging
  <2>2. Stamped'
    BY <1>2, <1>3 DEF VInv, Phases, Stamped
  <2>3. AllDated'
    BY <1>2 DEF VInv, AllDated, Present
  <2> QED BY <2>1, <2>2, <2>3
<1>5. ASSUME NEW i \in Responses
      PROVE  /\ request'[i].at # "none" => i \in Unfinished /\ request'[i].server \in Servers
             /\ request'[i].at # "generating" /\ request'[i].got = <<>> /\ Len(request'[i].got) = 0
  BY <1>1 DEF NoRequest, FreshRequest
<1>6. ASSUME NEW i \in Responses
      PROVE  (i \in Unfinished)' <=> i \in Unfinished
  BY <1>2 DEF Unfinished, Cancelled
<1>7. Requests'
  BY <1>2, <1>5, <1>6 DEF Requests
<1> QED BY <1>4, <1>7

\* Steps of the synchronisation: no request begins or generates in them.
LEMMA SyncDated ==
  ASSUME VInv, UNCHANGED <<output, stamp>>,
         \A i \in Responses :
           request'[i].at = request[i].at /\ request'[i].server = request[i].server /\ request'[i].got = request[i].got,
         weights' = weights \/ (weights' = weights + 1 /\ phase = "weights"), job' = job,
         Phases', Stamped', Exchanging' => Exchanging \/ job # "running"
  PROVE  Requests' /\ AllDated'
<1>1. weights \in Nat /\ weights' \in Nat /\ weights <= weights'
  BY PartialAssumption DEF VInv, IInv, Shapes, Bounded
<1>2. Requests'
  <2> SUFFICES ASSUME NEW i \in Responses
      PROVE  /\ request'[i].at # "none" =>
                  job' = "running" /\ (i \in Unfinished)' /\ request'[i].server \in Servers
             /\ request'[i].at = "generating" => ~Exchanging'
             /\ request'[i].at # "generating" => request'[i].got = <<>>
             /\ \A k \in 1..Len(request'[i].got) : request'[i].got[k].ver = weights'
    BY DEF Requests
  <2>1. (i \in Unfinished)' <=> i \in Unfinished
    BY DEF Unfinished, Cancelled
  <2>2. request[i].at = "generating" => ~Exchanging /\ job = "running"
    BY DEF VInv, Requests
  <2>3. \A k \in 1..Len(request[i].got) : request[i].got[k].ver = weights'
    <3>1. CASE weights' = weights
      BY <3>1 DEF VInv, Requests
    <3>2. CASE phase = "weights"
      <4>1. request[i].got = <<>>
        BY <2>2, <3>2 DEF VInv, Requests, Exchanging
      <4> QED BY <4>1
    <3> QED BY <3>1, <3>2
  <2> QED BY <2>1, <2>2, <2>3 DEF VInv, Requests
<1>3. AllDated'
  <2> SUFFICES ASSUME NEW i \in Responses, Present(i)
      PROVE  /\ output[i].first <= weights'
             /\ Dated(output[i].response_ids, output[i].first, output[i].last, weights')
    BY DEF AllDated, Present, Dated
  <2> DEFINE ids == output[i].response_ids
  <2>1. output[i] \in Output /\ ids \in Seq(Tokens)
    BY DEF VInv, IInv, Shapes, Present, Output
  <2>2. output[i].first <= weights /\ Dated(ids, output[i].first, output[i].last, weights)
    BY DEF VInv, AllDated
  <2>3. ASSUME NEW k \in 1..Len(ids) PROVE ids[k].ver <= weights'
    <3>1. ids[k].ver \in 0..MaxVersion
      <4>1. ids[k] \in Tokens
        BY <2>1, ElementOfSeq
      <4> QED BY <4>1 DEF Tokens
    <3> QED BY <1>1, <2>2, <3>1, PartialAssumption DEF Dated
  <2>4. output[i].first <= weights'
    BY <1>1, <2>1, <2>2, PartialAssumption DEF Output
  <2> HIDE DEF ids
  <2>5. Dated(ids, output[i].first, output[i].last, weights')
    BY <2>2, <2>3 DEF Dated, ids
  <2> QED BY <2>4, <2>5 DEF Dated, ids
<1> QED BY <1>2, <1>3
LEMMA StepDated == VInv /\ [Next]_vars => VInv'
<1> SUFFICES ASSUME VInv, [Next]_vars
    PROVE  Phases' /\ Stamped' /\ Requests' /\ AllDated'
  BY StepHolds DEF VInv
<1>1. CASE Begin
  BY <1>1, BeginDated
<1>2. ASSUME NEW i \in Responses, Generation(i)
      PROVE  Phases' /\ Stamped' /\ Requests' /\ AllDated'
  BY <1>2, GenerationDated
<1>3. CASE End
  <2>1. /\ job' \in {"queued", "left"} /\ \A i \in Responses : request[i].at = "none"
        /\ UNCHANGED <<output, request, stamp, paused, phase, weights, current>>
    BY <1>3 DEF End, Answered, sync
  <2>2. Phases' /\ Stamped'
    BY <2>1 DEF VInv, Phases, Exchanging, Stamped
  <2> QED BY <2>1, <2>2 DEF VInv, Requests, Exchanging, AllDated, Present
<1>4. weights \in Nat /\ current \in Nat /\ stamp \in Nat
  BY PartialAssumption DEF VInv, IInv, Shapes, Bounded
<1>5. CASE StartCancel
  <2>1. Phases' /\ Stamped' /\ (Exchanging' => Exchanging)
    BY <1>5 DEF StartCancel, SyncFrame, VInv, Phases, Exchanging, Stamped
  <2> QED BY <1>5, <2>1, SyncDated DEF StartCancel, SyncFrame
<1>6. ASSUME NEW s \in Servers, CancelServer(s)
      PROVE  Phases' /\ Stamped' /\ Requests' /\ AllDated'
  <2>1. \A i \in Responses :
          request'[i].at = request[i].at /\ request'[i].server = request[i].server /\ request'[i].got = request[i].got
    <3> SUFFICES ASSUME NEW i \in Responses
        PROVE  request'[i].at = request[i].at /\ request'[i].server = request[i].server /\ request'[i].got = request[i].got
      OBVIOUS
    <3>1. request[i] \in Request
      BY DEF VInv, IInv, Shapes
    <3>2. request'[i] \in {[request[i] EXCEPT !.set = TRUE], request[i]}
      BY <1>6 DEF CancelServer
    <3> QED BY <3>1, <3>2 DEF Request
  <2>2. paused' \in [Servers -> BOOLEAN] /\ phase = "cancelling" /\ UNCHANGED <<job, output, stamp, phase, weights, current>>
    BY <1>6 DEF CancelServer, SyncFrame, VInv, Phases
  <2>3. Phases' /\ Stamped' /\ (Exchanging' => Exchanging)
    BY <2>2 DEF VInv, Phases, Exchanging, Stamped
  <2> QED BY <2>1, <2>2, <2>3, SyncDated
<1>7. CASE Gather
  <2>1. Phases' /\ Stamped' /\ job # "running"
    BY <1>7 DEF Gather, SyncFrame, VInv, Phases, Exchanging, Stamped
  <2> QED BY <1>7, <2>1, SyncDated DEF Gather, SyncFrame
<1>8. CASE NewWeights
  <2>1. Phases' /\ Stamped' /\ (Exchanging' => Exchanging)
    BY <1>4, <1>8 DEF NewWeights, SyncFrame, VInv, Phases, Exchanging, Stamped
  <2> QED BY <1>8, <2>1, SyncDated DEF NewWeights, SyncFrame
<1>9. CASE UpdateVersion
  <2>1. Phases' /\ Stamped' /\ (Exchanging' => Exchanging)
    BY <1>4, <1>9 DEF UpdateVersion, SyncFrame, VInv, Phases, Exchanging, Stamped
  <2> QED BY <1>9, <2>1, SyncDated DEF UpdateVersion, SyncFrame
<1>10. ASSUME NEW s \in Servers, ResumeServer(s)
       PROVE  Phases' /\ Stamped' /\ Requests' /\ AllDated'
  <2>1. Phases' /\ Stamped' /\ (Exchanging' => Exchanging)
    BY <1>10 DEF ResumeServer, SyncFrame, VInv, Phases, Exchanging, Stamped
  <2> QED BY <1>10, <2>1, SyncDated DEF ResumeServer, SyncFrame
<1>11. CASE Over \/ UNCHANGED vars
  <2>1. UNCHANGED <<job, output, request, stamp, paused, phase, weights, current>>
    BY <1>11 DEF Over, vars, sync
  <2>2. Phases' /\ Stamped' /\ (Exchanging' => Exchanging)
    BY <2>1 DEF VInv, Phases, Exchanging, Stamped
  <2> QED BY <2>1, <2>2, SyncDated
<1> QED
  BY <1>1, <1>2, <1>3, <1>5, <1>6, <1>7, <1>8, <1>9, <1>10, <1>11 DEF Next, Sync

LEMMA VInvHolds == SafeSpec => []VInv
<1>1. Init => VInv
  BY InitHolds, InitDated DEF VInv
<1> QED BY <1>1, StepDated, PTL DEF SafeSpec

\* The types; the bounds of positions and versions; no response outgrows response_length.
THEOREM TypeCorrect == SafeSpec => []TypeOK
<1>1. VInv /\ conf \in Configs => TypeOK
  <2> SUFFICES ASSUME VInv, conf \in Configs PROVE TypeOK
    OBVIOUS
  <2>1. /\ job \in {"queued", "running", "left", "failed"} /\ {stamp, weights, current} \subseteq 0..MaxVersion
        /\ phase \in {"open", "cancelling", "weights", "version", "resuming"}
        /\ paused \in [Servers -> BOOLEAN]
    BY DEF VInv, IInv, Shapes, Bounded, Phases
  <2>2. ASSUME NEW i \in Responses
        PROVE  /\ request[i].at \in {"none", "sent", "generating"} /\ request[i].got \in Seq(Tokens)
               /\ output[i] # None =>
                    output[i].response_ids \in Seq(Tokens) /\ Len(output[i].response_ids) <= ResponseLength
    <3>1. request[i] \in Request /\ (output[i] # None => output[i] \in Output)
      BY DEF VInv, IInv, Shapes
    <3>2. output[i] # None => Len(output[i].response_ids) <= ResponseLength
      BY DEF VInv, IInv, AllFit, Present, Fits
    <3> QED BY <3>1, <3>2 DEF Request, Output
  <2> QED BY <2>1, <2>2 DEF TypeOK
<1>2. SafeSpec => [](conf \in Configs)
  <2>1. Init => conf \in Configs
    BY DEF Init
  <2>2. conf \in Configs /\ [Next]_vars => (conf \in Configs)'
    BY DEF Next, Begin, End, StartCancel, Sync, Gather, NewWeights, UpdateVersion, CancelServer,
      ResumeServer, SyncFrame, Generation, Arrive, Token, Complete, Interrupt, Raise, Over, vars, sync
  <2> QED BY <2>1, <2>2, PTL DEF SafeSpec
<1> QED BY <1>1, <1>2, VInvHolds, PTL

\* No weights change under a request, and the version a response was begun and ended with
\* bracket those of its tokens, but for the one synchronisation that a request sent
\* during it may cross: for any number of synchronisations, whenever they come.
THEOREM VersionsCorrect == SafeSpec => []VersionsBracket
<1>1. VInv => VersionsBracket
  <2> SUFFICES ASSUME VInv, NEW i \in Responses
      PROVE  /\ \A k \in DOMAIN request[i].got : request[i].got[k].ver = request[i].got[1].ver
             /\ Present(i) =>
                  /\ \A k \in DOMAIN output[i].response_ids :
                       output[i].response_ids[k].ver \in output[i].first..output[i].last + 1
                  /\ \A k \in 1..Len(output[i].response_ids) - 1 :
                       output[i].response_ids[k].ver <= output[i].response_ids[k + 1].ver
    BY DEF VersionsBracket
  <2>1. \A k \in DOMAIN request[i].got : request[i].got[k].ver = request[i].got[1].ver
    <3> DEFINE got == request[i].got
    <3>1. got \in Seq(Tokens) /\ \A k \in 1..Len(got) : got[k].ver = weights
      BY DEF VInv, IInv, Shapes, Request, Requests
    <3> HIDE DEF got
    <3>2. DOMAIN got = 1..Len(got) /\ Len(got) \in Nat
      BY <3>1, LenProperties
    <3>3. ASSUME NEW k \in DOMAIN got PROVE got[k].ver = got[1].ver
      <4>1. k \in 1..Len(got) /\ 1 \in 1..Len(got)
        BY <3>2
      <4> QED BY <3>1, <4>1
    <3> QED BY <3>3 DEF got
  <2>2. ASSUME Present(i)
        PROVE  /\ \A k \in DOMAIN output[i].response_ids :
                    output[i].response_ids[k].ver \in output[i].first..output[i].last + 1
               /\ \A k \in 1..Len(output[i].response_ids) - 1 :
                    output[i].response_ids[k].ver <= output[i].response_ids[k + 1].ver
    <3> DEFINE ids == output[i].response_ids
               first == output[i].first
               last == output[i].last
    <3>1. ids \in Seq(Tokens) /\ first \in 0..MaxVersion /\ last \in 0..MaxVersion
      BY <2>2 DEF VInv, IInv, Shapes, Output, Present
    <3>2. Dated(ids, first, last, weights)
      BY <2>2 DEF VInv, AllDated
    <3> HIDE DEF ids, first, last
    <3>3. DOMAIN ids = 1..Len(ids)
      BY <3>1, LenProperties
    <3>4. ASSUME NEW k \in DOMAIN ids PROVE ids[k].ver \in first..last + 1
      <4>1. ids[k] \in Tokens
        BY <3>1, <3>3, ElementOfSeq
      <4>2. ids[k].ver \in 0..MaxVersion
        BY <4>1 DEF Tokens
      <4>3. first <= ids[k].ver /\ ids[k].ver <= last + 1
        BY <3>2, <3>3 DEF Dated
      <4> QED BY <3>1, <4>2, <4>3, PartialAssumption
    <3>5. \A k \in 1..Len(ids) - 1 : ids[k].ver <= ids[k + 1].ver
      BY <3>2 DEF Dated
    <3> QED BY <3>4, <3>5 DEF ids, first, last
  <2> QED BY <2>1, <2>2
<1> QED BY <1>1, VInvHolds, PTL

\* However often the others are continued, a response that was not cancelled is never
\* generated again, nor changed.
THEOREM FinishedStays == SafeSpec => FinishedKept
<1>1. VInv /\ [Next]_vars => [\A i \in Responses : Present(i) /\ ~Cancelled(i) => output'[i] = output[i]]_output
  <2> SUFFICES ASSUME VInv, [Next]_vars, NEW i \in Responses, Present(i), ~Cancelled(i)
      PROVE  output'[i] = output[i]
    OBVIOUS
  <2>1. request[i].at = "none"
    BY DEF VInv, IInv, Shapes, Request, Requests, Unfinished, Present
  <2>2. ASSUME NEW j \in Responses, Generation(j)
        PROVE  output'[i] = output[i]
    <3>1. request[j].at # "none"
      BY <2>2 DEF Generation, Arrive, Token, Complete, Interrupt, Raise
    <3>2. j # i
      BY <2>1, <3>1
    <3>3. UNCHANGED output \/ \E new : output' = [output EXCEPT ![j] = new]
      BY <2>2 DEF Generation, Arrive, Token, Complete, Interrupt, Raise, Answer
    <3> QED BY <3>2, <3>3 DEF VInv, IInv, Shapes
  <2>3. CASE ~\E j \in Responses : Generation(j)
    BY <2>3 DEF Next, Begin, End, StartCancel, Sync, Gather, NewWeights, UpdateVersion,
      CancelServer,
                ResumeServer, SyncFrame, Over, vars
  <2> QED BY <2>2, <2>3
<1> QED BY <1>1, VInvHolds, PTL DEF SafeSpec, FinishedKept
===============================================================================
