-------------------------- MODULE TopicDataProofs --------------------------
(***************************************************************************)
(* Proofs about TopicData, for any number of threads, calls and samples.   *)
(***************************************************************************)
EXTENDS TopicData, TLAPS

-----------------------------------------------------------------------------
(* The samples.                                                            *)

\* A function on the places of a sequence is a sequence of that length.
LEMMA SameLength ==
  ASSUME NEW S, NEW s \in Seq(S), NEW f, f \in [DOMAIN s -> S]
  PROVE  f \in Seq(S) /\ Len(f) = Len(s) /\ DOMAIN f = DOMAIN s
<1>1. DOMAIN s = 1..Len(s) /\ Len(s) \in Nat
  OBVIOUS
<1>2. f \in [1..Len(s) -> S]
  BY <1>1
<1> QED
  BY <1>1, <1>2

\* What a sample keeps whatever happens.
Keeps(i) ==
  /\ sample'[i].number = sample[i].number
  /\ sample'[i].raced = sample[i].raced
  /\ sample'[i].valid = sample[i].valid
  /\ sample[i].missed => sample'[i].missed
  /\ sample[i].state = "taken" => sample'[i].state = "taken"
  /\ sample[i].state = "read" => sample'[i].state # "unread"

\* The samples change, but none is added.
SameSamples ==
  /\ sample' \in Seq(Samples)
  /\ DOMAIN sample' = DOMAIN sample
  /\ \A i \in DOMAIN sample : Keeps(i)

\* A sample arrives.
OneMore(s) ==
  /\ sample' \in Seq(Samples)
  /\ DOMAIN sample' = DOMAIN sample \cup {Len(sample) + 1}
  /\ Len(sample) + 1 \notin DOMAIN sample
  /\ \A i \in DOMAIN sample : sample'[i] = sample[i] /\ i < Len(sample) + 1
  /\ sample'[Len(sample) + 1] = s

LEMMA UnchangedSamples ==
  ASSUME TopicTypeOK, sample' = sample
  PROVE  SameSamples
BY DEF TopicTypeOK, SameSamples, Keeps, Samples

LEMMA ArrivesAdds ==
  ASSUME TopicTypeOK, NEW s \in Samples, Arrives(s)
  PROVE  OneMore(s)
<1>1. sample \in Seq(Samples) /\ sample' = Append(sample, s)
  BY DEF TopicTypeOK, Arrives
<1> QED
  BY <1>1 DEF OneMore

LEMMA ArrivingType ==
  ASSUME TopicTypeOK, NEW n \in Nat, NEW r \in BOOLEAN, NEW v \in BOOLEAN
  PROVE  /\ Arriving(n, r, v) \in Samples
         /\ Arriving(n, r, v).number = n
         /\ Arriving(n, r, v).raced = r
         /\ Arriving(n, r, v).valid = v
         /\ Arriving(n, r, v).state = "unread"
         /\ Arriving(n, r, v).missed = (~installed /\ (setter = "counted" \/ callback))
<1>1. (~installed /\ (setter = "counted" \/ callback)) \in BOOLEAN
  OBVIOUS
<1> QED
  BY <1>1 DEF Arriving, Samples

\* count_unread keeps the samples and leaves none unread, or those left are
\* marked as missed.
LEMMA CountReads ==
  ASSUME TopicTypeOK, count_unread
  PROVE  /\ SameSamples
         /\ \A i \in DOMAIN sample' :
              sample'[i].state = "unread" => sample'[i].missed
         /\ \A i \in DOMAIN sample :
              sample[i].state # "taken" => sample'[i].state # "taken"
<1>1. sample \in Seq(Samples)
  BY DEF TopicTypeOK
<1>2. \A i \in DOMAIN sample : sample[i] \in Samples
  BY <1>1
<1>3. CASE sample' = AllRead
  <2>1. sample' \in [DOMAIN sample -> Samples]
    BY <1>2, <1>3 DEF AllRead, Unread, Samples
  <2>2. sample' \in Seq(Samples) /\ DOMAIN sample' = DOMAIN sample
    BY <1>1, <2>1, SameLength
  <2>3. \A i \in DOMAIN sample :
          /\ Keeps(i)
          /\ sample'[i].state # "unread"
          /\ sample[i].state # "taken" => sample'[i].state # "taken"
    BY <1>2, <1>3 DEF AllRead, Unread, Samples, Keeps
  <2> QED
    BY <2>2, <2>3 DEF SameSamples
<1>4. CASE sample' = ReadFailed
  <2>1. sample' \in [DOMAIN sample -> Samples]
    BY <1>2, <1>4 DEF ReadFailed, Unread, Samples
  <2>2. sample' \in Seq(Samples) /\ DOMAIN sample' = DOMAIN sample
    BY <1>1, <2>1, SameLength
  <2>3. \A i \in DOMAIN sample :
          /\ Keeps(i)
          /\ sample'[i].state = "unread" => sample'[i].missed
          /\ sample[i].state # "taken" => sample'[i].state # "taken"
    BY <1>2, <1>4 DEF ReadFailed, Unread, Samples, Keeps
  <2> QED
    BY <2>2, <2>3 DEF SameSamples
<1> QED
  BY <1>3, <1>4 DEF count_unread

\* A loan is a sequence of at most n samples of the cache.
LEMMA LoanType ==
  ASSUME TopicTypeOK, NEW n \in Nat, NEW l \in Loans(n)
  PROVE  /\ l \in Seq(Nat)
         /\ Len(l) \in 1..n
         /\ Range(l) = {l[i] : i \in 1..Len(l)}
         /\ Range(l) \subseteq Cached
         /\ Range(l) \subseteq DOMAIN sample
         /\ DOMAIN l = 1..Len(l)
         /\ l[1] \in Range(l)
<1>1. PICK k \in 1..n : l \in [1..k -> Cached]
  BY DEF Loans
<1>2. Cached \subseteq DOMAIN sample /\ DOMAIN sample \subseteq Nat
  BY DEF Cached, TopicTypeOK
<1>3. l \in Seq(Nat) /\ Len(l) = k /\ DOMAIN l = 1..k
  BY <1>1, <1>2
<1>4. Range(l) = {l[i] : i \in 1..Len(l)}
  BY <1>3 DEF Range
<1> QED
  BY <1>1, <1>2, <1>3, <1>4

LEMMA TakenOutKeeps ==
  ASSUME TopicTypeOK, NEW n \in Nat, NEW l \in Loans(n), sample' = TakenOut(l)
  PROVE  /\ SameSamples
         /\ \A i \in DOMAIN sample :
              sample'[i].state = IF i \in Range(l) THEN "taken" ELSE sample[i].state
<1>1. sample \in Seq(Samples)
  BY DEF TopicTypeOK
<1>2. \A i \in DOMAIN sample : sample[i] \in Samples
  BY <1>1
<1>3. sample' \in [DOMAIN sample -> Samples]
  BY <1>2 DEF TakenOut, Samples
<1>4. sample' \in Seq(Samples) /\ DOMAIN sample' = DOMAIN sample
  BY <1>1, <1>3, SameLength
<1>5. \A i \in DOMAIN sample :
        /\ Keeps(i)
        /\ sample'[i].state = IF i \in Range(l) THEN "taken" ELSE sample[i].state
  BY <1>2 DEF TakenOut, Samples, Keeps
<1> QED
  BY <1>4, <1>5 DEF SameSamples

-----------------------------------------------------------------------------
(* Types.                                                                  *)

LEMMA EmptyLoan == <<>> \in Seq(Nat)
OBVIOUS

PublishType == [step : PublishSteps, number : Nat, raced : BOOLEAN]
TakerType == [step : TakeSteps, count : Nat, capacity : Nat, loan : Seq(Nat),
              took : SUBSET Nat, out : Seq(Nat)]

\* The steps that take a sample out of the cache, or use one they have.
TakeStep(t) ==
  \/ Take(t)
  \/ TakeSerialized(t)
  \/ CopySerialized(t)
  \/ \E c \in SequenceCalls : TakeSequence(t, c[1], c[2])
  \/ TakeRound(t)
  \/ RoundFails(t)
  \/ EndSequence(t)
  \/ SkipSample(t)
  \/ GiveSample(t)
  \/ Overrun(t)
  \/ GiveFails(t)
  \/ ReturnLoan(t)
  \/ Return(t)

\* The samples after a step of a taking thread: a loan was taken out, or none.
LEMMA TakeStepSamples ==
  ASSUME TopicTypeOK, NEW t \in Takers, TakeStep(t)
  PROVE  \/ sample' = sample
         \/ \E n \in Nat : \E l \in Loans(n) : sample' = TakenOut(l)
<1>1. taker[t].count \in Nat /\ 1 \in Nat
  BY DEF TopicTypeOK
<1>2. CASE Take(t)
  BY <1>1, <1>2 DEF Take
<1>3. CASE TakeSerialized(t)
  BY <1>1, <1>3 DEF TakeSerialized
<1>4. CASE TakeRound(t)
  BY <1>1, <1>4 DEF TakeRound
<1> QED
  BY <1>2, <1>3, <1>4 DEF TakeStep, CopySerialized, TakeSequence, RoundFails,
     EndSequence, SkipSample, GiveSample, Overrun, GiveFails, ReturnLoan, Return

LEMMA TakeStepFrame ==
  ASSUME NEW t \in Takers, TakeStep(t)
  PROVE  UnchangedByTake
BY DEF TakeStep, Take, TakeSerialized, CopySerialized, TakeSequence, TakeRound,
   RoundFails, EndSequence, SkipSample, GiveSample, Overrun, GiveFails,
   ReturnLoan, Return

LEMMA TakeStepKeeps ==
  ASSUME TopicTypeOK, NEW t \in Takers, TakeStep(t)
  PROVE  SameSamples
BY TakeStepSamples, TakenOutKeeps, UnchangedSamples

LEMMA LoanIsTaker ==
  ASSUME TopicTypeOK, NEW t \in Takers
  PROVE  /\ taker[t] \in TakerType
         /\ taker \in [Takers -> TakerType]
BY DEF TopicTypeOK, TakerType

LEMMA TakeStepType ==
  ASSUME TopicTypeOK, TopicDataAssumption, NEW t \in Takers, TakeStep(t)
  PROVE  taker' \in [Takers -> TakerType]
<1>1. taker \in [Takers -> TakerType] /\ taker[t] \in TakerType
  BY LoanIsTaker
<1>2. SUFFICES \E r \in TakerType : taker' = [taker EXCEPT ![t] = r]
  BY <1>1
<1> DEFINE c == taker[t]
<1>3. CASE Take(t)
  <2>1. CASE \E l \in Loans(1) :
               taker' = [taker EXCEPT ![t] =
                           [@ EXCEPT !.step = "ok", !.took = Range(l),
                                     !.out = WithData(l)]]
    <3>1. PICK l \in Loans(1) :
               taker' = [taker EXCEPT ![t] =
                           [@ EXCEPT !.step = "ok", !.took = Range(l),
                                     !.out = WithData(l)]]
      BY <2>1
    <3>2. l \in Seq(Nat) /\ Range(l) \subseteq Nat
      BY LoanType, 1 \in Nat DEF TopicTypeOK
    <3>4. WithData(l) \in Seq(Nat)
      BY <3>2, EmptyLoan DEF WithData
    <3>3. [c EXCEPT !.step = "ok", !.took = Range(l),
                    !.out = WithData(l)] \in TakerType
      BY <1>1, <3>2, <3>4 DEF TakerType, TakeSteps
    <3> QED
      BY <1>1, <3>1, <3>3
  <2>2. CASE Ends(t, "ok") \/ Ends(t, "error")
    <3>1. [c EXCEPT !.step = "ok"] \in TakerType
          /\ [c EXCEPT !.step = "error"] \in TakerType
      BY <1>1 DEF TakerType, TakeSteps
    <3> QED
      BY <1>1, <2>2, <3>1 DEF Ends
  <2> QED
    BY <1>3, <2>1, <2>2 DEF Take
<1>4. CASE TakeSerialized(t)
  <2>1. CASE \E l \in Loans(1) :
               taker' = [taker EXCEPT ![t] =
                           [@ EXCEPT !.step = "serialized", !.loan = l,
                                     !.took = Range(l)]]
    <3>1. PICK l \in Loans(1) :
               taker' = [taker EXCEPT ![t] =
                           [@ EXCEPT !.step = "serialized", !.loan = l,
                                     !.took = Range(l)]]
      BY <2>1
    <3>2. l \in Seq(Nat) /\ Range(l) \subseteq Nat
      BY LoanType, 1 \in Nat DEF TopicTypeOK
    <3>3. [c EXCEPT !.step = "serialized", !.loan = l, !.took = Range(l)]
            \in TakerType
      BY <1>1, <3>2 DEF TakerType, TakeSteps
    <3> QED
      BY <1>1, <3>1, <3>3
  <2>2. CASE Ends(t, "ok") \/ Ends(t, "error")
    <3>1. [c EXCEPT !.step = "ok"] \in TakerType
          /\ [c EXCEPT !.step = "error"] \in TakerType
      BY <1>1 DEF TakerType, TakeSteps
    <3> QED
      BY <1>1, <2>2, <3>1 DEF Ends
  <2> QED
    BY <1>4, <2>1, <2>2 DEF TakeSerialized
<1>5. CASE CopySerialized(t)
  <2>0. WithData(c.loan) \in Seq(Nat)
    BY <1>1, EmptyLoan DEF WithData, TakerType
  <2>1. /\ [c EXCEPT !.step = "ok", !.loan = <<>>, !.out = WithData(c.loan)]
             \in TakerType
        /\ [c EXCEPT !.step = "error", !.loan = <<>>] \in TakerType
    BY <1>1, <2>0, EmptyLoan DEF TakerType, TakeSteps
  <2> QED
    BY <1>1, <1>5, <2>1 DEF CopySerialized
<1>6. CASE \E k \in SequenceCalls : TakeSequence(t, k[1], k[2])
  <2>1. PICK k \in SequenceCalls : TakeSequence(t, k[1], k[2])
    BY <1>6
  <2>2. k[1] \in Nat /\ k[2] \in Nat
    BY DEF TopicDataAssumption
  <2>3. [c EXCEPT !.step = IF k[1] = 0 \/ k[2] < k[1] THEN "error" ELSE "round",
                  !.count = k[1], !.capacity = k[2]] \in TakerType
    BY <1>1, <2>2 DEF TakerType, TakeSteps
  <2> QED
    BY <1>1, <2>1, <2>3 DEF TakeSequence
<1>7. CASE TakeRound(t)
  <2>1. PICK l \in Loans(c.count) :
               taker' = [taker EXCEPT ![t] =
                           [@ EXCEPT !.step = "loan", !.loan = l,
                                     !.took = taker[t].took \cup Range(l)]]
    BY <1>7 DEF TakeRound
  <2>2. c.count \in Nat
    BY <1>1 DEF TakerType
  <2>3. l \in Seq(Nat) /\ Range(l) \subseteq Nat
    BY <2>2, LoanType DEF TopicTypeOK
  <2>4. [c EXCEPT !.step = "loan", !.loan = l, !.took = c.took \cup Range(l)]
          \in TakerType
    BY <1>1, <2>3 DEF TakerType, TakeSteps
  <2>5. taker' = [taker EXCEPT ![t] =
                    [c EXCEPT !.step = "loan", !.loan = l,
                              !.took = c.took \cup Range(l)]]
    BY <1>1, <2>1
  <2> QED
    BY <2>4, <2>5
<1>8. CASE RoundFails(t) \/ EndSequence(t) \/ Overrun(t)
  <2>1. /\ [c EXCEPT !.step = "ok"] \in TakerType
        /\ [c EXCEPT !.step = "error"] \in TakerType
        /\ [c EXCEPT !.step = "overrun"] \in TakerType
    BY <1>1 DEF TakerType, TakeSteps
  <2> QED
    BY <1>1, <1>8, <2>1 DEF RoundFails, EndSequence, Overrun, Ends
<1>9. CASE SkipSample(t) \/ GiveSample(t)
  <2>1. c.loan # <<>> /\ c.loan \in Seq(Nat) /\ c.out \in Seq(Nat)
    BY <1>1, <1>9 DEF SkipSample, GiveSample, LoanDone, TakerType
  <2>2. Head(c.loan) \in Nat /\ Tail(c.loan) \in Seq(Nat)
    BY <2>1
  <2>3. Append(c.out, Head(c.loan)) \in Seq(Nat)
    BY <2>1, <2>2
  <2>4. /\ [c EXCEPT !.loan = Tail(c.loan)] \in TakerType
        /\ [c EXCEPT !.out = Append(c.out, Head(c.loan)), !.loan = Tail(c.loan)]
             \in TakerType
    BY <1>1, <2>2, <2>3 DEF TakerType
  <2>5. CASE SkipSample(t)
    <3>1. taker' = [taker EXCEPT ![t] = [c EXCEPT !.loan = Tail(c.loan)]]
      BY <2>5 DEF SkipSample
    <3> QED
      BY <2>4, <3>1
  <2>6. CASE GiveSample(t)
    <3>1. taker' = [taker EXCEPT ![t] =
                      [c EXCEPT !.out = Append(c.out, Head(c.loan)),
                                !.loan = Tail(c.loan)]]
      BY <2>6 DEF GiveSample
    <3> QED
      BY <2>4, <3>1
  <2> QED
    BY <1>9, <2>5, <2>6
<1>10. CASE GiveFails(t) \/ ReturnLoan(t) \/ Return(t)
  <2>1. /\ [c EXCEPT !.step = "error", !.loan = <<>>] \in TakerType
        /\ [c EXCEPT !.step = "round", !.loan = <<>>] \in TakerType
        /\ Free \in TakerType
    BY <1>1, EmptyLoan DEF TakerType, TakeSteps, Free
  <2> QED
    BY <1>1, <1>10, <2>1 DEF GiveFails, ReturnLoan, Return
<1> QED
  BY <1>3, <1>4, <1>5, <1>6, <1>7, <1>8, <1>9, <1>10 DEF TakeStep

\* The specification of the topic is correctly typed: the state of its threads
\* and samples has its types, whatever is published, taken and installed.
THEOREM TopicTypeCorrect == TopicSpec => []TopicTypeOK
<1> USE TopicDataAssumption
<1>1. TopicInit => TopicTypeOK
  <2>1. Free \in TakerType /\ Idle \in PublishType
    BY EmptyLoan DEF Free, TakerType, TakeSteps, Idle, PublishType, PublishSteps
  <2>2. <<>> \in Seq(Samples)
    OBVIOUS
  <2>3. TopicInit => /\ taker \in [Takers -> TakerType]
                     /\ publish \in [Publishers -> PublishType]
    BY <2>1 DEF TopicInit
  <2>4. TopicInit => sample \in Seq(Samples)
    BY <2>2, Zenon DEF TopicInit
  <2>5. TopicInit => sequence_number \in Nat
    BY DEF TopicInit
  <2>6. TopicInit => /\ installed \in BOOLEAN /\ pending \in BOOLEAN
                     /\ callback \in BOOLEAN /\ setter \in {"idle", "counted"}
    BY Zenon DEF TopicInit
  <2> QED
    BY <2>3, <2>4, <2>5, <2>6 DEF TopicTypeOK, TakerType, PublishType
<1>2. TopicTypeOK /\ [TopicNext]_topicVars => TopicTypeOK'
  <2> SUFFICES ASSUME TopicTypeOK, [TopicNext]_topicVars
               PROVE  TopicTypeOK'
    OBVIOUS
  <2>1. CASE StateChange
    <3>1. Arriving(0, FALSE, FALSE) \in Samples
      BY ArrivingType
    <3>2. Arrives(Arriving(0, FALSE, FALSE))
      BY <2>1 DEF StateChange
    <3>3. sample' \in Seq(Samples)
      BY <3>1, <3>2, ArrivesAdds DEF OneMore
    <3> QED
      BY <2>1, <3>3 DEF TopicTypeOK, StateChange, Arrives, publisherVars
  <2>2. ASSUME NEW p \in Publishers, LoadNumber(p)
        PROVE  TopicTypeOK'
    <3>1. publish' \in [Publishers -> PublishType]
      BY <2>2 DEF LoadNumber, TopicTypeOK, PublishType, PublishSteps
    <3> QED
      BY <2>2, <3>1 DEF LoadNumber, TopicTypeOK, PublishType, listenerVars
  <2>3. ASSUME NEW p \in Publishers, StoreNumber(p)
        PROVE  TopicTypeOK'
    <3>1. publish[p] \in PublishType
      BY DEF TopicTypeOK, PublishType
    <3>4. publish[p].number + 1 \in Nat
      BY <3>1 DEF PublishType
    <3>2. [publish[p] EXCEPT !.step = "numbered",
                             !.number = publish[p].number + 1] \in PublishType
      BY <3>1, <3>4 DEF PublishType, PublishSteps
    <3>3. publish' \in [Publishers -> PublishType] /\ sequence_number' \in Nat
      BY <2>3, <3>1, <3>2 DEF StoreNumber, Stored, TopicTypeOK, PublishType
    <3> QED
      BY <2>3, <3>3 DEF StoreNumber, TopicTypeOK, PublishType, listenerVars
  <2>4. ASSUME NEW p \in Publishers, Write(p)
        PROVE  TopicTypeOK'
    <3>1. publish[p].number \in Nat /\ publish[p].raced \in BOOLEAN
      BY DEF TopicTypeOK
    <3> DEFINE s == Arriving(publish[p].number, publish[p].raced, TRUE)
    <3>2. s \in Samples
      BY <3>1, ArrivingType
    <3>3. sample' \in Seq(Samples)
      BY <2>4, <3>2, ArrivesAdds, UnchangedSamples
      DEF Write, OneMore, SameSamples
    <3>4. publish' \in [Publishers -> PublishType]
      BY <2>4 DEF Write, TopicTypeOK, PublishType, PublishSteps, Idle
    <3>5. pending' \in BOOLEAN /\ UNCHANGED <<installed, callback, setter>>
      BY <2>4 DEF Write, Arrives, listenerVars, TopicTypeOK
    <3> QED
      BY <2>4, <3>3, <3>4, <3>5 DEF Write, TopicTypeOK, PublishType
  <2>5. CASE OnDataAvailable
    <3>1. sample' \in Seq(Samples)
      BY <2>5, CountReads, UnchangedSamples DEF OnDataAvailable, SameSamples
    <3> QED
      BY <2>5, <3>1 DEF OnDataAvailable, TopicTypeOK, publisherVars
  <2>6. CASE CountForCallback
    <3>1. sample' \in Seq(Samples)
      BY <2>6, CountReads DEF CountForCallback, CountedFirst, SameSamples
    <3> QED
      BY <2>6, <3>1 DEF CountForCallback, TopicTypeOK, publisherVars
  <2>7. CASE InstallCallback
    BY <2>7 DEF InstallCallback, TopicTypeOK, publisherVars
  <2>8. CASE RemoveCallback \/ EventSetter
    BY <2>8 DEF RemoveCallback, EventSetter, TopicTypeOK, publisherVars
  <2>9. ASSUME NEW t \in Takers, TakeStep(t)
        PROVE  TopicTypeOK'
    <3>1. sample' \in Seq(Samples)
      BY <2>9, TakeStepKeeps DEF SameSamples
    <3>2. taker' \in [Takers -> TakerType]
      BY <2>9, TakeStepType
    <3>3. UnchangedByTake
      BY <2>9, TakeStepFrame
    <3> QED
      BY <3>1, <3>2, <3>3
      DEF TopicTypeOK, TakerType, UnchangedByTake, publisherVars, listenerVars
  <2>10. CASE UNCHANGED topicVars
    BY <2>10 DEF topicVars, publisherVars, listenerVars, TopicTypeOK
  <2> QED
    BY <2>1, <2>2, <2>3, <2>4, <2>5, <2>6, <2>7, <2>8, <2>9, <2>10
    DEF TopicNext, TakeStep
<1> QED
  BY <1>1, <1>2, PTL DEF TopicSpec

\* A step of the topic either leaves the publisher alone and keeps the samples,
\* or is one of the publisher's or of DDS.
LEMMA ReaderStep ==
  ASSUME TopicTypeOK, [TopicNext]_topicVars
  PROVE  \/ StateChange
         \/ \E p \in Publishers : LoadNumber(p) \/ StoreNumber(p) \/ Write(p)
         \/ SameSamples /\ UNCHANGED publisherVars
<1>1. CASE OnDataAvailable
  BY <1>1, CountReads, UnchangedSamples DEF OnDataAvailable
<1>2. CASE CountForCallback
  BY <1>2, CountReads DEF CountForCallback, CountedFirst
<1>3. CASE InstallCallback \/ RemoveCallback \/ EventSetter
  BY <1>3, UnchangedSamples DEF InstallCallback, RemoveCallback, EventSetter
<1>4. ASSUME NEW t \in Takers, TakeStep(t)
      PROVE  SameSamples /\ UNCHANGED publisherVars
  BY <1>4, TakeStepKeeps, TakeStepFrame DEF UnchangedByTake
<1>5. CASE UNCHANGED topicVars
  BY <1>5, UnchangedSamples DEF topicVars
<1> QED
  BY <1>1, <1>2, <1>3, <1>4, <1>5 DEF TopicNext, TakeStep

-----------------------------------------------------------------------------
(* Numbers.  A number that is in use, with a thread or in a message, is at *)
(* most the field and at most every value a thread has loaded, if no other *)
(* thread was incrementing when it was made: the next ones are above it.   *)

Unraced(i) == i \in DOMAIN sample /\ sample[i].valid /\ ~sample[i].raced
Numbered(p) == publish[p].step = "numbered" /\ ~publish[p].raced
Loaded(p) == publish[p].step = "loaded"

Covers(n) ==
  /\ n <= sequence_number
  /\ \A q \in Publishers : Loaded(q) => n <= publish[q].number

\* The same of the next state, for numbers of this one.
UnracedNext(i) == i \in DOMAIN sample' /\ sample'[i].valid /\ ~sample'[i].raced
CoversNext(n) ==
  /\ n <= sequence_number'
  /\ \A q \in Publishers : Loaded(q)' => n <= publish'[q].number

NumberInv ==
  /\ \A p \in Publishers : Loaded(p) /\ ~publish[p].raced =>
       /\ publish[p].number = sequence_number
       /\ \A q \in Publishers : q # p => ~Loaded(q)
  /\ \A p \in Publishers : Numbered(p) => Covers(publish[p].number)
  /\ \A i \in DOMAIN sample : Unraced(i) => Covers(sample[i].number)
  /\ \A p, q \in Publishers : Numbered(p) /\ Numbered(q) /\ p # q =>
       publish[p].number # publish[q].number
  /\ \A p \in Publishers, i \in DOMAIN sample : Numbered(p) /\ Unraced(i) =>
       publish[p].number # sample[i].number
  /\ \A i, j \in DOMAIN sample : Unraced(i) /\ Unraced(j) /\ i # j =>
       sample[i].number # sample[j].number

LEMMA NumberStep ==
  ASSUME TopicTypeOK, NumberInv, [TopicNext]_topicVars
  PROVE  NumberInv'
<1>0. /\ sequence_number \in Nat
      /\ \A p \in Publishers : publish[p].number \in Nat
      /\ \A p \in Publishers : publish[p] \in PublishType
      /\ publish \in [Publishers -> PublishType]
      /\ \A i \in DOMAIN sample : sample[i] \in Samples
  BY DEF TopicTypeOK, PublishType
<1>1. CASE StateChange
  <2>1. OneMore(Arriving(0, FALSE, FALSE))
    BY <1>1, ArrivingType, ArrivesAdds DEF StateChange
  <2>2. ~UnracedNext(Len(sample) + 1)
    BY <2>1, ArrivingType DEF OneMore, Unraced, UnracedNext
  <2>3. \A i \in DOMAIN sample' : UnracedNext(i) =>
          i \in DOMAIN sample /\ Unraced(i) /\ sample'[i] = sample[i]
    BY <2>1, <2>2 DEF OneMore, Unraced, UnracedNext
  <2> QED
    BY <1>1, <2>3
    DEF NumberInv, Covers, CoversNext, Numbered, Loaded, Unraced, UnracedNext,
        StateChange, publisherVars
<1>2. ASSUME NEW p \in Publishers, LoadNumber(p)
      PROVE  NumberInv'
  <2>1. \A q \in Publishers :
          /\ Loaded(q)' <=> q = p \/ Loaded(q)
          /\ Numbered(q)' <=> Numbered(q)
          /\ publish'[q].number = IF q = p THEN sequence_number
                                           ELSE publish[q].number
    BY <1>0, <1>2 DEF LoadNumber, Loaded, Numbered, PublishType
  <2>2. \A q \in Publishers : Loaded(q)' /\ ~publish'[q].raced =>
          q = p /\ \A r \in Publishers : ~Loaded(r)
    BY <1>0, <1>2 DEF LoadNumber, Loaded, PublishType
  <2>3. sequence_number' = sequence_number /\ sample' = sample
    BY <1>2 DEF LoadNumber
  <2>4. ~Numbered(p)
    BY <1>2 DEF LoadNumber, Numbered
  <2>5. \A n \in Nat : Covers(n) => CoversNext(n)
    BY <2>1, <2>3 DEF Covers, CoversNext
  <2>6. \A i : UnracedNext(i) <=> Unraced(i)
    BY <2>3 DEF Unraced, UnracedNext
  <2>7. \A q \in Publishers : Numbered(q)' => publish'[q].number = publish[q].number
    BY <2>1, <2>4
  <2>8. \A i \in DOMAIN sample : sample[i].number \in Nat
    BY <1>0 DEF Samples
  <2> QED
    BY <1>0, <2>1, <2>2, <2>3, <2>5, <2>6, <2>7, <2>8 DEF NumberInv, Covers, CoversNext, Unraced, UnracedNext
<1>3. ASSUME NEW p \in Publishers, StoreNumber(p)
      PROVE  NumberInv'
  <2> DEFINE n == publish[p].number
  <2>1. /\ Loaded(p) /\ sequence_number' = n + 1 /\ sample' = sample
        /\ publish'[p].step = "numbered" /\ publish'[p].number = n + 1
        /\ publish'[p].raced = publish[p].raced
        /\ \A q \in Publishers : q # p => publish'[q] = publish[q]
    BY <1>0, <1>3 DEF StoreNumber, Stored, Loaded, PublishType
  <2>2. \A q \in Publishers :
          /\ Loaded(q)' <=> q # p /\ Loaded(q)
          /\ Numbered(q)' <=> \/ q # p /\ Numbered(q)
                              \/ q = p /\ ~publish[p].raced
    BY <2>1 DEF Loaded, Numbered
  <2>3. \A m \in Nat : Covers(m) => CoversNext(m) /\ m < n + 1
    BY <1>0, <2>1, <2>2 DEF Covers, CoversNext
  <2>4. ~publish[p].raced => CoversNext(n + 1)
    <3>1. ~publish[p].raced => \A q \in Publishers : ~Loaded(q)'
      BY <2>1, <2>2 DEF NumberInv
    <3> QED
      BY <1>0, <2>1, <3>1 DEF Covers, CoversNext
  <2>5. \A q \in Publishers : Loaded(q)' => publish'[q].raced
    BY <2>1, <2>2 DEF NumberInv
  <2>6. \A i : UnracedNext(i) <=> Unraced(i)
    BY <2>1 DEF Unraced, UnracedNext
  <2>7. \A i \in DOMAIN sample : sample[i].number \in Nat
    BY <1>0 DEF Samples
  <2>8. \A q \in Publishers : q # p /\ Numbered(q) =>
          CoversNext(publish[q].number) /\ publish[q].number < n + 1
    BY <1>0, <2>3 DEF NumberInv
  <2>9. \A i \in DOMAIN sample : Unraced(i) =>
          CoversNext(sample[i].number) /\ sample[i].number < n + 1
    BY <2>1, <2>3, <2>7 DEF NumberInv
  <2>10. \A q \in Publishers : Numbered(q)' => CoversNext(publish'[q].number)
    BY <2>1, <2>2, <2>4, <2>8
  <2>11. \A q, r \in Publishers : Numbered(q)' /\ Numbered(r)' /\ q # r =>
           publish'[q].number # publish'[r].number
    BY <1>0, <2>1, <2>2, <2>8 DEF NumberInv
  <2>12. \A q \in Publishers, i \in DOMAIN sample : Numbered(q)' /\ Unraced(i) =>
           publish'[q].number # sample[i].number
    BY <1>0, <2>1, <2>2, <2>7, <2>9 DEF NumberInv
  <2> QED
    BY <2>1, <2>5, <2>6, <2>9, <2>10, <2>11, <2>12 DEF NumberInv, Covers, CoversNext, Unraced, UnracedNext
<1>4. ASSUME NEW p \in Publishers, Write(p)
      PROVE  NumberInv'
  <2> DEFINE s == Arriving(publish[p].number, publish[p].raced, TRUE)
  <2>1. /\ publish[p].step = "numbered" /\ sequence_number' = sequence_number
        /\ publish'[p].step = "idle"
        /\ \A q \in Publishers : q # p => publish'[q] = publish[q]
    BY <1>0, <1>4 DEF Write, Idle
  <2>2. \A q \in Publishers :
          /\ Loaded(q)' <=> Loaded(q)
          /\ Numbered(q)' <=> q # p /\ Numbered(q)
          /\ Loaded(q) \/ Numbered(q)' => publish'[q] = publish[q]
    BY <2>1 DEF Loaded, Numbered
  <2>3. \A m : Covers(m) <=> CoversNext(m)
    BY <2>1, <2>2 DEF Covers, CoversNext
  <2>4. CASE UNCHANGED <<sample, listenerVars>>
    <3>1. \A i : UnracedNext(i) <=> Unraced(i)
      BY <2>4 DEF Unraced, UnracedNext
    <3> QED
      BY <2>1, <2>2, <2>3, <2>4, <3>1
      DEF NumberInv, Covers, CoversNext, Unraced, UnracedNext
  <2>5. CASE Arrives(s)
    <3>1. publish[p].number \in Nat /\ publish[p].raced \in BOOLEAN
      BY <1>0 DEF PublishType
    <3>2. /\ s \in Samples /\ s.number = publish[p].number
           /\ s.raced = publish[p].raced /\ s.valid = TRUE
      BY <3>1, ArrivingType, TRUE \in BOOLEAN
    <3>3. OneMore(s)
      BY <2>5, <3>2, ArrivesAdds
    <3>4. OneMore(s) /\ s.number = publish[p].number
          /\ s.raced = publish[p].raced /\ s.valid
      BY <3>2, <3>3
    <3> DEFINE k == Len(sample) + 1
    <3>5. UnracedNext(k) => Numbered(p) /\ sample'[k].number = publish[p].number
      BY <2>1, <3>4 DEF OneMore, Unraced, UnracedNext, Numbered
    <3>6. \A i \in DOMAIN sample' : i # k =>
            i \in DOMAIN sample /\ sample'[i] = sample[i]
            /\ (UnracedNext(i) <=> Unraced(i))
      BY <3>4 DEF OneMore, Unraced, UnracedNext
    <3>7. \A i \in DOMAIN sample' : UnracedNext(i) => CoversNext(sample'[i].number)
      BY <2>3, <3>5, <3>6 DEF NumberInv
    <3>8. \A i \in DOMAIN sample', q \in Publishers :
            Numbered(q)' /\ UnracedNext(i) => publish'[q].number # sample'[i].number
      BY <2>2, <3>5, <3>6 DEF NumberInv
    <3>9. \A i, j \in DOMAIN sample' : UnracedNext(i) /\ UnracedNext(j) /\ i # j =>
            sample'[i].number # sample'[j].number
      BY <3>5, <3>6 DEF NumberInv
    <3>10. \A q, r \in Publishers : Numbered(q)' /\ Numbered(r)' /\ q # r =>
            publish'[q].number # publish'[r].number
      BY <2>2 DEF NumberInv
    <3>11. \A q \in Publishers : Numbered(q)' => CoversNext(publish'[q].number)
      BY <2>2, <2>3 DEF NumberInv
    <3> QED
      BY <2>1, <2>2, <3>7, <3>8, <3>9, <3>10, <3>11
      DEF NumberInv, Covers, CoversNext, Unraced, UnracedNext
  <2> QED
    BY <1>4, <2>4, <2>5 DEF Write
<1>5. CASE SameSamples /\ UNCHANGED publisherVars
  <2>1. \A i \in DOMAIN sample : /\ UnracedNext(i) <=> Unraced(i)
                                 /\ sample'[i].number = sample[i].number
    BY <1>5 DEF SameSamples, Keeps, Unraced, UnracedNext
  <2> QED
    BY <1>5, <2>1
    DEF NumberInv, SameSamples, Covers, CoversNext, Unraced, UnracedNext,
        Numbered, Loaded, publisherVars
<1> QED
  BY <1>1, <1>2, <1>3, <1>4, <1>5, ReaderStep

\* Two messages whose calls did not increment the number while another thread
\* did have different numbers, for any number of threads and messages.
THEOREM NumbersDiffer == TopicSpec => []UnracedNumbersDiffer
<1>1. TopicInit => NumberInv
  BY DEF TopicInit, NumberInv, Idle, Loaded, Numbered, Unraced
<1>2. TopicTypeOK /\ NumberInv /\ [TopicNext]_topicVars => NumberInv'
  BY NumberStep
<1>3. NumberInv => UnracedNumbersDiffer
  BY DEF NumberInv, UnracedNumbersDiffer, Unraced
<1> QED
  BY <1>1, <1>2, <1>3, TopicTypeCorrect, PTL DEF TopicSpec

-----------------------------------------------------------------------------
(* Callbacks.  From its count on, while no listener is about to run, what  *)
(* is unread arrived without a listener and is marked as missed.           *)

Counted == callback \/ setter = "counted"
UntoldInv == Counted /\ ~pending => \A i \in Unread : sample[i].missed

LEMMA UntoldStep ==
  ASSUME TopicTypeOK, UntoldInv, [TopicNext]_topicVars
  PROVE  UntoldInv'
<1>1. ASSUME NEW n \in Nat, NEW r \in BOOLEAN, NEW v \in BOOLEAN,
             Arrives(Arriving(n, r, v))
      PROVE  UntoldInv'
  <2> DEFINE s == Arriving(n, r, v)
  <2>1. OneMore(s) /\ (s.missed <=> ~installed /\ Counted)
    BY <1>1, ArrivingType, ArrivesAdds DEF Counted
  <2>2. /\ pending' = (pending \/ installed)
        /\ UNCHANGED <<installed, callback, setter>>
    BY <1>1 DEF Arrives
  <2>3. CASE installed
    BY <2>2, <2>3 DEF UntoldInv, Counted, TopicTypeOK
  <2>4. CASE ~installed /\ Counted /\ ~pending
    BY <2>1, <2>2, <2>4
    DEF UntoldInv, Counted, OneMore, Unread, TopicTypeOK
  <2>5. CASE ~installed /\ ~(Counted /\ ~pending)
    BY <2>2, <2>5 DEF UntoldInv, Counted, TopicTypeOK
  <2> QED
    BY <2>3, <2>4, <2>5
<1>2. ASSUME SameSamples, UNCHANGED listenerVars
      PROVE  UntoldInv'
  <2>1. \A i \in Unread' : i \in Unread /\ (sample[i].missed => sample'[i].missed)
    <3>1. \A i \in DOMAIN sample :
            sample[i] \in Samples /\ sample'[i] \in Samples
      BY <1>2 DEF TopicTypeOK, SameSamples
    <3> QED
      BY <1>2, <3>1 DEF SameSamples, Keeps, Unread, Samples
  <2> QED
    BY <1>2, <2>1 DEF UntoldInv, Counted, listenerVars
<1>3. CASE StateChange
  BY <1>1, <1>3, FALSE \in BOOLEAN, 0 \in Nat DEF StateChange
<1>4. ASSUME NEW p \in Publishers, LoadNumber(p) \/ StoreNumber(p)
      PROVE  UntoldInv'
  BY <1>2, <1>4, UnchangedSamples DEF LoadNumber, StoreNumber
<1>5. ASSUME NEW p \in Publishers, Write(p)
      PROVE  UntoldInv'
  <2>1. publish[p].number \in Nat /\ publish[p].raced \in BOOLEAN
    BY DEF TopicTypeOK
  <2> QED
    BY <1>1, <1>2, <1>5, <2>1, TRUE \in BOOLEAN, UnchangedSamples DEF Write
<1>6. CASE OnDataAvailable
  <2>1. CASE callback
    <3>1. \A i \in Unread' : sample'[i].missed
      BY <1>6, <2>1, CountReads DEF OnDataAvailable, Unread
    <3> QED
      BY <3>1 DEF UntoldInv, Counted
  <2>2. CASE ~callback
    BY <1>6, <2>2 DEF OnDataAvailable, UntoldInv, Counted
  <2> QED
    BY <2>1, <2>2
<1>7. CASE CountForCallback
  <2>1. \A i \in Unread' : sample'[i].missed
    BY <1>7, CountReads DEF CountForCallback, CountedFirst, Unread
  <2> QED
    BY <2>1 DEF UntoldInv, Counted
<1>8. CASE InstallCallback
  BY <1>8 DEF InstallCallback, UntoldInv, Counted, Unread
<1>9. CASE RemoveCallback \/ EventSetter
  BY <1>9 DEF RemoveCallback, EventSetter, UntoldInv, Counted, Unread
<1>10. ASSUME NEW t \in Takers, TakeStep(t)
       PROVE  UntoldInv'
  BY <1>2, <1>10, TakeStepKeeps, TakeStepFrame DEF UnchangedByTake
<1>11. CASE UNCHANGED topicVars
  BY <1>2, <1>11, UnchangedSamples DEF topicVars
<1> QED
  BY <1>3, <1>4, <1>5, <1>6, <1>7, <1>8, <1>9, <1>10, <1>11
  DEF TopicNext, TakeStep

\* A message waits untold only if it came while there was no listener for it, or its
\* read failed.
THEOREM OnlyWindowIsUntold == TopicSpec => []UntoldOnlyInWindow
<1>1. TopicInit => UntoldInv
  BY DEF TopicInit, UntoldInv, Counted
<1>2. TopicTypeOK /\ UntoldInv /\ [TopicNext]_topicVars => UntoldInv'
  BY UntoldStep
<1>3. UntoldInv => UntoldOnlyInWindow
  BY DEF UntoldInv, Counted, UntoldOnlyInWindow
<1> QED
  BY <1>1, <1>2, <1>3, TopicTypeCorrect, PTL DEF TopicSpec

-----------------------------------------------------------------------------
(* Room.  A round begins below count and adds at most count.               *)

RoomInv ==
  \A t \in Takers :
    /\ taker[t].step = "loan" =>
         Len(taker[t].out) + Len(taker[t].loan) <= 2 * taker[t].count - 1
    /\ taker[t].step = "overrun" => taker[t].capacity < 2 * taker[t].count - 1

Room(c) ==
  /\ c.step = "loan" => Len(c.out) + Len(c.loan) <= 2 * c.count - 1
  /\ c.step = "overrun" => c.capacity < 2 * c.count - 1

\* A step of one thread leaves the others where they are.
LEMMA TakeStepOthers ==
  ASSUME TopicTypeOK, NEW t \in Takers, TakeStep(t)
  PROVE  \A u \in Takers : u # t => taker'[u] = taker[u]
<1>1. taker \in [Takers -> TakerType]
  BY LoanIsTaker
<1>2. CASE Take(t)
  BY <1>1, <1>2 DEF Take, Ends
<1>3. CASE TakeSerialized(t)
  BY <1>1, <1>3 DEF TakeSerialized, Ends
<1>4. CASE CopySerialized(t)
  BY <1>1, <1>4 DEF CopySerialized
<1>5. CASE \E k \in SequenceCalls : TakeSequence(t, k[1], k[2])
  BY <1>1, <1>5 DEF TakeSequence
<1>6. CASE TakeRound(t) \/ RoundFails(t) \/ EndSequence(t) \/ Overrun(t)
  BY <1>1, <1>6 DEF TakeRound, RoundFails, EndSequence, Overrun, Ends
<1>7. CASE SkipSample(t) \/ GiveSample(t)
  BY <1>1, <1>7 DEF SkipSample, GiveSample
<1>8. CASE GiveFails(t) \/ ReturnLoan(t) \/ Return(t)
  BY <1>1, <1>8 DEF GiveFails, ReturnLoan, Return
<1> QED
  BY <1>2, <1>3, <1>4, <1>5, <1>6, <1>7, <1>8 DEF TakeStep

\* Only the steps of the loop over a loan, and the round before it, leave a
\* thread in that loop or beyond the room.
LEMMA TakeStepEnds ==
  ASSUME TopicTypeOK, NEW t \in Takers, TakeStep(t),
         ~(TakeRound(t) \/ SkipSample(t) \/ GiveSample(t) \/ Overrun(t))
  PROVE  taker'[t].step \notin {"loan", "overrun"}
<1>1. taker \in [Takers -> TakerType] /\ taker[t] \in TakerType
  BY LoanIsTaker
<1>2. ASSUME NEW e, Ends(t, e)
      PROVE  taker'[t].step = e
  BY <1>1, <1>2 DEF Ends, TakerType
<1>3. CASE Take(t)
  BY <1>1, <1>2, <1>3 DEF Take, TakerType
<1>4. CASE TakeSerialized(t)
  BY <1>1, <1>2, <1>4 DEF TakeSerialized, TakerType
<1>5. CASE CopySerialized(t)
  <2>1. \/ taker'[t] = [taker[t] EXCEPT !.step = "ok", !.loan = <<>>,
                                        !.out = WithData(taker[t].loan)]
        \/ taker'[t] = [taker[t] EXCEPT !.step = "error", !.loan = <<>>]
    BY <1>1, <1>5 DEF CopySerialized
  <2> QED
    BY <1>1, <2>1 DEF TakerType
<1>6. CASE \E k \in SequenceCalls : TakeSequence(t, k[1], k[2])
  <2>1. PICK k \in SequenceCalls : TakeSequence(t, k[1], k[2])
    BY <1>6
  <2>2. taker'[t].step \in {"error", "round"}
    BY <1>1, <2>1 DEF TakeSequence, TakerType
  <2> QED
    BY <2>2
<1>7. CASE RoundFails(t) \/ EndSequence(t)
  BY <1>2, <1>7 DEF RoundFails, EndSequence
<1>8. CASE GiveFails(t) \/ ReturnLoan(t)
  <2>1. \/ taker'[t] = [taker[t] EXCEPT !.step = "error", !.loan = <<>>]
        \/ taker'[t] = [taker[t] EXCEPT !.step = "round", !.loan = <<>>]
    BY <1>1, <1>8 DEF GiveFails, ReturnLoan
  <2> QED
    BY <1>1, <2>1 DEF TakerType
<1>9. CASE Return(t)
  <2>1. taker'[t] = Free
    BY <1>1, <1>9 DEF Return
  <2> QED
    BY <2>1 DEF Free
<1> QED
  BY <1>3, <1>4, <1>5, <1>6, <1>7, <1>8, <1>9 DEF TakeStep

LEMMA RoomStep ==
  ASSUME TopicTypeOK, RoomInv, [TopicNext]_topicVars
  PROVE  RoomInv'
<1>1. CASE UNCHANGED taker
  BY <1>1 DEF RoomInv
<1>2. ASSUME NEW t \in Takers, TakeStep(t)
      PROVE  RoomInv'
  <2> DEFINE c == taker[t]
  <2>0. c \in TakerType /\ taker \in [Takers -> TakerType]
    BY LoanIsTaker
  <2>1. /\ c \in TakerType /\ taker \in [Takers -> TakerType]
        /\ c.out \in Seq(Nat) /\ c.loan \in Seq(Nat)
        /\ Len(c.out) \in Nat /\ Len(c.loan) \in Nat
        /\ c.count \in Nat /\ c.capacity \in Nat
    BY <2>0 DEF TakerType
  <2>2. SUFFICES Room(taker'[t])
    BY <1>2, TakeStepOthers DEF RoomInv, Room
  <2>3. ASSUME taker'[t].step \notin {"loan", "overrun"}
        PROVE  Room(taker'[t])
    BY <2>3 DEF Room
  <2>4. CASE ~(TakeRound(t) \/ SkipSample(t) \/ GiveSample(t) \/ Overrun(t))
    BY <1>2, <2>3, <2>4, TakeStepEnds
  <2>5. CASE TakeRound(t)
    <3>1. Len(c.out) < c.count
      BY <2>5 DEF TakeRound, WantsMore
    <3>2. PICK l \in Loans(c.count) :
            taker' = [taker EXCEPT ![t] =
                        [@ EXCEPT !.step = "loan", !.loan = l,
                                  !.took = taker[t].took \cup Range(l)]]
      BY <2>5 DEF TakeRound
    <3>3. Len(l) \in 1..c.count
      BY <2>1, LoanType
    <3> DEFINE r == [c EXCEPT !.step = "loan", !.loan = l,
                              !.took = c.took \cup Range(l)]
    <3>4. r.step = "loan" /\ r.out = c.out /\ r.loan = l /\ r.count = c.count
      BY <2>0 DEF TakerType
    <3>6. taker'[t] = r
      BY <2>0, <3>2
    <3> HIDE DEF r
    <3>5. Room(r)
      BY <2>1, <3>1, <3>3, <3>4 DEF Room
    <3> QED
      BY <3>5, <3>6
  <2>6. CASE SkipSample(t) \/ GiveSample(t)
    <3>1. c.step = "loan" /\ c.loan # <<>>
      BY <2>6 DEF SkipSample, GiveSample, LoanDone
    <3>2. /\ Len(Tail(c.loan)) = Len(c.loan) - 1
          /\ Len(Append(c.out, Head(c.loan))) = Len(c.out) + 1
      BY <2>1, <3>1
    <3>3. Len(c.out) + Len(c.loan) <= 2 * c.count - 1
      BY <3>1 DEF RoomInv
    <3> DEFINE skip == [c EXCEPT !.loan = Tail(c.loan)]
               give == [c EXCEPT !.out = Append(c.out, Head(c.loan)),
                                 !.loan = Tail(c.loan)]
    <3>4. /\ skip.step = "loan" /\ skip.out = c.out
          /\ skip.loan = Tail(c.loan) /\ skip.count = c.count
      BY <2>0, <3>1 DEF TakerType
    <3>5. /\ give.step = "loan" /\ give.out = Append(c.out, Head(c.loan))
          /\ give.loan = Tail(c.loan) /\ give.count = c.count
      BY <2>0, <3>1 DEF TakerType
    <3>7. taker'[t] = skip \/ taker'[t] = give
      BY <2>0, <2>6 DEF SkipSample, GiveSample
    <3>8. /\ Len(c.out) + Len(Tail(c.loan)) <= 2 * c.count - 1
          /\ Len(Append(c.out, Head(c.loan))) + Len(Tail(c.loan))
               <= 2 * c.count - 1
      <4>1. \A out, loan, count \in Nat : out + loan <= 2 * count - 1 =>
              /\ out + (loan - 1) <= 2 * count - 1
              /\ (out + 1) + (loan - 1) <= 2 * count - 1
        OBVIOUS
      <4> HIDE DEF c
      <4> QED
        BY <2>1, <3>2, <3>3, <4>1
    <3> HIDE DEF skip, give
    <3>6. Room(skip) /\ Room(give)
      BY <3>4, <3>5, <3>8 DEF Room
    <3> QED
      BY <3>6, <3>7
  <2>7. CASE Overrun(t)
    <3>1. c.step = "loan" /\ c.loan # <<>> /\ Len(c.out) >= c.capacity
      BY <2>7 DEF Overrun, LoanDone
    <3>2. Len(c.loan) >= 1
      BY <2>1, <3>1
    <3>3. Len(c.out) + Len(c.loan) <= 2 * c.count - 1
      BY <3>1 DEF RoomInv
    <3> DEFINE r == [c EXCEPT !.step = "overrun"]
    <3>4. r.step = "overrun" /\ r.count = c.count /\ r.capacity = c.capacity
      BY <2>0 DEF TakerType
    <3>6. taker'[t] = r
      BY <2>0, <2>7 DEF Overrun, Ends
    <3>7. c.capacity < 2 * c.count - 1
      <4>1. \A out, loan, count, capacity \in Nat :
              out + loan <= 2 * count - 1 /\ loan >= 1 /\ out >= capacity =>
                capacity < 2 * count - 1
        OBVIOUS
      <4> HIDE DEF c
      <4> QED
        BY <2>1, <3>1, <3>2, <3>3, <4>1
    <3> HIDE DEF r
    <3>5. Room(r)
      BY <3>4, <3>7 DEF Room
    <3> QED
      BY <3>5, <3>6
  <2> QED
    BY <1>2, <2>4, <2>5, <2>6, <2>7 DEF TakeStep
<1> QED
  BY <1>1, <1>2
  DEF TopicNext, TakeStep, StateChange, LoadNumber, StoreNumber, Write,
      OnDataAvailable, CountForCallback, InstallCallback, RemoveCallback, EventSetter,
      topicVars

\* rmw_take_sequence writes no further than 2 * count - 1 messages, whatever
\* arrives between its rounds.
THEOREM TwiceTheRoomSuffices == TopicSpec => []TwiceTheRoomIsEnough
<1>1. TopicInit => RoomInv
  BY DEF TopicInit, RoomInv, Free
<1>2. TopicTypeOK /\ RoomInv /\ [TopicNext]_topicVars => RoomInv'
  BY RoomStep
<1>3. RoomInv => TwiceTheRoomIsEnough
  BY DEF RoomInv, TwiceTheRoomIsEnough
<1> QED
  BY <1>1, <1>2, <1>3, TopicTypeCorrect, PTL DEF TopicSpec

-----------------------------------------------------------------------------
(* Results.  A call has given, or still has in its loan, every message with *)
(* data that it took; what the cache still has is above all of these.      *)

Items(s) == {s[k] : k \in 1..Len(s)}
Increasing(s) == \A j, k \in 1..Len(s) : j < k => s[j] < s[k]
Below(s, l) == \A j \in 1..Len(s), k \in 1..Len(l) : s[j] < l[k]

LEMMA ItemsRange ==
  ASSUME NEW s \in Seq(Nat)
  PROVE  Range(s) = Items(s)
BY DEF Range, Items

\* What moving the head of a loan to the output, or dropping it, does.
LEMMA MoveHead ==
  ASSUME NEW s \in Seq(Nat), NEW l \in Seq(Nat), l # <<>>,
         Increasing(s), Increasing(l), Below(s, l)
  PROVE  /\ Items(l) = {Head(l)} \cup Items(Tail(l))
         /\ Items(Append(s, Head(l))) = Items(s) \cup {Head(l)}
         /\ Increasing(Append(s, Head(l))) /\ Increasing(Tail(l))
         /\ Below(Append(s, Head(l)), Tail(l)) /\ Below(s, Tail(l))
<1> DEFINE h == Head(l)
           r == Tail(l)
           a == Append(s, h)
           n == Len(l)
           m == Len(s)
<1>1. /\ n \in Nat /\ n >= 1 /\ h = l[1] /\ h \in Nat
      /\ r \in Seq(Nat) /\ Len(r) = n - 1
      /\ \A k \in 1..(n - 1) : r[k] = l[k + 1]
      /\ \A k \in 1..n : l[k] \in Nat
  OBVIOUS
<1>2. /\ m \in Nat /\ Len(a) = m + 1 /\ a[m + 1] = h
      /\ \A k \in 1..m : a[k] = s[k] /\ s[k] \in Nat
  BY <1>1
<1>3. /\ \A j, k \in 1..m : j < k => s[j] < s[k]
      /\ \A j, k \in 1..n : j < k => l[j] < l[k]
      /\ \A j \in 1..m, k \in 1..n : s[j] < l[k]
  BY DEF Increasing, Below
<1> HIDE DEF h, r, a, n, m
<1>4. \A k \in 1..(n - 1) : k + 1 \in 1..n /\ 1 \in 1..n /\ 1 < k + 1
  BY <1>1
<1>5. \A k \in 2..n : k - 1 \in 1..(n - 1) /\ (k - 1) + 1 = k
  BY <1>1
<1>6. 1..n = {1} \cup 2..n /\ 1..(m + 1) = 1..m \cup {m + 1}
  BY <1>1, <1>2
<1>7. {l[k] : k \in 1..n} = {h} \cup {r[k] : k \in 1..(n - 1)}
  <2>1. ASSUME NEW k \in 1..n
        PROVE  l[k] \in {h} \cup {r[j] : j \in 1..(n - 1)}
    <3>1. CASE k = 1
      BY <1>1, <3>1
    <3>2. CASE k \in 2..n
      <4>1. k - 1 \in 1..(n - 1) /\ (k - 1) + 1 = k
        BY <1>5, <3>2
      <4>2. r[k - 1] = l[(k - 1) + 1]
        BY <1>1, <4>1
      <4>3. r[k - 1] = l[k]
        BY <4>1, <4>2
      <4> QED
        BY <4>1, <4>3
    <3> QED
      BY <1>6, <3>1, <3>2
  <2>2. ASSUME NEW k \in 1..(n - 1)
        PROVE  r[k] \in {l[j] : j \in 1..n}
    BY <1>1, <1>4
  <2>3. h \in {l[k] : k \in 1..n}
    BY <1>1, <1>6
  <2> QED
    BY <2>1, <2>2, <2>3
<1>8. {a[k] : k \in 1..(m + 1)} = {s[k] : k \in 1..m} \cup {h}
  BY <1>2, <1>6
<1>9. \A j, k \in 1..(n - 1) : j < k => r[j] < r[k]
  <2> SUFFICES ASSUME NEW j \in 1..(n - 1), NEW k \in 1..(n - 1), j < k
               PROVE  r[j] < r[k]
    OBVIOUS
  <2>1. j + 1 \in 1..n /\ k + 1 \in 1..n /\ j + 1 < k + 1
    BY <1>1
  <2>2. l[j + 1] < l[k + 1]
    BY <1>3, <2>1
  <2>3. r[j] = l[j + 1] /\ r[k] = l[k + 1]
    BY <1>1
  <2> QED
    BY <2>2, <2>3
<1>10. \A j \in 1..m, k \in 1..(n - 1) : s[j] < r[k]
  <2> SUFFICES ASSUME NEW j \in 1..m, NEW k \in 1..(n - 1)
               PROVE  s[j] < r[k]
    OBVIOUS
  <2>1. s[j] < l[k + 1]
    BY <1>3, <1>4
  <2> QED
    BY <1>1, <2>1
<1>11. \A k \in 1..(n - 1) : h < r[k]
  <2> SUFFICES ASSUME NEW k \in 1..(n - 1)
               PROVE  h < r[k]
    OBVIOUS
  <2>1. l[1] < l[k + 1]
    BY <1>3, <1>4
  <2> QED
    BY <1>1, <2>1
<1>12. \A j \in 1..m : s[j] < h
  BY <1>1, <1>3, <1>6
<1>13. \A j, k \in 1..(m + 1) : j < k => a[j] < a[k]
  <2> SUFFICES ASSUME NEW j \in 1..(m + 1), NEW k \in 1..(m + 1), j < k
               PROVE  a[j] < a[k]
    OBVIOUS
  <2>1. j \in 1..m
    BY <1>2
  <2>2. CASE k \in 1..m
    BY <1>2, <1>3, <2>1, <2>2
  <2>3. CASE k = m + 1
    BY <1>2, <1>12, <2>1, <2>3
  <2> QED
    BY <1>6, <2>2, <2>3
<1>14. \A j \in 1..(m + 1), k \in 1..(n - 1) : a[j] < r[k]
  BY <1>2, <1>6, <1>10, <1>11
<1>15. /\ Items(l) = {h} \cup Items(r) /\ Items(a) = Items(s) \cup {h}
       /\ Increasing(a) /\ Increasing(r) /\ Below(a, r) /\ Below(s, r)
  BY <1>1, <1>2, <1>7, <1>8, <1>9, <1>10, <1>13, <1>14
  DEF Items, Increasing, Below, n, m
<1> QED
  BY <1>15 DEF h, r, a

Taken == {i \in DOMAIN sample : sample[i].state = "taken"}
HasData == {i \in DOMAIN sample : sample[i].valid}

\* What holds of a call with the record c when the samples T are taken out of the
\* cache and the samples D have data.
Result(c, T, D) ==
  /\ c.took \subseteq T
  /\ Items(c.loan) \subseteq c.took
  /\ Items(c.out) \subseteq c.took \cap D
  /\ Increasing(c.out) /\ Increasing(c.loan) /\ Below(c.out, c.loan)
  /\ c.step = "idle" => c = Free
  /\ c.step \in {"round", "ok"} => c.loan = <<>>
  /\ c.step = "serialized" => c.out = <<>> /\ Len(c.loan) = 1
  /\ c.step \in {"loan", "round", "ok", "serialized"} =>
       c.took \cap D \subseteq Items(c.out) \cup Items(c.loan)

TakenFirst == \A i \in Taken : \A c \in DOMAIN sample \ Taken : i < c

ResultInv ==
  /\ TakenFirst
  /\ \A t \in Takers : Result(taker[t], Taken, HasData)

LEMMA ResultStays ==
  ASSUME NEW c, NEW T, NEW D, NEW T2, NEW D2, Result(c, T, D),
         T \subseteq T2, D2 \cap T = D \cap T
  PROVE  Result(c, T2, D2)
<1>1. c.took \subseteq T2 /\ c.took \cap D2 = c.took \cap D
  BY DEF Result
<1> QED
  BY <1>1 DEF Result

LEMMA Nothing ==
  /\ Items(<<>>) = {} /\ Increasing(<<>>)
  /\ \A l : Below(<<>>, l) /\ Below(l, <<>>)
BY DEF Items, Increasing, Below

\* The samples keep their data, and those taken out stay so.
LEMMA SameTaken ==
  ASSUME SameSamples
  PROVE  Taken \subseteq Taken' /\ HasData' = HasData
BY DEF SameSamples, Keeps, Taken, HasData

LEMMA AddedTaken ==
  ASSUME NEW s, OneMore(s), s.state = "unread", TopicTypeOK, TakenFirst
  PROVE  Taken' = Taken /\ HasData' \cap Taken = HasData \cap Taken /\ TakenFirst'
<1>1. Taken' = Taken /\ HasData' \cap Taken = HasData \cap Taken
  BY DEF OneMore, Taken, HasData
<1>2. TakenFirst'
  BY <1>1 DEF OneMore, TakenFirst, Taken
<1> QED
  BY <1>1, <1>2

\* What a loan is, beyond its type.
LEMMA LoanResult ==
  ASSUME TopicTypeOK, TakenFirst, NEW n \in Nat, NEW l \in Loans(n),
         sample' = TakenOut(l)
  PROVE  /\ Items(l) = Range(l) /\ Increasing(l)
         /\ Range(l) \subseteq Taken' /\ Range(l) \cap Taken = {}
         /\ \A i \in Taken, k \in 1..Len(l) : i < l[k]
         /\ TakenFirst'
<1>1. /\ l \in Seq(Nat) /\ Range(l) \subseteq Cached /\ DOMAIN l = 1..Len(l)
      /\ Range(l) \subseteq DOMAIN sample /\ Range(l) = {l[i] : i \in 1..Len(l)}
  BY LoanType
<1>2. /\ SameSamples
      /\ \A i \in DOMAIN sample :
           sample'[i].state = IF i \in Range(l) THEN "taken" ELSE sample[i].state
  BY TakenOutKeeps
<1>3. /\ \A i, j \in 1..Len(l) : i < j => l[i] < l[j]
      /\ \A c \in Cached \ Range(l) : \A i \in 1..Len(l) : l[i] < c
  BY <1>1 DEF Loans
<1>4. Taken' = Taken \cup Range(l) /\ DOMAIN sample' = DOMAIN sample
  BY <1>1, <1>2 DEF Taken, SameSamples
<1>5. Cached = DOMAIN sample \ Taken
  BY DEF Cached, Taken
<1>6. TakenFirst'
  <2> SUFFICES ASSUME NEW i \in Taken', NEW c \in DOMAIN sample' \ Taken'
               PROVE  i < c
    BY DEF TakenFirst
  <2>1. c \in Cached \ Range(l)
    BY <1>4, <1>5
  <2>2. CASE i \in Taken
    BY <1>5, <2>1, <2>2 DEF TakenFirst
  <2>3. CASE i \in Range(l)
    <3>1. PICK k \in 1..Len(l) : i = l[k]
      BY <1>1, <2>3
    <3> QED
      BY <1>3, <2>1, <3>1
  <2> QED
    BY <1>4, <2>2, <2>3
<1>7. \A i \in Taken, k \in 1..Len(l) : i < l[k]
  <2> SUFFICES ASSUME NEW i \in Taken, NEW k \in 1..Len(l)
               PROVE  i < l[k]
    OBVIOUS
  <2>1. l[k] \in DOMAIN sample \ Taken
    BY <1>1, <1>5
  <2> QED
    BY <2>1 DEF TakenFirst
<1>8. Items(l) = Range(l) /\ Increasing(l)
  BY <1>1, <1>3 DEF Items, Increasing
<1> QED
  BY <1>1, <1>4, <1>5, <1>6, <1>7, <1>8

\* What a message is given of a loan of one sample.
LEMMA GivenOfOne ==
  ASSUME NEW l \in Seq(Nat), Len(l) = 1, Items(l) \subseteq DOMAIN sample
  PROVE  /\ Items(WithData(l)) = Items(l) \cap HasData
         /\ Increasing(WithData(l))
<1>1. Items(l) = {l[1]}
  BY DEF Items
<1>2. CASE sample[l[1]].valid
  <2>1. WithData(l) = l /\ l[1] \in HasData
    BY <1>1, <1>2 DEF WithData, HasData
  <2>2. Increasing(l)
    BY DEF Increasing
  <2> QED
    BY <1>1, <2>1, <2>2
<1>3. CASE ~sample[l[1]].valid
  BY <1>1, <1>3, Nothing DEF WithData, HasData
<1> QED
  BY <1>2, <1>3

LEMMA LoanOfOne ==
  ASSUME TopicTypeOK, NEW l \in Loans(1)
  PROVE  l \in Seq(Nat) /\ Len(l) = 1 /\ Range(l) \subseteq DOMAIN sample
<1>1. l \in Seq(Nat) /\ Len(l) \in 1..1 /\ Range(l) \subseteq DOMAIN sample
  BY LoanType, 1 \in Nat
<1> QED
  BY <1>1

\* A step that only ends a part of the call leaves its samples.
LEMMA EndsKeeps ==
  ASSUME TopicTypeOK, NEW t \in Takers, NEW e, Ends(t, e)
  PROVE  /\ taker'[t].step = e /\ taker'[t].took = taker[t].took
         /\ taker'[t].loan = taker[t].loan /\ taker'[t].out = taker[t].out
<1>1. taker \in [Takers -> TakerType] /\ taker[t] \in TakerType
  BY LoanIsTaker
<1>2. taker'[t] = [taker[t] EXCEPT !.step = e]
  BY <1>1 DEF Ends
<1> QED
  BY <1>1, <1>2 DEF TakerType

\* What one step of a taking thread makes of its call.
LEMMA TakeStepResult ==
  ASSUME TopicTypeOK, ResultInv, NEW t \in Takers, TakeStep(t)
  PROVE  Result(taker'[t], Taken', HasData') /\ TakenFirst'
<1> DEFINE c == taker[t]
           d == taker'[t]
           T == Taken'
           D == HasData'
<1> SUFFICES Result(d, T, D) /\ TakenFirst'
  OBVIOUS
<1>1. /\ taker \in [Takers -> TakerType] /\ c \in TakerType
      /\ c.loan \in Seq(Nat) /\ c.out \in Seq(Nat) /\ c.count \in Nat
  <2>1. taker \in [Takers -> TakerType] /\ c \in TakerType
    BY LoanIsTaker
  <2> QED
    BY <2>1 DEF TakerType
<1>2. Taken \subseteq T /\ D = HasData /\ TakenFirst
  BY TakeStepKeeps, SameTaken DEF ResultInv
<1>3. Result(c, Taken, D)
  BY <1>2 DEF ResultInv
<1>4. Result(c, T, D)
  BY <1>2, <1>3, ResultStays
<1>5. sample' = sample => TakenFirst'
  BY <1>2 DEF TakenFirst, Taken
<1>6. c.took \subseteq Taken /\ Taken \subseteq DOMAIN sample
  BY <1>3 DEF Result, Taken
<1>7. CASE Take(t)
  <2>1. c = Free
    BY <1>3, <1>7 DEF Take, Result
  <2>2. ASSUME NEW l \in Loans(1), sample' = TakenOut(l),
               taker' = [taker EXCEPT ![t] =
                           [@ EXCEPT !.step = "ok", !.took = Range(l),
                                     !.out = WithData(l)]]
        PROVE  Result(d, T, D) /\ TakenFirst'
    <3>0. d = [Free EXCEPT !.step = "ok", !.took = Range(l), !.out = WithData(l)]
      BY <1>1, <2>1, <2>2
    <3>1. /\ d.step = "ok" /\ d.took = Range(l) /\ d.out = WithData(l)
          /\ d.loan = <<>>
      BY <3>0 DEF Free
    <3>2. /\ Items(l) = Range(l) /\ Range(l) \subseteq T /\ TakenFirst'
      BY <1>2, <2>2, LoanResult, 1 \in Nat
    <3>3. l \in Seq(Nat) /\ Len(l) = 1 /\ Range(l) \subseteq DOMAIN sample
      BY LoanOfOne
    <3>4. Items(d.out) = d.took \cap D /\ Increasing(d.out)
      BY <1>2, <3>1, <3>2, <3>3, GivenOfOne
    <3> HIDE DEF d, T, D
    <3> QED
      BY <3>1, <3>2, <3>4, Nothing DEF Result
  <2>3. CASE sample' = sample /\ (Ends(t, "ok") \/ Ends(t, "error"))
    <3>1. /\ d.step \in {"ok", "error"} /\ d.took = {} /\ d.out = <<>>
          /\ d.loan = <<>>
      BY <2>1, <2>3, EndsKeeps DEF Free
    <3>2. TakenFirst'
      BY <1>5, <2>3
    <3> HIDE DEF d, T, D
    <3> QED
      BY <3>1, <3>2, Nothing DEF Result
  <2> QED
    BY <1>7, <2>2, <2>3 DEF Take
<1>8. CASE TakeSerialized(t)
  <2>1. c = Free
    BY <1>3, <1>8 DEF TakeSerialized, Result
  <2>2. ASSUME NEW l \in Loans(1), sample' = TakenOut(l),
               taker' = [taker EXCEPT ![t] =
                           [@ EXCEPT !.step = "serialized", !.loan = l,
                                     !.took = Range(l)]]
        PROVE  Result(d, T, D) /\ TakenFirst'
    <3>0. d = [Free EXCEPT !.step = "serialized", !.loan = l, !.took = Range(l)]
      BY <1>1, <2>1, <2>2
    <3>1. /\ d.step = "serialized" /\ d.took = Range(l) /\ d.out = <<>>
          /\ d.loan = l
      BY <3>0 DEF Free
    <3>2. /\ Items(l) = Range(l) /\ Range(l) \subseteq T /\ TakenFirst'
          /\ Increasing(l)
      BY <1>2, <2>2, LoanResult, 1 \in Nat
    <3>3. Len(l) = 1
      BY LoanOfOne
    <3> HIDE DEF d, T, D
    <3> QED
      BY <3>1, <3>2, <3>3, Nothing DEF Result
  <2>3. CASE sample' = sample /\ (Ends(t, "ok") \/ Ends(t, "error"))
    <3>1. /\ d.step \in {"ok", "error"} /\ d.took = {} /\ d.out = <<>>
          /\ d.loan = <<>>
      BY <2>1, <2>3, EndsKeeps DEF Free
    <3>2. TakenFirst'
      BY <1>5, <2>3
    <3> HIDE DEF d, T, D
    <3> QED
      BY <3>1, <3>2, Nothing DEF Result
  <2> QED
    BY <1>8, <2>2, <2>3 DEF TakeSerialized
<1>9. CASE CopySerialized(t)
  <2>1. sample' = sample /\ c.step = "serialized"
    BY <1>9 DEF CopySerialized
  <2>2. /\ c.out = <<>> /\ Len(c.loan) = 1
        /\ Items(c.loan) \subseteq c.took /\ c.took \subseteq T
        /\ c.took \cap D \subseteq Items(c.loan)
    BY <1>4, <2>1, Nothing DEF Result
  <2>3. /\ Items(WithData(c.loan)) = Items(c.loan) \cap D
        /\ Increasing(WithData(c.loan))
    BY <1>1, <1>2, <1>6, <2>2, GivenOfOne
  <2>4. /\ d.took = c.took /\ d.loan = <<>>
        /\ \/ d.step = "ok" /\ d.out = WithData(c.loan)
           \/ d.step = "error" /\ d.out = c.out
    <3>1. \/ d = [c EXCEPT !.step = "ok", !.loan = <<>>, !.out = WithData(c.loan)]
          \/ d = [c EXCEPT !.step = "error", !.loan = <<>>]
      BY <1>1, <1>9 DEF CopySerialized
    <3> QED
      BY <1>1, <3>1 DEF TakerType
  <2>5. TakenFirst'
    BY <1>5, <2>1
  <2> HIDE DEF c, d, T, D
  <2> QED
    BY <2>2, <2>3, <2>4, <2>5, Nothing DEF Result
<1>10. CASE \E k \in SequenceCalls : TakeSequence(t, k[1], k[2])
  <2>1. sample' = sample /\ c.step = "idle"
    BY <1>10 DEF TakeSequence
  <2>2. c = Free
    BY <1>3, <2>1 DEF Result
  <2>3. /\ d.step \in {"error", "round"} /\ d.took = {} /\ d.out = <<>>
        /\ d.loan = <<>>
    <3>1. PICK k \in SequenceCalls : TakeSequence(t, k[1], k[2])
      BY <1>10
    <3>2. d = [Free EXCEPT !.step = IF k[1] = 0 \/ k[2] < k[1]
                                    THEN "error" ELSE "round",
                           !.count = k[1], !.capacity = k[2]]
      BY <1>1, <2>2, <3>1 DEF TakeSequence
    <3> HIDE DEF d
    <3> QED
      BY <3>2 DEF Free
  <2>4. TakenFirst'
    BY <1>5, <2>1
  <2> HIDE DEF d, T, D
  <2> QED
    BY <2>3, <2>4, Nothing DEF Result
<1>11. CASE TakeRound(t)
  <2>1. PICK l \in Loans(c.count) :
          /\ sample' = TakenOut(l)
          /\ taker' = [taker EXCEPT ![t] =
                         [@ EXCEPT !.step = "loan", !.loan = l,
                                   !.took = taker[t].took \cup Range(l)]]
    BY <1>11 DEF TakeRound
  <2>2. /\ d.step = "loan" /\ d.loan = l /\ d.took = c.took \cup Range(l)
        /\ d.out = c.out
    <3>1. d = [c EXCEPT !.step = "loan", !.loan = l, !.took = c.took \cup Range(l)]
      BY <1>1, <2>1
    <3> QED
      BY <1>1, <3>1 DEF TakerType
  <2>3. /\ Items(l) = Range(l) /\ Range(l) \subseteq T /\ TakenFirst'
        /\ Increasing(l) /\ \A i \in Taken, k \in 1..Len(l) : i < l[k]
    BY <1>1, <1>2, <2>1, LoanResult
  <2>4. /\ c.step = "round" /\ c.loan = <<>> /\ c.took \subseteq T
        /\ Items(c.out) \subseteq c.took \cap D /\ Increasing(c.out)
        /\ c.took \cap D \subseteq Items(c.out)
    BY <1>4, <1>11, Nothing DEF TakeRound, Result
  <2>5. Below(c.out, l)
    BY <1>6, <2>3, <2>4 DEF Below, Items
  <2> HIDE DEF c, d, T, D
  <2> QED
    BY <2>2, <2>3, <2>4, <2>5 DEF Result
<1>12. CASE RoundFails(t) \/ EndSequence(t) \/ Overrun(t)
  <2>1. /\ sample' = sample
        /\ d.took = c.took /\ d.loan = c.loan /\ d.out = c.out
        /\ \/ d.step \in {"error", "overrun"}
           \/ d.step = "ok" /\ c.step = "round"
    BY <1>12, EndsKeeps DEF RoundFails, EndSequence, Overrun
  <2>2. TakenFirst'
    BY <1>5, <2>1
  <2> HIDE DEF c, d, T, D
  <2> QED
    BY <1>4, <2>1, <2>2 DEF Result
<1>13. CASE SkipSample(t) \/ GiveSample(t)
  <2>1. sample' = sample /\ c.step = "loan" /\ c.loan # <<>>
    BY <1>13 DEF SkipSample, GiveSample, LoanDone
  <2>2. /\ c.took \subseteq T /\ Items(c.loan) \subseteq c.took
        /\ Items(c.out) \subseteq c.took \cap D
        /\ Increasing(c.out) /\ Increasing(c.loan) /\ Below(c.out, c.loan)
        /\ c.took \cap D \subseteq Items(c.out) \cup Items(c.loan)
    BY <1>4, <2>1 DEF Result
  <2> DEFINE h == Head(c.loan)
             r == Tail(c.loan)
             a == Append(c.out, h)
  <2>3. /\ Items(c.loan) = {h} \cup Items(r) /\ Items(a) = Items(c.out) \cup {h}
        /\ Increasing(a) /\ Increasing(r) /\ Below(a, r) /\ Below(c.out, r)
    BY <1>1, <2>1, <2>2, MoveHead
  <2>4. TakenFirst'
    BY <1>5, <2>1
  <2>5. CASE SkipSample(t)
    <3>1. /\ d.step = "loan" /\ d.took = c.took /\ d.out = c.out /\ d.loan = r
      <4>1. d = [c EXCEPT !.loan = r]
        BY <1>1, <2>5 DEF SkipSample
      <4> HIDE DEF d, r
      <4> QED
        BY <1>1, <2>1, <4>1 DEF TakerType
    <3>2. h \notin D
      BY <1>2, <2>5 DEF SkipSample, HasData
    <3> HIDE DEF c, d, T, D, h, r, a
    <3> QED
      BY <2>2, <2>3, <2>4, <3>1, <3>2 DEF Result
  <2>6. CASE GiveSample(t)
    <3>1. /\ d.step = "loan" /\ d.took = c.took /\ d.out = a /\ d.loan = r
      <4>1. d = [c EXCEPT !.out = a, !.loan = r]
        BY <1>1, <2>6 DEF GiveSample
      <4> HIDE DEF d, a, r
      <4> QED
        BY <1>1, <2>1, <4>1 DEF TakerType
    <3>2. h \in D
      <4>1. h \in DOMAIN sample
        BY <1>6, <2>2, <2>3
      <4> QED
        BY <1>2, <2>6, <4>1 DEF GiveSample, HasData
    <3> HIDE DEF c, d, T, D, h, r, a
    <3> QED
      BY <2>2, <2>3, <2>4, <3>1, <3>2 DEF Result
  <2> QED
    BY <1>13, <2>5, <2>6
<1>14. CASE GiveFails(t) \/ ReturnLoan(t)
  <2>1. /\ sample' = sample /\ c.step = "loan"
        /\ d.took = c.took /\ d.loan = <<>> /\ d.out = c.out
        /\ \/ d.step = "error"
           \/ d.step = "round" /\ c.loan = <<>>
    <3>1. /\ sample' = sample /\ c.step = "loan"
          /\ \/ d = [c EXCEPT !.step = "error", !.loan = <<>>]
             \/ d = [c EXCEPT !.step = "round", !.loan = <<>>] /\ c.loan = <<>>
      BY <1>1, <1>14 DEF GiveFails, ReturnLoan, LoanDone
    <3> QED
      BY <1>1, <3>1 DEF TakerType
  <2>2. TakenFirst'
    BY <1>5, <2>1
  <2> HIDE DEF c, d, T, D
  <2> QED
    BY <1>4, <2>1, <2>2, Nothing DEF Result
<1>15. CASE Return(t)
  <2>1. sample' = sample /\ d = Free
    BY <1>1, <1>15 DEF Return
  <2>2. /\ Free.took = {} /\ Free.loan = <<>> /\ Free.out = <<>>
        /\ Free.step = "idle"
    BY DEF Free
  <2>3. TakenFirst'
    BY <1>5, <2>1
  <2> HIDE DEF d, T, D
  <2> QED
    BY <2>1, <2>2, <2>3, Nothing DEF Result
<1> QED
  BY <1>7, <1>8, <1>9, <1>10, <1>11, <1>12, <1>13, <1>14, <1>15 DEF TakeStep

\* The calls keep their results if what is taken out stays so and no data of it
\* changes.
LEMMA ResultsStay ==
  ASSUME ResultInv, TakenFirst', taker' = taker, Taken \subseteq Taken',
         HasData' \cap Taken = HasData \cap Taken
  PROVE  ResultInv'
<1>1. \A t \in Takers : Result(taker[t], Taken', HasData')
  BY ResultStays DEF ResultInv
<1> QED
  BY <1>1 DEF ResultInv

LEMMA ResultStep ==
  ASSUME TopicTypeOK, ResultInv, [TopicNext]_topicVars
  PROVE  ResultInv'
<1>0. TakenFirst
  BY DEF ResultInv
<1>1. ASSUME NEW n \in Nat, NEW r \in BOOLEAN, NEW v \in BOOLEAN,
             Arrives(Arriving(n, r, v)), taker' = taker
      PROVE  ResultInv'
  <2>1. OneMore(Arriving(n, r, v)) /\ Arriving(n, r, v).state = "unread"
    BY <1>1, ArrivingType, ArrivesAdds
  <2> QED
    BY <1>0, <1>1, <2>1, AddedTaken, ResultsStay
<1>2. ASSUME sample' = sample, taker' = taker
      PROVE  ResultInv'
  BY <1>2 DEF ResultInv, TakenFirst, Taken, HasData
<1>3. CASE StateChange
  BY <1>1, <1>3, FALSE \in BOOLEAN, 0 \in Nat DEF StateChange
<1>4. ASSUME NEW p \in Publishers, LoadNumber(p) \/ StoreNumber(p)
      PROVE  ResultInv'
  BY <1>2, <1>4 DEF LoadNumber, StoreNumber
<1>5. ASSUME NEW p \in Publishers, Write(p)
      PROVE  ResultInv'
  <2>1. publish[p].number \in Nat /\ publish[p].raced \in BOOLEAN
    BY DEF TopicTypeOK
  <2> QED
    BY <1>1, <1>2, <1>5, <2>1, TRUE \in BOOLEAN DEF Write
<1>6. ASSUME count_unread, taker' = taker
      PROVE  ResultInv'
  <2>1. /\ SameSamples
        /\ \A i \in DOMAIN sample :
             sample[i].state # "taken" => sample'[i].state # "taken"
    BY <1>6, CountReads
  <2>2. Taken' = Taken /\ HasData' = HasData /\ DOMAIN sample' = DOMAIN sample
    BY <2>1, SameTaken DEF SameSamples, Taken
  <2>3. TakenFirst'
    BY <1>0, <2>2 DEF TakenFirst
  <2> QED
    BY <1>6, <2>2, <2>3, ResultsStay
<1>7. CASE OnDataAvailable
  BY <1>2, <1>6, <1>7 DEF OnDataAvailable
<1>8. CASE CountForCallback
  BY <1>6, <1>8 DEF CountForCallback, CountedFirst
<1>9. CASE InstallCallback \/ RemoveCallback \/ EventSetter
  BY <1>2, <1>9 DEF InstallCallback, RemoveCallback, EventSetter
<1>10. ASSUME NEW t \in Takers, TakeStep(t)
       PROVE  ResultInv'
  <2>1. Result(taker'[t], Taken', HasData') /\ TakenFirst'
    BY <1>10, TakeStepResult
  <2>2. Taken \subseteq Taken' /\ HasData' = HasData
    BY <1>10, TakeStepKeeps, SameTaken
  <2>3. \A u \in Takers : u # t => Result(taker'[u], Taken', HasData')
    <3>1. \A u \in Takers : Result(taker[u], Taken', HasData')
      BY <2>2, ResultStays DEF ResultInv
    <3> QED
      BY <1>10, <3>1, TakeStepOthers
  <2>4. \A u \in Takers : Result(taker'[u], Taken', HasData')
    BY <2>1, <2>3
  <2> QED
    BY <2>1, <2>4 DEF ResultInv
<1>11. CASE UNCHANGED topicVars
  BY <1>2, <1>11 DEF topicVars
<1> QED
  BY <1>3, <1>4, <1>5, <1>7, <1>8, <1>9, <1>10, <1>11 DEF TopicNext, TakeStep

\* A take that succeeds has given every message with data that it took out of the
\* cache, once and in order, whatever arrives and whoever takes at the same time.
THEOREM SuccessHasEverything == TopicSpec => []SuccessLosesNothing
<1>1. TopicInit => ResultInv
  <2> SUFFICES ASSUME TopicInit PROVE ResultInv
    OBVIOUS
  <2>1. Taken = {} /\ TakenFirst
    BY DEF TopicInit, Taken, TakenFirst
  <2>2. /\ Free.took = {} /\ Free.loan = <<>> /\ Free.out = <<>>
        /\ Free.step = "idle"
    BY DEF Free
  <2>3. Result(Free, Taken, HasData)
    BY <2>1, <2>2, Nothing DEF Result
  <2> QED
    BY <2>1, <2>3 DEF TopicInit, ResultInv
<1>2. TopicTypeOK /\ ResultInv /\ [TopicNext]_topicVars => ResultInv'
  BY ResultStep
<1>3. TopicTypeOK /\ ResultInv => SuccessLosesNothing
  <2> SUFFICES ASSUME TopicTypeOK, ResultInv, NEW t \in Takers,
                      taker[t].step = "ok"
               PROVE  /\ Range(taker[t].out) =
                           {i \in taker[t].took : sample[i].valid}
                      /\ \A i, j \in DOMAIN taker[t].out :
                           i < j => taker[t].out[i] < taker[t].out[j]
    BY DEF SuccessLosesNothing
  <2>1. Result(taker[t], Taken, HasData)
    BY DEF ResultInv
  <2>2. /\ taker[t].took \subseteq DOMAIN sample
        /\ Items(taker[t].out) = taker[t].took \cap HasData
        /\ Increasing(taker[t].out)
    BY <2>1, Nothing DEF Result, Taken
  <2>3. taker[t].out \in Seq(Nat)
    BY LoanIsTaker DEF TakerType
  <2>4. Range(taker[t].out) = Items(taker[t].out)
        /\ DOMAIN taker[t].out = 1..Len(taker[t].out)
    BY <2>3, ItemsRange
  <2>5. taker[t].took \cap HasData = {i \in taker[t].took : sample[i].valid}
    BY <2>2 DEF HasData
  <2> QED
    BY <2>2, <2>4, <2>5 DEF Increasing
<1> QED
  BY <1>1, <1>2, <1>3, TopicTypeCorrect, PTL DEF TopicSpec
=============================================================================
