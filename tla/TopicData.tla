----------------------------- MODULE TopicData -----------------------------
(***************************************************************************)
(* The messages of one topic, from a publisher to a subscription           *)
(* (rmw_publisher.cpp, rmw_subscription.cpp): threads publish through one  *)
(* publisher, DDS adds what arrives to the reader's cache, threads take    *)
(* from it through rmw_take, rmw_take_serialized_message and               *)
(* rmw_take_sequence, and the new-message callback is told how many        *)
(* samples arrived that it has not been told of.                           *)
(*                                                                         *)
(* DDS is external.  Its writer and reader are reliable and keep all       *)
(* samples, so that a sample arrives when its write succeeds and stays in  *)
(* the cache until it is taken; samples without data (valid_data is FALSE) *)
(* arrive when the state of the instance changes.  A call of DDS may fail. *)
(* A sample is named by its place in the order of arrival.                 *)
(***************************************************************************)
EXTENDS Integers, Sequences, Functions

CONSTANTS Publishers,   \* the threads that publish through the publisher
          Takers,       \* the threads that take from the subscription
          SequenceCalls,   \* <<count, capacity>> of the calls of rmw_take_sequence
          MaxNumber,    \* bound on the numbers used
          MaxSamples    \* bound on the samples that arrive

ASSUME TopicDataAssumption ==
  /\ SequenceCalls \subseteq (Nat \X Nat)
  /\ MaxNumber \in Nat
  /\ MaxSamples \in Nat

VARIABLES
  sequence_number,   \* the field of the publisher
  publish,           \* where each publishing thread is
  sample,            \* DDS: the samples that arrived, in their order
  installed,         \* DDS: the listener of the reader has DATA_AVAILABLE
  pending,           \* DDS: on_data_available is about to run
  callback,          \* event_callback_data.callback is set
  setter,            \* where rmw_subscription_set_on_new_message_callback is
  taker              \* where each taking thread is

publisherVars == <<sequence_number, publish>>
listenerVars == <<installed, pending, callback, setter>>
topicVars == <<publisherVars, sample, listenerVars, taker>>

\* raced is history: another thread was between the load and the store of
\* sequence_number while this one was.
Idle == [step |-> "idle", number |-> 0, raced |-> FALSE]

\* took is history: the samples the call took out of the cache.
Free == [step |-> "idle", count |-> 0, capacity |-> 0, loan |-> <<>>,
         took |-> {}, out |-> <<>>]

\* missed is history: the sample arrived while there was no listener for it, after
\* the count of a callback or with a callback set, or the read that should have
\* counted it failed.
Arriving(number, raced, valid) ==
  [number |-> number, raced |-> raced, valid |-> valid, state |-> "unread",
   missed |-> ~installed /\ (setter = "counted" \/ callback)]

TopicInit ==
  /\ sequence_number = 0
  /\ publish = [p \in Publishers |-> Idle]
  /\ sample = <<>>
  /\ installed = FALSE
  /\ pending = FALSE
  /\ callback = FALSE
  /\ setter = "idle"
  /\ taker = [t \in Takers |-> Free]

-----------------------------------------------------------------------------
\* External: a sample enters the reader's cache and its listener is called.
Arrives(s) ==
  /\ Len(sample) < MaxSamples
  /\ sample' = Append(sample, s)
  /\ pending' = (pending \/ installed)
  /\ UNCHANGED <<installed, callback, setter>>

\* External: the state of the instance changes (its writer is gone or back).
StateChange ==
  /\ Arrives(Arriving(0, FALSE, FALSE))
  /\ UNCHANGED <<publisherVars, taker>>

-----------------------------------------------------------------------------
\* publish: the load of ++sequence_number.
LoadNumber(p) ==
  LET loaded == {q \in Publishers : publish[q].step = "loaded"}
  IN  /\ publish[p].step = "idle"
      /\ sequence_number < MaxNumber
      /\ publish' = [q \in Publishers |->
                       IF q = p
                       THEN [step |-> "loaded", number |-> sequence_number,
                             raced |-> loaded # {}]
                       ELSE [publish[q] EXCEPT !.raced = @ \/ q \in loaded]]
      /\ UNCHANGED <<sequence_number, sample, listenerVars, taker>>

\* ... and its store; mutant: the number is computed and not stored.
NotStored(p) == sequence_number
Stored(p) == publish[p].number + 1
StoreNumber(p) ==
  /\ publish[p].step = "loaded"
  /\ sequence_number' = Stored(p)
  /\ publish' = [publish EXCEPT ![p].step = "numbered", ![p].number = @ + 1]
  /\ UNCHANGED <<sample, listenerVars, taker>>

\* dds_DataWriter_write_w_sampleinfoex, and raw_write of
\* rmw_publish_serialized_message: the sample carries the number, or the call
\* fails and the number is not used again.
Write(p) ==
  /\ publish[p].step = "numbered"
  /\ \/ Arrives(Arriving(publish[p].number, publish[p].raced, TRUE))
     \/ UNCHANGED <<sample, listenerVars>>
  /\ publish' = [publish EXCEPT ![p] = Idle]
  /\ UNCHANGED <<sequence_number, taker>>

-----------------------------------------------------------------------------
\* count_unread: raw_read marks the unread samples, valid or not, as read; when
\* it fails they stay unread and the count is 0.
Unread == {i \in DOMAIN sample : sample[i].state = "unread"}
AllRead ==
  [i \in DOMAIN sample |->
     IF i \in Unread THEN [sample[i] EXCEPT !.state = "read"] ELSE sample[i]]
ReadFailed ==
  [i \in DOMAIN sample |->
     IF i \in Unread THEN [sample[i] EXCEPT !.missed = TRUE] ELSE sample[i]]
count_unread == sample' \in {AllRead, ReadFailed}

\* SubscriberInfo::on_data_available: under the callback's mutex, the callback
\* is called with the number of the unread samples.
OnDataAvailable ==
  /\ pending
  /\ setter = "idle"
  /\ pending' = FALSE
  /\ IF callback THEN count_unread ELSE UNCHANGED sample
  /\ UNCHANGED <<publisherVars, installed, callback, setter, taker>>

\* rmw_subscription_set_on_new_message_callback with a callback, which is
\* called with the number of the unread samples; mutant: it is not.
NotCounted == UNCHANGED sample
CountedFirst == count_unread
CountForCallback ==
  /\ setter = "idle"
  /\ CountedFirst
  /\ setter' = "counted"
  /\ UNCHANGED <<publisherVars, installed, pending, callback, taker>>

\* The callback is set, the bit enters the mask, and dds_DataReader_set_listener
\* installs it or fails.
InstallCallback ==
  /\ setter = "counted"
  /\ setter' = "idle"
  /\ callback' = TRUE
  /\ installed' \in {TRUE, installed}
  /\ UNCHANGED <<publisherVars, sample, pending, taker>>

\* ... without a callback.
RemoveCallback ==
  /\ setter = "idle"
  /\ callback' = FALSE
  /\ installed' \in {FALSE, installed}
  /\ UNCHANGED <<publisherVars, sample, pending, setter, taker>>

\* The set_listener call of an event's setter (event_info_common.cpp) installs its
\* copy of the mask, which has the bit or not: EventInfo says when.
EventSetter ==
  /\ installed' \in BOOLEAN
  /\ UNCHANGED <<publisherVars, sample, pending, callback, setter, taker>>

-----------------------------------------------------------------------------
\* External: the loans a take of at most n samples may return, the first ones in
\* the cache.
Cached == {i \in DOMAIN sample : sample[i].state # "taken"}
Loans(n) ==
  {l \in UNION {[1..k -> Cached] : k \in 1..n} :
     /\ \A i, j \in DOMAIN l : i < j => l[i] < l[j]
     /\ \A c \in Cached \ Range(l) : Len(l) = n /\ \A i \in DOMAIN l : l[i] < c}

TakenOut(l) ==
  [i \in DOMAIN sample |->
     IF i \in Range(l) THEN [sample[i] EXCEPT !.state = "taken"] ELSE sample[i]]

\* What one sample gives a message: nothing if it has no data.
WithData(l) == IF sample[l[1]].valid THEN l ELSE <<>>

Ends(t, step) == taker' = [taker EXCEPT ![t] = [@ EXCEPT !.step = step]]
UnchangedByTake == UNCHANGED <<publisherVars, listenerVars>>

\* take: dds_DataReader_take_next_sample_w_info_ex gives a sample, which counts
\* as taken if it has data, or has none, or fails.
Take(t) ==
  /\ taker[t].step = "idle"
  /\ \/ \E l \in Loans(1) :
          /\ sample' = TakenOut(l)
          /\ taker' = [taker EXCEPT ![t] =
                         [@ EXCEPT !.step = "ok", !.took = Range(l),
                                   !.out = WithData(l)]]
     \/ /\ Cached = {}
        /\ Ends(t, "ok")
        /\ UNCHANGED sample
     \/ /\ Ends(t, "error")
        /\ UNCHANGED sample
  /\ UnchangedByTake

\* take_serialized, up to dds_DataReader_raw_take_w_sampleinfoex of one sample.
TakeSerialized(t) ==
  /\ taker[t].step = "idle"
  /\ \/ \E l \in Loans(1) :
          /\ sample' = TakenOut(l)
          /\ taker' = [taker EXCEPT ![t] =
                         [@ EXCEPT !.step = "serialized", !.loan = l,
                                   !.took = Range(l)]]
     \/ /\ Cached = {}
        /\ Ends(t, "ok")
        /\ UNCHANGED sample
     \/ /\ Ends(t, "error")
        /\ UNCHANGED sample
  /\ UnchangedByTake

\* The sample is copied to the message, unless it has no data, is null, or the
\* message cannot be resized; the loan is returned.
CopySerialized(t) ==
  /\ taker[t].step = "serialized"
  /\ \/ taker' = [taker EXCEPT ![t] =
                    [@ EXCEPT !.step = "ok", !.loan = <<>>,
                              !.out = WithData(taker[t].loan)]]
     \/ /\ sample[taker[t].loan[1]].valid
        /\ taker' = [taker EXCEPT ![t] =
                       [@ EXCEPT !.step = "error", !.loan = <<>>]]
  /\ UNCHANGED sample
  /\ UnchangedByTake

\* rmw_take_sequence, up to its loop.
TakeSequence(t, count, capacity) ==
  /\ taker[t].step = "idle"
  /\ taker' = [taker EXCEPT ![t] =
                 [@ EXCEPT !.step = IF count = 0 \/ capacity < count
                                    THEN "error" ELSE "round",
                           !.count = count, !.capacity = capacity]]
  /\ UNCHANGED sample
  /\ UnchangedByTake

\* while (*taken < count); mutant: while (*taken <= count).
WantsMoreThanCount(t) == Len(taker[t].out) <= taker[t].count
WantsMore(t) == Len(taker[t].out) < taker[t].count

\* A round asks for count samples, whatever was taken before.
TakeRound(t) ==
  /\ taker[t].step = "round"
  /\ WantsMore(t)
  /\ \E l \in Loans(taker[t].count) :
       /\ sample' = TakenOut(l)
       /\ taker' = [taker EXCEPT ![t] =
                      [@ EXCEPT !.step = "loan", !.loan = l,
                                !.took = taker[t].took \cup Range(l)]]
  /\ UnchangedByTake

\* A round that fails: what the rounds before gave is not counted.
RoundFails(t) ==
  /\ taker[t].step = "round"
  /\ WantsMore(t)
  /\ Ends(t, "error")
  /\ UNCHANGED sample
  /\ UnchangedByTake

\* The loop ends with enough samples, or in a round that finds none: the sizes of
\* the sequences become *taken.
EndSequence(t) ==
  /\ taker[t].step = "round"
  /\ ~WantsMore(t) \/ Cached = {}
  /\ Ends(t, "ok")
  /\ UNCHANGED sample
  /\ UnchangedByTake

\* The loop over a loan goes on to its end; mutant: it ends when count samples
\* have been given.
EndsAtCount(t) ==
  taker[t].loan = <<>> \/ Len(taker[t].out) >= taker[t].count
LoanDone(t) == taker[t].loan = <<>>

\* A sample without data is passed over.
SkipSample(t) ==
  /\ taker[t].step = "loan"
  /\ ~LoanDone(t)
  /\ ~sample[Head(taker[t].loan)].valid
  /\ taker' = [taker EXCEPT ![t] = [@ EXCEPT !.loan = Tail(taker[t].loan)]]
  /\ UNCHANGED sample
  /\ UnchangedByTake

\* A sample is deserialized into message_sequence->data[*taken].
GiveSample(t) ==
  /\ taker[t].step = "loan"
  /\ ~LoanDone(t)
  /\ sample[Head(taker[t].loan)].valid
  /\ Len(taker[t].out) < taker[t].capacity
  /\ taker' = [taker EXCEPT ![t] =
                 [@ EXCEPT !.out = Append(taker[t].out, Head(taker[t].loan)),
                           !.loan = Tail(taker[t].loan)]]
  /\ UNCHANGED sample
  /\ UnchangedByTake

\* ... or beyond its last element: what follows is undefined, and this thread is
\* not followed any further.
Overrun(t) ==
  /\ taker[t].step = "loan"
  /\ ~LoanDone(t)
  /\ sample[Head(taker[t].loan)].valid
  /\ Len(taker[t].out) >= taker[t].capacity
  /\ Ends(t, "overrun")
  /\ UNCHANGED sample
  /\ UnchangedByTake

\* A sample that is null or cannot be deserialized ends the call.
GiveFails(t) ==
  /\ taker[t].step = "loan"
  /\ ~LoanDone(t)
  /\ sample[Head(taker[t].loan)].valid
  /\ taker' = [taker EXCEPT ![t] =
                 [@ EXCEPT !.step = "error", !.loan = <<>>]]
  /\ UNCHANGED sample
  /\ UnchangedByTake

\* dds_DataReader_raw_return_loan, and the next round.
ReturnLoan(t) ==
  /\ taker[t].step = "loan"
  /\ LoanDone(t)
  /\ taker' = [taker EXCEPT ![t] =
                 [@ EXCEPT !.step = "round", !.loan = <<>>]]
  /\ UNCHANGED sample
  /\ UnchangedByTake

\* The application has the result, and the thread may call again.
Return(t) ==
  /\ taker[t].step \in {"ok", "error"}
  /\ taker' = [taker EXCEPT ![t] = Free]
  /\ UNCHANGED sample
  /\ UnchangedByTake

-----------------------------------------------------------------------------
TopicNext ==
  \/ StateChange
  \/ \E p \in Publishers : LoadNumber(p) \/ StoreNumber(p) \/ Write(p)
  \/ OnDataAvailable
  \/ CountForCallback
  \/ InstallCallback
  \/ RemoveCallback
  \/ EventSetter
  \/ \E t \in Takers :
       \/ Take(t)
       \/ TakeSerialized(t)
       \/ CopySerialized(t)
       \/ \E c \in SequenceCalls : TakeSequence(t, c[1], c[2])
       \/ TakeRound(t)
       \/ RoundFails(t)
       \/ EndSequence(t)
       \/ SkipSample(t)
       \/ GiveSample(t)
       \/ Overrun(t)
       \/ GiveFails(t)
       \/ ReturnLoan(t)
       \/ Return(t)

TopicSpec == TopicInit /\ [][TopicNext]_topicVars

-----------------------------------------------------------------------------
PublishSteps == {"idle", "loaded", "numbered"}
TakeSteps ==
  {"idle", "serialized", "round", "loan", "overrun", "ok", "error"}
Samples == [number : Nat, raced : BOOLEAN, valid : BOOLEAN,
            state : {"unread", "read", "taken"}, missed : BOOLEAN]

TopicTypeOK ==
  /\ sequence_number \in Nat
  /\ publish \in
       [Publishers -> [step : PublishSteps, number : Nat, raced : BOOLEAN]]
  /\ sample \in Seq(Samples)
  /\ installed \in BOOLEAN
  /\ pending \in BOOLEAN
  /\ callback \in BOOLEAN
  /\ setter \in {"idle", "counted"}
  /\ taker \in
       [Takers -> [step : TakeSteps, count : Nat, capacity : Nat,
                   loan : Seq(Nat), took : SUBSET Nat, out : Seq(Nat)]]

\* Two messages of a publisher carry the same number only if one of the calls
\* incremented it while another thread did: a failed write does not give its
\* number to the next message, and threads that take turns do not share one.
UnracedNumbersDiffer ==
  \A i, j \in DOMAIN sample :
    /\ i # j
    /\ sample[i].valid /\ sample[j].valid
    /\ ~sample[i].raced /\ ~sample[j].raced
    => sample[i].number # sample[j].number

\* With a callback whose listener is installed and has nothing left to do, the
\* samples it was not told of are those that came while the listener was not
\* installed, though the callback was counted for or set (the window of a first
\* installation, a set_listener that failed, an event's setter with an older mask),
\* or whose read failed: no message waits untold because a callback was replaced,
\* removed and set again, or because its listener ran late.
UntoldOnlyInWindow ==
  callback /\ installed /\ ~pending /\ setter = "idle" =>
    \A i \in Unread : sample[i].missed

\* A take that succeeds has handed over every message with data that it took out
\* of the cache, once and in their order, though it may have taken more than it
\* was asked for.
SuccessLosesNothing ==
  \A t \in Takers :
    taker[t].step = "ok" =>
      /\ Range(taker[t].out) = {i \in taker[t].took : sample[i].valid}
      /\ \A i, j \in DOMAIN taker[t].out :
           i < j => taker[t].out[i] < taker[t].out[j]

\* rmw_take_sequence accepts a sequence with room for count messages and may give
\* more, but never more than 2 * count - 1: a caller with that much room is safe.
TwiceTheRoomIsEnough ==
  \A t \in Takers :
    taker[t].step = "overrun" => taker[t].capacity < 2 * taker[t].count - 1

\* What rmw_take_sequence says of its arguments: a capacity of count is
\* sufficient.
CapacityIsSufficient == \A t \in Takers : taker[t].step # "overrun"
=============================================================================
