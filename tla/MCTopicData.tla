---------------------------- MODULE MCTopicData ----------------------------
(* Instances of TopicData for TLC: <<count, capacity>> of the calls of         *)
(* rmw_take_sequence, with too little room to be accepted, just as much as     *)
(* asked for, and more; publishing threads that may be exchanged.              *)
EXTENDS TopicData, FiniteSets, TLC

MCSequences == {<<2, 1>>, <<1, 1>>, <<2, 2>>, <<2, 3>>}
MCExactRoom == {<<2, 2>>}
MCThreads == Permutations(Publishers)

\* The number of a sample has no influence on takes and callbacks: threads that
\* race for a number, and numbers left out by writes that fail, are followed only
\* while the reader is idle.
MCMessages == Cardinality({i \in DOMAIN sample : sample[i].valid})
MCNumbersFollow ==
  /\ Cardinality({p \in Publishers : publish[p].step # "idle"}) <= 1
  /\ \A p \in Publishers : ~publish[p].raced
  /\ sequence_number <= MCMessages + 1
  /\ \A i \in DOMAIN sample : ~sample[i].raced /\ sample[i].number <= MCMessages
MCReaderIdle ==
  /\ \A t \in Takers : taker[t] = Free
  /\ setter = "idle" /\ ~callback /\ ~installed
  /\ \A i \in DOMAIN sample : sample[i].valid /\ sample[i].state = "unread"
\* Four samples, which a call that asks for two with room for three needs to overrun,
\* are followed without a callback and for that call.
MCFourth ==
  Len(sample) = 4 =>
    /\ setter = "idle" /\ ~callback /\ ~installed /\ ~pending
    /\ \A p \in Publishers : publish[p] = Idle
    /\ \A t \in Takers : taker[t].step \in {"round", "loan", "overrun"} /\ taker[t].capacity = 3
MCTogether == (MCNumbersFollow \/ MCReaderIdle) /\ MCFourth
=============================================================================
