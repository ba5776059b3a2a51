---------------------------- MODULE MCServiceRpc ----------------------------
(* Instances of ServiceRpc for TLC.                                         *)
EXTENDS ServiceRpc

MCOneEach == [c \in Clients |-> 1]
MCTwoEach == [c \in Clients |-> 2]
=============================================================================
