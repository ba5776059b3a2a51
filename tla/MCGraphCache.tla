---------------------------- MODULE MCGraphCache ----------------------------
(* Instances of GraphCache for TLC.                                         *)
EXTENDS GraphCache
CONSTANTS p1, p2, pub, sub, srv

\* One participant has all the handles, or all but the subscription.
MCOneOwner == [h \in Handles |-> p1]
MCTwoOwners == [h \in Handles |-> IF h = sub THEN p2 ELSE p1]
MCKind == [h \in Handles |-> CASE h = pub -> "pub" [] h = sub -> "sub" [] OTHER -> "srv"]
=============================================================================
