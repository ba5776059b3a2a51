------------------------- MODULE MCContextLifecycle -------------------------
(* Instances of ContextLifecycle for TLC.                                   *)
EXTENDS ContextLifecycle

\* Every step may fail.
MCAnyFailure == FailureKinds
\* Only the listener thread cannot be created (std::system_error).
MCNoThread == {"listener"}
=============================================================================
