----------------------------- MODULE MCSession -----------------------------
(* A client every call of which may fail.                                     *)
EXTENDS Session

AnyCall == Calls
=============================================================================
