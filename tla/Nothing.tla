------------------------------- MODULE Nothing -------------------------------
(* The value None of Python and NULL of SQL, which the modules share.       *)
CONSTANT None
=============================================================================
