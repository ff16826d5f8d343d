------------------------------ MODULE MCHistories ------------------------------
(* Histories of two files, of which both do not fit the budget together.    *)
EXTENDS Histories

TwoFiles == "a" :> 2 @@ "b" :> 1
=============================================================================
