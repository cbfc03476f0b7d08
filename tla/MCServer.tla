------------------------------ MODULE MCServer ------------------------------
(* Model-checking instance of Server. *)
EXTENDS Server, TLC

\* An event of the first session can hold the registry while the second is added.
MCLines == "s1" :> 2 @@ "s2" :> 1
=============================================================================
