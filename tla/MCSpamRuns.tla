----------------------------- MODULE MCSpamRuns -----------------------------
(* Model-checking instances of SpamRuns. *)
EXTENDS SpamRuns
=============================================================================
