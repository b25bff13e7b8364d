----------------------------- MODULE MCUntilLoop -----------------------------
(* UntilLoop with one checkpoint of the user's beside the loop's own.        *)
EXTENDS UntilLoop
CONSTANTS user, loop
=============================================================================
