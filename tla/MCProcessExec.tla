--------------------------- MODULE MCProcessExec ---------------------------
(***************************************************************************)
(* The instances of ProcessExec that TLC explores.                         *)
(***************************************************************************)
EXTENDS ProcessExec

CONSTANTS c1, c2   \* calls

AllCaptures == SUBSET Streams         \* process_exec called directly
OneStream   == {{}, {"out"}, {"err"}} \* run, run_quiet, capture_output
BothStreams == {{"out", "err"}}       \* run_command_via_exec

OneCall  == {c1}
TwoCalls == {c1, c2}

AnyFailure == Failures
NoRead     == Failures \ {"read"}
=============================================================================
