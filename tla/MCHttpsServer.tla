--------------------------- MODULE MCHttpsServer ---------------------------
(***************************************************************************)
(* The instances of HttpsServerWindows that TLC explores.                  *)
(***************************************************************************)
EXTENDS HttpsServerWindows

CONSTANTS k1, k2   \* clients

TwoClients  == {k1, k2}

Sizes    == {Missing, 2, 3}
TwoSizes == {2, 3}

AllFailures == Failures
\* Without three of the five that are answered with a 500.
LoopFailures == Failures \ {"tell", "seek_set", "malloc"}
=============================================================================
