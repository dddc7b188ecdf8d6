--------------------------- MODULE MCHttpServer ----------------------------
(***************************************************************************)
(* The instances of HttpServerWindows that TLC explores.                   *)
(***************************************************************************)
EXTENDS HttpServerWindows

CONSTANTS k1, k2   \* clients

TwoClients == {k1, k2}

Sizes      == {0, 2}
=============================================================================
