--------------------------- MODULE MCReadPassword ---------------------------
(***************************************************************************)
(* Three signals: one that ends the process when it is not caught, one     *)
(* that does not, and one beyond 32, for which readpassword installs no    *)
(* handler; at most two of them arrive.  The buffer has room for three     *)
(* characters, so that the three a user may type before Enter fill it.     *)
(***************************************************************************)
EXTENDS ReadPassword

MCSignals == {1, 2, 40}
MCHandled == {1, 2}
MCFatal == {1, 40}
=============================================================================
