----------------------------- MODULE MCLifecycle -----------------------------
(* All eighteen exercises, each with as many threads, steps and rounds as in the code; only
   the factorial, of a number the user enters, is that of 3. *)
EXTENDS Lifecycle

MCPrograms == DOMAIN Script
=============================================================================
