----------------------------- MODULE MCSharedData -----------------------------
(* All ten exercises, the first of them in two forms, with three threads and three
   iterations. *)
EXTENDS SharedData
=============================================================================
