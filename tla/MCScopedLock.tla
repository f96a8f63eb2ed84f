----------------------------- MODULE MCScopedLock -----------------------------
(* The transfers of main(), and five philosophers who eat twice. *)
EXTENDS ScopedLock

MCExercises == {DeadlockExercise, Dinner(5, 2)}
=============================================================================
