-------------------------- MODULE MCPriorityScheduler --------------------------
(* The submissions of main(): three at once, then one in the future. *)
EXTENDS PriorityScheduler

MCScript == << [priority |-> 0, delay |-> 0], [priority |-> 3, delay |-> 0],
               [priority |-> 2, delay |-> 0], [priority |-> 3, delay |-> 2] >>
=============================================================================
