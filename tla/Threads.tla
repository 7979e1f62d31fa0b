------------------------------ MODULE Threads -------------------------------
(* The threads of the simulator process (src/tools/tpu_sim.cpp): the main    *)
(* thread, the visualizer's accept thread and one thread per connection.     *)
(* What a thread does next is the place it is at.                            *)
EXTENDS Integers

CONSTANTS Main, Accept, Clients,
          Free   \* who has a mutex that nobody has

ASSUME ThreadAssumption ==
  /\ Main # Accept /\ Main \notin Clients /\ Accept \notin Clients
  /\ Free \notin {Main, Accept} \cup Clients

VARIABLE at   \* thread -> its place

Threads == {Main, Accept} \cup Clients

Goto(t, place) == at' = [at EXCEPT ![t] = place]
=============================================================================
