----------------------------- MODULE Simulator ------------------------------
(* The process (src/tools/tpu_sim.cpp): the terminal's loop on the main      *)
(* thread, the Shell, and the visualizer, which the Shell tells about every  *)
(* line and press through its observer and which calls the Shell for every   *)
(* press.                                                                    *)
EXTENDS Shell, VizServer

CONSTANT MaxSnapshots   \* bound: no more lines are typed after so many

ASSUME SnapshotAssumption ==
  /\ MaxSnapshots \in Nat
  /\ NoSnapshot \notin [file : Files \cup {NoFile}, cycle : Cycles]

vars == <<at, shellVars, serverVars>>

Init ==
  /\ ShellInit
  /\ ServerInit
  /\ at = [t \in Threads |-> IF t = Main THEN "set observer"
                             ELSE IF t = Accept THEN "accept loop"
                             ELSE "unborn"]

(* The observer, and the first publish of main(), which takes no lock.       *)
Capture(t) ==
  /\ at[t] = "capture"
  /\ held' = [held EXCEPT ![t] = tpu]
  /\ Goto(t, "publish")
  /\ UNCHANGED <<shellVars, lock, latest, version, handlers, workers, joining,
                 stopping, seen>>

(* The end of publish(): back into the Shell, or on to the terminal loop.    *)
Notify(t) ==
  /\ at[t] = "notify"
  /\ NotifyAll(t, IF mutex = t THEN "unlock shell" ELSE "prompt")
  /\ UNCHANGED <<shellVars, serverVars>>

(* The user types a line (the program named on the command line is one) or   *)
(* ends the input.                                                           *)
TypeLine ==
  /\ at[Main] = "prompt"
  /\ version < MaxSnapshots
  /\ Goto(Main, "lock shell")
  /\ UNCHANGED <<shellVars, serverVars>>

EndOfInput ==
  /\ at[Main] = "prompt"
  /\ Goto(Main, "stop")
  /\ UNCHANGED <<shellVars, serverVars>>

(* What thread t does by itself.                                             *)
Step(t) ==
  \/ ShellStep(t) /\ UNCHANGED serverVars
  \/ ServerStep(t) /\ UNCHANGED shellVars
  \/ Capture(t)
  \/ Notify(t)

Next ==
  \/ \E t \in Threads : Step(t)
  \/ \E c \in Clients : Connect(c) /\ UNCHANGED shellVars
  \/ TypeLine
  \/ EndOfInput

Spec == Init /\ [][Next]_vars

(* Every thread is scheduled, and gets a mutex it asks for again and again:  *)
(* SF, because another thread may have it each time it is looked at. Sockets *)
(* time out, so reads and sends end. The user and the browser owe nothing.   *)
FairSpec == Spec /\ \A t \in Threads : SF_vars(Step(t))

-----------------------------------------------------------------------------
(* Properties                                                                *)

Snapshots == [file : Files \cup {NoFile}, cycle : Cycles]

Places ==
  {"set observer", "set move", "set jump", "prompt", "lock shell", "run",
   "tick", "capture", "publish", "notify", "unlock shell", "accept loop",
   "poll", "spawn", "unborn", "accepted", "read", "press", "data", "reply",
   "stream", "falling asleep", "waiting", "timed out", "send", "stop",
   "notify stop", "join accept", "swap", "join workers", "gone"}

TypeOK ==
  /\ at \in [Threads -> Places]
  /\ mutex \in Threads \cup {Free}
  /\ tpu \in Snapshots
  /\ target \in Cycles
  /\ quit \in BOOLEAN /\ observer \in BOOLEAN /\ stopping \in BOOLEAN
  /\ lock \in Threads \cup {Free}
  /\ latest \in Snapshots \cup {NoSnapshot}
  /\ version \in Nat
  /\ handlers \subseteq {"move", "jump"}
  /\ workers \subseteq Clients /\ joining \subseteq Clients
  /\ seen \in [Clients -> Nat]
  /\ held \in [Threads -> Snapshots \cup {NoSnapshot}]

(* Whenever no line or press is being carried out, the latest snapshot, which*)
(* /events and /rows serve, is the machine as it is: no press is lost and no *)
(* older snapshot overtakes a newer one (shell.cpp:44-51, 62-74).            *)
LatestIsTheMachine == mutex = Free /\ version > 0 => latest = tpu

(* The machine does not change while a thread is reading it for a snapshot,  *)
(* which main() does without the Shell's mutex at the start (tpu_sim.cpp:67).*)
MachineIsReadAlone ==
  [][\A t \in Threads :
       at[t] \in {"capture", "publish"} /\ at'[t] \in {"capture", "publish"}
         => UNCHANGED tpu]_vars

(* When ~VizServer returns, no thread is left that could use the server, the *)
(* Shell or the machine, which main() destroys next.                         *)
NoThreadOutlives ==
  at[Main] = "gone" =>
    \A t \in Threads \ {Main} : at[t] \in {"unborn", "gone"}

(* A page that stays is shown the machine as it is in the end, however       *)
(* publishes fall between its checks, waits and sends (server.cpp:358-383).  *)
Streaming(c) ==
  at[c] \in {"stream", "falling asleep", "waiting", "timed out", "send"}
PagesCatchUp ==
  \A c \in Clients : <>[]Streaming(c) => <>[](held[c] = latest)

(* Every press is answered, whatever the terminal and other pages do: the    *)
(* two mutexes are never taken in opposite orders (server.cpp:328-355).      *)
PressesAreAnswered == \A c \in Clients : at[c] = "press" ~> at[c] = "gone"

(* Shutting down ends, although stopping_ is set without the mutex and a     *)
(* stream on its way to sleep misses the notification (server.cpp:178-194).  *)
ShutdownEnds == stopping ~> at[Main] = "gone"
=============================================================================
