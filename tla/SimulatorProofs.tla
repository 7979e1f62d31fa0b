--------------------------- MODULE SimulatorProofs --------------------------
(* The process of module Simulator, for any number of connections and any    *)
(* programs: types, who has the Shell's mutex, what has been published, who  *)
(* is still running at the end.                                              *)
EXTENDS Simulator, TLAPS

(* Which thread can be where.                                                *)
MainPlaces ==
  {"set observer", "set move", "set jump", "prompt", "lock shell", "run",
   "capture", "publish", "notify", "unlock shell", "stop", "notify stop",
   "join accept", "swap", "join workers", "gone"}
AcceptPlaces == {"accept loop", "poll", "spawn", "gone"}
ClientPlaces ==
  {"unborn", "accepted", "read", "press", "data", "reply", "stream",
   "falling asleep", "waiting", "timed out", "send", "lock shell", "run",
   "tick", "capture", "publish", "notify", "unlock shell", "gone"}

Placed ==
  /\ at[Main] \in MainPlaces
  /\ at[Accept] \in AcceptPlaces
  /\ \A c \in Clients : at[c] \in ClientPlaces

AtInv == at \in [Threads -> Places] /\ Placed

EarlyPlaces == {"set observer", "set move", "set jump"}

(* Inside the Shell: with its mutex, except that main() captures and         *)
(* publishes once without.                                                   *)
Inside == ShellPlaces \cup {"capture", "publish", "notify"}

LockInv ==
  /\ mutex \in Threads \cup {Free}
  /\ mutex # Free => at[mutex] \in Inside
  /\ \A t \in Threads : at[t] \in ShellPlaces => mutex = t
  /\ \A c \in Clients : at[c] \in Inside => mutex = c

(* Nothing is loaded before main() is through with its first snapshot, and   *)
(* no press comes before the observer is set.                                *)
EarlyMachine ==
  /\ at[Main] \in EarlyPlaces => tpu.file = NoFile
  /\ at[Main] \in {"capture", "publish", "notify"} /\ mutex # Main
       => tpu.file = NoFile

MovesLoaded == \A c \in Clients : at[c] = "tick" => tpu.file # NoFile

ObserverFirst ==
  observer \/ /\ at[Main] = "set observer"
              /\ handlers = {}
              /\ \A c \in Clients :
                   at[c] # "lock shell" /\ at[c] \notin Inside

StartInv == EarlyMachine /\ MovesLoaded /\ ObserverFirst

PublishedInv ==
  /\ \A t \in Threads : at[t] = "publish" => held[t] = tpu
  /\ version > 0 /\ (mutex # Free => at[mutex] \in {"notify", "unlock shell"})
       => latest = tpu

DataOK ==
  /\ tpu \in Snapshots
  /\ target \in Cycles
  /\ quit \in BOOLEAN /\ observer \in BOOLEAN /\ stopping \in BOOLEAN
  /\ lock \in Threads \cup {Free}
  /\ latest \in Snapshots \cup {NoSnapshot}
  /\ version \in Nat
  /\ handlers \subseteq {"move", "jump"}
  /\ workers \subseteq Clients /\ joining \subseteq Clients
  /\ seen \in [Clients -> Nat]
  /\ held \in [Threads -> Snapshots \cup {NoSnapshot}]

(* Whoever was born will be joined: it is in client_threads_ until           *)
(* ~VizServer takes it from there, which it does when no more can come.      *)
Last == {"swap", "join workers", "gone"}

JoinInv ==
  /\ \A c \in Clients : at[c] = "accepted" => at[Accept] = "spawn"
  /\ \A c, d \in Clients : at[c] = "accepted" /\ at[d] = "accepted" => c = d
  /\ \A c \in Clients :
       at[c] \notin {"unborn", "accepted"} => c \in workers \cup joining
  /\ at[Main] \in Last => at[Accept] = "gone"
  /\ at[Main] = "join workers" => workers = {}
  /\ at[Main] \notin {"join workers", "gone"} => joining = {}
  /\ at[Main] = "gone" => \A c \in Clients : at[c] \in {"unborn", "gone"}

(* The places that are right for a thread, and what going to one keeps.      *)
PlacesOf(t) ==
  IF t = Main THEN MainPlaces
  ELSE IF t = Accept THEN AcceptPlaces ELSE ClientPlaces

LEMMA GotoTypes ==
  ASSUME AtInv, NEW t \in Threads, NEW place \in PlacesOf(t), Goto(t, place)
  PROVE  AtInv'
  BY ThreadAssumption
     DEF AtInv, Placed, PlacesOf, Threads, Goto, Places, MainPlaces,
         AcceptPlaces, ClientPlaces

LEMMA WhoIsWhere ==
  ASSUME AtInv, NEW t \in Threads
  PROVE  at[t] \in PlacesOf(t)
  BY ThreadAssumption DEF AtInv, Placed, PlacesOf, Threads

LEMMA ToObserverTypes ==
  ASSUME AtInv, NEW t \in Threads, at[t] \in {"run", "tick"}, ToObserver(t)
  PROVE  AtInv'
<1>1. t # Accept
  BY WhoIsWhere, ThreadAssumption DEF PlacesOf, AcceptPlaces
<1>2. (IF observer THEN "capture" ELSE "unlock shell") \in PlacesOf(t)
  BY <1>1 DEF PlacesOf, MainPlaces, ClientPlaces
<1> QED BY <1>2, GotoTypes DEF ToObserver

-----------------------------------------------------------------------------
(* A step leaves every thread at a place of its own.                         *)

LEMMA ShellPlaced ==
  ASSUME AtInv, NEW t \in Threads, ShellStep(t)
  PROVE  AtInv'
<1>1. at[t] \in PlacesOf(t)
  BY WhoIsWhere
<1>2. t \in Clients \/ t = Main \/ t = Accept
  BY DEF Threads
<1> USE <1>1, <1>2, GotoTypes, ThreadAssumption
    DEF PlacesOf, MainPlaces, AcceptPlaces, ClientPlaces
<1>3. CASE SetObserver(t)  BY <1>3 DEF SetObserver
<1>4. CASE LockShell(t)    BY <1>4 DEF LockShell
<1>5. CASE UnlockShell(t)  BY <1>5 DEF UnlockShell
<1>6. CASE LoadFile(t)     BY <1>6, ToObserverTypes DEF LoadFile
<1>7. CASE RejectLine(t)   BY <1>7, ToObserverTypes DEF RejectLine
<1>8. CASE Quit(t)         BY <1>8, ToObserverTypes DEF Quit
<1>9. CASE RejectPress(t)  BY <1>9, ToObserverTypes DEF RejectPress
<1>10. CASE Move(t)        BY <1>10 DEF Move
<1>11. CASE Tick(t)
  <2>1. CASE ToObserver(t) BY <1>11, <2>1, ToObserverTypes DEF Tick
  <2>2. CASE UNCHANGED at  BY <2>2 DEF AtInv, Placed
  <2> QED BY <1>11, <2>1, <2>2 DEF Tick
<1> QED BY <1>3, <1>4, <1>5, <1>6, <1>7, <1>8, <1>9, <1>10, <1>11
        DEF ShellStep

LEMMA ServerPlaced ==
  ASSUME AtInv, NEW t \in Threads, ServerStep(t)
  PROVE  AtInv'
<1>1. at[t] \in PlacesOf(t)
  BY WhoIsWhere
<1>2. t \in Clients \/ t = Main \/ t = Accept
  BY DEF Threads
<1> USE <1>1, <1>2, GotoTypes, ThreadAssumption
    DEF PlacesOf, MainPlaces, AcceptPlaces, ClientPlaces
<1>3. CASE Publish(t)       BY <1>3 DEF Publish
<1>4. CASE SetHandler(t)    BY <1>4 DEF SetHandler
<1>5. CASE AcceptTop(t)     BY <1>5 DEF AcceptTop
<1>6. CASE PollTimesOut(t)  BY <1>6 DEF PollTimesOut
<1>7. CASE Spawn(t)
  <2>1. PICK c \in Clients :
          /\ t = Accept
          /\ at' = [at EXCEPT ![c] = "read", ![t] = "accept loop"]
    BY <1>7 DEF Spawn
  <2> QED BY <2>1 DEF AtInv, Placed, Places, Threads
<1>8. CASE ReadRequest(t)   BY <1>8 DEF ReadRequest
<1>9. CASE CopyHandler(t)   BY <1>9 DEF CopyHandler
<1>10. CASE CopyState(t)    BY <1>10 DEF CopyState
<1>11. CASE Reply(t)        BY <1>11 DEF Reply
<1>12. CASE CheckNews(t)    BY <1>12 DEF CheckNews
<1>13. CASE Wait(t)         BY <1>13 DEF Wait
<1>14. CASE WaitTimesOut(t) BY <1>14 DEF WaitTimesOut
<1>15. CASE CheckAfterTimeout(t) BY <1>15 DEF CheckAfterTimeout
<1>16. CASE Send(t)         BY <1>16 DEF Send
<1>17. CASE Stop(t)         BY <1>17 DEF Stop
<1>18. CASE NotifyStop(t)
  BY <1>18 DEF NotifyStop, NotifyAll, Waiting, AtInv, Placed, Places, Threads
<1>19. CASE JoinAccept(t)   BY <1>19 DEF JoinAccept
<1>20. CASE SwapWorkers(t)  BY <1>20 DEF SwapWorkers
<1>21. CASE JoinWorkers(t)  BY <1>21 DEF JoinWorkers
<1> QED BY <1>3, <1>4, <1>5, <1>6, <1>7, <1>8, <1>9, <1>10, <1>11, <1>12,
           <1>13, <1>14, <1>15, <1>16, <1>17, <1>18, <1>19, <1>20, <1>21
        DEF ServerStep

LEMMA NextPlaced ==
  ASSUME AtInv, LockInv, [Next]_vars
  PROVE  AtInv'
<1>1. ASSUME NEW t \in Threads, Step(t) PROVE AtInv'
  <2>1. at[t] \in PlacesOf(t)
    BY WhoIsWhere
  <2> USE ThreadAssumption
      DEF PlacesOf, MainPlaces, AcceptPlaces, ClientPlaces
  <2>2. CASE ShellStep(t)  BY <2>2, ShellPlaced
  <2>3. CASE ServerStep(t) BY <2>3, ServerPlaced
  <2>4. CASE Capture(t)    BY <2>1, <2>4, GotoTypes DEF Capture
  <2>5. CASE Notify(t)
    <3>1. mutex = t \/ t = Main
      BY <2>1, <2>5 DEF Notify, Threads, LockInv, Inside
    <3> QED BY <2>1, <2>5, <3>1
            DEF Notify, NotifyAll, Waiting, AtInv, Placed, Places, Threads
  <2> QED BY <1>1, <2>2, <2>3, <2>4, <2>5 DEF Step
<1>2. ASSUME NEW c \in Clients, Connect(c) PROVE AtInv'
  BY <1>2, ThreadAssumption
     DEF Connect, AtInv, Placed, Places, AcceptPlaces, ClientPlaces, Threads
<1>3. CASE TypeLine \/ EndOfInput
  BY <1>3, GotoTypes
     DEF TypeLine, EndOfInput, PlacesOf, MainPlaces, Threads
<1>4. CASE UNCHANGED vars
  BY <1>4 DEF vars, AtInv, Placed
<1> QED BY <1>1, <1>2, <1>3, <1>4 DEF Next

-----------------------------------------------------------------------------
(* The Shell's mutex: whoever is inside has it, and nobody else.             *)

LEMMA ShellLocks ==
  ASSUME AtInv, LockInv, NEW t \in Threads, ShellStep(t)
  PROVE  LockInv'
<1> USE ThreadAssumption
    DEF AtInv, LockInv, Inside, ShellPlaces, Threads, Goto
<1>1. CASE SetObserver(t)  BY <1>1 DEF SetObserver
<1>2. CASE LockShell(t)    BY <1>2 DEF LockShell
<1>3. CASE UnlockShell(t)  BY <1>3 DEF UnlockShell
<1>4. CASE LoadFile(t)     BY <1>4 DEF LoadFile, ToObserver
<1>5. CASE RejectLine(t)   BY <1>5 DEF RejectLine, ToObserver, shellVars
<1>6. CASE Quit(t)         BY <1>6 DEF Quit, ToObserver
<1>7. CASE RejectPress(t)  BY <1>7 DEF RejectPress, ToObserver, shellVars
<1>8. CASE Move(t)         BY <1>8 DEF Move
<1>9. CASE Tick(t)         BY <1>9 DEF Tick, ToObserver
<1> QED BY <1>1, <1>2, <1>3, <1>4, <1>5, <1>6, <1>7, <1>8, <1>9 DEF ShellStep

(* What a server step leaves alone, if it neither publishes nor is one of    *)
(* main()'s first.                                                           *)
Elsewhere ==
  /\ UNCHANGED <<latest, version, handlers>>
  /\ \A u \in Threads :
       /\ at'[u] # at[u] => /\ at[u] \notin Inside \cup EarlyPlaces
                            /\ at'[u] \notin Inside \cup EarlyPlaces
                            /\ at'[u] = "lock shell" => handlers # {}
       /\ at[u] = "publish" => held'[u] = held[u]

LEMMA ServerElsewhere ==
  ASSUME AtInv, held \in [Threads -> Snapshots \cup {NoSnapshot}],
         NEW t \in Threads, ServerStep(t), ~Publish(t), ~SetHandler(t)
  PROVE  Elsewhere
<1> USE DEF AtInv, Elsewhere, Inside, ShellPlaces, EarlyPlaces, Threads, Goto
<1>1. CASE AcceptTop(t)     BY <1>1 DEF AcceptTop, serverVars
<1>2. CASE PollTimesOut(t)  BY <1>2 DEF PollTimesOut, serverVars
<1>3. CASE Spawn(t)         BY <1>3 DEF Spawn
<1>4. CASE ReadRequest(t)   BY <1>4 DEF ReadRequest, serverVars
<1>5. CASE CopyHandler(t)   BY <1>5 DEF CopyHandler, serverVars
<1>6. CASE CopyState(t)     BY <1>6 DEF CopyState
<1>7. CASE Reply(t)         BY <1>7 DEF Reply
<1>8. CASE CheckNews(t)     BY <1>8 DEF CheckNews, TakeLatest
<1>9. CASE Wait(t)          BY <1>9 DEF Wait
<1>10. CASE WaitTimesOut(t) BY <1>10 DEF WaitTimesOut, serverVars
<1>11. CASE CheckAfterTimeout(t)
  BY <1>11 DEF CheckAfterTimeout, TakeLatest
<1>12. CASE Send(t)         BY <1>12 DEF Send, serverVars
<1>13. CASE Stop(t)         BY <1>13 DEF Stop
<1>14. CASE NotifyStop(t)
  BY <1>14 DEF NotifyStop, NotifyAll, Waiting, serverVars
<1>15. CASE JoinAccept(t)   BY <1>15 DEF JoinAccept, serverVars
<1>16. CASE SwapWorkers(t)  BY <1>16 DEF SwapWorkers
<1>17. CASE JoinWorkers(t)  BY <1>17 DEF JoinWorkers, serverVars
<1> QED BY <1>1, <1>2, <1>3, <1>4, <1>5, <1>6, <1>7, <1>8, <1>9, <1>10,
           <1>11, <1>12, <1>13, <1>14, <1>15, <1>16, <1>17
        DEF ServerStep

LEMMA HandlersAreMains ==
  ASSUME AtInv, NEW t \in Threads, SetHandler(t)
  PROVE  t = Main
  BY WhoIsWhere DEF SetHandler, PlacesOf, AcceptPlaces, ClientPlaces

LEMMA ServerLocks ==
  ASSUME AtInv, LockInv, held \in [Threads -> Snapshots \cup {NoSnapshot}],
         NEW t \in Threads, ServerStep(t), UNCHANGED shellVars
  PROVE  LockInv'
<1> USE ThreadAssumption DEF shellVars
<1>1. CASE Publish(t)
  BY <1>1 DEF Publish, AtInv, LockInv, Inside, ShellPlaces, Threads, Goto
<1>2. CASE SetHandler(t)
  BY <1>2, HandlersAreMains
     DEF SetHandler, AtInv, LockInv, Inside, ShellPlaces, Threads, Goto
<1>3. CASE ~Publish(t) /\ ~SetHandler(t)
  BY <1>3, ServerElsewhere DEF Elsewhere, LockInv, Inside, Threads
<1> QED BY <1>1, <1>2, <1>3

LEMMA NextLocks ==
  ASSUME AtInv, LockInv, held \in [Threads -> Snapshots \cup {NoSnapshot}],
         [Next]_vars
  PROVE  LockInv'
<1> USE ThreadAssumption
<1>1. ASSUME NEW t \in Threads, Step(t) PROVE LockInv'
  <2> USE DEF AtInv, LockInv, Inside, ShellPlaces, Threads
  <2>1. CASE Capture(t) BY <2>1 DEF Capture, Goto, shellVars
  <2>2. CASE Notify(t)
    BY <2>2 DEF Notify, NotifyAll, Waiting, shellVars
  <2> QED BY <1>1, <2>1, <2>2, ShellLocks, ServerLocks DEF Step
<1>2. ASSUME NEW c \in Clients, Connect(c), UNCHANGED shellVars
      PROVE  LockInv'
  BY <1>2 DEF Connect, shellVars, AtInv, LockInv, Inside, ShellPlaces, Threads
<1>3. CASE TypeLine \/ EndOfInput
  BY <1>3 DEF TypeLine, EndOfInput, Goto, shellVars, AtInv, LockInv, Inside,
              ShellPlaces, Threads
<1>4. CASE UNCHANGED vars
  BY <1>4 DEF vars, shellVars, LockInv
<1> QED BY <1>1, <1>2, <1>3, <1>4 DEF Next

-----------------------------------------------------------------------------
(* Before the first load.                                                    *)

LEMMA ShellStaysEarly ==
  ASSUME AtInv, LockInv, EarlyMachine, tpu \in Snapshots,
         NEW t \in Threads, ShellStep(t)
  PROVE  EarlyMachine'
<1> USE ThreadAssumption
    DEF AtInv, LockInv, EarlyMachine, EarlyPlaces, ShellPlaces, Threads, Goto
<1>1. CASE SetObserver(t)  BY <1>1 DEF SetObserver
<1>2. CASE LockShell(t)    BY <1>2 DEF LockShell
<1>3. CASE UnlockShell(t)  BY <1>3 DEF UnlockShell
<1>4. CASE LoadFile(t)     BY <1>4 DEF LoadFile, ToObserver
<1>5. CASE RejectLine(t)   BY <1>5 DEF RejectLine, ToObserver, shellVars
<1>6. CASE Quit(t)         BY <1>6 DEF Quit, ToObserver
<1>7. CASE RejectPress(t)  BY <1>7 DEF RejectPress, ToObserver, shellVars
<1>8. CASE Move(t)
  <2>1. tpu'.file = tpu.file
    BY <1>8 DEF Move, Snapshots
  <2> QED BY <1>8, <2>1 DEF Move
<1>9. CASE Tick(t)
  <2>1. tpu'.file = tpu.file
    BY <1>9 DEF Tick, Snapshots
  <2> QED BY <1>9, <2>1 DEF Tick, ToObserver
<1> QED BY <1>1, <1>2, <1>3, <1>4, <1>5, <1>6, <1>7, <1>8, <1>9 DEF ShellStep

LEMMA ShellMovesLoaded ==
  ASSUME AtInv, LockInv, MovesLoaded, tpu \in Snapshots,
         NEW t \in Threads, ShellStep(t)
  PROVE  MovesLoaded'
<1> USE ThreadAssumption
    DEF AtInv, LockInv, MovesLoaded, ShellPlaces, Threads, Goto
<1>1. CASE SetObserver(t)  BY <1>1 DEF SetObserver
<1>2. CASE LockShell(t)    BY <1>2 DEF LockShell
<1>3. CASE UnlockShell(t)  BY <1>3 DEF UnlockShell
<1>4. CASE LoadFile(t)
  BY <1>4, ShellAssumption DEF LoadFile, ToObserver
<1>5. CASE RejectLine(t)   BY <1>5 DEF RejectLine, ToObserver, shellVars
<1>6. CASE Quit(t)         BY <1>6 DEF Quit, ToObserver
<1>7. CASE RejectPress(t)  BY <1>7 DEF RejectPress, ToObserver, shellVars
<1>8. CASE Move(t)
  <2>1. tpu'.file = tpu.file
    BY <1>8 DEF Move, Snapshots
  <2> QED BY <1>8, <2>1 DEF Move
<1>9. CASE Tick(t)
  <2>1. tpu'.file = tpu.file
    BY <1>9 DEF Tick, Snapshots
  <2> QED BY <1>9, <2>1 DEF Tick, ToObserver
<1> QED BY <1>1, <1>2, <1>3, <1>4, <1>5, <1>6, <1>7, <1>8, <1>9 DEF ShellStep

(* Once the observer is set it stays set; before that no thread but main()   *)
(* has anything to do in the Shell.                                          *)
LEMMA ShellObserved ==
  ASSUME AtInv, ObserverFirst, NEW t \in Threads, ShellStep(t)
  PROVE  observer' /\ (observer \/ SetObserver(t))
<1>1. CASE SetObserver(t)
  BY <1>1, Zenon DEF SetObserver
<1>2. CASE ~SetObserver(t)
  <2>1. observer' = observer
    BY <1>2 DEF ShellStep, LockShell, UnlockShell, LoadFile, RejectLine, Quit,
                RejectPress, Move, Tick, shellVars
  <2>2. at[t] \in Inside \cup {"lock shell"}
    BY <1>2 DEF ShellStep, LockShell, UnlockShell, LoadFile, RejectLine, Quit,
                RejectPress, Move, Tick, Inside, ShellPlaces
  <2>3. observer
    BY <2>2, WhoIsWhere
       DEF ObserverFirst, Threads, PlacesOf, AcceptPlaces, Inside, ShellPlaces
  <2> QED BY <2>1, <2>3
<1> QED BY <1>1, <1>2

LEMMA ServerStarts ==
  ASSUME AtInv, LockInv, StartInv,
         held \in [Threads -> Snapshots \cup {NoSnapshot}],
         NEW t \in Threads, ServerStep(t), UNCHANGED shellVars
  PROVE  StartInv'
<1> USE ThreadAssumption
    DEF shellVars, StartInv, AtInv, Inside, ShellPlaces, Threads, Goto
<1>1. CASE Publish(t)
  <2>1. EarlyMachine'   BY <1>1 DEF Publish, EarlyMachine, EarlyPlaces
  <2>2. MovesLoaded'    BY <1>1 DEF Publish, MovesLoaded
  <2>3. ObserverFirst'  BY <1>1 DEF Publish, ObserverFirst
  <2> QED BY <2>1, <2>2, <2>3
<1>2. CASE SetHandler(t)
  <2>1. EarlyMachine'
    BY <1>2, HandlersAreMains DEF SetHandler, EarlyMachine, EarlyPlaces
  <2>2. MovesLoaded'
    BY <1>2, HandlersAreMains DEF SetHandler, MovesLoaded
  <2>3. ObserverFirst'
    BY <1>2, HandlersAreMains DEF SetHandler, ObserverFirst
  <2> QED BY <2>1, <2>2, <2>3
<1>3. CASE ~Publish(t) /\ ~SetHandler(t)
  <2>1. EarlyMachine'
    BY <1>3, ServerElsewhere DEF Elsewhere, EarlyMachine, EarlyPlaces
  <2>2. MovesLoaded'
    BY <1>3, ServerElsewhere DEF Elsewhere, MovesLoaded
  <2>3. ObserverFirst'
    BY <1>3, ServerElsewhere DEF Elsewhere, ObserverFirst, EarlyPlaces
  <2> QED BY <2>1, <2>2, <2>3
<1> QED BY <1>1, <1>2, <1>3

LEMMA NextStarts ==
  ASSUME AtInv, LockInv, StartInv, tpu \in Snapshots,
         held \in [Threads -> Snapshots \cup {NoSnapshot}], [Next]_vars
  PROVE  StartInv'
<1> USE ThreadAssumption DEF StartInv, Threads
<1>1. ASSUME NEW t \in Threads, Step(t) PROVE StartInv'
  <2>1. CASE ShellStep(t)
    <3>1. ObserverFirst'
      BY <2>1, ShellObserved DEF ObserverFirst
    <3> QED BY <2>1, <3>1, ShellStaysEarly, ShellMovesLoaded
  <2>2. CASE Capture(t) \/ Notify(t)
    <3> USE <2>2 DEF Capture, Notify, NotifyAll, Waiting, Goto, shellVars,
                     AtInv, Inside, ShellPlaces
    <3>1. EarlyMachine'   BY DEF EarlyMachine, EarlyPlaces
    <3>2. MovesLoaded'    BY DEF MovesLoaded
    <3>3. observer
      BY WhoIsWhere DEF ObserverFirst, PlacesOf, AcceptPlaces
    <3>4. UNCHANGED observer
      OBVIOUS
    <3> QED BY <3>1, <3>2, <3>3, <3>4 DEF ObserverFirst
  <2> QED BY <1>1, <2>1, <2>2, ServerStarts DEF Step
<1>2. CASE (\E c \in Clients : Connect(c) /\ UNCHANGED shellVars)
             \/ TypeLine \/ EndOfInput
  <2> USE <1>2 DEF Connect, TypeLine, EndOfInput, Goto, shellVars, serverVars,
                   AtInv, Inside, ShellPlaces
  <2>1. EarlyMachine'   BY DEF EarlyMachine, EarlyPlaces
  <2>2. MovesLoaded'    BY DEF MovesLoaded
  <2>3. ObserverFirst'  BY DEF ObserverFirst
  <2> QED BY <2>1, <2>2, <2>3
<1>3. CASE UNCHANGED vars
  BY <1>3 DEF vars, shellVars, serverVars, EarlyMachine, MovesLoaded,
              ObserverFirst
<1> QED BY <1>1, <1>2, <1>3 DEF Next

-----------------------------------------------------------------------------
(* What has been published.                                                  *)

(* Only the thread with the mutex moves the machine, and not before main()   *)
(* has published for the first time.                                         *)
LEMMA MachineStays ==
  ASSUME AtInv, LockInv, StartInv, NEW t \in Threads, ShellStep(t),
         NEW u \in Threads, at[u] \in {"capture", "publish"}
  PROVE  UNCHANGED tpu
<1>1. CASE LoadFile(t) \/ Move(t) \/ Tick(t)
  <2>1. mutex = t /\ t # u /\ at[t] \in {"run", "tick"}
    BY <1>1 DEF LoadFile, Move, Tick, LockInv, ShellPlaces
  <2>2. u = Main /\ mutex # Main
    BY <2>1, WhoIsWhere DEF LockInv, Inside, Threads, PlacesOf, AcceptPlaces
  <2>3. tpu.file = NoFile /\ t # Main
    BY <2>1, <2>2 DEF StartInv, EarlyMachine
  <2>4. t \in Clients
    BY <2>1, <2>3, WhoIsWhere DEF Threads, PlacesOf, AcceptPlaces
  <2> QED BY <1>1, <2>3, <2>4
          DEF LoadFile, Move, Tick, StartInv, MovesLoaded
<1>2. CASE ~(LoadFile(t) \/ Move(t) \/ Tick(t))
  BY <1>2 DEF ShellStep, SetObserver, LockShell, UnlockShell, RejectLine, Quit,
              RejectPress, shellVars
<1> QED BY <1>1, <1>2

LEMMA ShellPublished ==
  ASSUME AtInv, LockInv, StartInv, PublishedInv,
         NEW t \in Threads, ShellStep(t), UNCHANGED serverVars
  PROVE  PublishedInv'
<1>1. ASSUME NEW u \in Threads, at'[u] = "publish"
      PROVE  held'[u] = tpu'
  <2>1. at[u] = "publish"
    BY <1>1 DEF AtInv, Threads, Goto, ShellStep, SetObserver, LockShell,
                UnlockShell, LoadFile, RejectLine, Quit, RejectPress, Move,
                Tick, ToObserver, shellVars
  <2> QED BY <2>1, MachineStays DEF PublishedInv, serverVars
<1>2. observer \/ SetObserver(t)
  BY ShellObserved DEF StartInv
<1>3. ASSUME version' > 0,
             mutex' # Free => at'[mutex'] \in {"notify", "unlock shell"}
      PROVE  latest' = tpu'
  <2> USE <1>3, ThreadAssumption
      DEF AtInv, LockInv, PublishedInv, Inside, ShellPlaces, Threads, Goto,
          serverVars
  <2>1. CASE SetObserver(t)  BY <2>1 DEF SetObserver
  <2>2. CASE LockShell(t)    BY <2>2 DEF LockShell
  <2>3. CASE UnlockShell(t)  BY <2>3 DEF UnlockShell
  <2>4. CASE LoadFile(t)     BY <1>2, <2>4 DEF LoadFile, ToObserver, SetObserver
  <2>5. CASE RejectLine(t)
    BY <1>2, <2>5 DEF RejectLine, ToObserver, shellVars, SetObserver
  <2>6. CASE Quit(t)         BY <1>2, <2>6 DEF Quit, ToObserver, SetObserver
  <2>7. CASE RejectPress(t)
    BY <1>2, <2>7 DEF RejectPress, ToObserver, shellVars, SetObserver
  <2>8. CASE Move(t)         BY <2>8 DEF Move
  <2>9. CASE Tick(t)         BY <1>2, <2>9 DEF Tick, ToObserver, SetObserver
  <2> QED BY <2>1, <2>2, <2>3, <2>4, <2>5, <2>6, <2>7, <2>8, <2>9
          DEF ShellStep
<1> QED BY <1>1, <1>3 DEF PublishedInv

LEMMA NextPublished ==
  ASSUME AtInv, LockInv, StartInv, PublishedInv,
         held \in [Threads -> Snapshots \cup {NoSnapshot}], [Next]_vars
  PROVE  PublishedInv'
<1> USE ThreadAssumption DEF Threads
<1>1. ASSUME NEW t \in Threads, Step(t) PROVE PublishedInv'
  <2> USE DEF AtInv, LockInv, PublishedInv, Goto, shellVars
  <2>1. CASE ShellStep(t) /\ UNCHANGED serverVars
    BY <2>1, ShellPublished
  <2>2. CASE ServerStep(t) /\ UNCHANGED shellVars
    <3>1. CASE Publish(t)
      BY <3>1, <2>2 DEF Publish, Inside, ShellPlaces
    <3>2. CASE SetHandler(t)
      BY <3>2, <2>2 DEF SetHandler, Inside, ShellPlaces
    <3>3. CASE ~Publish(t) /\ ~SetHandler(t)
      BY <2>2, <3>3, ServerElsewhere DEF Elsewhere, Inside
    <3> QED BY <3>1, <3>2, <3>3
  <2>3. CASE Capture(t)
    BY <2>3 DEF Capture, Inside, ShellPlaces
  <2>4. CASE Notify(t)
    BY <2>4 DEF Notify, NotifyAll, Waiting, Inside, ShellPlaces, serverVars
  <2> QED BY <1>1, <2>1, <2>2, <2>3, <2>4 DEF Step
<1>2. CASE (\E c \in Clients : Connect(c) /\ UNCHANGED shellVars)
             \/ TypeLine \/ EndOfInput
  BY <1>2 DEF Connect, TypeLine, EndOfInput, Goto, shellVars, serverVars,
              AtInv, LockInv, PublishedInv, Inside, ShellPlaces
<1>3. CASE UNCHANGED vars
  BY <1>3 DEF vars, shellVars, serverVars, PublishedInv
<1> QED BY <1>1, <1>2, <1>3 DEF Next

-----------------------------------------------------------------------------
(* Types.                                                                    *)

LEMMA ZeroIsACycle == 0 \in Cycles
  BY ShellAssumption DEF Cycles

LEMMA ShellData ==
  ASSUME DataOK, NEW t \in Threads, ShellStep(t), UNCHANGED serverVars
  PROVE  DataOK'
<1>1. tpu' \in Snapshots /\ target' \in Cycles
  <2>1. CASE LoadFile(t)
    BY <2>1, ZeroIsACycle DEF LoadFile, Snapshots, DataOK
  <2>2. CASE Move(t)
    BY <2>2, ZeroIsACycle DEF Move, Snapshots, DataOK
  <2>3. CASE Tick(t)
    <3>1. tpu.cycle < target => tpu.cycle + 1 \in Cycles
      BY ShellAssumption DEF Cycles, Snapshots, DataOK
    <3> QED BY <2>3, <3>1, ZeroIsACycle DEF Tick, Snapshots, DataOK
  <2>4. CASE ~(LoadFile(t) \/ Move(t) \/ Tick(t))
    BY <2>4 DEF ShellStep, SetObserver, LockShell, UnlockShell, RejectLine,
                Quit, RejectPress, shellVars, DataOK
  <2> QED BY <2>1, <2>2, <2>3, <2>4
<1>2. quit' \in BOOLEAN /\ observer' \in BOOLEAN
  BY DEF ShellStep, SetObserver, LockShell, UnlockShell, LoadFile, RejectLine,
         Quit, RejectPress, Move, Tick, shellVars, DataOK
<1> QED BY <1>1, <1>2 DEF DataOK, serverVars

LEMMA ServerData ==
  ASSUME DataOK, LockInv, PublishedInv, NEW t \in Threads, ServerStep(t),
         UNCHANGED shellVars
  PROVE  DataOK'
<1> USE DEF DataOK, shellVars, Threads
<1>1. CASE Publish(t)
  <2>1. version' \in Nat
    BY <1>1 DEF Publish
  <2>2. latest' \in Snapshots \cup {NoSnapshot}
    BY <1>1 DEF Publish
  <2>3. held' \in [Threads -> Snapshots \cup {NoSnapshot}]
    BY <1>1 DEF Publish
  <2>4. UNCHANGED <<tpu, target, quit, observer, stopping, lock, handlers,
                    workers, joining, seen>>
    BY <1>1 DEF Publish
  <2> QED BY <2>1, <2>2, <2>3, <2>4, Zenon
<1>2. CASE SetHandler(t)    BY <1>2 DEF SetHandler
<1>3. CASE AcceptTop(t)     BY <1>3 DEF AcceptTop, serverVars
<1>4. CASE PollTimesOut(t)  BY <1>4 DEF PollTimesOut, serverVars
<1>5. CASE Spawn(t)         BY <1>5 DEF Spawn
<1>6. CASE ReadRequest(t)   BY <1>6 DEF ReadRequest, serverVars
<1>7. CASE CopyHandler(t)   BY <1>7 DEF CopyHandler, serverVars
<1>8. CASE CopyState(t)     BY <1>8 DEF CopyState
<1>9. CASE Reply(t)         BY <1>9 DEF Reply
<1>10. CASE CheckNews(t)    BY <1>10 DEF CheckNews, TakeLatest
<1>11. CASE Wait(t)         BY <1>11 DEF Wait
<1>12. CASE WaitTimesOut(t) BY <1>12 DEF WaitTimesOut, serverVars
<1>13. CASE CheckAfterTimeout(t)
  BY <1>13 DEF CheckAfterTimeout, TakeLatest
<1>14. CASE Send(t)         BY <1>14 DEF Send, serverVars
<1>15. CASE Stop(t)         BY <1>15 DEF Stop
<1>16. CASE NotifyStop(t)   BY <1>16 DEF NotifyStop, serverVars
<1>17. CASE JoinAccept(t)   BY <1>17 DEF JoinAccept, serverVars
<1>18. CASE SwapWorkers(t)  BY <1>18 DEF SwapWorkers
<1>19. CASE JoinWorkers(t)  BY <1>19 DEF JoinWorkers, serverVars
<1> QED BY <1>1, <1>2, <1>3, <1>4, <1>5, <1>6, <1>7, <1>8, <1>9, <1>10,
           <1>11, <1>12, <1>13, <1>14, <1>15, <1>16, <1>17, <1>18, <1>19
        DEF ServerStep

LEMMA NextData ==
  ASSUME DataOK, LockInv, PublishedInv, [Next]_vars
  PROVE  DataOK'
<1>1. ASSUME NEW t \in Threads, Step(t) PROVE DataOK'
  <2>1. CASE Capture(t)
    BY <2>1 DEF Capture, DataOK, shellVars
  <2>2. CASE Notify(t)
    BY <2>2 DEF Notify, DataOK, shellVars, serverVars
  <2> QED BY <1>1, <2>1, <2>2, ShellData, ServerData DEF Step
<1>2. CASE UNCHANGED <<shellVars, serverVars>>
  BY <1>2 DEF DataOK, shellVars, serverVars
<1> QED BY <1>1, <1>2 DEF Next, Connect, TypeLine, EndOfInput, vars

-----------------------------------------------------------------------------
(* Who is still running.                                                     *)

(* A step that starts no thread and joins none.                              *)
Routine ==
  /\ UNCHANGED <<workers, joining>>
  /\ \A u \in Threads : at'[u] # at[u] =>
       /\ u # Accept
       /\ at[u] \notin {"unborn", "accepted", "gone"}
       /\ at'[u] \notin {"unborn", "accepted"}
       /\ u = Main => at[u] \notin Last /\ at'[u] \notin Last

LEMMA RoutineJoins ==
  ASSUME JoinInv, Routine
  PROVE  JoinInv'
  BY ThreadAssumption DEF JoinInv, Routine, Last, Threads

LEMMA ShellIsRoutine ==
  ASSUME AtInv, NEW t \in Threads, ShellStep(t), UNCHANGED serverVars
  PROVE  Routine
<1>1. t # Accept
  BY WhoIsWhere, ThreadAssumption
     DEF PlacesOf, AcceptPlaces, ShellStep, SetObserver, LockShell,
         UnlockShell, LoadFile, RejectLine, Quit, RejectPress, Move, Tick
<1> QED
  BY <1>1, ThreadAssumption
     DEF AtInv, Routine, Last, Threads, Goto, serverVars, ShellStep,
         SetObserver, LockShell, UnlockShell, LoadFile, RejectLine, Quit,
         RejectPress, Move, Tick, ToObserver, shellVars

LEMMA ServerIsRoutine ==
  ASSUME AtInv, NEW t \in Threads, ServerStep(t), t # Accept,
         ~JoinAccept(t), ~SwapWorkers(t), ~JoinWorkers(t)
  PROVE  Routine
<1> USE ThreadAssumption DEF AtInv, Routine, Last, Threads, Goto
<1>1. CASE Publish(t)       BY <1>1 DEF Publish
<1>2. CASE SetHandler(t)    BY <1>2 DEF SetHandler
<1>3. CASE ReadRequest(t)   BY <1>3 DEF ReadRequest, serverVars
<1>4. CASE CopyHandler(t)   BY <1>4 DEF CopyHandler, serverVars
<1>5. CASE CopyState(t)     BY <1>5 DEF CopyState
<1>6. CASE Reply(t)         BY <1>6 DEF Reply
<1>7. CASE CheckNews(t)     BY <1>7 DEF CheckNews
<1>8. CASE Wait(t)          BY <1>8 DEF Wait
<1>9. CASE WaitTimesOut(t)  BY <1>9 DEF WaitTimesOut, serverVars
<1>10. CASE CheckAfterTimeout(t) BY <1>10 DEF CheckAfterTimeout
<1>11. CASE Send(t)         BY <1>11 DEF Send, serverVars
<1>12. CASE Stop(t)         BY <1>12 DEF Stop
<1>13. CASE NotifyStop(t)
  BY <1>13 DEF NotifyStop, NotifyAll, Waiting, serverVars
<1> QED BY <1>1, <1>2, <1>3, <1>4, <1>5, <1>6, <1>7, <1>8, <1>9, <1>10,
           <1>11, <1>12, <1>13
        DEF ServerStep, AcceptTop, PollTimesOut, Spawn

(* The accept thread leaves, and main() joins, only when it is time.         *)
LEMMA ServerJoins ==
  ASSUME AtInv, JoinInv, NEW t \in Threads, ServerStep(t)
  PROVE  JoinInv'
<1> USE ThreadAssumption DEF AtInv, JoinInv, Last, Threads, Goto
<1>1. CASE AcceptTop(t) \/ PollTimesOut(t)
  BY <1>1 DEF AcceptTop, PollTimesOut, serverVars
<1>2. CASE Spawn(t)
  <2>1. PICK c \in Clients :
          /\ t = Accept /\ at[t] = "spawn"
          /\ at[c] = "accepted"
          /\ workers' = workers \cup {c} /\ UNCHANGED joining
          /\ at' = [at EXCEPT ![c] = "read", ![t] = "accept loop"]
    BY <1>2 DEF Spawn
  <2> QED BY <2>1
<1>3. CASE JoinAccept(t) \/ SwapWorkers(t) \/ JoinWorkers(t)
  <2>1. t = Main
    BY <1>3, WhoIsWhere
       DEF JoinAccept, SwapWorkers, JoinWorkers, PlacesOf, AcceptPlaces,
           ClientPlaces
  <2> QED BY <1>3, <2>1 DEF JoinAccept, SwapWorkers, JoinWorkers, serverVars
<1>4. CASE t # Accept /\ ~JoinAccept(t) /\ ~SwapWorkers(t) /\ ~JoinWorkers(t)
  BY <1>4, ServerIsRoutine, RoutineJoins
<1>5. t = Accept => \/ AcceptTop(t) \/ PollTimesOut(t) \/ Spawn(t)
                    \/ JoinAccept(t) \/ SwapWorkers(t) \/ JoinWorkers(t)
  BY WhoIsWhere
     DEF ServerStep, Publish, SetHandler, ReadRequest, CopyHandler, CopyState,
         Reply, CheckNews, Wait, WaitTimesOut, CheckAfterTimeout, Send, Stop,
         NotifyStop, PlacesOf, AcceptPlaces
<1> QED BY <1>1, <1>2, <1>3, <1>4, <1>5

LEMMA NextJoins ==
  ASSUME AtInv, JoinInv, [Next]_vars
  PROVE  JoinInv'
<1> USE ThreadAssumption
<1>1. ASSUME NEW t \in Threads, Step(t) PROVE JoinInv'
  <2>1. CASE Capture(t) \/ Notify(t)
    <3>1. t # Accept
      BY <2>1, WhoIsWhere DEF Capture, Notify, PlacesOf, AcceptPlaces
    <3>2. Routine
      BY <2>1, <3>1 DEF Capture, Notify, NotifyAll, Waiting, Goto, serverVars,
                        AtInv, Routine, Last, Threads
    <3> QED BY <3>2, RoutineJoins
  <2> QED BY <1>1, <2>1, ShellIsRoutine, RoutineJoins, ServerJoins DEF Step
<1>2. ASSUME NEW c \in Clients, Connect(c) PROVE JoinInv'
  BY <1>2 DEF Connect, serverVars, AtInv, JoinInv, Last, Threads
<1>3. CASE TypeLine \/ EndOfInput
  <2>1. Routine
    BY <1>3 DEF TypeLine, EndOfInput, Goto, serverVars, AtInv, Routine, Last,
                Threads
  <2> QED BY <2>1, RoutineJoins
<1>4. CASE UNCHANGED vars
  BY <1>4 DEF vars, serverVars, JoinInv
<1> QED BY <1>1, <1>2, <1>3, <1>4 DEF Next

-----------------------------------------------------------------------------
(* The theorems.                                                             *)

SimInv ==
  DataOK /\ AtInv /\ LockInv /\ StartInv /\ PublishedInv /\ JoinInv

LEMMA InitInv == Init => SimInv
<1> SUFFICES ASSUME Init PROVE SimInv
  OBVIOUS
<1> USE ThreadAssumption DEF Threads
<1>1. DataOK
  BY ZeroIsACycle DEF Init, ShellInit, ServerInit, DataOK, Snapshots
<1>2. AtInv
  BY DEF Init, AtInv, Placed, Places, MainPlaces, AcceptPlaces, ClientPlaces
<1>3. LockInv
  BY DEF Init, ShellInit, LockInv, Inside, ShellPlaces
<1>4. StartInv
  BY DEF Init, ShellInit, ServerInit, StartInv, EarlyMachine, MovesLoaded,
         ObserverFirst, Inside, ShellPlaces
<1>5. PublishedInv
  <2>1. \A t \in Threads : at[t] # "publish"
    BY DEF Init
  <2>2. version = 0
    BY DEF Init, ServerInit
  <2>3. ~(version > 0)
    BY <2>2
  <2> QED BY <2>1, <2>3, Zenon DEF PublishedInv
<1>6. JoinInv
  BY DEF Init, ServerInit, JoinInv, Last
<1> QED BY <1>1, <1>2, <1>3, <1>4, <1>5, <1>6 DEF SimInv

LEMMA StepInv == SimInv /\ [Next]_vars => SimInv'
<1> SUFFICES ASSUME SimInv, [Next]_vars PROVE SimInv'
  OBVIOUS
<1>1. tpu \in Snapshots /\ held \in [Threads -> Snapshots \cup {NoSnapshot}]
  BY DEF SimInv, DataOK
<1> QED BY <1>1, NextData, NextPlaced, NextLocks, NextStarts, NextPublished,
           NextJoins
        DEF SimInv

LEMMA SimInvHolds == Spec => []SimInv
  BY InitInv, StepInv, PTL DEF Spec

(* Threads, machine, snapshots and versions keep their types and every       *)
(* thread keeps to its own code (tpu_sim.cpp, shell.cpp, server.cpp).        *)
THEOREM TypeCorrect == Spec => []TypeOK
<1>1. SimInv => TypeOK
  BY DEF SimInv, DataOK, AtInv, LockInv, TypeOK
<1> QED BY <1>1, SimInvHolds, PTL

(* With any number of pages pressing while lines are typed, what the server  *)
(* serves between two commands is the machine as it is (shell.cpp:44-51,     *)
(* 62-74).                                                                   *)
THEOREM PublishedIsCurrent == Spec => []LatestIsTheMachine
<1>1. SimInv => LatestIsTheMachine
  BY DEF SimInv, PublishedInv, LatestIsTheMachine
<1> QED BY <1>1, SimInvHolds, PTL

(* No thread moves the machine while another takes a snapshot of it, with or *)
(* without the mutex (tpu_sim.cpp:64-67).                                    *)
THEOREM SnapshotsAreWhole == Spec => MachineIsReadAlone
<1> DEFINE Still ==
      \A t \in Threads :
        at[t] \in {"capture", "publish"} /\ at'[t] \in {"capture", "publish"}
          => UNCHANGED tpu
<1>1. SimInv /\ [Next]_vars => [Still]_vars
  <2> SUFFICES ASSUME SimInv, Next PROVE Still
    OBVIOUS
  <2>1. ASSUME NEW u \in Threads, Step(u) PROVE Still
    BY <2>1, MachineStays DEF SimInv, Step, shellVars, Capture, Notify
  <2> QED BY <2>1 DEF Next, Connect, TypeLine, EndOfInput, shellVars
<1> QED BY <1>1, SimInvHolds, PTL DEF Spec, MachineIsReadAlone

(* When ~VizServer returns every thread of the server has ended              *)
(* (server.cpp:178-194, 236-237).                                            *)
THEOREM ThreadsAreJoined == Spec => []NoThreadOutlives
<1>1. SimInv => NoThreadOutlives
  BY DEF SimInv, JoinInv, Last, NoThreadOutlives, Threads
<1> QED BY <1>1, SimInvHolds, PTL
=============================================================================
