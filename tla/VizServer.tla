----------------------------- MODULE VizServer ------------------------------
(* The visualizer's web server (src/src/viz/server.cpp): the latest snapshot *)
(* and the threads that serve it. A snapshot is the machine state it was     *)
(* taken of; its JSON text and its MachineState copy are one value here.     *)
(* The server's mutex_ is held across steps only where the code can be       *)
(* overtaken while holding it; a critical section that just reads or assigns *)
(* is one step that needs the mutex to be free.                              *)
EXTENDS Threads

CONSTANT NoSnapshot

VARIABLES lock,      \* the thread that has mutex_, or Free
          latest,    \* latest_ and state_
          version,   \* version_
          handlers,  \* which of move_ and jump_ are set
          workers,   \* client_threads_
          joining,   \* ~VizServer's local copy of client_threads_
          stopping,  \* stopping_
          seen,      \* connection -> the version its stream last took
          held       \* thread -> the snapshot it has in hand

serverVars ==
  <<lock, latest, version, handlers, workers, joining, stopping, seen, held>>

ServerInit ==
  /\ lock = Free
  /\ latest = NoSnapshot
  /\ version = 0
  /\ handlers = {}
  /\ workers = {}
  /\ joining = {}
  /\ stopping = FALSE
  /\ seen = [c \in Clients |-> 0]
  /\ held = [t \in Threads |-> NoSnapshot]

Waiting == {c \in Clients : at[c] = "waiting"}

(* changed_.notify_all(): whoever waits goes back to check, the caller on.   *)
NotifyAll(t, place) ==
  at' = [u \in Threads |-> IF u \in Waiting THEN "stream"
                           ELSE IF u = t THEN place ELSE at[u]]

-----------------------------------------------------------------------------
(* publish(), by the thread that has the snapshot in hand.                   *)

Publish(t) ==
  /\ at[t] = "publish"
  /\ lock = Free
  /\ latest' = held[t]
  /\ version' = version + 1
  /\ held' = [held EXCEPT ![t] = NoSnapshot]
  /\ Goto(t, "notify")
  /\ UNCHANGED <<lock, handlers, workers, joining, stopping, seen>>

(* on_move() and on_jump().                                                  *)
SetHandler(t) ==
  /\ at[t] \in {"set move", "set jump"}
  /\ lock = Free
  /\ IF at[t] = "set move"
     THEN handlers' = handlers \cup {"move"} /\ Goto(t, "set jump")
     ELSE handlers' = handlers \cup {"jump"} /\ Goto(t, "capture")
  /\ UNCHANGED <<lock, latest, version, workers, joining, stopping, seen, held>>

-----------------------------------------------------------------------------
(* accept_loop().                                                            *)

AcceptTop(t) ==
  /\ t = Accept /\ at[t] = "accept loop"
  /\ Goto(t, IF stopping THEN "gone" ELSE "poll")
  /\ UNCHANGED serverVars

(* 100 ms without a connection.                                              *)
PollTimesOut(t) ==
  /\ t = Accept /\ at[t] = "poll"
  /\ Goto(t, "accept loop")
  /\ UNCHANGED serverVars

Connect(c) ==
  /\ at[Accept] = "poll"
  /\ at[c] = "unborn"
  /\ at' = [at EXCEPT ![c] = "accepted", ![Accept] = "spawn"]
  /\ UNCHANGED serverVars

Spawn(t) ==
  /\ t = Accept /\ at[t] = "spawn"
  /\ lock = Free
  /\ \E c \in Clients :
       /\ at[c] = "accepted"
       /\ workers' = workers \cup {c}
       /\ at' = [at EXCEPT ![c] = "read", ![t] = "accept loop"]
  /\ UNCHANGED <<lock, latest, version, handlers, joining, stopping, seen,
                 held>>

-----------------------------------------------------------------------------
(* serve(): one connection.                                                  *)

(* The request, or nothing within the socket's timeout. Files, unknown paths *)
(* and bad queries are answered at once.                                     *)
ReadRequest(c) ==
  /\ c \in Clients /\ at[c] = "read"
  /\ \E place \in {"stream", "press", "data", "reply"} : Goto(c, place)
  /\ UNCHANGED serverVars

(* Mutant: the handler runs with the server's mutex held.                    *)
CopyHandlerAndHold(c) ==
  /\ c \in Clients /\ at[c] = "press"
  /\ lock = Free
  /\ \E h \in {"move", "jump"} :
       IF h \in handlers THEN lock' = c /\ Goto(c, "lock shell")
                         ELSE Goto(c, "reply") /\ UNCHANGED lock
  /\ UNCHANGED <<latest, version, handlers, workers, joining, stopping, seen,
                 held>>

(* serve_move() and serve_jump(): the handler is copied, then called.        *)
CopyHandler(c) ==
  /\ c \in Clients /\ at[c] = "press"
  /\ lock = Free
  /\ \E h \in {"move", "jump"} :
       Goto(c, IF h \in handlers THEN "lock shell" ELSE "reply")
  /\ UNCHANGED serverVars

(* serve_data(): rows of the snapshot that is the latest now.                *)
CopyState(c) ==
  /\ c \in Clients /\ at[c] = "data"
  /\ lock = Free
  /\ held' = [held EXCEPT ![c] = latest]
  /\ Goto(c, "reply")
  /\ UNCHANGED <<lock, latest, version, handlers, workers, joining, stopping,
                 seen>>

(* The answer goes out, or the page is gone; the socket is closed.           *)
Reply(c) ==
  /\ c \in Clients /\ at[c] = "reply"
  /\ held' = [held EXCEPT ![c] = NoSnapshot]
  /\ Goto(c, "gone")
  /\ UNCHANGED <<lock, latest, version, handlers, workers, joining, stopping,
                 seen>>

-----------------------------------------------------------------------------
(* serve_events(): one page's stream.                                        *)

TakeLatest(c) ==
  /\ held' = [held EXCEPT ![c] = latest]
  /\ seen' = [seen EXCEPT ![c] = version]

(* The condition is checked with the mutex held, which the wait gives up.    *)
CheckNews(c) ==
  /\ c \in Clients /\ at[c] = "stream"
  /\ lock = Free
  /\ \/ stopping /\ Goto(c, "reply") /\ UNCHANGED <<lock, seen, held>>
     \/ ~stopping /\ version # seen[c] /\ TakeLatest(c) /\ Goto(c, "send")
          /\ UNCHANGED lock
     \/ ~stopping /\ version = seen[c] /\ lock' = c /\ Goto(c, "falling asleep")
          /\ UNCHANGED <<seen, held>>
  /\ UNCHANGED <<latest, version, handlers, workers, joining, stopping>>

Wait(c) ==
  /\ c \in Clients /\ at[c] = "falling asleep"
  /\ lock' = Free
  /\ Goto(c, "waiting")
  /\ UNCHANGED <<latest, version, handlers, workers, joining, stopping, seen,
                 held>>

(* Mutant: wait() instead of wait_for().                                     *)
WaitsForNotify(c) == FALSE

(* One second without a notification: check once more, then send a sign of   *)
(* life if there is still no news.                                           *)
WaitTimesOut(c) ==
  /\ c \in Clients /\ at[c] = "waiting"
  /\ Goto(c, "timed out")
  /\ UNCHANGED serverVars

CheckAfterTimeout(c) ==
  /\ c \in Clients /\ at[c] = "timed out"
  /\ lock = Free
  /\ IF ~stopping /\ version # seen[c] THEN TakeLatest(c)
                                       ELSE UNCHANGED <<seen, held>>
  /\ Goto(c, IF stopping THEN "reply" ELSE "send")
  /\ UNCHANGED <<lock, latest, version, handlers, workers, joining, stopping>>

(* Mutant: the version is noted when the message is out, not when it is made.*)
SendThenNote(c) ==
  /\ c \in Clients /\ at[c] = "send"
  /\ seen' = [seen EXCEPT ![c] = version]
  /\ \E place \in {"stream", "reply"} : Goto(c, place)
  /\ UNCHANGED <<lock, latest, version, handlers, workers, joining, stopping,
                 held>>

(* The message goes out, or the page has gone away.                          *)
Send(c) ==
  /\ c \in Clients /\ at[c] = "send"
  /\ \E place \in {"stream", "reply"} : Goto(c, place)
  /\ UNCHANGED serverVars

-----------------------------------------------------------------------------
(* ~VizServer().                                                             *)

Stop(t) ==
  /\ at[t] = "stop"
  /\ stopping' = TRUE
  /\ Goto(t, "notify stop")
  /\ UNCHANGED <<lock, latest, version, handlers, workers, joining, seen, held>>

NotifyStop(t) ==
  /\ at[t] = "notify stop"
  /\ NotifyAll(t, "join accept")
  /\ UNCHANGED serverVars

(* Mutant: the accept thread is not joined.                                  *)
LeaveAccept(t) ==
  /\ at[t] = "join accept"
  /\ Goto(t, "swap")
  /\ UNCHANGED serverVars

JoinAccept(t) ==
  /\ at[t] = "join accept"
  /\ at[Accept] = "gone"
  /\ Goto(t, "swap")
  /\ UNCHANGED serverVars

SwapWorkers(t) ==
  /\ at[t] = "swap"
  /\ lock = Free
  /\ joining' = workers
  /\ workers' = {}
  /\ Goto(t, "join workers")
  /\ UNCHANGED <<lock, latest, version, handlers, stopping, seen, held>>

JoinWorkers(t) ==
  /\ at[t] = "join workers"
  /\ \A c \in joining : at[c] = "gone"
  /\ Goto(t, "gone")
  /\ UNCHANGED serverVars

ServerStep(t) ==
  \/ Publish(t) \/ SetHandler(t)
  \/ AcceptTop(t) \/ PollTimesOut(t) \/ Spawn(t)
  \/ ReadRequest(t) \/ CopyHandler(t) \/ CopyState(t) \/ Reply(t)
  \/ CheckNews(t) \/ Wait(t) \/ WaitTimesOut(t) \/ CheckAfterTimeout(t)
  \/ Send(t)
  \/ Stop(t) \/ NotifyStop(t) \/ JoinAccept(t) \/ SwapWorkers(t)
  \/ JoinWorkers(t)
=============================================================================
