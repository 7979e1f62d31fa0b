------------------------------- MODULE Shell --------------------------------
(* The command shell (src/src/ui/shell.cpp): the terminal's lines and the    *)
(* page's presses, one at a time on the one machine. The machine itself is   *)
(* reduced to the file it runs and the cycle it is at, which name one state  *)
(* of it because it is deterministic (module Replay); a press is the cycle   *)
(* it makes for, whichever button or number asked for it.                    *)
EXTENDS Threads

CONSTANTS Files,    \* programs that assemble and load
          NoFile,   \* the machine before the first load
          LastCycle \* cycle at which every program halts or fails

ASSUME ShellAssumption == NoFile \notin Files /\ LastCycle \in Nat

VARIABLES mutex,    \* the thread that has mutex_, or Free
          tpu,      \* [file, cycle]
          target,   \* the cycle the running press makes for
          quit,     \* quit_
          observer  \* observer_ is set

shellVars == <<mutex, tpu, target, quit, observer>>

Cycles == 0 .. LastCycle

ShellInit ==
  /\ mutex = Free
  /\ tpu = [file |-> NoFile, cycle |-> 0]
  /\ target = 0
  /\ quit = FALSE
  /\ observer = FALSE

(* set_observer(), when nobody else can have the mutex for long.             *)
SetObserver(t) ==
  /\ at[t] = "set observer"
  /\ mutex = Free
  /\ observer' = TRUE
  /\ Goto(t, "set move")
  /\ UNCHANGED <<mutex, tpu, target, quit>>

(* Mutant: a press goes ahead without the lock.                              *)
LockShellTogether(t) ==
  /\ at[t] = "lock shell"
  /\ mutex' = t
  /\ Goto(t, "run")
  /\ UNCHANGED <<tpu, target, quit, observer>>

LockShell(t) ==
  /\ at[t] = "lock shell"
  /\ mutex = Free
  /\ mutex' = t
  /\ Goto(t, "run")
  /\ UNCHANGED <<tpu, target, quit, observer>>

(* Mutant: a press that throws returns without telling the observer.         *)
ToObserverUnlessError(t) ==
  \/ Goto(t, IF observer THEN "capture" ELSE "unlock shell")
  \/ t \in Clients /\ Goto(t, "unlock shell")

(* The command or the press is done, or threw and became an error text.      *)
ToObserver(t) == Goto(t, IF observer THEN "capture" ELSE "unlock shell")

(* run_command(), the terminal's half: load a file, fail to, or quit.        *)
LoadFile(t) ==
  /\ t = Main /\ at[t] = "run"
  /\ \E f \in Files : tpu' = [file |-> f, cycle |-> 0]
  /\ ToObserver(t)
  /\ UNCHANGED <<mutex, target, quit, observer>>

RejectLine(t) ==
  /\ t = Main /\ at[t] = "run"
  /\ ToObserver(t)
  /\ UNCHANGED shellVars

Quit(t) ==
  /\ t = Main /\ at[t] = "run"
  /\ quit' = TRUE
  /\ ToObserver(t)
  /\ UNCHANGED <<mutex, tpu, target, observer>>

(* press(), the page's half: no program, or a direction, unit or cycle that  *)
(* is not one, and nothing moves.                                            *)
RejectPress(t) ==
  /\ t \in Clients /\ at[t] = "run"
  /\ ToObserver(t)
  /\ UNCHANGED shellVars

(* move_once() or jump_to(): forward from here, or back by a reload.         *)
Move(t) ==
  /\ t \in Clients /\ at[t] = "run"
  /\ tpu.file # NoFile
  /\ target' \in Cycles
  /\ tpu' = IF target' < tpu.cycle THEN [tpu EXCEPT !.cycle = 0] ELSE tpu
  /\ Goto(t, "tick")
  /\ UNCHANGED <<mutex, quit, observer>>

(* Mutant: the replay runs one cycle too far.                                *)
TickOneMore(t) ==
  /\ at[t] = "tick"
  /\ IF tpu.cycle <= target
     THEN tpu' = [tpu EXCEPT !.cycle = @ + 1] /\ UNCHANGED <<at, target>>
     ELSE ToObserver(t) /\ target' = 0 /\ UNCHANGED tpu
  /\ UNCHANGED <<mutex, quit, observer>>

(* run_cycles() forward, the replay of back_cycles() alike.                  *)
Tick(t) ==
  /\ at[t] = "tick"
  /\ IF tpu.cycle < target
     THEN tpu' = [tpu EXCEPT !.cycle = @ + 1] /\ UNCHANGED <<at, target>>
     ELSE ToObserver(t) /\ target' = 0 /\ UNCHANGED tpu
  /\ UNCHANGED <<mutex, quit, observer>>

(* Back to the terminal loop, which ends after a quit, or to the page.       *)
UnlockShell(t) ==
  /\ at[t] = "unlock shell"
  /\ mutex' = Free
  /\ Goto(t, IF t \in Clients THEN "reply"
             ELSE IF quit THEN "stop" ELSE "prompt")
  /\ UNCHANGED <<tpu, target, quit, observer>>

ShellStep(t) ==
  \/ SetObserver(t) \/ LockShell(t) \/ UnlockShell(t)
  \/ LoadFile(t) \/ RejectLine(t) \/ Quit(t)
  \/ RejectPress(t) \/ Move(t) \/ Tick(t)

(* A thread at one of these places is inside the mutex.                      *)
ShellPlaces == {"run", "tick", "unlock shell"}
=============================================================================
