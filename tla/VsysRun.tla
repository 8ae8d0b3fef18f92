------------------------------ MODULE VsysRun ------------------------------
(***************************************************************************)
(* How a vsys runs a program for its user (vsd_vsys_do_run): the first     *)
(* process of the vsys forks, the new process tries to become the program  *)
(* and the first process watches /proc/<pid>/stat to find out whether it   *)
(* did.  Its SIGCHLD handler, which collects processes that ended, runs    *)
(* between any two steps of the watching.  This is the detail behind the   *)
(* two outcomes of ChildRuns in module Vsysd.                              *)
(***************************************************************************)
EXTENDS Naturals

CONSTANTS Progs,    \* slots for processes started by run commands
          Nobody,   \* no process
          FreeFds,  \* descriptors the first process can still open
          Prompt    \* TRUE: three looks take less than the second a process
                    \* that could not become its program sleeps

ASSUME ConstantsAssumption == /\ Nobody \notin Progs
                              /\ FreeFds \in Nat
ASSUME PromptAssumption == Prompt \in BOOLEAN

VARIABLES
  prog,     \* prog[p]: what process p is doing
  image,    \* image[p]: the name /proc shows for p
  answer,   \* answer[p]: the response to the command that started p
  cur,      \* the process being watched, or Nobody between two commands
  look,     \* which of the three looks is next
  step,     \* the call on the stat file that is next: "open" or "read"
  lost,     \* descriptors opened and never closed
  sigchld,  \* the signal: "none" or "pending"
  handler   \* its handler: "idle" or "running"

watching == <<cur, look, step, lost>>
signals == <<sigchld, handler>>
vars == <<prog, image, answer, watching, signals>>

Looks == 3

Init == /\ prog = [p \in Progs |-> "none"]
        /\ image = [p \in Progs |-> "vsysd"]
        /\ answer = [p \in Progs |-> "none"]
        /\ cur = Nobody /\ look = 0 /\ step = "open" /\ lost = 0
        /\ sigchld = "none" /\ handler = "idle"

-----------------------------------------------------------------------------
(* The process of the command.                                             *)

ExecSucceeds(p) ==
  /\ prog[p] = "forked"
  /\ prog' = [prog EXCEPT ![p] = "running"]
  /\ image' = [image EXCEPT ![p] = "program"]
  /\ UNCHANGED <<answer, watching, signals>>

ExecFails(p) ==
  /\ prog[p] = "forked"
  /\ prog' = [prog EXCEPT ![p] = "sleeping"]
  /\ UNCHANGED <<image, answer, watching, signals>>

\* Slip: the process that failed exits without sleeping first.
SlipEnds(p) ==
  /\ prog[p] \in {"running", "sleeping"}
  /\ prog' = [prog EXCEPT ![p] = "zombie"]
  /\ sigchld' = "pending"
  /\ UNCHANGED <<image, answer, watching, handler>>

\* The program ends, or the sleep of the process that did not become one.
Ends(p) ==
  /\ \/ prog[p] = "running"
     \/ prog[p] = "sleeping" /\ (Prompt => cur # p)
  /\ prog' = [prog EXCEPT ![p] = "zombie"]
  /\ sigchld' = "pending"
  /\ UNCHANGED <<image, answer, watching, handler>>

-----------------------------------------------------------------------------
(* vsd_vsys_sig_child.                                                     *)

HandlerEnters ==
  /\ sigchld = "pending" /\ handler = "idle"
  /\ sigchld' = "none" /\ handler' = "running"
  /\ UNCHANGED <<prog, image, answer, watching>>

\* Slip: "if" in place of "while".
SlipHandlerReaps(p) ==
  /\ handler = "running" /\ prog[p] = "zombie"
  /\ prog' = [prog EXCEPT ![p] = "reaped"]
  /\ handler' = "idle"
  /\ UNCHANGED <<image, answer, watching, sigchld>>

HandlerReaps(p) ==
  /\ handler = "running" /\ prog[p] = "zombie"
  /\ prog' = [prog EXCEPT ![p] = "reaped"]
  /\ UNCHANGED <<image, answer, watching, signals>>

HandlerReturns ==
  /\ handler = "running" /\ \A p \in Progs : prog[p] # "zombie"
  /\ handler' = "idle"
  /\ UNCHANGED <<prog, image, answer, watching, sigchld>>

-----------------------------------------------------------------------------
(* vsd_vsys_do_run.                                                        *)

\* A process slot is free again once its process was collected and its
\* command answered.
Free(p) == prog[p] \in {"none", "reaped"} /\ cur # p

Fork(p) ==
  /\ cur = Nobody /\ handler = "idle" /\ Free(p)
  /\ prog' = [prog EXCEPT ![p] = "forked"]
  /\ image' = [image EXCEPT ![p] = "vsysd"]
  /\ answer' = [answer EXCEPT ![p] = "none"]
  /\ cur' = p /\ look' = 0
  /\ UNCHANGED <<step, lost, signals>>

ForkFails(p) ==
  /\ cur = Nobody /\ handler = "idle" /\ Free(p)
  /\ prog' = [prog EXCEPT ![p] = "none"]
  /\ image' = [image EXCEPT ![p] = "vsysd"]
  /\ answer' = [answer EXCEPT ![p] = "failed"]
  /\ UNCHANGED <<watching, signals>>

Answer(outcome) == /\ answer' = [answer EXCEPT ![cur] = outcome]
                   /\ cur' = Nobody

\* The stat file cannot be opened when the process was collected, which the
\* code takes for a program that ran and ended, and neither can it when no
\* descriptor is left.
OpenStat ==
  /\ cur # Nobody /\ handler = "idle" /\ step = "open"
  /\ IF prog[cur] = "reaped" \/ lost = FreeFds
       THEN Answer("success") /\ UNCHANGED step
       ELSE step' = "read" /\ UNCHANGED <<answer, cur>>
  /\ UNCHANGED <<prog, image, look, lost, signals>>

\* The process was collected after the open, or its name is not "(vsysd)" any
\* more.  These two exits do not close the descriptor.
SeesProgram ==
  /\ cur # Nobody /\ handler = "idle" /\ step = "read"
  /\ prog[cur] = "reaped" \/ image[cur] # "vsysd"
  /\ Answer("success")
  /\ step' = "open" /\ lost' = lost + 1
  /\ UNCHANGED <<prog, image, look, signals>>

\* Slip: the descriptor is not closed before the next look.
SlipSeesVsysd ==
  /\ cur # Nobody /\ handler = "idle" /\ step = "read"
  /\ prog[cur] # "reaped" /\ image[cur] = "vsysd"
  /\ step' = "open" /\ look' = look + 1 /\ lost' = lost + 1
  /\ IF look' = Looks THEN Answer("failed") ELSE UNCHANGED <<answer, cur>>
  /\ UNCHANGED <<prog, image, signals>>

\* Slip: one look too many.
SlipSeesVsysdTwice ==
  /\ cur # Nobody /\ handler = "idle" /\ step = "read"
  /\ prog[cur] # "reaped" /\ image[cur] = "vsysd"
  /\ step' = "open" /\ look' = look + 1
  /\ IF look' > Looks THEN Answer("failed") ELSE UNCHANGED <<answer, cur>>
  /\ UNCHANGED <<prog, image, lost, signals>>

\* Slip: the looks are not counted.
SlipSeesVsysdAgain ==
  /\ cur # Nobody /\ handler = "idle" /\ step = "read"
  /\ prog[cur] # "reaped" /\ image[cur] = "vsysd"
  /\ step' = "open"
  /\ UNCHANGED <<prog, image, answer, cur, look, lost, signals>>

\* Still the name of the daemon: close, and look again, three times in all.
SeesVsysd ==
  /\ cur # Nobody /\ handler = "idle" /\ step = "read"
  /\ prog[cur] # "reaped" /\ image[cur] = "vsysd"
  /\ step' = "open" /\ look' = look + 1
  /\ IF look' = Looks THEN Answer("failed") ELSE UNCHANGED <<answer, cur>>
  /\ UNCHANGED <<prog, image, lost, signals>>

-----------------------------------------------------------------------------
Handler == HandlerEnters \/ (\E p \in Progs : HandlerReaps(p)) \/ HandlerReturns
Watch == OpenStat \/ SeesProgram \/ SeesVsysd
Program(p) == ExecSucceeds(p) \/ ExecFails(p) \/ Ends(p)

Next == \/ Handler \/ Watch
        \/ \E p \in Progs : Program(p) \/ Fork(p) \/ ForkFails(p)

Spec == Init /\ [][Next]_vars

\* The kernel delivers the signal and runs its handler, and the first process
\* goes on looking.  Users and programs owe nothing.
FairSpec == Spec /\ WF_vars(Handler) /\ WF_vars(Watch)

-----------------------------------------------------------------------------
TypeOK ==
  /\ prog \in [Progs -> {"none", "forked", "running", "sleeping", "zombie", "reaped"}]
  /\ image \in [Progs -> {"vsysd", "program"}]
  /\ answer \in [Progs -> {"none", "success", "failed"}]
  /\ cur \in Progs \cup {Nobody} /\ look \in 0..Looks
  /\ step \in {"open", "read"} /\ lost \in 0..FreeFds
  /\ sigchld \in {"none", "pending"} /\ handler \in {"idle", "running"}

\* What the sleep in the child is for ("to make the parent to experience the
\* error"): a user is never told that a program started when exec failed.
ErrorExperienced ==
  \A p \in Progs :
    image[p] = "vsysd" /\ prog[p] \in {"sleeping", "zombie", "reaped"}
      => answer[p] # "success"

\* As long as looking is quick and a descriptor is left, the error is indeed
\* experienced, whenever the SIGCHLD handler runs.
ErrorExperiencedWithFds ==
  Prompt /\ lost < FreeFds => ErrorExperienced

\* A descriptor is lost only by a command answered with a success, one each,
\* so that failed commands can be repeated without end.
LostOnlyBySuccess ==
  [][lost' # lost => /\ lost' = lost + 1
                     /\ \E p \in Progs : cur = p /\ answer'[p] = "success"]_vars

\* SIGCHLD does not queue: several processes may end behind one signal.  Still
\* no process that ended stays a zombie.
EveryProcessCollected ==
  \A p \in Progs : prog[p] = "zombie" ~> prog[p] = "reaped"

\* Every run command is answered, so that the daemon, which waits for the
\* answer, serves its next user.
EveryRunAnswered == \A p \in Progs : cur = p ~> cur # p
=============================================================================
