---------------------------- MODULE Philosophers ----------------------------
(***************************************************************************)
(* CH03/13semop.c: dining philosophers as processes around System V        *)
(* semaphores.  A room semaphore admits all philosophers but one; each     *)
(* chopstick is a semaphore of its own.  Every operation has SEM_UNDO: the *)
(* kernel takes it back when the process that did it ends.  main creates   *)
(* the semaphores without looking at the result, forks the philosophers    *)
(* and at the end terminates them and removes the semaphores.              *)
(***************************************************************************)
EXTENDS Naturals

CONSTANTS N,         \* philosophers and chopsticks: 5
          Seats,     \* the value of the room semaphore: 4
          MayLack    \* semaphores the kernel may refuse to create

Phils == 0..(N - 1)
Room == N                     \* the semaphores: chopsticks 0..N-1 and the room
Sems == Phils \cup {Room}

ASSUME SizeAssumption == N \in Nat /\ N >= 2 /\ Seats \in Nat
ASSUME MayLackAssumption == MayLack \subseteq Sems

Right(p) == IF p = N - 1 THEN 0 ELSE p + 1  \* (p + 1) % N

VARIABLES made,   \* the semaphores that were created and not yet removed
          value,  \* value[s]: the value of semaphore s
          undo,   \* undo[p][s]: what the kernel adds to s when p ends
          pc,     \* pc[p]: the semaphore operation p is at, or "thinking"
          main    \* main(): the philosopher it forks next, or how it ends

vars == <<made, value, undo, pc, main>>

PCs == {"unborn", "thinking", "left", "right", "eating", "leave_right",
        "leave_left", "leave_room", "killed", "dead"}

Init == /\ made \in {Sems \ lack : lack \in SUBSET MayLack}
        /\ value = [s \in Sems |-> IF s = Room THEN Seats ELSE 1]
        /\ undo = [p \in Phils |-> [s \in Sems |-> 0]]
        /\ pc = [p \in Phils |-> "unborn"]
        /\ main = 0

Goto(p, next) == pc' = [pc EXCEPT ![p] = next]

-----------------------------------------------------------------------------
(* Semaphore operations.  On a semaphore that does not exist semop fails    *)
(* and the philosopher goes on all the same.                                *)

\* Slip: the flag SEM_UNDO is forgotten in sem_p.
SlipSemP(p, s) ==
  IF s \in made
    THEN /\ value[s] > 0
         /\ value' = [value EXCEPT ![s] = @ - 1]
         /\ UNCHANGED undo
    ELSE UNCHANGED <<value, undo>>

SemP(p, s) ==
  IF s \in made
    THEN /\ value[s] > 0
         /\ value' = [value EXCEPT ![s] = @ - 1]
         /\ undo' = [undo EXCEPT ![p][s] = @ + 1]
    ELSE UNCHANGED <<value, undo>>

SemV(p, s) ==
  IF s \in made
    THEN /\ value' = [value EXCEPT ![s] = @ + 1]
         /\ undo' = [undo EXCEPT ![p][s] = @ - 1]
    ELSE UNCHANGED <<value, undo>>

-----------------------------------------------------------------------------
(* philosoper_proc: one turn of its loop.                                  *)

\* Slip: nobody keeps the philosophers from entering the room together.
SlipEnter(p) == /\ pc[p] = "thinking" /\ Goto(p, "left")
                /\ UNCHANGED <<made, value, undo, main>>

Enter(p) == /\ pc[p] = "thinking" /\ SemP(p, Room) /\ Goto(p, "left")
            /\ UNCHANGED <<made, main>>
TakeLeft(p) == /\ pc[p] = "left" /\ SemP(p, p) /\ Goto(p, "right")
               /\ UNCHANGED <<made, main>>

\* Slip: the index of the right chopstick is taken modulo N - 1.
SlipTakeRight(p) == /\ pc[p] = "right" /\ SemP(p, (p + 1) % (N - 1))
                    /\ Goto(p, "eating")
                    /\ UNCHANGED <<made, main>>

TakeRight(p) == /\ pc[p] = "right" /\ SemP(p, Right(p)) /\ Goto(p, "eating")
                /\ UNCHANGED <<made, main>>
StopEating(p) == /\ pc[p] = "eating" /\ Goto(p, "leave_right")
                 /\ UNCHANGED <<made, value, undo, main>>
PutRight(p) == /\ pc[p] = "leave_right" /\ SemV(p, Right(p)) /\ Goto(p, "leave_left")
               /\ UNCHANGED <<made, main>>

\* Slip: the right chopstick is put down a second time.
SlipPutLeft(p) == /\ pc[p] = "leave_left" /\ SemV(p, Right(p))
                  /\ Goto(p, "leave_room")
                  /\ UNCHANGED <<made, main>>

PutLeft(p) == /\ pc[p] = "leave_left" /\ SemV(p, p) /\ Goto(p, "leave_room")
              /\ UNCHANGED <<made, main>>

\* Slip: a philosopher leaves without giving the seat back.
SlipLeave(p) == /\ pc[p] = "leave_room" /\ Goto(p, "thinking")
                /\ UNCHANGED <<made, value, undo, main>>

Leave(p) == /\ pc[p] = "leave_room" /\ SemV(p, Room) /\ Goto(p, "thinking")
            /\ UNCHANGED <<made, main>>

-----------------------------------------------------------------------------
(* Processes that end, and main.                                           *)

\* A signal ends a philosopher wherever it is; it does no operation any more.
Killed(p) == /\ pc[p] \notin {"unborn", "killed", "dead"}
             /\ Goto(p, "killed")
             /\ UNCHANGED <<made, value, undo, main>>

\* The kernel takes back what the process did to the semaphores still there.
Exit(p) == /\ pc[p] = "killed" /\ Goto(p, "dead")
           /\ value' = [s \in Sems |-> IF s \in made THEN value[s] + undo[p][s]
                                                     ELSE value[s]]
           /\ undo' = [undo EXCEPT ![p] = [s \in Sems |-> 0]]
           /\ UNCHANGED <<made, main>>

Fork == /\ main \in Phils
        /\ Goto(main, "thinking")
        /\ main' = main + 1
        /\ UNCHANGED <<made, value, undo>>

\* The user types q, or a fork failed: SIGTERM to every philosopher ...
Terminate == /\ main \in 0..N
             /\ main' = N + 1
             /\ pc' = [p \in Phils |-> IF pc[p] \in {"unborn", "dead"}
                                         THEN pc[p] ELSE "killed"]
             /\ UNCHANGED <<made, value, undo>>

\* ... then the semaphores are removed one by one, the room last; main does
\* not wait for the philosophers.
Remove == /\ main \in (N + 1)..(2 * N + 1)
          /\ made' = made \ {main - (N + 1)}
          /\ main' = main + 1
          /\ UNCHANGED <<value, undo, pc>>

-----------------------------------------------------------------------------
Step(p) == \/ Enter(p) \/ TakeLeft(p) \/ TakeRight(p) \/ StopEating(p)
           \/ PutRight(p) \/ PutLeft(p) \/ Leave(p)
Main == Fork \/ Terminate \/ Remove

Next == Main \/ \E p \in Phils : Step(p) \/ Killed(p) \/ Exit(p)

Spec == Init /\ [][Next]_vars

\* Processes run; semop serves the processes waiting for a semaphore in their
\* order, so an operation that can be done again and again is done.
Fairness == /\ WF_vars(Fork)
            /\ \A p \in Phils : SF_vars(Step(p)) /\ WF_vars(Exit(p))
FairSpec == Spec /\ Fairness

-----------------------------------------------------------------------------
TypeOK ==
  /\ made \subseteq Sems
  /\ value \in [Sems -> Nat]
  /\ undo \in [Phils -> [Sems -> 0..1]]
  /\ pc \in [Phils -> PCs]
  /\ main \in 0..(2 * N + 2)

\* Neighbours never eat together when the chopstick between them could be
\* created, also when a philosopher was killed with chopsticks in hand.
Exclusion ==
  \A p, q \in Phils :
    pc[p] = "eating" /\ pc[q] = "eating" /\ q = Right(p) => q \notin made

\* The philosophers are never all stuck: with the room semaphore in place one
\* who is in the room can always go on, or no one is there at all.
InRoom == {p \in Phils : pc[p] \in {"left", "right", "eating", "leave_right",
                                    "leave_left", "leave_room"}}
Blocked(p) == \/ pc[p] = "left" /\ p \in made /\ value[p] = 0
              \/ pc[p] = "right" /\ Right(p) \in made /\ value[Right(p)] = 0
NeverAllStuck ==
  Room \in made /\ InRoom # {} /\ (\A p \in Phils : pc[p] # "killed")
    => \E p \in InRoom : ~Blocked(p)

\* With the room semaphore in place, a philosopher comes to eat again and
\* again, unless it is killed: no one starves outside the room or with one
\* chopstick in hand.
EveryoneEats ==
  \A p \in Phils : pc[p] = "thinking" /\ Room \in made
                     ~> pc[p] \in {"eating", "killed"}

\* A killed philosopher gives back whatever it held: with no philosopher alive
\* the semaphores that exist have their first values again.
AllGivenBack ==
  (\A p \in Phils : pc[p] \in {"unborn", "thinking", "dead"}) =>
    \A s \in made : value[s] = IF s = Room THEN Seats ELSE 1
=============================================================================
