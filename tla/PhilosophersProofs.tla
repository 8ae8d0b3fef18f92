------------------------- MODULE PhilosophersProofs -------------------------
(* Theorems about Philosophers, for any number of philosophers and seats   *)
(* and whatever semaphores are missing.                                    *)
EXTENDS Philosophers, FiniteSetTheorems, WellFoundedInduction, TLAPS

Left(s) == IF s = 0 THEN N - 1 ELSE s - 1

\* What a philosopher that lives has taken and not given back.
Holds(p, s) ==
  \/ s = Room /\ p \in InRoom
  \/ s = p /\ pc[p] \in {"right", "eating", "leave_right", "leave_left"}
  \/ s = Right(p) /\ pc[p] \in {"eating", "leave_right"}

\* On a semaphore that exists the kernel has an operation to take back just
\* for the philosophers that hold it, and never for one not beside it.
UndoInv ==
  \A p \in Phils, s \in Sems : s \in made =>
    /\ s \notin {p, Right(p), Room} => undo[p][s] = 0
    /\ pc[p] # "killed" => undo[p][s] = (IF Holds(p, s) THEN 1 ELSE 0)

\* A chopstick that exists lies on the table or is owed by one neighbour.
ChopstickInv ==
  \A s \in Phils : s \in made => value[s] + undo[s][s] + undo[Left(s)][s] = 1

\* A philosopher that was not forked has not begun.
ForkInv == \A p \in Phils : p >= main => pc[p] = "unborn"

IInv == TypeOK /\ UndoInv /\ ChopstickInv /\ ForkInv

\* The ring: Left and Right are inverse to one another and never stand still.
LEMMA Ring == ASSUME NEW p \in Phils
              PROVE /\ Left(p) \in Phils /\ Right(p) \in Phils
                    /\ Left(p) # p /\ Right(p) # p
                    /\ \A q \in Phils : (q = Right(p)) <=> (p = Left(q))
                    /\ p # Room /\ p \in Sems /\ Right(p) \in Sems /\ Room \in Sems
  BY SizeAssumption DEF Phils, Left, Right, Room, Sems

\* The initial states satisfy the inductive invariant.
LEMMA InitIInv == Init => IInv
<1> SUFFICES ASSUME Init PROVE IInv
  OBVIOUS
<1>1. TypeOK
  BY SizeAssumption DEF Init, TypeOK, PCs, Phils, Sems, Room
<1>2. UndoInv
  BY DEF Init, UndoInv, Holds, InRoom
<1>3. ChopstickInv
  BY Ring, SizeAssumption DEF Init, ChopstickInv
<1>4. ForkInv
  BY DEF Init, ForkInv
<1> QED
  BY <1>1, <1>2, <1>3, <1>4 DEF IInv

\* The effect of taking semaphore s, for any move of p that makes it the
\* holder of s and changes nothing else it holds.
LEMMA Taking ==
  ASSUME IInv, NEW p \in Phils, NEW s \in Sems, NEW next \in PCs,
         s \in {p, Right(p), Room},
         SemP(p, s), Goto(p, next), UNCHANGED <<made, main>>,
         pc[p] \notin {"killed", "unborn"}, next # "killed", ~Holds(p, s),
         \A t \in Sems : Holds(p, t)' <=> (Holds(p, t) \/ t = s)
  PROVE  IInv'
<1> USE DEF IInv
<1>0. /\ pc' = [pc EXCEPT ![p] = next]
      /\ \A q \in Phils : q # p => \A t \in Sems : Holds(q, t)' <=> Holds(q, t)
  BY DEF Goto, Holds, InRoom, TypeOK
<1>3. ForkInv'
  BY <1>0 DEF ForkInv, TypeOK
<1>1. CASE s \in made
  <2>1. /\ value[s] > 0 /\ value' = [value EXCEPT ![s] = @ - 1]
        /\ undo' = [undo EXCEPT ![p][s] = @ + 1] /\ undo[p][s] = 0
    BY <1>1 DEF SemP, UndoInv
  <2>2. TypeOK'
    <3>1. value' \in [Sems -> Nat]
      BY <2>1 DEF TypeOK
    <3>2. undo' \in [Phils -> [Sems -> 0..1]]
      BY <2>1 DEF TypeOK
    <3>3. pc' \in [Phils -> PCs]
      BY <1>0 DEF TypeOK
    <3> QED
      BY <3>1, <3>2, <3>3 DEF TypeOK
  <2>3. \A q \in Phils, t \in Sems :
           undo'[q][t] = IF q = p /\ t = s THEN 1 ELSE undo[q][t]
    BY <2>1 DEF TypeOK
  <2>4. UndoInv'
    BY <1>0, <2>3 DEF UndoInv, TypeOK
  <2>5. ChopstickInv'
    <3> SUFFICES ASSUME NEW t \in Phils, t \in made
                 PROVE value'[t] + undo'[t][t] + undo'[Left(t)][t] = 1
      BY DEF ChopstickInv
    <3>1. CASE t # s
      BY <3>1, <2>1, <2>3, Ring DEF ChopstickInv, TypeOK
    <3>2. CASE t = s
      <4>1. t # Room /\ (p = t \/ p = Left(t)) /\ t # Left(t)
        BY <3>2, Ring
      <4>2. value'[t] = value[t] - 1 /\ value[t] \in Nat
        BY <3>2, <2>1 DEF TypeOK
      <4>3. undo[t][t] \in 0..1 /\ undo[Left(t)][t] \in 0..1
        BY Ring DEF TypeOK
      <4> QED
        BY <3>2, <4>1, <4>2, <4>3, <2>1, <2>3, Ring DEF ChopstickInv
    <3> QED
      BY <3>1, <3>2
  <2> QED
    BY <1>3, <2>2, <2>4, <2>5
<1>2. CASE s \notin made
  <2>1. UNCHANGED <<made, value, undo, main>>
    BY <1>2 DEF SemP
  <2>2. TypeOK' /\ ChopstickInv'
    BY <1>0, <2>1 DEF TypeOK, ChopstickInv
  <2>3. UndoInv'
    BY <1>0, <1>2, <2>1 DEF UndoInv, TypeOK
  <2> QED
    BY <1>3, <2>2, <2>3
<1> QED
  BY <1>3, <1>1, <1>2

\* The effect of giving s back, likewise.
LEMMA Giving ==
  ASSUME IInv, NEW p \in Phils, NEW s \in Sems, NEW next \in PCs,
         s \in {p, Right(p), Room},
         SemV(p, s), Goto(p, next), UNCHANGED <<made, main>>,
         pc[p] \notin {"killed", "unborn"}, next # "killed", Holds(p, s),
         \A t \in Sems : Holds(p, t)' <=> (Holds(p, t) /\ t # s)
  PROVE  IInv'
<1> USE DEF IInv
<1>0. /\ pc' = [pc EXCEPT ![p] = next]
      /\ \A q \in Phils : q # p => \A t \in Sems : Holds(q, t)' <=> Holds(q, t)
  BY DEF Goto, Holds, InRoom, TypeOK
<1>3. ForkInv'
  BY <1>0 DEF ForkInv, TypeOK
<1>1. CASE s \in made
  <2>1. /\ value' = [value EXCEPT ![s] = @ + 1]
        /\ undo' = [undo EXCEPT ![p][s] = @ - 1] /\ undo[p][s] = 1
    BY <1>1 DEF SemV, UndoInv
  <2>2. TypeOK'
    <3>1. value' \in [Sems -> Nat]
      BY <2>1 DEF TypeOK
    <3>2. undo' \in [Phils -> [Sems -> 0..1]]
      BY <2>1 DEF TypeOK
    <3>3. pc' \in [Phils -> PCs]
      BY <1>0 DEF TypeOK
    <3> QED
      BY <3>1, <3>2, <3>3 DEF TypeOK
  <2>3. \A q \in Phils, t \in Sems :
           undo'[q][t] = IF q = p /\ t = s THEN 0 ELSE undo[q][t]
    BY <2>1 DEF TypeOK
  <2>4. UndoInv'
    BY <1>0, <2>3 DEF UndoInv, TypeOK
  <2>5. ChopstickInv'
    <3> SUFFICES ASSUME NEW t \in Phils, t \in made
                 PROVE value'[t] + undo'[t][t] + undo'[Left(t)][t] = 1
      BY DEF ChopstickInv
    <3>1. CASE t # s
      BY <3>1, <2>1, <2>3, Ring DEF ChopstickInv, TypeOK
    <3>2. CASE t = s
      <4>1. t # Room /\ (p = t \/ p = Left(t)) /\ t # Left(t)
        BY <3>2, Ring
      <4>2. value'[t] = value[t] + 1 /\ value[t] \in Nat
        BY <3>2, <2>1 DEF TypeOK
      <4>3. undo[t][t] \in 0..1 /\ undo[Left(t)][t] \in 0..1
        BY Ring DEF TypeOK
      <4> QED
        BY <3>2, <4>1, <4>2, <4>3, <2>1, <2>3, Ring DEF ChopstickInv
    <3> QED
      BY <3>1, <3>2
  <2> QED
    BY <1>3, <2>2, <2>4, <2>5
<1>2. CASE s \notin made
  <2>1. UNCHANGED <<made, value, undo, main>>
    BY <1>2 DEF SemV
  <2>2. TypeOK' /\ ChopstickInv'
    BY <1>0, <2>1 DEF TypeOK, ChopstickInv
  <2>3. UndoInv'
    BY <1>0, <1>2, <2>1 DEF UndoInv, TypeOK
  <2> QED
    BY <1>3, <2>2, <2>3
<1> QED
  BY <1>3, <1>1, <1>2

\* The steps that move a philosopher without a semaphore operation keep what
\* it holds.
LEMMA Moving ==
  ASSUME IInv, NEW p \in Phils, NEW next \in PCs,
         Goto(p, next), UNCHANGED <<value, undo>>,
         pc[p] # "unborn", UNCHANGED <<made, main>>,
         next = "killed" \/ (/\ pc[p] # "killed"
                             /\ \A t \in Sems : Holds(p, t)' <=> Holds(p, t))
  PROVE  IInv'
<1> USE DEF IInv
<1>0. /\ pc' = [pc EXCEPT ![p] = next]
      /\ \A q \in Phils : q # p => \A t \in Sems : Holds(q, t)' <=> Holds(q, t)
  BY DEF Goto, Holds, InRoom, TypeOK
<1>3. ForkInv'
  BY <1>0 DEF ForkInv, TypeOK
<1>1. TypeOK' /\ ChopstickInv'
  BY <1>0 DEF TypeOK, ChopstickInv
<1>2. UndoInv'
  BY <1>0 DEF UndoInv, TypeOK
<1> QED
  BY <1>3, <1>1, <1>2

\* Every step of the loop of a philosopher preserves the invariant.
LEMMA StepIInv == ASSUME IInv, NEW p \in Phils, Step(p) PROVE IInv'
<1> USE Ring DEF PCs
<1>0. pc \in [Phils -> PCs] /\ main \in 0..(2 * N + 2)
  BY DEF IInv, TypeOK
<1>1. CASE Enter(p)
  <2>1. /\ SemP(p, Room) /\ Goto(p, "left") /\ UNCHANGED <<made, main>>
        /\ pc[p] = "thinking"
    BY <1>1 DEF Enter
  <2>2. ~Holds(p, Room) /\ \A t \in Sems : Holds(p, t)' <=> (Holds(p, t) \/ t = Room)
    BY <1>0, <2>1 DEF Goto, Holds, InRoom
  <2> QED
    BY <2>1, <2>2, Taking
<1>2. CASE TakeLeft(p)
  <2>1. /\ SemP(p, p) /\ Goto(p, "right") /\ UNCHANGED <<made, main>>
        /\ pc[p] = "left"
    BY <1>2 DEF TakeLeft
  <2>2. ~Holds(p, p) /\ \A t \in Sems : Holds(p, t)' <=> (Holds(p, t) \/ t = p)
    BY <1>0, <2>1 DEF Goto, Holds, InRoom
  <2> QED
    BY <2>1, <2>2, Taking
<1>3. CASE TakeRight(p)
  <2>1. /\ SemP(p, Right(p)) /\ Goto(p, "eating") /\ UNCHANGED <<made, main>>
        /\ pc[p] = "right"
    BY <1>3 DEF TakeRight
  <2>2. /\ ~Holds(p, Right(p))
        /\ \A t \in Sems : Holds(p, t)' <=> (Holds(p, t) \/ t = Right(p))
    BY <1>0, <2>1 DEF Goto, Holds, InRoom, Phils, Room
  <2> QED
    BY <2>1, <2>2, Taking
<1>4. CASE StopEating(p)
  <2>1. /\ Goto(p, "leave_right") /\ UNCHANGED <<made, value, undo, main>>
        /\ pc[p] = "eating"
    BY <1>4 DEF StopEating
  <2>2. \A t \in Sems : Holds(p, t)' <=> Holds(p, t)
    BY <1>0, <2>1 DEF Goto, Holds, InRoom
  <2> QED
    BY <1>0, <2>1, <2>2, Moving
<1>5. CASE PutRight(p)
  <2>1. /\ SemV(p, Right(p)) /\ Goto(p, "leave_left") /\ UNCHANGED <<made, main>>
        /\ pc[p] = "leave_right"
    BY <1>5 DEF PutRight
  <2>2. /\ Holds(p, Right(p))
        /\ \A t \in Sems : Holds(p, t)' <=> (Holds(p, t) /\ t # Right(p))
    BY <1>0, <2>1 DEF Goto, Holds, InRoom, Phils, Room
  <2> QED
    BY <2>1, <2>2, Giving
<1>6. CASE PutLeft(p)
  <2>1. /\ SemV(p, p) /\ Goto(p, "leave_room") /\ UNCHANGED <<made, main>>
        /\ pc[p] = "leave_left"
    BY <1>6 DEF PutLeft
  <2>2. Holds(p, p) /\ \A t \in Sems : Holds(p, t)' <=> (Holds(p, t) /\ t # p)
    BY <1>0, <2>1 DEF Goto, Holds, InRoom, Phils, Room
  <2> QED
    BY <2>1, <2>2, Giving
<1>7. CASE Leave(p)
  <2>1. /\ SemV(p, Room) /\ Goto(p, "thinking") /\ UNCHANGED <<made, main>>
        /\ pc[p] = "leave_room"
    BY <1>7 DEF Leave
  <2>2. /\ Holds(p, Room)
        /\ \A t \in Sems : Holds(p, t)' <=> (Holds(p, t) /\ t # Room)
    BY <1>0, <2>1 DEF Goto, Holds, InRoom
  <2> QED
    BY <2>1, <2>2, Giving
<1> QED
  BY <1>1, <1>2, <1>3, <1>4, <1>5, <1>6, <1>7 DEF Step

\* The end of a process gives back what it had taken.
LEMMA ExitIInv == ASSUME IInv, NEW p \in Phils, Exit(p) PROVE IInv'
<1> USE DEF IInv
<1>1. /\ pc' = [pc EXCEPT ![p] = "dead"] /\ UNCHANGED <<made, main>>
      /\ \A s \in Sems : value'[s] = IF s \in made THEN value[s] + undo[p][s]
                                                   ELSE value[s]
      /\ \A q \in Phils, s \in Sems : undo'[q][s] = IF q = p THEN 0 ELSE undo[q][s]
  BY DEF Exit, Goto, TypeOK
<1>2. TypeOK'
  <2>1. value' \in [Sems -> Nat]
    BY DEF Exit, TypeOK
  <2>2. undo' \in [Phils -> [Sems -> 0..1]]
    BY DEF Exit, TypeOK
  <2>3. pc' \in [Phils -> PCs]
    BY <1>1 DEF TypeOK, PCs
  <2> QED
    BY <1>1, <2>1, <2>2, <2>3 DEF TypeOK
<1>3. UndoInv'
  <2>1. \A q \in Phils, t \in Sems : q # p => (Holds(q, t)' <=> Holds(q, t))
    BY <1>1 DEF Holds, InRoom, TypeOK
  <2>2. \A t \in Sems : ~Holds(p, t)'
    BY <1>1 DEF Holds, InRoom, TypeOK
  <2> QED
    BY <1>1, <2>1, <2>2 DEF UndoInv, TypeOK
<1>4. ChopstickInv'
  <2> SUFFICES ASSUME NEW s \in Phils, s \in made
               PROVE value'[s] + undo'[s][s] + undo'[Left(s)][s] = 1
    BY <1>1 DEF ChopstickInv
  <2>1. /\ value[s] + undo[s][s] + undo[Left(s)][s] = 1
        /\ value[s] \in Nat /\ undo[s][s] \in 0..1 /\ undo[Left(s)][s] \in 0..1
        /\ undo[p][s] \in 0..1
        /\ p \notin {s, Left(s)} => undo[p][s] = 0
    BY Ring DEF ChopstickInv, UndoInv, TypeOK
  <2> QED
    BY <1>1, <2>1, Ring
<1>5. ForkInv'
  BY <1>1 DEF Exit, ForkInv, TypeOK
<1> QED
  BY <1>2, <1>3, <1>4, <1>5

\* Every step preserves the invariant.
LEMMA NextIInv == IInv /\ [Next]_vars => IInv'
<1> SUFFICES ASSUME IInv, [Next]_vars PROVE IInv'
  OBVIOUS
<1>0. /\ pc \in [Phils -> PCs] /\ main \in 0..(2 * N + 2) /\ made \subseteq Sems
      /\ value \in [Sems -> Nat] /\ undo \in [Phils -> [Sems -> 0..1]]
  BY DEF IInv, TypeOK
<1>1. ASSUME NEW p \in Phils, Step(p) PROVE IInv'
  BY <1>1, StepIInv
<1>2. ASSUME NEW p \in Phils, Killed(p) PROVE IInv'
  <2>1. /\ Goto(p, "killed") /\ UNCHANGED <<made, value, undo, main>>
        /\ "killed" \in PCs
    BY <1>2 DEF Killed, PCs
  <2> QED
    BY <1>2, <1>0, <2>1, Moving DEF Killed
<1>3. ASSUME NEW p \in Phils, Exit(p) PROVE IInv'
  BY <1>3, ExitIInv
<1>4. CASE Fork
  <2>1. /\ main \in Phils /\ main' = main + 1 /\ main' \in 0..(2 * N + 2)
        /\ pc' = [pc EXCEPT ![main] = "thinking"] /\ UNCHANGED <<made, value, undo>>
        /\ pc[main] = "unborn"
    BY <1>0, <1>4, SizeAssumption DEF Fork, Goto, Phils, IInv, ForkInv
  <2>2. TypeOK' /\ ChopstickInv'
    BY <1>0, <2>1 DEF IInv, TypeOK, PCs, ChopstickInv
  <2>3. \A p \in Phils, t \in Sems : Holds(p, t)' <=> Holds(p, t)
    BY <1>0, <2>1 DEF Holds, InRoom
  <2>4. UndoInv'
    BY <1>0, <2>1, <2>3 DEF IInv, UndoInv
  <2>5. ForkInv'
    BY <1>0, <2>1 DEF IInv, ForkInv, Phils
  <2> QED
    BY <2>2, <2>4, <2>5 DEF IInv
<1>5. CASE Terminate
  <2>1. /\ pc' \in [Phils -> PCs] /\ UNCHANGED <<made, value, undo>>
        /\ \A p \in Phils : pc'[p] # "killed" => pc'[p] = pc[p]
        /\ main' \in 0..(2 * N + 2)
    BY <1>0, <1>5, SizeAssumption DEF Terminate, PCs
  <2>2. \A p \in Phils, t \in Sems : pc'[p] = pc[p] => (Holds(p, t)' <=> Holds(p, t))
    BY DEF Holds, InRoom
  <2>3. TypeOK' /\ ChopstickInv'
    BY <2>1 DEF IInv, TypeOK, ChopstickInv
  <2>4. UndoInv'
    BY <2>1, <2>2 DEF IInv, UndoInv
  <2>5. ForkInv'
    BY <1>5, SizeAssumption DEF Terminate, ForkInv, Phils
  <2> QED
    BY <2>3, <2>4, <2>5 DEF IInv
<1>6. CASE Remove
  <2>1. /\ UNCHANGED <<value, undo, pc>> /\ made' \subseteq made
        /\ main' \in 0..(2 * N + 2)
    BY <1>0, <1>6, SizeAssumption DEF Remove
  <2>2. \A p \in Phils, t \in Sems : Holds(p, t)' <=> Holds(p, t)
    BY <2>1 DEF Holds, InRoom
  <2>3. TypeOK' /\ ChopstickInv'
    BY <2>1 DEF IInv, TypeOK, ChopstickInv
  <2>4. UndoInv'
    BY <2>1, <2>2 DEF IInv, UndoInv
  <2>5. ForkInv'
    BY <1>6, SizeAssumption DEF Remove, ForkInv, Phils
  <2> QED
    BY <2>3, <2>4, <2>5 DEF IInv
<1>7. CASE UNCHANGED vars
  BY <1>7 DEF vars, IInv, TypeOK, UndoInv, ChopstickInv, ForkInv, Holds, InRoom
<1> QED
  BY <1>1, <1>2, <1>3, <1>4, <1>5, <1>6, <1>7 DEF Next, Main

\* The invariant holds in every reachable state.
THEOREM RingInvariance == Spec => []IInv
  BY InitIInv, NextIInv, PTL DEF Spec

\* Types: no semaphore and no undo value is ever negative.
THEOREM RingTypeCorrect == Spec => []TypeOK
<1>1. IInv => TypeOK
  BY DEF IInv
<1> QED
  BY <1>1, RingInvariance, PTL

\* Neighbours never eat together with a chopstick that exists between them,
\* for any number of philosophers, whoever is killed and whatever is missing.
THEOREM ExclusionHolds == Spec => []Exclusion
<1>1. IInv => Exclusion
  <2> SUFFICES ASSUME IInv, NEW p \in Phils, NEW q \in Phils,
                      pc[p] = "eating", pc[q] = "eating", q = Right(p), q \in made
               PROVE FALSE
    BY DEF Exclusion
  <2>1. q \in Sems /\ p = Left(q)
    BY Ring
  <2>2. undo[q][q] = 1 /\ undo[p][q] = 1
    BY <2>1 DEF IInv, UndoInv, Holds
  <2>3. value[q] + undo[q][q] + undo[p][q] = 1 /\ value[q] \in Nat
    BY <2>1 DEF IInv, ChopstickInv, TypeOK
  <2> QED
    BY <2>2, <2>3
<1> QED
  BY <1>1, RingInvariance, PTL

-----------------------------------------------------------------------------
(* Counting the seats of the room.                                         *)

\* The philosophers for whom the kernel has a seat to take back.
Seated == {p \in Phils : undo[p][Room] = 1}

\* Every seat is free or owed by a philosopher.
RoomInv == Room \in made => value[Room] + Cardinality(Seated) = Seats

LEMMA SeatedCounts ==
  ASSUME NEW S \in SUBSET Phils
  PROVE  IsFiniteSet(S) /\ Cardinality(S) \in Nat
<1>1. IsFiniteSet(Phils)
  BY SizeAssumption, FS_Interval DEF Phils
<1> QED
  BY <1>1, FS_Subset, FS_CardinalityType

LEMMA SeatedPhils == Seated \in SUBSET Phils
  BY DEF Seated

\* One more, or one less.
LEMMA SeatTaken ==
  ASSUME NEW S \in SUBSET Phils, NEW p \in Phils, p \notin S
  PROVE  Cardinality(S \cup {p}) = Cardinality(S) + 1
  BY SeatedCounts, FS_AddElement

LEMMA SeatGiven ==
  ASSUME NEW S \in SUBSET Phils, NEW p \in S
  PROVE  Cardinality(S \ {p}) = Cardinality(S) - 1 /\ Cardinality(S) >= 1
<1>1. Cardinality((S \ {p}) \cup {p}) = Cardinality(S \ {p}) + 1
  BY SeatTaken
<1>2. (S \ {p}) \cup {p} = S
  OBVIOUS
<1> QED
  BY <1>1, <1>2, SeatedCounts

LEMMA RoomInit == Init => RoomInv
<1> SUFFICES ASSUME Init PROVE RoomInv
  OBVIOUS
<1>1. Seated = {}
  BY Ring DEF Init, Seated, Sems
<1>2. value[Room] = Seats
  BY DEF Init, Sems
<1> QED
  BY <1>1, <1>2, FS_EmptySet, SizeAssumption DEF RoomInv

\* Entering takes a seat, leaving and dying give one back; chopsticks do not
\* count.
LEMMA RoomOnP ==
  ASSUME IInv, RoomInv, NEW p \in Phils, NEW s \in Sems, SemP(p, s), UNCHANGED made,
         s = Room => pc[p] = "thinking"
  PROVE  RoomInv'
<1> USE DEF IInv
<1>1. CASE s # Room \/ s \notin made
  <2>1. UNCHANGED <<Seated, value[Room]>> \/ Room \notin made
    BY <1>1 DEF SemP, Seated, TypeOK, Sems
  <2> QED
    BY <2>1 DEF RoomInv
<1>2. CASE s = Room /\ s \in made
  <2>1. undo[p][Room] = 0
    BY <1>2, Ring DEF UndoInv, Holds, InRoom
  <2>2. p \notin Seated /\ Seated' = Seated \cup {p}
    BY <1>2, <2>1 DEF SemP, Seated, TypeOK
  <2>3. value'[Room] = value[Room] - 1 /\ value[Room] \in Nat
    BY <1>2 DEF SemP, TypeOK
  <2> QED
    BY <2>2, <2>3, SeatTaken, SeatedCounts DEF RoomInv, Seated
<1> QED
  BY <1>1, <1>2

LEMMA RoomOnV ==
  ASSUME IInv, RoomInv, NEW p \in Phils, NEW s \in Sems, SemV(p, s), UNCHANGED made,
         s = Room => pc[p] = "leave_room"
  PROVE  RoomInv'
<1> USE DEF IInv
<1>1. CASE s # Room \/ s \notin made
  <2>1. UNCHANGED <<Seated, value[Room]>> \/ Room \notin made
    BY <1>1, SMTT(40) DEF SemV, Seated, TypeOK, Sems
  <2> QED
    BY <2>1 DEF RoomInv
<1>2. CASE s = Room /\ s \in made
  <2>1. undo[p][Room] = 1
    BY <1>2, Ring DEF UndoInv, Holds, InRoom
  <2>2. p \in Seated /\ Seated' = Seated \ {p}
    BY <1>2, <2>1 DEF SemV, Seated, TypeOK
  <2>3. value'[Room] = value[Room] + 1 /\ value[Room] \in Nat
    BY <1>2 DEF SemV, TypeOK
  <2>4. Cardinality(Seated \ {p}) = Cardinality(Seated) - 1 /\ Cardinality(Seated) \in Nat
    BY <2>2, SeatedPhils, SeatGiven, SeatedCounts
  <2> QED
    BY <1>2, <2>2, <2>3, <2>4 DEF RoomInv
<1> QED
  BY <1>1, <1>2

LEMMA RoomOnExit ==
  ASSUME IInv, RoomInv, NEW p \in Phils, Exit(p)
  PROVE  RoomInv'
<1> SUFFICES ASSUME Room \in made PROVE value'[Room] + Cardinality(Seated') = Seats
  BY DEF RoomInv, Exit
<1> USE DEF IInv
<1>1. /\ value'[Room] = value[Room] + undo[p][Room]
      /\ value[Room] \in Nat /\ undo[p][Room] \in 0..1
      /\ value[Room] + Cardinality(Seated) = Seats
  BY Ring DEF Exit, TypeOK, RoomInv
<1>2. \A q \in Phils : undo'[q][Room] = IF q = p THEN 0 ELSE undo[q][Room]
  BY Ring DEF Exit, TypeOK
<1>3. CASE undo[p][Room] = 1
  <2>1. p \in Seated /\ Seated' = Seated \ {p}
    BY <1>2, <1>3 DEF Seated
  <2>2. Cardinality(Seated \ {p}) = Cardinality(Seated) - 1 /\ Cardinality(Seated) \in Nat
    BY <2>1, SeatedPhils, SeatGiven, SeatedCounts
  <2> QED
    BY <1>1, <1>3, <2>1, <2>2
<1>4. CASE undo[p][Room] = 0
  <2>1. Seated' = Seated
    BY <1>2, <1>4 DEF Seated
  <2> QED
    BY <1>1, <1>4, <2>1
<1> QED
  BY <1>1, <1>3, <1>4

LEMMA RoomNext == IInv /\ RoomInv /\ [Next]_vars => RoomInv'
<1> SUFFICES ASSUME IInv, RoomInv, [Next]_vars PROVE RoomInv'
  OBVIOUS
<1>1. ASSUME UNCHANGED <<value, undo>>, made' \subseteq made PROVE RoomInv'
  BY <1>1 DEF RoomInv, Seated
<1>2. ASSUME NEW p \in Phils, Step(p) PROVE RoomInv'
  <2>1. CASE Enter(p) \/ TakeLeft(p) \/ TakeRight(p)
    BY <2>1, RoomOnP, Ring DEF Enter, TakeLeft, TakeRight
  <2>2. CASE PutRight(p) \/ PutLeft(p) \/ Leave(p)
    BY <2>2, RoomOnV, Ring DEF PutRight, PutLeft, Leave
  <2>3. CASE StopEating(p)
    BY <2>3, <1>1 DEF StopEating
  <2> QED
    BY <1>2, <2>1, <2>2, <2>3 DEF Step
<1>3. ASSUME NEW p \in Phils, Killed(p) \/ Exit(p) PROVE RoomInv'
  BY <1>1, <1>3, RoomOnExit DEF Killed
<1>4. CASE Main \/ UNCHANGED vars
  BY <1>1, <1>4 DEF Main, Fork, Terminate, Remove, vars
<1> QED
  BY <1>2, <1>3, <1>4 DEF Next

LEMMA RoomInvariance == Spec => [](IInv /\ RoomInv)
  BY RoomInit, RoomNext, RingInvariance, PTL DEF Spec

\* A killed philosopher gives back whatever it held: when nobody is between the
\* first operation and the last, all semaphores have their first values.
THEOREM AllGivenBackHolds == Spec => []AllGivenBack
<1>1. IInv /\ RoomInv => AllGivenBack
  <2> SUFFICES ASSUME IInv, RoomInv, NEW s \in made,
                      \A p \in Phils : pc[p] \in {"unborn", "thinking", "dead"}
               PROVE value[s] = IF s = Room THEN Seats ELSE 1
    BY DEF AllGivenBack
  <2>1. s \in Sems /\ \A p \in Phils : undo[p][s] = 0
    BY DEF IInv, TypeOK, UndoInv, Holds, InRoom
  <2>2. value[s] \in Nat
    BY <2>1 DEF IInv, TypeOK
  <2>3. CASE s = Room
    <3>1. Seated = {}
      BY <2>1, <2>3 DEF Seated
    <3> QED
      BY <2>2, <2>3, <3>1, FS_EmptySet DEF RoomInv
  <2>4. CASE s # Room
    <3>1. s \in Phils /\ Left(s) \in Phils
      BY <2>1, <2>4, Ring DEF Sems
    <3> QED
      BY <2>1, <2>2, <2>4, <3>1 DEF IInv, ChopstickInv
  <2> QED
    BY <2>3, <2>4
<1> QED
  BY <1>1, RoomInvariance, PTL

-----------------------------------------------------------------------------
(* Nobody can wait in a circle.                                            *)

\* A non-empty set of numbers has a least one.
LEMMA Least ==
  ASSUME NEW S \in SUBSET Nat, S # {}
  PROVE  \E n \in S : \A m \in S : n <= m
<1>1. PICK n \in S : \A m \in S : <<m, n>> \notin OpToRel(<, Nat)
  BY NatLessThanWellFounded, WFMin
<1>2. \A m \in S : <<m, n>> \notin OpToRel(<, Nat) => ~(m < n)
  BY Zenon DEF OpToRel
<1>3. \A m \in S : ~(m < n)
  BY <1>1, <1>2
<1>4. \A m \in S : n <= m
  BY <1>3
<1> QED
  BY <1>4

\* Who goes round the ring meets everybody.
LEMMA WholeRing ==
  ASSUME NEW X \in SUBSET Phils, X # {}, \A p \in X : Right(p) \in X
  PROVE  X = Phils
<1>1. N - 1 \in X
  <2> DEFINE back == {k \in Nat : k < N /\ N - 1 - k \in X}
  <2>1. back # {}
    <3>1. PICK p \in X : TRUE
      OBVIOUS
    <3>2. N - 1 - p \in Nat /\ N - 1 - p < N /\ N - 1 - (N - 1 - p) = p
      BY SizeAssumption DEF Phils
    <3> QED
      BY <3>1, <3>2
  <2>2. PICK k \in back : \A m \in back : k <= m
    BY <2>1, Least
  <2>3. CASE k = 0
    BY <2>2, <2>3, SizeAssumption
  <2>4. CASE k > 0
    <3>1. k \in Nat /\ N - 1 - k \in X /\ k < N
      OBVIOUS
    <3>2. Right(N - 1 - k) = N - 1 - (k - 1)
      BY <2>4, <3>1, SizeAssumption DEF Right
    <3>3. N - 1 - (k - 1) \in X
      BY <3>1, <3>2
    <3>4. k - 1 \in Nat /\ k - 1 < N
      BY <2>4, <3>1, SizeAssumption
    <3>5. k - 1 \in back
      BY <3>3, <3>4
    <3> QED
      BY <2>2, <3>1, <3>5
  <2> QED
    BY <2>2, <2>3, <2>4
<1>2. 0 \in X
  BY <1>1 DEF Right
<1>3. ASSUME X # Phils PROVE FALSE
  <2>0. Phils \in SUBSET Nat
    BY SizeAssumption DEF Phils
  <2>1. Phils \ X \in SUBSET Nat /\ Phils \ X # {}
    BY <1>3, <2>0
  <2>2. PICK n \in Phils \ X : \A m \in Phils \ X : n <= m
    BY <2>1, Least
  <2>3. n \in Phils /\ n # 0 /\ n - 1 \in Phils /\ n \notin X
    BY <1>2, <2>2, SizeAssumption DEF Phils
  <2>4. n - 1 \in X
    BY <2>2, <2>3 DEF Phils
  <2>5. Right(n - 1) = n
    BY <2>3, SizeAssumption DEF Right, Phils
  <2> QED
    BY <2>3, <2>4, <2>5
<1> QED
  BY <1>3

\* A philosopher who waits for a chopstick waits for one in the room: the left
\* neighbour, who eats or has just eaten, or the right one, who holds it.
LEMMA WaitsFor ==
  ASSUME IInv, NEW p \in Phils, \A q \in Phils : pc[q] # "killed", Blocked(p)
  PROVE  \/ pc[p] = "left" /\ pc[Left(p)] \in {"eating", "leave_right"}
         \/ /\ pc[p] = "right"
            /\ pc[Right(p)] \in {"right", "eating", "leave_right", "leave_left"}
<1> USE DEF IInv
<1>1. CASE pc[p] = "left" /\ p \in made /\ value[p] = 0
  <2>1. undo[p][p] = 0 /\ undo[Left(p)][p] \in 0..1 /\ undo[p][p] \in 0..1
    BY <1>1, Ring DEF UndoInv, Holds, InRoom, TypeOK
  <2>2. undo[Left(p)][p] = 1
    BY <1>1, <2>1 DEF ChopstickInv
  <2>3. Holds(Left(p), p)
    BY <1>1, <2>2, Ring DEF UndoInv
  <2> QED
    BY <1>1, <2>3, Ring DEF Holds
<1>2. CASE pc[p] = "right" /\ Right(p) \in made /\ value[Right(p)] = 0
  <2> DEFINE q == Right(p)
  <2>1. q \in Phils /\ Left(q) = p /\ q # p /\ p # Room /\ q # Room /\ q \in Sems
    BY Ring
  <2> HIDE DEF q
  <2>2. Right(p) = q
    BY DEF q
  <2>3. undo[p][q] = 0 /\ undo[q][q] \in 0..1
    BY <1>2, <2>1, <2>2 DEF UndoInv, Holds, TypeOK
  <2>4. undo[q][q] = 1
    BY <1>2, <2>1, <2>2, <2>3 DEF ChopstickInv
  <2>5. Holds(q, q)
    BY <1>2, <2>1, <2>2, <2>4 DEF UndoInv
  <2>6. Right(q) # q
    BY <2>1, Ring
  <2> QED
    BY <1>2, <2>1, <2>2, <2>5, <2>6 DEF Holds
<1> QED
  BY <1>1, <1>2 DEF Blocked

\* With fewer seats than philosophers (4 and 5 in the code) never all of those
\* in the room are stuck, for any number of philosophers.
THEOREM NeverAllStuckHolds ==
  ASSUME Seats < N
  PROVE  Spec => []NeverAllStuck
<1>1. IInv /\ RoomInv => NeverAllStuck
  <2> SUFFICES ASSUME IInv, RoomInv, Room \in made, InRoom # {},
                      \A p \in Phils : pc[p] # "killed",
                      \A p \in InRoom : Blocked(p)
               PROVE FALSE
    BY DEF NeverAllStuck
  <2>1. \A p \in InRoom : p \in Phils
    BY DEF InRoom
  <2>2. \A p \in InRoom : pc[p] = "right" /\ Right(p) \in InRoom
    <3> SUFFICES ASSUME NEW p \in InRoom
                 PROVE pc[p] = "right" /\ Right(p) \in InRoom
      OBVIOUS
    <3>1. p \in Phils /\ Blocked(p) /\ Right(p) \in Phils /\ Left(p) \in Phils
      BY <2>1, Ring
    <3>2. CASE pc[p] = "left" /\ pc[Left(p)] \in {"eating", "leave_right"}
      <4>1. Left(p) \in InRoom /\ ~Blocked(Left(p))
        BY <3>1, <3>2 DEF InRoom, Blocked
      <4> QED
        BY <4>1
    <3>3. CASE /\ pc[p] = "right"
               /\ pc[Right(p)] \in {"right", "eating", "leave_right", "leave_left"}
      BY <3>1, <3>3 DEF InRoom
    <3> QED
      BY <3>1, <3>2, <3>3, WaitsFor
  <2>3. InRoom = Phils
    BY <2>1, <2>2, WholeRing
  <2>4. Seated = Phils
    BY <2>3, Ring DEF Seated, IInv, UndoInv, Holds
  <2>5. Cardinality(Phils) = N
    BY SizeAssumption, FS_Interval DEF Phils
  <2>6. value[Room] + N = Seats /\ value[Room] \in Nat
    BY <2>4, <2>5, Ring DEF RoomInv, IInv, TypeOK
  <2> QED
    BY <2>6, SizeAssumption
<1> QED
  BY <1>1, RoomInvariance, PTL
=============================================================================
