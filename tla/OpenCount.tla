----------------------------- MODULE OpenCount ------------------------------
(***************************************************************************)
(* CH03/05opencnt.c: every run of the program counts itself in a file,     *)
(* which it reads in one opening and writes back in another, without a     *)
(* lock.  Runs may overlap, and may be killed.                             *)
(***************************************************************************)
EXTENDS Integers, FiniteSets

CONSTANT Runs

VARIABLES
  data,     \* what the file holds: "absent", "empty" or "number"
  number,   \* the number in it
  pc,       \* pc[r]: the call run r makes next
  opencnt,  \* opencnt[r]: its local variable
  spoilt,   \* history: runs that overlapped with another, or could not read
  alone     \* history: how many others have written since one of these wrote,
            \* or since a run left the file empty

file == <<data, number>>
vars == <<file, pc, opencnt, spoilt, alone>>

Init == /\ data = "absent" /\ number = 0
        /\ pc = [r \in Runs |-> "access"]
        /\ opencnt = [r \in Runs |-> 0]
        /\ spoilt = {} /\ alone = 0

Goto(r, next) == pc' = [pc EXCEPT ![r] = next]
Underway == {r \in Runs : pc[r] \in {"read", "open", "write"}}
Overlapped(r) == IF Underway = {} THEN {} ELSE Underway \cup {r}

\* access() and the first open(): the file is never removed in between.
Access(r) ==
  /\ pc[r] = "access"
  /\ Goto(r, IF data = "absent" THEN "open" ELSE "read")
  /\ spoilt' = spoilt \cup Overlapped(r)
  /\ UNCHANGED <<file, opencnt, alone>>

\* Slip: a whole number is taken for too few bytes.
SlipRead(r) ==
  /\ pc[r] = "read"
  /\ opencnt' = [opencnt EXCEPT ![r] = 0]
  /\ Goto(r, "open")
  /\ UNCHANGED <<file, spoilt, alone>>

\* Too few bytes are taken for a count of zero.
Read(r) ==
  /\ pc[r] = "read"
  /\ opencnt' = [opencnt EXCEPT ![r] = IF data = "number" THEN number ELSE 0]
  /\ Goto(r, "open")
  /\ UNCHANGED <<file, spoilt, alone>>

\* The file cannot be opened for reading, or not be looked for: a count of
\* zero as well.  (A read() that fails with -1 is not seen, the comparison being
\* unsigned; files do not do that.)
ReadFails(r) == /\ pc[r] \in {"access", "read"}
                /\ Goto(r, "open")
                /\ spoilt' = spoilt \cup Underway \cup {r}
                /\ UNCHANGED <<file, opencnt, alone>>

\* O_CREAT | O_TRUNC: from here to the write the file is empty.
Open(r) == /\ pc[r] = "open"
           /\ data' = "empty" /\ number' = 0
           /\ Goto(r, "write")
           /\ UNCHANGED <<opencnt, spoilt, alone>>

Write(r) == /\ pc[r] = "write"
            /\ data' = "number" /\ number' = opencnt[r] + 1
            /\ alone' = IF r \in spoilt THEN 0 ELSE alone + 1
            /\ Goto(r, "done")
            /\ UNCHANGED <<opencnt, spoilt>>

\* The file cannot be opened for writing, or cannot be written; or the run is
\* killed.  After the second open() an empty file is left.
CutShort(r) == /\ pc[r] \in {"read", "open", "write"}
               /\ Goto(r, "failed")
               /\ alone' = IF pc[r] = "write" THEN 0 ELSE alone
               /\ UNCHANGED <<file, opencnt, spoilt>>

Step(r) == Access(r) \/ Read(r) \/ ReadFails(r) \/ Open(r) \/ Write(r) \/ CutShort(r)
Next == \E r \in Runs : Step(r)

Spec == Init /\ [][Next]_vars

-----------------------------------------------------------------------------
TypeOK ==
  /\ data \in {"absent", "empty", "number"} /\ number \in Nat
  /\ pc \in [Runs -> {"access", "read", "open", "write", "done", "failed"}]
  /\ opencnt \in [Runs -> Nat]
  /\ spoilt \subseteq Runs /\ alone \in Nat

Done == {r \in Runs : pc[r] = "done"}

\* Between an opening of the file for writing and the write there is no count in
\* it.  Else an opening of the program is only lost by runs that overlap, by one
\* that cannot read the count, or by one that ends before it writes it: every
\* run that read and wrote alone since then is in the number.  And no opening is
\* counted twice, whatever happens.
LostBySpoiltOnly ==
  /\ (\A r \in Runs : pc[r] # "write") => alone <= number
  /\ number <= Cardinality(Done)
=============================================================================
