------------------------------- MODULE ShMem --------------------------------
(***************************************************************************)
(* CH03/11shmem.c: runs of the program set or get a text in a shared       *)
(* segment.  The first user of the key creates the segment and clears it,  *)
(* in steps that other runs may fall between.                              *)
(***************************************************************************)
EXTENDS FiniteSets

CONSTANTS Setters, Getters, \* runs of "set" and of "get"
          None              \* no segment, or no memory

Procs == Setters \cup Getters
Cleared == "cleared"

VARIABLES
  key,      \* the segment the key leads to; a segment is named by its creator
  text,     \* text[i]: what segment i holds: the zeros of its creation or of a
            \* memset, or the text of a run of "set" (its argument, which is
            \* the empty text when there is none)
  pc,       \* pc[p]: the call run p makes next
  shmidx,   \* shmidx[p]: the segment it got
  created,  \* created[p]: newcreated
  raced,    \* history: a text was stored while a first user had yet to clear
  failed,   \* history: some run could not attach
  stored    \* history: a set has come back

seg == <<key, text>>
history == <<raced, failed, stored>>
vars == <<seg, pc, shmidx, created, history>>

Init == /\ key = None /\ text = [i \in Procs |-> Cleared]
        /\ pc = [p \in Procs |-> "look"]
        /\ shmidx = [p \in Procs |-> None] /\ created = [p \in Procs |-> FALSE]
        /\ raced = FALSE /\ failed = FALSE /\ stored = FALSE

Goto(p, next) == pc' = [pc EXCEPT ![p] = next]
Found(p, i) == shmidx' = [shmidx EXCEPT ![p] = i]
Attached(i) == {p \in Procs : shmidx[p] = i /\ pc[p] \in {"clear", "use", "detach"}}

\* Slip: the segment a run finds counts as created by it.
SlipLook(p) == /\ pc[p] = "look"
               /\ IF key = None THEN Goto(p, "create") /\ UNCHANGED <<shmidx, created>>
                                ELSE /\ Goto(p, "attach") /\ Found(p, key)
                                     /\ created' = [created EXCEPT ![p] = TRUE]
               /\ UNCHANGED <<seg, history>>

\* shmget without IPC_CREAT.
Look(p) == /\ pc[p] = "look"
           /\ IF key = None THEN Goto(p, "create") /\ UNCHANGED shmidx
                            ELSE Goto(p, "attach") /\ Found(p, key)
           /\ UNCHANGED <<seg, created, history>>

\* shmget with IPC_CREAT but without IPC_EXCL: it also succeeds on a segment
\* that somebody else has created since.  Or it fails.
Create(p) ==
  /\ pc[p] = "create"
  /\ IF key = None THEN key' = p /\ text' = [text EXCEPT ![p] = Cleared]
                   ELSE UNCHANGED seg
  /\ Found(p, key') /\ created' = [created EXCEPT ![p] = TRUE]
  /\ Goto(p, "attach")
  /\ UNCHANGED history

\* Without memory newcreated is not initialised: memset, strncpy and printf
\* all get a null pointer.
NoMemory(p) == Goto(p, "crash") /\ failed' = TRUE
CreateFails(p) == /\ pc[p] = "create" /\ NoMemory(p)
                  /\ UNCHANGED <<seg, shmidx, created, raced, stored>>

\* A segment that was removed is there as long as somebody is attached to it.
Attach(p) == /\ pc[p] = "attach"
             /\ shmidx[p] = key \/ Attached(shmidx[p]) # {}
             /\ Goto(p, IF created[p] THEN "clear" ELSE "use")
             /\ UNCHANGED <<seg, shmidx, created, history>>

\* Its creator takes the segment away, whoever uses it.
AttachFails(p) == /\ pc[p] = "attach"
                  /\ key' = IF created[p] /\ shmidx[p] = key THEN None ELSE key
                  /\ NoMemory(p)
                  /\ UNCHANGED <<text, shmidx, created, raced, stored>>

Clear(p) == /\ pc[p] = "clear"
            /\ text' = [text EXCEPT ![shmidx[p]] = Cleared]
            /\ Goto(p, "use")
            /\ UNCHANGED <<key, shmidx, created, history>>

\* A run that found no segment: it is going to clear what it finds or creates.
First(p) == pc[p] = "create" \/ (created[p] /\ pc[p] \in {"attach", "clear"})

\* strncpy, or printf.
Use(p) == /\ pc[p] = "use"
          /\ IF p \in Setters
               THEN /\ text' = [text EXCEPT ![shmidx[p]] = p]
                    /\ raced' = (raced \/ \E q \in Procs : First(q))
               ELSE UNCHANGED <<text, raced>>
          /\ Goto(p, "detach")
          /\ UNCHANGED <<key, shmidx, created, failed, stored>>

Detach(p) == /\ pc[p] = "detach" /\ Goto(p, "end")
             /\ stored' = (stored \/ p \in Setters)
             /\ UNCHANGED <<seg, shmidx, created, raced, failed>>

Step(p) == \/ Look(p) \/ Create(p) \/ CreateFails(p) \/ Attach(p) \/ AttachFails(p)
           \/ Clear(p) \/ Use(p) \/ Detach(p)
Next == \E p \in Procs : Step(p)
Spec == Init /\ [][Next]_vars

-----------------------------------------------------------------------------
\* A text that was stored is there for every later get: once a set has come
\* back the segment holds what some set put there, unless that was stored before
\* a first user had cleared the segment, or one that could not attach removed it.
StoredStays == stored /\ ~raced /\ ~failed => key # None /\ text[key] # Cleared
=============================================================================
