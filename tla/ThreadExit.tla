----------------------------- MODULE ThreadExit -----------------------------
(***************************************************************************)
(* CH03/09thread.c: main asks a thread to end with a flag that is no       *)
(* atomic and that the thread takes down itself.  Both write the time into *)
(* one static buffer before each line they print.                          *)
(***************************************************************************)
EXTENDS Naturals

CONSTANT CreateMayFail   \* pthread_create may fail; its result is not looked at

VARIABLES
  flag,    \* thread_exit_sigval
  timebuf, \* "empty", "raw": with the newline of ctime(), or "clean"
  at,      \* at[t]: where thread t is: a line it prints, or a call
  doing,   \* doing[t]: the part of that line's current_time_str and printf
  shown    \* shown[t]: the last line t printed, and its time

vars == <<flag, timebuf, at, doing, shown>>

Threads == {"main", "sub"}
Lines == {"create", "created", "tick", "signal", "exit", "exited"}

Init == /\ flag = 0 /\ timebuf = "empty"
        /\ at = [main |-> "create", sub |-> "none"]
        /\ doing = [t \in Threads |-> "copy"]
        /\ shown = [t \in Threads |-> <<"none", "clean">>]

Goto(t, next) == at' = [at EXCEPT ![t] = next]

\* strcpy, strchr and the zero in place of the newline, printf: the buffer is
\* read when the line is printed.
Copy(t) == /\ at[t] \in Lines /\ doing[t] = "copy"
           /\ timebuf' = "raw"
           /\ doing' = [doing EXCEPT ![t] = "cut"]
           /\ UNCHANGED <<flag, at, shown>>
Cut(t) == /\ at[t] \in Lines /\ doing[t] = "cut"
          /\ timebuf' = "clean"
          /\ doing' = [doing EXCEPT ![t] = "print"]
          /\ UNCHANGED <<flag, at, shown>>

After(line) ==
  CASE line = "create" -> "pthread_create" [] line = "created" -> "sleep"
    [] line = "signal" -> "set"            [] line = "exited" -> "end"
    [] line = "tick" -> "loop"             [] line = "exit" -> "reset"
PrintLine(t) == /\ at[t] \in Lines /\ doing[t] = "print"
            /\ shown' = [shown EXCEPT ![t] = <<at[t], timebuf>>]
            /\ Goto(t, After(at[t]))
            /\ doing' = [doing EXCEPT ![t] = "copy"]
            /\ UNCHANGED <<flag, timebuf>>

Create == /\ at["main"] = "pthread_create"
          /\ \/ at' = [main |-> "created", sub |-> "loop"]
             \/ CreateMayFail /\ Goto("main", "created")
          /\ UNCHANGED <<flag, timebuf, doing, shown>>
Sleep == /\ at["main"] = "sleep" /\ Goto("main", "signal")
         /\ UNCHANGED <<flag, timebuf, doing, shown>>
Set == /\ at["main"] = "set" /\ flag' = 1 /\ Goto("main", "join")
       /\ UNCHANGED <<timebuf, doing, shown>>

\* Slip: main does not wait for the thread.
SlipJoin == /\ at["main"] = "join" /\ Goto("main", "exited")
            /\ UNCHANGED <<flag, timebuf, doing, shown>>

\* Without a thread the id is uninitialised: an error, or a crash.
Join == /\ at["main"] = "join"
        /\ \/ at["sub"] \in {"none", "end"} /\ Goto("main", "exited")
           \/ at["sub"] = "none" /\ Goto("main", "crash")
        /\ UNCHANGED <<flag, timebuf, doing, shown>>

Loop == /\ at["sub"] = "loop"
        /\ Goto("sub", IF flag = 0 THEN "tick" ELSE "exit")
        /\ UNCHANGED <<flag, timebuf, doing, shown>>

\* Slip: the thread takes the flag down and looks at it again.
SlipReset == /\ at["sub"] = "reset" /\ flag' = 0 /\ Goto("sub", "loop")
             /\ UNCHANGED <<timebuf, doing, shown>>

Reset == /\ at["sub"] = "reset" /\ flag' = 0 /\ Goto("sub", "end")
         /\ UNCHANGED <<timebuf, doing, shown>>

Line(t) == Copy(t) \/ Cut(t) \/ PrintLine(t)
Main == Line("main") \/ Create \/ Sleep \/ Set \/ Join
Sub == Line("sub") \/ Loop \/ Reset
Next == Main \/ Sub

\* The scheduler runs both threads.
Spec == Init /\ [][Next]_vars /\ WF_vars(Main) /\ WF_vars(Sub)

-----------------------------------------------------------------------------
\* A line is printed with the newline of ctime() in it only while the other
\* thread is between its strcpy and its cut: what either of them finds in the
\* buffer they share is else a whole time.  Main's lines before there is a
\* thread and after it has ended are always whole.
TornByOtherOnly ==
  /\ \A t \in Threads : doing[t] = "print" /\ timebuf # "clean" =>
       \E o \in Threads \ {t} : at[o] \in Lines /\ doing[o] = "cut"
  /\ shown["main"][1] \in {"create", "exited"} => shown["main"][2] = "clean"

\* Taking the flag down does not lose the request: main comes back from the
\* join, once the thread it created has printed its last line.
JoinReturns ==
  <>(\/ at["main"] = "end" /\ (at["sub"] = "none" \/ shown["sub"][1] = "exit")
     \/ at["main"] = "crash" /\ at["sub"] = "none")
=============================================================================
