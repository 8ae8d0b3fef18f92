--------------------------- MODULE VsysRunProofs ---------------------------
(* Theorems about VsysRun, for any number of process slots and any limit   *)
(* on descriptors.                                                         *)
EXTENDS VsysRun, TLAPS

\* A process that is or was a program shows the program's name; for one that
\* is collected while it is watched this needs looking to be quick.
ImageInv ==
  /\ \A p \in Progs : prog[p] = "running" => image[p] = "program"
  /\ Prompt /\ cur # Nobody =>
       (prog[cur] \in {"zombie", "reaped"} => image[cur] = "program")

\* A success was answered for a program, until the descriptors run out.
AnswerInv ==
  Prompt /\ lost < FreeFds =>
    \A p \in Progs : answer[p] = "success" => image[p] = "program"

\* A descriptor is opened only when one is free.
FdInv == step = "read" => lost < FreeFds /\ cur # Nobody /\ look < Looks

LookInv == cur # Nobody => look < Looks

IInv == TypeOK /\ ImageInv /\ AnswerInv /\ FdInv /\ LookInv

\* The initial states satisfy the inductive invariant.
LEMMA InitIInv == Init => IInv
  BY ConstantsAssumption
  DEF Init, IInv, TypeOK, ImageInv, AnswerInv, FdInv, LookInv, Looks

\* Every step preserves it: one step of the proof per action.
LEMMA NextIInv == IInv /\ [Next]_vars => IInv'
<1> SUFFICES ASSUME IInv, [Next]_vars PROVE IInv'
  OBVIOUS
<1> USE ConstantsAssumption DEF IInv, TypeOK, ImageInv, AnswerInv, FdInv, LookInv, Looks
<1>1. ASSUME NEW p \in Progs, ExecSucceeds(p) PROVE IInv'
  BY <1>1 DEF ExecSucceeds, watching, signals
<1>2. ASSUME NEW p \in Progs, ExecFails(p) PROVE IInv'
  BY <1>2 DEF ExecFails, watching, signals
<1>3. ASSUME NEW p \in Progs, Ends(p) PROVE IInv'
  BY <1>3 DEF Ends, watching
<1>4. CASE HandlerEnters
  BY <1>4 DEF HandlerEnters, watching
<1>5. ASSUME NEW p \in Progs, HandlerReaps(p) PROVE IInv'
  BY <1>5 DEF HandlerReaps, watching, signals
<1>6. CASE HandlerReturns
  BY <1>6 DEF HandlerReturns, watching
<1>7. ASSUME NEW p \in Progs, Fork(p) PROVE IInv'
  BY <1>7 DEF Fork, Free, signals
<1>8. ASSUME NEW p \in Progs, ForkFails(p) PROVE IInv'
  BY <1>8 DEF ForkFails, Free, watching, signals
<1>9. CASE OpenStat
  <2> USE <1>9 DEF OpenStat, Answer, signals
  <2>1. CASE prog[cur] = "reaped"
    BY <2>1
  <2>2. CASE prog[cur] # "reaped" /\ lost = FreeFds
    BY <2>2
  <2>3. CASE prog[cur] # "reaped" /\ lost # FreeFds
    BY <2>3
  <2> QED
    BY <2>1, <2>2, <2>3
<1>10. CASE SeesProgram
  <2> USE <1>10 DEF SeesProgram, Answer, signals
  <2>1. cur \in Progs /\ lost < FreeFds /\ lost' = lost + 1 /\ cur' = Nobody
    OBVIOUS
  <2>2. TypeOK' /\ ImageInv'
    BY <2>1
  <2>3. Prompt => image[cur] = "program"
    BY <2>1
  <2>4. AnswerInv'
    BY <2>1, <2>3
  <2>5. FdInv' /\ LookInv'
    BY <2>1
  <2> QED
    BY <2>2, <2>4, <2>5
<1>11. CASE SeesVsysd
  <2> USE <1>11 DEF SeesVsysd, Answer, signals
  <2>1. cur \in Progs /\ look < Looks /\ look' = look + 1 /\ step' = "open"
    OBVIOUS
  <2>2. CASE look' = Looks
    BY <2>1, <2>2
  <2>3. CASE look' # Looks
    BY <2>1, <2>3
  <2> QED
    BY <2>2, <2>3
<1>12. CASE UNCHANGED vars
  BY <1>12 DEF vars, watching, signals
<1> QED
  BY <1>1, <1>2, <1>3, <1>4, <1>5, <1>6, <1>7, <1>8, <1>9, <1>10, <1>11, <1>12
  DEF Next, Handler, Watch, Program

\* The invariant holds in every reachable state.
THEOREM RunInvariance == Spec => []IInv
  BY InitIInv, NextIInv, PTL DEF Spec

\* Types, with look and lost within their bounds.
THEOREM RunTypeCorrect == Spec => []TypeOK
<1>1. IInv => TypeOK
  BY DEF IInv
<1> QED
  BY <1>1, RunInvariance, PTL

\* While looking is quick and a descriptor is left, a user is never told that
\* a program started when exec failed, however many commands came before.
THEOREM ErrorExperiencedHolds == Spec => []ErrorExperiencedWithFds
<1>1. IInv => ErrorExperiencedWithFds
  BY DEF IInv, AnswerInv, ErrorExperiencedWithFds, ErrorExperienced
<1> QED
  BY <1>1, RunInvariance, PTL

\* A descriptor is lost only by a command answered with a success.
THEOREM LostOnlyBySuccessHolds == Spec => LostOnlyBySuccess
<1> DEFINE Step == lost' # lost =>
      /\ lost' = lost + 1
      /\ \E p \in Progs : cur = p /\ answer'[p] = "success"
<1>1. IInv /\ [Next]_vars => [Step]_vars
  <2> SUFFICES ASSUME IInv, [Next]_vars, lost' # lost PROVE Step
    OBVIOUS
  <2>1. SeesProgram
    BY DEF Next, Handler, Watch, Program, ExecSucceeds, ExecFails, Ends,
           HandlerEnters, HandlerReaps, HandlerReturns, Fork, ForkFails,
           OpenStat, SeesVsysd, vars, watching
  <2> QED
    BY <2>1 DEF SeesProgram, Answer, IInv, TypeOK
<1> QED
  BY <1>1, RunInvariance, PTL DEF Spec, LostOnlyBySuccess

\* No end of a process goes unnoticed, though one signal may stand for several:
\* whenever there is a zombie, SIGCHLD is pending or its handler has yet to
\* find it (the loop around waitpid in vsd_vsys_sig_child).  This is what
\* EveryProcessCollected rests on, with the fairness of the handler.
EndsNoticed ==
  (\E p \in Progs : prog[p] = "zombie") => sigchld = "pending" \/ handler = "running"

THEOREM EndsNoticedHolds == Spec => []EndsNoticed
<1>1. Init => EndsNoticed
  BY DEF Init, EndsNoticed
<1>2. EndsNoticed /\ TypeOK /\ [Next]_vars => EndsNoticed'
  <2> SUFFICES ASSUME EndsNoticed, TypeOK, [Next]_vars PROVE EndsNoticed'
    OBVIOUS
  <2>1. CASE Handler
    BY <2>1 DEF Handler, HandlerEnters, HandlerReaps, HandlerReturns, EndsNoticed, TypeOK, signals
  <2>2. CASE Watch
    BY <2>2 DEF Watch, OpenStat, SeesProgram, SeesVsysd, EndsNoticed, signals
  <2>3. ASSUME NEW p \in Progs, Program(p) PROVE EndsNoticed'
    BY <2>3 DEF Program, ExecSucceeds, ExecFails, Ends, EndsNoticed, TypeOK, signals
  <2>4. ASSUME NEW p \in Progs, Fork(p) \/ ForkFails(p) PROVE EndsNoticed'
    BY <2>4 DEF Fork, ForkFails, EndsNoticed, TypeOK, signals
  <2>5. CASE UNCHANGED vars
    BY <2>5 DEF vars, signals, EndsNoticed
  <2> QED
    BY <2>1, <2>2, <2>3, <2>4, <2>5 DEF Next
<1> QED
  BY <1>1, <1>2, RunTypeCorrect, PTL DEF Spec
=============================================================================
