-------------------------- MODULE VsysdCrashProofs --------------------------
(***************************************************************************)
(* Proofs about VsysdCrash: however many users, children and daemons are   *)
(* killed, and wherever, the table, the pipes and the descriptors of the   *)
(* daemon stay its own.                                                    *)
(*                                                                         *)
(* The invariant of VsysdProofs says too much here: the child behind an    *)
(* entry may be dead.  Four parts of it remain true: OwnInv, the slot of   *)
(* an entry was cloned for it and is not free; EndsInv, a living child has *)
(* its end of the pipe, so that an end of file means a dead one; LeakInv,  *)
(* the pipe ends of the daemon; and PipeInv, what a child still owes.  To  *)
(* these CmdInv adds which command a handler waits for.                    *)
(***************************************************************************)
EXTENDS VsysdCrash, VsysdProofs

OwnInv ==
  /\ \A i \in Ids : Registered(i) =>
       cid[vsysinfo[i]] = i /\ child[vsysinfo[i]] # "none"
  /\ \A p \in Procs : child[p] # "none" => cid[p] \in Ids

EndsInv == \A p \in Procs : Live(p) => <<p, "cw">> \in fd[p]

LeakInv == fd[Daemon] = IF Alive THEN EndsOf(RegisteredProcs) ELSE {}

\* Nothing more will come from p, or one answer at most.
Quiet(p) == up[p] = << >> /\ (Live(p) => child[p] = "serving" /\ down[p] = << >>)
OwesOne(p) ==
  \/ Quiet(p)
  \/ up[p] = << >> /\ child[p] = "starting" /\ down[p] = << >>
  \/ up[p] = << >> /\ child[p] # "starting" /\ \E m \in Requests : down[p] = <<m>>
  \/ /\ \E r \in Responses : up[p] = <<r>>
     /\ Live(p) => child[p] = "serving" /\ down[p] = << >>
PipeInv == Alive => \A p \in RegisteredProcs :
                      IF Awaited(p) THEN OwesOne(p) ELSE Quiet(p)

\* The command whose answer a handler waits for.
CmdInv == /\ pc = "await_create" => msg.cmd = "create"
          /\ pc = "await_run" => msg.cmd = "run"
          /\ pc = "await_destroy" => msg.cmd = "destroy"

CInv == TypeInv /\ CmdInv /\ OwnInv /\ EndsInv /\ LeakInv /\ PipeInv

\* The parts that a step may disturb in more than one way.
KeptInv == OwnInv /\ EndsInv /\ LeakInv /\ PipeInv

\* The process behind the entry of the command being served.
LEMMA CrashTarget ==
  ASSUME CInv, pc \in Waits
  PROVE  /\ msg \in Requests /\ msg.id \in Ids /\ Target = vsysinfo[msg.id]
         /\ Target \in Procs /\ Target \in RegisteredProcs /\ Registered(msg.id)
         /\ Alive /\ csock # Nobody /\ pc \in Turn
         /\ \A i \in Ids : vsysinfo[i] = Target => i = msg.id
<1> USE DEF CInv
<1>1. msg \in Requests /\ Registered(msg.id) /\ pc \in Turn /\ csock # Nobody
  BY DEF TypeInv, TypeOK, TurnInv, Waits, Turn
<1>2. msg.id \in Ids
  BY <1>1, RequestType
<1>3. Target = vsysinfo[msg.id] /\ Target \in Procs /\ Target # Nobody
  BY <1>1, <1>2 DEF TypeInv, TypeOK, Registered, Target
<1>4. Target \in RegisteredProcs
  BY <1>2, <1>3 DEF RegisteredProcs
<1>5. \A i \in Ids : vsysinfo[i] = Target => i = msg.id
  BY <1>1, <1>2, <1>3 DEF OwnInv, Registered
<1> QED
  BY <1>1, <1>2, <1>3, <1>4, <1>5 DEF Turn, Alive

LEMMA RegisteredType ==
  ASSUME TypeInv, NEW p \in RegisteredProcs
  PROVE  p \in Procs /\ \E i \in Ids : vsysinfo[i] = p /\ Registered(i)
  BY DEF RegisteredProcs, Registered, TypeInv, TypeOK

\* What happens to the daemon's descriptors when a turn or its life ends.
LEMMA CrashReply ==
  ASSUME CInv, pc \in Turn, NEW r, NEW ends, Reply(r, ends)
  PROVE  /\ fd' = [fd EXCEPT ![Daemon] = IF Alive' THEN ends ELSE {}]
         /\ pc' \in {"accept", "killed"}
  BY DEF Reply, HangUp, Stops, Alive

\* Steps of users and of the daemon, its death included, that touch neither the
\* table nor the children, and stop waiting only for a vsys that owes nothing.
LEMMA CrashFrame ==
  ASSUME CInv, UNCHANGED <<vsysinfo, child, cid, down, up>>,
         \/ UNCHANGED fd /\ Alive' = Alive
         \/ fd' = [fd EXCEPT ![Daemon] = IF Alive' THEN fd[Daemon] ELSE {}] /\ Alive,
         Alive' => \A p \in RegisteredProcs : Awaited(p) => Awaited(p)' \/ Quiet(p)
  PROVE  KeptInv'
<1> USE DEF CInv
<1>1. RegisteredProcs' = RegisteredProcs /\ EndsOf(RegisteredProcs)' = EndsOf(RegisteredProcs)
  BY DEF RegisteredProcs, EndsOf
<1>2. OwnInv'
  BY DEF OwnInv, Registered
<1>3. EndsInv'
  BY ConstantsAssumption DEF EndsInv, Live, TypeInv, TypeOK
<1>4. LeakInv'
  <2>1. CASE UNCHANGED fd /\ Alive' = Alive
    BY <1>1, <2>1 DEF LeakInv
  <2>2. CASE fd' = [fd EXCEPT ![Daemon] = IF Alive' THEN fd[Daemon] ELSE {}] /\ Alive
    BY <1>1, <2>2 DEF LeakInv, TypeInv, TypeOK
  <2> QED
    BY <2>1, <2>2
<1>5. PipeInv'
  <2> SUFFICES ASSUME Alive', NEW p \in RegisteredProcs
               PROVE  IF Awaited(p)' THEN OwesOne(p)' ELSE Quiet(p)'
    BY <1>1 DEF PipeInv
  <2>1. Alive
    OBVIOUS
  <2>2. (Quiet(p)' <=> Quiet(p)) /\ (OwesOne(p)' <=> OwesOne(p))
    BY DEF Quiet, OwesOne, Live
  <2>3. IF Awaited(p) THEN OwesOne(p) ELSE Quiet(p)
    BY <2>1 DEF PipeInv
  <2> QED
    BY <2>2, <2>3 DEF OwesOne
<1> QED
  BY <1>2, <1>3, <1>4, <1>5 DEF KeptInv

LEMMA CrashInit == CInit => CInv
<1> SUFFICES ASSUME CInit PROVE CInv
  OBVIOUS
<1>1. /\ Alive /\ \A i \in Ids : vsysinfo[i] = Nobody
      /\ \A p \in Procs : child[p] = "none" /\ fd[Daemon] = {}
      /\ fd[Daemon] = {}
  BY DEF CInit, Init, Alive
<1>2. RegisteredProcs = {} /\ EndsOf(RegisteredProcs) = {}
  BY <1>1 DEF RegisteredProcs, EndsOf
<1>3. OwnInv /\ EndsInv /\ LeakInv /\ PipeInv
  BY <1>1, <1>2 DEF OwnInv, EndsInv, LeakInv, PipeInv, Registered, Live
<1> QED
  BY <1>1, <1>3, TypeInit DEF CInit, Init, CInv, CmdInv

-----------------------------------------------------------------------------
(* The daemon.                                                             *)

\* A turn that does not reach a vsys.
LEMMA CrashIdle ==
  ASSUME CInv,
         \/ Accept \/ AcceptFails \/ Recv \/ RecvEof \/ RecvEofCrash \/ RecvNoMemory
         \/ UnknownCommand \/ CreateExisting \/ NoSuchVsys \/ CreateFails \/ CreateNoStack
         \/ SendDownBroken
  PROVE  KeptInv'
<1> USE DEF childVars, socketVars, clientVars
<1>1. UNCHANGED <<vsysinfo, child, cid, down, up>>
  BY DEF Accept, AcceptFails, Recv, RecvEof, RecvEofCrash, RecvNoMemory, UnknownCommand,
         CreateExisting, NoSuchVsys, CreateFails, CreateNoStack, SendDownBroken
<1>2. pc \in {"accept", "recv", "dispatch"} /\ Alive
  BY DEF Accept, AcceptFails, Recv, RecvEof, RecvEofCrash, RecvNoMemory, UnknownCommand,
         CreateExisting, NoSuchVsys, CreateFails, CreateNoStack, SendDownBroken, Alive
<1>3. \A p \in RegisteredProcs : ~Awaited(p)
  BY <1>2 DEF Awaited
<1>4. CASE UnknownCommand
  BY <1>1, <1>2, <1>3, <1>4, CrashReply, CrashFrame DEF UnknownCommand, Turn
<1>5. CASE Stops("killed") \/ Stops("exited")
  BY <1>1, <1>2, <1>3, <1>5, CrashFrame DEF Stops, Alive
<1>6. CASE UNCHANGED fd /\ pc' \in {"accept", "recv", "dispatch"}
  BY <1>1, <1>2, <1>3, <1>6, CrashFrame DEF Alive
<1> QED
  BY <1>4, <1>5, <1>6
     DEF Accept, AcceptFails, Recv, RecvEof, RecvEofCrash, RecvNoMemory, CreateExisting,
         NoSuchVsys,
         CreateFails, CreateNoStack, SendDownBroken, HangUp

\* The end of file: with nothing in the pipe and nobody to write, nothing is owed.
LEMMA EofQuiet ==
  ASSUME CInv, pc \in Waits, AtEof(Target)
  PROVE  Quiet(Target)
<1>1. Target \in Procs
  BY CrashTarget
<1>2. ~Live(Target)
  BY <1>1 DEF CInv, EndsInv, AtEof
<1> QED
  BY <1>2 DEF Quiet, AtEof

\* A turn that ends, or goes on, without an answer from the vsys.
LEMMA CrashEof ==
  ASSUME CInv, AwaitRunEof \/ AwaitDestroyEof
               \/ (AwaitCreateEof /\ \E r : Reply(r, fd[Daemon]) /\ UNCHANGED vsysinfo)
  PROVE  KeptInv'
<1>1. pc \in Waits /\ AtEof(Target) /\ UNCHANGED <<vsysinfo, child, cid, down, up>>
  BY DEF AwaitRunEof, AwaitDestroyEof, AwaitCreateEof, Waits, childVars
<1>2. \A p \in RegisteredProcs : Awaited(p) => Quiet(p)
  BY <1>1, EofQuiet DEF Awaited
<1>3. Alive /\ pc \in Turn
  BY <1>1, CrashTarget
<1>4. CASE \E r : Reply(r, fd[Daemon])
  BY <1>1, <1>2, <1>3, <1>4, CrashReply, CrashFrame
<1>5. CASE UNCHANGED fd /\ pc' = "waitpid"
  BY <1>1, <1>2, <1>3, <1>5, CrashFrame DEF Alive
<1> QED
  BY <1>4, <1>5 DEF AwaitRunEof, AwaitDestroyEof, AwaitCreateEof

\* The answer of a vsys is read and nothing else of it changes.
LEMMA CrashAnswered ==
  ASSUME CInv, pc \in {"await_create", "await_destroy", "await_run"},
         up[Target] # << >>, up' = [up EXCEPT ![Target] = Tail(@)],
         UNCHANGED <<vsysinfo, child, cid, down>>,
         \/ UNCHANGED fd /\ pc' = "waitpid"
         \/ \E r : Reply(r, fd[Daemon])
  PROVE  KeptInv'
<1> USE DEF CInv
<1>0. pc \in Waits /\ pc \in Turn /\ Alive
  BY DEF Waits, Turn, Alive
<1>1. RegisteredProcs' = RegisteredProcs /\ EndsOf(RegisteredProcs)' = EndsOf(RegisteredProcs)
  BY DEF RegisteredProcs, EndsOf
<1>2. /\ fd' = [fd EXCEPT ![Daemon] = IF Alive' THEN fd[Daemon] ELSE {}]
      /\ pc' \in {"waitpid", "accept", "killed"}
  BY <1>0, CrashReply DEF Alive, TypeInv, TypeOK
<1>3. OwnInv'
  BY DEF OwnInv, Registered
<1>4. EndsInv'
  BY <1>2, ConstantsAssumption DEF EndsInv, Live, TypeInv, TypeOK
<1>5. LeakInv'
  BY <1>0, <1>1, <1>2 DEF LeakInv, TypeInv, TypeOK
<1>6. ASSUME NEW p \in RegisteredProcs PROVE Quiet(p)' /\ ~Awaited(p)'
  <2>1. ~Awaited(p)'
    BY <1>2 DEF Awaited
  <2>2. p \in Procs /\ Target \in Procs
    BY <1>0, RegisteredType, CrashTarget
  <2>3. CASE p = Target
    <3>1. OwesOne(p)
      BY <1>0, <2>3 DEF PipeInv, Awaited
    <3>2. (\E r \in Responses : up[p] = <<r>>)
          /\ (Live(p) => child[p] = "serving" /\ down[p] = << >>)
      BY <2>3, <3>1 DEF OwesOne, Quiet
    <3>3. up'[p] = << >>
      BY <2>2, <2>3, <3>2 DEF TypeInv, TypeOK
    <3> QED
      BY <2>1, <3>2, <3>3 DEF Quiet, Live
  <2>4. CASE p # Target
    <3>1. Quiet(p)
      BY <1>0, <2>4 DEF PipeInv, Awaited
    <3>2. up'[p] = up[p]
      BY <2>2, <2>4 DEF TypeInv, TypeOK
    <3> QED
      BY <2>1, <3>1, <3>2 DEF Quiet, Live
  <2> QED
    BY <2>3, <2>4
<1>7. PipeInv'
  BY <1>1, <1>6 DEF PipeInv
<1> QED
  BY <1>3, <1>4, <1>5, <1>7 DEF KeptInv

\* The entry of a vsys is cleaned, with the daemon's ends of its pipes.
LEMMA CrashCleans ==
  ASSUME CInv, pc \in Waits, Cleaned(msg.id),
         \E r : Reply(r, fd[Daemon] \ ParentEnds(Target)),
         UNCHANGED <<cid, down>>,
         up' = up \/ up' = [up EXCEPT ![Target] = Tail(@)],
         child' = child \/ child' = [child EXCEPT ![Target] = "none"]
  PROVE  KeptInv'
<1> USE DEF CInv
<1>0. /\ Target \in Procs /\ msg.id \in Ids /\ Target = vsysinfo[msg.id] /\ Alive
      /\ pc \in Turn /\ \A i \in Ids : vsysinfo[i] = Target => i = msg.id
      /\ vsysinfo' = [vsysinfo EXCEPT ![msg.id] = Nobody]
  BY CrashTarget DEF Cleaned
<1>1. RegisteredProcs' = RegisteredProcs \ {Target}
  BY <1>0 DEF RegisteredProcs, TypeInv, TypeOK
<1>2. EndsOf(RegisteredProcs') = EndsOf(RegisteredProcs) \ ParentEnds(Target)
  BY <1>1 DEF EndsOf, ParentEnds
<1>3. /\ fd' = [fd EXCEPT ![Daemon] = IF Alive' THEN fd[Daemon] \ ParentEnds(Target)
                                               ELSE {}]
      /\ pc' \in {"accept", "killed"}
  BY <1>0, CrashReply
<1>4. OwnInv'
  <2>1. ASSUME NEW i \in Ids, Registered(i)'
        PROVE  cid'[vsysinfo'[i]] = i /\ child'[vsysinfo'[i]] # "none"
    <3>1. i # msg.id /\ vsysinfo'[i] = vsysinfo[i] /\ Registered(i) /\ vsysinfo[i] # Target
      BY <1>0, <2>1 DEF Registered, TypeInv, TypeOK
    <3>2. vsysinfo[i] \in Procs /\ child'[vsysinfo[i]] = child[vsysinfo[i]]
      BY <3>1 DEF Registered, TypeInv, TypeOK
    <3> QED
      BY <3>1, <3>2 DEF OwnInv
  <2>2. \A p \in Procs : child'[p] # "none" => child[p] # "none"
    BY DEF TypeInv, TypeOK
  <2> QED
    BY <2>1, <2>2 DEF OwnInv
<1>5. EndsInv'
  <2> SUFFICES ASSUME NEW p \in Procs, Live(p)' PROVE <<p, "cw">> \in fd'[p]
    BY DEF EndsInv
  <2>1. Live(p)
    BY <1>0 DEF Live, TypeInv, TypeOK
  <2>2. fd'[p] = fd[p]
    BY <1>3, ConstantsAssumption DEF TypeInv, TypeOK
  <2> QED
    BY <2>1, <2>2 DEF EndsInv
<1>6. LeakInv'
  BY <1>0, <1>2, <1>3 DEF LeakInv, TypeInv, TypeOK
<1>7. ASSUME NEW p \in RegisteredProcs, p # Target PROVE Quiet(p)' /\ ~Awaited(p)'
  <2>1. ~Awaited(p)' /\ ~Awaited(p)
    BY <1>3, <1>7 DEF Awaited
  <2>2. Quiet(p) /\ p \in Procs
    BY <1>0, <2>1, RegisteredType DEF PipeInv
  <2>3. up'[p] = up[p] /\ child'[p] = child[p]
    BY <1>7, <2>2 DEF TypeInv, TypeOK
  <2> QED
    BY <2>1, <2>2, <2>3 DEF Quiet, Live
<1>8. PipeInv'
  BY <1>1, <1>7 DEF PipeInv
<1> QED
  BY <1>4, <1>5, <1>6, <1>8 DEF KeptInv

LEMMA CrashClones ==
  ASSUME CInv, NEW p \in Procs, CreateClones(p)
  PROVE  KeptInv'
<1> USE DEF CInv
<1>0. /\ msg \in Requests /\ msg.id \in Ids /\ msg' = msg
      /\ pc = "dispatch" /\ pc' = "await_create" /\ vsysinfo[msg.id] = Nobody
      /\ child[p] = "none" /\ p # Nobody
      /\ vsysinfo' = [vsysinfo EXCEPT ![msg.id] = p]
      /\ child' = [child EXCEPT ![p] = "starting"]
      /\ cid' = [cid EXCEPT ![p] = msg.id]
      /\ down' = [down EXCEPT ![p] = << >>] /\ up' = [up EXCEPT ![p] = << >>]
      /\ fd' = [fd EXCEPT ![Daemon] = @ \cup ParentEnds(p),
                          ![p] = fd[Daemon] \cup ParentEnds(p) \cup ChildEnds(p)]
  BY RequestType, ConstantsAssumption
     DEF CreateClones, Registered, TypeInv, TypeOK, TurnInv, Turn
<1>1. RegisteredProcs' = RegisteredProcs \cup {p}
  BY <1>0 DEF RegisteredProcs, TypeInv, TypeOK
<1>2. EndsOf(RegisteredProcs') = EndsOf(RegisteredProcs) \cup ParentEnds(p)
  BY <1>1 DEF EndsOf
<1>3. \A i \in Ids : vsysinfo[i] # p
  BY <1>0, ConstantsAssumption DEF OwnInv, Registered
<1>4. OwnInv'
  <2>1. ASSUME NEW i \in Ids, Registered(i)'
        PROVE  cid'[vsysinfo'[i]] = i /\ child'[vsysinfo'[i]] # "none"
    <3>1. CASE i = msg.id
      BY <1>0, <3>1 DEF TypeInv, TypeOK
    <3>2. CASE i # msg.id
      <4>1. vsysinfo'[i] = vsysinfo[i] /\ Registered(i) /\ vsysinfo[i] \in Procs
        BY <1>0, <2>1, <3>2 DEF Registered, TypeInv, TypeOK
      <4>2. /\ cid'[vsysinfo[i]] = cid[vsysinfo[i]]
            /\ child'[vsysinfo[i]] = child[vsysinfo[i]]
        BY <1>0, <1>3, <4>1 DEF TypeInv, TypeOK
      <4> QED
        BY <4>1, <4>2 DEF OwnInv
    <3> QED
      BY <3>1, <3>2
  <2>2. \A q \in Procs : child'[q] # "none" => cid'[q] \in Ids
    BY <1>0 DEF OwnInv, TypeInv, TypeOK
  <2> QED
    BY <2>1, <2>2 DEF OwnInv
<1>5. EndsInv'
  <2> SUFFICES ASSUME NEW q \in Procs, Live(q)' PROVE <<q, "cw">> \in fd'[q]
    BY DEF EndsInv
  <2>1. CASE q = p
    BY <1>0, <2>1 DEF TypeInv, TypeOK, ChildEnds
  <2>2. CASE q # p
    <3>1. fd'[q] = fd[q] /\ child'[q] = child[q]
      BY <1>0, <2>2, ConstantsAssumption DEF TypeInv, TypeOK
    <3> QED
      BY <3>1 DEF EndsInv, Live
  <2> QED
    BY <2>1, <2>2
<1>6. LeakInv'
  <2>1. fd[Daemon] = EndsOf(RegisteredProcs) /\ Alive'
    BY <1>0 DEF LeakInv, Alive
  <2> QED
    BY <1>0, <1>2, <2>1, ConstantsAssumption DEF LeakInv, TypeInv, TypeOK
<1>7. OwesOne(p)' /\ Awaited(p)'
  BY <1>0 DEF OwesOne, Awaited, Target, TypeInv, TypeOK
<1>8. ASSUME NEW q \in RegisteredProcs, q # p PROVE Quiet(q)' /\ ~Awaited(q)'
  <2>1. ~Awaited(q)' /\ ~Awaited(q) /\ Alive
    BY <1>0, <1>8 DEF Awaited, Target, Alive, TypeInv, TypeOK
  <2>2. Quiet(q) /\ q \in Procs
    BY <2>1, RegisteredType DEF PipeInv
  <2>3. up'[q] = up[q] /\ child'[q] = child[q] /\ down'[q] = down[q]
    BY <1>0, <1>8, <2>2 DEF TypeInv, TypeOK
  <2> QED
    BY <2>1, <2>2, <2>3 DEF Quiet, Live
<1>9. PipeInv'
  BY <1>1, <1>7, <1>8 DEF PipeInv
<1> QED
  BY <1>4, <1>5, <1>6, <1>9 DEF KeptInv

LEMMA CrashSends ==
  ASSUME CInv, SendDestroy \/ SendRun
  PROVE  KeptInv'
<1> USE DEF CInv
<1>0. /\ msg \in Requests /\ msg.id \in Ids /\ msg' = msg /\ Registered(msg.id)
      /\ pc = "dispatch" /\ pc' \in {"await_destroy", "await_run"}
      /\ down' = [down EXCEPT ![Target] = Append(@, msg)]
      /\ UNCHANGED <<vsysinfo, child, cid, fd, up>>
  BY RequestType
     DEF SendDestroy, SendRun, SendDown, TypeInv, TypeOK, TurnInv, Turn
<1>1. RegisteredProcs' = RegisteredProcs /\ EndsOf(RegisteredProcs)' = EndsOf(RegisteredProcs)
      /\ Target' = Target /\ Target \in Procs /\ Alive /\ Alive'
  BY <1>0 DEF RegisteredProcs, EndsOf, Target, Registered, Alive, TypeInv, TypeOK
<1>2. OwnInv' /\ EndsInv' /\ LeakInv'
  BY <1>0, <1>1 DEF OwnInv, EndsInv, LeakInv, Registered, Live
<1>3. ASSUME NEW p \in RegisteredProcs
      PROVE  IF Awaited(p)' THEN OwesOne(p)' ELSE Quiet(p)'
  <2>1. Quiet(p) /\ p \in Procs
    BY <1>0, <1>1, RegisteredType DEF PipeInv, Awaited
  <2>2. CASE p = Target
    <3>1. Awaited(p)'
      BY <1>0, <1>1, <2>2 DEF Awaited
    <3>2. down'[p] = Append(down[p], msg) /\ up'[p] = up[p] /\ child'[p] = child[p]
      BY <1>0, <2>1, <2>2 DEF TypeInv, TypeOK
    <3>3. ASSUME ~Live(p) PROVE OwesOne(p)'
      BY <2>1, <3>2, <3>3 DEF OwesOne, Quiet, Live
    <3>4. ASSUME Live(p) PROVE OwesOne(p)'
      <4>1. down[p] = << >> /\ child'[p] = "serving" /\ up'[p] = << >>
        BY <2>1, <3>2, <3>4 DEF Quiet
      <4>2. Append(<< >>, msg) = <<msg>>
        OBVIOUS
      <4>3. down'[p] = <<msg>>
        BY <3>2, <4>1, <4>2
      <4> QED
        BY <1>0, <4>1, <4>3 DEF OwesOne
    <3> QED
      BY <3>1, <3>3, <3>4
  <2>3. CASE p # Target
    <3>1. ~Awaited(p)'
      BY <1>1, <2>3 DEF Awaited
    <3>2. down'[p] = down[p] /\ up'[p] = up[p] /\ child'[p] = child[p]
      BY <1>0, <2>1, <2>3 DEF TypeInv, TypeOK
    <3> QED
      BY <2>1, <3>1, <3>2 DEF Quiet, Live
  <2> QED
    BY <2>2, <2>3
<1>4. PipeInv'
  BY <1>1, <1>3 DEF PipeInv
<1> QED
  BY <1>2, <1>4 DEF KeptInv

LEMMA CrashDaemon ==
  ASSUME CInv, DaemonNext \/ DeadChildNext
  PROVE  KeptInv'
<1> USE DEF clientVars, childVars
<1>1. CASE AwaitCreate
  <2>1. pc \in Waits /\ pc = "await_create" /\ UNCHANGED <<child, cid, down>>
        /\ up[Target] # << >> /\ up' = [up EXCEPT ![Target] = Tail(@)]
    BY <1>1 DEF AwaitCreate, Waits
  <2>2. CASE ResponseOk("create", Head(up[Target]))
    BY <1>1, <2>1, <2>2, CrashAnswered DEF AwaitCreate
  <2>3. CASE ~ResponseOk("create", Head(up[Target]))
    BY <1>1, <2>1, <2>3, CrashCleans DEF AwaitCreate
  <2> QED
    BY <2>2, <2>3
<1>2. CASE AwaitRun
  BY <1>2, CrashAnswered DEF AwaitRun
<1>3. CASE AwaitDestroy
  BY <1>3, CrashAnswered DEF AwaitDestroy
<1>4. CASE Reap
  BY <1>4, CrashCleans DEF Reap, Waits
<1>5. CASE AwaitCreateEof
  <2>1. pc \in Waits /\ UNCHANGED <<child, cid, down, up>>
    BY <1>5 DEF AwaitCreateEof, Waits
  <2>2. \/ \E r : Reply(r, fd[Daemon]) /\ UNCHANGED vsysinfo
        \/ (\E r : Reply(r, fd[Daemon] \ ParentEnds(Target))) /\ Cleaned(msg.id)
    BY <1>5 DEF AwaitCreateEof
  <2> QED
    BY <1>5, <2>1, <2>2, CrashEof, CrashCleans
<1> QED
  BY <1>1, <1>2, <1>3, <1>4, <1>5, CrashEof, CrashIdle, CrashSends, CrashClones
     DEF DaemonNext, DeadChildNext

-----------------------------------------------------------------------------
(* Users, kills and children.                                              *)

LEMMA CrashClient ==
  ASSUME CInv, NEW c \in Clients,
         \/ Connect(c) \/ ConnectFails(c) \/ ClientRefuses(c) \/ ClientNext(c)
         \/ KillClient(c)
  PROVE  KeptInv'
<1>1. UNCHANGED <<pc, msg, vsysinfo, child, cid, down, up, fd>>
  BY DEF Connect, ConnectFails, ClientRefuses, ClientNext, ClientSend, ClientSendFails,
         ClientReceives, ClientSeesEof, KillClient, daemonVars, childVars
<1>2. \A p \in RegisteredProcs : Awaited(p)' <=> Awaited(p)
  BY <1>1 DEF Awaited, Target
<1> QED
  BY <1>1, <1>2, CrashFrame DEF Alive

LEMMA CrashKillDaemon ==
  ASSUME CInv, KillDaemon
  PROVE  KeptInv' /\ TypeInv'
<1>1. /\ Stops("killed") /\ Alive
      /\ UNCHANGED <<errcnt, msg, resmsg, vsysinfo, info1, wire, rsp>>
      /\ UNCHANGED <<child, cid, down, up, held, cpc, req>>
  BY DEF KillDaemon, childVars, clientVars
<1>2. KeptInv'
  BY <1>1, CrashFrame DEF Stops, Alive
<1>3. TypeInv'
  BY <1>1 DEF Stops, CInv, TypeInv, TypeOK, TurnInv, Turn, Waits, PCs
<1> QED
  BY <1>2, <1>3

\* A step of child p, or its death, disturbs what is said of p alone.
LEMMA CrashOne ==
  ASSUME CInv, NEW p \in Procs, UNCHANGED <<pc, msg, vsysinfo, cid>>,
         child'[p] # "none", fd'[Daemon] = fd[Daemon],
         \A q \in Procs \ {p} : /\ child'[q] = child[q] /\ down'[q] = down[q]
                                /\ up'[q] = up[q] /\ fd'[q] = fd[q],
         cid[p] \in Ids, Live(p)' => <<p, "cw">> \in fd'[p],
         Quiet(p) => Quiet(p)', OwesOne(p) => OwesOne(p)'
  PROVE  KeptInv'
<1> USE DEF CInv
<1>1. RegisteredProcs' = RegisteredProcs /\ EndsOf(RegisteredProcs)' = EndsOf(RegisteredProcs)
      /\ (Alive' <=> Alive)
  BY DEF RegisteredProcs, EndsOf, Alive
<1>2. OwnInv'
  <2>1. ASSUME NEW i \in Ids, Registered(i)
        PROVE  cid'[vsysinfo'[i]] = i /\ child'[vsysinfo'[i]] # "none"
    <3>1. vsysinfo[i] \in Procs /\ vsysinfo'[i] = vsysinfo[i]
      BY <2>1 DEF Registered, TypeInv, TypeOK
    <3> QED
      BY <2>1, <3>1 DEF OwnInv
  <2> QED
    BY <2>1 DEF OwnInv, Registered
<1>3. EndsInv'
  BY DEF EndsInv, Live
<1>4. LeakInv'
  BY <1>1 DEF LeakInv
<1>5. ASSUME Alive, NEW q \in RegisteredProcs
      PROVE  IF Awaited(q)' THEN OwesOne(q)' ELSE Quiet(q)'
  <2>1. Awaited(q)' <=> Awaited(q)
    BY DEF Awaited, Target
  <2>2. IF Awaited(q) THEN OwesOne(q) ELSE Quiet(q)
    BY <1>5 DEF PipeInv
  <2>3. CASE q = p
    BY <2>1, <2>2, <2>3
  <2>4. CASE q # p
    <3>1. q \in Procs \ {p}
      BY <2>4, RegisteredType
    <3>2. child'[q] = child[q] /\ down'[q] = down[q] /\ up'[q] = up[q]
      BY <3>1
    <3>3. (Quiet(q)' <=> Quiet(q)) /\ (OwesOne(q)' <=> OwesOne(q))
      BY <3>2 DEF Quiet, OwesOne, Live
    <3> QED
      BY <2>1, <2>2, <3>3
  <2> QED
    BY <2>3, <2>4
<1>6. PipeInv'
  BY <1>1, <1>5 DEF PipeInv
<1> QED
  BY <1>2, <1>3, <1>4, <1>6 DEF KeptInv

LEMMA CrashKillChild ==
  ASSUME CInv, NEW p \in Procs, KillChild(p)
  PROVE  KeptInv' /\ TypeInv'
<1> USE DEF CInv
<1>1. /\ Live(p) /\ child' = [child EXCEPT ![p] = "zombie"]
      /\ fd' = [fd EXCEPT ![p] = {}] /\ held' = [held EXCEPT ![p] = Nobody]
      /\ UNCHANGED <<daemonVars, socketVars, cid, down, up, clientVars>>
  BY DEF KillChild
<1>2. TypeInv'
  BY <1>1 DEF TypeInv, TypeOK, TurnInv, Registered, ChildStates,
              daemonVars, socketVars, clientVars
<1>3. child'[p] = "zombie" /\ fd'[Daemon] = fd[Daemon] /\ UNCHANGED <<pc, msg, vsysinfo>>
  BY <1>1, ConstantsAssumption DEF TypeInv, TypeOK, daemonVars
<1>4. \A q \in Procs \ {p} : /\ child'[q] = child[q] /\ down'[q] = down[q]
                             /\ up'[q] = up[q] /\ fd'[q] = fd[q]
  BY <1>1 DEF TypeInv, TypeOK
<1>5. ~Live(p)' /\ cid[p] \in Ids
  BY <1>1, <1>3 DEF Live, OwnInv
<1>6. (Quiet(p) => Quiet(p)') /\ (OwesOne(p) => OwesOne(p)')
  BY <1>1, <1>5 DEF Quiet, OwesOne, Live
<1>7. KeptInv'
  BY <1>1, <1>3, <1>4, <1>5, <1>6, CrashOne
<1> QED
  BY <1>2, <1>7

LEMMA WrittenOne ==
  ASSUME CInv, NEW p \in Procs, NEW r \in Responses, up[p] = << >>
  PROVE  /\ Written(p, r)[p] \in {<< >>, <<r>>}
         /\ \A q \in Procs \ {p} : Written(p, r)[q] = up[q]
<1>1. Append(up[p], r) = <<r>>
  OBVIOUS
<1> QED
  BY <1>1 DEF Written, CInv, TypeInv, TypeOK

LEMMA CrashChild ==
  ASSUME CInv, NEW p \in Procs, ChildNext(p)
  PROVE  KeptInv' /\ TypeInv'
<1> USE DEF CInv
<1>0. cid[p] \in Ids /\ child[p] # "none"
  BY DEF OwnInv, ChildNext, ChildStart, ChildRuns, ChildDropsRun, ChildDestroys,
         ChildExits, ChildTakes
<1>1. TypeInv'
  BY <1>0, TypeChild
<1>2. UNCHANGED <<pc, msg, vsysinfo, cid>>
  BY DEF ChildNext, ChildStart, ChildRuns, ChildDropsRun, ChildDestroys, ChildExits,
         ChildTakes, daemonVars
<1>3. /\ \A q \in Procs \ {p} : /\ child'[q] = child[q] /\ down'[q] = down[q]
                                /\ up'[q] = up[q] /\ fd'[q] = fd[q]
      /\ fd'[Daemon] = fd[Daemon] /\ child'[p] # "none"
  BY <1>0, ConstantsAssumption
     DEF ChildNext, ChildStart, ChildRuns, ChildDropsRun, ChildDestroys, ChildExits,
         ChildTakes, Written, TypeInv, TypeOK
<1>4. ASSUME Live(p)' PROVE <<p, "cw">> \in fd'[p]
  <2>1. Live(p)
    BY <1>4 DEF Live, ChildNext, ChildStart, ChildRuns, ChildDropsRun, ChildDestroys,
                ChildExits, ChildTakes, TypeInv, TypeOK
  <2>2. <<p, "cw">> \in fd[p]
    BY <2>1 DEF EndsInv
  <2>3. <<p, "cw">> \notin EndsOf(RegisteredProcs)
    BY DEF EndsOf, ParentEnds
  <2>4. fd'[p] = fd[p] \/ fd'[p] = fd[p] \ EndsOf(RegisteredProcs)
    BY <1>4 DEF Live, ChildNext, ChildStart, ChildRuns, ChildDropsRun, ChildDestroys,
                ChildExits, ChildTakes, TypeInv, TypeOK
  <2> QED
    BY <2>2, <2>3, <2>4
<1>5. (Quiet(p) => Quiet(p)') /\ (OwesOne(p) => OwesOne(p)')
  <2>1. CASE ChildStart(p)
    <3> DEFINE r == Response("create", cid[p], "create_success")
    <3>1. r \in Responses
      BY <1>0, ResponseType DEF Commands, RespTypes
    <3>2. /\ child[p] = "starting" /\ child'[p] = "serving" /\ down' = down
          /\ up' = Written(p, r)
      BY <2>1 DEF ChildStart, TypeInv, TypeOK
    <3>3. ~Quiet(p)
      BY <3>2 DEF Quiet, Live
    <3>4. ASSUME OwesOne(p) PROVE OwesOne(p)'
      <4>1. up[p] = << >> /\ down[p] = << >>
        BY <3>2, <3>4 DEF OwesOne, Quiet, Live
      <4>2. up'[p] \in {<< >>, <<r>>}
        BY <3>1, <3>2, <4>1, WrittenOne
      <4> QED
        BY <3>1, <3>2, <4>1, <4>2 DEF OwesOne, Quiet
    <3> QED
      BY <3>3, <3>4
  <2>2. CASE ChildRuns(p) \/ ChildDestroys(p)
    <3>1. PICK r \in Responses : up' \in {up, Written(p, r)}
      BY <1>0, <2>2, ResponseType DEF ChildRuns, ChildDestroys, ChildTakes, Commands, RespTypes
    <3>2. /\ child[p] = "serving" /\ down[p] # << >> /\ down'[p] = Tail(down[p])
          /\ child'[p] \in {"serving", "exiting"}
      BY <2>2 DEF ChildRuns, ChildDestroys, ChildTakes, TypeInv, TypeOK
    <3>3. ~Quiet(p)
      BY <3>2 DEF Quiet, Live
    <3>4. ASSUME OwesOne(p) PROVE OwesOne(p)'
      <4>1. up[p] = << >> /\ \E m \in Requests : down[p] = <<m>>
        BY <3>2, <3>4 DEF OwesOne, Quiet, Live
      <4>2. down'[p] = << >>
        BY <3>2, <4>1
      <4>3. up'[p] \in {<< >>, <<r>>}
        BY <3>1, <4>1, WrittenOne
      <4> QED
        BY <3>1, <3>2, <4>2, <4>3 DEF OwesOne, Quiet, Live
    <3> QED
      BY <3>3, <3>4
  <2>3. CASE ChildExits(p)
    <3>1. /\ child[p] = "exiting" /\ child'[p] = "zombie"
          /\ UNCHANGED <<up, down>>
      BY <2>3 DEF ChildExits, TypeInv, TypeOK
    <3> QED
      BY <3>1 DEF OwesOne, Quiet, Live
  <2>4. CASE ChildDropsRun(p)
    <3>1. /\ child[p] = "serving" /\ down[p] # << >> /\ down'[p] = Tail(down[p])
          /\ UNCHANGED <<up, child>>
      BY <2>4 DEF ChildDropsRun, TypeInv, TypeOK
    <3>2. ~Quiet(p)
      BY <3>1 DEF Quiet, Live
    <3>3. ASSUME OwesOne(p) PROVE OwesOne(p)'
      <4>1. up[p] = << >> /\ \E m \in Requests : down[p] = <<m>>
        BY <3>1, <3>3 DEF OwesOne, Quiet, Live
      <4>2. down'[p] = << >>
        BY <3>1, <4>1
      <4> QED
        BY <3>1, <4>1, <4>2 DEF OwesOne, Quiet, Live
    <3> QED
      BY <3>2, <3>3
  <2> QED
    BY <2>1, <2>2, <2>3, <2>4 DEF ChildNext
<1>6. KeptInv'
  BY <1>0, <1>2, <1>3, <1>4, <1>5, CrashOne
<1> QED
  BY <1>1, <1>6

LEMMA CrashTypeDead == ASSUME CInv, DeadChildNext PROVE TypeInv'
<1> USE DEF CInv
<1>1. CASE SendDownBroken
  BY <1>1 DEF SendDownBroken, Stops, TypeInv, TypeOK, TurnInv, Turn, Waits, PCs,
              childVars, clientVars
<1>2. CASE AwaitCreateEof \/ AwaitRunEof \/ AwaitDestroyEof
  <2>1. pc \in Waits /\ pc \in Turn /\ msg \in Requests /\ msg.id \in Ids
        /\ msg.cmd \in Commands /\ Target \in Procs /\ csock # Nobody /\ Registered(msg.id)
    BY <1>2, CrashTarget, RequestType
       DEF AwaitCreateEof, AwaitRunEof, AwaitDestroyEof, Waits
  <2>2. UNCHANGED <<errcnt, msg, wire, child, cid, down, up, held, cpc, req>>
    BY <1>2 DEF AwaitCreateEof, AwaitRunEof, AwaitDestroyEof, childVars, clientVars
  <2>3. /\ vsysinfo' \in [Ids -> Procs \cup {Nobody}]
        /\ info1' \in [Ids -> {"null", "live", "freed"}]
    BY <1>2, <2>1 DEF AwaitCreateEof, AwaitRunEof, AwaitDestroyEof, Cleaned, TypeInv, TypeOK
  <2>4. msg.cmd \in {"create", "destroy", "run"} => OnStack \subseteq Responses
    <3> SUFFICES ASSUME msg.cmd \in {"create", "destroy", "run"}
                 PROVE  \A t \in {Success[msg.cmd], "unknown"} :
                          Response(msg.cmd, msg.id, t) \in Responses
      BY DEF OnStack
    <3>1. Success[msg.cmd] \in RespTypes /\ "unknown" \in RespTypes
      BY DEF Success, RespTypes
    <3> QED
      BY <2>1, <3>1, ResponseType
  <2>5. OnStack \subseteq Responses
    BY <1>2, <2>4 DEF AwaitCreateEof, AwaitRunEof, AwaitDestroyEof, CmdInv
  <2>6. fd[Daemon] \in SUBSET (Procs \X {"pr", "pw", "cr", "cw"})
        /\ fd[Daemon] \ ParentEnds(Target) \in SUBSET (Procs \X {"pr", "pw", "cr", "cw"})
    BY DEF TypeInv, TypeOK
  <2>7. CASE \E r \in OnStack : \/ Reply(r, fd[Daemon])
                                 \/ Reply(r, fd[Daemon] \ ParentEnds(Target))
    <3>1. /\ pc' \in {"accept", "killed"} /\ csock' = Nobody
          /\ backlog' \in Seq(Clients)
          /\ rsp' \in [Clients -> Responses \cup {Nobody}]
          /\ fd' \in [Procs \cup {Daemon} -> SUBSET (Procs \X {"pr", "pw", "cr", "cw"})]
      BY <2>1, <2>5, <2>6, <2>7, ReplyType
    <3>2. resmsg' = resmsg
      BY <1>2, <3>1 DEF AwaitCreateEof, AwaitRunEof, AwaitDestroyEof
    <3> QED
      BY <2>2, <2>3, <3>1, <3>2 DEF TypeInv, TypeOK, TurnInv, Turn, Waits, PCs
  <2>8. CASE /\ pc' = "waitpid" /\ UNCHANGED <<csock, fd, backlog, rsp, vsysinfo>>
             /\ resmsg' \in Responses
    BY <2>1, <2>2, <2>3, <2>8, NoResponseAssumption
       DEF TypeInv, TypeOK, TurnInv, Turn, Waits, PCs, Registered
  <2> QED
    BY <1>2, <2>5, <2>7, <2>8 DEF AwaitCreateEof, AwaitRunEof, AwaitDestroyEof
<1> QED
  BY <1>1, <1>2 DEF DeadChildNext

\* A handler starts to wait for the command it was called for, and main's
\* message stays as it is until the handler returns.
LEMMA CrashCmd == ASSUME CInv, [CNext]_crashVars PROVE CmdInv'
<1> USE DEF CInv, CmdInv
<1>1. CASE DaemonNext \/ DeadChildNext \/ KillDaemon
  BY <1>1
     DEF DaemonNext, DeadChildNext, KillDaemon, Accept, AcceptFails, Recv, RecvEof,
         RecvEofCrash, RecvNoMemory, UnknownCommand, CreateExisting, NoSuchVsys, CreateFails,
         CreateNoStack, CreateClones, AwaitCreate, SendDestroy, SendRun, SendDown,
         AwaitRun, AwaitDestroy, Reap, AwaitCreateEof, AwaitRunEof, AwaitDestroyEof,
         SendDownBroken, Reply, HangUp, Stops
<1>2. ASSUME NEW c \in Clients,
             \/ Connect(c) \/ ConnectFails(c) \/ ClientRefuses(c) \/ ClientNext(c)
             \/ KillClient(c)
      PROVE  CmdInv'
  BY <1>2 DEF Connect, ConnectFails, ClientRefuses, ClientNext, ClientSend,
              ClientSendFails, ClientReceives, ClientSeesEof, KillClient, daemonVars
<1>3. ASSUME NEW p \in Procs, ChildNext(p) \/ KillChild(p) PROVE CmdInv'
  BY <1>3 DEF ChildNext, ChildStart, ChildRuns, ChildDropsRun, ChildDestroys, ChildExits,
              KillChild, daemonVars
<1>4. CASE UNCHANGED crashVars
  BY <1>4 DEF crashVars, vars, daemonVars
<1> QED
  BY <1>1, <1>2, <1>3, <1>4 DEF CNext, Next

LEMMA CrashStutter == ASSUME CInv, UNCHANGED crashVars PROVE TypeInv' /\ KeptInv'
<1>1. UNCHANGED <<daemonVars, fd, socketVars, childVars, clientVars>>
  BY DEF crashVars, vars
<1>2. TypeInv'
  BY <1>1 DEF CInv, TypeInv, TypeOK, TurnInv, Registered, daemonVars, socketVars,
              childVars, clientVars
<1>3. KeptInv'
  BY <1>1, CrashFrame DEF Alive, Awaited, Target, daemonVars, childVars
<1> QED
  BY <1>2, <1>3

\* The inductive invariant is preserved by every step, kills included.
LEMMA CrashNext == ASSUME CInv, [CNext]_crashVars PROVE CInv'
<1>1. CmdInv'
  BY CrashCmd
<1>2. TypeInv' /\ KeptInv'
  <2>1. CASE DaemonNext
    BY <2>1, CrashDaemon, TypeDaemon DEF CInv
  <2>2. CASE DeadChildNext
    BY <2>2, CrashDaemon, CrashTypeDead
  <2>3. ASSUME NEW c \in Clients,
               Connect(c) \/ ConnectFails(c) \/ ClientRefuses(c) \/ ClientNext(c)
        PROVE  TypeInv' /\ KeptInv'
    BY <2>3, CrashClient, TypeClient DEF CInv
  <2>4. ASSUME NEW c \in Clients, KillClient(c) PROVE TypeInv' /\ KeptInv'
    <3>1. TypeInv'
      BY <2>4 DEF KillClient, CInv, TypeInv, TypeOK, TurnInv, Registered, ClientStates,
                  daemonVars, socketVars, childVars
    <3> QED
      BY <2>4, <3>1, CrashClient
  <2> QED
    BY <2>1, <2>2, <2>3, <2>4, CrashChild, CrashKillChild, CrashKillDaemon, CrashStutter
       DEF CNext, Next
<1> QED
  BY <1>1, <1>2 DEF CInv, KeptInv

-----------------------------------------------------------------------------
(* The theorems.                                                           *)

\* Whatever is killed, and however often: slots, descriptors and pipes stay
\* what the table says of them.
THEOREM CrashInvariance == CSpec => []CInv
<1>1. CInit => CInv
  BY CrashInit
<1>2. CInv /\ [CNext]_crashVars => CInv'
  BY CrashNext
<1> QED
  BY <1>1, <1>2, PTL DEF CSpec

\* The pid in an entry of the table cannot have passed to another vsys: the
\* slot of a killed child stays taken until the daemon itself waits for it.
THEOREM PidStaysOwnHolds == CSpec => []PidStaysOwn
<1>1. CInv => PidStaysOwn
  BY DEF CInv, OwnInv, PidStaysOwn
<1> QED
  BY <1>1, CrashInvariance, PTL

\* The daemon's pipe ends are those of the table, whoever died before.
THEOREM NoParentLeakHolds == CSpec => []NoParentLeak
<1>1. CInv => NoParentLeak
  BY DEF CInv, LeakInv, NoParentLeak
<1> QED
  BY <1>1, CrashInvariance, PTL

\* A vsys that was killed leaves no answer behind for the next command.
THEOREM NoStaleAnswerHolds == CSpec => []NoStaleAnswer
<1>1. CInv => NoStaleAnswer
  BY DEF CInv, PipeInv, Quiet, Awaited, Alive, NoStaleAnswer
<1> QED
  BY <1>1, CrashInvariance, PTL
=============================================================================
