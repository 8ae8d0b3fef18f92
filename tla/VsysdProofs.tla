---------------------------- MODULE VsysdProofs ----------------------------
(***************************************************************************)
(* Proofs about Vsysd: for any number of identifiers, clients and process  *)
(* slots, the daemon and its children keep the properties below.           *)
(*                                                                         *)
(* The inductive invariant has four parts, each preserved with the help of *)
(* the ones before it: TypeOK; TurnInv, what a turn of the main loop has   *)
(* established so far; ProcInv and EntryInv, the state every child can be  *)
(* in given the daemon's, and what its two pipes hold then; FdInv, the     *)
(* pipe ends open in every process; and ReplyInv, whose answer it is.      *)
(***************************************************************************)
EXTENDS Vsysd, TLAPS

Turn == {"recv", "dispatch", "await_create", "await_destroy", "await_run", "waitpid"}
Waits == {"await_create", "await_destroy", "await_run", "waitpid"}

\* What main and the handlers know at each point of a turn.
TurnInv ==
  /\ pc \in Turn <=> csock # Nobody
  /\ pc \in Turn \ {"recv"} => msg # Nobody
  /\ pc \in Waits => Registered(msg.id)
  /\ pc = "waitpid" => resmsg # Nobody

TypeInv == TypeOK /\ TurnInv

\* Where child p stands, what its pipes hold and what the daemon knows of it.
Mine(p) == cid[p] \in Ids /\ vsysinfo[cid[p]] = p
Busy(p) == pc \in Waits /\ Target = p
Pipes(p, d, u) == down[p] = d /\ up[p] = u
Answer(p, cmd, t) == Response(cmd, cid[p], t)

Absent(p) == child[p] = "none" /\ ~Mine(p) /\ Pipes(p, << >>, << >>)
Resting(p) == child[p] = "serving" /\ Mine(p) /\ ~Busy(p) /\ Pipes(p, << >>, << >>)
Creating(p) ==
  /\ pc = "await_create" /\ Target = p /\ Mine(p) /\ msg.cmd = "create"
  /\ \/ child[p] = "starting" /\ Pipes(p, << >>, << >>)
     \/ child[p] = "serving"
        /\ Pipes(p, << >>, <<Answer(p, "create", "create_success")>>)
Running(p) ==
  /\ pc = "await_run" /\ Target = p /\ Mine(p) /\ msg.cmd = "run"
  /\ child[p] = "serving"
  /\ \/ Pipes(p, <<msg>>, << >>)
     \/ \E t \in {"start_success", "start_failed"} :
          Pipes(p, << >>, <<Answer(p, "run", t)>>)
     \/ "message" \in Faults /\ Pipes(p, << >>, << >>)
Destroying(p) ==
  /\ pc = "await_destroy" /\ Target = p /\ Mine(p) /\ msg.cmd = "destroy"
  /\ \/ child[p] = "serving" /\ Pipes(p, <<msg>>, << >>)
     \/ child[p] \in {"exiting", "zombie"}
        /\ Pipes(p, << >>, <<Answer(p, "destroy", "destroy_success")>>)
Dying(p) ==
  /\ pc = "waitpid" /\ Target = p /\ Mine(p)
  /\ msg.cmd = "destroy" /\ resmsg = Answer(p, "destroy", "destroy_success")
  /\ child[p] \in {"exiting", "zombie"} /\ Pipes(p, << >>, << >>)

ProcOk(p) == \/ Absent(p) \/ Resting(p) \/ Creating(p)
             \/ Running(p) \/ Destroying(p) \/ Dying(p)
ProcInv == \A p \in Procs : ProcOk(p)

\* An entry of the table names a child cloned for that very id.
EntryInv == \A i \in Ids : Registered(i) => cid[vsysinfo[i]] = i

\* The pipe ends open in every process.
FdInv ==
  /\ fd[Daemon] = IF Alive THEN EndsOf(RegisteredProcs) ELSE {}
  /\ \A p \in Procs :
       fd[p] = CASE child[p] = "starting" -> EndsOf(RegisteredProcs) \cup ChildEnds(p)
                 [] child[p] \in {"serving", "exiting"} -> ChildEnds(p)
                 [] OTHER -> {}

\* The second pointer of an entry is live.
InfoInv == \A i \in Ids : Registered(i) => info1[i] = "live"

\* Whose command the daemon is working on and whose answer is in a socket.
ReplyInv ==
  /\ \A c \in Clients :
       /\ ClientOpen(c) => req[c] # Nobody
       /\ cpc[c] = "connected" => wire[c] = Nobody /\ rsp[c] = Nobody
       /\ cpc[c] = "waiting" /\ wire[c] # Nobody => wire[c] = req[c]
       /\ cpc[c] = "waiting" /\ rsp[c] # Nobody =>
            rsp[c].cmd = req[c].cmd /\ rsp[c].id = req[c].id
  /\ pc \in Turn \ {"recv"} /\ ClientOpen(csock) =>
       cpc[csock] = "waiting" /\ msg = req[csock]

IInv == TypeInv /\ ProcInv /\ EntryInv /\ FdInv /\ InfoInv /\ ReplyInv

LEMMA TypeInit == Init => TypeInv
  BY ConstantsAssumption, NobodyAssumption, NoResponseAssumption
     DEF Init, TypeInv, TypeOK, TurnInv, Turn, Waits, PCs, ChildStates, ClientStates

LEMMA TypeClient ==
  ASSUME TypeInv, NEW c \in Clients,
         Connect(c) \/ ConnectFails(c) \/ ClientRefuses(c) \/ ClientNext(c)
  PROVE  TypeInv'
<1>. USE ConstantsAssumption, NobodyAssumption, NoResponseAssumption
     DEF TypeInv, TypeOK, TurnInv, Registered, Turn, Waits, PCs, ClientStates,
         vars, daemonVars, socketVars, childVars, clientVars
<1>1. CASE Connect(c)  BY <1>1 DEF Connect
<1>2. CASE ConnectFails(c)  BY <1>2 DEF ConnectFails
<1>3. CASE ClientRefuses(c)  BY <1>3 DEF ClientRefuses
<1>4. CASE ClientSend(c)  BY <1>4 DEF ClientSend
<1>5. CASE ClientSendFails(c)  BY <1>5 DEF ClientSendFails
<1>6. CASE ClientReceives(c)  BY <1>6 DEF ClientReceives
<1>7. CASE ClientSeesEof(c)  BY <1>7 DEF ClientSeesEof
<1>. QED  BY <1>1, <1>2, <1>3, <1>4, <1>5, <1>6, <1>7 DEF ClientNext

LEMMA QueueType ==
  ASSUME NEW S, NEW s \in Seq(S), s # << >>
  PROVE  Head(s) \in S /\ Tail(s) \in Seq(S)
  OBVIOUS

\* Reply keeps the types of what it changes.
LEMMA ReplyType ==
  ASSUME TypeInv, pc \in Turn, NEW r \in Responses,
         NEW ends \in SUBSET (Procs \X {"pr", "pw", "cr", "cw"}),
         Reply(r, ends)
  PROVE  /\ pc' \in {"accept", "killed"} /\ csock' = Nobody
         /\ backlog' \in Seq(Clients)
         /\ rsp' \in [Clients -> Responses \cup {Nobody}]
         /\ fd' \in [Procs \cup {Daemon} -> SUBSET (Procs \X {"pr", "pw", "cr", "cw"})]
<1>1. csock \in Clients
  BY DEF TypeInv, TypeOK, TurnInv
<1>2. CASE ClientOpen(csock)
  BY <1>1, <1>2, ZenonT(40) DEF TypeInv, TypeOK, Reply, HangUp
<1>3. CASE ~ClientOpen(csock)
  BY <1>3 DEF TypeInv, TypeOK, Reply, Stops
<1>. QED  BY <1>2, <1>3

LEMMA RequestType ==
  ASSUME NEW m \in Requests
  PROVE  m.id \in Ids /\ m.cmd \in Commands
  BY DEF Requests

LEMMA ResponseType ==
  ASSUME NEW k \in Commands, NEW i \in Ids, NEW t \in RespTypes
  PROVE  /\ Response(k, i, t) \in Responses
         /\ Response(k, i, t).cmd = k
         /\ Response(k, i, t).id = i
         /\ Response(k, i, t).type = t
  BY DEF Response, Responses

LEMMA EndsType ==
  ASSUME NEW p \in Procs
  PROVE  /\ ParentEnds(p) \in SUBSET (Procs \X {"pr", "pw", "cr", "cw"})
         /\ ChildEnds(p) \in SUBSET (Procs \X {"pr", "pw", "cr", "cw"})
  BY DEF ParentEnds, ChildEnds

LEMMA TypeDaemon == ASSUME TypeInv, DaemonNext PROVE TypeInv'
<1>. USE ConstantsAssumption, NobodyAssumption, NoResponseAssumption
     DEF TypeInv, TypeOK, TurnInv, Registered, Turn, Waits, PCs, ChildStates,
         childVars, clientVars, socketVars
<1>1. CASE Accept  BY <1>1 DEF Accept
<1>2. CASE AcceptFails
  <2>1. errcnt' \in 0..MaxAcceptErrs  BY <1>2 DEF AcceptFails
  <2>2. CASE errcnt < MaxAcceptErrs
    <3>1. backlog # << >> /\ backlog' = Tail(backlog)
      BY <1>2, <2>2 DEF AcceptFails
    <3>2. UNCHANGED <<pc, csock, fd>>  BY <1>2, <2>2 DEF AcceptFails
    <3>. QED  BY <1>2, <2>1, <3>1, <3>2, QueueType DEF AcceptFails
  <2>3. CASE ~(errcnt < MaxAcceptErrs)
    BY <1>2, <2>1, <2>3 DEF AcceptFails, Stops
  <2>. QED  BY <2>2, <2>3
<1>3. CASE Recv  BY <1>3 DEF Recv
<1>4. CASE RecvEof  BY <1>4 DEF RecvEof
<1>5. CASE RecvEofCrash  BY <1>5 DEF RecvEofCrash, Stops
<1>18. CASE RecvNoMemory  BY <1>18 DEF RecvNoMemory, Stops
<1>6. CASE UnknownCommand
  <2>1. msg \in Requests  BY <1>6 DEF UnknownCommand
  <2>2. Response(msg.cmd, msg.id, "unknown") \in Responses
    BY <2>1, RequestType, ResponseType DEF RespTypes
  <2>. QED  BY <1>6, <2>2, ReplyType DEF UnknownCommand
<1>7. CASE CreateExisting  BY <1>7 DEF CreateExisting, HangUp
<1>8. CASE NoSuchVsys  BY <1>8 DEF NoSuchVsys, HangUp
<1>9. CASE CreateFails  BY <1>9 DEF CreateFails, HangUp
<1>10. CASE CreateNoStack  BY <1>10 DEF CreateNoStack, Stops
<1>11. ASSUME NEW p \in Procs, CreateClones(p) PROVE TypeInv'
  <2>1. msg \in Requests /\ msg.id \in Ids
    BY <1>11, RequestType DEF CreateClones
  <2>. QED  BY <1>11, <2>1, EndsType DEF CreateClones
<1>12. CASE AwaitCreate
  <2>1. msg \in Requests /\ msg.id \in Ids /\ Target \in Procs
    BY <1>12, RequestType DEF AwaitCreate, Target
  <2>2. Head(up[Target]) \in Responses /\ Tail(up[Target]) \in Seq(Responses)
    BY <1>12, <2>1 DEF AwaitCreate
  <2>. QED  BY <1>12, <2>1, <2>2, ReplyType, ZenonT(40) DEF AwaitCreate, Cleaned
<1>13. CASE SendDestroy
  <2>1. msg \in Requests /\ Target \in Procs
    BY <1>13, RequestType DEF SendDestroy, SendDown, Target
  <2>. QED  BY <1>13, <2>1 DEF SendDestroy, SendDown
<1>14. CASE SendRun
  <2>1. msg \in Requests /\ Target \in Procs
    BY <1>14, RequestType DEF SendRun, SendDown, Target
  <2>. QED  BY <1>14, <2>1 DEF SendRun, SendDown
<1>15. CASE AwaitRun
  <2>1. Target \in Procs  BY <1>15, RequestType DEF AwaitRun, Target
  <2>2. Head(up[Target]) \in Responses /\ Tail(up[Target]) \in Seq(Responses)
    BY <1>15, <2>1 DEF AwaitRun
  <2>. QED  BY <1>15, <2>1, <2>2, ReplyType DEF AwaitRun
<1>16. CASE AwaitDestroy
  <2>1. Target \in Procs  BY <1>16, RequestType DEF AwaitDestroy, Target
  <2>2. Head(up[Target]) \in Responses /\ Tail(up[Target]) \in Seq(Responses)
    BY <1>16, <2>1 DEF AwaitDestroy
  <2>. QED  BY <1>16, <2>1, <2>2, ReplyType DEF AwaitDestroy
<1>17. CASE Reap
  <2>1. Target \in Procs /\ msg.id \in Ids  BY <1>17, RequestType DEF Reap, Target
  <2>. QED  BY <1>17, <2>1, ReplyType DEF Reap, Cleaned
<1>. QED  BY <1>1, <1>2, <1>3, <1>4, <1>5, <1>6, <1>7, <1>8, <1>9, <1>10, <1>11,
             <1>12, <1>13, <1>14, <1>15, <1>16, <1>17, <1>18 DEF DaemonNext

LEMMA TypeChild ==
  ASSUME TypeInv, NEW p \in Procs, ChildNext(p), cid[p] \in Ids
  PROVE  TypeInv'
<1>. USE ConstantsAssumption, NobodyAssumption, NoResponseAssumption
     DEF TypeInv, TypeOK, TurnInv, Registered, Turn, Waits, PCs, ChildStates,
         daemonVars, childVars, clientVars, socketVars
<1>1. ASSUME NEW r \in Responses PROVE Written(p, r) \in [Procs -> Seq(Responses)]
  BY <1>1 DEF Written
<1>2. CASE ChildStart(p)
  <2>1. Response("create", cid[p], "create_success") \in Responses
    BY ResponseType DEF Commands, RespTypes
  <2>. QED  BY <1>1, <1>2, <2>1 DEF ChildStart
<1>3. CASE ChildRuns(p)
  <2>1. \A t \in {"start_success", "start_failed"} :
           Response("run", cid[p], t) \in Responses
    BY ResponseType DEF Commands, RespTypes
  <2>2. up' \in [Procs -> Seq(Responses)]
    BY <1>1, <1>3, <2>1 DEF ChildRuns, ChildTakes
  <2>3. down' \in [Procs -> Seq(Requests)]
    BY <1>3, QueueType DEF ChildRuns, ChildTakes
  <2>. QED  BY <1>3, <2>2, <2>3 DEF ChildRuns
<1>4. CASE ChildDestroys(p)
  <2>1. Response("destroy", cid[p], "destroy_success") \in Responses
    BY ResponseType DEF Commands, RespTypes
  <2>2. up' \in [Procs -> Seq(Responses)]
    BY <1>1, <1>4, <2>1 DEF ChildDestroys, ChildTakes
  <2>3. down' \in [Procs -> Seq(Requests)]
    BY <1>4, QueueType DEF ChildDestroys, ChildTakes
  <2>. QED  BY <1>4, <2>2, <2>3 DEF ChildDestroys
<1>5. CASE ChildExits(p)  BY <1>5 DEF ChildExits
<1>6. CASE ChildDropsRun(p)
  <2>1. down' \in [Procs -> Seq(Requests)]
    BY <1>6, QueueType DEF ChildDropsRun
  <2>. QED  BY <1>6, <2>1 DEF ChildDropsRun
<1>. QED  BY <1>2, <1>3, <1>4, <1>5, <1>6 DEF ChildNext

-----------------------------------------------------------------------------
(* The children and the table.                                             *)

LEMMA ProcInit == Init => ProcInv /\ EntryInv
  BY ConstantsAssumption
     DEF Init, ProcInv, ProcOk, Absent, Mine, Pipes, EntryInv, Registered

\* A child is registered unless its slot is free, and then for its own id.
LEMMA MineIffUsed ==
  ASSUME ProcInv, EntryInv, TypeOK, NEW p \in Procs
  PROVE  /\ child[p] # "none" <=> Mine(p)
         /\ Mine(p) <=> p \in RegisteredProcs
<1>1. child[p] # "none" <=> Mine(p)
  BY DEF ProcInv, ProcOk, Absent, Resting, Creating, Running, Destroying, Dying
<1>2. ASSUME Mine(p) PROVE p \in RegisteredProcs
  BY <1>2, ConstantsAssumption DEF Mine, RegisteredProcs
<1>3. ASSUME p \in RegisteredProcs PROVE Mine(p)
  <2>1. PICK i \in Ids : vsysinfo[i] = p  BY <1>3 DEF RegisteredProcs
  <2>. QED  BY <2>1, ConstantsAssumption DEF EntryInv, Registered, Mine
<1>. QED  BY <1>1, <1>2, <1>3

\* The vsys of the command being served.
LEMMA TargetFacts ==
  ASSUME TypeInv, EntryInv, pc \in Waits
  PROVE  /\ msg \in Requests /\ msg.id \in Ids /\ msg.cmd \in Commands
         /\ Target \in Procs /\ cid[Target] = msg.id /\ Mine(Target)
         /\ Busy(Target) /\ csock \in Clients
<1>1. msg \in Requests  BY DEF TypeInv, TypeOK, TurnInv, Waits, Turn
<1>2. Registered(msg.id) /\ msg.id \in Ids /\ msg.cmd \in Commands
  BY <1>1, RequestType DEF TypeInv, TurnInv
<1>3. Target \in Procs  BY <1>2 DEF TypeInv, TypeOK, Registered, Target
<1>4. cid[Target] = msg.id  BY <1>2 DEF EntryInv, Target
<1>5. csock \in Clients  BY DEF TypeInv, TypeOK, TurnInv, Waits, Turn
<1>. QED  BY <1>1, <1>2, <1>3, <1>4, <1>5 DEF Mine, Busy, Target

\* What the state of the daemon says of the vsys it waits for.
LEMMA BusyFacts ==
  ASSUME TypeInv, EntryInv, ProcInv, pc \in Waits
  PROVE  /\ pc = "await_create" => Creating(Target)
         /\ pc = "await_run" => Running(Target)
         /\ pc = "await_destroy" => Destroying(Target)
         /\ pc = "waitpid" => Dying(Target)
  BY TargetFacts
     DEF ProcInv, ProcOk, Absent, Resting, Creating, Running, Destroying, Dying, Waits

\* Steps that leave the children and the table alone and neither begin nor
\* end the wait for a vsys.
LEMMA ProcFrame ==
  ASSUME ProcInv, EntryInv,
         UNCHANGED <<vsysinfo, child, cid, down, up>>,
         \/ UNCHANGED <<pc, msg, resmsg>>
         \/ pc \notin Waits /\ pc' \notin Waits
  PROVE  ProcInv' /\ EntryInv'
<1>1. EntryInv'  BY DEF EntryInv, Registered
<1>2. ASSUME NEW p \in Procs PROVE ProcOk(p)'
  <2>1. ProcOk(p)  BY DEF ProcInv
  <2>2. CASE UNCHANGED <<pc, msg, resmsg>>
    BY <2>1, <2>2
       DEF ProcOk, Absent, Resting, Creating, Running, Destroying, Dying,
           Mine, Busy, Pipes, Answer, Target
  <2>3. CASE pc \notin Waits /\ pc' \notin Waits
    BY <2>1, <2>3
       DEF ProcOk, Absent, Resting, Creating, Running, Destroying, Dying,
           Mine, Busy, Pipes, Target, Waits
  <2>. QED  BY <2>2, <2>3
<1>. QED  BY <1>1, <1>2 DEF ProcInv

LEMMA ProcClient ==
  ASSUME IInv, NEW c \in Clients,
         Connect(c) \/ ConnectFails(c) \/ ClientRefuses(c) \/ ClientNext(c)
  PROVE  ProcInv' /\ EntryInv'
<1>1. UNCHANGED <<pc, msg, resmsg, vsysinfo, child, cid, down, up>>
  BY DEF Connect, ConnectFails, ClientRefuses, ClientNext, ClientSend,
         ClientSendFails, ClientReceives, ClientSeesEof, daemonVars, childVars
<1>. QED  BY <1>1, ProcFrame DEF IInv

\* The state of a child that the daemon is not dealing with survives every
\* step that is about another one.
LEMMA ProcOther ==
  ASSUME NEW p \in Procs, ProcOk(p),
         child'[p] = child[p], cid'[p] = cid[p], down'[p] = down[p], up'[p] = up[p],
         Mine(p)' <=> Mine(p), ~Busy(p), ~Busy(p)'
  PROVE  ProcOk(p)'
  BY DEF ProcOk, Absent, Resting, Creating, Running, Destroying, Dying,
         Mine, Busy, Pipes, Waits

LEMMA ProcClones ==
  ASSUME IInv, NEW p \in Procs, CreateClones(p)
  PROVE  ProcInv' /\ EntryInv'
<1>. USE ConstantsAssumption DEF IInv
<1>1. msg \in Requests /\ msg.id \in Ids
  BY RequestType DEF CreateClones, TypeInv, TypeOK, TurnInv, Turn
<1>2. p \notin RegisteredProcs
  BY MineIffUsed DEF CreateClones, TypeInv
<1>3. /\ vsysinfo' = [vsysinfo EXCEPT ![msg.id] = p]
      /\ cid' = [cid EXCEPT ![p] = msg.id]
      /\ child' = [child EXCEPT ![p] = "starting"]
      /\ down' = [down EXCEPT ![p] = << >>] /\ up' = [up EXCEPT ![p] = << >>]
      /\ pc = "dispatch" /\ pc' = "await_create" /\ msg' = msg
      /\ msg.cmd = "create" /\ ~Registered(msg.id)
  BY DEF CreateClones
<1>4. EntryInv'
  BY <1>1, <1>2, <1>3
     DEF EntryInv, Registered, RegisteredProcs, TypeInv, TypeOK
<1>5. ASSUME NEW q \in Procs PROVE ProcOk(q)'
  <2>1. CASE q = p
    <3>1. /\ vsysinfo'[msg.id] = p /\ cid'[p] = msg.id /\ child'[p] = "starting"
          /\ down'[p] = << >> /\ up'[p] = << >>
      BY <1>1, <1>3 DEF TypeInv, TypeOK
    <3>. QED
      BY <2>1, <3>1, <1>1, <1>3 DEF ProcOk, Creating, Pipes, Mine, Target
  <2>2. CASE q # p
    <3>1. /\ child'[q] = child[q] /\ cid'[q] = cid[q]
          /\ down'[q] = down[q] /\ up'[q] = up[q]
      BY <2>2, <1>3 DEF TypeInv, TypeOK
    <3>2. vsysinfo'[msg.id] = p /\ vsysinfo[msg.id] = Nobody
      BY <1>1, <1>3 DEF Registered, TypeInv, TypeOK
    <3>3. ~Busy(q) /\ ~Busy(q)'
      BY <1>3, <2>2, <3>2 DEF Busy, Waits, Target
    <3>4. Mine(q)' <=> Mine(q)
      BY <1>3, <2>2, <3>1, <3>2 DEF Mine, TypeInv, TypeOK
    <3>. QED  BY <3>1, <3>3, <3>4, ProcOther DEF ProcInv
  <2>. QED  BY <2>1, <2>2
<1>. QED  BY <1>4, <1>5 DEF ProcInv

\* Reply ends the turn.
LEMMA ReplyEndsTurn ==
  ASSUME NEW r, NEW ends, Reply(r, ends)
  PROVE  pc' \in {"accept", "killed"} /\ csock' = Nobody
  BY DEF Reply, HangUp, Stops

\* The response of the vsys has been read and the turn is over: the vsys is
\* at rest.
LEMMA ProcAnswered ==
  ASSUME IInv, pc \in Waits, pc' \notin Waits,
         UNCHANGED <<vsysinfo, child, cid, down>>,
         up' = [up EXCEPT ![Target] = Tail(@)],
         child[Target] = "serving", down[Target] = << >>,
         Len(up[Target]) = 1
  PROVE  ProcInv' /\ EntryInv'
<1>. USE DEF IInv
<1>1. EntryInv'  BY DEF EntryInv, Registered
<1>2. Target \in Procs /\ Mine(Target)  BY TargetFacts
<1>3. ASSUME NEW q \in Procs PROVE ProcOk(q)'
  <2>1. CASE q = Target
    <3>1. up'[q] = << >>
      BY <1>2, <2>1 DEF TypeInv, TypeOK
    <3>. QED  BY <1>2, <2>1, <3>1 DEF ProcOk, Resting, Mine, Busy, Pipes
  <2>2. CASE q # Target
    <3>1. up'[q] = up[q]  BY <1>2, <2>2 DEF TypeInv, TypeOK
    <3>2. (Mine(q)' <=> Mine(q)) /\ ~Busy(q) /\ ~Busy(q)'
      BY <2>2 DEF Mine, Busy
    <3>. QED  BY <3>1, <3>2, ProcOther DEF ProcInv
  <2>. QED  BY <2>1, <2>2
<1>. QED  BY <1>1, <1>3 DEF ProcInv

LEMMA ProcSends ==
  ASSUME IInv, SendDestroy \/ SendRun
  PROVE  ProcInv' /\ EntryInv'
<1>. USE DEF IInv
<1>1. /\ pc = "dispatch" /\ Registered(msg.id) /\ msg' = msg
      /\ down' = [down EXCEPT ![Target] = Append(@, msg)]
      /\ UNCHANGED <<vsysinfo, child, cid, up>>
      /\ \/ msg.cmd = "destroy" /\ pc' = "await_destroy"
         \/ msg.cmd = "run" /\ pc' = "await_run"
  BY DEF SendDestroy, SendRun, SendDown
<1>2. msg \in Requests /\ msg.id \in Ids
  BY <1>1, RequestType DEF TypeInv, TypeOK, TurnInv, Turn
<1>3. Target \in Procs /\ cid[Target] = msg.id
  BY <1>1, <1>2 DEF Target, Registered, EntryInv, TypeInv, TypeOK
<1>4. EntryInv'  BY <1>1 DEF EntryInv, Registered
<1>5. Target' = Target  BY <1>1 DEF Target
<1>6. ASSUME NEW q \in Procs PROVE ProcOk(q)'
  <2>1. ~Busy(q)  BY <1>1 DEF Busy, Waits
  <2>2. CASE q = Target
    <3>1. Mine(q)  BY <1>2, <1>3, <2>2 DEF Mine, Target
    <3>2. child[q] = "serving" /\ down[q] = << >> /\ up[q] = << >>
      BY <1>1, <3>1
         DEF ProcInv, ProcOk, Absent, Resting, Creating, Running, Destroying,
             Dying, Pipes
    <3>3. down'[q] = <<msg>>
      BY <1>1, <1>3, <2>2, <3>2 DEF TypeInv, TypeOK
    <3>. QED
      BY <1>1, <1>5, <2>2, <3>1, <3>2, <3>3
         DEF ProcOk, Running, Destroying, Mine, Pipes
  <2>3. CASE q # Target
    <3>1. down'[q] = down[q]  BY <1>1, <1>3, <2>3 DEF TypeInv, TypeOK
    <3>2. (Mine(q)' <=> Mine(q)) /\ ~Busy(q)'
      BY <1>1, <1>5, <2>3 DEF Mine, Busy
    <3>. QED  BY <1>1, <2>1, <3>1, <3>2, ProcOther DEF ProcInv
  <2>. QED  BY <2>2, <2>3
<1>. QED  BY <1>4, <1>6 DEF ProcInv

LEMMA ProcAwaits ==
  ASSUME IInv, AwaitCreate \/ AwaitRun
  PROVE  ProcInv' /\ EntryInv'
<1>. USE DEF IInv
<1>1. CASE AwaitCreate
  <2>1. Creating(Target) /\ Target \in Procs /\ cid[Target] \in Ids
    BY <1>1, BusyFacts, TargetFacts DEF AwaitCreate, Waits, Creating, Mine
  <2>2. /\ child[Target] = "serving" /\ down[Target] = << >>
        /\ up[Target] = <<Answer(Target, "create", "create_success")>>
    BY <1>1, <2>1 DEF AwaitCreate, Creating, Pipes
  <2>3. ResponseOk("create", Head(up[Target]))
    BY <2>1, <2>2, ResponseType DEF ResponseOk, Answer, Commands, RespTypes
  <2>4. /\ pc = "await_create" /\ up' = [up EXCEPT ![Target] = Tail(@)]
        /\ UNCHANGED <<vsysinfo, child, cid, down>>
        /\ Reply(Head(up[Target]), fd[Daemon])
    BY <1>1, <2>3 DEF AwaitCreate
  <2>. QED  BY <2>2, <2>4, ReplyEndsTurn, ProcAnswered DEF Waits
<1>2. CASE AwaitRun
  <2>1. Running(Target)  BY <1>2, BusyFacts DEF AwaitRun, Waits
  <2>2. /\ child[Target] = "serving" /\ down[Target] = << >>
        /\ Len(up[Target]) = 1
    BY <1>2, <2>1 DEF AwaitRun, Running, Pipes
  <2>. QED  BY <1>2, <2>2, ReplyEndsTurn, ProcAnswered DEF AwaitRun, Waits
<1>. QED  BY <1>1, <1>2

LEMMA ProcAwaitDestroy ==
  ASSUME IInv, AwaitDestroy
  PROVE  /\ ProcInv' /\ EntryInv'
         /\ UNCHANGED <<csock, fd, backlog, rsp>>
<1>. USE DEF IInv
<1>1. Destroying(Target) /\ Target \in Procs /\ cid[Target] \in Ids
  BY BusyFacts, TargetFacts DEF AwaitDestroy, Waits, Destroying, Mine
<1>2. /\ child[Target] \in {"exiting", "zombie"} /\ down[Target] = << >>
      /\ up[Target] = <<Answer(Target, "destroy", "destroy_success")>>
      /\ msg.cmd = "destroy" /\ Mine(Target)
  BY <1>1 DEF AwaitDestroy, Destroying, Pipes
<1>3. ResponseOk("destroy", Head(up[Target]))
  BY <1>1, <1>2, ResponseType DEF ResponseOk, Answer, Commands, RespTypes
<1>4. /\ pc = "await_destroy" /\ pc' = "waitpid" /\ resmsg' = Head(up[Target])
      /\ up' = [up EXCEPT ![Target] = Tail(@)]
      /\ UNCHANGED <<msg, vsysinfo, child, cid, down, csock, fd, backlog, rsp>>
  BY <1>3 DEF AwaitDestroy
<1>5. EntryInv'  BY <1>4 DEF EntryInv, Registered
<1>6. Target' = Target  BY <1>4 DEF Target
<1>7. ASSUME NEW q \in Procs PROVE ProcOk(q)'
  <2>1. CASE q = Target
    <3>1. up'[q] = << >> /\ resmsg' = Answer(q, "destroy", "destroy_success")
      BY <1>1, <1>2, <1>4, <2>1 DEF TypeInv, TypeOK
    <3>. QED
      BY <1>2, <1>4, <1>6, <2>1, <3>1
         DEF ProcOk, Dying, Mine, Pipes, Answer
  <2>2. CASE q # Target
    <3>1. up'[q] = up[q]  BY <1>1, <1>4, <2>2 DEF TypeInv, TypeOK
    <3>2. (Mine(q)' <=> Mine(q)) /\ ~Busy(q) /\ ~Busy(q)'
      BY <1>4, <1>6, <2>2 DEF Mine, Busy
    <3>. QED  BY <1>4, <3>1, <3>2, ProcOther DEF ProcInv
  <2>. QED  BY <2>1, <2>2
<1>. QED  BY <1>4, <1>5, <1>7 DEF ProcInv

LEMMA ProcReap ==
  ASSUME IInv, Reap
  PROVE  ProcInv' /\ EntryInv'
<1>. USE ConstantsAssumption DEF IInv
<1>1. /\ Dying(Target) /\ Target \in Procs /\ cid[Target] = msg.id
      /\ msg.id \in Ids
  BY BusyFacts, TargetFacts DEF Reap, Waits
<1>2. /\ pc = "waitpid" /\ pc' \notin Waits
      /\ child' = [child EXCEPT ![Target] = "none"]
      /\ vsysinfo' = [vsysinfo EXCEPT ![msg.id] = Nobody]
      /\ UNCHANGED <<cid, down, up>>
  BY ReplyEndsTurn DEF Reap, Cleaned, Waits
<1>3. EntryInv'
  BY <1>1, <1>2 DEF EntryInv, Registered, TypeInv, TypeOK
<1>4. ASSUME NEW q \in Procs PROVE ProcOk(q)'
  <2>1. CASE q = Target
    <3>1. child'[q] = "none" /\ vsysinfo'[cid[q]] = Nobody
      BY <1>1, <1>2, <2>1 DEF TypeInv, TypeOK
    <3>. QED
      BY <1>1, <1>2, <2>1, <3>1 DEF ProcOk, Absent, Dying, Pipes, Mine
  <2>2. CASE q # Target
    <3>1. child'[q] = child[q]  BY <1>1, <1>2, <2>2 DEF TypeInv, TypeOK
    <3>2. ~Busy(q) /\ ~Busy(q)'  BY <1>2, <2>2 DEF Busy
    <3>3. Mine(q)' <=> Mine(q)
      BY <1>1, <1>2, <2>2 DEF Mine, Target, TypeInv, TypeOK
    <3>. QED  BY <1>2, <3>1, <3>2, <3>3, ProcOther DEF ProcInv
  <2>. QED  BY <2>1, <2>2
<1>. QED  BY <1>3, <1>4 DEF ProcInv

LEMMA ProcDaemon ==
  ASSUME IInv, DaemonNext
  PROVE  ProcInv' /\ EntryInv'
<1>. DEFINE Framed == /\ UNCHANGED <<vsysinfo, child, cid, down, up>>
                      /\ pc \notin Waits /\ pc' \notin Waits
<1>1. CASE Accept \/ AcceptFails \/ Recv \/ RecvEof \/ RecvEofCrash \/ RecvNoMemory
  <2>1. Framed
    BY <1>1
       DEF Accept, AcceptFails, Recv, RecvEof, RecvEofCrash, RecvNoMemory, Stops,
           Waits, childVars
  <2>. QED  BY <2>1, ProcFrame DEF IInv
<1>2. CASE UnknownCommand
  <2>1. Framed  BY <1>2, ReplyEndsTurn DEF UnknownCommand, Waits, childVars
  <2>. QED  BY <2>1, ProcFrame DEF IInv
<1>3. CASE CreateExisting \/ NoSuchVsys \/ CreateFails \/ CreateNoStack
  <2>1. Framed
    BY <1>3
       DEF CreateExisting, NoSuchVsys, CreateFails, CreateNoStack, HangUp,
           Stops, Waits, childVars
  <2>. QED  BY <2>1, ProcFrame DEF IInv
<1>. QED  BY <1>1, <1>2, <1>3, ProcClones, ProcSends, ProcAwaits,
             ProcAwaitDestroy, ProcReap DEF DaemonNext

\* A child's step changes its own state and pipes only.
LEMMA ProcOwnStep ==
  ASSUME IInv, NEW p \in Procs, UNCHANGED <<pc, msg, resmsg, vsysinfo, cid>>,
         \A q \in Procs \ {p} : /\ child'[q] = child[q]
                                /\ down'[q] = down[q] /\ up'[q] = up[q],
         ProcOk(p)'
  PROVE  ProcInv' /\ EntryInv'
<1>1. EntryInv'  BY DEF IInv, EntryInv, Registered
<1>2. ASSUME NEW q \in Procs, q # p PROVE ProcOk(q)'
  <2>1. ProcOk(q)  BY DEF IInv, ProcInv
  <2>2. /\ child'[q] = child[q] /\ down'[q] = down[q] /\ up'[q] = up[q]
        /\ cid'[q] = cid[q] /\ (Mine(q)' <=> Mine(q)) /\ (Busy(q)' <=> Busy(q))
        /\ Target' = Target
    BY <1>2 DEF Mine, Busy, Target
  <2>. QED
    BY <2>1, <2>2
       DEF ProcOk, Absent, Resting, Creating, Running, Destroying, Dying,
           Pipes, Answer
<1>. QED  BY <1>1, <1>2 DEF ProcInv

\* While the daemon waits for p, it has its end of p's pipe open.
LEMMA ReaderOpen ==
  ASSUME IInv, NEW p \in Procs, Mine(p), Alive
  PROVE  <<p, "pr">> \in fd[Daemon]
<1>1. p \in RegisteredProcs  BY MineIffUsed DEF IInv, TypeInv
<1>. QED  BY <1>1 DEF IInv, FdInv, EndsOf, ParentEnds

LEMMA ProcChild ==
  ASSUME IInv, NEW p \in Procs, ChildNext(p)
  PROVE  ProcInv' /\ EntryInv'
<1>. USE DEF IInv
<1>1. ProcOk(p)  BY DEF ProcInv
<1>2. CASE ChildStart(p)
  <2>1. Creating(p) /\ child[p] = "starting" /\ Pipes(p, << >>, << >>) /\ Alive
    BY <1>1, <1>2
       DEF ChildStart, ProcOk, Absent, Resting, Creating, Running, Destroying,
           Dying, Alive
  <2>2. up' = [up EXCEPT ![p] = Append(@, Answer(p, "create", "create_success"))]
    BY <1>2, <2>1, ReaderOpen DEF ChildStart, Written, Answer, Creating
  <2>3. /\ UNCHANGED <<pc, msg, resmsg, vsysinfo, cid, down>>
        /\ child' = [child EXCEPT ![p] = "serving"]
    BY <1>2 DEF ChildStart, daemonVars
  <2>4. /\ child'[p] = "serving" /\ down'[p] = << >>
        /\ up'[p] = <<Answer(p, "create", "create_success")>>
    BY <2>1, <2>2, <2>3 DEF TypeInv, TypeOK, Pipes
  <2>5. Creating(p)'
    BY <2>1, <2>3, <2>4 DEF Creating, Pipes, Mine, Target, Answer
  <2>. QED  BY <2>2, <2>3, <2>5, ProcOwnStep DEF TypeInv, TypeOK, ProcOk
<1>3. CASE ChildRuns(p)
  <2>1. PICK t \in {"start_success", "start_failed"} :
           ChildTakes(p, "run", Response("run", cid[p], t))
    BY <1>3 DEF ChildRuns
  <2>2. Running(p) /\ down[p] = <<msg>> /\ up[p] = << >> /\ Alive
    BY <1>1, <2>1
       DEF ChildTakes, ProcOk, Absent, Resting, Creating, Running, Destroying,
           Dying, Pipes, Alive
  <2>3. /\ Head(down[p]).id = cid[p]
        /\ up' = [up EXCEPT ![p] = Append(@, Answer(p, "run", t))]
    BY <2>1, <2>2, TargetFacts, ReaderOpen
       DEF ChildTakes, Running, Waits, Written, Answer
  <2>4. /\ UNCHANGED <<pc, msg, resmsg, vsysinfo, cid, child>>
        /\ down' = [down EXCEPT ![p] = Tail(@)]
    BY <1>3, <2>1 DEF ChildRuns, ChildTakes, daemonVars
  <2>5. down'[p] = << >> /\ up'[p] = <<Answer(p, "run", t)>>
    BY <2>2, <2>3, <2>4 DEF TypeInv, TypeOK
  <2>6. Running(p)'
    BY <2>2, <2>4, <2>5 DEF Running, Pipes, Mine, Target, Answer
  <2>. QED  BY <2>3, <2>4, <2>6, ProcOwnStep DEF TypeInv, TypeOK, ProcOk
<1>4. CASE ChildDestroys(p)
  <2>1. ChildTakes(p, "destroy", Response("destroy", cid[p], "destroy_success"))
    BY <1>4 DEF ChildDestroys
  <2>2. Destroying(p) /\ down[p] = <<msg>> /\ up[p] = << >> /\ Alive
    BY <1>1, <2>1
       DEF ChildTakes, ProcOk, Absent, Resting, Creating, Running, Destroying,
           Dying, Pipes, Alive
  <2>3. /\ Head(down[p]).id = cid[p]
        /\ up' = [up EXCEPT ![p] = Append(@, Answer(p, "destroy", "destroy_success"))]
    BY <2>1, <2>2, TargetFacts, ReaderOpen
       DEF ChildTakes, Destroying, Waits, Written, Answer
  <2>4. /\ UNCHANGED <<pc, msg, resmsg, vsysinfo, cid>>
        /\ down' = [down EXCEPT ![p] = Tail(@)]
        /\ child' = [child EXCEPT ![p] = "exiting"]
    BY <1>4, <2>1, <2>3 DEF ChildDestroys, ChildTakes, daemonVars
  <2>5. /\ down'[p] = << >> /\ child'[p] = "exiting"
        /\ up'[p] = <<Answer(p, "destroy", "destroy_success")>>
    BY <2>2, <2>3, <2>4 DEF TypeInv, TypeOK
  <2>6. Destroying(p)'
    BY <2>2, <2>4, <2>5 DEF Destroying, Pipes, Mine, Target, Answer
  <2>. QED  BY <2>3, <2>4, <2>6, ProcOwnStep DEF TypeInv, TypeOK, ProcOk
<1>5. CASE ChildExits(p)
  <2>1. /\ child[p] = "exiting" /\ child' = [child EXCEPT ![p] = "zombie"]
        /\ UNCHANGED <<pc, msg, resmsg, vsysinfo, cid, down, up>>
    BY <1>5 DEF ChildExits, daemonVars
  <2>2. child'[p] = "zombie"  BY <2>1 DEF TypeInv, TypeOK
  <2>3. Destroying(p) \/ Dying(p)
    BY <1>1, <2>1
       DEF ProcOk, Absent, Resting, Creating, Running, Destroying, Dying
  <2>4. Destroying(p)' \/ Dying(p)'
    BY <2>1, <2>2, <2>3 DEF Destroying, Dying, Pipes, Mine, Target, Answer
  <2>. QED  BY <2>1, <2>4, ProcOwnStep DEF TypeInv, TypeOK, ProcOk
<1>6. CASE ChildDropsRun(p)
  <2>1. Running(p) /\ down[p] = <<msg>> /\ up[p] = << >>
    BY <1>1, <1>6
       DEF ChildDropsRun, ProcOk, Absent, Resting, Creating, Running, Destroying,
           Dying, Pipes
  <2>2. /\ UNCHANGED <<pc, msg, resmsg, vsysinfo, cid, child, up>>
        /\ "message" \in Faults /\ down' = [down EXCEPT ![p] = Tail(@)]
    BY <1>6 DEF ChildDropsRun, daemonVars
  <2>3. down'[p] = << >> /\ up'[p] = << >>
    BY <2>1, <2>2 DEF TypeInv, TypeOK
  <2>4. Running(p)'
    BY <2>1, <2>2, <2>3 DEF Running, Pipes, Mine, Target
  <2>. QED  BY <2>2, <2>4, ProcOwnStep DEF TypeInv, TypeOK, ProcOk
<1>. QED  BY <1>2, <1>3, <1>4, <1>5, <1>6 DEF ChildNext

-----------------------------------------------------------------------------
(* Pipe ends.                                                              *)

Held(p) == CASE child[p] = "starting" -> EndsOf(RegisteredProcs) \cup ChildEnds(p)
             [] child[p] \in {"serving", "exiting"} -> ChildEnds(p)
             [] OTHER -> {}

LEMMA FdInit == Init => FdInv /\ InfoInv
  BY ConstantsAssumption
     DEF Init, FdInv, InfoInv, Alive, EndsOf, RegisteredProcs, Registered

LEMMA FdDef == FdInv <=> /\ fd[Daemon] = IF Alive THEN EndsOf(RegisteredProcs) ELSE {}
                         /\ \A p \in Procs : fd[p] = Held(p)
  BY DEF FdInv, Held

\* Only the child being created can be starting.
LEMMA NoneStarting ==
  ASSUME ProcInv, pc # "await_create", NEW p \in Procs
  PROVE  child[p] # "starting"
  BY DEF ProcInv, ProcOk, Absent, Resting, Creating, Running, Destroying, Dying

\* Steps of clients, and of the daemon between the creation and the end of a
\* vsys.
LEMMA FdFrame ==
  ASSUME IInv, UNCHANGED <<vsysinfo, child, info1>>,
         \/ UNCHANGED fd /\ Alive' = Alive
         \/ fd' = [fd EXCEPT ![Daemon] = {}] /\ ~Alive'
  PROVE  FdInv' /\ InfoInv'
<1>. USE ConstantsAssumption DEF IInv
<1>1. InfoInv'  BY DEF InfoInv, Registered
<1>2. RegisteredProcs' = RegisteredProcs  BY DEF RegisteredProcs
<1>3. ASSUME NEW p \in Procs PROVE fd'[p] = Held(p)'
  <2>1. fd'[p] = fd[p]  BY DEF TypeInv, TypeOK
  <2>. QED  BY <1>2, <2>1, FdDef DEF Held
<1>4. fd'[Daemon] = IF Alive' THEN EndsOf(RegisteredProcs') ELSE {}
  <2>1. EndsOf(RegisteredProcs') = EndsOf(RegisteredProcs)
    BY <1>2 DEF EndsOf
  <2>2. CASE UNCHANGED fd /\ Alive' = Alive  BY <2>1, <2>2 DEF FdInv
  <2>3. CASE fd' = [fd EXCEPT ![Daemon] = {}] /\ ~Alive'
    BY <2>3 DEF TypeInv, TypeOK
  <2>. QED  BY <2>2, <2>3
<1>. QED  BY <1>1, <1>3, <1>4 DEF FdInv, Held

LEMMA ReplyFd ==
  ASSUME IInv, pc \in Turn, NEW r, NEW ends, Reply(r, ends)
  PROVE  /\ fd' = [fd EXCEPT ![Daemon] = IF Alive' THEN ends ELSE {}]
         /\ pc' \in {"accept", "killed"}
  BY DEF Reply, HangUp, Stops, Alive

\* A reply that closes no pipe.
LEMMA ReplyFrame ==
  ASSUME IInv, pc \in Turn, NEW r, Reply(r, fd[Daemon])
  PROVE  \/ UNCHANGED fd /\ Alive' = Alive
         \/ fd' = [fd EXCEPT ![Daemon] = {}] /\ ~Alive'
<1>1. CASE Alive'
  <2>1. fd' = [fd EXCEPT ![Daemon] = fd[Daemon]]  BY <1>1, ReplyFd
  <2>2. fd' = fd  BY <2>1 DEF IInv, TypeInv, TypeOK
  <2>. QED  BY <1>1, <2>2 DEF Alive, Turn
<1>2. CASE ~Alive'  BY <1>2, ReplyFd
<1>. QED  BY <1>1, <1>2

LEMMA FdClones ==
  ASSUME IInv, NEW p \in Procs, CreateClones(p)
  PROVE  FdInv' /\ InfoInv'
<1>. USE ConstantsAssumption DEF IInv
<1>1. msg \in Requests /\ msg.id \in Ids
  BY RequestType DEF CreateClones, TypeInv, TypeOK, TurnInv, Turn
<1>2. /\ vsysinfo' = [vsysinfo EXCEPT ![msg.id] = p]
      /\ info1' = [info1 EXCEPT ![msg.id] = "live"]
      /\ child' = [child EXCEPT ![p] = "starting"]
      /\ fd' = [fd EXCEPT ![Daemon] = @ \cup ParentEnds(p),
                          ![p] = fd[Daemon] \cup ParentEnds(p) \cup ChildEnds(p)]
      /\ pc = "dispatch" /\ pc' = "await_create" /\ vsysinfo[msg.id] = Nobody
  BY DEF CreateClones, Registered
<1>3. InfoInv'
  BY <1>1, <1>2 DEF InfoInv, Registered, TypeInv, TypeOK
<1>4. RegisteredProcs' = RegisteredProcs \cup {p}
  BY <1>1, <1>2 DEF RegisteredProcs, TypeInv, TypeOK
<1>5. EndsOf(RegisteredProcs') = EndsOf(RegisteredProcs) \cup ParentEnds(p)
  BY <1>4 DEF EndsOf
<1>6. fd[Daemon] = EndsOf(RegisteredProcs) /\ Alive'
  BY <1>2 DEF FdInv, Alive
<1>7. fd'[Daemon] = EndsOf(RegisteredProcs')
  BY <1>2, <1>5, <1>6 DEF TypeInv, TypeOK
<1>8. ASSUME NEW q \in Procs PROVE fd'[q] = Held(q)'
  <2>1. CASE q = p
    <3>1. /\ child'[q] = "starting"
          /\ fd'[q] = fd[Daemon] \cup ParentEnds(p) \cup ChildEnds(p)
      BY <1>2, <2>1 DEF TypeInv, TypeOK
    <3>. QED  BY <1>5, <1>6, <2>1, <3>1 DEF Held
  <2>2. CASE q # p
    <3>1. child'[q] = child[q] /\ fd'[q] = fd[q]
      BY <1>2, <2>2 DEF TypeInv, TypeOK
    <3>2. child[q] # "starting"  BY <1>2, NoneStarting
    <3>. QED  BY <3>1, <3>2, FdDef DEF Held
  <2>. QED  BY <2>1, <2>2
<1>. QED  BY <1>3, <1>6, <1>7, <1>8 DEF FdInv, Held

LEMMA FdReap ==
  ASSUME IInv, Reap
  PROVE  FdInv' /\ InfoInv'
<1>. USE ConstantsAssumption DEF IInv
<1>1. Target \in Procs /\ cid[Target] = msg.id /\ msg.id \in Ids /\ Mine(Target)
  BY TargetFacts DEF Reap, Waits
<1>2. /\ pc = "waitpid" /\ pc' \in {"accept", "killed"}
      /\ child' = [child EXCEPT ![Target] = "none"]
      /\ vsysinfo' = [vsysinfo EXCEPT ![msg.id] = Nobody]
      /\ info1' = [info1 EXCEPT ![msg.id] = "null"]
      /\ fd' = [fd EXCEPT ![Daemon] = IF Alive' THEN fd[Daemon] \ ParentEnds(Target)
                                              ELSE {}]
  BY ReplyFd DEF Reap, Cleaned, Turn
<1>3. InfoInv'
  BY <1>1, <1>2 DEF InfoInv, Registered, TypeInv, TypeOK
<1>4. RegisteredProcs' = RegisteredProcs \ {Target}
  BY <1>1, <1>2 DEF RegisteredProcs, EntryInv, Registered, Target, TypeInv, TypeOK
<1>5. EndsOf(RegisteredProcs') = EndsOf(RegisteredProcs) \ ParentEnds(Target)
  BY <1>4 DEF EndsOf, ParentEnds
<1>6. fd[Daemon] = EndsOf(RegisteredProcs)
  BY <1>2 DEF FdInv, Alive
<1>7. fd'[Daemon] = IF Alive' THEN EndsOf(RegisteredProcs') ELSE {}
  BY <1>2, <1>5, <1>6 DEF TypeInv, TypeOK
<1>8. ASSUME NEW q \in Procs PROVE fd'[q] = Held(q)'
  <2>1. fd'[q] = fd[q]  BY <1>2 DEF TypeInv, TypeOK
  <2>2. CASE q = Target
    <3>1. child'[q] = "none" /\ child[q] = "zombie"
      BY <1>1, <1>2, <2>2 DEF Reap, TypeInv, TypeOK
    <3>. QED  BY <2>1, <3>1, FdDef DEF Held
  <2>3. CASE q # Target
    <3>1. child'[q] = child[q] /\ child[q] # "starting"
      BY <1>1, <1>2, <2>3, NoneStarting DEF TypeInv, TypeOK
    <3>. QED  BY <2>1, <3>1, FdDef DEF Held
  <2>. QED  BY <2>2, <2>3
<1>. QED  BY <1>3, <1>7, <1>8 DEF FdInv, Held

LEMMA FdDaemon ==
  ASSUME IInv, DaemonNext
  PROVE  FdInv' /\ InfoInv'
<1>. USE DEF HangUp, Alive
<1>1. CASE Accept \/ Recv \/ RecvEof \/ CreateExisting \/ NoSuchVsys
  BY <1>1, FdFrame
     DEF Accept, Recv, RecvEof, CreateExisting, NoSuchVsys, childVars
<1>2. CASE AcceptFails \/ RecvEofCrash \/ RecvNoMemory \/ CreateNoStack
  BY <1>2, FdFrame
     DEF AcceptFails, RecvEofCrash, RecvNoMemory, CreateNoStack, Stops, childVars
<1>3. CASE CreateFails
  <2>1. InfoInv'
    BY <1>3, RequestType, NobodyAssumption
       DEF CreateFails, IInv, InfoInv, Registered, TypeInv, TypeOK, TurnInv, Turn
  <2>2. RegisteredProcs' = RegisteredProcs
    BY <1>3 DEF CreateFails, RegisteredProcs
  <2>. QED
    BY <1>3, <2>1, <2>2 DEF CreateFails, IInv, FdInv, childVars
<1>4. CASE UnknownCommand
  BY <1>4, ReplyFrame, FdFrame DEF UnknownCommand, Turn, childVars
<1>5. CASE AwaitCreate
  <2>1. Creating(Target) /\ Target \in Procs /\ cid[Target] \in Ids
    BY <1>5, BusyFacts, TargetFacts DEF AwaitCreate, IInv, Waits, Creating, Mine
  <2>2. up[Target] = <<Answer(Target, "create", "create_success")>>
    BY <1>5, <2>1 DEF AwaitCreate, Creating, Pipes
  <2>3. ResponseOk("create", Head(up[Target]))
    BY <2>1, <2>2, ResponseType DEF ResponseOk, Answer, Commands, RespTypes
  <2>4. /\ Reply(Head(up[Target]), fd[Daemon]) /\ pc = "await_create"
        /\ UNCHANGED <<vsysinfo, child, info1>>
    BY <1>5, <2>3 DEF AwaitCreate
  <2>. QED  BY <2>4, ReplyFrame, FdFrame DEF Turn
<1>6. CASE SendDestroy \/ SendRun
  BY <1>6, FdFrame DEF SendDestroy, SendRun, SendDown
<1>7. CASE AwaitRun
  BY <1>7, ReplyFrame, FdFrame DEF AwaitRun, Turn
<1>8. CASE AwaitDestroy
  <2>1. UNCHANGED fd /\ pc = "await_destroy"
    BY <1>8, ProcAwaitDestroy DEF AwaitDestroy
  <2>2. pc' \in {"waitpid", "accept", "killed"}
    BY <1>8, ReplyEndsTurn DEF AwaitDestroy
  <2>3. UNCHANGED csock  BY <1>8, ProcAwaitDestroy
  <2>4. csock \in Clients
    BY <2>1, TargetFacts DEF IInv, Waits
  <2>5. pc' = "waitpid"
    BY <1>8, <2>3, <2>4, ConstantsAssumption, ReplyEndsTurn DEF AwaitDestroy
  <2>. QED  BY <1>8, <2>1, <2>5, FdFrame DEF AwaitDestroy
<1>. QED  BY <1>1, <1>2, <1>3, <1>4, <1>5, <1>6, <1>7, <1>8, FdClones, FdReap
             DEF DaemonNext

LEMMA FdClient ==
  ASSUME IInv, NEW c \in Clients,
         Connect(c) \/ ConnectFails(c) \/ ClientRefuses(c) \/ ClientNext(c)
  PROVE  FdInv' /\ InfoInv'
<1>1. UNCHANGED <<pc, fd, vsysinfo, info1, child>>
  BY DEF Connect, ConnectFails, ClientRefuses, ClientNext, ClientSend,
         ClientSendFails, ClientReceives, ClientSeesEof, daemonVars, childVars
<1>. QED  BY <1>1, FdFrame DEF Alive

LEMMA FdChild ==
  ASSUME IInv, NEW p \in Procs, ChildNext(p)
  PROVE  FdInv' /\ InfoInv'
<1>. USE ConstantsAssumption DEF IInv
<1>1. UNCHANGED <<pc, vsysinfo, info1>>
  BY DEF ChildNext, ChildStart, ChildRuns, ChildDropsRun, ChildDestroys, ChildExits,
         daemonVars
<1>2. InfoInv'  BY <1>1 DEF InfoInv, Registered
<1>3. /\ fd'[Daemon] = fd[Daemon]
      /\ \A q \in Procs \ {p} : fd'[q] = fd[q] /\ child'[q] = child[q]
  BY DEF ChildNext, ChildStart, ChildRuns, ChildDropsRun, ChildDestroys, ChildExits,
         TypeInv, TypeOK
<1>4. RegisteredProcs' = RegisteredProcs /\ Alive' = Alive
  BY <1>1 DEF RegisteredProcs, Alive
<1>5. EndsOf(RegisteredProcs') = EndsOf(RegisteredProcs)  BY <1>4 DEF EndsOf
<1>6. fd'[p] = Held(p)'
  <2>1. CASE ChildStart(p)
    <3>1. /\ child[p] = "starting" /\ child'[p] = "serving"
          /\ fd'[p] = fd[p] \ EndsOf(RegisteredProcs)
      BY <2>1 DEF ChildStart, TypeInv, TypeOK
    <3>2. fd[p] = EndsOf(RegisteredProcs) \cup ChildEnds(p)
      BY <3>1 DEF FdInv
    <3>3. ChildEnds(p) \cap EndsOf(RegisteredProcs) = {}
      BY DEF ChildEnds, EndsOf, ParentEnds
    <3>. QED  BY <3>1, <3>2, <3>3 DEF Held
  <2>2. CASE ChildRuns(p) \/ ChildDropsRun(p)
    <3>1. child'[p] = child[p] /\ fd'[p] = fd[p] /\ child[p] = "serving"
      BY <2>2 DEF ChildRuns, ChildTakes, ChildDropsRun
    <3>. QED  BY <3>1, FdDef DEF Held
  <2>3. CASE ChildDestroys(p)
    <3>1. child'[p] \in {"serving", "exiting"} /\ fd'[p] = fd[p] /\ child[p] = "serving"
      BY <2>3 DEF ChildDestroys, ChildTakes, TypeInv, TypeOK
    <3>. QED  BY <3>1, FdDef DEF Held
  <2>4. CASE ChildExits(p)
    <3>1. child'[p] = "zombie" /\ fd'[p] = {}
      BY <2>4 DEF ChildExits, TypeInv, TypeOK
    <3>. QED  BY <3>1 DEF Held
  <2>. QED  BY <2>1, <2>2, <2>3, <2>4 DEF ChildNext
<1>7. ASSUME NEW q \in Procs \ {p} PROVE fd'[q] = Held(q)'
  BY <1>3, <1>5, FdDef DEF Held
<1>8. fd'[Daemon] = IF Alive' THEN EndsOf(RegisteredProcs') ELSE {}
  BY <1>3, <1>4, <1>5 DEF FdInv
<1>. QED  BY <1>2, <1>6, <1>7, <1>8 DEF FdInv, Held

-----------------------------------------------------------------------------
(* Whose answer.                                                           *)

LEMMA ReplyInit == Init => ReplyInv
  BY DEF Init, ReplyInv, ClientOpen, Turn

LEMMA ReplyClient ==
  ASSUME IInv, NEW c \in Clients,
         Connect(c) \/ ConnectFails(c) \/ ClientRefuses(c) \/ ClientNext(c)
  PROVE  ReplyInv'
<1>. USE NobodyAssumption
     DEF IInv, TypeInv, TypeOK, ReplyInv, ClientOpen, daemonVars, socketVars, clientVars
<1>1. CASE Connect(c)
  BY <1>1 DEF Connect, Pending
<1>2. CASE ConnectFails(c)  BY <1>2 DEF ConnectFails
<1>3. CASE ClientRefuses(c)  BY <1>3 DEF ClientRefuses
<1>4. CASE ClientSend(c)  BY <1>4 DEF ClientSend
<1>5. CASE ClientSendFails(c)  BY <1>5 DEF ClientSendFails
<1>6. CASE ClientReceives(c)  BY <1>6 DEF ClientReceives
<1>7. CASE ClientSeesEof(c)  BY <1>7 DEF ClientSeesEof
<1>. QED  BY <1>1, <1>2, <1>3, <1>4, <1>5, <1>6, <1>7 DEF ClientNext

\* A reply that names the command and the vsys of the message being served
\* answers the client being served.
LEMMA ReplyAnswers ==
  ASSUME IInv, pc \in Turn \ {"recv"}, NEW r \in Responses,
         r.cmd = msg.cmd, r.id = msg.id, NEW ends, Reply(r, ends),
         UNCHANGED <<wire, cpc, req>>
  PROVE  ReplyInv'
<1>. USE DEF IInv, ReplyInv, ClientOpen
<1>1. csock \in Clients
  BY DEF TypeInv, TypeOK, TurnInv
<1>2. pc' \notin Turn  BY ReplyEndsTurn DEF Turn
<1>3. CASE ClientOpen(csock)
  <2>1. cpc[csock] = "waiting" /\ msg = req[csock]  BY <1>3
  <2>2. rsp' = [rsp EXCEPT ![csock] = r]  BY <1>3 DEF Reply
  <2>. QED  BY <1>1, <1>2, <2>1, <2>2 DEF TypeInv, TypeOK
<1>4. CASE ~ClientOpen(csock)
  <2>1. UNCHANGED rsp  BY <1>4 DEF Reply
  <2>. QED  BY <1>2, <2>1
<1>. QED  BY <1>3, <1>4

LEMMA ReplyFrameInv ==
  ASSUME ReplyInv, UNCHANGED <<wire, rsp, cpc, req>>,
         \/ UNCHANGED <<csock, msg>> /\ pc \in Turn \ {"recv"}
         \/ pc' \notin Turn \ {"recv"}
  PROVE  ReplyInv'
  BY DEF ReplyInv, ClientOpen

LEMMA ReplyDaemon ==
  ASSUME IInv, DaemonNext
  PROVE  ReplyInv'
<1>. USE DEF HangUp, Stops, clientVars, socketVars
<1>1. CASE Accept \/ AcceptFails \/ RecvEofCrash \/ RecvNoMemory
  BY <1>1, ReplyFrameInv
     DEF Accept, AcceptFails, RecvEofCrash, RecvNoMemory, IInv, Turn
<1>2. CASE Recv
  <2>1. csock \in Clients  BY <1>2 DEF Recv, IInv, TypeInv, TypeOK, TurnInv, Turn
  <2>. QED
    BY <1>2, <2>1 DEF Recv, IInv, TypeInv, TypeOK, ReplyInv, ClientOpen
<1>3. CASE RecvEof
  BY <1>3 DEF RecvEof, IInv, ReplyInv, ClientOpen
<1>4. CASE UnknownCommand
  <2>1. /\ pc = "dispatch" /\ msg \in Requests
        /\ Reply(Response(msg.cmd, msg.id, "unknown"), fd[Daemon])
        /\ UNCHANGED <<wire, cpc, req>>
    BY <1>4 DEF UnknownCommand, IInv, TypeInv, TypeOK, TurnInv, Turn
  <2>2. /\ Response(msg.cmd, msg.id, "unknown") \in Responses
        /\ Response(msg.cmd, msg.id, "unknown").cmd = msg.cmd
        /\ Response(msg.cmd, msg.id, "unknown").id = msg.id
    BY <2>1, RequestType, ResponseType DEF RespTypes
  <2>. QED  BY <2>1, <2>2, ReplyAnswers DEF Turn
<1>5. CASE CreateExisting \/ NoSuchVsys \/ CreateFails \/ CreateNoStack
  BY <1>5, ReplyFrameInv
     DEF CreateExisting, NoSuchVsys, CreateFails, CreateNoStack, IInv, Turn
<1>6. CASE SendDestroy \/ SendRun \/ \E p \in Procs : CreateClones(p)
  BY <1>6, ReplyFrameInv DEF SendDestroy, SendRun, SendDown, CreateClones, IInv, Turn
<1>7. CASE AwaitCreate
  <2>1. /\ Creating(Target) /\ Target \in Procs /\ cid[Target] = msg.id
        /\ msg.id \in Ids /\ pc = "await_create" /\ up[Target] # << >>
    BY <1>7, BusyFacts, TargetFacts DEF AwaitCreate, IInv, Waits
  <2>2. /\ up[Target] = <<Answer(Target, "create", "create_success")>>
        /\ msg.cmd = "create"
    BY <2>1 DEF Creating, Pipes
  <2>3. /\ Head(up[Target]) \in Responses /\ Head(up[Target]).cmd = msg.cmd
        /\ Head(up[Target]).id = msg.id
    BY <2>1, <2>2, ResponseType DEF Answer, Commands, RespTypes
  <2>4. /\ \E ends : Reply(Head(up[Target]), ends)
        /\ UNCHANGED <<wire, cpc, req>>
    BY <1>7 DEF AwaitCreate
  <2>. QED  BY <2>1, <2>3, <2>4, ReplyAnswers DEF Turn
<1>8. CASE AwaitRun
  <2>1. /\ Running(Target) /\ Target \in Procs /\ cid[Target] = msg.id
        /\ msg.id \in Ids /\ pc = "await_run" /\ up[Target] # << >>
    BY <1>8, BusyFacts, TargetFacts DEF AwaitRun, IInv, Waits
  <2>2. PICK t \in {"start_success", "start_failed"} :
           up[Target] = <<Answer(Target, "run", t)>>
    BY <2>1 DEF Running, Pipes
  <2>3. /\ Head(up[Target]) \in Responses /\ Head(up[Target]).cmd = "run"
        /\ Head(up[Target]).id = msg.id
    BY <2>1, <2>2, ResponseType DEF Answer, Commands, RespTypes
  <2>4. msg.cmd = "run"  BY <2>1 DEF Running
  <2>5. Reply(Head(up[Target]), fd[Daemon]) /\ UNCHANGED <<wire, cpc, req>>
    BY <1>8 DEF AwaitRun
  <2>. QED  BY <2>1, <2>3, <2>4, <2>5, ReplyAnswers DEF Turn
<1>9. CASE AwaitDestroy
  BY <1>9, ProcAwaitDestroy, ReplyFrameInv DEF AwaitDestroy, IInv, Turn
<1>10. CASE Reap
  <2>1. /\ Dying(Target) /\ Target \in Procs /\ cid[Target] = msg.id
        /\ msg.id \in Ids /\ pc = "waitpid"
    BY <1>10, BusyFacts, TargetFacts DEF Reap, IInv, Waits
  <2>2. resmsg = Answer(Target, "destroy", "destroy_success") /\ msg.cmd = "destroy"
    BY <2>1 DEF Dying
  <2>3. resmsg \in Responses /\ resmsg.cmd = msg.cmd /\ resmsg.id = msg.id
    BY <2>1, <2>2, ResponseType DEF Answer, Commands, RespTypes
  <2>4. /\ Reply(resmsg, fd[Daemon] \ ParentEnds(Target))
        /\ UNCHANGED <<wire, cpc, req>>
    BY <1>10 DEF Reap
  <2>. QED  BY <2>1, <2>3, <2>4, ReplyAnswers DEF Turn
<1>. QED  BY <1>1, <1>2, <1>3, <1>4, <1>5, <1>6, <1>7, <1>8, <1>9, <1>10
             DEF DaemonNext

LEMMA ReplyChild ==
  ASSUME IInv, NEW p \in Procs, ChildNext(p)
  PROVE  ReplyInv'
<1>1. UNCHANGED <<pc, csock, msg, wire, rsp, cpc, req>>
  BY DEF ChildNext, ChildStart, ChildRuns, ChildDropsRun, ChildDestroys, ChildExits,
         daemonVars, socketVars, clientVars
<1>. QED  BY <1>1 DEF IInv, ReplyInv, ClientOpen

-----------------------------------------------------------------------------
(* The theorems.                                                           *)

LEMMA StutterInv == ASSUME IInv, UNCHANGED vars PROVE IInv'
<1>1. UNCHANGED <<daemonVars, fd, socketVars, childVars, clientVars>>
  BY DEF vars
<1>2. TypeInv'
  BY <1>1
     DEF IInv, TypeInv, TypeOK, TurnInv, Registered, daemonVars, socketVars,
         childVars, clientVars
<1>3. ProcInv' /\ EntryInv'
  BY <1>1, ProcFrame DEF IInv, daemonVars, childVars
<1>4. FdInv' /\ InfoInv'
  BY <1>1, FdFrame DEF Alive, daemonVars, childVars
<1>5. ReplyInv'
  BY <1>1 DEF IInv, ReplyInv, ClientOpen, daemonVars, socketVars, clientVars
<1>. QED  BY <1>2, <1>3, <1>4, <1>5 DEF IInv

\* The inductive invariant is preserved by every step of Vsysd.
LEMMA InvNext == ASSUME IInv, [Next]_vars PROVE IInv'
<1>1. ASSUME NEW c \in Clients,
             Connect(c) \/ ConnectFails(c) \/ ClientRefuses(c) \/ ClientNext(c)
      PROVE  IInv'
  BY <1>1, TypeClient, ProcClient, FdClient, ReplyClient DEF IInv
<1>2. CASE DaemonNext
  BY <1>2, TypeDaemon, ProcDaemon, FdDaemon, ReplyDaemon DEF IInv
<1>3. ASSUME NEW p \in Procs, ChildNext(p) PROVE IInv'
  <2>1. cid[p] \in Ids
    BY <1>3
       DEF IInv, ProcInv, ProcOk, Absent, Resting, Creating, Running,
           Destroying, Dying, Mine, Pipes, ChildNext, ChildStart, ChildRuns,
           ChildDropsRun, ChildDestroys, ChildTakes, ChildExits
  <2>. QED  BY <1>3, <2>1, TypeChild, ProcChild, FdChild, ReplyChild DEF IInv
<1>4. CASE UNCHANGED vars  BY <1>4, StutterInv
<1>. QED  BY <1>1, <1>2, <1>3, <1>4 DEF Next

\* The invariant everything else follows from: what a turn of the daemon has
\* established, where each child stands and what its pipes hold, which
\* descriptors are open, and whose answer is in a socket.
THEOREM Invariance == Spec => []IInv
<1>1. Init => IInv
  BY TypeInit, ProcInit, FdInit, ReplyInit DEF IInv
<1>2. IInv /\ [Next]_vars => IInv'  BY InvNext
<1>. QED  BY <1>1, <1>2, PTL DEF Spec

\* Every variable keeps its type.
THEOREM TypeCorrect == Spec => []TypeOK
<1>1. IInv => TypeOK  BY DEF IInv, TypeInv
<1>. QED  BY <1>1, Invariance, PTL

\* A vsys owes the daemon one response exactly while the daemon waits for
\* it (none if it had no memory for the command): the handlers' habit of
\* trusting the first thing they read is sound.
THEOREM LockstepHolds == Spec => []Lockstep
<1>. USE DEF Owed
<1>1. ASSUME IInv, NEW p \in Procs
      PROVE  \/ Owed(p) = (IF Awaited(p) THEN 1 ELSE 0)
             \/ Owed(p) = 0 /\ pc = "await_run" /\ "message" \in Faults
  <2>1. ProcOk(p)  BY <1>1 DEF IInv, ProcInv
  <2>2. CASE Absent(p)
    <3>1. ~Awaited(p)
      BY <1>1, <2>2, TargetFacts DEF IInv, Awaited, Waits, Absent
    <3>. QED  BY <2>2, <3>1 DEF Absent, Pipes
  <2>3. CASE Resting(p)
    BY <2>3 DEF Resting, Pipes, Awaited, Busy, Waits
  <2>4. CASE Creating(p)
    <3>1. Awaited(p)  BY <2>4 DEF Creating, Awaited
    <3>2. CASE child[p] = "starting" /\ Pipes(p, << >>, << >>)
      BY <3>1, <3>2 DEF Pipes
    <3>3. CASE /\ child[p] = "serving"
               /\ Pipes(p, << >>, <<Answer(p, "create", "create_success")>>)
      BY <3>1, <3>3 DEF Pipes
    <3>. QED  BY <2>4, <3>2, <3>3 DEF Creating
  <2>5. CASE Running(p)
    <3>1. Awaited(p) /\ child[p] # "starting"  BY <2>5 DEF Running, Awaited
    <3>2. CASE Pipes(p, <<msg>>, << >>)
      BY <3>1, <3>2 DEF Pipes
    <3>3. ASSUME NEW t, Pipes(p, << >>, <<Answer(p, "run", t)>>)
          PROVE  Owed(p) = 1
      BY <3>1, <3>3 DEF Pipes
    <3>4. CASE "message" \in Faults /\ Pipes(p, << >>, << >>)
      BY <2>5, <3>1, <3>4 DEF Running, Pipes
    <3>. QED  BY <2>5, <3>1, <3>2, <3>3, <3>4 DEF Running
  <2>6. CASE Destroying(p)
    <3>1. Awaited(p) /\ child[p] # "starting"
      BY <2>6 DEF Destroying, Awaited
    <3>2. CASE Pipes(p, <<msg>>, << >>)
      BY <3>1, <3>2 DEF Pipes
    <3>3. CASE Pipes(p, << >>, <<Answer(p, "destroy", "destroy_success")>>)
      BY <3>1, <3>3 DEF Pipes
    <3>. QED  BY <2>6, <3>2, <3>3 DEF Destroying
  <2>7. CASE Dying(p)  BY <2>7 DEF Dying, Pipes, Awaited
  <2>. QED  BY <2>1, <2>2, <2>3, <2>4, <2>5, <2>6, <2>7 DEF ProcOk
<1>2. IInv => Lockstep  BY <1>1 DEF Lockstep
<1>. QED  BY <1>2, Invariance, PTL

\* The table names exactly the living children, each under the id it was
\* cloned for.
THEOREM TableHolds == Spec => []TableSound
<1>1. ASSUME IInv, NEW i \in Ids, Registered(i)
      PROVE  /\ cid[vsysinfo[i]] = i
             /\ \/ Live(vsysinfo[i])
                \/ pc \in {"await_destroy", "waitpid"} /\ msg.id = i
  <2>1. cid[vsysinfo[i]] = i /\ vsysinfo[i] \in Procs
    BY <1>1 DEF IInv, EntryInv, Registered, TypeInv, TypeOK
  <2>2. ProcOk(vsysinfo[i])  BY <1>1, <2>1 DEF IInv, ProcInv
  <2>3. CASE Live(vsysinfo[i])  BY <2>1, <2>3
  <2>4. CASE ~Live(vsysinfo[i])
    <3>1. Destroying(vsysinfo[i]) \/ Dying(vsysinfo[i])
      BY <2>1, <2>2, <2>4
         DEF Live, Mine, ProcOk, Absent, Resting, Creating, Running, Destroying, Dying
    <3>2. pc \in {"await_destroy", "waitpid"} /\ Target = vsysinfo[i]
      BY <3>1 DEF Destroying, Dying
    <3>3. msg.id = i
      BY <1>1, <2>1, <3>2, TargetFacts DEF IInv, Waits
    <3>. QED  BY <2>1, <3>2, <3>3
  <2>. QED  BY <2>3, <2>4
<1>2. ASSUME IInv, NEW p \in Procs, child[p] # "none" PROVE p \in RegisteredProcs
  BY <1>2, MineIffUsed DEF IInv, TypeInv
<1>3. IInv => TableSound  BY <1>1, <1>2 DEF TableSound
<1>. QED  BY <1>3, Invariance, PTL

\* No pipe end leaks, in the daemon or into a child.
THEOREM NoLeakHolds == Spec => []NoDescriptorLeak
<1>1. IInv => NoDescriptorLeak  BY DEF IInv, FdInv, NoDescriptorLeak
<1>. QED  BY <1>1, Invariance, PTL

\* Nothing is freed twice.
THEOREM NoDanglingHolds == Spec => []NoDanglingFree
<1>1. IInv => NoDanglingFree  BY DEF IInv, InfoInv, NoDanglingFree
<1>. QED  BY <1>1, Invariance, PTL

\* The response in a client's socket answers its own command.
THEOREM ReplyMatchesHolds == Spec => []ReplyMatches
<1>1. IInv => ReplyMatches  BY DEF IInv, ReplyInv, ReplyMatches
<1>. QED  BY <1>1, Invariance, PTL

\* When a client is told that a vsys is gone, no process of it is left.
THEOREM GoneHolds == Spec => GoneWhenTold
<1>. DEFINE Told == \A c \in Clients :
              rsp'[c] # rsp[c] /\ rsp'[c] # Nobody /\ rsp'[c].type = "destroy_success"
                => \A p \in Procs : child'[p] # "none" => cid[p] # rsp'[c].id
<1>1. ASSUME IInv, IInv', Reap PROVE Told
  <2>1. /\ Dying(Target) /\ Target \in Procs /\ cid[Target] = msg.id
        /\ msg.id \in Ids /\ csock \in Clients
    BY <1>1, BusyFacts, TargetFacts DEF Reap, Waits, IInv
  <2>2. resmsg.id = msg.id
    BY <2>1, ResponseType DEF Dying, Answer, Commands, RespTypes
  <2>3. /\ vsysinfo' = [vsysinfo EXCEPT ![msg.id] = Nobody] /\ UNCHANGED cid
        /\ Reply(resmsg, fd[Daemon] \ ParentEnds(Target))
    BY <1>1 DEF Reap, Cleaned
  <2>4. ASSUME NEW c \in Clients, rsp'[c] # rsp[c] PROVE rsp'[c] = resmsg
    BY <1>1, <2>1, <2>3, <2>4 DEF Reply, IInv, TypeInv, TypeOK
  <2>5. ASSUME NEW p \in Procs, child'[p] # "none" PROVE cid[p] # msg.id
    <3>1. Mine(p)'
      BY <1>1, <2>5
         DEF IInv, ProcInv, ProcOk, Absent, Resting, Creating, Running, Destroying, Dying
    <3>. QED
      BY <1>1, <2>1, <2>3, <3>1, ConstantsAssumption DEF Mine, IInv, TypeInv, TypeOK
  <2>. QED  BY <2>2, <2>4, <2>5
<1>2. ASSUME IInv, NEW r \in Responses, r.type # "destroy_success", NEW ends,
             Reply(r, ends), pc \in Turn
      PROVE  Told
  <2>1. csock \in Clients  BY <1>2 DEF IInv, TypeInv, TypeOK, TurnInv
  <2>2. ASSUME NEW c \in Clients, rsp'[c] # rsp[c] PROVE rsp'[c] = r
    BY <1>2, <2>1, <2>2 DEF Reply, IInv, TypeInv, TypeOK
  <2>. QED  BY <1>2, <2>2
<1>3. ASSUME IInv, UnknownCommand PROVE Told
  <2>1. msg \in Requests /\ pc = "dispatch"
    BY <1>3 DEF UnknownCommand, IInv, TypeInv, TypeOK, TurnInv, Turn
  <2>2. /\ Response(msg.cmd, msg.id, "unknown") \in Responses
        /\ Response(msg.cmd, msg.id, "unknown").type = "unknown"
    BY <2>1, RequestType, ResponseType DEF RespTypes
  <2>. QED  BY <1>2, <1>3, <2>1, <2>2 DEF UnknownCommand, Turn
<1>4. ASSUME IInv, AwaitCreate PROVE Told
  <2>1. /\ Creating(Target) /\ cid[Target] \in Ids /\ up[Target] # << >>
        /\ pc = "await_create"
    BY <1>4, BusyFacts, TargetFacts DEF AwaitCreate, IInv, Waits, Creating, Mine
  <2>2. up[Target] = <<Answer(Target, "create", "create_success")>>
    BY <2>1 DEF Creating, Pipes
  <2>3. Head(up[Target]) \in Responses /\ Head(up[Target]).type = "create_success"
    BY <2>1, <2>2, ResponseType DEF Answer, Commands, RespTypes
  <2>4. \E ends : Reply(Head(up[Target]), ends)  BY <1>4 DEF AwaitCreate
  <2>. QED  BY <1>2, <1>4, <2>1, <2>3, <2>4 DEF Turn
<1>5. ASSUME IInv, AwaitRun PROVE Told
  <2>1. /\ Running(Target) /\ cid[Target] \in Ids /\ up[Target] # << >>
        /\ pc = "await_run"
    BY <1>5, BusyFacts, TargetFacts DEF AwaitRun, IInv, Waits, Running, Mine
  <2>2. PICK t \in {"start_success", "start_failed"} :
           up[Target] = <<Answer(Target, "run", t)>>
    BY <2>1 DEF Running, Pipes
  <2>3. Head(up[Target]) \in Responses /\ Head(up[Target]).type # "destroy_success"
    BY <2>1, <2>2, ResponseType DEF Answer, Commands, RespTypes
  <2>. QED  BY <1>2, <1>5, <2>1, <2>3 DEF AwaitRun, Turn
<1>6. ASSUME IInv, DaemonNext, rsp' # rsp
      PROVE  UnknownCommand \/ AwaitCreate \/ AwaitRun \/ Reap
  BY <1>6, ProcAwaitDestroy
     DEF DaemonNext, Accept, AcceptFails, Recv, RecvEof, RecvEofCrash, RecvNoMemory,
         CreateExisting, NoSuchVsys, CreateFails, CreateNoStack, CreateClones,
         SendDestroy, SendRun, SendDown, socketVars
<1>7. ASSUME IInv, NEW c \in Clients,
             Connect(c) \/ ConnectFails(c) \/ ClientRefuses(c) \/ ClientNext(c)
      PROVE  Told
  <2>1. rsp' = rsp \/ rsp' = [rsp EXCEPT ![c] = Nobody]
    BY <1>7
       DEF Connect, ConnectFails, ClientRefuses, ClientNext, ClientSend,
           ClientSendFails, ClientReceives, ClientSeesEof, socketVars
  <2>. QED  BY <1>7, <2>1 DEF IInv, TypeInv, TypeOK
<1>8. ASSUME IInv, NEW p \in Procs, ChildNext(p) PROVE UNCHANGED rsp
  BY <1>8 DEF ChildNext, ChildStart, ChildRuns, ChildDropsRun, ChildDestroys, ChildExits,
              socketVars
<1>9. ASSUME IInv, IInv', [Next]_vars PROVE [Told]_vars
  BY <1>1, <1>3, <1>4, <1>5, <1>6, <1>7, <1>8, <1>9 DEF Next, vars, socketVars
<1>. QED  BY <1>9, Invariance, PTL DEF Spec, GoneWhenTold
=============================================================================
