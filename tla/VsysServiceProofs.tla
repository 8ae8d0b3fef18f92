------------------------- MODULE VsysServiceProofs --------------------------
(***************************************************************************)
(* The daemon of Vsysd implements VsysService, for any number of           *)
(* identifiers, users and process slots, whatever fails and whoever sends  *)
(* nothing; and only a user who left without a command, or want of memory, *)
(* kills it.                                                               *)
(*                                                                         *)
(* Two more invariants are needed.  WaitInv: a user whose connection waits *)
(* or is served has no answer yet, and waits once.  ReplayInv: a command   *)
(* executed again for a user who sent nothing never destroys a vsys.       *)
(*                                                                         *)
(* A last part (SentInv, HeldInv) says that nobody waits for what will not *)
(* come: the daemon's turn goes on, and so does every user.                *)
(***************************************************************************)
EXTENDS VsysdProofs, FiniteSetTheorems

Silent(c) == /\ c \in Refusers /\ cpc[c] = "error"
             /\ req[c] = Nobody /\ wire[c] = Nobody
WaitInv ==
  /\ \A c \in Clients : Pending(c) => rsp[c] = Nobody /\ (ClientOpen(c) \/ Silent(c))
  /\ \A j, k \in DOMAIN backlog : backlog[j] = backlog[k] => j = k
  /\ csock # Nobody => \A k \in DOMAIN backlog : backlog[k] # csock
  /\ ~Alive => backlog = << >>

\* The last command was a destroy, and is not, or no longer, executed for a user
\* who asked for it.
Stale == /\ msg # Nobody /\ msg.cmd = "destroy"
         /\ \/ pc \in {"accept", "recv"}
            \/ pc \in Turn /\ ~ClientOpen(csock)
ReplayInv ==
  /\ msg = Nobody => \A i \in Ids : ~Registered(i)
  /\ Stale => ~Registered(msg.id)

SInv == IInv /\ WaitInv /\ ReplayInv

LEMMA NobodyNoClient == Nobody \notin Clients
  BY ConstantsAssumption

LEMMA ServiceInit == Init => WaitInv /\ ReplayInv
<1> SUFFICES ASSUME Init PROVE WaitInv /\ ReplayInv
  OBVIOUS
<1>1. /\ DOMAIN backlog = {} /\ backlog = << >> /\ csock = Nobody /\ msg = Nobody
      /\ \A i \in Ids : ~Registered(i)
  BY DEF Init, Registered
<1>2. \A c \in Clients : ~Pending(c)
  BY <1>1, NobodyNoClient DEF Pending
<1> QED
  BY <1>1, <1>2 DEF WaitInv, ReplayInv, Stale

-----------------------------------------------------------------------------
(* WaitInv.                                                                *)

\* Steps that move no connection.
LEMMA WaitFrame ==
  ASSUME WaitInv, UNCHANGED <<csock, backlog, rsp, cpc, req>>, Alive' <=> Alive,
         \A c \in Clients : wire'[c] \in {wire[c], Nobody}
  PROVE  WaitInv'
  BY DEF WaitInv, Pending, ClientOpen, Silent

\* The user served is answered, or not, and the turn ends.
LEMMA WaitHangUp ==
  ASSUME WaitInv, IInv, csock \in Clients, Alive, HangUp,
         UNCHANGED <<backlog, cpc, req, wire>>,
         rsp' = rsp \/ \E r : rsp' = [rsp EXCEPT ![csock] = r]
  PROVE  WaitInv'
<1>1. \A c \in Clients : Pending(c)' => Pending(c) /\ c # csock
  BY NobodyNoClient DEF HangUp, Pending, WaitInv, IInv, TypeInv, TypeOK
<1>2. \A c \in Clients : c # csock => rsp'[c] = rsp[c]
  BY DEF IInv, TypeInv, TypeOK
<1> QED
  BY <1>1, <1>2 DEF WaitInv, HangUp, Alive, ClientOpen, Silent

\* Nobody waits for a daemon that has stopped.
LEMMA WaitStops ==
  ASSUME NEW reason, Stops(reason)
  PROVE  WaitInv'
<1>1. \A c \in Clients : ~Pending(c)'
  BY NobodyNoClient DEF Stops, Pending
<1> QED
  BY <1>1 DEF WaitInv, Stops

LEMMA WaitReply ==
  ASSUME WaitInv, IInv, pc \in Turn, NEW r, NEW ends, Reply(r, ends),
         UNCHANGED <<cpc, req, wire>>
  PROVE  WaitInv'
<1>1. csock \in Clients /\ Alive
  BY DEF IInv, TypeInv, TypeOK, TurnInv, Turn, Alive
<1>2. CASE ClientOpen(csock)
  BY <1>1, <1>2, WaitHangUp DEF Reply
<1>3. CASE ~ClientOpen(csock)
  BY <1>3, WaitStops DEF Reply
<1> QED
  BY <1>2, <1>3

\* The queue moves up by one.
LEMMA QueueMoves ==
  ASSUME WaitInv, IInv, backlog # << >>
  PROVE  /\ Head(backlog) \in Clients
         /\ \E k \in DOMAIN backlog : backlog[k] = Head(backlog)
         /\ \A k \in DOMAIN Tail(backlog) :
              /\ k + 1 \in DOMAIN backlog /\ Tail(backlog)[k] = backlog[k + 1]
              /\ Tail(backlog)[k] # Head(backlog)
         /\ \A j, k \in DOMAIN Tail(backlog) :
              Tail(backlog)[j] = Tail(backlog)[k] => j = k
         /\ \A c \in Clients : (\E k \in DOMAIN backlog : backlog[k] = c) =>
              \/ c = Head(backlog)
              \/ \E k \in DOMAIN Tail(backlog) : Tail(backlog)[k] = c
<1>0. backlog \in Seq(Clients)
  BY DEF IInv, TypeInv, TypeOK
<1>1. /\ Len(backlog) \in Nat \ {0} /\ DOMAIN backlog = 1..Len(backlog)
      /\ Head(backlog) = backlog[1] /\ Head(backlog) \in Clients
  BY <1>0
<1>2. /\ DOMAIN Tail(backlog) = 1..(Len(backlog) - 1)
      /\ \A k \in 1..(Len(backlog) - 1) : Tail(backlog)[k] = backlog[k + 1]
  BY <1>0
<1>3. \A k \in DOMAIN Tail(backlog) : k + 1 \in DOMAIN backlog /\ k + 1 # 1
  BY <1>1, <1>2
<1>4. \A k \in DOMAIN Tail(backlog) : Tail(backlog)[k] # Head(backlog)
  BY <1>1, <1>2, <1>3 DEF WaitInv
<1>5. \A j, k \in DOMAIN Tail(backlog) : Tail(backlog)[j] = Tail(backlog)[k] => j = k
  BY <1>1, <1>2, <1>3 DEF WaitInv
<1>6. ASSUME NEW k \in DOMAIN backlog, k # 1
      PROVE  k - 1 \in DOMAIN Tail(backlog) /\ Tail(backlog)[k - 1] = backlog[k]
  BY <1>1, <1>2, <1>6
<1> QED
  BY <1>1, <1>2, <1>3, <1>4, <1>5, <1>6

LEMMA WaitQueue ==
  ASSUME WaitInv, IInv, Accept \/ AcceptFails
  PROVE  WaitInv'
<1>0. backlog # << >> /\ pc = "accept" /\ csock = Nobody /\ UNCHANGED <<rsp, cpc, req, wire>>
  BY DEF Accept, AcceptFails, clientVars, IInv, TypeInv, TypeOK, TurnInv, Turn
<1>1. CASE Stops("exited")
  BY <1>1, WaitStops
<1>2. CASE ~Stops("exited")
  <2>1. /\ backlog' = Tail(backlog) /\ csock' \in {csock, Head(backlog)}
        /\ pc' \in {"accept", "recv"}
    BY <1>0, <1>2 DEF Accept, AcceptFails
  <2>2. \A c \in Clients : Pending(c)' => Pending(c)
    BY <1>0, <2>1, QueueMoves, NobodyNoClient DEF Pending
  <2>3. \A c \in Clients : Pending(c)' => rsp'[c] = Nobody /\ (ClientOpen(c) \/ Silent(c))'
    BY <1>0, <2>2 DEF WaitInv, ClientOpen, Silent
  <2> QED
    BY <1>0, <2>1, <2>3, QueueMoves DEF WaitInv, Alive
<1> QED
  BY <1>1, <1>2

LEMMA WaitConnect ==
  ASSUME WaitInv, IInv, NEW c \in Clients, Connect(c)
  PROVE  WaitInv'
<1>0. /\ backlog' = Append(backlog, c) /\ csock' = csock /\ Alive /\ pc' = pc
      /\ cpc' = [cpc EXCEPT ![c] = "connected"] /\ rsp' = [rsp EXCEPT ![c] = Nobody]
      /\ ~Pending(c) /\ \A d \in Clients : d # c => req'[d] = req[d] /\ wire'[d] = wire[d]
  BY DEF Connect, daemonVars, IInv, TypeInv, TypeOK
<1>1. backlog \in Seq(Clients)
  BY DEF IInv, TypeInv, TypeOK
<1>2. /\ Len(backlog) \in Nat /\ DOMAIN backlog = 1..Len(backlog)
      /\ DOMAIN backlog' = 1..(Len(backlog) + 1)
      /\ \A k \in 1..Len(backlog) : backlog'[k] = backlog[k]
      /\ backlog'[Len(backlog) + 1] = c
  BY <1>0, <1>1
<1>3. \A k \in DOMAIN backlog' : k \in DOMAIN backlog \/ k = Len(backlog) + 1
  BY <1>2
<1>4. \A d \in Clients : d # c => (Pending(d)' => Pending(d))
  BY <1>0, <1>2, <1>3 DEF Pending
<1>5. \A d \in Clients : Pending(d)' => rsp'[d] = Nobody /\ (ClientOpen(d) \/ Silent(d))'
  BY <1>0, <1>4 DEF WaitInv, ClientOpen, Silent, IInv, TypeInv, TypeOK
<1>6. \A j, k \in DOMAIN backlog' : backlog'[j] = backlog'[k] => j = k
  BY <1>0, <1>2, <1>3 DEF WaitInv, Pending
<1>7. csock' # Nobody => \A k \in DOMAIN backlog' : backlog'[k] # csock'
  BY <1>0, <1>2, <1>3 DEF WaitInv, Pending
<1>8. Alive'
  BY <1>0 DEF Alive
<1> QED
  BY <1>5, <1>6, <1>7, <1>8 DEF WaitInv

LEMMA WaitClient ==
  ASSUME WaitInv, IInv, NEW c \in Clients,
         ConnectFails(c) \/ ClientRefuses(c) \/ ClientNext(c)
  PROVE  WaitInv'
<1>1. UNCHANGED <<csock, backlog, rsp, pc>>
  BY DEF ConnectFails, ClientRefuses, ClientNext, ClientSend, ClientSendFails,
         ClientReceives, ClientSeesEof, daemonVars, socketVars
<1>2. \A d \in Clients : d # c => /\ cpc'[d] = cpc[d] /\ req'[d] = req[d]
                                   /\ wire'[d] = wire[d]
  BY DEF ConnectFails, ClientRefuses, ClientNext, ClientSend, ClientSendFails,
         ClientReceives, ClientSeesEof, socketVars, clientVars, IInv, TypeInv, TypeOK
<1>3. Pending(c) => (ClientOpen(c) \/ Silent(c))'
  BY DEF ConnectFails, ClientRefuses, ClientNext, ClientSend, ClientSendFails,
         ClientReceives, ClientSeesEof, socketVars, WaitInv, ReplyInv, ClientOpen,
         Silent, Pending, IInv, TypeInv, TypeOK
<1>4. \A d \in Clients : Pending(d)' <=> Pending(d)
  BY <1>1 DEF Pending
<1>5. \A d \in Clients : Pending(d)' => rsp'[d] = Nobody /\ (ClientOpen(d) \/ Silent(d))'
  BY <1>1, <1>2, <1>3, <1>4 DEF WaitInv, ClientOpen, Silent
<1> QED
  BY <1>1, <1>5 DEF WaitInv, Alive

LEMMA AwaitDestroyWaits ==
  ASSUME IInv, AwaitDestroy
  PROVE  pc' = "waitpid" /\ UNCHANGED <<csock, fd, backlog, rsp>>
<1>1. UNCHANGED <<csock, fd, backlog, rsp>> /\ csock # Nobody
  BY ProcAwaitDestroy DEF AwaitDestroy, IInv, TypeInv, TurnInv, Turn
<1> QED
  BY <1>1, ReplyEndsTurn DEF AwaitDestroy

LEMMA WaitDaemon ==
  ASSUME WaitInv, IInv, DaemonNext
  PROVE  WaitInv'
<1> USE DEF clientVars, childVars, socketVars
<1>0. pc \in Turn => csock \in Clients /\ Alive
  BY DEF IInv, TypeInv, TypeOK, TurnInv, Turn, Alive
<1>1. CASE Accept \/ AcceptFails
  BY <1>1, WaitQueue
<1>2. CASE Recv \/ RecvEof \/ SendDestroy \/ SendRun \/ \E p \in Procs : CreateClones(p)
  BY <1>0, <1>2, WaitFrame
     DEF Recv, RecvEof, SendDestroy, SendRun, SendDown, CreateClones, Alive, Turn,
         IInv, TypeInv, TypeOK
<1>3. CASE RecvEofCrash \/ RecvNoMemory \/ CreateNoStack
  BY <1>3, WaitStops DEF RecvEofCrash, RecvNoMemory, CreateNoStack
<1>4. CASE UnknownCommand
  BY <1>4, WaitReply DEF UnknownCommand, Turn
<1>5. CASE CreateExisting \/ NoSuchVsys \/ CreateFails
  BY <1>0, <1>5, WaitHangUp DEF CreateExisting, NoSuchVsys, CreateFails, Turn
<1>6. CASE AwaitCreate
  <2>1. \E ends : Reply(Head(up[Target]), ends)
    BY <1>6 DEF AwaitCreate
  <2> QED
    BY <1>6, <2>1, WaitReply DEF AwaitCreate, Turn
<1>7. CASE AwaitRun
  BY <1>7, WaitReply DEF AwaitRun, Turn
<1>8. CASE AwaitDestroy
  BY <1>8, WaitFrame, AwaitDestroyWaits DEF AwaitDestroy, Alive
<1>9. CASE Reap
  BY <1>9, WaitReply DEF Reap, Turn
<1> QED
  BY <1>1, <1>2, <1>3, <1>4, <1>5, <1>6, <1>7, <1>8, <1>9 DEF DaemonNext

LEMMA WaitNext == ASSUME WaitInv, IInv, [Next]_vars PROVE WaitInv'
<1>1. ASSUME NEW p \in Procs, ChildNext(p) PROVE WaitInv'
  BY <1>1, WaitFrame
     DEF ChildNext, ChildStart, ChildRuns, ChildDropsRun, ChildDestroys, ChildExits,
         daemonVars, socketVars, clientVars, Alive
<1>2. CASE UNCHANGED vars
  BY <1>2, WaitFrame DEF vars, daemonVars, socketVars, clientVars, Alive
<1> QED
  BY <1>1, <1>2, WaitConnect, WaitClient, WaitDaemon DEF Next

-----------------------------------------------------------------------------
(* ReplayInv.                                                              *)

\* Steps that neither register a vsys nor make the last command stale.
LEMMA ReplayFrame ==
  ASSUME ReplayInv, UNCHANGED <<msg, vsysinfo>>, Stale' => Stale
  PROVE  ReplayInv'
  BY DEF ReplayInv, Registered

\* A user served whose command was received stays connected.
LEMMA ReplayClient ==
  ASSUME SInv, NEW c \in Clients,
         Connect(c) \/ ConnectFails(c) \/ ClientRefuses(c) \/ ClientNext(c)
  PROVE  ReplayInv'
<1> USE DEF SInv, IInv
<1>1. UNCHANGED <<pc, csock, msg, vsysinfo>>
  BY DEF Connect, ConnectFails, ClientRefuses, ClientNext, ClientSend, ClientSendFails,
         ClientReceives, ClientSeesEof, daemonVars
<1>2. ASSUME pc \in Turn \ {"recv"}, ClientOpen(csock) PROVE ClientOpen(csock)'
  <2>1. csock \in Clients /\ cpc[csock] = "waiting" /\ rsp[csock] = Nobody /\ Pending(csock)
    BY <1>2 DEF TypeInv, TypeOK, TurnInv, ReplyInv, WaitInv, Pending
  <2> QED
    BY <1>1, <2>1
       DEF Connect, ConnectFails, ClientRefuses, ClientNext, ClientSend, ClientSendFails,
           ClientReceives, ClientSeesEof, ClientOpen, TypeInv, TypeOK
<1> QED
  BY <1>1, <1>2, ReplayFrame DEF Stale

LEMMA ReplayDaemon ==
  ASSUME SInv, DaemonNext
  PROVE  ReplayInv'
<1> USE DEF SInv, IInv, clientVars, childVars, socketVars
<1>0. pc \in Turn => csock \in Clients
  BY DEF TypeInv, TypeOK, TurnInv, Turn
<1>1. CASE Accept \/ AcceptFails
  BY <1>1, ReplayFrame DEF Accept, AcceptFails, Stops, Stale, Turn
<1>2. CASE Recv
  <2>1. csock \in Clients /\ wire[csock] \in Requests /\ msg' = wire[csock]
        /\ pc' = "dispatch" /\ UNCHANGED <<csock, vsysinfo, cpc>>
    BY <1>0, <1>2 DEF Recv, Turn, TypeInv, TypeOK
  <2>2. ClientOpen(csock) \/ Silent(csock)
    BY <2>1 DEF WaitInv, Pending
  <2> QED
    BY <2>1, <2>2, NobodyAssumption DEF ReplayInv, Stale, ClientOpen, Silent, Registered
<1>3. CASE RecvEof
  <2>1. /\ pc = "recv" /\ ~ClientOpen(csock) /\ msg' \in Requests
        /\ UNCHANGED vsysinfo
        /\ msg # Nobody => msg' = msg
    BY <1>3 DEF RecvEof, TypeInv, TypeOK
  <2> QED
    BY <2>1, NobodyAssumption, RequestType DEF ReplayInv, Stale, Registered
<1>4. ASSUME msg \in Requests, msg' = msg, msg.cmd # "destroy" PROVE ReplayInv'
  BY <1>4, NobodyAssumption DEF ReplayInv, Stale
<1>5. pc \in Turn \ {"recv"} => msg \in Requests
  BY DEF TypeInv, TypeOK, TurnInv
<1>6. CASE \/ UnknownCommand \/ CreateExisting \/ CreateFails \/ CreateNoStack
           \/ \E p \in Procs : CreateClones(p)
  BY <1>4, <1>5, <1>6
     DEF UnknownCommand, CreateExisting, CreateFails, CreateNoStack, CreateClones, Turn
<1>7. CASE RecvEofCrash \/ RecvNoMemory
  BY <1>7, ReplayFrame DEF RecvEofCrash, RecvNoMemory, Stops, Stale, Turn
<1>8. CASE NoSuchVsys
  BY <1>5, <1>8, NobodyAssumption DEF NoSuchVsys, Turn, ReplayInv, Registered
<1>9. CASE AwaitCreate \/ AwaitRun
  <2>1. pc \in Waits /\ msg' = msg
    BY <1>9 DEF AwaitCreate, AwaitRun, Waits
  <2>2. msg \in Requests /\ msg.cmd # "destroy"
    BY <1>9, <2>1, TargetFacts, BusyFacts DEF AwaitCreate, AwaitRun, Creating, Running
  <2> QED
    BY <1>4, <2>1, <2>2
<1>10. CASE SendDestroy \/ SendRun \/ AwaitDestroy
  <2>1. /\ pc \in Turn \ {"recv", "accept"} /\ pc' \in Turn \ {"recv", "accept"}
        /\ UNCHANGED <<csock, msg, vsysinfo, cpc>>
    BY <1>10, AwaitDestroyWaits DEF SendDestroy, SendRun, SendDown, AwaitDestroy, Turn
  <2> QED
    BY <2>1, ReplayFrame DEF Stale, ClientOpen
<1>11. CASE Reap
  <2>1. msg \in Requests /\ msg.id \in Ids /\ msg' = msg
    BY <1>5, <1>11, RequestType DEF Reap, Turn
  <2> QED
    BY <1>11, <2>1, NobodyAssumption
       DEF Reap, Cleaned, ReplayInv, Registered, TypeInv, TypeOK
<1> QED
  BY <1>1, <1>2, <1>3, <1>6, <1>7, <1>8, <1>9, <1>10, <1>11 DEF DaemonNext

LEMMA ServiceNext == ASSUME SInv, [Next]_vars PROVE SInv'
<1>1. IInv' /\ WaitInv'
  BY InvNext, WaitNext DEF SInv
<1>0. ASSUME UNCHANGED <<daemonVars, clientVars>> PROVE ReplayInv'
  <2>1. UNCHANGED <<pc, csock, msg, vsysinfo, cpc>>
    BY <1>0 DEF daemonVars, clientVars
  <2>2. Stale' => Stale
    BY <2>1 DEF Stale, ClientOpen
  <2> QED
    BY <2>1, <2>2, ReplayFrame DEF SInv
<1>2. ASSUME NEW p \in Procs, ChildNext(p) PROVE ReplayInv'
  BY <1>0, <1>2
     DEF ChildNext, ChildStart, ChildRuns, ChildDropsRun, ChildDestroys, ChildExits
<1>3. ASSUME UNCHANGED vars PROVE ReplayInv'
  BY <1>0, <1>3 DEF vars
<1>4. ReplayInv'
  BY <1>2, <1>3, ReplayClient, ReplayDaemon DEF Next
<1> QED
  BY <1>1, <1>4 DEF SInv

\* The inductive invariant of Vsysd, with the two parts about users.
THEOREM ServiceInvariance == Spec => []SInv
<1>1. Init => SInv
  BY TypeInit, ProcInit, FdInit, ReplyInit, ServiceInit DEF IInv, SInv
<1>2. SInv /\ [Next]_vars => SInv'
  BY ServiceNext
<1> QED
  BY <1>1, <1>2, PTL DEF Spec

-----------------------------------------------------------------------------
(* The life of the daemon.                                                 *)

\* A user who asks for something never takes the daemon down: main and its
\* handlers never write to the closed socket of one who sent a command, and
\* follow a bad pointer only when that user sent none or memory is short.
THEOREM KilledByLeaversHolds == Spec => KilledByLeavers
<1>1. ASSUME SInv, [Next]_vars
      PROVE  [Alive /\ pc' = "killed" => req[csock] = Nobody \/ OutOfMemory]_vars
  <2> SUFFICES ASSUME Alive, pc' = "killed", ~OutOfMemory PROVE req[csock] = Nobody
    OBVIOUS
  <2>1. ASSUME pc \in Turn, ~ClientOpen(csock) PROVE req[csock] = Nobody
    <3>1. csock \in Clients /\ Pending(csock)
      BY <1>1, <2>1 DEF SInv, IInv, TypeInv, TypeOK, TurnInv, Pending
    <3> QED
      BY <1>1, <2>1, <3>1 DEF SInv, WaitInv, Silent
  <2>2. DaemonNext
    BY <1>1
       DEF Alive, Next, vars, daemonVars, Connect, ConnectFails, ClientRefuses,
           ClientNext, ClientSend, ClientSendFails, ClientReceives, ClientSeesEof,
           ChildNext, ChildStart, ChildRuns, ChildDropsRun, ChildDestroys, ChildExits
  <2>3. CASE UnknownCommand \/ AwaitCreate \/ AwaitRun \/ AwaitDestroy \/ Reap
    <3>1. pc \in Turn
      BY <2>3 DEF UnknownCommand, AwaitCreate, AwaitRun, AwaitDestroy, Reap, Turn
    <3>2. \E r, ends : Reply(r, ends)
      BY <2>3 DEF UnknownCommand, AwaitCreate, AwaitRun, AwaitDestroy, Reap
    <3> QED
      BY <2>1, <3>1, <3>2 DEF Reply, HangUp
  <2>4. CASE RecvEofCrash
    BY <2>1, <2>4 DEF RecvEofCrash, Turn
  <2>5. ~RecvNoMemory /\ ~CreateNoStack
    BY DEF RecvNoMemory, CreateNoStack, OutOfMemory
  <2> QED
    BY <2>2, <2>3, <2>4, <2>5
       DEF DaemonNext, Alive, Accept, AcceptFails, Stops, Recv, RecvEof,
           CreateExisting, NoSuchVsys, CreateFails, HangUp, CreateClones,
           SendDestroy, SendRun, SendDown
<1> QED
  BY <1>1, ServiceInvariance, PTL DEF Spec, KilledByLeavers

-----------------------------------------------------------------------------
(* The systems users can rely on.                                          *)

LEMMA ExistingFrame ==
  ASSUME UNCHANGED vsysinfo,
         \/ UNCHANGED <<pc, msg>>
         \/ pc # "await_create" /\ pc' # "await_create"
  PROVE  Existing' = Existing
  BY DEF Existing, Registered

\* The response of a new vsys is always the success, and the vsys is there.
LEMMA CreateExists ==
  ASSUME SInv, AwaitCreate
  PROVE  /\ csock \in Clients /\ msg \in Requests /\ msg.id \in Ids
         /\ msg.cmd = "create" /\ pc = "await_create" /\ msg.id \notin Existing
         /\ Existing' = Existing \cup {msg.id}
         /\ \E r \in Responses : /\ Reply(r, fd[Daemon])
                                 /\ r.cmd = "create" /\ r.type = "create_success"
<1> USE DEF SInv, IInv
<1>1. /\ Creating(Target) /\ csock \in Clients /\ msg \in Requests /\ msg.id \in Ids
      /\ cid[Target] \in Ids /\ pc = "await_create" /\ up[Target] # << >>
      /\ Registered(msg.id)
  BY TargetFacts, BusyFacts DEF AwaitCreate, Waits, TypeInv, TurnInv
<1>2. up[Target] = <<Answer(Target, "create", "create_success")>> /\ msg.cmd = "create"
  BY <1>1 DEF Creating, Pipes
<1>3. /\ Head(up[Target]) \in Responses /\ Head(up[Target]).cmd = "create"
      /\ Head(up[Target]).type = "create_success"
  BY <1>1, <1>2, ResponseType DEF Answer, Commands, RespTypes
<1>4. Reply(Head(up[Target]), fd[Daemon]) /\ UNCHANGED <<vsysinfo, msg>>
  BY <1>3 DEF AwaitCreate, ResponseOk
<1>5. pc' # "await_create"
  BY <1>4, ReplyEndsTurn
<1> QED
  BY <1>1, <1>2, <1>3, <1>4, <1>5 DEF Existing, Registered

\* A vsys is only waited for because the user served asked for its end.
LEMMA ReapDestroys ==
  ASSUME SInv, Reap
  PROVE  /\ csock \in Clients /\ msg \in Requests /\ msg.id \in Existing
         /\ msg.cmd = "destroy" /\ pc = "waitpid" /\ ClientOpen(csock)
         /\ Existing' = Existing \ {msg.id}
         /\ \E r \in Responses : \E ends :
              Reply(r, ends) /\ r.cmd = "destroy" /\ r.type = "destroy_success"
<1> USE DEF SInv, IInv
<1>1. /\ Dying(Target) /\ csock \in Clients /\ msg \in Requests /\ msg.id \in Ids
      /\ cid[Target] \in Ids /\ pc = "waitpid" /\ Registered(msg.id)
  BY TargetFacts, BusyFacts DEF Reap, Waits, TypeInv, TurnInv
<1>2. msg.cmd = "destroy" /\ resmsg = Answer(Target, "destroy", "destroy_success")
  BY <1>1 DEF Dying
<1>3. /\ resmsg \in Responses /\ resmsg.cmd = "destroy"
      /\ resmsg.type = "destroy_success"
  BY <1>1, <1>2, ResponseType DEF Answer, Commands, RespTypes
<1>4. ClientOpen(csock)
  BY <1>1, <1>2, NobodyAssumption DEF ReplayInv, Stale, Turn
<1>5. Reply(resmsg, fd[Daemon] \ ParentEnds(Target)) /\ msg' = msg
      /\ vsysinfo' = [vsysinfo EXCEPT ![msg.id] = Nobody] /\ pc' # "await_create"
  BY ReplyEndsTurn DEF Reap, Cleaned
<1>6. Existing = {i \in Ids : Registered(i)} /\ Existing' = {i \in Ids : Registered(i)'}
  BY <1>1, <1>5 DEF Existing
<1>7. Existing' = Existing \ {msg.id}
  BY <1>1, <1>5, <1>6 DEF Registered, TypeInv, TypeOK
<1> QED
  BY <1>1, <1>2, <1>3, <1>4, <1>5, <1>6, <1>7

\* All other steps leave the systems users can rely on as they are.
LEMMA ExistingSame ==
  ASSUME SInv, [Next]_vars, ~AwaitCreate, ~Reap
  PROVE  Existing' = Existing
<1> USE DEF SInv, IInv
<1>1. CASE UNCHANGED <<pc, msg, vsysinfo>>
  BY <1>1, ExistingFrame
<1>2. CASE DaemonNext
  <2>1. ASSUME NEW p \in Procs, CreateClones(p) PROVE Existing' = Existing
    <3>1. /\ pc = "dispatch" /\ pc' = "await_create" /\ msg' = msg /\ msg \in Requests
          /\ vsysinfo' = [vsysinfo EXCEPT ![msg.id] = p] /\ ~Registered(msg.id)
      BY <2>1 DEF CreateClones, TypeInv, TypeOK, TurnInv, Turn
    <3>2. /\ Existing = {i \in Ids : Registered(i)}
          /\ Existing' = {i \in Ids : Registered(i)'} \ {msg.id}
      BY <3>1 DEF Existing
    <3>3. \A i \in Ids : i # msg.id => (Registered(i)' <=> Registered(i))
      BY <3>1, RequestType DEF Registered, TypeInv, TypeOK
    <3> QED
      BY <3>1, <3>2, <3>3
  <2>2. CASE \/ Accept \/ AcceptFails \/ Recv \/ RecvEof \/ RecvEofCrash \/ RecvNoMemory
             \/ CreateExisting \/ NoSuchVsys \/ CreateFails \/ CreateNoStack
             \/ SendDestroy \/ SendRun
    BY <2>2, ExistingFrame
       DEF Accept, AcceptFails, Recv, RecvEof, RecvEofCrash, RecvNoMemory,
           CreateExisting, NoSuchVsys, CreateFails, CreateNoStack, SendDestroy, SendRun, SendDown, Stops, HangUp
  <2>3. CASE UnknownCommand \/ AwaitRun \/ AwaitDestroy
    <3>1. UNCHANGED vsysinfo /\ pc # "await_create"
      BY <2>3 DEF UnknownCommand, AwaitRun, AwaitDestroy
    <3>2. pc' = "waitpid" \/ \E r, ends : Reply(r, ends)
      BY <2>3 DEF UnknownCommand, AwaitRun, AwaitDestroy
    <3>3. pc' # "await_create"
      BY <3>2, ReplyEndsTurn
    <3> QED
      BY <3>1, <3>3, ExistingFrame
  <2> QED
    BY <1>2, <2>1, <2>2, <2>3 DEF DaemonNext
<1>3. CASE ~DaemonNext
  BY <1>1, <1>3
     DEF Next, vars, daemonVars, Connect, ConnectFails, ClientRefuses,
         ClientNext, ClientSend, ClientSendFails, ClientReceives, ClientSeesEof,
         ChildNext, ChildStart, ChildRuns, ChildDropsRun, ChildDestroys, ChildExits
<1> QED
  BY <1>2, <1>3

\* A vsys appears or disappears, with the daemon alive, only when the user being
\* served asked for just that: a replayed command changes nothing.
THEOREM OnlyAskedHolds == Spec => OnlyAskedChanges
<1>1. ASSUME SInv, [Next]_vars
      PROVE  [Existing' # Existing /\ Alive' => req[csock] = msg]_vars
  <2> SUFFICES ASSUME Existing' # Existing, Alive' PROVE req[csock] = msg
    OBVIOUS
  <2>1. AwaitCreate \/ Reap
    BY <1>1, ExistingSame
  <2>2. csock \in Clients /\ pc \in Turn \ {"recv"}
    BY <1>1, <2>1, CreateExists, ReapDestroys DEF Turn
  <2>3. ClientOpen(csock)
    BY <1>1, <2>1, CreateExists, ReapDestroys DEF Reply, Stops, Alive
  <2> QED
    BY <1>1, <2>2, <2>3 DEF SInv, IInv, ReplyInv
<1> QED
  BY <1>1, ServiceInvariance, PTL DEF Spec, OnlyAskedChanges
-----------------------------------------------------------------------------
(* The refinement.                                                         *)

LEMMA OutcomePending ==
  ASSUME NEW c \in Clients
  PROVE  ServiceOutcome(c) = "pending" <=> Pending(c)
  BY DEF ServiceOutcome

LEMMA OutcomeFrame ==
  ASSUME NEW c \in Clients, Pending(c)' <=> Pending(c),
         cpc'[c] = cpc[c], rsp'[c] = rsp[c], req'[c] = req[c]
  PROVE  ServiceOutcome(c)' = ServiceOutcome(c)
  BY DEF ServiceOutcome

\* A user whose connection is dropped without a response has failed.
LEMMA OutcomeDropped ==
  ASSUME WaitInv, NEW c \in Clients, Pending(c), ~Pending(c)', UNCHANGED <<cpc, rsp>>
  PROVE  ServiceOutcome(c)' = "failed"
<1>1. rsp[c] = Nobody /\ cpc[c] \in {"connected", "waiting", "error"}
  BY DEF WaitInv, ClientOpen, Silent
<1> QED
  BY <1>1 DEF ServiceOutcome

LEMMA ServiceStutter ==
  ASSUME \A c \in Clients : ServiceOutcome(c)' = ServiceOutcome(c),
         Existing' = Existing, req' = req, Alive' <=> Alive
  PROVE  UNCHANGED Service!svars
<1>1. Alive' = Alive
  BY DEF Alive
<1>2. [c \in Clients |-> ServiceOutcome(c)]' = [c \in Clients |-> ServiceOutcome(c)]
  OBVIOUS
<1> QED
  BY <1>1, <1>2 DEF Service!svars

LEMMA ServiceDecide ==
  ASSUME NEW c \in Clients, NEW result, Pending(c), ServiceOutcome(c)' = result,
         \A d \in Clients : d # c => ServiceOutcome(d)' = ServiceOutcome(d),
         req' = req, Alive, Alive'
  PROVE  Service!Decide(c, result)
<1>1. Alive' = Alive
  BY DEF Alive
<1>2. ServiceOutcome(c) = "pending"
  BY OutcomePending
<1> QED
  BY <1>1, <1>2 DEF Service!Decide

LEMMA ServiceStop ==
  ASSUME WaitInv, Alive, NEW reason \in {"exited", "killed"}, Stops(reason),
         UNCHANGED <<cpc, rsp, req>>,
         Existing' = Existing \/ \E i \in Ids : Existing' = Existing \cup {i}
  PROVE  Service!Stop
<1>1. Alive' = FALSE /\ Alive = TRUE
  BY DEF Alive, Stops
<1>2. \A c \in Clients : ~Pending(c)'
  BY NobodyNoClient DEF Stops, Pending
<1>3. \A c \in Clients : ServiceOutcome(c)' =
        IF ServiceOutcome(c) = "pending" THEN "failed" ELSE ServiceOutcome(c)
  BY <1>2, OutcomeFrame, OutcomeDropped, OutcomePending
<1> QED
  BY <1>1, <1>3 DEF Service!Stop

-----------------------------------------------------------------------------
(* What users do.                                                          *)

LEMMA ServiceConnect ==
  ASSUME SInv, NEW c \in Clients, Connect(c)
  PROVE  Service!Ask(c)
<1> USE DEF SInv, IInv
<1>0. /\ backlog' = Append(backlog, c) /\ csock' = csock /\ Alive /\ pc' = pc
      /\ cpc' = [cpc EXCEPT ![c] = "connected"] /\ rsp' = [rsp EXCEPT ![c] = Nobody]
      /\ ~Pending(c) /\ UNCHANGED <<msg, vsysinfo>>
      /\ \E m \in Requests : req' = [req EXCEPT ![c] = m]
  BY DEF Connect, daemonVars
<1>1. backlog \in Seq(Clients)
  BY DEF TypeInv, TypeOK
<1>2. /\ Len(backlog) \in Nat /\ DOMAIN backlog = 1..Len(backlog)
      /\ DOMAIN backlog' = 1..(Len(backlog) + 1)
      /\ \A k \in 1..Len(backlog) : backlog'[k] = backlog[k]
      /\ backlog'[Len(backlog) + 1] = c
  BY <1>0, <1>1
<1>3. \A k \in DOMAIN backlog' : k \in DOMAIN backlog \/ k = Len(backlog) + 1
  BY <1>2
<1>4. /\ \A d \in Clients : d # c => (Pending(d)' <=> Pending(d))
      /\ Pending(c)'
  BY <1>0, <1>2, <1>3, SMTT(40) DEF Pending
<1>5. ASSUME NEW d \in Clients, d # c PROVE ServiceOutcome(d)' = ServiceOutcome(d)
  <2>1. cpc'[d] = cpc[d] /\ rsp'[d] = rsp[d] /\ req'[d] = req[d]
    BY <1>0, <1>5 DEF TypeInv, TypeOK
  <2> QED
    BY <1>4, <1>5, <2>1, OutcomeFrame
<1>6. ServiceOutcome(c)' = "pending" /\ ServiceOutcome(c) # "pending"
  BY <1>0, <1>4, OutcomePending DEF ServiceOutcome
<1>7. [d \in Clients |-> ServiceOutcome(d)]'
        = [[d \in Clients |-> ServiceOutcome(d)] EXCEPT ![c] = "pending"]
  BY <1>5, <1>6
<1>8. Existing' = Existing
  BY <1>0, ExistingFrame
<1>9. Alive' = Alive
  BY <1>0 DEF Alive
<1>10. \E m \in Service!Requests : req' = [req EXCEPT ![c] = m]
  BY <1>0 DEF Requests, Commands, Service!Requests, Service!Commands
<1> QED
  BY <1>0, <1>6, <1>7, <1>8, <1>9, <1>10 DEF Service!Ask

LEMMA ServiceClient ==
  ASSUME SInv, NEW c \in Clients, ConnectFails(c) \/ ClientRefuses(c) \/ ClientNext(c)
  PROVE  [Service!SNext]_(Service!svars)
<1> USE DEF SInv, IInv
<1>1. UNCHANGED <<pc, csock, msg, vsysinfo, backlog, rsp>>
  BY DEF ConnectFails, ClientRefuses, ClientNext, ClientSend, ClientSendFails,
         ClientReceives, ClientSeesEof, daemonVars, socketVars
<1>2. Existing' = Existing /\ Alive' = Alive
  BY <1>1, ExistingFrame DEF Alive
<1>3. \A d \in Clients : Pending(d)' <=> Pending(d)
  BY <1>1 DEF Pending
<1>4. \A d \in Clients : d # c => cpc'[d] = cpc[d] /\ req'[d] = req[d]
  BY DEF ConnectFails, ClientRefuses, ClientNext, ClientSend, ClientSendFails,
         ClientReceives, ClientSeesEof, clientVars, TypeInv, TypeOK
<1>5. \A d \in Clients : d # c => ServiceOutcome(d)' = ServiceOutcome(d)
  BY <1>1, <1>3, <1>4, OutcomeFrame
<1>6. CASE ConnectFails(c)
  <2>1. ~Alive /\ cpc'[c] = "error" /\ req' = req
    BY <1>6 DEF ConnectFails, TypeInv, TypeOK
  <2>2. ~Pending(c)'
    BY <1>3, <2>1, NobodyNoClient DEF WaitInv, Pending, TypeInv, TurnInv, Turn, Alive
  <2>3. ServiceOutcome(c)' = "failed"
    BY <2>1, <2>2 DEF ServiceOutcome
  <2>4. [d \in Clients |-> ServiceOutcome(d)]'
          = [[d \in Clients |-> ServiceOutcome(d)] EXCEPT ![c] = "failed"]
    BY <1>5, <2>3
  <2>5. Service!AskTooLate(c)
    BY <1>2, <2>1, <2>4 DEF Service!AskTooLate
  <2> QED
    BY <2>5 DEF Service!SNext
<1>7. CASE ClientRefuses(c)
  <2>1. /\ cpc[c] = "connected" /\ cpc'[c] = "error"
        /\ req' = [req EXCEPT ![c] = Nobody]
    BY <1>7 DEF ClientRefuses, TypeInv, TypeOK
  <2>2. ServiceOutcome(c)' = ServiceOutcome(c)
    BY <1>3, <2>1 DEF ServiceOutcome
  <2>3. [d \in Clients |-> ServiceOutcome(d)]' = [d \in Clients |-> ServiceOutcome(d)]
    BY <1>5, <2>2
  <2>4. Service!Withdraw(c)
    BY <1>2, <2>1, <2>3 DEF Service!Withdraw
  <2> QED
    BY <2>4 DEF Service!SNext
<1>8. CASE ClientNext(c)
  <2>1. req' = req
    BY <1>8 DEF ClientNext, ClientSend, ClientSendFails, ClientReceives, ClientSeesEof
  <2>2. ASSUME ClientSend(c) PROVE ServiceOutcome(c)' = ServiceOutcome(c)
    BY <1>3, <2>2, OutcomePending DEF ClientSend, ServiceOutcome
  <2>3. ASSUME ClientSendFails(c) PROVE ServiceOutcome(c)' = ServiceOutcome(c)
    BY <1>3, <2>3 DEF ClientSendFails, ServiceOutcome, TypeInv, TypeOK
  <2>4. ASSUME ClientReceives(c) PROVE ServiceOutcome(c)' = ServiceOutcome(c)
    <3>1. ~Pending(c)
      BY <2>4 DEF ClientReceives, WaitInv
    <3> QED
      BY <1>1, <1>3, <2>1, <2>4, <3>1 DEF ClientReceives, ServiceOutcome, TypeInv, TypeOK
  <2>5. ASSUME ClientSeesEof(c) PROVE ServiceOutcome(c)' = ServiceOutcome(c)
    BY <1>1, <1>3, <2>1, <2>5 DEF ClientSeesEof, ServiceOutcome, TypeInv, TypeOK
  <2>6. ServiceOutcome(c)' = ServiceOutcome(c)
    BY <1>8, <2>2, <2>3, <2>4, <2>5 DEF ClientNext
  <2> QED
    BY <1>2, <1>5, <2>1, <2>6, ServiceStutter
<1> QED
  BY <1>6, <1>7, <1>8

-----------------------------------------------------------------------------
(* What the daemon does.                                                   *)

\* The user served, once its command is being executed.
LEMMA ServedFacts ==
  ASSUME SInv, pc \in Turn \ {"recv"}
  PROVE  /\ csock \in Clients /\ Pending(csock) /\ Alive
         /\ msg \in Requests /\ msg.id \in Ids
         /\ ClientOpen(csock) => req[csock] = msg
         /\ ~ClientOpen(csock) => req[csock] = Nobody
<1> USE DEF SInv, IInv
<1>1. csock \in Clients /\ Pending(csock) /\ Alive /\ msg \in Requests
  BY DEF TypeInv, TypeOK, TurnInv, Turn, Pending, Alive
<1>2. msg.id \in Ids
  BY <1>1, RequestType
<1> QED
  BY <1>1, <1>2 DEF ReplyInv, WaitInv, Silent

LEMMA PendingHangUp ==
  ASSUME SInv, NEW c \in Clients, c = csock, HangUp, backlog' = backlog
  PROVE  /\ ~Pending(c)'
         /\ \A d \in Clients : d # c => (Pending(d)' <=> Pending(d))
  BY NobodyNoClient DEF HangUp, Pending, SInv, WaitInv

\* The turn ends without an answer.
LEMMA ServiceHangUp ==
  ASSUME SInv, NEW c \in Clients, c = csock, pc \in Turn \ {"recv"}, HangUp,
         UNCHANGED <<backlog, rsp, cpc, req>>, Existing' = Existing,
         Service!Rejectable(msg)
  PROVE  Service!Reject(c)
<1>1. Service!Rejectable(req[c]) /\ Pending(c) /\ Alive
  BY ServedFacts DEF Service!Rejectable
<1>2. ServiceOutcome(c)' = "failed"
  BY <1>1, PendingHangUp, OutcomeDropped DEF SInv
<1>3. \A d \in Clients : d # c => ServiceOutcome(d)' = ServiceOutcome(d)
  BY PendingHangUp, OutcomeFrame
<1>4. Alive'
  BY DEF HangUp, Alive
<1>5. Service!Decide(c, "failed")
  BY <1>1, <1>2, <1>3, <1>4, ServiceDecide
<1> QED
  BY <1>1, <1>5 DEF Service!Reject

\* The turn ends with the answer r, for a user who is still there.
LEMMA ServiceAnswer ==
  ASSUME SInv, NEW c \in Clients, c = csock, pc \in Turn \ {"recv"},
         NEW r \in Responses, NEW ends, Reply(r, ends), ClientOpen(c),
         UNCHANGED <<cpc, req>>
  PROVE  /\ ResponseOk(msg.cmd, r) => Service!Decide(c, "ok")
         /\ ~ResponseOk(msg.cmd, r) => Service!Decide(c, "failed")
<1>1. Pending(c) /\ Alive /\ cpc[c] = "waiting" /\ req[c] = msg
  BY ServedFacts DEF SInv, IInv, ReplyInv
<1>2. rsp' = [rsp EXCEPT ![c] = r] /\ HangUp /\ backlog' = backlog
  BY DEF Reply
<1>3. rsp'[c] = r /\ \A d \in Clients : d # c => rsp'[d] = rsp[d]
  BY <1>1, <1>2 DEF SInv, IInv, TypeInv, TypeOK
<1>4. r # Nobody
  BY NoResponseAssumption
<1>5. ServiceOutcome(c)' = IF ResponseOk(msg.cmd, r) THEN "ok" ELSE "failed"
  <2>1. ~Pending(c)' /\ cpc'[c] = "waiting" /\ rsp'[c] = r /\ req'[c].cmd = msg.cmd
    BY <1>1, <1>2, <1>3, PendingHangUp
  <2> QED
    BY <1>4, <2>1 DEF ServiceOutcome, ResponseOk
<1>6. \A d \in Clients : d # c => ServiceOutcome(d)' = ServiceOutcome(d)
  BY <1>1, <1>2, <1>3, PendingHangUp, OutcomeFrame
<1>7. Alive'
  BY <1>2 DEF HangUp, Alive
<1> QED
  BY <1>1, <1>5, <1>6, <1>7, ServiceDecide

\* The user is gone: the write kills the daemon.
LEMMA ServiceKilled ==
  ASSUME SInv, pc \in Turn \ {"recv"}, NEW r, NEW ends, Reply(r, ends),
         ~ClientOpen(csock), UNCHANGED <<cpc, req>>,
         Existing' = Existing \/ \E i \in Ids : Existing' = Existing \cup {i}
  PROVE  Service!Stop
<1>1. Stops("killed") /\ rsp' = rsp /\ Alive
  BY ServedFacts DEF Reply
<1> QED
  BY <1>1, ServiceStop DEF SInv

LEMMA ServiceQueue ==
  ASSUME SInv, Accept \/ AcceptFails
  PROVE  [Service!SNext]_(Service!svars)
<1> USE DEF SInv, IInv
<1>0. /\ backlog # << >> /\ pc = "accept" /\ csock = Nobody /\ Alive
      /\ UNCHANGED <<rsp, cpc, req, msg, vsysinfo>>
  BY DEF Accept, AcceptFails, clientVars, TypeInv, TypeOK, TurnInv, Turn, Alive
<1>1. Existing' = Existing
  BY <1>0 DEF Accept, AcceptFails, Stops, Existing, Registered
<1>2. CASE Accept
  <2>1. csock' = Head(backlog) /\ backlog' = Tail(backlog) /\ Alive'
    BY <1>2 DEF Accept, Alive
  <2>2. \A c \in Clients : Pending(c)' <=> Pending(c)
    BY <1>0, <2>1, QueueMoves, NobodyNoClient DEF Pending
  <2> QED
    BY <1>0, <1>1, <2>1, <2>2, OutcomeFrame, ServiceStutter
<1>3. CASE AcceptFails /\ Stops("exited")
  <2>1. Service!Stop
    BY <1>0, <1>1, <1>3, ServiceStop
  <2> QED
    BY <2>1 DEF Service!SNext
<1>4. CASE AcceptFails /\ ~Stops("exited")
  <2>1. csock' = Nobody /\ backlog' = Tail(backlog) /\ Alive' /\ "accept" \in Faults
    BY <1>0, <1>4 DEF AcceptFails, Alive
  <2>2. PICK c \in Clients : c = Head(backlog)
    BY <1>0, QueueMoves
  <2>3. /\ Pending(c) /\ ~Pending(c)'
        /\ \A d \in Clients : d # c => (Pending(d)' <=> Pending(d))
    BY <1>0, <2>1, <2>2, QueueMoves, NobodyNoClient DEF Pending
  <2>4. /\ ServiceOutcome(c)' = "failed"
        /\ \A d \in Clients : d # c => ServiceOutcome(d)' = ServiceOutcome(d)
    BY <1>0, <2>3, OutcomeDropped, OutcomeFrame
  <2>5. Service!Decide(c, "failed")
    BY <1>0, <2>1, <2>3, <2>4, ServiceDecide
  <2>6. req[c] \in Requests \cup {Nobody}
    BY DEF TypeInv, TypeOK
  <2>7. Service!Rejectable(req[c])
    BY <2>1, <2>6 DEF Service!Rejectable, Requests
  <2>8. Service!Reject(c)
    BY <1>1, <2>5, <2>7 DEF Service!Reject
  <2> QED
    BY <2>8 DEF Service!SNext
<1> QED
  BY <1>2, <1>3, <1>4

\* Steps of the daemon that users do not see.
LEMMA ServiceQuiet ==
  ASSUME SInv, Existing' = Existing, UNCHANGED <<csock, backlog, rsp, cpc, req>>,
         Alive' <=> Alive
  PROVE  UNCHANGED Service!svars
<1>1. \A c \in Clients : Pending(c)' <=> Pending(c)
  BY DEF Pending
<1> QED
  BY <1>1, OutcomeFrame, ServiceStutter

LEMMA ServiceRefused ==
  ASSUME SInv, CreateExisting \/ NoSuchVsys \/ CreateFails
  PROVE  Service!SNext
<1>1. pc = "dispatch" /\ HangUp /\ UNCHANGED <<backlog, rsp, cpc, req>>
  BY DEF CreateExisting, NoSuchVsys, CreateFails, socketVars, clientVars
<1>2. PICK c \in Clients : c = csock
  BY <1>1, ServedFacts DEF Turn
<1>3. ~AwaitCreate /\ ~Reap /\ Next
  BY <1>1 DEF AwaitCreate, Reap, Next, DaemonNext
<1>4. Existing' = Existing
  BY <1>3, ExistingSame
<1>5. Existing = {i \in Ids : Registered(i)} /\ msg.id \in Ids
  BY <1>1, ServedFacts DEF Existing, Turn
<1>6. Service!Rejectable(msg)
  BY <1>5 DEF Service!Rejectable, CreateExisting, NoSuchVsys, CreateFails
<1>7. Service!Reject(c)
  BY <1>1, <1>2, <1>4, <1>6, ServiceHangUp DEF Turn
<1> QED
  BY <1>2, <1>7 DEF Service!SNext

LEMMA ServiceUnknown ==
  ASSUME SInv, UnknownCommand
  PROVE  Service!SNext
<1> DEFINE r == Response(msg.cmd, msg.id, "unknown")
<1>1. /\ pc = "dispatch" /\ msg.cmd = "link_move" /\ Reply(r, fd[Daemon])
      /\ UNCHANGED <<cpc, req>>
  BY DEF UnknownCommand, clientVars
<1>2. PICK c \in Clients : c = csock
  BY <1>1, ServedFacts DEF Turn
<1>3. ~AwaitCreate /\ ~Reap /\ Next
  BY <1>1 DEF AwaitCreate, Reap, Next, DaemonNext
<1>4. Existing' = Existing
  BY <1>3, ExistingSame
<1>5. r \in Responses
  BY <1>1, ServedFacts, ResponseType DEF Turn, Commands, RespTypes
<1>6. ~ResponseOk(msg.cmd, r)
  BY <1>1 DEF ResponseOk
<1>7. CASE ClientOpen(c)
  <2>1. Service!Decide(c, "failed")
    BY <1>1, <1>2, <1>5, <1>6, <1>7, ServiceAnswer DEF Turn
  <2>2. Service!Rejectable(req[c])
    BY <1>1, <1>2, <1>7, ServedFacts DEF Turn, Service!Rejectable
  <2>3. Service!Reject(c)
    BY <1>4, <2>1, <2>2 DEF Service!Reject
  <2> QED
    BY <2>3 DEF Service!SNext
<1>8. CASE ~ClientOpen(c)
  <2>1. Service!Stop
    BY <1>1, <1>2, <1>4, <1>8, ServiceKilled DEF Turn
  <2> QED
    BY <2>1 DEF Service!SNext
<1> QED
  BY <1>7, <1>8

LEMMA ServiceCreate ==
  ASSUME SInv, AwaitCreate
  PROVE  Service!SNext
<1>1. PICK r \in Responses : /\ Reply(r, fd[Daemon])
                              /\ r.cmd = "create" /\ r.type = "create_success"
  BY CreateExists
<1>2. /\ pc = "await_create" /\ msg.cmd = "create" /\ msg.id \in Ids
      /\ msg.id \notin Existing /\ Existing' = Existing \cup {msg.id}
      /\ msg # Nobody
  BY CreateExists, NobodyAssumption
<1>3. UNCHANGED <<cpc, req>>
  BY DEF AwaitCreate, clientVars
<1>4. PICK c \in Clients : c = csock
  BY CreateExists
<1>5. CASE ClientOpen(c)
  <2>1. Service!Decide(c, "ok") /\ req[c] = msg
    BY <1>1, <1>2, <1>3, <1>4, <1>5, ServiceAnswer, ServedFacts DEF Turn, ResponseOk
  <2>2. Service!Create(c)
    BY <1>2, <2>1 DEF Service!Create
  <2> QED
    BY <2>2 DEF Service!SNext
<1>6. CASE ~ClientOpen(c)
  <2>1. Service!Stop
    BY <1>1, <1>2, <1>3, <1>4, <1>6, ServiceKilled DEF Turn
  <2> QED
    BY <2>1 DEF Service!SNext
<1> QED
  BY <1>5, <1>6

LEMMA ServiceRun ==
  ASSUME SInv, AwaitRun
  PROVE  Service!SNext
<1>1. /\ Running(Target) /\ cid[Target] = msg.id /\ msg.id \in Ids /\ msg \in Requests
      /\ Registered(msg.id) /\ pc = "await_run" /\ up[Target] # << >>
  BY BusyFacts, TargetFacts, ServedFacts
     DEF AwaitRun, SInv, IInv, TypeInv, TurnInv, Waits, Turn
<1>2. PICK t \in {"start_success", "start_failed"} : up[Target] = <<Answer(Target, "run", t)>>
  BY <1>1 DEF Running, Pipes
<1>3. Head(up[Target]) \in Responses
  BY <1>1, <1>2, ResponseType DEF Answer, Commands, RespTypes
<1>4. Reply(Head(up[Target]), fd[Daemon]) /\ UNCHANGED <<cpc, req>>
  BY DEF AwaitRun, clientVars
<1>5. PICK c \in Clients : c = csock
  BY <1>1, ServedFacts DEF Turn
<1>6. ~AwaitCreate /\ ~Reap /\ Next
  BY <1>1 DEF AwaitCreate, Reap, Next, DaemonNext
<1>7. Existing' = Existing
  BY <1>6, ExistingSame
<1>8. msg.cmd = "run" /\ msg.id \in Existing /\ msg # Nobody
  BY <1>1, NobodyAssumption DEF Running, Existing
<1>9. CASE ClientOpen(c)
  <2>1. req[c] = msg
    BY <1>1, <1>5, <1>9, ServedFacts DEF Turn
  <2>2. \E result \in {"ok", "failed"} : Service!Decide(c, result)
    BY <1>1, <1>3, <1>4, <1>5, <1>9, ServiceAnswer DEF Turn
  <2>3. Service!Run(c)
    BY <1>7, <1>8, <2>1, <2>2 DEF Service!Run
  <2> QED
    BY <2>3 DEF Service!SNext
<1>10. CASE ~ClientOpen(c)
  <2>1. Service!Stop
    BY <1>1, <1>4, <1>5, <1>7, <1>10, ServiceKilled DEF Turn
  <2> QED
    BY <2>1 DEF Service!SNext
<1> QED
  BY <1>9, <1>10

LEMMA ServiceReap ==
  ASSUME SInv, Reap
  PROVE  Service!SNext
<1>0. PICK r \in Responses : \E ends :
        Reply(r, ends) /\ r.cmd = "destroy" /\ r.type = "destroy_success"
  BY ReapDestroys
<1>1. PICK ends : Reply(r, ends) /\ r.cmd = "destroy" /\ r.type = "destroy_success"
  BY <1>0
<1>2. /\ pc = "waitpid" /\ msg.cmd = "destroy" /\ msg.id \in Existing
      /\ Existing' = Existing \ {msg.id} /\ msg # Nobody /\ ClientOpen(csock)
  BY ReapDestroys, NobodyAssumption
<1>3. UNCHANGED <<cpc, req>>
  BY DEF Reap, clientVars
<1>4. PICK c \in Clients : c = csock
  BY ReapDestroys
<1>5. Service!Decide(c, "ok") /\ req[c] = msg
  BY <1>1, <1>2, <1>3, <1>4, ServiceAnswer, ServedFacts DEF Turn, ResponseOk
<1>6. Service!Destroy(c)
  BY <1>2, <1>5 DEF Service!Destroy
<1> QED
  BY <1>6 DEF Service!SNext

LEMMA ServiceDaemon ==
  ASSUME SInv, DaemonNext
  PROVE  [Service!SNext]_(Service!svars)
<1> USE DEF clientVars, socketVars
<1>1. CASE Accept \/ AcceptFails
  BY <1>1, ServiceQueue
<1>2. CASE Recv \/ RecvEof \/ SendDestroy \/ SendRun \/ \E p \in Procs : CreateClones(p)
  <2>1. /\ UNCHANGED <<csock, backlog, rsp, cpc, req>>
        /\ pc \in {"recv", "dispatch"} /\ pc' \notin {"exited", "killed"}
    BY <1>2 DEF Recv, RecvEof, SendDestroy, SendRun, SendDown, CreateClones
  <2>2. Existing' = Existing
    BY <2>1, ExistingSame DEF AwaitCreate, Reap, Next
  <2> QED
    BY <2>1, <2>2, ServiceQuiet DEF Alive
<1>3. CASE RecvEofCrash \/ RecvNoMemory \/ CreateNoStack
  <2>1. /\ Stops("killed") /\ pc \in {"recv", "dispatch"}
        /\ UNCHANGED <<rsp, cpc, req>>
    BY <1>3 DEF RecvEofCrash, RecvNoMemory, CreateNoStack
  <2>2. Existing' = Existing
    BY <2>1, ExistingSame DEF AwaitCreate, Reap, Next
  <2>3. Service!Stop
    BY <2>1, <2>2, ServiceStop DEF SInv, Alive
  <2> QED
    BY <2>3 DEF Service!SNext
<1>4. CASE AwaitDestroy
  <2>1. /\ UNCHANGED <<csock, backlog, rsp, cpc, req>>
        /\ pc = "await_destroy" /\ pc' = "waitpid"
    BY <1>4, AwaitDestroyWaits DEF AwaitDestroy, SInv
  <2>2. Existing' = Existing
    BY <2>1, ExistingSame DEF AwaitCreate, Reap, Next
  <2> QED
    BY <2>1, <2>2, ServiceQuiet DEF Alive
<1> QED
  BY <1>1, <1>2, <1>3, <1>4, ServiceRefused, ServiceUnknown, ServiceCreate, ServiceRun,
     ServiceReap DEF DaemonNext

\* What users see of the daemon is what VsysService promises: the initial states
\* of Vsysd are initial states of the service, and each step of the daemon, of a
\* child or of a user is a step of the service or changes nothing it speaks of.
THEOREM ImplementsServiceHolds == Spec => ImplementsService
<1>1. ASSUME Init PROVE Service!SInit
  <2>1. /\ DOMAIN backlog = {} /\ csock = Nobody /\ pc = "accept"
        /\ \A i \in Ids : ~Registered(i)
        /\ req = [c \in Clients |-> Nobody] /\ \A c \in Clients : cpc[c] = "idle"
    BY <1>1 DEF Init, Registered
  <2>2. \A c \in Clients : ~Pending(c)
    BY <2>1, NobodyNoClient DEF Pending
  <2>3. [c \in Clients |-> ServiceOutcome(c)] = [c \in Clients |-> "idle"]
    BY <2>1, <2>2 DEF ServiceOutcome
  <2>4. Existing = {} /\ Alive = TRUE
    BY <2>1 DEF Existing, Alive
  <2> QED
    BY <2>1, <2>3, <2>4 DEF Service!SInit
<1>2. ASSUME SInv, [Next]_vars PROVE [Service!SNext]_(Service!svars)
  <2>1. ASSUME UNCHANGED <<daemonVars, socketVars, clientVars>>
        PROVE  UNCHANGED Service!svars
    <3>1. UNCHANGED <<pc, csock, msg, vsysinfo, backlog, rsp, cpc, req>>
      BY <2>1 DEF daemonVars, socketVars, clientVars
    <3> QED
      BY <1>2, <3>1, ExistingFrame, ServiceQuiet DEF Alive
  <2>2. CASE UNCHANGED vars
    BY <2>1, <2>2 DEF vars
  <2>3. ASSUME NEW p \in Procs, ChildNext(p) PROVE UNCHANGED Service!svars
    BY <2>1, <2>3
       DEF ChildNext, ChildStart, ChildRuns, ChildDropsRun, ChildDestroys, ChildExits
  <2>4. ASSUME NEW c \in Clients, Connect(c) PROVE Service!SNext
    BY <1>2, <2>4, ServiceConnect DEF Service!SNext
  <2> QED
    BY <1>2, <2>2, <2>3, <2>4, ServiceClient, ServiceDaemon DEF Next
<1> QED
  BY <1>1, <1>2, ServiceInvariance, PTL DEF Spec, ImplementsService, Service!SSpec

-----------------------------------------------------------------------------
(* Nobody waits for what will not come: the state every command's end rests *)
(* on.                                                                      *)

\* A connection whose command the daemon has not received.
Unserved(c) == Pending(c) /\ (c = csock => pc = "recv")
SentInv == \A c \in Clients : cpc[c] = "waiting" /\ Unserved(c) => wire[c] # Nobody

\* A child inherits the socket of the user it was created for, who is answered
\* all the same.
HeldInv ==
  \A p \in Procs : \A c \in Clients :
    held[p] = c /\ ClientOpen(c) /\ rsp[c] = Nobody => pc = "await_create" /\ csock = c

EndInv == SInv /\ SentInv /\ HeldInv

\* Steps of the daemon but for the two kinds of accept.
LEMMA TurnSteps ==
  ASSUME SInv, DaemonNext, ~Accept, ~AcceptFails
  PROVE  /\ pc' # "recv" /\ csock' \in {csock, Nobody} /\ pc \in Turn
         /\ backlog' = backlog \/ backlog' = << >>
         /\ cpc' = cpc /\ (Recv \/ wire' = wire)
         /\ rsp' = rsp \/ \E r : rsp' = [rsp EXCEPT ![csock] = r]
<1> USE DEF Reply, HangUp, Stops, clientVars, childVars, socketVars, Turn
<1>1. CASE Recv \/ RecvEof \/ RecvEofCrash \/ RecvNoMemory
  BY <1>1 DEF Recv, RecvEof, RecvEofCrash, RecvNoMemory
<1>2. CASE UnknownCommand \/ CreateExisting \/ NoSuchVsys
  BY <1>2 DEF UnknownCommand, CreateExisting, NoSuchVsys
<1>3. CASE CreateFails \/ CreateNoStack \/ \E p \in Procs : CreateClones(p)
  BY <1>3 DEF CreateFails, CreateNoStack, CreateClones
<1>4. CASE SendDestroy \/ SendRun  BY <1>4 DEF SendDestroy, SendRun, SendDown
<1>5. CASE AwaitCreate  BY <1>5 DEF AwaitCreate
<1>6. CASE AwaitRun \/ Reap  BY <1>6 DEF AwaitRun, Reap
<1>7. CASE AwaitDestroy  BY <1>7 DEF AwaitDestroy
<1> QED  BY <1>1, <1>2, <1>3, <1>4, <1>5, <1>6, <1>7 DEF DaemonNext

LEMMA SentDaemon == ASSUME SInv, SentInv, DaemonNext PROVE SentInv'
<1>1. CASE Accept \/ AcceptFails
  <2>1. backlog # << >> /\ csock = Nobody /\ UNCHANGED <<cpc, wire>>
    BY <1>1 DEF Accept, AcceptFails, clientVars, SInv, IInv, TypeInv, TypeOK, TurnInv, Turn
  <2>2. \/ backlog' = Tail(backlog) /\ csock' \in {csock, Head(backlog)}
        \/ backlog' = << >> /\ csock' = Nobody
    BY <1>1 DEF Accept, AcceptFails, Stops
  <2>3. \A c \in Clients : Pending(c)' => Pending(c)
    BY <2>1, <2>2, QueueMoves, NobodyNoClient DEF Pending, SInv
  <2> QED  BY <2>1, <2>3, NobodyNoClient DEF SentInv, Unserved
<1>2. CASE ~Accept /\ ~AcceptFails
  <2>1. \A c \in Clients : Unserved(c)' => Unserved(c) /\ c # csock
    BY <1>2, TurnSteps, NobodyNoClient DEF Unserved, Pending, SInv, WaitInv
  <2>2. \A c \in Clients : c # csock => wire'[c] = wire[c]
    BY <1>2, TurnSteps DEF Recv, SInv, IInv, TypeInv, TypeOK
  <2> QED  BY <1>2, <2>1, <2>2, TurnSteps DEF SentInv
<1> QED  BY <1>1, <1>2

LEMMA HeldDaemon == ASSUME SInv, HeldInv, DaemonNext PROVE HeldInv'
<1> USE DEF SInv, IInv, TypeInv, TypeOK
<1>1. \A c \in Clients : rsp'[c] = Nobody => rsp[c] = Nobody
  <2>1. CASE Accept \/ AcceptFails  BY <2>1 DEF Accept, AcceptFails
  <2>2. CASE ~Accept /\ ~AcceptFails
    <3>1. csock \in Clients /\ rsp[csock] = Nobody
      BY <2>2, TurnSteps DEF TurnInv, WaitInv, Pending
    <3> QED  BY <2>2, <3>1, TurnSteps
  <2> QED  BY <2>1, <2>2
<1>2. UNCHANGED cpc
  BY TurnSteps DEF Accept, AcceptFails, clientVars
<1>3. ASSUME NEW p \in Procs, CreateClones(p) PROVE HeldInv'
  <2>1. pc = "dispatch" /\ pc' = "await_create" /\ csock' = csock /\ held' = [held EXCEPT ![p] = csock]
    BY <1>3 DEF CreateClones
  <2> QED  BY <1>1, <1>2, <2>1 DEF HeldInv, ClientOpen
<1>4. CASE AwaitCreate
  <2>1. pc = "await_create" /\ held' = held  BY <1>4 DEF AwaitCreate
  <2>2. csock \in Clients  BY <2>1 DEF TurnInv, Turn
  <2>3. ASSUME ClientOpen(csock) PROVE rsp'[csock] # Nobody
    <3>1. rsp' = [rsp EXCEPT ![csock] = Head(up[Target])]
      BY <1>4, <2>3 DEF AwaitCreate, Reply
    <3>2. Creating(Target) /\ Target \in Procs /\ cid[Target] \in Ids
      BY <2>1, BusyFacts, TargetFacts DEF Waits, Mine
    <3>3. Head(up[Target]) \in Responses
      <4>1. up[Target] = <<Answer(Target, "create", "create_success")>>
        BY <1>4, <3>2 DEF AwaitCreate, Creating, Pipes
      <4> QED  BY <3>2, <4>1 DEF Answer, Response, Responses, RespTypes, Commands
    <3> QED  BY <2>2, <3>1, <3>3, NoResponseAssumption
  <2> QED  BY <1>1, <1>2, <2>1, <2>3 DEF HeldInv, ClientOpen
<1>5. CASE pc # "await_create" /\ held' = held
  BY <1>1, <1>2, <1>5 DEF HeldInv, ClientOpen
<1>6. (\E p \in Procs : CreateClones(p)) \/ AwaitCreate \/ (pc # "await_create" /\ held' = held)
  BY DEF DaemonNext, Accept, AcceptFails, Recv, RecvEof, RecvEofCrash, RecvNoMemory, UnknownCommand,
         CreateExisting, NoSuchVsys, CreateFails, CreateNoStack, SendDestroy, SendRun, SendDown,
         AwaitRun, AwaitDestroy, Reap, childVars
<1> QED  BY <1>3, <1>4, <1>5, <1>6

LEMMA EndConnect ==
  ASSUME EndInv, NEW c \in Clients, Connect(c)
  PROVE  SentInv' /\ HeldInv'
<1> USE DEF EndInv, SInv, IInv, TypeInv, TypeOK
<1>1. /\ backlog' = Append(backlog, c) /\ UNCHANGED <<pc, csock>>
      /\ cpc' = [cpc EXCEPT ![c] = "connected"] /\ rsp' = [rsp EXCEPT ![c] = Nobody]
      /\ wire' = [wire EXCEPT ![c] = Nobody]
      /\ held' = [p \in Procs |-> IF held[p] = c THEN Nobody ELSE held[p]]
  BY DEF Connect, daemonVars
<1>2. \A d \in Clients : d # c => (Pending(d)' => Pending(d))
  <2>1. /\ Len(backlog) \in Nat /\ DOMAIN backlog = 1..Len(backlog)
        /\ DOMAIN backlog' = 1..(Len(backlog) + 1)
        /\ \A k \in 1..Len(backlog) : backlog'[k] = backlog[k]
        /\ backlog'[Len(backlog) + 1] = c
    BY <1>1
  <2>2. \A k \in DOMAIN backlog' : k \in DOMAIN backlog \/ k = Len(backlog) + 1
    BY <2>1
  <2> QED  BY <1>1, <2>1, <2>2 DEF Pending
<1>3. SentInv'
  <2>1. \A d \in Clients : cpc'[d] = "waiting" => d # c /\ cpc[d] = "waiting" /\ wire'[d] = wire[d]
    BY <1>1
  <2> QED  BY <1>1, <1>2, <2>1 DEF SentInv, Unserved
<1>4. HeldInv'
  <2>1. \A p \in Procs : held'[p] # c /\ (held'[p] # Nobody => held'[p] = held[p])
    BY <1>1, NobodyNoClient
  <2>2. \A d \in Clients : d # c => cpc'[d] = cpc[d] /\ rsp'[d] = rsp[d]
    BY <1>1
  <2> QED  BY <1>1, <2>1, <2>2, NobodyNoClient DEF HeldInv, ClientOpen
<1> QED  BY <1>3, <1>4

LEMMA EndClient ==
  ASSUME EndInv, NEW c \in Clients, ConnectFails(c) \/ ClientRefuses(c) \/ ClientNext(c)
  PROVE  SentInv' /\ HeldInv'
<1> USE DEF EndInv, SInv, IInv, TypeInv, TypeOK
<1>1. UNCHANGED <<pc, csock, backlog, rsp, held>>
  BY DEF ConnectFails, ClientRefuses, ClientNext, ClientSend, ClientSendFails,
         ClientReceives, ClientSeesEof, daemonVars, socketVars, childVars
<1>2. \A d \in Clients : ClientOpen(d)' => ClientOpen(d)
  BY DEF ConnectFails, ClientRefuses, ClientNext, ClientSend, ClientSendFails,
         ClientReceives, ClientSeesEof, ClientOpen
<1>3. HeldInv'
  BY <1>1, <1>2 DEF HeldInv
<1>4. \A d \in Clients : Unserved(d)' => Unserved(d)
  BY <1>1 DEF Unserved, Pending
<1>5. \A d \in Clients : cpc'[d] = "waiting" =>
         \/ cpc[d] = "waiting" /\ wire'[d] = wire[d]
         \/ wire'[d] = req[d] /\ ClientOpen(d)
  BY DEF ConnectFails, ClientRefuses, ClientNext, ClientSend, ClientSendFails,
         ClientReceives, ClientSeesEof, socketVars, ClientOpen
<1>6. \A d \in Clients : ClientOpen(d) => req[d] # Nobody
  BY DEF ReplyInv
<1> QED  BY <1>3, <1>4, <1>5, <1>6 DEF SentInv

LEMMA EndChild ==
  ASSUME EndInv, NEW p \in Procs, ChildNext(p)
  PROVE  SentInv' /\ HeldInv'
<1> USE DEF EndInv, SInv, IInv, TypeInv, TypeOK
<1>1. UNCHANGED <<pc, csock, backlog, rsp, wire, cpc>>
  BY DEF ChildNext, ChildStart, ChildRuns, ChildDropsRun, ChildDestroys, ChildExits,
         daemonVars, socketVars, clientVars
<1>2. held' = held \/ held' = [held EXCEPT ![p] = Nobody]
  BY DEF ChildNext, ChildStart, ChildRuns, ChildDropsRun, ChildDestroys, ChildExits
<1>3. \A q \in Procs : \A c \in Clients : held'[q] = c => held[q] = c
  BY <1>2, NobodyNoClient
<1>4. HeldInv'
  BY <1>1, <1>3 DEF HeldInv, ClientOpen
<1>5. SentInv'
  BY <1>1 DEF SentInv, Unserved, Pending
<1> QED  BY <1>4, <1>5

\* The invariant holds in every reachable state.
THEOREM EndInvariance == Spec => []EndInv
<1>1. Init => SentInv /\ HeldInv
  BY DEF Init, SentInv, HeldInv, ClientOpen
<1>2. EndInv /\ [Next]_vars => EndInv'
  <2> SUFFICES ASSUME EndInv, [Next]_vars  PROVE EndInv'
    OBVIOUS
  <2>1. SInv'
    BY ServiceNext DEF EndInv
  <2>2. CASE DaemonNext
    BY <2>2, SentDaemon, HeldDaemon, <2>1 DEF EndInv
  <2>3. CASE UNCHANGED vars
    BY <2>3, <2>1 DEF EndInv, SentInv, HeldInv, Unserved, Pending, ClientOpen,
                      vars, daemonVars, socketVars, childVars, clientVars
  <2> QED
    BY <2>1, <2>2, <2>3, EndConnect, EndClient, EndChild DEF EndInv, Next
<1> QED
  BY <1>1, <1>2, ServiceInvariance, PTL DEF Spec, EndInv

\* A user whose command was sent and not answered is still in the daemon's hands,
\* or meets the end of its connection at once: a child that inherited the socket (it
\* never closes it, vsysd.c:184-193) does not keep the user waiting.
UnansweredIsPending ==
  \A c \in Clients : cpc[c] = "waiting" /\ rsp[c] = Nobody =>
    Pending(c) \/ \A p \in Procs : held[p] # c

THEOREM UnansweredHolds == Spec => []UnansweredIsPending
<1>1. EndInv => UnansweredIsPending
  BY DEF EndInv, HeldInv, UnansweredIsPending, Pending, ClientOpen
<1> QED
  BY <1>1, EndInvariance, PTL

-----------------------------------------------------------------------------
(* The daemon's turn goes on.                                               *)

\* The guards of the daemon's actions at each point of a turn, and those of a child.
DaemonGoesOn ==
  CASE pc = "recv" -> wire[csock] # Nobody \/ ~ClientOpen(csock)
    [] pc = "dispatch" ->
         /\ Registered(msg.id) /\ msg.cmd \in {"destroy", "run"} => HasReader(Target)
         /\ ~Registered(msg.id) /\ msg.cmd = "create" => \E p \in Procs : child[p] = "none"
    [] pc \in {"await_create", "await_destroy", "await_run"} -> up[Target] # << >>
    [] pc = "waitpid" -> child[Target] = "zombie"
    [] OTHER -> TRUE
ChildGoesOn(p) ==
  \/ child[p] \in {"starting", "exiting"}
  \/ /\ child[p] = "serving" /\ down[p] # << >>
     /\ Head(down[p]).cmd \in {"run", "destroy"} /\ Head(down[p]).id = cid[p]

\* Whatever the daemon blocks on is about to come: from the user it serves, who
\* has yet to send, or from the child of the vsys the command is for.
TurnGoesOn ==
  ~DaemonGoesOn => IF pc = "recv" THEN cpc[csock] = "connected" ELSE ChildGoesOn(Target)

\* A process slot is free when an id is.
LEMMA FreeSlot ==
  ASSUME IInv, NEW i \in Ids, ~Registered(i),
         IsFiniteSet(Ids), IsFiniteSet(Procs), Cardinality(Ids) <= Cardinality(Procs)
  PROVE  \E p \in Procs : child[p] = "none"
<1> SUFFICES ASSUME \A p \in Procs : child[p] # "none"  PROVE FALSE
  OBVIOUS
<1>1. \A p \in Procs : Mine(p)
  BY MineIffUsed DEF IInv, TypeInv
<1>2. \A p \in Procs : cid[p] \in Ids \ {i} /\ vsysinfo[cid[p]] = p
  BY <1>1, ConstantsAssumption DEF Mine, Registered
<1> DEFINE f == [p \in Procs |-> cid[p]]
<1>3. f \in Injection(Procs, Ids \ {i})
  BY <1>2 DEF Injection, IsInjective
<1>4. IsFiniteSet(Ids \ {i}) /\ Cardinality(Ids \ {i}) = Cardinality(Ids) - 1
  BY FS_RemoveElement
<1>5. Cardinality(Procs) <= Cardinality(Ids \ {i})
  BY <1>3, <1>4, FS_Injection
<1>6. Cardinality(Ids) \in Nat /\ Cardinality(Procs) \in Nat
  BY FS_CardinalityType
<1> QED
  BY <1>4, <1>5, <1>6

\* A child that rests, or whose answer is awaited, has its pipes open.
LEMMA ReaderThere ==
  ASSUME IInv, pc = "dispatch", Registered(msg.id)
  PROVE  HasReader(Target)
<1>1. msg.id \in Ids
  BY RequestType DEF IInv, TypeInv, TypeOK, TurnInv, Turn
<1>2. Target \in Procs /\ Mine(Target)
  BY <1>1 DEF IInv, TypeInv, TypeOK, EntryInv, Registered, Target, Mine
<1>3. child[Target] = "serving"
  BY <1>2 DEF IInv, ProcInv, ProcOk, Absent, Resting, Creating, Running, Destroying, Dying
<1>4. <<Target, "cr">> \in fd[Target]
  BY <1>2, <1>3 DEF IInv, FdInv, ChildEnds
<1> QED
  BY <1>2, <1>4 DEF HasReader

\* The child awaited has something to do until it has answered, or ended.
LEMMA AwaitedGoesOn ==
  ASSUME IInv, pc \in Waits, "message" \notin Faults
  PROVE  DaemonGoesOn \/ ChildGoesOn(Target)
<1> DEFINE p == Target
<1>0. /\ msg.id \in Ids /\ cid[p] = msg.id
      /\ pc = "await_create" => Creating(p)
      /\ pc = "await_run" => Running(p)
      /\ pc = "await_destroy" => Destroying(p)
      /\ pc = "waitpid" => Dying(p)
  BY BusyFacts, TargetFacts DEF IInv
<1>1. /\ pc = "waitpid" /\ child[p] = "zombie" => DaemonGoesOn
      /\ pc # "waitpid" /\ up[p] # << >> => DaemonGoesOn
  BY DEF DaemonGoesOn, Waits
<1> HIDE DEF p
<1>1a. ASSUME NEW r, up[p] = <<r>>  PROVE up[p] # << >>
  BY <1>1a
<1>2. CASE down[p] = <<msg>> /\ child[p] = "serving" /\ msg.cmd \in {"run", "destroy"}
  BY <1>0, <1>2 DEF ChildGoesOn, p
<1>3. CASE child[p] \in {"starting", "exiting"}
  BY <1>3 DEF ChildGoesOn, p
<1>4. CASE pc = "await_create"
  <2>1. Creating(p)
    BY <1>0, <1>4
  <2>2. up[p] # << >> \/ child[p] = "starting"
    BY <1>1a, <2>1 DEF Creating, Pipes
  <2> QED
    BY <1>1, <1>3, <1>4, <2>1, <2>2 DEF Creating, Pipes
<1>5. CASE pc = "await_run"
  <2>1. Running(p)
    BY <1>0, <1>5
  <2>2. up[p] # << >> \/ down[p] = <<msg>>
    BY <1>1a, <2>1 DEF Running, Pipes
  <2> QED
    BY <1>1, <1>2, <1>5, <2>1, <2>2 DEF Running, Pipes
<1>6. CASE pc = "await_destroy"
  <2>1. Destroying(p)
    BY <1>0, <1>6
  <2>2. up[p] # << >> \/ down[p] = <<msg>>
    BY <1>1a, <2>1 DEF Destroying, Pipes
  <2> QED
    BY <1>1, <1>2, <1>6, <2>1, <2>2 DEF Destroying, Pipes
<1>7. CASE pc = "waitpid"
  BY <1>0, <1>1, <1>3, <1>7 DEF Dying, p
<1> QED
  BY <1>4, <1>5, <1>6, <1>7 DEF Waits

\* The daemon, which has one thread and serves one user at a time, never blocks on
\* a read or a wait that nobody will end: with memory for the messages and at least
\* as many processes as ids (the kernel's pids are many more), each point of a turn
\* can be left, or its user or child can step.  With fairness this is
\* EveryCommandEnds.
THEOREM TurnGoesOnHolds ==
  ASSUME IsFiniteSet(Ids), IsFiniteSet(Procs), Cardinality(Ids) <= Cardinality(Procs),
         "message" \notin Faults
  PROVE  Spec => []TurnGoesOn
<1>1. EndInv => TurnGoesOn
  <2> SUFFICES ASSUME EndInv, ~DaemonGoesOn
      PROVE  IF pc = "recv" THEN cpc[csock] = "connected" ELSE ChildGoesOn(Target)
    BY DEF TurnGoesOn
  <2>1. IInv
    BY DEF EndInv, SInv
  <2>2. CASE pc = "recv"
    <3>1. csock \in Clients /\ Unserved(csock)
      BY <2>1, <2>2 DEF IInv, TypeInv, TypeOK, TurnInv, Turn, Unserved, Pending
    <3>2. wire[csock] = Nobody /\ ClientOpen(csock)
      BY <2>2 DEF DaemonGoesOn
    <3> QED
      BY <2>2, <3>1, <3>2 DEF EndInv, SentInv, ClientOpen
  <2>3. CASE pc = "dispatch"
    <3>1. msg.id \in Ids
      BY <2>1, <2>3, RequestType DEF IInv, TypeInv, TypeOK, TurnInv, Turn
    <3>2. DaemonGoesOn
      BY <2>1, <2>3, <3>1, ReaderThere, FreeSlot DEF DaemonGoesOn
    <3> QED
      BY <3>2
  <2>4. CASE pc \in Waits
    BY <2>1, <2>4, AwaitedGoesOn DEF Waits
  <2>5. pc = "recv" \/ pc = "dispatch" \/ pc \in Waits
    BY DEF DaemonGoesOn, Waits
  <2> QED
    BY <2>2, <2>3, <2>4, <2>5
<1> QED
  BY <1>1, EndInvariance, PTL
=============================================================================
