------------------------------- MODULE Vsysd -------------------------------
(***************************************************************************)
(* The virtual-system daemon of CH03/14vsysd with its users and its        *)
(* children.  A user (vsys_u.c) connects to a Unix socket, sends one       *)
(* command and waits for one response.  The daemon (vsysd.c, main) serves  *)
(* one connection at a time: it clones a child for every vsys it creates,  *)
(* and passes destroy and run commands to that child over a pair of pipes, *)
(* waiting for the child's response before it goes on.                     *)
(*                                                                         *)
(* Messages are whole here, and running a program in a vsys has one of two *)
(* outcomes: VsysRun shows how the outcome is found.                       *)
(*                                                                         *)
(* Operators named Slip... are mistakes one could make in the code.  They  *)
(* are not part of the specification: each stands before the definition it *)
(* resembles and serves to show that a property would notice it.           *)
(***************************************************************************)
EXTENDS Naturals, Sequences

CONSTANTS Ids,            \* identifiers of virtual systems
          Clients,        \* vsys_u processes
          Procs,          \* process slots clone() can fill
          Daemon,         \* the process of the daemon itself
          Nobody,         \* no process, no client, no message
          Refusers,       \* clients that may connect and then send nothing
          Faults,         \* calls that may fail: see FaultNames
          Backlog,        \* the second argument of listen()
          MaxAcceptErrs   \* failed accepts the main loop tolerates

\* "memory" and "stack" are what a create allocates, "message" the argument list
\* and the strings of a run command that is received.
FaultNames == {"accept", "pipe", "memory", "clone", "stack", "message"}

ASSUME ConstantsAssumption ==
  /\ Daemon \notin Procs /\ Nobody \notin Procs \cup Clients
  /\ Refusers \subseteq Clients
  /\ Faults \subseteq FaultNames
  /\ Backlog \in Nat /\ MaxAcceptErrs \in Nat

Commands == {"create", "destroy", "run", "link_move"}
Requests == [cmd : Commands, id : Ids]
ASSUME NobodyAssumption == Nobody \notin Requests

RespTypes == {"create_success", "destroy_success", "start_success",
              "start_failed", "unknown"}
Responses == [cmd : Commands, id : Ids, type : RespTypes]
ASSUME NoResponseAssumption == Nobody \notin Responses

Response(c, i, t) == [cmd |-> c, id |-> i, type |-> t]

VARIABLES
  pc,        \* where main() or the handler it called stands
  csock,     \* the client of the accepted connection, or Nobody
  errcnt,    \* failed accepts so far
  msg,       \* main's message variable, which every connection reuses
  resmsg,    \* the response a destroy keeps while it waits for the child
  vsysinfo,  \* vsysinfo[i][0]: the child registered for i, or Nobody
  info1,     \* vsysinfo[i][1]: "null", "live" or "freed" memory
  fd,        \* fd[q]: the pipe ends process q has open
  backlog,   \* connections waiting to be accepted
  wire,      \* wire[c]: c's request in the socket, or Nobody
  rsp,       \* rsp[c]: the response in the socket, or Nobody
  child,     \* child[p]: state of process slot p
  cid,       \* cid[p]: the vsys_id of p's own daemon_info
  down, up,  \* down[p], up[p]: contents of the pipes to and from p
  held,      \* held[p]: the client whose socket p inherited, or Nobody
  cpc,       \* cpc[c]: where client c stands
  req        \* req[c]: the command of c's current run, or Nobody

daemonVars == <<pc, csock, errcnt, msg, resmsg, vsysinfo, info1>>
socketVars == <<backlog, wire, rsp>>
childVars  == <<child, cid, down, up, held>>
clientVars == <<cpc, req>>
vars == <<daemonVars, fd, socketVars, childVars, clientVars>>

PCs == {"accept", "recv", "dispatch", "await_create", "await_destroy",
        "await_run", "waitpid", "exited", "killed"}
ChildStates == {"none", "starting", "serving", "exiting", "zombie"}
ClientStates == {"idle", "connected", "waiting", "ok", "error"}

ParentEnds(p) == {<<p, "pr">>, <<p, "pw">>}  \* comm_pipe[1][0], comm_pipe[0][1]
ChildEnds(p)  == {<<p, "cr">>, <<p, "cw">>}  \* comm_pipe[0][0], comm_pipe[1][1]
EndsOf(S) == UNION {ParentEnds(p) : p \in S}

Alive == pc \notin {"exited", "killed"}
Registered(i) == vsysinfo[i] # Nobody
RegisteredProcs == {vsysinfo[i] : i \in Ids} \ {Nobody}
Pending(c) == c = csock \/ \E k \in DOMAIN backlog : backlog[k] = c
ClientOpen(c) == cpc[c] \in {"connected", "waiting"}
Target == vsysinfo[msg.id]

Init == /\ pc = "accept" /\ csock = Nobody /\ errcnt = 0
        /\ msg = Nobody /\ resmsg = Nobody
        /\ vsysinfo = [i \in Ids |-> Nobody]
        /\ info1 = [i \in Ids |-> "null"]
        /\ fd = [q \in Procs \cup {Daemon} |-> {}]
        /\ backlog = << >>
        /\ wire = [c \in Clients |-> Nobody]
        /\ rsp = [c \in Clients |-> Nobody]
        /\ child = [p \in Procs |-> "none"]
        /\ cid = [p \in Procs |-> Nobody]
        /\ down = [p \in Procs |-> << >>]
        /\ up = [p \in Procs |-> << >>]
        /\ held = [p \in Procs |-> Nobody]
        /\ cpc = [c \in Clients |-> "idle"]
        /\ req = [c \in Clients |-> Nobody]

\* Slip: the outcome is not looked at.
SlipResponseOk(cmd, r) == r.cmd = cmd

\* vsd_check_response_msg: the command and the outcome are compared, the
\* vsys id is not.
ResponseOk(cmd, r) ==
  /\ r.cmd = cmd
  /\ \/ cmd = "create"  /\ r.type = "create_success"
     \/ cmd = "destroy" /\ r.type = "destroy_success"
     \/ cmd = "run"     /\ r.type = "start_success"

-----------------------------------------------------------------------------
(* Clients: one run of vsys_u each time round.                             *)

\* vsc_connect_to_daemon succeeds: there is room in the listen queue.  Copies
\* of the socket of an earlier run no longer matter.
Connect(c) ==
  /\ Alive
  /\ ~ClientOpen(c) /\ ~Pending(c)
  /\ Len(backlog) <= Backlog
  /\ cpc' = [cpc EXCEPT ![c] = "connected"]
  /\ \E m \in Requests : req' = [req EXCEPT ![c] = m]
  /\ backlog' = Append(backlog, c)
  /\ wire' = [wire EXCEPT ![c] = Nobody]
  /\ rsp' = [rsp EXCEPT ![c] = Nobody]
  /\ held' = [p \in Procs |-> IF held[p] = c THEN Nobody ELSE held[p]]
  /\ UNCHANGED <<daemonVars, fd, child, cid, down, up>>

\* Nobody listens any more: connect fails, the closed descriptor is
\* returned all the same and the first write on it fails.
ConnectFails(c) ==
  /\ ~Alive /\ ~ClientOpen(c)
  /\ cpc' = [cpc EXCEPT ![c] = "error"]
  /\ UNCHANGED <<daemonVars, fd, socketVars, childVars, req>>

\* Slip: the client does not wait for its response.
SlipClientSend(c) ==
  /\ cpc[c] = "connected" /\ Pending(c)
  /\ cpc' = [cpc EXCEPT ![c] = "ok"]
  /\ wire' = [wire EXCEPT ![c] = req[c]]
  /\ UNCHANGED <<daemonVars, fd, backlog, rsp, childVars, req>>

ClientSend(c) ==
  /\ cpc[c] = "connected" /\ Pending(c)
  /\ cpc' = [cpc EXCEPT ![c] = "waiting"]
  /\ wire' = [wire EXCEPT ![c] = req[c]]
  /\ UNCHANGED <<daemonVars, fd, backlog, rsp, childVars, req>>

\* The daemon's end was closed before the client wrote.
ClientSendFails(c) ==
  /\ cpc[c] = "connected" /\ ~Pending(c)
  /\ cpc' = [cpc EXCEPT ![c] = "error"]
  /\ UNCHANGED <<daemonVars, fd, socketVars, childVars, req>>

\* A missing or invalid argument is found after the connection is made:
\* the client closes it without a word.
ClientRefuses(c) ==
  /\ c \in Refusers /\ cpc[c] = "connected"
  /\ cpc' = [cpc EXCEPT ![c] = "error"]
  /\ req' = [req EXCEPT ![c] = Nobody]
  /\ UNCHANGED <<daemonVars, fd, socketVars, childVars>>

ClientReceives(c) ==
  /\ cpc[c] = "waiting" /\ rsp[c] # Nobody
  /\ cpc' = [cpc EXCEPT ![c] =
               IF ResponseOk(req[c].cmd, rsp[c]) THEN "ok" ELSE "error"]
  /\ UNCHANGED <<daemonVars, fd, socketVars, childVars, req>>

\* The connection ends with no response.  The response variable was never
\* written and what the stack holds does not pass the check.
ClientSeesEof(c) ==
  /\ cpc[c] = "waiting" /\ rsp[c] = Nobody
  /\ ~Pending(c) /\ \A p \in Procs : held[p] # c
  /\ cpc' = [cpc EXCEPT ![c] = "error"]
  /\ UNCHANGED <<daemonVars, fd, socketVars, childVars, req>>

-----------------------------------------------------------------------------
(* The daemon: main loop.                                                  *)

\* What the kernel does when the daemon stops for the reason given: its
\* descriptors close and the connections it had are gone.
Stops(reason) == /\ pc' = reason
                 /\ csock' = Nobody
                 /\ backlog' = << >>
                 /\ fd' = [fd EXCEPT ![Daemon] = {}]

\* The end of a turn of the main loop: clean the message, close the client.
HangUp == pc' = "accept" /\ csock' = Nobody

\* Slip: SIGPIPE ignored, and the failed write with it.
SlipReply(r, ends) ==
  /\ rsp' = IF ClientOpen(csock) THEN [rsp EXCEPT ![csock] = r] ELSE rsp
  /\ fd' = [fd EXCEPT ![Daemon] = ends]
  /\ HangUp
  /\ UNCHANGED backlog

\* vsd_sock_send_message of r, then the end of the turn, with ends the pipe
\* ends left open.  SIGPIPE has its default action: a client that closed its
\* socket takes the daemon with it.
Reply(r, ends) ==
  IF ClientOpen(csock)
    THEN /\ rsp' = [rsp EXCEPT ![csock] = r]
         /\ fd' = [fd EXCEPT ![Daemon] = ends]
         /\ HangUp
         /\ UNCHANGED backlog
    ELSE Stops("killed") /\ UNCHANGED rsp

Accept ==
  /\ pc = "accept" /\ backlog # << >>
  /\ csock' = Head(backlog) /\ backlog' = Tail(backlog)
  /\ pc' = "recv"
  /\ UNCHANGED <<errcnt, msg, resmsg, vsysinfo, info1, fd, wire, rsp,
                 childVars, clientVars>>

\* Slip: one failure too many is tolerated.
SlipAcceptFails ==
  /\ "accept" \in Faults
  /\ pc = "accept" /\ backlog # << >>
  /\ IF errcnt <= MaxAcceptErrs
       THEN /\ backlog' = Tail(backlog) /\ errcnt' = errcnt + 1
            /\ UNCHANGED <<pc, csock, fd>>
       ELSE Stops("exited") /\ UNCHANGED errcnt
  /\ UNCHANGED <<msg, resmsg, vsysinfo, info1, wire, rsp,
                 childVars, clientVars>>

\* accept is given an uninitialised address length.  A negative one makes it
\* fail with EINVAL once the connection has left the queue: the client's
\* connection is reset.  Failures are counted over the daemon's whole life.
AcceptFails ==
  /\ "accept" \in Faults
  /\ pc = "accept" /\ backlog # << >>
  /\ IF errcnt < MaxAcceptErrs
       THEN backlog' = Tail(backlog) /\ UNCHANGED <<pc, csock, fd>>
       ELSE Stops("exited")
  /\ errcnt' = IF errcnt < MaxAcceptErrs THEN errcnt + 1 ELSE errcnt
  /\ UNCHANGED <<msg, resmsg, vsysinfo, info1, wire, rsp,
                 childVars, clientVars>>

Recv ==
  /\ pc = "recv" /\ wire[csock] # Nobody
  /\ msg' = wire[csock]
  /\ wire' = [wire EXCEPT ![csock] = Nobody]
  /\ pc' = "dispatch"
  /\ UNCHANGED <<csock, errcnt, resmsg, vsysinfo, info1, fd, backlog, rsp,
                 childVars, clientVars>>

\* The client left without a message.  readn reads nothing, the result is
\* not looked at, and the previous message is still in the variable; before
\* the first message the variable holds anything at all.
RecvEof ==
  /\ pc = "recv" /\ wire[csock] = Nobody /\ ~ClientOpen(csock)
  /\ msg' \in IF msg = Nobody THEN Requests ELSE {msg}
  /\ pc' = "dispatch"
  /\ UNCHANGED <<csock, errcnt, resmsg, vsysinfo, info1, fd, socketVars,
                 childVars, clientVars>>

\* As RecvEof for a run command: its argument list is allocated anew and
\* never filled, and printing it may touch unmapped memory.
RecvEofCrash ==
  /\ pc = "recv" /\ wire[csock] = Nobody /\ ~ClientOpen(csock)
  /\ msg # Nobody => msg.cmd = "run"
  /\ Stops("killed")
  /\ UNCHANGED <<errcnt, msg, resmsg, vsysinfo, info1, wire, rsp,
                 childVars, clientVars>>

\* No memory for the argument list or for one of the strings: the result of the
\* receive is not looked at, and printing the list, or passing it on to the vsys,
\* follows a null pointer.  (If neither happens the turn goes on as after Recv.)
RecvNoMemory ==
  /\ "message" \in Faults
  /\ pc = "recv" /\ wire[csock] # Nobody /\ wire[csock].cmd = "run"
  /\ Stops("killed")
  /\ UNCHANGED <<errcnt, msg, resmsg, vsysinfo, info1, wire, rsp,
                 childVars, clientVars>>

\* main's last branch: link_move was never implemented.
UnknownCommand ==
  /\ pc = "dispatch" /\ msg.cmd = "link_move"
  /\ Reply(Response(msg.cmd, msg.id, "unknown"), fd[Daemon])
  /\ UNCHANGED <<errcnt, msg, resmsg, vsysinfo, info1, wire,
                 childVars, clientVars>>

\* Handlers that return -1 at once: the client gets no response, only the
\* end of its connection.
CreateExisting ==
  /\ pc = "dispatch" /\ msg.cmd = "create" /\ Registered(msg.id)
  /\ HangUp
  /\ UNCHANGED <<errcnt, msg, resmsg, vsysinfo, info1, fd, socketVars,
                 childVars, clientVars>>

NoSuchVsys ==
  /\ pc = "dispatch" /\ msg.cmd \in {"destroy", "run"} /\ ~Registered(msg.id)
  /\ HangUp
  /\ UNCHANGED <<errcnt, msg, resmsg, vsysinfo, info1, fd, socketVars,
                 childVars, clientVars>>

-----------------------------------------------------------------------------
(* vsd_do_create_vsys.                                                     *)

\* A pipe, an allocation or clone fails: everything the handler opened is
\* closed and freed again.  When it is clone, vsysinfo[i][1] keeps pointing
\* at the freed vsinfo.
CreateFails ==
  /\ pc = "dispatch" /\ msg.cmd = "create" /\ ~Registered(msg.id)
  /\ \/ Faults \cap {"pipe", "memory"} # {} /\ UNCHANGED info1
     \/ "clone" \in Faults /\ info1' = [info1 EXCEPT ![msg.id] = "freed"]
  /\ HangUp
  /\ UNCHANGED <<errcnt, msg, resmsg, vsysinfo, fd, socketVars,
                 childVars, clientVars>>

\* The child's stack cannot be allocated; the check after malloc looks at
\* vsinfo, and clone writes its arguments just below an unmapped address.
CreateNoStack ==
  /\ pc = "dispatch" /\ msg.cmd = "create" /\ ~Registered(msg.id)
  /\ "stack" \in Faults
  /\ Stops("killed")
  /\ UNCHANGED <<errcnt, msg, resmsg, vsysinfo, info1, wire, rsp,
                 childVars, clientVars>>

\* Slips in what follows: the daemon keeps the child's ends open; the second
\* entry of the table is forgotten.
SlipCreateKeepsEnds(p) ==
  /\ pc = "dispatch" /\ msg.cmd = "create" /\ ~Registered(msg.id)
  /\ child[p] = "none"
  /\ vsysinfo' = [vsysinfo EXCEPT ![msg.id] = p]
  /\ info1' = [info1 EXCEPT ![msg.id] = "live"]
  /\ child' = [child EXCEPT ![p] = "starting"]
  /\ cid' = [cid EXCEPT ![p] = msg.id]
  /\ held' = [held EXCEPT ![p] = csock]
  /\ down' = [down EXCEPT ![p] = << >>] /\ up' = [up EXCEPT ![p] = << >>]
  /\ LET all == fd[Daemon] \cup ParentEnds(p) \cup ChildEnds(p)
     IN  fd' = [fd EXCEPT ![Daemon] = all, ![p] = all]
  /\ pc' = "await_create"
  /\ UNCHANGED <<csock, errcnt, msg, resmsg, socketVars, clientVars>>

SlipCreateForgetsInfo(p) ==
  /\ pc = "dispatch" /\ msg.cmd = "create" /\ ~Registered(msg.id)
  /\ child[p] = "none"
  /\ vsysinfo' = [vsysinfo EXCEPT ![msg.id] = p]
  /\ child' = [child EXCEPT ![p] = "starting"]
  /\ cid' = [cid EXCEPT ![p] = msg.id]
  /\ held' = [held EXCEPT ![p] = csock]
  /\ down' = [down EXCEPT ![p] = << >>] /\ up' = [up EXCEPT ![p] = << >>]
  /\ fd' = [fd EXCEPT ![Daemon] = @ \cup ParentEnds(p),
                      ![p] = fd[Daemon] \cup ParentEnds(p) \cup ChildEnds(p)]
  /\ pc' = "await_create"
  /\ UNCHANGED <<csock, errcnt, msg, resmsg, info1, socketVars, clientVars>>

\* Pipes, memory and the clone: the child starts with a copy of every
\* descriptor, the client's socket included, and the daemon closes the
\* child's two ends.
CreateClones(p) ==
  /\ pc = "dispatch" /\ msg.cmd = "create" /\ ~Registered(msg.id)
  /\ child[p] = "none"
  /\ vsysinfo' = [vsysinfo EXCEPT ![msg.id] = p]
  /\ info1' = [info1 EXCEPT ![msg.id] = "live"]
  /\ child' = [child EXCEPT ![p] = "starting"]
  /\ cid' = [cid EXCEPT ![p] = msg.id]
  /\ held' = [held EXCEPT ![p] = csock]
  /\ down' = [down EXCEPT ![p] = << >>]
  /\ up' = [up EXCEPT ![p] = << >>]
  /\ fd' = [fd EXCEPT ![Daemon] = @ \cup ParentEnds(p),
                      ![p] = fd[Daemon] \cup ParentEnds(p) \cup ChildEnds(p)]
  /\ pc' = "await_create"
  /\ UNCHANGED <<csock, errcnt, msg, resmsg, socketVars, clientVars>>

\* __vsd_clean_vsys_resource(i), apart from the pipe ends.
Cleaned(i) == /\ vsysinfo' = [vsysinfo EXCEPT ![i] = Nobody]
              /\ info1' = [info1 EXCEPT ![i] = "null"]

\* The child's first message is forwarded; if it is not a success the vsys
\* is dropped again.
AwaitCreate ==
  /\ pc = "await_create" /\ up[Target] # << >>
  /\ LET r == Head(up[Target]) IN
     IF ResponseOk("create", r)
       THEN Reply(r, fd[Daemon]) /\ UNCHANGED <<vsysinfo, info1>>
       ELSE Reply(r, fd[Daemon] \ ParentEnds(Target)) /\ Cleaned(msg.id)
  /\ up' = [up EXCEPT ![Target] = Tail(@)]
  /\ UNCHANGED <<errcnt, msg, resmsg, wire, child, cid, down, held, clientVars>>

-----------------------------------------------------------------------------
(* vsd_do_destroy_vsys and vsd_do_run_on_vsys.                             *)

HasReader(p) == \E q \in Procs : <<p, "cr">> \in fd[q]

\* The command goes down the pipe of the vsys.
SendDown(cmd, next) ==
  /\ pc = "dispatch" /\ msg.cmd = cmd /\ Registered(msg.id)
  /\ HasReader(Target)
  /\ down' = [down EXCEPT ![Target] = Append(@, msg)]
  /\ pc' = next
  /\ UNCHANGED <<csock, errcnt, msg, resmsg, vsysinfo, info1, fd, socketVars,
                 child, cid, up, held, clientVars>>

SendDestroy == SendDown("destroy", "await_destroy")
SlipSendRun == SendDown("run", "accept")  \* slip: no wait for the response
SendRun == SendDown("run", "await_run")

\* Slip: the response is looked at and left in the pipe.
SlipAwaitRun ==
  /\ pc = "await_run" /\ up[Target] # << >>
  /\ Reply(Head(up[Target]), fd[Daemon])
  /\ UNCHANGED <<errcnt, msg, resmsg, vsysinfo, info1, wire, child, cid, down,
                 up, held, clientVars>>

AwaitRun ==
  /\ pc = "await_run" /\ up[Target] # << >>
  /\ Reply(Head(up[Target]), fd[Daemon])
  /\ up' = [up EXCEPT ![Target] = Tail(@)]
  /\ UNCHANGED <<errcnt, msg, resmsg, vsysinfo, info1, wire, child, cid, down, held,
                 clientVars>>

\* Slip: the client is told before waitpid.
SlipAwaitDestroy ==
  /\ pc = "await_destroy" /\ up[Target] # << >>
  /\ resmsg' = Head(up[Target])
  /\ up' = [up EXCEPT ![Target] = Tail(@)]
  /\ pc' = "waitpid"
  /\ rsp' = [rsp EXCEPT ![csock] = Head(up[Target])]
  /\ UNCHANGED <<csock, fd, backlog, errcnt, msg, vsysinfo, info1, wire,
                 child, cid, down, held, clientVars>>

\* A response that is not a success is forwarded and the vsys stays.
AwaitDestroy ==
  /\ pc = "await_destroy" /\ up[Target] # << >>
  /\ up' = [up EXCEPT ![Target] = Tail(@)]
  /\ IF ResponseOk("destroy", Head(up[Target]))
       THEN /\ pc' = "waitpid" /\ resmsg' = Head(up[Target])
            /\ UNCHANGED <<csock, fd, backlog, rsp>>
       ELSE Reply(Head(up[Target]), fd[Daemon]) /\ UNCHANGED resmsg
  /\ UNCHANGED <<errcnt, msg, vsysinfo, info1, wire, child, cid, down, held,
                 clientVars>>

\* Slip: the entry is not cleaned.
SlipReap ==
  /\ pc = "waitpid" /\ child[Target] = "zombie"
  /\ child' = [child EXCEPT ![Target] = "none"]
  /\ Reply(resmsg, fd[Daemon])
  /\ resmsg' = Nobody
  /\ UNCHANGED <<errcnt, msg, vsysinfo, info1, wire, cid, down, up, held,
                 clientVars>>

\* waitpid returns, the entry is cleaned, then the client is told.
Reap ==
  /\ pc = "waitpid" /\ child[Target] = "zombie"
  /\ child' = [child EXCEPT ![Target] = "none"]
  /\ Cleaned(msg.id)
  /\ Reply(resmsg, fd[Daemon] \ ParentEnds(Target))
  /\ resmsg' = Nobody
  /\ UNCHANGED <<errcnt, msg, wire, cid, down, up, held, clientVars>>

-----------------------------------------------------------------------------
(* The child: vsd_vsys_daemon_main.                                        *)

\* A write by child p: lost when the daemon's end is closed.
Written(p, r) == IF <<p, "pr">> \in fd[Daemon]
                   THEN [up EXCEPT ![p] = Append(@, r)] ELSE up

\* Slips: only the child's own copies are closed; no success is announced.
SlipStartKeepsOthers(p) ==
  /\ child[p] = "starting"
  /\ child' = [child EXCEPT ![p] = "serving"]
  /\ fd' = [fd EXCEPT ![p] = @ \ ParentEnds(p)]
  /\ up' = Written(p, Response("create", cid[p], "create_success"))
  /\ UNCHANGED <<daemonVars, socketVars, cid, down, held, clientVars>>

SlipStartSilent(p) ==
  /\ child[p] = "starting"
  /\ child' = [child EXCEPT ![p] = "serving"]
  /\ fd' = [fd EXCEPT ![p] = @ \ EndsOf(RegisteredProcs)]
  /\ UNCHANGED <<daemonVars, socketVars, cid, down, up, held, clientVars>>

\* vsd_init_vsys_daemon closes what belongs to the daemon, in the copy of
\* the table the child was cloned with; then the success is announced.
ChildStart(p) ==
  /\ child[p] = "starting"
  /\ child' = [child EXCEPT ![p] = "serving"]
  /\ fd' = [fd EXCEPT ![p] = @ \ EndsOf(RegisteredProcs)]
  /\ up' = Written(p, Response("create", cid[p], "create_success"))
  /\ UNCHANGED <<daemonVars, socketVars, cid, down, held, clientVars>>

\* One turn of the child's loop for a command cmd, answered with r.  A
\* message for another vsys is dropped without an answer.
ChildTakes(p, cmd, r) ==
  /\ child[p] = "serving" /\ down[p] # << >> /\ Head(down[p]).cmd = cmd
  /\ down' = [down EXCEPT ![p] = Tail(@)]
  /\ up' = IF Head(down[p]).id = cid[p] THEN Written(p, r) ELSE up

ChildRuns(p) ==
  /\ \E t \in {"start_success", "start_failed"} :
        ChildTakes(p, "run", Response("run", cid[p], t))
  /\ UNCHANGED <<daemonVars, fd, socketVars, child, cid, held, clientVars>>

\* No memory for the message: "a corrupted message received", and no answer.
ChildDropsRun(p) ==
  /\ "message" \in Faults
  /\ child[p] = "serving" /\ down[p] # << >> /\ Head(down[p]).cmd = "run"
  /\ down' = [down EXCEPT ![p] = Tail(@)]
  /\ UNCHANGED <<daemonVars, fd, socketVars, child, cid, up, held, clientVars>>

ChildDestroys(p) ==
  /\ ChildTakes(p, "destroy", Response("destroy", cid[p], "destroy_success"))
  /\ child' = [child EXCEPT ![p] =
                 IF Head(down[p]).id = cid[p] THEN "exiting" ELSE @]
  /\ UNCHANGED <<daemonVars, fd, socketVars, cid, held, clientVars>>

ChildExits(p) ==
  /\ child[p] = "exiting"
  /\ child' = [child EXCEPT ![p] = "zombie"]
  /\ fd' = [fd EXCEPT ![p] = {}]
  /\ held' = [held EXCEPT ![p] = Nobody]
  /\ UNCHANGED <<daemonVars, socketVars, cid, down, up, clientVars>>

-----------------------------------------------------------------------------
ClientNext(c) == \/ ClientSend(c) \/ ClientSendFails(c)
                 \/ ClientReceives(c) \/ ClientSeesEof(c)
DaemonNext == \/ Accept \/ AcceptFails \/ Recv \/ RecvEof \/ RecvEofCrash
              \/ RecvNoMemory \/ UnknownCommand \/ CreateExisting \/ NoSuchVsys
              \/ CreateFails \/ CreateNoStack \/ \E p \in Procs : CreateClones(p)
              \/ AwaitCreate \/ SendDestroy \/ SendRun \/ AwaitRun
              \/ AwaitDestroy \/ Reap
ChildNext(p) == \/ ChildStart(p) \/ ChildRuns(p) \/ ChildDropsRun(p)
                \/ ChildDestroys(p) \/ ChildExits(p)

Next == \/ \E c \in Clients : \/ Connect(c) \/ ConnectFails(c)
                              \/ ClientRefuses(c) \/ ClientNext(c)
        \/ DaemonNext
        \/ \E p \in Procs : ChildNext(p)

Spec == Init /\ [][Next]_vars

\* The scheduler runs the daemon, every child and every client that has
\* something to do.  Nobody is bound to issue a command.
Fairness == /\ WF_vars(DaemonNext)
            /\ \A p \in Procs : WF_vars(ChildNext(p))
            /\ \A c \in Clients : WF_vars(ClientNext(c) \/ ClientRefuses(c))
FairSpec == Spec /\ Fairness

-----------------------------------------------------------------------------
(* Properties.                                                             *)

TypeOK ==
  /\ pc \in PCs /\ csock \in Clients \cup {Nobody} /\ errcnt \in 0..MaxAcceptErrs
  /\ msg \in Requests \cup {Nobody} /\ resmsg \in Responses \cup {Nobody}
  /\ vsysinfo \in [Ids -> Procs \cup {Nobody}]
  /\ info1 \in [Ids -> {"null", "live", "freed"}]
  /\ fd \in [Procs \cup {Daemon} -> SUBSET (Procs \X {"pr", "pw", "cr", "cw"})]
  /\ backlog \in Seq(Clients)
  /\ wire \in [Clients -> Requests \cup {Nobody}]
  /\ rsp \in [Clients -> Responses \cup {Nobody}]
  /\ child \in [Procs -> ChildStates] /\ cid \in [Procs -> Ids \cup {Nobody}]
  /\ down \in [Procs -> Seq(Requests)] /\ up \in [Procs -> Seq(Responses)]
  /\ held \in [Procs -> Clients \cup {Nobody}]
  /\ cpc \in [Clients -> ClientStates]
  /\ req \in [Clients -> Requests \cup {Nobody}]

Live(p) == child[p] \in {"starting", "serving"}
Awaited(p) == /\ pc \in {"await_create", "await_destroy", "await_run"}
              /\ Target = p

\* Lockstep: a vsys owes the daemon exactly one response while the daemon
\* waits for it, and none at any other time, so that the next command never
\* meets a leftover response (both handlers trust the first thing they read).
\* One that had no memory for the message owes none: the daemon waits for ever.
Owed(p) == Len(down[p]) + Len(up[p]) + (IF child[p] = "starting" THEN 1 ELSE 0)
Lockstep ==
  \A p \in Procs :
    \/ Owed(p) = (IF Awaited(p) THEN 1 ELSE 0)
    \/ Owed(p) = 0 /\ pc = "await_run" /\ "message" \in Faults

\* The table tells the truth: an entry names a child that was cloned for that
\* id and is alive, unless it is being destroyed right now, and every living
\* child is in the table, so no vsys is lost or entered twice.
TableSound ==
  Alive =>
    /\ \A i \in Ids : Registered(i) =>
         /\ cid[vsysinfo[i]] = i
         /\ \/ Live(vsysinfo[i])
            \/ pc \in {"await_destroy", "waitpid"} /\ msg.id = i
    /\ \A p \in Procs : child[p] # "none" => p \in RegisteredProcs

\* Descriptors: the daemon has open the two ends of every registered vsys and
\* nothing else, whatever failed before, and a child that serves has only its
\* own two ends: no end of another vsys survives in it (the NOTE in
\* vsd_init_vsys_daemon), or a pipe would never reach its end of file.
NoDescriptorLeak ==
  /\ Alive => fd[Daemon] = EndsOf(RegisteredProcs)
  /\ \A p \in Procs :
       fd[p] = CASE child[p] = "starting" -> EndsOf(RegisteredProcs) \cup ChildEnds(p)
                 [] child[p] \in {"serving", "exiting"} -> ChildEnds(p)
                 [] OTHER -> {}

\* vsysinfo[i][1] dangles after a failed clone, but never while i is
\* registered: __vsd_clean_vsys_resource cannot free it twice.
NoDanglingFree == \A i \in Ids : Registered(i) => info1[i] = "live"

\* The response a client finds in its socket answers its own command for its
\* own vsys, although neither the daemon nor the client compares the ids.
ReplyMatches ==
  \A c \in Clients :
    cpc[c] = "waiting" /\ rsp[c] # Nobody =>
      rsp[c].cmd = req[c].cmd /\ rsp[c].id = req[c].id

\* The virtual systems users can rely on: an entry counts once the response
\* of its child has been read.
Existing == {i \in Ids : Registered(i)}
            \ (IF pc = "await_create" THEN {msg.id} ELSE {})

\* Replaying the previous message when a client sends nothing is harmless:
\* a virtual system appears or disappears, with the daemon alive, only when
\* the client being served asked for just that.
OnlyAskedChanges ==
  [][Existing' # Existing /\ Alive' => req[csock] = msg]_vars

\* What the daemon does not survive for want of memory.
OutOfMemory ==
  \/ "stack" \in Faults /\ pc = "dispatch" /\ msg.cmd = "create"
  \/ "message" \in Faults /\ pc = "recv" /\ wire[csock] # Nobody /\ wire[csock].cmd = "run"

\* SIGPIPE and bad pointers: a user who asks for something never takes the
\* daemon down.  When it is killed, it serves one who closed the connection
\* without a command (vsysd.c:69, 347), or lacks memory for a stack or a message.
KilledByLeavers ==
  [][Alive /\ pc' = "killed" => req[csock] = Nobody \/ OutOfMemory]_vars

\* A user who is told that a vsys is gone can rely on it: no process of that
\* vsys is left when the response enters the socket.
GoneWhenTold ==
  [][\A c \in Clients :
       rsp'[c] # rsp[c] /\ rsp'[c] # Nobody /\ rsp'[c].type = "destroy_success"
         => \A p \in Procs : child'[p] # "none" => cid[p] # rsp'[c].id]_vars

\* Every command a user issues comes to an end (with memory for the messages).
EveryCommandEnds ==
  \A c \in Clients : ClientOpen(c) ~> ~ClientOpen(c)

-----------------------------------------------------------------------------
(* The daemon implements VsysService.  A vsys exists once the response of  *)
(* its child has been read and until its child has been waited for.        *)

ServiceOutcome(c) ==
  IF Pending(c) THEN "pending"
  ELSE CASE cpc[c] = "idle" -> "idle"
         [] cpc[c] = "ok" -> "ok"
         [] cpc[c] = "waiting" /\ rsp[c] # Nobody ->
              IF ResponseOk(req[c].cmd, rsp[c]) THEN "ok" ELSE "failed"
         [] OTHER -> "failed"

Service == INSTANCE VsysService WITH
  exists <- Existing,
  asked <- req,
  outcome <- [c \in Clients |-> ServiceOutcome(c)],
  open <- Alive,
  MayReject <- (IF "accept" \in Faults THEN Commands ELSE {})
               \cup (IF Faults \cap {"pipe", "memory", "clone"} # {}
                       THEN {"create"} ELSE {})

\* What users see of the daemon is what VsysService promises.
ImplementsService == Service!SSpec
=============================================================================
