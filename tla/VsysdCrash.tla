----------------------------- MODULE VsysdCrash -----------------------------
(***************************************************************************)
(* Vsysd with processes that are killed: a user interrupts vsys_u, an      *)
(* administrator or the kernel kills the first process of a vsys or the    *)
(* daemon itself.  It adds the branches of the daemon only a dead child    *)
(* leads to: the end of file on its pipe, and the write nobody reads.      *)
(***************************************************************************)
EXTENDS Vsysd

CONSTANT MaxKills     \* bound on the processes killed in one behaviour

ASSUME MaxKillsAssumption == MaxKills \in Nat

VARIABLE kills        \* processes killed so far

crashVars == <<vars, kills>>

CInit == Init /\ kills = 0

Kill == kills < MaxKills /\ kills' = kills + 1

\* What the client had sent can still be read.
KillClient(c) ==
  /\ ClientOpen(c) /\ Kill
  /\ cpc' = [cpc EXCEPT ![c] = "error"]
  /\ UNCHANGED <<daemonVars, fd, socketVars, childVars, req>>

\* The first process of a pid namespace takes all the others with it, so no
\* copy of its descriptors survives; what it wrote stays in the pipe.
KillChild(p) ==
  /\ Live(p) /\ Kill
  /\ child' = [child EXCEPT ![p] = "zombie"]
  /\ fd' = [fd EXCEPT ![p] = {}]
  /\ held' = [held EXCEPT ![p] = Nobody]
  /\ UNCHANGED <<daemonVars, socketVars, cid, down, up, clientVars>>

KillDaemon ==
  /\ Alive /\ Kill
  /\ Stops("killed")
  /\ UNCHANGED <<errcnt, msg, resmsg, vsysinfo, info1, wire, rsp,
                 childVars, clientVars>>

-----------------------------------------------------------------------------
(* The daemon and a dead child.                                            *)

\* The end of file on the pipe of the vsys: nothing left in it and no
\* process with the writing end.
AtEof(p) == up[p] = << >> /\ \A q \in Procs \cup {Daemon} : <<p, "cw">> \notin fd[q]

\* readn returns 0, which is not taken for an error: the handler goes on with
\* a response it never read.  Its variable holds what is on the stack: the
\* success an earlier call left there, or bytes that pass for no response.
Success == [create |-> "create_success", destroy |-> "destroy_success",
            run |-> "start_success"]
OnStack == {Response(msg.cmd, msg.id, t) : t \in {Success[msg.cmd], "unknown"}}

AwaitCreateEof ==
  /\ pc = "await_create" /\ AtEof(Target)
  /\ \E r \in OnStack :
       IF ResponseOk("create", r)
         THEN Reply(r, fd[Daemon]) /\ UNCHANGED <<vsysinfo, info1>>
         ELSE Reply(r, fd[Daemon] \ ParentEnds(Target)) /\ Cleaned(msg.id)
  /\ UNCHANGED <<errcnt, msg, resmsg, wire, childVars, clientVars>>

AwaitRunEof ==
  /\ pc = "await_run" /\ AtEof(Target)
  /\ \E r \in OnStack : Reply(r, fd[Daemon])
  /\ UNCHANGED <<errcnt, msg, resmsg, vsysinfo, info1, wire, childVars, clientVars>>

AwaitDestroyEof ==
  /\ pc = "await_destroy" /\ AtEof(Target)
  /\ \E r \in OnStack :
       IF ResponseOk("destroy", r)
         THEN /\ pc' = "waitpid" /\ resmsg' = r
              /\ UNCHANGED <<csock, fd, backlog, rsp>>
         ELSE Reply(r, fd[Daemon]) /\ UNCHANGED resmsg
  /\ UNCHANGED <<errcnt, msg, vsysinfo, info1, wire, childVars, clientVars>>

\* A command for a vsys whose process is gone: the write raises SIGPIPE.
SendDownBroken ==
  /\ pc = "dispatch" /\ msg.cmd \in {"destroy", "run"} /\ Registered(msg.id)
  /\ ~HasReader(Target)
  /\ Stops("killed")
  /\ UNCHANGED <<errcnt, msg, resmsg, vsysinfo, info1, wire, rsp,
                 childVars, clientVars>>

DeadChildNext == AwaitCreateEof \/ AwaitRunEof \/ AwaitDestroyEof \/ SendDownBroken

CNext == \/ Next /\ UNCHANGED kills
         \/ DeadChildNext /\ UNCHANGED kills
         \/ \E c \in Clients : KillClient(c)
         \/ \E p \in Procs : KillChild(p)
         \/ KillDaemon

CSpec == CInit /\ [][CNext]_crashVars

CFairness ==
  /\ WF_crashVars((DaemonNext \/ DeadChildNext) /\ UNCHANGED kills)
  /\ \A p \in Procs : WF_crashVars(ChildNext(p) /\ UNCHANGED kills)
  /\ \A c \in Clients : WF_crashVars((ClientNext(c) \/ ClientRefuses(c)) /\ UNCHANGED kills)

FairCSpec == CSpec /\ CFairness

-----------------------------------------------------------------------------
\* Whatever dies, an entry of the table names a process slot that is still
\* its own: the pid the daemon keeps cannot have been given to another vsys,
\* since only the daemon's waitpid frees it.
PidStaysOwn ==
  Alive => \A i \in Ids : Registered(i) =>
    cid[vsysinfo[i]] = i /\ child[vsysinfo[i]] # "none"

\* A killed child leaves no half-read answer behind: when a command is
\* dispatched, the pipe the daemon reads next is empty.
NoStaleAnswer ==
  pc = "dispatch" => \A p \in RegisteredProcs : up[p] = << >>

\* The daemon's pipe ends are those of the table, also when a creation failed
\* half-way because the child died.
NoParentLeak == Alive => fd[Daemon] = EndsOf(RegisteredProcs)

\* Every command comes to an end whatever is killed: a child that dies is
\* noticed by its end of file, since no other process kept its end open.  The
\* one exception is the user whose create was cut short by the death of the
\* daemon: the new child inherited the socket that user waits on and never
\* closes it.
EndsUnlessCreateCut ==
  \A c \in Clients :
    ClientOpen(c) ~>
      (ClientOpen(c) => /\ ~Alive /\ req[c].cmd = "create"
                        /\ \E p \in Procs : held[p] = c)
=============================================================================
