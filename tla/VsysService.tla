---------------------------- MODULE VsysService ----------------------------
(***************************************************************************)
(* What the virtual-system daemon promises its users, with no sockets,     *)
(* pipes or processes: a set of existing virtual systems (vsys), and for   *)
(* every client the command it issued and what became of it.  The daemon   *)
(* of module Vsysd is shown to implement this specification.               *)
(***************************************************************************)
CONSTANTS Ids,        \* identifiers of virtual systems
          Clients,    \* users of the service
          MayReject,  \* commands the service may turn down without a cause
          Nobody      \* a client's command when it has none

Commands == {"create", "destroy", "run", "link_move"}
Requests == [cmd : Commands, id : Ids]

VARIABLES exists,     \* the virtual systems that exist
          asked,      \* asked[c]: the command of c's current connection
          outcome,    \* outcome[c]: "idle", "pending", "ok" or "failed"
          open        \* FALSE once the service has stopped

svars == <<exists, asked, outcome, open>>

SInit == /\ exists = {}
         /\ asked = [c \in Clients |-> Nobody]
         /\ outcome = [c \in Clients |-> "idle"]
         /\ open = TRUE

\* A client issues a command, once its previous one has an outcome.
Ask(c) == /\ open
          /\ outcome[c] # "pending"
          /\ outcome' = [outcome EXCEPT ![c] = "pending"]
          /\ \E m \in Requests : asked' = [asked EXCEPT ![c] = m]
          /\ UNCHANGED <<exists, open>>

\* A client gives up before its command reached the service.
Withdraw(c) == /\ asked' = [asked EXCEPT ![c] = Nobody]
               /\ UNCHANGED <<exists, outcome, open>>

Decide(c, result) == /\ open
                     /\ outcome[c] = "pending"
                     /\ outcome' = [outcome EXCEPT ![c] = result]
                     /\ UNCHANGED <<asked, open>>

Create(c) == /\ Decide(c, "ok")
             /\ asked[c] # Nobody
             /\ asked[c].cmd = "create"
             /\ asked[c].id \notin exists
             /\ exists' = exists \cup {asked[c].id}

Destroy(c) == /\ Decide(c, "ok")
              /\ asked[c] # Nobody
              /\ asked[c].cmd = "destroy"
              /\ asked[c].id \in exists
              /\ exists' = exists \ {asked[c].id}

\* A program is only ever started in a vsys that exists; whether it starts
\* is up to the program.
Run(c) == /\ \E result \in {"ok", "failed"} : Decide(c, result)
          /\ asked[c] # Nobody
          /\ asked[c].cmd = "run"
          /\ asked[c].id \in exists
          /\ UNCHANGED exists

\* Why the service may turn m down and leave everything as it was.
Rejectable(m) ==
  \/ m = Nobody
  \/ m.cmd \in MayReject
  \/ m.cmd = "link_move"
  \/ m.cmd = "create" /\ m.id \in exists
  \/ m.cmd \in {"destroy", "run"} /\ m.id \notin exists

Reject(c) == /\ Decide(c, "failed")
             /\ Rejectable(asked[c])
             /\ UNCHANGED exists

\* The service stops: every undecided command fails, and one command may
\* have been cut short after a vsys came up.
Stop == /\ open
        /\ open' = FALSE
        /\ outcome' = [c \in Clients |-> IF outcome[c] = "pending"
                                         THEN "failed" ELSE outcome[c]]
        /\ \/ UNCHANGED exists
           \/ \E i \in Ids : exists' = exists \cup {i}
        /\ UNCHANGED asked

\* A command issued after the service has stopped fails at once.
AskTooLate(c) == /\ ~open
                 /\ outcome' = [outcome EXCEPT ![c] = "failed"]
                 /\ UNCHANGED <<exists, asked, open>>

SNext == \/ \E c \in Clients : \/ Ask(c) \/ Withdraw(c) \/ AskTooLate(c)
                               \/ Create(c) \/ Destroy(c) \/ Run(c) \/ Reject(c)
         \/ Stop

SSpec == SInit /\ [][SNext]_svars
=============================================================================
