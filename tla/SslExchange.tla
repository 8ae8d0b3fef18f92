---------------------------- MODULE SslExchange -----------------------------
(***************************************************************************)
(* CH04/06ssl: the server serves one client after the other: handshake, a  *)
(* message to the client, a message from it.  A handshake that fails with  *)
(* -1 ends the server, and because its len is a socklen_t, unsigned, an    *)
(* SSL_write or SSL_read that fails with -1 is reported as a success.      *)
(***************************************************************************)
EXTENDS FiniteSets

CONSTANTS Clients,
          None,     \* nobody
          MayFail   \* subset of {"setup", "accept", "handshake"}

VARIABLES
  srv,    \* "setup", "accept", "handshake", "write", "read", or "end"
  peer,   \* the client served
  pc,     \* pc[c]: "none", "connect", "read", "write", "end", or "killed"
  queue,  \* clients nobody has accepted
  toCli,  \* clients that have the server's message to read
  toSrv,  \* clients that wrote theirs
  cut,    \* clients whose connection the server's side has ended
  shook,  \* shook[c]: the handshake: "no", "ok", "shut" (0) or "failed" (-1)
  report  \* report[c]: what the server printed about c's message

server == <<srv, peer, queue>>
vars == <<server, pc, toCli, toSrv, cut, shook, report>>

Init == /\ srv = "setup" /\ peer = None
        /\ pc = [c \in Clients |-> "none"]
        /\ queue = {} /\ toCli = {} /\ toSrv = {} /\ cut = {}
        /\ shook = [c \in Clients |-> "no"]
        /\ report = [c \in Clients |-> "none"]

Goto(c, next) == pc' = [pc EXCEPT ![c] = next]
Gone(c) == pc[c] \in {"end", "killed"}

-----------------------------------------------------------------------------
(* A client.                                                                *)

Connect(c) == /\ pc[c] = "none" /\ srv \notin {"setup", "end"}
              /\ Goto(c, "connect") /\ queue' = queue \cup {c}
              /\ UNCHANGED <<srv, peer, toCli, toSrv, cut, shook, report>>

\* A failed SSL_connect is printed, and SSL_read tried all the same.
Connected(c) == /\ pc[c] = "connect"
                /\ shook[c] # "no" \/ c \in cut
                /\ Goto(c, "read")
                /\ UNCHANGED <<server, toCli, toSrv, cut, shook, report>>

\* The server's message, or the end of the connection.
Read(c) == /\ pc[c] = "read"
           /\ \/ c \in toCli /\ toCli' = toCli \ {c} /\ Goto(c, "write")
              \/ (c \in cut \/ shook[c] # "ok") /\ c \notin toCli
                 /\ UNCHANGED toCli /\ Goto(c, "end")
           /\ UNCHANGED <<server, toSrv, cut, shook, report>>

\* To a server that is gone: a write into the void, an error, or SIGPIPE.
Write(c) == /\ pc[c] = "write"
            /\ IF c \in cut THEN /\ UNCHANGED toSrv
                                 /\ \E e \in {"end", "killed"} : Goto(c, e)
                            ELSE toSrv' = toSrv \cup {c} /\ Goto(c, "end")
            /\ UNCHANGED <<server, toCli, cut, shook, report>>

Kill(c) == /\ pc[c] \in {"connect", "read", "write"} /\ Goto(c, "killed")
           /\ UNCHANGED <<server, toCli, toSrv, cut, shook, report>>

-----------------------------------------------------------------------------
(* The server.                                                              *)

\* exit(), break and SIGPIPE: every connection ends.
Ends == srv' = "end" /\ cut' = Clients /\ UNCHANGED <<peer, queue>>

Setup == /\ srv = "setup"
         /\ \/ srv' = "accept" /\ UNCHANGED <<peer, queue, cut>>
            \/ "setup" \in MayFail /\ Ends
         /\ UNCHANGED <<pc, toCli, toSrv, shook, report>>

Accept(c) == /\ srv = "accept" /\ c \in queue
             /\ \/ /\ peer' = c /\ srv' = "handshake" /\ queue' = queue \ {c}
                   /\ UNCHANGED cut
                \/ "accept" \in MayFail /\ Ends
             /\ UNCHANGED <<pc, toCli, toSrv, shook, report>>

\* What SSL_accept returns: 1, 0 or -1.  It waits for the client.
Result(c) == IF Gone(c) THEN {"shut", "failed"}
             ELSE IF "handshake" \in MayFail THEN {"ok", "shut", "failed"} ELSE {"ok"}

\* After "shut" the server goes on as if there were a connection.
Handshake ==
  /\ srv = "handshake"
  /\ \E r \in Result(peer) :
       /\ shook' = [shook EXCEPT ![peer] = r]
       /\ IF r = "failed" THEN Ends
                          ELSE srv' = "write" /\ UNCHANGED <<peer, queue, cut>>
  /\ UNCHANGED <<pc, toCli, toSrv, report>>

\* Slip: the server has nothing to say.
SlipSaid == toCli
Said == IF shook[peer] = "ok" /\ ~Gone(peer) THEN toCli \cup {peer} ELSE toCli

\* To a client that is gone the first write may do, fail or raise SIGPIPE; -1
\* is no failure for the server, 0 makes it skip the read.
SrvWrite ==
  /\ srv = "write"
  /\ toCli' = Said
  /\ \/ srv' = "read" /\ UNCHANGED <<peer, queue, cut>>
     \/ shook[peer] = "shut" /\ srv' = "accept" /\ cut' = cut \cup {peer} /\ UNCHANGED <<peer, queue>>
     \/ Gone(peer) /\ Ends
  /\ UNCHANGED <<pc, toSrv, shook, report>>

\* Slip: nothing to read counts as the end of the connection.
SlipDone == TRUE

\* SSL_read returns: the message is there, or no message can come.
Done == peer \in toSrv \/ Gone(peer) \/ shook[peer] # "ok"

\* Without a message SSL_read returns 0, a failure, or -1, which is no failure.
\* SSL_shutdown to a client that is gone without a message may raise SIGPIPE.
SrvRead ==
  /\ srv = "read" /\ Done
  /\ \E r \in IF peer \in toSrv THEN {"received"} ELSE {"received", "failed"} :
       report' = [report EXCEPT ![peer] = r]
  /\ \/ srv' = "accept" /\ cut' = cut \cup {peer} /\ UNCHANGED <<peer, queue>>
     \/ Gone(peer) /\ peer \notin toSrv /\ Ends
  /\ UNCHANGED <<pc, toCli, toSrv, shook>>

-----------------------------------------------------------------------------
Client(c) == Connected(c) \/ Read(c) \/ Write(c)
Server == Setup \/ (\E c \in Clients : Accept(c)) \/ Handshake \/ SrvWrite \/ SrvRead
Next == Server \/ \E c \in Clients : Connect(c) \/ Client(c) \/ Kill(c)

\* Processes run; nobody has to connect or to be killed.
Spec == /\ Init /\ [][Next]_vars
        /\ WF_vars(Server) /\ \A c \in Clients : WF_vars(Client(c))

-----------------------------------------------------------------------------
\* The server only says that it received a message when it did, unless the
\* handshake was shut down or the client killed.
ReportedIsReceived ==
  \A c \in Clients :
    report[c] = "received" => c \in toSrv \/ shook[c] = "shut" \/ pc[c] = "killed"

\* Whoever connects gets the server's message and answers it, one client after
\* the other, or was killed itself, or its connection or the server failed.
EveryoneServed ==
  \A c \in Clients :
    pc[c] = "connect" ~> \/ pc[c] = "end" /\ c \in toSrv
                         \/ pc[c] = "killed"
                         \/ pc[c] = "end" /\ (shook[c] = "shut" \/ srv = "end")
=============================================================================
