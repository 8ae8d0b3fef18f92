------------------------------ MODULE TcpEcho -------------------------------
(***************************************************************************)
(* CH04/01tcpserver.c and 01tcpclient.c: the server answers each recv() of *)
(* its first client and ends with it; clients wait for an answer to each   *)
(* message.  Both keep the result of recv() in an unsigned socklen_t, so   *)
(* an error passes for a message; what comes of it depends on TCP.         *)
(***************************************************************************)
EXTENDS Naturals, FiniteSets

CONSTANTS Clients,
          None,      \* nobody
          Messages,  \* bound: messages on a client's command line
          Pieces     \* bound: the pieces in which one message arrives

VARIABLES
  srv,      \* "start", "accept", "recv", "send"; "end", "killed", "stopped"
  peer,     \* the client the server serves
  queue,    \* clients whose connection nobody has accepted
  pc,       \* pc[c]: "none", "send", "recv"; "end", "killed"
  total,    \* total[c]: messages on the command line of c
  sent,     \* sent[c]: those it has sent
  toSrv,    \* toSrv[c]: pieces sent and not received
  toCli,    \* toCli[c]: answers sent and not received
  cEnd,     \* cEnd[c]: the client's end of the connection, see Ends
  sEnd,     \* sEnd[c]: the server's end
  received, \* history: pieces the server received from its peer
  long,     \* history: some message came in more than one piece
  died      \* history: a client was killed by its user

server == <<srv, peer, queue, received>>
wire == <<toSrv, toCli, cEnd, sEnd>>
vars == <<server, pc, total, sent, wire, long, died>>

\* What the other side did: closed; reset the connection, an error that the next
\* call reports once ("taken" afterwards); or closed and then got a message,
\* which it answered by a reset.
Ends == {"open", "closed", "reset", "taken", "closed_reset"}

Init == /\ srv = "start" /\ peer = None /\ queue = {} /\ received = 0
        /\ pc = [c \in Clients |-> "none"]
        /\ total = [c \in Clients |-> 0] /\ sent = [c \in Clients |-> 0]
        /\ toSrv = [c \in Clients |-> 0] /\ toCli = [c \in Clients |-> 0]
        /\ cEnd = [c \in Clients |-> "open"] /\ sEnd = [c \in Clients |-> "open"]
        /\ long = FALSE /\ died = FALSE

Goto(c, next) == pc' = [pc EXCEPT ![c] = next]
Over == {"end", "killed", "stopped"}

\* An end after a send(): SIGPIPE unless the error is reported instead.
Deadly(end) == end \in {"taken", "closed_reset"}
AfterSend(end) == CASE end = "closed" -> "closed_reset"
                    [] end = "reset" -> "taken"
                    [] OTHER -> end

-----------------------------------------------------------------------------
(* A client.                                                                *)

\* listen(svrsock, 1) lets two wait.
Connect(c) ==
  /\ pc[c] = "none" /\ srv \notin {"start"} \cup Over
  /\ Cardinality(queue) <= 1
  /\ \E n \in 1..Messages : total' = [total EXCEPT ![c] = n]
  /\ Goto(c, "send") /\ queue' = queue \cup {c}
  /\ UNCHANGED <<srv, peer, received, sent, wire, long, died>>

\* Slip: the client does not wait for an answer before it sends more.
SlipWait == "send"
Wait == "recv"

\* A message that arrives in n pieces.
Send(c, n) ==
  /\ pc[c] = "send" /\ sent[c] < total[c]
  /\ sent' = [sent EXCEPT ![c] = @ + 1]
  /\ Goto(c, IF Deadly(cEnd[c]) THEN "killed" ELSE Wait)
  /\ IF cEnd[c] = "open"
       THEN toSrv' = [toSrv EXCEPT ![c] = @ + n] /\ long' = (long \/ n > 1)
       ELSE UNCHANGED <<toSrv, long>>
  /\ cEnd' = [cEnd EXCEPT ![c] = AfterSend(@)]
  /\ UNCHANGED <<server, total, toCli, sEnd, died>>

\* What has arrived, one answer or several; the error of a reset, taken for an
\* answer; or 0, which ends the loop.
Recv(c) ==
  /\ pc[c] = "recv"
  /\ \/ /\ \E n \in 1..toCli[c] : toCli' = [toCli EXCEPT ![c] = @ - n]
        /\ UNCHANGED <<total, cEnd>>
     \/ /\ toCli[c] = 0 /\ cEnd[c] = "reset"
        /\ cEnd' = [cEnd EXCEPT ![c] = "taken"]
        /\ UNCHANGED <<total, toCli>>
     \/ /\ toCli[c] = 0 /\ cEnd[c] \notin {"open", "reset"}
        /\ total' = [total EXCEPT ![c] = sent[c]]
        /\ UNCHANGED <<toCli, cEnd>>
  /\ Goto(c, "send")
  /\ UNCHANGED <<server, sent, toSrv, sEnd, long, died>>

\* close(), by the program or by its end: a connection with unread answers is
\* reset.
Leave(c, next) ==
  /\ Goto(c, next)
  /\ sEnd' = [sEnd EXCEPT ![c] = IF toCli[c] > 0 THEN "reset" ELSE "closed"]
  /\ UNCHANGED <<server, total, sent, toSrv, toCli, cEnd, long>>
Close(c) == pc[c] = "send" /\ sent[c] = total[c] /\ Leave(c, "end") /\ UNCHANGED died
Kill(c) == pc[c] \in {"send", "recv"} /\ Leave(c, "killed") /\ died' = TRUE

-----------------------------------------------------------------------------
(* The server.                                                              *)

Listen == /\ srv = "start" /\ srv' = "accept"
          /\ UNCHANGED <<peer, queue, received, pc, total, sent, wire, long, died>>

Accept(c) == /\ srv = "accept" /\ c \in queue
             /\ peer' = c /\ queue' = queue \ {c} /\ srv' = "recv"
             /\ UNCHANGED <<received, pc, total, sent, wire, long, died>>

\* The process ends: whoever waits is reset, its peer too if pieces are unread.
HangUp ==
  cEnd' = [c \in Clients |->
    IF cEnd[c] # "open" \/ pc[c] = "none" THEN cEnd[c]
    ELSE IF c \in queue \/ toSrv[c] > 0 THEN "reset" ELSE "closed"]

\* Slip: a piece is not answered.
SlipTurn == "recv"
Turn == "send"

\* What has arrived, one piece or several; the error of a reset, taken for a
\* piece; or 0, which ends the server.
SrvRecv ==
  /\ srv = "recv"
  /\ \/ /\ \E n \in 1..toSrv[peer] : /\ toSrv' = [toSrv EXCEPT ![peer] = @ - n]
                                     /\ received' = received + n
        /\ srv' = Turn
        /\ UNCHANGED <<cEnd, sEnd>>
     \/ /\ toSrv[peer] = 0 /\ sEnd[peer] = "reset"
        /\ sEnd' = [sEnd EXCEPT ![peer] = "taken"] /\ srv' = Turn
        /\ UNCHANGED <<toSrv, cEnd, received>>
     \/ /\ toSrv[peer] = 0 /\ sEnd[peer] \notin {"open", "reset"}
        /\ srv' = "end" /\ HangUp
        /\ UNCHANGED <<toSrv, sEnd, received>>
  /\ UNCHANGED <<peer, queue, pc, total, sent, toCli, long, died>>

SrvSend ==
  /\ srv = "send"
  /\ IF Deadly(sEnd[peer]) THEN srv' = "killed" /\ HangUp
                           ELSE srv' = "recv" /\ UNCHANGED cEnd
  /\ toCli' = [toCli EXCEPT ![peer] = IF sEnd[peer] = "open" THEN @ + 1 ELSE @]
  /\ sEnd' = [sEnd EXCEPT ![peer] = AfterSend(@)]
  /\ UNCHANGED <<peer, queue, received, pc, total, sent, toSrv, long, died>>

\* The user ends the server.
Stop == /\ srv \notin Over /\ srv' = "stopped" /\ HangUp
        /\ UNCHANGED <<peer, queue, received, pc, total, sent, toSrv, toCli, sEnd, long, died>>

-----------------------------------------------------------------------------
Client(c) == (\E n \in 1..Pieces : Send(c, n)) \/ Recv(c) \/ Close(c)
Server == (\E c \in Clients : Accept(c)) \/ SrvRecv \/ SrvSend
Next == \/ Server \/ Listen \/ Stop
        \/ \E c \in Clients : Connect(c) \/ Client(c) \/ Kill(c)

\* Processes run; nobody has to connect, to kill or to be killed.
Spec == /\ Init /\ [][Next]_vars
        /\ WF_vars(Server) /\ \A c \in Clients : WF_vars(Client(c))

-----------------------------------------------------------------------------
\* An unsigned result of recv() does no harm as long as every message comes in
\* one piece and nobody kills a client or the server: the server ends because
\* its client did, and that client, with an answer to each of its messages,
\* only ends when the server has received them all.
OrderlyIfWhole ==
  ~long => /\ srv = "killed" => died
           /\ \A c \in Clients :
                pc[c] = "end" /\ c = peer /\ srv # "stopped" => received = total[c]

\* Nobody who connected waits for ever, also not those the server never accepts.
EveryClientEnds ==
  \A c \in Clients : pc[c] \in {"send", "recv"} ~> pc[c] \in {"end", "killed"}
=============================================================================
