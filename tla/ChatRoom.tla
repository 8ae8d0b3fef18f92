------------------------------ MODULE ChatRoom ------------------------------
(***************************************************************************)
(* The chat room (chatroom/myserver.c, myclient.c).  The server forks two  *)
(* processes for every user: a receiver, which stores what the user typed  *)
(* in a shared segment, and a sender, which looks at the segment every     *)
(* second and forwards it when it differs from what it forwarded last.     *)
(* There is no lock.  Each library call on the segment is one step here.   *)
(***************************************************************************)
EXTENDS Naturals, SequencesExt

CONSTANTS Users,
          MaxMsgs,   \* bound on the lines each user types
          Backlog,   \* BACKLOG, the second argument of listen()
          MayLeave,  \* users that may close their client
          Faults,    \* calls that may fail: "accept", "fork", "attach" (shmat)
          Apart      \* TRUE: the turns of receivers and senders, a second of
                     \* sleep apart, never overlap

ASSUME ConstantsAssumption ==
  /\ MaxMsgs \in Nat /\ Backlog \in Nat
  /\ MayLeave \subseteq Users /\ Faults \subseteq {"accept", "fork", "attach"}
  /\ Apart \in BOOLEAN

VARIABLES
  server,  \* the accepting process: "up" or "down"
  queue,   \* connections waiting to be accepted
  conn,    \* conn[u]: "out", "queued", "served", "unserved" or "left"
  typed,   \* typed[u]: how many lines u has sent
  stream,  \* stream[u]: lines on their way to u's receiver
  rpc,     \* rpc[u]: where u's receiver stands
  buf,     \* buf[u]: what it received last
  spc,     \* spc[u]: where u's sender stands
  temp,    \* temp[u]: what u's sender read last
  seg,     \* the segment: a text, and how many times the time was appended
  log,     \* log[u]: the texts u's sender has sent
  stored   \* the texts receivers have stored, in order

receiver == <<rpc, buf>>
sender == <<spc, temp>>
network == <<server, queue, conn, typed, stream>>
vars == <<network, receiver, sender, seg, log, stored>>

Empty == [text |-> << >>, stamps |-> 0]
Line(u, k) == <<u, k>>

\* temp is memory fresh from the kernel: the empty string.
Init == /\ server = "up" /\ queue = << >>
        /\ conn = [u \in Users |-> "out"]
        /\ typed = [u \in Users |-> 0]
        /\ stream = [u \in Users |-> << >>]
        /\ rpc = [u \in Users |-> "off"] /\ buf = [u \in Users |-> << >>]
        /\ spc = [u \in Users |-> "off"] /\ temp = [u \in Users |-> Empty]
        /\ seg = Empty
        /\ log = [u \in Users |-> << >>] /\ stored = << >>

-----------------------------------------------------------------------------
(* Users.                                                                  *)

\* The processes the server forks inherit its listening socket and never close
\* it: connections complete and wait as long as one of them lives.  With the
\* last one, the waiting connections are reset.
Listening == \/ server = "up"
             \/ \E u \in Users : rpc[u] # "off" \/ spc[u] \notin {"off", "cut"}
SocketLeft == IF Listening' THEN UNCHANGED <<queue, conn>>
              ELSE /\ queue' = << >>
                   /\ conn' = [u \in Users |-> IF conn[u] = "queued" THEN "out" ELSE conn[u]]

Connect(u) == /\ Listening /\ conn[u] = "out" /\ Len(queue) <= Backlog
              /\ conn' = [conn EXCEPT ![u] = "queued"]
              /\ queue' = Append(queue, u)
              /\ UNCHANGED <<server, typed, stream, receiver, sender, seg, log, stored>>

Type(u) == /\ conn[u] \in {"served", "unserved"} /\ typed[u] < MaxMsgs
           /\ typed' = [typed EXCEPT ![u] = @ + 1]
           /\ stream' = [stream EXCEPT ![u] = Append(@, Line(u, typed[u] + 1))]
           /\ UNCHANGED <<server, queue, conn, receiver, sender, seg, log, stored>>

Leave(u) == /\ u \in MayLeave /\ conn[u] \in {"served", "unserved"}
            /\ conn' = [conn EXCEPT ![u] = "left"]
            /\ UNCHANGED <<server, queue, typed, stream, receiver, sender, seg,
                           log, stored>>

-----------------------------------------------------------------------------
(* main: accept, fork the receiver, which forks the sender.                *)

Accept ==
  /\ server = "up" /\ queue # << >>
  /\ queue' = Tail(queue)
  /\ conn' = [conn EXCEPT ![Head(queue)] = "served"]
  /\ rpc' = [rpc EXCEPT ![Head(queue)] = "recv"]
  /\ spc' = [spc EXCEPT ![Head(queue)] = "sleep"]
  /\ UNCHANGED <<server, typed, stream, buf, temp, seg, log, stored>>

\* The first fork fails, and is taken for the parent's return from it; or the
\* second one fails, and the only process reports that for ever.
AcceptUnserved ==
  /\ "fork" \in Faults /\ server = "up" /\ queue # << >>
  /\ queue' = Tail(queue)
  /\ conn' = [conn EXCEPT ![Head(queue)] = "unserved"]
  /\ \E pc \in {"off", "stuck"} : rpc' = [rpc EXCEPT ![Head(queue)] = pc]
  /\ UNCHANGED <<server, typed, stream, buf, sender, seg, log, stored>>

\* The address length given to accept is not initialised.  The server exits;
\* the processes it forked go on, and nobody accepts what waits.
AcceptFails ==
  /\ "accept" \in Faults /\ server = "up" /\ queue # << >>
  /\ server' = "down"
  /\ UNCHANGED <<typed, stream, receiver, sender, seg, log, stored>>
  /\ SocketLeft

-----------------------------------------------------------------------------
(* The receiver of u.                                                      *)

\* No other process is in the middle of its turn.
Quiet == Apart => \A v \in Users : /\ rpc[v] \notin {"clear", "store"}
                                   /\ spc[v] \in {"off", "sleep", "cut"}

\* recv returns what has arrived: one line, or several run together.
Receive(u) ==
  /\ rpc[u] = "recv" /\ stream[u] # << >> /\ Quiet
  /\ \E n \in 1..Len(stream[u]) :
       /\ buf' = [buf EXCEPT ![u] = SubSeq(stream[u], 1, n)]
       /\ stream' = [stream EXCEPT ![u] = SubSeq(@, n + 1, Len(@))]
  /\ rpc' = [rpc EXCEPT ![u] = "clear"]
  /\ UNCHANGED <<server, queue, conn, typed, sender, seg, log, stored>>

\* The user is gone: the receiver kills itself.
ReceiveEof(u) ==
  /\ rpc[u] = "recv" /\ stream[u] = << >> /\ conn[u] = "left"
  /\ rpc' = [rpc EXCEPT ![u] = "off"]
  /\ UNCHANGED <<server, typed, stream, buf, sender, seg, log, stored>>
  /\ SocketLeft

\* The segment is attached anew in every turn and never detached.  When that
\* fails, nothing looks at it: memset crashes, and the lines in buf are lost.
ClearFails(u) ==
  /\ "attach" \in Faults /\ rpc[u] = "clear"
  /\ rpc' = [rpc EXCEPT ![u] = "off"]
  /\ UNCHANGED <<server, typed, stream, buf, sender, seg, log, stored>>
  /\ SocketLeft

Clear(u) == /\ rpc[u] = "clear"
            /\ seg' = Empty
            /\ rpc' = [rpc EXCEPT ![u] = "store"]
            /\ UNCHANGED <<network, buf, sender, log, stored>>

Store(u) == /\ rpc[u] = "store"
            /\ seg' = [Empty EXCEPT !.text = buf[u]]
            /\ stored' = Append(stored, buf[u])
            /\ rpc' = [rpc EXCEPT ![u] = "recv"]
            /\ UNCHANGED <<network, buf, sender, log>>

-----------------------------------------------------------------------------
(* The sender of u.                                                        *)

Goto(u, next) == spc' = [spc EXCEPT ![u] = next]

\* Slip: the lengths are compared, not the texts.
SlipLook(u) == /\ spc[u] = "sleep" /\ Quiet
               /\ Len(temp[u].text) # Len(seg.text) /\ Goto(u, "copy")
               /\ UNCHANGED <<network, receiver, temp, seg, log, stored>>

\* strcmp finds a difference.
Look(u) == /\ spc[u] = "sleep" /\ Quiet
           /\ temp[u] # seg /\ Goto(u, "copy")
           /\ UNCHANGED <<network, receiver, temp, seg, log, stored>>

\* The same failure in the sender, after any number of looks: strcmp crashes.
LookFails(u) == /\ "attach" \in Faults /\ spc[u] = "sleep"
                /\ Goto(u, "off")
                /\ UNCHANGED <<server, typed, stream, receiver, temp, seg, log, stored>>
                /\ SocketLeft

Copy(u) == /\ spc[u] = "copy"
           /\ temp' = [temp EXCEPT ![u] = seg] /\ Goto(u, "stamp")
           /\ UNCHANGED <<network, receiver, seg, log, stored>>

\* Slip: the text is copied after the time was appended.
SlipStamp(u) == /\ spc[u] = "stamp"
                /\ seg' = [seg EXCEPT !.stamps = @ + 1]
                /\ temp' = [temp EXCEPT ![u] = seg'] /\ Goto(u, "send")
                /\ UNCHANGED <<network, receiver, log, stored>>

\* strcat appends the time to the segment itself.
Stamp(u) == /\ spc[u] = "stamp"
            /\ seg' = [seg EXCEPT !.stamps = @ + 1] /\ Goto(u, "send")
            /\ UNCHANGED <<network, receiver, temp, log, stored>>

Send(u) == /\ spc[u] = "send"
           /\ log' = [log EXCEPT ![u] = Append(@, seg.text)] /\ Goto(u, "clear")
           /\ UNCHANGED <<network, receiver, temp, seg, stored>>

\* A user that left: after the first lost send SIGPIPE ends the sender, with
\* the time still in the segment.
SendFails(u) == /\ spc[u] = "send" /\ conn[u] = "left"
                /\ Goto(u, "cut")
                /\ UNCHANGED <<server, typed, stream, receiver, temp, seg, log, stored>>
                /\ SocketLeft

Wipe(u) == /\ spc[u] = "clear"
           /\ seg' = Empty /\ Goto(u, "restore")
           /\ UNCHANGED <<network, receiver, temp, log, stored>>

Restore(u) == /\ spc[u] = "restore"
              /\ seg' = temp[u] /\ Goto(u, "sleep")
              /\ UNCHANGED <<network, receiver, temp, log, stored>>

-----------------------------------------------------------------------------
UserNext(u) == Connect(u) \/ Type(u) \/ Leave(u)
Main == Accept \/ AcceptUnserved \/ AcceptFails
Receiver(u) == \/ Receive(u) \/ ReceiveEof(u) \/ Clear(u) \/ ClearFails(u)
               \/ Store(u)
Sender(u) == \/ Look(u) \/ LookFails(u) \/ Copy(u) \/ Stamp(u) \/ Send(u) \/ SendFails(u)
             \/ Wipe(u) \/ Restore(u)

Next == Main \/ \E u \in Users : UserNext(u) \/ Receiver(u) \/ Sender(u)

Spec == Init /\ [][Next]_vars

\* Forked processes run.  Turns that are kept apart are short and senders
\* sleep a second between theirs, so a quiet moment comes again and again and
\* everyone who waits for one gets it.  A sleeping sender may crash when it
\* attaches the segment, but it need not.
FairSpec ==
  Spec /\ \A u \in Users : /\ SF_vars(Receiver(u))
                           /\ SF_vars(Sender(u) /\ ~LookFails(u))

-----------------------------------------------------------------------------
\* Every text a sender forwards was stored, and texts reach each user in the
\* order they were stored and at most once: what comparing with temp is for.
\* It takes turns that do not overlap, and no sender that SIGPIPE ended with
\* the time still in the segment.
Position(text) == CHOOSE n \in DOMAIN stored : stored[n] = text
Interrupted == \E u \in Users : spc[u] = "cut"
ForwardedInOrder ==
  ~Interrupted =>
    \A u \in Users :
      /\ \A k \in DOMAIN log[u] : log[u][k] \in ToSet(stored)
      /\ \A k \in 2..Len(log[u]) : Position(log[u][k - 1]) < Position(log[u][k])

\* As long as turns are kept apart, the text stored last reaches every user who
\* stays and whose sender has not crashed on a failed attach, and nothing else
\* comes after it, whichever other senders and receivers crashed or were ended:
\* a slow sender may skip texts but does not miss the last one.  With turns that
\* overlap it may: a sender writes back temp over a text stored since its copy.
LastReachesAll ==
  Apart =>
    \A u \in Users :
      <>[](stored # << >> /\ conn[u] = "served" /\ spc[u] # "off"
             => log[u] # << >> /\ Last(log[u]) = Last(stored))

\* "temp stores what was read last; first check whether this message has been
\* read": no text is forwarded twice to one user.
NoneTwice ==
  \A u \in Users : \A j, k \in DOMAIN log[u] :
    log[u][j] = log[u][k] /\ log[u][j] # << >> => j = k
=============================================================================
