--------------------------- MODULE ChatRoomProofs ---------------------------
(***************************************************************************)
(* Proofs about ChatRoom, for any users, lines, faults and bounds: as long *)
(* as the turns of receivers and senders stay apart, every text reaches    *)
(* each user at most once and in the order the texts were stored.          *)
(*                                                                         *)
(* The invariant has four parts.  HomeInv: who has no process yet.         *)
(* TurnInv: at most one process is in the middle of its turn.  TextInv: no *)
(* text is stored twice, since a receiver takes lines that no text has yet.*)
(* SegInv: until a sender is ended with the time still in the segment, the *)
(* segment shows the last text between turns, and temp the last one sent.  *)
(***************************************************************************)
EXTENDS ChatRoom, TLAPS

Lines == Users \X Nat
Texts == Seq(Lines)
Segments == [text : Texts, stamps : Nat]

Types ==
  /\ server \in {"up", "down"} /\ queue \in Seq(Users)
  /\ conn \in [Users -> {"out", "queued", "served", "unserved", "left"}]
  /\ typed \in [Users -> Nat] /\ stream \in [Users -> Texts]
  /\ rpc \in [Users -> {"off", "recv", "clear", "store", "stuck"}]
  /\ buf \in [Users -> Texts]
  /\ spc \in [Users -> {"off", "cut", "sleep", "copy", "stamp", "send", "clear", "restore"}]
  /\ temp \in [Users -> Segments] /\ seg \in Segments
  /\ log \in [Users -> Seq(Texts)] /\ stored \in Seq(Texts)

\* A connection waits once, and its user has no processes yet.
HomeInv ==
  /\ \A k \in DOMAIN queue : conn[queue[k]] = "queued"
  /\ \A j, k \in DOMAIN queue : queue[j] = queue[k] => j = k
  /\ \A u \in Users : conn[u] \in {"out", "queued"} => rpc[u] = "off" /\ spc[u] = "off"

\* Who is in the middle of a turn.
Storing(u) == rpc[u] \in {"clear", "store"}
Forwarding(u) == spc[u] \notin {"off", "cut", "sleep"}
TurnInv ==
  /\ \A u, v \in Users : Storing(u) => ~Forwarding(v)
  /\ \A u, v \in Users : Storing(u) /\ Storing(v) => u = v
  /\ \A u, v \in Users : Forwarding(u) /\ Forwarding(v) => u = v

\* The lines that u's receiver has taken are the first ones u typed.
Taken(u) == typed[u] - Len(stream[u])
Begins(t) == t # << >> /\ \E v \in Users : \E k \in 1..Taken(v) : t[1] = Line(v, k)
TextInv ==
  /\ \A u \in Users : /\ Len(stream[u]) <= typed[u]
                      /\ \A k \in DOMAIN stream[u] : stream[u][k] = Line(u, Taken(u) + k)
  /\ \A n \in DOMAIN stored : Begins(stored[n])
  /\ \A u \in Users : Storing(u) => Begins(buf[u]) /\ buf[u] \notin ToSet(stored)
  /\ \A m, n \in DOMAIN stored : stored[m] = stored[n] => m = n

\* The segment with the text stored last, and with the text sent last to u.
Plain(t) == [text |-> t, stamps |-> 0]
Current == IF stored = << >> THEN Empty ELSE Plain(Last(stored))
Shown(u) == IF log[u] = << >> THEN Empty ELSE Plain(Last(log[u]))

SenderInv(u) ==
  /\ spc[u] \in {"off", "sleep", "copy"} => temp[u] = Shown(u)
  /\ spc[u] \in {"copy", "stamp", "send"} => Shown(u) # Current
  /\ spc[u] \in {"copy", "stamp"} => seg = Current
  /\ spc[u] = "send" => seg.text = Current.text
  /\ spc[u] \in {"stamp", "send", "clear", "restore"} => temp[u] = Current
  /\ spc[u] \in {"clear", "restore"} => Shown(u) = Current

\* Each text in a log is a stored one, and stored after those before it.
LogInv(u) ==
  /\ \A k \in DOMAIN log[u] : log[u][k] \in ToSet(stored)
  /\ \A j, k \in DOMAIN log[u] : j < k =>
       \E m, n \in DOMAIN stored :
         m < n /\ stored[m] = log[u][j] /\ stored[n] = log[u][k]

ShowInv ==
  /\ (\A u \in Users : rpc[u] # "store" /\ ~Forwarding(u)) => seg = Current
  /\ \A u \in Users : SenderInv(u) /\ LogInv(u)
SegInv == ~Interrupted => ShowInv

ChatInv == Types /\ HomeInv /\ TurnInv /\ TextInv /\ SegInv

-----------------------------------------------------------------------------
(* Types.                                                                  *)

LEMMA QueueLemma ==
  ASSUME NEW S, NEW s \in Seq(S), s # << >>
  PROVE  Head(s) \in S /\ Tail(s) \in Seq(S)
  OBVIOUS

LEMMA EmptyLemma ==
  ASSUME NEW S, NEW s \in Seq(S), DOMAIN s = {}
  PROVE  s = << >>
<1>1. CASE Len(s) = 0
  BY <1>1
<1>2. CASE Len(s) # 0
  <2>1. 1 \in DOMAIN s
    BY <1>2
  <2> QED  BY <2>1
<1> QED  BY <1>1, <1>2

LEMMA AppendLemma ==
  ASSUME NEW S, NEW s \in Seq(S), NEW e \in S
  PROVE  /\ Append(s, e) \in Seq(S) /\ Append(s, e) # << >>
         /\ Len(Append(s, e)) = Len(s) + 1 /\ Last(Append(s, e)) = e
         /\ Append(s, e)[Len(s) + 1] = e
         /\ \A k \in 1..Len(s) : Append(s, e)[k] = s[k]
  BY DEF Last

LEMMA CutLemma ==
  ASSUME NEW S, NEW s \in Seq(S), NEW n \in 1..Len(s)
  PROVE  /\ SubSeq(s, 1, n) \in Seq(S) /\ SubSeq(s, n + 1, Len(s)) \in Seq(S)
         /\ Len(SubSeq(s, n + 1, Len(s))) = Len(s) - n
         /\ SubSeq(s, 1, n) # << >> /\ SubSeq(s, 1, n)[1] = s[1]
         /\ \A k \in 1..(Len(s) - n) : SubSeq(s, n + 1, Len(s))[k] = s[n + k]
  OBVIOUS

LEMMA TextType == /\ Empty \in Segments
                  /\ \A t \in Texts : [Empty EXCEPT !.text = t] = Plain(t) /\ Plain(t) \in Segments
                  /\ \A g \in Segments : [g EXCEPT !.stamps = @ + 1] \in Segments
                  /\ \A g \in Segments : g.text \in Texts
  BY DEF Empty, Plain, Texts, Segments

\* What may become of the listening socket when a process ends.
SocketKept == UNCHANGED <<queue, conn>>
SocketGone == /\ queue' = << >>
              /\ conn' = [u \in Users |-> IF conn[u] = "queued" THEN "out" ELSE conn[u]]

LEMMA SocketMoves ==
  ASSUME Types, SocketLeft
  PROVE  /\ (SocketKept \/ SocketGone)
         /\ queue' \in Seq(Users)
         /\ conn' \in [Users -> {"out", "queued", "served", "unserved", "left"}]
<1>1. CASE Listening'
  BY <1>1 DEF SocketLeft, SocketKept, Types
<1>2. CASE ~Listening'
  BY <1>2 DEF SocketLeft, SocketGone, Types
<1> QED  BY <1>1, <1>2

LEMMA TypesInit == Init => Types
<1>1. Empty \in Segments
  BY TextType
<1> QED  BY <1>1 DEF Init, Types, Texts

LEMMA TypesStep == ASSUME Types, [Next]_vars PROVE Types'
<1> USE DEF Types, network, receiver, sender, Goto
<1>1. ASSUME NEW u \in Users, Connect(u)  PROVE Types'
  BY <1>1, AppendLemma DEF Connect
<1>2. ASSUME NEW u \in Users, Type(u)  PROVE Types'
  <2>1. Line(u, typed[u] + 1) \in Lines
    BY DEF Line, Lines
  <2>2. Append(stream[u], Line(u, typed[u] + 1)) \in Texts
    BY <2>1, AppendLemma DEF Texts
  <2> QED  BY <1>2, <2>2 DEF Type
<1>3. ASSUME NEW u \in Users, Leave(u)  PROVE Types'
  BY <1>3 DEF Leave
<1>4. CASE Main
  <2>1. Head(queue) \in Users /\ Tail(queue) \in Seq(Users)
    BY <1>4, QueueLemma DEF Main, Accept, AcceptUnserved, AcceptFails
  <2>2. CASE Accept          BY <2>1, <2>2 DEF Accept
  <2>3. CASE AcceptUnserved  BY <2>1, <2>3 DEF AcceptUnserved
  <2>4. CASE AcceptFails     BY <2>4, SocketMoves DEF AcceptFails
  <2> QED  BY <1>4, <2>2, <2>3, <2>4 DEF Main
<1>5. ASSUME NEW u \in Users, Receive(u)  PROVE Types'
  <2>1. PICK n \in 1..Len(stream[u]) :
          /\ buf' = [buf EXCEPT ![u] = SubSeq(stream[u], 1, n)]
          /\ stream' = [stream EXCEPT ![u] = SubSeq(@, n + 1, Len(@))]
    BY <1>5 DEF Receive
  <2>2. SubSeq(stream[u], 1, n) \in Texts /\ SubSeq(stream[u], n + 1, Len(stream[u])) \in Texts
    BY CutLemma DEF Texts
  <2> QED  BY <1>5, <2>1, <2>2 DEF Receive
<1>6. ASSUME NEW u \in Users, ReceiveEof(u) \/ ClearFails(u)  PROVE Types'
  BY <1>6, SocketMoves DEF ReceiveEof, ClearFails
<1>7. ASSUME NEW u \in Users, Clear(u)  PROVE Types'
  BY <1>7, TextType DEF Clear
<1>8. ASSUME NEW u \in Users, Store(u)  PROVE Types'
  <2>1. Append(stored, buf[u]) \in Seq(Texts) /\ [Empty EXCEPT !.text = buf[u]] \in Segments
    BY AppendLemma, TextType
  <2> QED  BY <1>8, <2>1 DEF Store
<1>9. ASSUME NEW u \in Users, Sender(u)  PROVE Types'
  <2>1. Append(log[u], seg.text) \in Seq(Texts) /\ [seg EXCEPT !.stamps = @ + 1] \in Segments
    BY AppendLemma, TextType
  <2>2. CASE Look(u)       BY <2>2 DEF Look
  <2>3. CASE Copy(u)       BY <2>3 DEF Copy
  <2>4. CASE Stamp(u)      BY <2>1, <2>4 DEF Stamp
  <2>5. CASE Send(u)       BY <2>1, <2>5 DEF Send
  <2>6. CASE SendFails(u)  BY <2>6, SocketMoves DEF SendFails
  <2>7. CASE Wipe(u)       BY <2>7, TextType DEF Wipe
  <2>8. CASE Restore(u)    BY <2>8 DEF Restore
  <2>9. CASE LookFails(u)  BY <2>9, SocketMoves DEF LookFails
  <2> QED  BY <1>9, <2>2, <2>3, <2>4, <2>5, <2>6, <2>7, <2>8, <2>9 DEF Sender
<1>10. CASE UNCHANGED vars
  BY <1>10 DEF vars
<1> QED
  BY <1>1, <1>2, <1>3, <1>4, <1>5, <1>6, <1>7, <1>8, <1>9, <1>10
     DEF Next, UserNext, Receiver

-----------------------------------------------------------------------------
(* Connections and turns.                                                  *)

\* A step of a process whose turn it is, or that takes its turn.
LEMMA ReceiverMoves ==
  ASSUME Types, NEW u \in Users, Receiver(u)
  PROVE  /\ UNCHANGED <<server, typed, sender, log>> /\ (SocketKept \/ SocketGone)
         /\ rpc[u] # "off" /\ \A v \in Users \ {u} : rpc'[v] = rpc[v]
         /\ rpc[u] \in {"recv", "clear", "store"}
         /\ rpc[u] = "recv" => rpc'[u] \in {"off", "clear"}
         /\ rpc'[u] = "clear" => Quiet
<1>1. CASE ReceiveEof(u) \/ ClearFails(u)
  BY <1>1, SocketMoves DEF Types, ReceiveEof, ClearFails
<1>2. CASE Receive(u) \/ Clear(u) \/ Store(u)
  BY <1>2 DEF Types, Receive, Clear, Store, network, SocketKept
<1> QED  BY <1>1, <1>2 DEF Receiver

LEMMA SenderMoves ==
  ASSUME Types, NEW u \in Users, Sender(u)
  PROVE  /\ UNCHANGED <<server, typed, stream, receiver, stored>> /\ (SocketKept \/ SocketGone)
         /\ spc[u] \notin {"off", "cut"} /\ \A v \in Users \ {u} : spc'[v] = spc[v]
         /\ spc[u] = "sleep" => (Quiet \/ spc'[u] = "off")
<1>1. CASE SendFails(u) \/ LookFails(u)
  BY <1>1, SocketMoves DEF Types, SendFails, LookFails, Goto
<1>2. CASE Look(u) \/ Copy(u) \/ Stamp(u) \/ Send(u) \/ Wipe(u) \/ Restore(u)
  BY <1>2 DEF Types, Look, Copy, Stamp, Send, Wipe, Restore, Goto, network, SocketKept
<1> QED  BY <1>1, <1>2 DEF Sender

LEMMA HomeStep == ASSUME Types, HomeInv, [Next]_vars PROVE HomeInv'
<1> USE DEF Types, HomeInv, receiver, sender, network
<1>1. ASSUME NEW u \in Users, Connect(u)  PROVE HomeInv'
  <2>1. /\ queue' = Append(queue, u) /\ conn[u] = "out"
        /\ conn' = [conn EXCEPT ![u] = "queued"] /\ UNCHANGED <<rpc, spc>>
    BY <1>1 DEF Connect
  <2>2. /\ Len(queue') = Len(queue) + 1 /\ queue'[Len(queue) + 1] = u
        /\ \A k \in 1..Len(queue) : queue'[k] = queue[k] /\ queue[k] # u
    BY <2>1, AppendLemma
  <2> QED  BY <2>1, <2>2, SMTT(40)
<1>2. ASSUME NEW u \in Users, Type(u) \/ Leave(u)  PROVE HomeInv'
  BY <1>2 DEF Type, Leave
<1>3. CASE Accept \/ AcceptUnserved
  <2>1. /\ queue # << >> /\ queue' = Tail(queue)
        /\ \A v \in Users \ {Head(queue)} : /\ conn'[v] = conn[v]
                                            /\ rpc'[v] = rpc[v] /\ spc'[v] = spc[v]
        /\ conn'[Head(queue)] \in {"served", "unserved"}
    BY <1>3, QueueLemma DEF Accept, AcceptUnserved
  <2>2. /\ Head(queue) = queue[1] /\ Len(queue) \in Nat /\ 1 \in DOMAIN queue
        /\ DOMAIN queue' = 1..(Len(queue) - 1)
        /\ \A k \in 1..(Len(queue) - 1) : k + 1 \in DOMAIN queue /\ queue'[k] = queue[k + 1]
    BY <2>1
  <2>3. ASSUME NEW k \in DOMAIN queue'  PROVE conn'[queue'[k]] = "queued"
    <3>1. k + 1 \in DOMAIN queue /\ queue'[k] = queue[k + 1] /\ k + 1 # 1
      BY <2>2, <2>3, SMTT(40)
    <3>2. queue[k + 1] # queue[1]
      BY <2>2, <3>1
    <3>3. queue[k + 1] \in Users /\ conn[queue[k + 1]] = "queued"
      BY <3>1
    <3> QED  BY <2>1, <2>2, <3>1, <3>2, <3>3, SMTT(40)
  <2>4. ASSUME NEW j \in DOMAIN queue', NEW k \in DOMAIN queue', queue'[j] = queue'[k]
        PROVE  j = k
    <3>1. j + 1 \in DOMAIN queue /\ k + 1 \in DOMAIN queue /\ queue[j + 1] = queue[k + 1]
      BY <2>2, <2>4
    <3>2. j + 1 = k + 1
      BY <3>1
    <3> QED  BY <2>2, <3>2
  <2> QED  BY <2>1, <2>3, <2>4, ZenonT(40)
<1>4. CASE AcceptFails
  BY <1>4, SocketMoves DEF AcceptFails, SocketKept, SocketGone
<1>5. ASSUME NEW u \in Users, Receiver(u)  PROVE HomeInv'
  <2>1. /\ UNCHANGED spc /\ rpc[u] # "off"
        /\ \A v \in Users \ {u} : rpc'[v] = rpc[v]
    BY <1>5, ReceiverMoves
  <2>2. CASE SocketKept  BY <2>1, <2>2 DEF SocketKept
  <2>3. CASE SocketGone  BY <2>1, <2>3 DEF SocketGone
  <2> QED  BY <1>5, <2>2, <2>3, ReceiverMoves
<1>6. ASSUME NEW u \in Users, Sender(u)  PROVE HomeInv'
  <2>1. /\ UNCHANGED rpc /\ spc[u] # "off"
        /\ \A v \in Users \ {u} : spc'[v] = spc[v]
    BY <1>6, SenderMoves
  <2>2. CASE SocketKept  BY <2>1, <2>2 DEF SocketKept
  <2>3. CASE SocketGone  BY <2>1, <2>3 DEF SocketGone
  <2> QED  BY <1>6, <2>2, <2>3, SenderMoves
<1>7. CASE UNCHANGED vars
  BY <1>7 DEF vars
<1> QED  BY <1>1, <1>2, <1>3, <1>4, <1>5, <1>6, <1>7 DEF Next, Main, UserNext

\* What Apart is for: a turn begins when no other is under way.
LEMMA TurnStep == ASSUME Apart, Types, TurnInv, [Next]_vars PROVE TurnInv'
<1> USE DEF TurnInv, Storing, Forwarding
<1>1. ASSUME NEW u \in Users, UserNext(u)  PROVE TurnInv'
  BY <1>1 DEF UserNext, Connect, Type, Leave, receiver, sender
<1>2. CASE Main
  <2>1. \A v \in Users : /\ rpc'[v] \in {rpc[v], "off", "stuck", "recv"}
                         /\ spc'[v] \in {spc[v], "sleep"}
    BY <1>2 DEF Main, Accept, AcceptUnserved, AcceptFails, receiver, sender, Types
  <2> QED  BY <2>1
<1>3. ASSUME NEW u \in Users, Receiver(u)  PROVE TurnInv'
  <2>1. UNCHANGED spc /\ \A v \in Users \ {u} : rpc'[v] = rpc[v]
    BY <1>3, ReceiverMoves DEF sender
  <2>2. CASE Storing(u)
    BY <2>1, <2>2
  <2>3. CASE rpc'[u] = "clear"
    BY <1>3, <2>1, <2>3, ReceiverMoves DEF Quiet
  <2>4. CASE ~Storing(u) /\ rpc'[u] # "clear"
    <3>1. rpc[u] = "recv"
      BY <1>3, <2>4, ReceiverMoves DEF Types
    <3>2. rpc'[u] = "off"
      BY <1>3, <2>4, <3>1, ReceiverMoves
    <3> QED  BY <2>1, <3>2
  <2> QED  BY <2>2, <2>3, <2>4
<1>4. ASSUME NEW u \in Users, Sender(u)  PROVE TurnInv'
  <2>1. UNCHANGED rpc /\ \A v \in Users \ {u} : spc'[v] = spc[v]
    BY <1>4, SenderMoves DEF receiver
  <2>2. CASE Forwarding(u)
    BY <2>1, <2>2
  <2>3. CASE ~Forwarding(u)
    <3>1. spc[u] = "sleep"
      BY <1>4, <2>3, SenderMoves
    <3>2. CASE Quiet
      BY <2>1, <3>2 DEF Quiet
    <3>3. CASE spc'[u] = "off"
      BY <2>1, <3>3
    <3> QED  BY <1>4, <3>1, <3>2, <3>3, SenderMoves
  <2> QED  BY <2>2, <2>3
<1>5. CASE UNCHANGED vars
  BY <1>5 DEF vars, receiver, sender
<1> QED  BY <1>1, <1>2, <1>3, <1>4, <1>5 DEF Next

-----------------------------------------------------------------------------
(* Texts.                                                                  *)

\* Steps that take no line, store no text and begin no turn of a receiver.
LEMMA TextFrame ==
  ASSUME Types, TextInv, UNCHANGED <<typed, stream, stored>>,
         \A u \in Users : Storing(u)' => Storing(u) /\ buf'[u] = buf[u]
  PROVE  TextInv'
<1>1. \A v \in Users : Taken(v)' = Taken(v)
  BY DEF Taken
<1>2. \A t : Begins(t) => Begins(t)'
  BY <1>1 DEF Begins
<1> QED  BY <1>1, <1>2 DEF TextInv

LEMMA TakenType ==
  ASSUME Types, TextInv, NEW u \in Users
  PROVE  Taken(u) \in Nat /\ typed[u] = Taken(u) + Len(stream[u])
  BY DEF Types, TextInv, Taken, Texts

LEMMA TextTyped ==
  ASSUME Types, TextInv, NEW u \in Users, Type(u)
  PROVE  TextInv'
<1> DEFINE line == Line(u, typed[u] + 1)
<1>1. /\ line \in Lines /\ stream[u] \in Seq(Lines) /\ typed'[u] = typed[u] + 1
      /\ stream'[u] = Append(stream[u], line)
      /\ \A v \in Users \ {u} : typed'[v] = typed[v] /\ stream'[v] = stream[v]
      /\ UNCHANGED <<rpc, buf, stored>>
  BY DEF Type, Types, Texts, Line, Lines, receiver
<1> HIDE DEF line
<1>2. /\ Len(stream'[u]) = Len(stream[u]) + 1 /\ stream'[u][Len(stream[u]) + 1] = line
      /\ \A k \in 1..Len(stream[u]) : stream'[u][k] = stream[u][k]
  BY <1>1, AppendLemma
<1>3. Taken(u) \in Nat /\ typed[u] = Taken(u) + Len(stream[u]) /\ Len(stream[u]) \in Nat
  BY <1>1, TakenType
<1>4. \A v \in Users : Taken(v)' = Taken(v)
  <2>1. typed'[u] - Len(stream'[u]) = typed[u] - Len(stream[u])
    BY <1>1, <1>2, <1>3
  <2> QED  BY <1>1, <2>1 DEF Taken
<1>5. \A t : Begins(t) => Begins(t)'
  BY <1>4 DEF Begins
<1>6. ASSUME NEW k \in DOMAIN stream'[u]  PROVE stream'[u][k] = Line(u, Taken(u)' + k)
  <2>1. k \in 1..(Len(stream[u]) + 1)
    BY <1>1, <1>2, <1>6, AppendLemma
  <2>2. CASE k \in 1..Len(stream[u])
    <3>1. stream[u][k] = Line(u, Taken(u) + k)
      BY <1>1, <2>2 DEF TextInv
    <3> QED  BY <1>2, <1>4, <2>2, <3>1
  <2>3. CASE k = Len(stream[u]) + 1
    BY <1>2, <1>3, <1>4, <2>3 DEF line
  <2> QED  BY <1>3, <2>1, <2>2, <2>3
<1>7. ASSUME NEW v \in Users
      PROVE  /\ Len(stream'[v]) <= typed'[v]
             /\ \A k \in DOMAIN stream'[v] : stream'[v][k] = Line(v, Taken(v)' + k)
  <2>1. CASE v = u
    <3>1. Len(stream'[u]) <= typed'[u]
      BY <1>1, <1>2, <1>3
    <3> QED  BY <1>6, <2>1, <3>1
  <2>2. CASE v # u
    BY <1>1, <1>4, <2>2 DEF TextInv
  <2> QED  BY <2>1, <2>2
<1> QED  BY <1>1, <1>5, <1>7 DEF TextInv, Storing

\* The lines taken now begin with one that no stored text began with.
LEMMA TextReceived ==
  ASSUME Apart, Types, TurnInv, TextInv, NEW u \in Users, Receive(u)
  PROVE  TextInv'
<1>1. PICK n \in 1..Len(stream[u]) :
        /\ buf' = [buf EXCEPT ![u] = SubSeq(stream[u], 1, n)]
        /\ stream' = [stream EXCEPT ![u] = SubSeq(@, n + 1, Len(@))]
  BY DEF Receive
<1>2. /\ rpc' = [rpc EXCEPT ![u] = "clear"] /\ rpc[u] = "recv" /\ Quiet
      /\ UNCHANGED <<typed, stored>> /\ stream[u] # << >>
  BY DEF Receive
<1>3. stream[u] \in Seq(Lines) /\ Len(stream[u]) \in Nat
  BY DEF Types, Texts
<1>4. /\ stream'[u] = SubSeq(stream[u], n + 1, Len(stream[u]))
      /\ buf'[u] = SubSeq(stream[u], 1, n)
      /\ \A v \in Users \ {u} : stream'[v] = stream[v]
  BY <1>1 DEF Types
<1>5. /\ Len(stream'[u]) = Len(stream[u]) - n
      /\ buf'[u] # << >> /\ buf'[u][1] = stream[u][1]
      /\ \A k \in 1..(Len(stream[u]) - n) : stream'[u][k] = stream[u][n + k]
  <2> HIDE DEF Lines
  <2> DEFINE s == stream[u]
  <2> HIDE DEF s
  <2>1. s \in Seq(Lines) /\ n \in 1..Len(s)
    BY <1>3 DEF s
  <2>2. /\ Len(SubSeq(s, n + 1, Len(s))) = Len(s) - n
        /\ SubSeq(s, 1, n) # << >> /\ SubSeq(s, 1, n)[1] = s[1]
        /\ \A k \in 1..(Len(s) - n) : SubSeq(s, n + 1, Len(s))[k] = s[n + k]
    BY <2>1, CutLemma
  <2> QED  BY <1>4, <2>2 DEF s
<1>6. Taken(u) \in Nat /\ typed[u] = Taken(u) + Len(stream[u])
  BY TakenType
<1>7. Taken(u)' = Taken(u) + n /\ \A v \in Users \ {u} : Taken(v)' = Taken(v)
  BY <1>2, <1>3, <1>4, <1>5, <1>6, SMTT(40) DEF Taken
<1>8. \A t : Begins(t) => Begins(t)'
  BY <1>6, <1>7, TakenType DEF Begins
<1>9. buf'[u][1] = Line(u, Taken(u) + 1)
  <2>1. 1 \in DOMAIN stream[u]
    BY <1>2, <1>3
  <2> QED  BY <1>5, <2>1 DEF TextInv
<1>10. Begins(buf[u])'
  BY <1>5, <1>6, <1>7, <1>9 DEF Begins
<1>11. \A t : Begins(t) => t # buf'[u]
  BY <1>6, <1>9, TakenType DEF Begins, Line
<1>12. buf'[u] \notin ToSet(stored)
  BY <1>11 DEF TextInv, ToSet
<1>13. \A v \in Users : Storing(v)' => v = u
  BY <1>2 DEF Quiet, Storing, Types
<1>14. ASSUME NEW v \in Users
       PROVE  /\ Len(stream'[v]) <= typed'[v]
              /\ \A k \in DOMAIN stream'[v] : stream'[v][k] = Line(v, Taken(v)' + k)
  <2>1. CASE v = u
    <3>1. Len(stream'[u]) <= typed'[u] /\ DOMAIN stream'[u] = 1..(Len(stream[u]) - n)
      BY <1>2, <1>3, <1>4, <1>5, <1>6, CutLemma
    <3>2. ASSUME NEW k \in DOMAIN stream'[u]  PROVE stream'[u][k] = Line(u, Taken(u)' + k)
      <4>1. n + k \in DOMAIN stream[u]
        BY <1>3, <3>1, <3>2
      <4>2. stream[u][n + k] = Line(u, Taken(u) + (n + k))
        BY <4>1 DEF TextInv
      <4>3. Taken(u) + (n + k) = Taken(u)' + k
        BY <1>6, <1>7, <3>1, <3>2
      <4> QED  BY <1>5, <3>1, <3>2, <4>2, <4>3
    <3> QED  BY <2>1, <3>1, <3>2
  <2>2. CASE v # u
    BY <1>2, <1>4, <1>7, <2>2 DEF TextInv
  <2> QED  BY <2>1, <2>2
<1> QED  BY <1>2, <1>8, <1>10, <1>12, <1>13, <1>14 DEF TextInv

LEMMA TextStored ==
  ASSUME Types, TurnInv, TextInv, NEW u \in Users, Store(u)
  PROVE  TextInv'
<1>1. /\ rpc[u] = "store" /\ stored' = Append(stored, buf[u])
      /\ UNCHANGED <<typed, stream, buf>> /\ rpc' = [rpc EXCEPT ![u] = "recv"]
  BY DEF Store, network
<1>2. stored \in Seq(Texts) /\ buf[u] \in Texts /\ Len(stored) \in Nat
  BY DEF Types
<1>3. /\ DOMAIN stored' = 1..(Len(stored) + 1) /\ stored'[Len(stored) + 1] = buf[u]
      /\ \A k \in 1..Len(stored) : stored'[k] = stored[k]
  BY <1>1, <1>2, AppendLemma
<1>4. \A v \in Users : Taken(v)' = Taken(v)
  BY <1>1 DEF Taken
<1>5. \A t : Begins(t) => Begins(t)'
  BY <1>4 DEF Begins
<1>6. \A v \in Users : ~Storing(v)'
  BY <1>1 DEF TurnInv, Storing, Types
<1>7. Begins(buf[u]) /\ \A k \in DOMAIN stored : stored[k] # buf[u]
  BY <1>1 DEF TextInv, Storing, ToSet
<1>8. (\A n \in DOMAIN stored : Begins(stored[n]))'
  BY <1>2, <1>3, <1>5, <1>7 DEF TextInv
<1>9. \A m, n \in DOMAIN stored' : stored'[m] = stored'[n] => m = n
  BY <1>2, <1>3, <1>7 DEF TextInv
<1> QED  BY <1>1, <1>4, <1>6, <1>8, <1>9 DEF TextInv

LEMMA TextStep == ASSUME Apart, Types, TurnInv, TextInv, [Next]_vars PROVE TextInv'
<1> USE DEF receiver, sender, network
<1>1. ASSUME NEW u \in Users, Connect(u) \/ Leave(u)  PROVE TextInv'
  BY <1>1, TextFrame DEF Connect, Leave, Storing
<1>2. CASE Main
  <2>1. \A v \in Users : rpc'[v] \in {rpc[v], "off", "stuck", "recv"} /\ buf'[v] = buf[v]
    BY <1>2 DEF Main, Accept, AcceptUnserved, AcceptFails, Types
  <2>2. UNCHANGED <<typed, stream, stored>>
    BY <1>2 DEF Main, Accept, AcceptUnserved, AcceptFails
  <2> QED  BY <2>1, <2>2, TextFrame DEF Storing
<1>3. ASSUME NEW u \in Users, ReceiveEof(u) \/ Clear(u) \/ ClearFails(u)
      PROVE  TextInv'
  BY <1>3, TextFrame DEF ReceiveEof, Clear, ClearFails, Storing, Types
<1>4. ASSUME NEW u \in Users, Sender(u)  PROVE TextInv'
  BY <1>4, SenderMoves, TextFrame DEF Storing
<1>5. CASE UNCHANGED vars
  BY <1>5, TextFrame DEF vars, Storing
<1> QED
  BY <1>1, <1>2, <1>3, <1>4, <1>5, TextTyped, TextReceived, TextStored
     DEF Next, UserNext, Receiver
-----------------------------------------------------------------------------
(* What the segment shows.                                                 *)

LEMMA InterruptedStays ==
  ASSUME Types, HomeInv, [Next]_vars, Interrupted
  PROVE  Interrupted'
<1>1. PICK w \in Users : spc[w] = "cut"
  BY DEF Interrupted
<1>2. spc'[w] = "cut"
  <2> USE <1>1 DEF Types, receiver, sender
  <2>1. ASSUME NEW u \in Users, UserNext(u)  PROVE spc'[w] = "cut"
    BY <2>1 DEF UserNext, Connect, Type, Leave
  <2>2. CASE Accept
    <3>1. Head(queue) \in Users /\ spc[Head(queue)] = "off"
      <4>1. queue # << >> /\ queue \in Seq(Users)
        BY <2>2 DEF Accept
      <4>2. 1 \in DOMAIN queue /\ Head(queue) = queue[1] /\ queue[1] \in Users
        BY <4>1
      <4> QED  BY <4>2 DEF HomeInv
    <3> QED  BY <2>2, <3>1 DEF Accept
  <2>3. CASE AcceptUnserved \/ AcceptFails
    BY <2>3 DEF AcceptUnserved, AcceptFails
  <2>4. ASSUME NEW u \in Users, Receiver(u)  PROVE spc'[w] = "cut"
    BY <2>4, ReceiverMoves
  <2>5. ASSUME NEW u \in Users, Sender(u)  PROVE spc'[w] = "cut"
    BY <2>5, SenderMoves
  <2>6. CASE UNCHANGED vars
    BY <2>6 DEF vars
  <2> QED  BY <2>1, <2>2, <2>3, <2>4, <2>5, <2>6 DEF Next, Main
<1> QED  BY <1>2 DEF Interrupted

\* Steps that leave the segment and what is known of it alone.
LEMMA ShowFrame ==
  ASSUME ShowInv, UNCHANGED <<seg, temp, log, stored>>,
         \A u \in Users : /\ spc'[u] = spc[u] \/ {spc[u], spc'[u]} \subseteq {"off", "sleep"}
                          /\ rpc[u] = "store" => rpc'[u] = "store"
  PROVE  ShowInv'
<1>1. Current' = Current /\ \A u \in Users : Shown(u)' = Shown(u)
  BY DEF Current, Shown
<1>2. \A u \in Users : SenderInv(u)' /\ LogInv(u)'
  <2> SUFFICES ASSUME NEW u \in Users  PROVE SenderInv(u)' /\ LogInv(u)'
    OBVIOUS
  <2>1. LogInv(u)'
    BY DEF ShowInv, LogInv
  <2>2. CASE spc'[u] = spc[u]
    BY <1>1, <2>1, <2>2 DEF ShowInv, SenderInv
  <2>3. CASE spc[u] \in {"off", "sleep"} /\ spc'[u] \in {"off", "sleep"}
    BY <1>1, <2>1, <2>3 DEF ShowInv, SenderInv
  <2> QED  BY <2>2, <2>3
<1>3. \A u \in Users : Forwarding(u)' <=> Forwarding(u)
  BY DEF Forwarding
<1> QED  BY <1>1, <1>2, <1>3 DEF ShowInv

\* The other senders sleep while u has its turn.
LEMMA OthersSleep ==
  ASSUME Types, ShowInv, UNCHANGED stored, NEW u \in Users,
         \A v \in Users \ {u} : /\ ~Forwarding(v) /\ spc'[v] = spc[v]
                                 /\ temp'[v] = temp[v] /\ log'[v] = log[v]
  PROVE  \A v \in Users \ {u} : SenderInv(v)' /\ LogInv(v)'
<1> SUFFICES ASSUME NEW v \in Users \ {u}  PROVE SenderInv(v)' /\ LogInv(v)'
  OBVIOUS
<1>1. spc[v] \in {"off", "cut", "sleep"} /\ spc'[v] = spc[v] /\ Shown(v)' = Shown(v)
  BY DEF Forwarding, Shown
<1>2. SenderInv(v)'
  BY <1>1 DEF ShowInv, SenderInv
<1>3. LogInv(v)'
  BY DEF ShowInv, LogInv
<1> QED  BY <1>2, <1>3

LEMMA ShowCleared ==
  ASSUME Types, TurnInv, ShowInv, NEW u \in Users, Clear(u)
  PROVE  ShowInv'
<1>1. /\ UNCHANGED <<spc, temp, log, stored>> /\ rpc'[u] = "store"
      /\ \A v \in Users : ~Forwarding(v)
  BY DEF Clear, TurnInv, Storing, sender, Types
<1>2. Current' = Current /\ \A v \in Users : Shown(v)' = Shown(v)
  BY <1>1 DEF Current, Shown
<1>3. \A v \in Users : SenderInv(v)' /\ LogInv(v)'
  BY <1>1, <1>2 DEF ShowInv, SenderInv, LogInv, Forwarding
<1> QED  BY <1>1, <1>3 DEF ShowInv

LEMMA ShowStored ==
  ASSUME Types, TurnInv, ShowInv, NEW u \in Users, Store(u)
  PROVE  ShowInv'
<1>1. /\ UNCHANGED <<spc, temp, log>> /\ stored' = Append(stored, buf[u])
      /\ seg' = [Empty EXCEPT !.text = buf[u]]
      /\ \A v \in Users : ~Forwarding(v)
  BY DEF Store, TurnInv, Storing, sender
<1>2. stored \in Seq(Texts) /\ buf[u] \in Texts /\ Len(stored) \in Nat
  BY DEF Types
<1>3. /\ DOMAIN stored' = 1..(Len(stored) + 1) /\ stored' # << >> /\ Last(stored') = buf[u]
      /\ \A k \in DOMAIN stored : k \in DOMAIN stored' /\ stored'[k] = stored[k]
  BY <1>1, <1>2, AppendLemma
<1>4. seg' = Current'
  BY <1>1, <1>2, <1>3, TextType DEF Current
<1>5. ASSUME NEW v \in Users  PROVE SenderInv(v)'
  <2>1. Shown(v)' = Shown(v)
    BY <1>1 DEF Shown
  <2> QED  BY <1>1, <2>1 DEF ShowInv, SenderInv, Forwarding
<1>6. ASSUME NEW v \in Users  PROVE LogInv(v)'
  <2>1. \A k \in DOMAIN log[v] : log'[v][k] \in ToSet(stored')
    BY <1>1, <1>3 DEF ShowInv, LogInv, ToSet
  <2>2. ASSUME NEW j \in DOMAIN log[v], NEW k \in DOMAIN log[v], j < k
        PROVE  \E m, n \in DOMAIN stored' :
                 m < n /\ stored'[m] = log[v][j] /\ stored'[n] = log[v][k]
    <3>1. PICK m, n \in DOMAIN stored :
            m < n /\ stored[m] = log[v][j] /\ stored[n] = log[v][k]
      BY <2>2 DEF ShowInv, LogInv
    <3> QED  BY <1>3, <3>1
  <2> QED  BY <1>1, <2>1, <2>2 DEF LogInv
<1> QED  BY <1>4, <1>5, <1>6 DEF ShowInv

\* u's sender is the only one awake before and after its step.
LEMMA SenderTurn ==
  ASSUME Apart, Types, TurnInv, NEW u \in Users, Sender(u), spc'[u] # "off"
  PROVE  /\ \A v \in Users : ~Storing(v)
         /\ \A v \in Users \ {u} : ~Forwarding(v) /\ spc'[v] = spc[v]
<1>1. \A v \in Users \ {u} : spc'[v] = spc[v]
  BY SenderMoves
<1>2. CASE Forwarding(u)
  BY <1>1, <1>2 DEF TurnInv
<1>3. CASE ~Forwarding(u)
  <2>1. Quiet
    BY <1>3, SenderMoves DEF Forwarding, Types
  <2> QED  BY <1>1, <2>1 DEF Quiet, Storing, Forwarding
<1> QED  BY <1>2, <1>3

LEMMA ShowSent ==
  ASSUME Apart, Types, TurnInv, ShowInv, NEW u \in Users, Send(u)
  PROVE  ShowInv'
<1>1. /\ spc[u] = "send" /\ spc' = [spc EXCEPT ![u] = "clear"]
      /\ log' = [log EXCEPT ![u] = Append(log[u], seg.text)]
      /\ UNCHANGED <<temp, seg, stored, rpc>>
  BY DEF Send, Goto, receiver
<1>2. /\ seg.text = Current.text /\ temp[u] = Current /\ Shown(u) # Current /\ LogInv(u)
  BY <1>1 DEF ShowInv, SenderInv
<1>3. /\ log[u] \in Seq(Texts) /\ Len(log[u]) \in Nat /\ seg.text \in Texts
      /\ stored \in Seq(Texts) /\ Len(stored) \in Nat
  BY DEF Types, Segments
<1>4. stored # << >>
  <2> SUFFICES ASSUME stored = << >>  PROVE FALSE
    OBVIOUS
  <2>1. log[u] = << >>
    <3>1. ToSet(stored) = {}
      BY DEF ToSet
    <3>2. DOMAIN log[u] = {}
      BY <1>2, <3>1 DEF LogInv
    <3> QED  BY <1>3, <3>2, EmptyLemma
  <2> QED  BY <1>2, <2>1 DEF Shown, Current
<1>5. /\ Len(stored) \in DOMAIN stored /\ Current = Plain(stored[Len(stored)])
      /\ seg.text = stored[Len(stored)]
  BY <1>2, <1>3, <1>4 DEF Current, Plain, Last
<1>6. /\ DOMAIN log'[u] = 1..(Len(log[u]) + 1) /\ log'[u][Len(log[u]) + 1] = seg.text
      /\ log'[u] # << >> /\ Last(log'[u]) = seg.text
      /\ \A k \in 1..Len(log[u]) : log'[u][k] = log[u][k]
  <2>1. log'[u] = Append(log[u], seg.text)
    BY <1>1 DEF Types
  <2> QED  BY <1>3, <2>1, AppendLemma
<1>7. Current' = Current /\ Shown(u)' = Current
  BY <1>1, <1>5, <1>6 DEF Current, Shown
<1>8. SenderInv(u)'
  <2>1. spc'[u] = "clear" /\ temp'[u] = Current'
    BY <1>1, <1>2, <1>7 DEF Types
  <2>2. Shown(u)' = Current'
    BY <1>7
  <2> QED  BY <2>1, <2>2 DEF SenderInv
<1>9. ASSUME NEW k \in DOMAIN log'[u]  PROVE log'[u][k] \in ToSet(stored)
  <2>1. CASE k \in 1..Len(log[u])
    <3>1. k \in DOMAIN log[u] /\ log'[u][k] = log[u][k]
      BY <1>3, <1>6, <2>1
    <3> QED  BY <1>2, <3>1 DEF LogInv
  <2>2. CASE k = Len(log[u]) + 1
    BY <1>5, <1>6, <2>2 DEF ToSet
  <2> QED  BY <1>3, <1>6, <1>9, <2>1, <2>2
<1>10. ASSUME NEW j \in DOMAIN log'[u], NEW k \in DOMAIN log'[u], j < k
       PROVE  \E m, n \in DOMAIN stored :
                m < n /\ stored[m] = log'[u][j] /\ stored[n] = log'[u][k]
  <2>1. j \in 1..Len(log[u]) /\ log'[u][j] = log[u][j]
    BY <1>3, <1>6, <1>10
  <2>2. CASE k \in 1..Len(log[u])
    BY <1>2, <1>6, <1>10, <2>1, <2>2 DEF LogInv
  <2>3. CASE k = Len(log[u]) + 1
    <3>1. PICK m \in DOMAIN stored : stored[m] = log[u][j]
      BY <1>2, <1>3, <2>1 DEF LogInv, ToSet
    <3>2. CASE m < Len(stored)
      BY <1>5, <1>6, <2>1, <2>3, <3>1, <3>2
    <3>3. CASE m = Len(stored)
      <4>1. j # Len(log[u])
        <5> SUFFICES ASSUME j = Len(log[u])  PROVE FALSE
          OBVIOUS
        <5>1. Shown(u) = Plain(log[u][j])
          BY <1>3, <2>1 DEF Shown, Last
        <5> QED  BY <1>2, <1>5, <3>1, <3>3, <5>1
      <4>2. j < Len(log[u]) /\ Len(log[u]) \in DOMAIN log[u] /\ j \in DOMAIN log[u]
        BY <1>3, <2>1, <4>1
      <4>3. PICK a, b \in DOMAIN stored : a < b /\ stored[a] = log[u][j]
        BY <1>2, <4>2 DEF LogInv
      <4>4. a < Len(stored)
        BY <1>3, <4>3
      <4> QED  BY <1>5, <1>6, <2>1, <2>3, <4>3, <4>4
    <3> QED  BY <1>3, <3>1, <3>2, <3>3
  <2> QED  BY <1>3, <1>6, <2>2, <2>3
<1>11. LogInv(u)'
  BY <1>1, <1>9, <1>10 DEF LogInv
<1>12. \A v \in Users \ {u} : SenderInv(v)' /\ LogInv(v)'
  <2>1. \A v \in Users \ {u} : ~Forwarding(v) /\ spc'[v] = spc[v]
    BY <1>1, SenderTurn DEF Sender, Types
  <2> QED  BY <1>1, <2>1, OthersSleep DEF Types
<1>13. Forwarding(u)'
  BY <1>1 DEF Forwarding, Types
<1> QED  BY <1>8, <1>11, <1>12, <1>13 DEF ShowInv

\* A send to a user that left ends the sender, which is what Interrupted says.
LEMMA ShowSender ==
  ASSUME Apart, Types, TurnInv, ShowInv, NEW u \in Users, Sender(u), ~LookFails(u),
         ~Interrupted'
  PROVE  ShowInv'
<1>0. spc'[u] # "off"
  BY DEF Sender, Look, Copy, Stamp, Send, SendFails, Wipe, Restore, Goto, Types
<1>1. \A v \in Users : ~Storing(v)
  BY <1>0, SenderTurn
<1>2. \A v \in Users \ {u} : ~Forwarding(v) /\ spc'[v] = spc[v]
  BY <1>0, SenderTurn
<1>3. SenderInv(u) /\ LogInv(u)
  BY DEF ShowInv
<1>4. ASSUME UNCHANGED <<log, stored>>, \A v \in Users \ {u} : temp'[v] = temp[v]
      PROVE  /\ Current' = Current /\ Shown(u)' = Shown(u) /\ LogInv(u)'
             /\ \A v \in Users \ {u} : SenderInv(v)' /\ LogInv(v)'
  <2>1. \A v \in Users \ {u} : SenderInv(v)' /\ LogInv(v)'
    BY <1>2, <1>4, OthersSleep
  <2> QED  BY <1>3, <1>4, <2>1 DEF Current, Shown, LogInv
<1>5. CASE Look(u)
  <2>1. /\ spc[u] = "sleep" /\ spc'[u] = "copy" /\ temp[u] # seg
        /\ UNCHANGED <<temp, seg, log, stored>>
    BY <1>5 DEF Look, Goto, Types
  <2>2. \A v \in Users : ~Forwarding(v)
    BY <1>2, <2>1 DEF Forwarding
  <2>3. seg = Current
    BY <1>1, <2>2 DEF ShowInv, Storing
  <2>4. SenderInv(u)' /\ Forwarding(u)'
    BY <1>3, <1>4, <2>1, <2>3 DEF SenderInv, Forwarding
  <2> QED  BY <1>4, <2>1, <2>4 DEF ShowInv
<1>6. CASE Copy(u)
  <2>1. /\ spc[u] = "copy" /\ spc'[u] = "stamp" /\ temp'[u] = seg
        /\ UNCHANGED <<seg, log, stored>> /\ \A v \in Users \ {u} : temp'[v] = temp[v]
    BY <1>6 DEF Copy, Goto, Types
  <2>2. SenderInv(u)' /\ Forwarding(u)'
    BY <1>3, <1>4, <2>1 DEF SenderInv, Forwarding
  <2> QED  BY <1>4, <2>1, <2>2 DEF ShowInv
<1>7. CASE Stamp(u)
  <2>1. /\ spc[u] = "stamp" /\ spc'[u] = "send" /\ seg'.text = seg.text
        /\ UNCHANGED <<temp, log, stored>>
    BY <1>7 DEF Stamp, Goto, Types, Segments
  <2>2. SenderInv(u)' /\ Forwarding(u)'
    BY <1>3, <1>4, <2>1 DEF SenderInv, Forwarding
  <2> QED  BY <1>4, <2>1, <2>2 DEF ShowInv
<1>8. CASE Send(u)
  BY <1>8, ShowSent
<1>9. CASE SendFails(u)
  BY <1>9 DEF SendFails, Goto, Types, Interrupted
<1>10. CASE Wipe(u)
  <2>1. /\ spc[u] = "clear" /\ spc'[u] = "restore" /\ UNCHANGED <<temp, log, stored>>
    BY <1>10 DEF Wipe, Goto, Types
  <2>2. SenderInv(u)' /\ Forwarding(u)'
    BY <1>3, <1>4, <2>1 DEF SenderInv, Forwarding
  <2> QED  BY <1>4, <2>1, <2>2 DEF ShowInv
<1>11. CASE Restore(u)
  <2>1. /\ spc[u] = "restore" /\ spc'[u] = "sleep" /\ seg' = temp[u]
        /\ UNCHANGED <<temp, log, stored>>
    BY <1>11 DEF Restore, Goto, Types
  <2>2. SenderInv(u)' /\ seg' = Current'
    BY <1>3, <1>4, <2>1 DEF SenderInv
  <2> QED  BY <1>4, <2>1, <2>2 DEF ShowInv
<1> QED  BY <1>5, <1>6, <1>7, <1>8, <1>9, <1>10, <1>11 DEF Sender

LEMMA SegStep ==
  ASSUME Apart, Types, HomeInv, TurnInv, SegInv, [Next]_vars
  PROVE  SegInv'
<1> SUFFICES ASSUME ~Interrupted'  PROVE ShowInv'
  BY DEF SegInv
<1>1. ShowInv
  BY InterruptedStays DEF SegInv
<1> USE <1>1
<1>2. ASSUME NEW u \in Users, UserNext(u)  PROVE ShowInv'
  BY <1>2, ShowFrame DEF UserNext, Connect, Type, Leave, receiver, sender
<1>3. CASE Accept \/ AcceptUnserved
  <2>1. Head(queue) \in Users /\ rpc[Head(queue)] = "off" /\ spc[Head(queue)] = "off"
    <3>1. queue # << >> /\ queue \in Seq(Users)
      BY <1>3 DEF Accept, AcceptUnserved, Types
    <3>2. 1 \in DOMAIN queue /\ Head(queue) = queue[1] /\ queue[1] \in Users
      BY <3>1
    <3> QED  BY <3>2 DEF HomeInv
  <2>2. \A v \in Users : /\ rpc'[v] = rpc[v] \/ rpc[v] = "off"
                         /\ spc'[v] = spc[v] \/ (spc[v] = "off" /\ spc'[v] = "sleep")
    BY <1>3, <2>1 DEF Accept, AcceptUnserved, receiver, sender, Types
  <2>3. UNCHANGED <<seg, temp, log, stored>>
    BY <1>3 DEF Accept, AcceptUnserved, sender
  <2> QED  BY <2>2, <2>3, ShowFrame DEF Storing
<1>4. CASE AcceptFails
  BY <1>4, ShowFrame DEF AcceptFails, receiver, sender
<1>5. ASSUME NEW u \in Users, Receive(u) \/ ReceiveEof(u) \/ ClearFails(u)
      PROVE  ShowInv'
  BY <1>5, ShowFrame DEF Receive, ReceiveEof, ClearFails, sender, Types
<1>6. ASSUME NEW u \in Users, Receiver(u)  PROVE ShowInv'
  BY <1>5, <1>6, ShowCleared, ShowStored DEF Receiver
<1>7. ASSUME NEW u \in Users, Sender(u)  PROVE ShowInv'
  <2>1. CASE LookFails(u)
    BY <2>1, ShowFrame DEF LookFails, Goto, receiver, Types
  <2> QED  BY <1>7, <2>1, ShowSender
<1>8. CASE UNCHANGED vars
  BY <1>8, ShowFrame DEF vars, receiver, sender, Storing
<1> QED  BY <1>2, <1>3, <1>4, <1>6, <1>7, <1>8 DEF Next, Main

-----------------------------------------------------------------------------
(* The theorems.                                                           *)

LEMMA ChatInit == Init => ChatInv
<1> SUFFICES ASSUME Init  PROVE ChatInv
  OBVIOUS
<1>1. HomeInv /\ TurnInv
  BY DEF Init, HomeInv, TurnInv, Storing, Forwarding
<1>2. TextInv
  BY DEF Init, TextInv, Taken, Storing
<1>3. Current = Empty /\ \A u \in Users : Shown(u) = Empty
  BY DEF Init, Current, Shown
<1>4. \A u \in Users : SenderInv(u) /\ LogInv(u)
  BY <1>3 DEF Init, SenderInv, LogInv
<1>5. SegInv
  BY <1>3, <1>4 DEF Init, SegInv, ShowInv
<1> QED  BY <1>1, <1>2, <1>5, TypesInit DEF ChatInv

LEMMA ChatNext == ASSUME Apart, ChatInv, [Next]_vars PROVE ChatInv'
  BY TypesStep, HomeStep, TurnStep, TextStep, SegStep DEF ChatInv

\* The inductive invariant, for turns a second of sleep apart (myserver.c:
\* sleep(1) between a sender's looks at the segment): one turn at a time, no
\* text stored twice, and segment and temp show the last texts stored and sent.
THEOREM ChatInvariance == ASSUME Apart PROVE Spec => []ChatInv
<1>1. ChatInv /\ [Next]_vars => ChatInv'
  BY ChatNext
<1> QED  BY <1>1, ChatInit, PTL DEF Spec

LEMMA StoredOnce ==
  ASSUME TextInv, NEW n \in DOMAIN stored
  PROVE  Position(stored[n]) = n
  BY DEF TextInv, Position

\* For any number of users and lines, lines run together, users that leave and
\* connections that fail: whatever a sender forwards was stored, and it reaches
\* its user in the order it was stored and at most once, until a sender is
\* ended by a user that left.  It is comparing the segment with temp that gives
\* this, although the sender writes the segment too.
THEOREM ForwardedInOrderHolds == ASSUME Apart PROVE Spec => []ForwardedInOrder
<1>1. ChatInv => ForwardedInOrder
  <2> SUFFICES ASSUME ChatInv, ~Interrupted, NEW u \in Users
      PROVE  /\ \A k \in DOMAIN log[u] : log[u][k] \in ToSet(stored)
             /\ \A k \in 2..Len(log[u]) : Position(log[u][k - 1]) < Position(log[u][k])
    BY DEF ForwardedInOrder
  <2>1. LogInv(u) /\ TextInv /\ log[u] \in Seq(Texts) /\ Len(log[u]) \in Nat
    BY DEF ChatInv, SegInv, ShowInv, Types
  <2>2. ASSUME NEW k \in 2..Len(log[u])
        PROVE  Position(log[u][k - 1]) < Position(log[u][k])
    <3>1. k - 1 \in DOMAIN log[u] /\ k \in DOMAIN log[u] /\ k - 1 < k
      BY <2>1
    <3>2. PICK m, n \in DOMAIN stored :
            m < n /\ stored[m] = log[u][k - 1] /\ stored[n] = log[u][k]
      BY <2>1, <3>1 DEF LogInv
    <3> QED  BY <2>1, <3>2, StoredOnce
  <2> QED  BY <2>1, <2>2 DEF LogInv
<1> QED  BY <1>1, ChatInvariance, PTL

\* The comment at myserver.c:164 is right as long as turns stay apart and no
\* sender was ended: no text is forwarded twice to one user.
THEOREM NoneTwiceApart == ASSUME Apart PROVE Spec => [](~Interrupted => NoneTwice)
<1>1. ChatInv => (~Interrupted => NoneTwice)
  <2>1. ASSUME ChatInv, ~Interrupted, NEW u \in Users,
               NEW j \in DOMAIN log[u], NEW k \in DOMAIN log[u],
               log[u][j] = log[u][k], j < k
        PROVE  FALSE
    <3>1. PICK m, n \in DOMAIN stored :
            m < n /\ stored[m] = log[u][j] /\ stored[n] = log[u][k]
      BY <2>1 DEF ChatInv, SegInv, ShowInv, LogInv
    <3>2. m = n
      BY <2>1, <3>1 DEF ChatInv, TextInv
    <3>3. stored \in Seq(Texts)
      BY <2>1 DEF ChatInv, Types
    <3> QED  BY <3>1, <3>2, <3>3
  <2>2. SUFFICES ASSUME ChatInv, ~Interrupted, NEW u \in Users,
                        NEW j \in DOMAIN log[u], NEW k \in DOMAIN log[u],
                        log[u][j] = log[u][k]
                 PROVE  j = k
    BY DEF NoneTwice
  <2>3. j \in Nat /\ k \in Nat
    BY <2>2 DEF ChatInv, Types
  <2>4. ~(j < k) /\ ~(k < j)
    BY <2>1, <2>2
  <2> QED  BY <2>3, <2>4
<1> QED  BY <1>1, ChatInvariance, PTL
=============================================================================
