------------------------------ MODULE VsysWire ------------------------------
(***************************************************************************)
(* Messages of libvsys.c on their way: cut into fields by one side, put    *)
(* together again by the other, over a Unix socket (vsd_sock_...) or a     *)
(* pipe (vsd_pipe_...).  A unit stands for some bytes, a number between 0  *)
(* and 255 that may be read as part of anything once the place is lost.    *)
(***************************************************************************)
EXTENDS Integers, Sequences

CONSTANTS
  Sent,      \* Sent[l]: the messages sent over link l
  Atomic,    \* a write of at most so many units is not split: PIPE_BUF
  Cap,       \* units a pipe or a socket holds
  MaxAlloc   \* a larger malloc may fail

Socks == {"user_to_daemon", "daemon_to_user"}
Pipes == {"daemon_to_child", "child_to_daemon"}

\* vsd_pipe_readn has no return statement.  Built without optimisation it
\* returns the count read() left behind, with optimisation 0.
Builds == {"count", "zero"}

VARIABLES
  link, build,   \* what carries the messages, and how libvsys was built
  cur,    \* the message being sent
  out,    \* the units still to be written, one sequence for each field
  chan,   \* the units written and not yet read
  open,   \* the sender has not closed, or died
  at,     \* the field being read: "head", "int", "len", "str", or "idle"
  want,   \* its length in units
  got,    \* what was read of it
  msg,    \* the receiver's message variable
  ret,    \* what the last receive returned: 0 or -1
  before, \* history: msg when the receive began
  eof     \* history: the receive met the end of the stream

chosen == <<link, build>>
reader == <<at, want, got, msg, ret, before, eof>>
vars == <<chosen, cur, out, chan, open, reader>>

Magic == 255
Cmd == [create |-> 1, destroy |-> 2, run |-> 3, link |-> 4, response |-> 5]

IntOf(n) == <<n % 128, n \div 128>>       \* an int is two units
Value(i) == i[1] + 128 * i[2]

\* vsd_get_message_info_choice tells by the command what follows the head.
Command(m) == m.head[2]
HasInt(m) == Command(m) \in {Cmd.run, Cmd.link, Cmd.response}
Strings(m) == CASE Command(m) = Cmd.run -> Value(m.argc)
                [] Command(m) = Cmd.link -> 1
                [] OTHER -> 0

\* What a receiver looks at: the union holds more than the command uses.  The
\* body of a response lies where argc does.
View(m) == [head |-> m.head,
            int |-> IF ~HasInt(m) THEN <<>>
                    ELSE IF Command(m) = Cmd.link THEN m.dst ELSE m.argc,
            strs |-> IF Strings(m) > 0 THEN m.strs ELSE <<>>]

\* Slip: the length sent counts the zero at the end, which is not sent.
SlipStrLen(s) == IntOf(Len(s) + 1)

StrLen(s) == IntOf(Len(s))                \* vsd_sock_send_str

\* The writes of vsd_sock_send_message and vsd_pipe_send_message.  Each string
\* is two: its length, and its units, none if it is empty.
Fields(m) ==
  LET v == View(m)
      part(k) == IF k = 0 THEN <<v.head, v.int>> ELSE <<StrLen(v.strs[k]), v.strs[k]>>
  IN [i \in 1..(IF HasInt(m) THEN 2 * (Len(v.strs) + 1) ELSE 1) |->
        part((i - 1) \div 2)[((i - 1) % 2) + 1]]

\* What a process sends: a head with the magic bytes, for a run the strings
\* that argc counts, for a link its name.  There is memory to receive it, and
\* a pipe takes a head or an int at once.
Pair == {s \in Seq(Nat) : Len(s) = 2}
Message == [head : Pair, argc : Pair, dst : Pair, strs : Seq(Seq(Nat))]
Sendable(m) ==
  /\ m \in Message /\ m.head[1] = Magic
  /\ Strings(m) > 0 => Len(m.strs) = Strings(m)
  /\ Strings(m) <= MaxAlloc
  /\ \A i \in 1..Len(m.strs) : Len(m.strs[i]) <= MaxAlloc
ASSUME SentAssumption ==
  /\ DOMAIN Sent = Socks \cup Pipes
  /\ \A l \in Socks \cup Pipes : \A m \in Sent[l] : Sendable(m)
ASSUME SizeAssumption == Atomic \in Nat /\ Atomic >= 2 /\ Cap \in Nat /\ MaxAlloc \in Nat

\* Uninitialised memory: no message yet.
Junk == [head |-> <<0, 0>>, argc |-> <<0, 0>>, dst |-> <<0, 0>>, strs |-> <<>>]

StartRead == at' = "head" /\ want' = 2 /\ got' = <<>> /\ ret' = 0 /\ eof' = FALSE

Init ==
  /\ link \in Socks \cup Pipes /\ build \in Builds
  /\ cur \in Sent[link] /\ out = Fields(cur)
  /\ chan = <<>> /\ open = TRUE
  /\ at = "head" /\ want = 2 /\ got = <<>>
  /\ msg = Junk /\ ret = 0 /\ before = Junk /\ eof = FALSE

-----------------------------------------------------------------------------
(* The sender.                                                              *)

\* write() of n units of a field, none if it is empty; vsd_sock_writen calls it
\* again for the rest, a pipe's write() only returns when it is done.
Write(n) ==
  /\ open /\ out # <<>>
  /\ LET field == Head(out)
         rest == SubSeq(field, n + 1, Len(field))
     IN /\ n \in 1..Len(field) \/ n = Len(field)
        /\ n <= Cap - Len(chan)
        /\ Len(field) <= Atomic => n = Len(field)
        /\ chan' = chan \o SubSeq(field, 1, n)
        /\ out' = IF rest = <<>> THEN Tail(out) ELSE <<rest>> \o Tail(out)
  /\ UNCHANGED <<chosen, cur, open, reader>>

\* The sender ends, be it that it is killed.
Close == /\ open
         /\ open' = FALSE /\ out' = <<>>
         /\ UNCHANGED <<chosen, cur, chan, reader>>

\* Somebody else connects: a user is a process with a fresh message variable,
\* the daemon's is that of main.
Connect ==
  /\ link \in Socks /\ at = "idle"
  /\ cur' \in Sent[link] /\ out' = Fields(cur')
  /\ chan' = <<>> /\ open' = TRUE
  /\ msg' = IF link = "daemon_to_user" THEN Junk ELSE msg
  /\ before' = msg' /\ StartRead
  /\ UNCHANGED chosen

\* Slip: the magic bytes are not compared.
SlipMagical == TRUE

Magical == msg.head[1] = Magic

\* Daemon and child take turns: the next message on a pipe comes after the
\* last one was taken for a good one.  The daemon compares no magic bytes.
SendNext ==
  /\ link \in Pipes /\ at = "idle" /\ open /\ out = <<>>
  /\ ret = 0 /\ (link = "daemon_to_child" => Magical)
  /\ cur' \in Sent[link] /\ out' = Fields(cur')
  /\ before' = msg /\ StartRead
  /\ UNCHANGED <<chosen, chan, open, msg>>

\* A child that got no message, or one without the magic bytes, reads on.
ReadOn == /\ link = "daemon_to_child" /\ at = "idle" /\ open
          /\ ret = -1 \/ ~Magical
          /\ before' = msg /\ StartRead
          /\ UNCHANGED <<chosen, cur, out, chan, open, msg>>

-----------------------------------------------------------------------------
(* The receiver: one action for a read() of each kind of field.            *)

\* Slip: a socket is read once, like a pipe, and the count not looked at.
SlipLoops == FALSE
Loops == link \in Socks                   \* vsd_sock_readn, vsd_pipe_readn

\* recvlen < sizeof (int), recvlen < datlen: a count that is too small.
Short(g) == IF link \in Pipes /\ build = "zero" THEN want > 0 ELSE Len(g) < want

Await(field, len) == at' = field /\ want' = len /\ got' = <<>> /\ UNCHANGED ret
Return(r) == at' = "idle" /\ want' = 0 /\ got' = <<>> /\ ret' = r
Over(old, g) == g \o SubSeq(old, Len(g) + 1, Len(old))

\* The next string, or the end of the message m.
StringOrEnd(m) == IF Len(m.strs) < Strings(m) THEN Await("len", 2) ELSE Return(0)

\* The head is taken however much of it was read ...
HeadRead(g) ==
  /\ at = "head"
  /\ msg' = [msg EXCEPT !.head = Over(@, g)]
  /\ IF HasInt(msg') THEN Await("int", 2) ELSE Return(0)

\* ... and so is the int after it.
IntRead(g) ==
  /\ at = "int"
  /\ CASE Command(msg) = Cmd.response ->
            msg' = [msg EXCEPT !.argc = Over(@, g)] /\ Return(0)
       [] Command(msg) = Cmd.link ->
            msg' = [msg EXCEPT !.dst = Over(@, g), !.strs = <<>>] /\ Await("len", 2)
       [] OTHER ->
            /\ msg' = [msg EXCEPT !.argc = Over(@, g), !.strs = <<>>]
            /\ \/ StringOrEnd(msg')
               \/ Value(msg'.argc) > MaxAlloc /\ Return(-1)

\* vsd_sock_recv_str, vsd_pipe_recv_str.  The name of a link lies over argc.
LenRead(g) ==
  /\ at = "len"
  /\ IF Short(g) THEN Return(-1) /\ UNCHANGED msg
     ELSE \/ /\ Await("str", Value(g))
             /\ msg' = IF Command(msg) = Cmd.link
                         THEN [msg EXCEPT !.argc = IntOf(MaxAlloc + 1)] ELSE msg
          \/ Value(g) > MaxAlloc /\ Return(-1) /\ UNCHANGED msg

StrRead(g) ==
  /\ at = "str"
  /\ IF Short(g) THEN Return(-1) /\ UNCHANGED msg
     ELSE msg' = [msg EXCEPT !.strs = Append(@, g)] /\ StringOrEnd(msg')

\* read() waits for the first unit, or the end of the stream.
Read ==
  /\ at # "idle"
  /\ want = 0 \/ chan # <<>> \/ ~open
  /\ LET n == IF want - Len(got) <= Len(chan) THEN want - Len(got) ELSE Len(chan)
         g == got \o SubSeq(chan, 1, n)
     IN /\ chan' = SubSeq(chan, n + 1, Len(chan))
        /\ eof' = (eof \/ (n = 0 /\ want > 0))
        /\ IF Loops /\ n > 0 /\ Len(g) < want
             THEN got' = g /\ UNCHANGED <<at, want, msg, ret>>
             ELSE HeadRead(g) \/ IntRead(g) \/ LenRead(g) \/ StrRead(g)
  /\ UNCHANGED <<chosen, cur, out, open, before>>

Next == (\E n \in 0..Cap : Write(n)) \/ Close \/ Connect \/ SendNext \/ ReadOn \/ Read

Spec == Init /\ [][Next]_vars

\* A process that can write or read does; nobody has to send or to die.
FairSpec == Spec /\ WF_vars(\E n \in 0..Cap : Write(n)) /\ WF_vars(Read)

-----------------------------------------------------------------------------
\* A pipe keeps its place if no string can be split and the reads report what
\* they read; a socket always does.
Aligned ==
  link \in Pipes =>
    \A i \in 1..Len(View(cur).strs) :
      build = "count" /\ Len(View(cur).strs[i]) <= Atomic

\* What Vsysd takes for granted: a message that nobody cuts off arrives as it
\* was sent, however its writes and reads fall, whatever was received before.
WholeMessages ==
  at = "idle" /\ Aligned /\ ~eof => ret = 0 /\ View(msg) = View(cur)

\* A receive that is reported as a success gave the message sent or, at the end
\* of the stream, all of the one before: never parts of both, but for a head
\* without what follows it, which is a command to run nothing.  This is also
\* true of a pipe that lost its place, where a child's look at the magic bytes
\* tells; the answers the daemon reads from one need no such look.
AcceptedIsSent ==
  at = "idle" /\ ret = 0 /\ (link = "daemon_to_child" => Magical) =>
    \/ View(msg) = View(cur)
    \/ /\ eof
       /\ \/ View(msg) = View(before)
          \/ /\ msg.head = cur.head /\ msg.argc = before.argc
             /\ View(msg).strs = <<>>

\* No message waits for ever, each side for the other: one that a socket or a
\* pipe in its place carries is received whole, or the sender ended.
EveryMessageArrives ==
  at = "head" /\ open /\ Aligned
    ~> at = "idle" /\ (~open \/ (ret = 0 /\ View(msg) = View(cur)))
=============================================================================
