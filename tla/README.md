# TLA+ models of the network-programming notes

The repository is a collection of C programs for a course on Linux and network
programming (`src/计算机网络C程序`) and a few web pages (`src/前端开发-案例代码`).
Most programs show one call each. The ones with behaviour of their own are the
virtual-system daemon (`CH03/14vsysd`, a third of all the C code), the chat room,
the dining philosophers and the small programs that share a file, a segment or a
flag. This directory holds TLA+ models of them, TLC configurations that check the
models on small instances, and TLAPS proofs that hold for every instance.

Paths below are relative to `src/计算机网络C程序`.

## Inventory

| component | state | operations | interacts with | what is hard |
|---|---|---|---|---|
| `vsysd` daemon (`CH03/14vsysd/vsysd.c`, `main` and the handlers) | listening socket, accepted client, error count, one message variable reused for ever, table `vsysinfo[256][2]`, its pipe ends | accept, receive, create, destroy, run, unknown command | users by a Unix socket; children by `clone` and a pair of pipes | every result of a receive is ignored; SIGPIPE kills; an uninitialised address length makes `accept` fail at random; half-done creations; end of file taken for an answer |
| vsys child (`vsd_vsys_daemon_main`) | inherited descriptors, its id | start, run, destroy, drop a wrong message, exit | daemon by pipes; programs by `fork` | descriptors of other systems inherited by `clone` |
| run start (`vsd_vsys_do_run`, `vsd_vsys_sig_child`) | process being watched, three looks, open stat file | fork, exec, look, answer, collect | child's answer; SIGCHLD handler | handler between any two steps; descriptors that are not closed; looks against time |
| user (`vsys_u.c`) | its connection and command | connect, send, receive, close without a word | daemon | leaves before it sent anything |
| messages (`libvsys.c`) | the place in a stream of bytes | framing, checking, freeing, parsing an id | all of the above | short reads on pipes; a missing `return`; wrap-around of ids |
| philosophers (`CH03/13semop.c`) | six semaphores with undo values, five processes | take, put, enter, leave, terminate, remove | semaphores | deadlock, starvation, processes killed with chopsticks in hand, missing semaphores |
| chat room (`chatroom/`) | shared segment of 1024 bytes, one receiver and one sender per user | receive and store; compare, stamp, send, write back | the segment, without a lock | lost, repeated and mixed messages |
| shared memory (`CH03/11shmem.c`) | a segment and its key | look for, create, attach, clear, get, set, detach, remove | its own concurrent runs | two first users; one who has yet to clear what another has set |
| open counter (`CH03/05opencnt.c`) | a number in a file | read, write back | its own concurrent runs | lost updates; a file that is empty for a moment |
| thread exit (`CH03/09thread.c`) | a flag, one static buffer | ask, take down, join | two threads | a request taken down before it is seen; a buffer written by both |
| TCP pair (`CH04/01tcp*.c`) | one connection | exchange messages, quit | the peer | an unsigned result of `recv`; connections nobody accepts |
| SSL pair (`CH04/06ssl`) | one connection at a time | handshake, one message each way | the peer | failures that pass for successes; a server that ends |
| UDP pair (`CH04/02udp*.c`) | none | datagrams until one says quit | the peer | not much |
| calculator, games, option parsing, file listing, packet capture, database | local | sequential | terminal, library | not much |
| front-end pages | form fields | event handlers | the browser | nothing shared |

What makes each component correct: the daemon never hands one command's answer to
another, never loses a child or a descriptor, answers everyone, and shows its users
a plain set of virtual systems; a run command is answered truthfully; philosophers
exclude one another, never all wait and never starve; every chat message reaches the
other users once; the counter counts every opening nobody overlapped, and none twice; a stored text stays; threads
and connections end; and every message arrives as it was sent.

## Modules

| module | models | extends |
|---|---|---|
| `VsysService` | what users of the daemon are promised: a set of systems, and for each user a command and its outcome | |
| `Vsysd` | daemon, children, users, sockets, pipes, descriptors; the properties; the refinement of `VsysService` | |
| `VsysdProofs` | theorems about `Vsysd` | `Vsysd` |
| `VsysServiceProofs` | the refinement of `VsysService` and what needs the same invariant | `VsysdProofs` |
| `VsysdCrash` | `Vsysd` with users, children or the daemon killed at any point | `Vsysd` |
| `VsysdCrashProofs` | what survives the kills, for any number of them | `VsysdCrash`, `VsysdProofs` |
| `VsysRun` | start of a program in a vsys and the SIGCHLD handler | |
| `VsysRunProofs` | theorems about `VsysRun` | `VsysRun` |
| `Philosophers` | the dining philosophers of `13semop.c` | |
| `PhilosophersProofs` | theorems about `Philosophers` | `Philosophers` |
| `VsysWire` | one message of `libvsys.c` on a socket or a pipe: fields, writes, reads, reassembly | |
| `VsysWireProofs` | theorems about `VsysWire` | `VsysWire` |
| `VsysParse` | an id from its digits | |
| `ChatRoom` | receivers and senders of `chatroom/myserver.c` around their shared segment, and the users | |
| `ChatRoomProofs` | theorems about `ChatRoom` | `ChatRoom` |
| `OpenCount` | runs of `05opencnt.c` around their file | |
| `ShMem` | runs of `11shmem.c` around their segment | |
| `ThreadExit` | the two threads of `09thread.c` | |
| `TcpEcho` | `01tcpserver.c` and its clients | |
| `SslExchange` | `ssl_server.c` and its clients | |
| `Programs` | the small programs together | instances of the six modules |
| `ProgramsProofs` | theorems about the small programs | `Programs` |
| `MC...` | model values, sets and symmetry for TLC | the module checked |

`Programs` instantiates `OpenCount`, `VsysParse`, `ShMem`, `ThreadExit`, `TcpEcho` and
`SslExchange`. Its variable `prog` is chosen at the start and says which of them runs; the
variables of the others stay as they are. The state spaces therefore add up and do not
multiply, and one run of TLC checks all six.

Operators called `Slip...` are plausible mistakes (a forgotten close, a swapped order,
a missing wait). They stand before the definition they resemble and are not part of
any specification; putting one in the place of the original makes TLC report the
property the project file names next to it. They show that the properties can fail.

### Vsysd and the code

The daemon has one thread. `pc` says where it blocks: `accept`, `recv`, the dispatch of
a command, the reads of a child's answer in create, run and destroy, and `waitpid`.
Between two blocking calls the code runs through, so one action covers it, with every
call that changes state: `CreateClones` is pipes, allocations, table entries, clone and
the closing of the child's ends; `Reap` is `waitpid`, the cleaning of the entry, the
answer and the end of the turn. The two columns of `vsysinfo` are two variables because
they are reset at different places: `vsysinfo` (column 0, the child) and `info1`
(column 1, whose memory may be `live`, `freed` or `null`). `msg` is main's message
variable, which is never cleared: `RecvEof` is a receive that reads nothing and leaves
the previous message in it. `fd[q]` is the set of pipe ends process `q` has open; a
clone copies the daemon's. `held[p]` is the client socket a child inherited: the user
behind it sees no end of file while the child lives.

A user is `idle`, `connected`, `waiting`, and ends `ok` or `error`. `Refusers` are users
who may find a mistake in their arguments after connecting (`vsys_u.c:86-95`) and close.

The constant `Faults` names the calls that may fail: `accept` (the address length passed
to it is not initialised; a negative value is an error that has already taken the
connection from the queue), `pipe`, `memory`, `clone`, `stack` (the allocation whose
result is not checked, `vsysd.c:314-318`, so that clone touches unmapped memory), and
`message` (the memory a receive takes for the arguments of a run command,
`libvsys.c:288-290` and `395-399`). The last one has no handler on either side. The daemon
does not look at the result of the receive (`vsysd.c:69`) and follows a null pointer
(`RecvNoMemory`); a child drops the message and answers nothing, and the daemon waits for it
for ever (`ChildDropsRun`). `Lockstep` allows for exactly that.

In builds with optimisation `vsd_pipe_readn`, which has no return statement, makes every
string read from a pipe fail. `Vsysd` models the build without optimisation, in which the
value of `read` happens to be returned and run commands work.

### VsysdCrash and the code

Killing the first process of a pid namespace kills all its processes, so their
descriptors close. The daemon then reads an end of file, which `vsd_pipe_readn` does not
treat as an error: the handler works with a response that was never read. `OnStack` is
what that variable can hold: the success an earlier call of the same handler left on the
stack, or something that passes for no success. A write to a dead child raises SIGPIPE,
which ends the daemon (`SendDownBroken`).

### VsysRun and the code

`prog` is the life of a forked process, `image` the name `/proc/<pid>/stat` shows, `step`
whether the stat file is open. `SeesProgram` is the exit that does not close it. The
handler (`vsd_vsys_sig_child`) stops the watching while it runs and takes one process per
turn of its loop. Time enters through the constant `Prompt`: three looks, a millisecond
apart, are over before the second that a failed process sleeps. Without it the code
promises nothing. A late exec is modelled: a program can be answered as failed and run
all the same, so only "started" means something.

### VsysWire, VsysParse and the code

A message is a record with the fields of the C structure; what lies in one union in C
is `argc`, `dst` and `strs`. `Fields` is what the send functions write, one sequence of
units per `write`: the head, the int, and for each string its length and its units, none if
it is empty. A unit stands for some bytes. `SentAssumption` says what a process sends: the
magic head, as many strings as `argc` counts, and no more of anything than there is memory
for. `chan` is the kernel's buffer. A write of
at most `Atomic` units is not split (`PIPE_BUF` for pipes; on sockets the code loops
anyway); `SizeAssumption` says that a head and an int are no more. The receiver is one action per `read`: `HeadRead`, `IntRead`, `LenRead`, `StrRead`,
and it keeps the two traits of the code that make it hard. The head and the int are taken
however much of them was read, so an old value stays in place of what is missing. And
`vsd_pipe_readn` reads once and has no `return`: in the build `count` the value of `read`
happens to be returned, in the build `zero` every string on a pipe is refused.

The run justifies the whole messages of `Vsysd` and bounds when they are: sockets always
(`readn` loops), pipes as long as no argument is longer than what a pipe takes at once.
A child compares the magic bytes and reads on without them, the daemon does not: `Magical`
guards only what goes down a pipe, and `AcceptedIsSent` asks it only there.
A message cut off by the death of its sender leaves the previous one in the variable, which
is `RecvEof` of `Vsysd`, since `main` ignores a receive that failed (`vsysd.c:69`). One case
is seen here and not in `Vsysd`: a user killed between the head and the count of a run
command leaves a command with the new head and the old count, and if that count was zero the
receive succeeds and the daemon runs a program with no name.

`VsysParse` is `vsd_parse_vsys_str` and the checks its callers in `vsys_u.c` make. The sum is
an `int` without a bound; `Wrapped` is what compilers make of its overflow, `Sent` the
conversion to `unsigned char`. A negative value other than -1 passes for an id.

### Philosophers and the code

`value` and `undo` are the semaphore values and the kernel's undo values (`SEM_UNDO`).
`made` is the set of semaphores that exist: `main` ignores the result of `sem_create`
and removes all of them at the end without waiting for the philosophers, and an
operation on a semaphore that is gone fails silently. The indices of chopsticks are
those of the code; the room is number `N`.

### ChatRoom and the code

`seg` is the shared segment: a text, and how many times the time was appended to it.
`temp[u]` is what the sender of `u` read last. Every library call on the segment is a step
of its own (`memset`, `strncpy`, `strcmp`, `strcpy`, `strcat`, `send`), and there is no lock,
so turns of different processes can mix. Only a sender's sleep of one second keeps them
apart in practice; the constant `Apart` says whether it does. `recv` may return several
lines run together. A user who leaves ends its receiver; its sender goes on until SIGPIPE
ends it, and the time it had appended stays in the segment (`SendFails`, the value `cut`).

Both kinds of processes call `shmat` in every turn, a sender every second, never detach and
never look at the result (`:147`, `:162`). A process that lives long enough runs out of
mappings and crashes (`ClearFails`, `LookFails`, fault `attach`). `LastReachesAll` therefore
speaks of users whose own sender has not crashed, and of turns kept apart: with turns that
overlap, a sender writes back its copy over a text stored since (`:177`) and that text is
lost. Both conditions are part of the property.

A failing `accept` ends the server but not the processes it forked, and these have its
listening socket (`Listening`): connections go on completing and wait for an accept that
never comes, until the last of the processes ends and they are reset (`SocketLeft`). When the
second `fork` fails, the one process there is prints that for ever (`stuck`).

A line is `<<user, number>>`, so lines are distinct: a line that repeats the text in the
segment is, for the program, no new message and never forwarded. `log` and `stored` are
histories: what each sender sent and what was stored.

### The small programs and the code

`OpenCount`: one action per library call on the file; `Open` truncates it, so a run that
reads before the write finds too few bytes and starts from zero. A run may be killed between
any two calls. The counter may lose openings (no lock). Two histories say which: `spoilt` has
the runs that some other run overlapped before they wrote, or that could not read the count,
and `alone` is the number of the others that have written since one of these wrote or was cut
off after its truncation.

`ShMem`: a segment is named by its creator. `Create` uses `IPC_CREAT` without `IPC_EXCL`, so
two runs that both found nothing both believe they created the segment and both clear it.
`raced` and `failed` are histories that say when this, or a removal by a run that could not
attach, may have hit a stored text. `Cleared` is what `memset` leaves, told apart from a text
that was set, which may itself be empty (`set` without a string).

`ThreadExit`: the flag is a plain variable that the thread itself takes down, and
`current_time_str` returns a static buffer, whose filling is three steps of each thread
(`Copy`, `Cut`, `PrintLine`). When `pthread_create` fails, `pthread_join` gets an
uninitialised thread.

`TcpEcho`: the result of `recv` is kept in an unsigned `socklen_t`, so the error -1 passes
for a message and is answered. `Ends` is what TCP tells each side: an end of file, a reset
that the next call reports, or SIGPIPE for a write after that. A `recv` may take several
answers, or several pieces of a message, at once. Clients the server never
accepts are in `queue`, and their connections are reset when the server ends.

`SslExchange`: the server's loop over clients. A handshake that fails ends the server, one
that is shut down does not, and an `SSL_write` or `SSL_read` that fails with -1 is reported as
a success, for the same reason as above. A write of the handshake or of the shut-down to a
client that is gone may end the server with SIGPIPE (`Ends`).

## Runs

| run | configuration | shows |
|---|---|---|
| core | `MCVsysd.cfg` | lock step with children, table, descriptors, no double free, matching answers, destroy means gone |
| silent | `VsysdSilent.cfg` | types and the proofs' invariant (`SInv`) with every fault and silent users; a replayed message changes nothing; only users who leave and a lack of memory kill the daemon; `Vsysd` implements `VsysService` |
| live | `VsysdLive.cfg` | every command ends |
| crash | `VsysdCrash.cfg` | table, pipes and descriptors after a kill |
| crash_live | `VsysdCrashLive.cfg` | every command ends after a kill, but for a create cut short |
| run_start | `VsysRun.cfg` | failures reported while descriptors last, processes collected, commands answered |
| run_no_fds | `VsysRunNoFds.cfg` | a violation: see Findings |
| wire | `VsysWire.cfg` | a message nobody cuts off arrives whole; what is accepted was sent; no message waits for ever |
| dining | `Philosophers.cfg` | exclusion by each chopstick that exists; never all stuck; everything given back; no starvation |
| programs | `Programs.cfg` | only overlapping and cut-off runs lose counts; an id is the number typed; a stored text stays; a line is torn only by the other thread's half-done one and main's join returns; TCP clients get orderly answers and end; SSL messages reported were received and everyone is served |
| chat | `ChatRoom.cfg` | turns kept apart: texts in order, at most once; the last one reaches everyone who stays and whose sender lives |
| chat_twice | `ChatRoomTwice.cfg` | turns that overlap, a violation: see Findings |

Bounds. Two ids, two users and two process slots are the least for one vsys to disturb
another: a second child is cloned while the first lives and inherits its ends, an id is
reused by the slot another id had, one user waits in the listen queue while the other is
served. `Backlog` (5 in the code) is 0 or 1, so that a full queue occurs; `MaxAcceptErrs`
(100 in the code) is 0 or 1. One process is killed in a behaviour; with two kills the
liveness run gives the same result but takes minutes. The behaviours are otherwise
unbounded: users issue commands for ever. `VsysRun` has three process slots that are
reused for ever and three descriptors, so that the limit is met. The philosophers are
four with three seats (five with four in the code; the proofs cover every number), with one
chopstick, the room, both or neither missing (which chopstick makes no difference in a ring;
any set is covered by the proofs). In the chat room two users
type two lines each: lines of one user can run together, be skipped by a slow sender, or be
overwritten by the other user's; `Backlog` is 1 instead of 10.

On the wire `Atomic` is two units and the longest argument three, so that an argument can be
split and one is not; the buffer holds four units, less than a message, so that writers wait;
`MaxAlloc` is 100, above any count that was sent and below the ones that come out of a stream
whose place is lost. The messages include an empty argument, two long ones, and one whose
length has the number of a command. `VsysParse` is scaled down: `int` wraps at 1024, ids end
at 32 and up to four digits are typed, so that sums wrap more than once (the proof covers the
real widths). Three runs of the counter overlap, the least in which one update can hide two;
two setters and one getter share a segment; two TCP clients send up to two messages in up to
two pieces; two SSL clients follow each other with any failure of the setup, of `accept` and
of the handshake.

Deadlock is checked except in the run `silent`, where a child without memory for a run command
leaves the daemon waiting for ever (that one fault is left out of `core` and `live`, which check
deadlock and liveness), for the philosophers, who stop when
main has ended them (there `NeverAllStuck` takes its place), the chat room, which rests
when all lines are typed and forwarded, the small programs, which end, and the wire, where a
pipe that lost its place really stops (`EveryMessageArrives` says for which ones that cannot
happen).

Fairness. The scheduler runs the daemon, each child and each user that has something to
do: weak fairness of their next steps. No user has to issue a command. A process whose
user killed it, and all faults, are never forced. In `VsysRun` only the handler and the
watching are fair; a program may run for ever and a fork may never reach exec. Steps of a
philosopher are strongly fair because `semop` serves waiting processes in order: a
semaphore that becomes free again and again reaches each of them.

In the chat room receivers and senders are strongly fair where turns are kept apart: a turn
takes microseconds and a sender sleeps a second before the next, so a quiet moment comes
again and again, and whoever waits for one gets it. A sender is never forced to crash on a
failed attach: fairness is of its other steps. Users need not type, leave or connect.

On the wire the writer and the reader are weakly fair, in `ThreadExit` both threads, in
`TcpEcho` and `SslExchange` the server and each client that has connected. Nobody has to
connect, and nothing has to fail or to be killed.

## Proofs

`VsysdProofs` proves `Spec => []IInv` for any ids, users, slots, refusers, faults and bounds,
and from it the type invariant, `Lockstep`, `TableSound`, `NoDescriptorLeak`,
`NoDanglingFree`, `ReplyMatches` and the action property `GoneWhenTold`. None of these is
inductive alone. `ProcInv` ties the state of each process slot to the point the daemon is
at (a child that is starting is the one whose creation is awaited; one that is exiting is
the one being destroyed) and to the contents of its pipes; `EntryInv` says that the table
is injective and names exactly the living children; `FdInv` gives the descriptors of every
process; `InfoInv` the second column; `ReplyInv` ties the command being executed and the
response in a socket to the command of the user served. `ReplyInv` has to allow for silent
users: then the message executed is somebody else's, but that user reads nothing.

`VsysRunProofs` proves that a failed exec is never reported as a start while a descriptor
is left, and that a descriptor is lost only by a reported success. The invariant adds that
a watched process that was collected had become its program, which is where `Prompt` is
used.

`VsysServiceProofs` proves that `Vsysd` implements `VsysService` (`ImplementsServiceHolds`),
for any constants. `SInv` adds two parts to `IInv`. `WaitInv`: a user whose connection waits
or is being served waits once, has no answer yet, and is still there or left without a word;
nobody waits for a daemon that has stopped. `ReplayInv`: if the message in `msg` is a destroy
that is not, or no longer, executed for a user who asked for it, its vsys is not registered.
So the command a silent user makes the daemon repeat never ends in a reaped child
(`ReapDestroys`), and a repeated create or run ends with a write to a closed socket, which is
the `Stop` of the service. Each step of the daemon is mapped by a lemma: `Connect` to `Ask`,
the answers of children to `Create`, `Run` and `Destroy`, failed handlers and a failed accept
to `Reject`, a death to `Stop`; everything else is a stutter. The same invariant gives
`OnlyAskedChanges` and, without any hypothesis, `KilledByLeavers`: a daemon that is killed was
serving a user who closed the connection without a command, or had no memory for a stack or a
message.

Liveness cannot be proved with these provers, but the states it starts from can. `TurnGoesOnHolds`:
at each point where the daemon blocks, the guard of one of its actions is true, or the user served
has yet to send, or the child awaited can step; when a vsys is to be created, a process slot is
free (by counting: there are at least as many slots as ids, in the code as many as the kernel has
pids). `UnansweredHolds`: a user without an answer is in the queue or being served, or sees the end
of its connection, although children inherit client sockets and never close them. The invariant
for both is `SentInv` (a command that was sent and not received is still in its socket) and
`HeldInv` (a child holds the socket of a user who has been answered or is waiting for that child).
`EndsNoticedHolds` does this for SIGCHLD in `VsysRun` (a zombie has a signal or a running handler),
and `NeverBothWaitHolds` for the wire (whenever the reader must wait, the writer can write). What
TLC adds with fairness is that these steps are taken and lead to the end.

`VsysdCrashProofs` proves the three invariants of `VsysdCrash` for any number of kills and any
constants. `ProcInv` is of no use here, since the child behind an entry may be dead and its last
command unread. Four weaker parts, and the type lemmas of `VsysdProofs`, are enough: a registered
slot was cloned for its id and is not free (`OwnInv`); a living child has its writing end, so that
an end of file means a dead one (`EndsInv`); the daemon's descriptors are those of the table
(`LeakInv`); and a vsys that is not waited for has nothing in its pipe and nothing to say, while
one that is waited for owes one answer at most (`PipeInv`). A fifth, `CmdInv`, says which command
each wait belongs to; the answer made up after an end of file has its type by it.

`PhilosophersProofs` proves for any number of philosophers and seats, with any semaphores
missing and anyone killed: exclusion, that everything is given back, and, for fewer seats than
philosophers, that those in the room are never all stuck. The invariant says that the undo
value of a living philosopher is 1 on exactly the semaphores it holds, that each chopstick
that exists is on the table or owed by one neighbour (value plus the two undo values is one),
and that the room's value and the number of those seated add up to the seats (`RoomInv`,
a cardinality). Three lemmas (`Taking`, `Giving`, `Moving`) carry the steps. For the deadlock:
one who is blocked waits for a neighbour (`WaitsFor`), so if all in the room were blocked, the
room would be the whole ring (`WholeRing`, by the least index outside), which has more members
than there are seats.

`ChatRoomProofs` proves for any users and lines, and as long as turns stay apart (`Apart`),
that whatever a sender forwards was stored, and that each user gets the texts in the order they
were stored and none twice (`ForwardedInOrderHolds`). The invariant has four parts: who has no
process yet (`HomeInv`); one process at most is in the middle of its turn (`TurnInv`, which uses
`Apart`); no text is stored twice, since a receiver takes lines that no text has yet (`TextInv`);
and until a sender is ended with the time in the segment, the segment shows the text stored last
and `temp` the one sent last (`SegInv`). `NoneTwiceApart` is the other side of a finding: the
comment the run `chat_twice` contradicts is right exactly under these two conditions.

`VsysWireProofs` proves for any messages, sizes and splitting of writes and reads that a message
which nobody cuts off arrives whole (`WholeMessagesHold`), and that what a receive accepts was
sent, wherever the sender died (`AcceptedIsSentHolds`). `PlaceInv` gives the writer and the
reader each a position in the stream of fields. Where a field starts is known as far as one of
the two has come (`Offsets`), so that nothing has to be summed up by induction; what lies between
them is in the channel (`InTransit`); what the writer still has is the rest of its field and the
fields after it (`Writing`); and the field the reader is at says what is in its message already
(`Reading`, `Stage`). `Kept` says what is left there of the message before: the small fields are
never read in part, so either all of it, or all but the head. Both theorems have the hypothesis
`[]Aligned`, for a stream keeps its place only as long as every message on it does. `SocketsHold`
discharges it for sockets. `PipesHold` does for pipes whose strings are all short, in a build that
returns what was read. `WireTypeCorrect` needs none of this.

`ProgramsProofs` proves, for the small programs together, the six invariants that the run
`programs` checks. Each part is about one program; the steps of the others leave its state alone
(`ProgramStep`). The counter is strengthened by a bound on what each run has read (`Bounded`) and
by what a run that nobody overlapped has read being at least the count so far (`Lonely`);
the segment by what is known of it at each point of a run that has attached to it (`OneSegment`,
`Kept`, `Fresh`, `Back`); an id by the wrapped sum and the typed number being equal modulo the
range of `int`, and so modulo the number of ids, which divides it (`ParseInv`); a printed
line by where both threads stand in the filling of their buffer, and main's first and last by
nobody else writing it (`Alone`). For the TCP
pair, one message at a time is on its way, unread, being answered or answered, with its client
waiting (`Exchange`), as long as no message came in pieces (`WholeInv`). For the SSL pair, each
client waits, is served and is cut off in this order (`ServedOnce`), and one that reports a
message was served or had its handshake shut down or was killed (`Spoken`, `Truthful`).

The assumptions are the named ASSUMEs of the modules, which TLC evaluates in every run: that
the daemon is not a child, that the null values are not members of the sets they complete, that
there are at least two philosophers, what is sent on the wire and what a pipe takes at once, that
finitely many runs count, that a text somebody set is told from a cleared segment, and that the range of `int` is a
multiple of the number of ids. Some theorems have one of their own, in their statement: finitely many
ids, at least as many processes, and memory for messages (`TurnGoesOnHolds`), fewer seats than philosophers (`NeverAllStuckHolds`), turns that stay apart
(the three of `ChatRoomProofs`), streams that keep their place (those of `VsysWireProofs`, with a
socket or short strings in its corollaries), and a pipe that holds what it takes at once
(`NeverBothWaitHolds`).

Only model-checked: `AcceptedIsSent` for a pipe that has lost its place, where it depends on the
messages that are sent (units of one that happen to read as a head of another); and all liveness,
which is out of the prover's reach.

## Findings

*A program that could not be started is reported as started* (run `run_no_fds`).
`vsd_vsys_do_run` does not close the stat file when it reports a start
(`CH03/14vsysd/vsysd.c:511-513`). Each successful run command costs the vsys a
descriptor. When none is left `open` fails, which is answered with a success
(`vsysd.c:498-501`), although the comment at `vsysd.c:485` says "Sleep for a while to make
the parent to experience the error." With a limit of 24 descriptors the program does this
after about 20 run commands.

*Messages of the chat room are repeated* (run `chat_twice`). The comment at
`chatroom/myserver.c:164` says that `temp` shows whether a message has been read. But a
sender appends the time to the segment all senders share (`:170`), so another sender sees a
text it does not know and forwards it again. It takes two turns that overlap; when they do
not, order, uniqueness and delivery of the last text hold (run `chat`).

Behaviour the models include and a reader should know of, without a text that says
otherwise: a user who connects and sends nothing makes the daemon execute the previous
command again, and if that was the first connection or the command has an answer, the
daemon dies of SIGPIPE; a failing `accept` resets the connection of a user, and about a
hundred of them end the daemon; a vsys whose daemon is killed reads the end of file for
ever and never ends; and without memory for the arguments of a run command the daemon follows a
null pointer or, when the child lacks it, waits for ever. In the chat room the segment is cleared (`:148`, `:176`) before it is
written, so a sender whose turn overlaps can forward an empty text; `BACKLOG` bounds the
connections that wait, not the users that are served; a line that repeats the text in the
segment is never forwarded; a text stored while a sender is between its copy and its write-back
is lost; processes that never detach the segment crash in the end; and users who connect after
the server has ended wait for as long as any process of an earlier user lives. Overlapping runs
of the counter lose counts. A set of the shared segment is lost when a second first user clears
after it. A message of the TCP pair that comes in two pieces gets two answers, and a failing read
of the TCP or SSL server passes for a message. Where the properties hold only without one of
these, they say so (`spoilt`, `raced`, `long`, the conditions of `ReportedIsReceived`).

## Not modelled, and the plan

1. An abstract channel of messages that `VsysWire` implements while its stream keeps its place,
   by the positions of `PlaceInv`.
2. An abstract chat room that delivers every message once, and under which schedule
   `ChatRoom` implements it; overwritten messages; two readers of one terminal in the client.

Not planned, and why. UDP pair: the server keeps no state that datagrams in any order could
spoil. Pipe, signal and daemon demonstrations (`CH03/12pipe.c`, `10signal.c`, `08daemon.c`): one
write and one read, one handler that prints and exits, one fork. Packet capture, file listing,
time and database exercises: library calls and output only. The calculator, the guessing game
and the command-line exercises: sequential, with nothing that a model would add to reading
them. Freeing and printing of messages in `libvsys.c`. The front-end pages belong to another
course and share nothing with the C programs.
