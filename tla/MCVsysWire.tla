---------------------------- MODULE MCVsysWire ----------------------------
(* Model checking VsysWire: requests and answers as the daemon, its users   *)
(* and its children send them.                                              *)
EXTENDS VsysWire

Char == 120
Sending(cmd, argc, dst, strs) ==
  [head |-> <<Magic, cmd>>, argc |-> argc, dst |-> dst, strs |-> strs]

\* An empty argument, a short one, and ones that a pipe may split, the second
\* with the length that is the command number of run.
Long == <<Char, Char, Char>>
Run(strs) == Sending(Cmd.run, IntOf(Len(strs)), <<0, 0>>, strs)
Runs == {Run(<< <<>>, <<Char>> >>), Run(<< Long >>), Run(<< Long, Long >>)}
Create == Sending(Cmd.create, <<0, 0>>, <<0, 0>>, <<>>)
Destroy == Sending(Cmd.destroy, <<0, 0>>, <<0, 0>>, <<>>)
LinkMove == Sending(Cmd.link, <<0, 0>>, <<7, 0>>, << <<Char, Char>> >>)
Answer(cmd) == Sending(Cmd.response, <<cmd, 6>>, <<0, 0>>, <<>>)

MCSent == [user_to_daemon |-> {Create, LinkMove} \cup Runs,
           daemon_to_user |-> {Answer(Cmd.run)},
           daemon_to_child |-> {Destroy} \cup Runs,
           child_to_daemon |-> {Answer(Cmd.run), Answer(Cmd.destroy)}]
=============================================================================
