----------------------------- MODULE MCChatRoom -----------------------------
(* Model checking ChatRoom.                                                *)
EXTENDS ChatRoom

CONSTANTS a, b

TwoUsers == {a, b}
NoUsers == {}
OneLeaver == {b}
NoFaults == {}
AllFaults == {"accept", "fork", "attach"}
=============================================================================
