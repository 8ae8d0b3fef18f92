------------------------------ MODULE Programs ------------------------------
(***************************************************************************)
(* The small programs of the course, one of which runs in each behaviour:  *)
(* the variable prog says which, the state of the others stays as it is.   *)
(***************************************************************************)
EXTENDS Integers, FiniteSets

CONSTANTS
  Runs,                     \* OpenCount: runs of the program
  Half, MaxNum, MaxDigits,  \* VsysParse: 2^31, 256 and a bound
  Setters, Getters,         \* ShMem: runs of "set" and of "get"
  CreateMayFail,            \* ThreadExit
  Clients,                  \* TcpEcho and SslExchange
  Messages, Pieces,         \* TcpEcho: bounds
  MayFail,                  \* SslExchange
  None                      \* no segment, nobody

ASSUME RunsAssumption == IsFiniteSet(Runs)
ASSUME NoneAssumption == None \notin Setters \cup Getters \cup Clients
ASSUME BoundsAssumption == Messages \in Nat /\ Pieces \in Nat
\* What a run stored is told from what nobody has stored.
ASSUME TextAssumption == "cleared" \notin Setters
\* The range of int is a multiple of the number of ids, and half of it holds
\* all ids.
ASSUME WidthAssumption ==
  /\ Half \in Nat \ {0} /\ MaxNum \in Nat \ {0} /\ MaxDigits \in Nat
  /\ MaxNum <= Half /\ (2 * Half) % MaxNum = 0

VARIABLES prog,
  data, number, pcO, opencnt, spoilt, alone,
  typed, digits, vsysid, ret,
  key, text, pcM, shmidx, created, raced, failed, stored,
  flag, timebuf, at, doing, shown,
  srvT, peerT, queueT, pcT, total, sent, toSrvT, toCliT, cEnd, sEnd, received, long, died,
  srvS, peerS, queueS, pcS, toSrvS, toCliS, cut, shook, report

open == <<data, number, pcO, opencnt, spoilt, alone>>
parse == <<typed, digits, vsysid, ret>>
shm == <<key, text, pcM, shmidx, created, raced, failed, stored>>
thread == <<flag, timebuf, at, doing, shown>>
tcp == <<srvT, peerT, queueT, pcT, total, sent, toSrvT, toCliT, cEnd, sEnd, received, long, died>>
ssl == <<srvS, peerS, queueS, pcS, toSrvS, toCliS, cut, shook, report>>
vars == <<prog, open, parse, shm, thread, tcp, ssl>>

Open == INSTANCE OpenCount WITH pc <- pcO
Parse == INSTANCE VsysParse
Shm == INSTANCE ShMem WITH pc <- pcM
Thread == INSTANCE ThreadExit
Tcp == INSTANCE TcpEcho WITH srv <- srvT, peer <- peerT, queue <- queueT, pc <- pcT,
                             toSrv <- toSrvT, toCli <- toCliT
Ssl == INSTANCE SslExchange WITH srv <- srvS, peer <- peerS, queue <- queueS, pc <- pcS,
                                 toSrv <- toSrvS, toCli <- toCliS

Init == /\ prog \in {"open", "parse", "shm", "thread", "tcp", "ssl"}
        /\ Open!Init /\ Parse!Init /\ Shm!Init /\ Thread!Init /\ Tcp!Init /\ Ssl!Init

OpenStep == prog = "open" /\ Open!Next
            /\ UNCHANGED <<prog, parse, shm, thread, tcp, ssl>>
ParseStep == prog = "parse" /\ Parse!Next
             /\ UNCHANGED <<prog, open, shm, thread, tcp, ssl>>
ShmStep == prog = "shm" /\ Shm!Next
           /\ UNCHANGED <<prog, open, parse, thread, tcp, ssl>>

Others == <<prog, open, parse, shm>>
ThreadStep(A) == prog = "thread" /\ A /\ UNCHANGED <<Others, tcp, ssl>>
TcpStep(A) == prog = "tcp" /\ A /\ UNCHANGED <<Others, thread, ssl>>
SslStep(A) == prog = "ssl" /\ A /\ UNCHANGED <<Others, thread, tcp>>

Next == \/ OpenStep \/ ParseStep \/ ShmStep
        \/ ThreadStep(Thread!Next) \/ TcpStep(Tcp!Next) \/ SslStep(Ssl!Next)

\* The fairness of ThreadExit, TcpEcho and SslExchange.
Fairness ==
  /\ WF_vars(ThreadStep(Thread!Main)) /\ WF_vars(ThreadStep(Thread!Sub))
  /\ WF_vars(TcpStep(Tcp!Server)) /\ WF_vars(SslStep(Ssl!Server))
  /\ \A c \in Clients : /\ WF_vars(TcpStep(Tcp!Client(c)))
                        /\ WF_vars(SslStep(Ssl!Client(c)))
Spec == Init /\ [][Next]_vars /\ Fairness

-----------------------------------------------------------------------------
\* The properties of the modules; each says what it is about there.
LostBySpoiltOnly == Open!LostBySpoiltOnly
IdIsTyped == Parse!IdIsTyped
StoredStays == Shm!StoredStays
TornByOtherOnly == Thread!TornByOtherOnly
JoinReturns == prog = "thread" => Thread!JoinReturns
OrderlyIfWhole == Tcp!OrderlyIfWhole
EveryClientEnds == Tcp!EveryClientEnds
ReportedIsReceived == Ssl!ReportedIsReceived
EveryoneServed == Ssl!EveryoneServed
=============================================================================
