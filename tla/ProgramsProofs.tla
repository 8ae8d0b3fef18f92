--------------------------- MODULE ProgramsProofs ---------------------------
(***************************************************************************)
(* Proofs about the small programs, for any processes and bounds.  Each    *)
(* part proves an invariant of one program; the others leave its state as  *)
(* it is.                                                                  *)
(***************************************************************************)
EXTENDS Programs, FiniteSetTheorems, TLAPS

\* What a step of the whole does to each program.
LEMMA ProgramStep ==
  ASSUME [Next]_vars
  PROVE  /\ Open!Next \/ UNCHANGED open
         /\ Parse!Next \/ UNCHANGED parse
         /\ Shm!Next \/ UNCHANGED shm
         /\ Thread!Next \/ UNCHANGED thread
         /\ Tcp!Next \/ UNCHANGED tcp
         /\ Ssl!Next \/ UNCHANGED ssl
  BY DEF Next, OpenStep, ParseStep, ShmStep, ThreadStep, TcpStep, SslStep, Others, vars

-----------------------------------------------------------------------------
(* The open counter.                                                       *)

LEMMA CounterTypes ==
  /\ Open!Init => Open!TypeOK
  /\ Open!TypeOK /\ Open!Next => Open!TypeOK'
<1>1. Open!Init => Open!TypeOK
  BY DEF Open!Init, Open!TypeOK
<1>2. Open!TypeOK /\ Open!Next => Open!TypeOK'
  BY DEF Open!TypeOK, Open!Next, Open!Step, Open!Access, Open!Read, Open!ReadFails,
         Open!Open, Open!Write, Open!CutShort, Open!Goto, Open!file, Open!Overlapped,
         Open!Underway
<1> QED  BY <1>1, <1>2

\* The types of OpenCount, for any set of runs.
THEOREM CounterTypeCorrect == Spec => []Open!TypeOK
<1>1. Init => Open!TypeOK
  BY CounterTypes DEF Init
<1>2. Open!TypeOK /\ [Next]_vars => Open!TypeOK'
  BY CounterTypes, ProgramStep DEF open, Open!TypeOK
<1> QED  BY <1>1, <1>2, PTL DEF Spec

\* What a run read may be old, but it never exceeds the number of runs that have
\* written: that number only grows.
Bounded == /\ number <= Cardinality(Open!Done)
           /\ \A r \in Runs : opencnt[r] <= Cardinality(Open!Done)

LEMMA DoneCounts == IsFiniteSet(Open!Done) /\ Cardinality(Open!Done) \in Nat
  BY RunsAssumption, FS_Subset, FS_CardinalityType DEF Open!Done

\* A run that writes is one more that has written.
LEMMA WriteBounded ==
  ASSUME Open!TypeOK, Bounded, NEW r \in Runs, Open!Write(r)
  PROVE  Bounded'
<1>1. Open!Done' = Open!Done \cup {r} /\ r \notin Open!Done
  BY DEF Open!Write, Open!Goto, Open!Done, Open!TypeOK
<1>2. Cardinality(Open!Done') = Cardinality(Open!Done) + 1
  BY <1>1, DoneCounts, FS_AddElement
<1>3. number' <= Cardinality(Open!Done')
  BY <1>2, DoneCounts DEF Open!Write, Bounded, Open!TypeOK
<1>4. \A q \in Runs : opencnt'[q] <= Cardinality(Open!Done')
  BY <1>2, DoneCounts DEF Open!Write, Bounded, Open!TypeOK
<1> QED  BY <1>3, <1>4 DEF Bounded

\* Nobody else has written when another step was taken.
LEMMA OtherBounded ==
  ASSUME Open!TypeOK, Bounded, NEW r \in Runs,
         \/ Open!Access(r) \/ Open!Read(r) \/ Open!ReadFails(r)
         \/ Open!Open(r) \/ Open!CutShort(r)
  PROVE  Bounded'
<1> USE DEF Open!Access, Open!Read, Open!ReadFails, Open!Open, Open!CutShort, Open!Goto,
            Open!file, Open!TypeOK
<1>1. Open!Done' = Open!Done
  BY DEF Open!Done
<1>2. number' <= Cardinality(Open!Done)
  BY DoneCounts DEF Bounded
<1>3. \A q \in Runs : opencnt'[q] <= Cardinality(Open!Done)
  BY DoneCounts DEF Bounded
<1> QED  BY <1>1, <1>2, <1>3 DEF Bounded

\* Runs under way together are spoilt, and a run that is not has read a count
\* that all the runs alone before it are in.
Lonely ==
  /\ data # "number" => number = 0
  /\ data = "absent" => alone = 0
  /\ \A p, q \in Open!Underway : p # q => p \in spoilt
  /\ \A r \in Runs : pcO[r] \in {"open", "write"} /\ r \notin spoilt => alone <= opencnt[r]
  /\ (\A r \in Runs : pcO[r] # "write") => alone <= number

LEMMA LonelyStep ==
  ASSUME Open!TypeOK, Lonely, NEW r \in Runs, Open!Step(r)
  PROVE  Lonely'
<1> USE DEF Open!TypeOK, Lonely, Open!Underway, Open!Goto, Open!file
<1>1. CASE Open!Access(r)     BY <1>1 DEF Open!Access, Open!Overlapped
<1>2. CASE Open!Read(r)       BY <1>2 DEF Open!Read
<1>3. CASE Open!ReadFails(r)  BY <1>3 DEF Open!ReadFails
<1>4. CASE Open!Open(r)       BY <1>4 DEF Open!Open
<1>5. CASE Open!Write(r)      BY <1>5 DEF Open!Write
<1>6. CASE Open!CutShort(r)   BY <1>6 DEF Open!CutShort
<1> QED  BY <1>1, <1>2, <1>3, <1>4, <1>5, <1>6 DEF Open!Step

\* However many runs overlap, fail or are killed (05opencnt.c reads and writes
\* without a lock), the file never shows more than the number of runs that wrote
\* it, nor less than those that ran alone since an opening could be lost.
THEOREM LostBySpoiltOnlyHolds == Spec => []LostBySpoiltOnly
<1>1. Init => Bounded /\ Lonely
  <2> SUFFICES ASSUME Open!Init  PROVE Bounded /\ Lonely
    BY DEF Init
  <2>1. Bounded
    BY DoneCounts DEF Open!Init, Bounded
  <2>2. Lonely
    BY DEF Open!Init, Lonely, Open!Underway
  <2> QED  BY <2>1, <2>2
<1>2. Open!TypeOK /\ Bounded /\ Lonely /\ [Next]_vars => Bounded' /\ Lonely'
  <2> SUFFICES ASSUME Open!TypeOK, Bounded, Lonely, [Next]_vars
               PROVE  Bounded' /\ Lonely'
    OBVIOUS
  <2>1. CASE UNCHANGED open
    BY <2>1 DEF open, Bounded, Lonely, Open!Done, Open!Underway
  <2>2. CASE Open!Next
    <3>1. PICK r \in Runs : Open!Step(r)
      BY <2>2 DEF Open!Next
    <3>2. Bounded'
      BY <3>1, WriteBounded, OtherBounded DEF Open!Step
    <3> QED  BY <3>1, <3>2, LonelyStep
  <2> QED  BY <2>1, <2>2, ProgramStep
<1>3. Bounded /\ Lonely => LostBySpoiltOnly
  BY DEF Bounded, Lonely, LostBySpoiltOnly, Open!LostBySpoiltOnly, Cardinality,
         Open!Cardinality
<1> QED  BY <1>1, <1>2, <1>3, CounterTypeCorrect, PTL DEF Spec
-----------------------------------------------------------------------------
(* Ids from digits, for integers of any width and any number of ids that   *)
(* divides their range: 2^32 and 256 in the code.                          *)

Span == 2 * Half

Ints == (0 - Half)..(Half - 1)

\* The int differs from the number typed by a multiple of the range of int.
ParseInv ==
  /\ typed \in Nat /\ digits \in Nat /\ vsysid \in Ints
  /\ ret \in {"none", "word", "refused", "id"}
  /\ \E k \in Int : vsysid = typed + k * Span
  /\ ret = "id" => Parse!Valid(vsysid)
  /\ ret = "refused" => ~Parse!Valid(vsysid)

LEMMA Distributes == \A a, b, c \in Int : (a + b) * c = a * c + b * c
  OBVIOUS

LEMMA Remainder ==
  ASSUME NEW n \in Int, NEW m \in Nat \ {0}
  PROVE  /\ n % m \in 0..(m - 1) /\ n \div m \in Int
         /\ n = m * (n \div m) + (n % m)
<1>1. n % m \in 0..(m - 1)
  OBVIOUS
<1>2. n \div m \in Int
  OBVIOUS
<1>3. n = m * (n \div m) + (n % m)
  OBVIOUS
<1> QED  BY <1>1, <1>2, <1>3

LEMMA Widths ==
  /\ Half \in Nat \ {0} /\ MaxNum \in Nat \ {0} /\ MaxNum <= Half
  /\ Span = 2 * Half /\ Span \in Nat \ {0} /\ \E q \in Int : Span = q * MaxNum
<1>1. /\ Half \in Nat \ {0} /\ MaxNum \in Nat \ {0} /\ MaxNum <= Half
      /\ Span = 2 * Half /\ Span \in Nat \ {0} /\ Span % MaxNum = 0
  BY WidthAssumption DEF Span
<1> DEFINE q == Span \div MaxNum
<1>2. q \in Int /\ Span = MaxNum * q + (Span % MaxNum)
  <2>1. Span \in Int
    BY <1>1
  <2> QED  BY <1>1, <2>1, Remainder, Zenon
<1> HIDE DEF q
<1>3. Span = q * MaxNum
  BY <1>1, <1>2
<1> QED  BY <1>1, <1>2, <1>3

\* Adding a multiple does not change the remainder.
LEMMA SameRemainder ==
  ASSUME NEW n \in Int, NEW j \in Int, NEW m \in Nat \ {0}
  PROVE  (n + j * m) % m = n % m
<1> DEFINE a == (n + j * m) % m
           b == n % m
           x == (n + j * m) \div m
           y == n \div m
           d == y + j - x
<1>0. j * m \in Int /\ n + j * m \in Int
  OBVIOUS
<1>1. a \in 0..(m - 1) /\ x \in Int /\ n + j * m = m * x + a
  BY <1>0, Remainder
<1>2. b \in 0..(m - 1) /\ y \in Int /\ n = m * y + b
  BY Remainder
<1> HIDE DEF a, b, x, y
<1>3. d \in Int /\ d * m = y * m + j * m - x * m
  BY <1>1, <1>2
<1>4. a - b = d * m
  BY <1>1, <1>2, <1>3
<1> HIDE DEF d
<1>5. d = 0
  <2>1. CASE d >= 1
    <3>1. d * m >= m
      BY <2>1, <1>3
    <3> QED  BY <3>1, <1>1, <1>2, <1>4
  <2>2. CASE d <= -1
    <3>1. d * m <= -m
      BY <2>2, <1>3
    <3> QED  BY <3>1, <1>1, <1>2, <1>4
  <2> QED  BY <2>1, <2>2, <1>3
<1>6. a = b
  BY <1>1, <1>2, <1>4, <1>5
<1> QED  BY <1>6 DEF a, b

\* Wrapping around stays in the range of int, and subtracts a multiple of it.
LEMMA Wrapping ==
  ASSUME NEW n \in Int
  PROVE  Parse!Wrapped(n) \in Ints /\ \E k \in Int : Parse!Wrapped(n) = n + k * Span
<1>1. Half \in Nat \ {0} /\ Span \in Nat \ {0} /\ Span = 2 * Half /\ n + Half \in Int
  BY Widths
<1> DEFINE r == (n + Half) % Span
           q == (n + Half) \div Span
<1>2. r \in 0..(Span - 1) /\ q \in Int /\ n + Half = Span * q + r
  BY <1>1, Remainder
<1>3. Parse!Wrapped(n) = r - Half
  BY DEF Parse!Wrapped, Span
<1> HIDE DEF r, q
<1>4. Parse!Wrapped(n) \in Ints
  BY <1>1, <1>2, <1>3 DEF Ints
<1>5. Span * q = q * Span /\ (0 - q) * Span = 0 - q * Span /\ 0 - q \in Int
  BY <1>1, <1>2
<1>6. Parse!Wrapped(n) = n + (0 - q) * Span
  BY <1>1, <1>2, <1>3, <1>5
<1> QED  BY <1>4, <1>5, <1>6

\* One more digit: both numbers grow alike, up to a multiple of the range.
LEMMA DigitInv ==
  ASSUME ParseInv, NEW d \in 0..9, Parse!Digit(d)
  PROVE  ParseInv'
<1>1. PICK k \in Int : vsysid = typed + k * Span
  BY DEF ParseInv
<1>2. /\ typed \in Nat /\ vsysid \in Int /\ typed' = typed * 10 + d
      /\ vsysid' = Parse!Wrapped(vsysid * 10 + d) /\ ret = "none" /\ ret' = ret
      /\ digits' = digits + 1
  BY DEF ParseInv, Parse!Digit, Parse!Add, Ints
<1>3. vsysid * 10 + d \in Int
  BY <1>2
<1>4. PICK j \in Int : Parse!Wrapped(vsysid * 10 + d) = vsysid * 10 + d + j * Span
  BY <1>3, Wrapping
<1>5. Span \in Int
  BY Widths
<1>6. (k * Span) * 10 + j * Span = (k * 10 + j) * Span /\ k * Span \in Int
      /\ k * 10 + j \in Int /\ j * Span \in Int
  BY <1>5
<1>7. vsysid' = typed' + (k * 10 + j) * Span
  BY <1>1, <1>2, <1>4, <1>6
<1>8. vsysid' \in Ints
  BY <1>2, <1>3, Wrapping
<1> QED  BY <1>2, <1>6, <1>7, <1>8 DEF ParseInv, Span

LEMMA ParseNext == ParseInv /\ [Next]_vars => ParseInv'
<1> SUFFICES ASSUME ParseInv, [Next]_vars  PROVE ParseInv'
  OBVIOUS
<1>1. CASE UNCHANGED parse
  BY <1>1 DEF parse, ParseInv, Parse!Valid
<1>2. CASE Parse!NoDigit
  BY <1>2 DEF Parse!NoDigit, ParseInv
<1>3. CASE Parse!End
  BY <1>3 DEF Parse!End, ParseInv, Parse!Valid
<1> QED  BY <1>1, <1>2, <1>3, DigitInv, ProgramStep DEF Parse!Next

\* What the invariant says of an id.
LEMMA ParseIsTyped ==
  ASSUME ParseInv
  PROVE  IdIsTyped
<1>1. PICK k \in Int : vsysid = typed + k * Span
  BY DEF ParseInv
<1>2. PICK q \in Int : Span = q * MaxNum
  BY Widths
<1>3. /\ typed \in Nat /\ vsysid \in Int /\ vsysid >= 0 - Half /\ vsysid < Half
      /\ Half \in Nat \ {0} /\ MaxNum \in Nat \ {0} /\ Span = 2 * Half /\ MaxNum <= Half
  BY Widths DEF ParseInv, Ints
<1>4. vsysid % MaxNum = typed % MaxNum
  <2>1. k * (q * MaxNum) = (k * q) * MaxNum /\ k * q \in Int
    BY <1>3
  <2>2. vsysid = typed + (k * q) * MaxNum
    BY <1>1, <1>2, <2>1
  <2>3. (typed + (k * q) * MaxNum) % MaxNum = typed % MaxNum
    <3> DEFINE j == k * q
    <3>1. j \in Int
      BY <2>1
    <3> HIDE DEF j
    <3>2. \A n, i \in Int : \A m \in Nat \ {0} : (n + i * m) % m = n % m
      BY SameRemainder
    <3>3. typed \in Int /\ MaxNum \in Nat \ {0}
      BY <1>3
    <3>4. (typed + j * MaxNum) % MaxNum = typed % MaxNum
      BY <3>1, <3>2, <3>3, Zenon
    <3> QED  BY <3>4 DEF j
  <2> QED  BY <2>2, <2>3
<1>5. ASSUME typed < Half  PROVE vsysid = typed
  <2>1. CASE k >= 1
    <3>1. k * Span >= Span /\ k * Span \in Int
      BY <2>1, <1>3
    <3> QED  BY <3>1, <1>1, <1>3
  <2>2. CASE k <= -1
    <3>1. k * Span <= 0 - Span /\ k * Span \in Int
      BY <2>2, <1>3
    <3> QED  BY <3>1, <1>1, <1>3, <1>5
  <2>3. CASE k = 0
    BY <2>3, <1>1, <1>3
  <2> QED  BY <2>1, <2>2, <2>3
<1> QED  BY <1>3, <1>4, <1>5 DEF IdIsTyped, Parse!IdIsTyped, ParseInv, Parse!Valid, Parse!Sent

\* A number an int can hold is taken for what it is, and any other for the vsys
\* of its last bits at worst: vsd_parse_vsys_str and its callers in vsys_u.c.
THEOREM IdIsTypedHolds == Spec => []IdIsTyped
<1>1. Init => ParseInv
  <2> SUFFICES ASSUME Init  PROVE ParseInv
    OBVIOUS
  <2>1. 0 * Span = 0 /\ Half \in Nat \ {0}
    BY Widths
  <2>2. vsysid = typed + 0 * Span
    BY <2>1 DEF Init, Parse!Init
  <2> QED  BY <2>1, <2>2 DEF Init, Parse!Init, ParseInv, Ints
<1>2. ParseInv /\ [Next]_vars => ParseInv'
  BY ParseNext
<1>3. ParseInv => IdIsTyped
  BY ParseIsTyped
<1> QED  BY <1>1, <1>2, <1>3, PTL DEF Spec
-----------------------------------------------------------------------------
(* The shared segment.                                                     *)

\* The places of a run in alloc_shared_mem and after it.
Points == {"look", "create", "attach", "clear", "use", "detach", "end", "crash"}
ShmTypes ==
  /\ pcM \in [Shm!Procs -> Points]
  /\ shmidx \in [Shm!Procs -> Shm!Procs \cup {None}]
  /\ created \in [Shm!Procs -> BOOLEAN]
  /\ key \in Shm!Procs \cup {None} /\ DOMAIN text = Shm!Procs
  /\ raced \in BOOLEAN /\ failed \in BOOLEAN /\ stored \in BOOLEAN

\* Nobody takes the segment away: whoever got one got the one of the key.
OneSegment ==
  ~failed => \A p \in Shm!Procs : pcM[p] \in {"attach", "clear", "use", "detach", "end"}
                                => key # None /\ shmidx[p] = key

\* A set that wrote after the first user had cleared leaves a text, and nobody
\* can become a first user any more.
Written(p) == p \in Setters /\ pcM[p] \in {"detach", "end"}
Kept == ~failed /\ ~raced /\ (\E p \in Shm!Procs : Written(p))
          => text[key] # Shm!Cleared /\ \A q \in Shm!Procs : ~Shm!First(q)

Fresh == \A p \in Shm!Procs : /\ pcM[p] = "look" => ~created[p]
                              /\ pcM[p] = "clear" => created[p]
Back == stored => \E p \in Shm!Procs : Written(p)

ShmInv == ShmTypes /\ OneSegment /\ Kept /\ Fresh /\ Back

LEMMA ShmDistinct == None \notin Shm!Procs /\ Shm!Cleared \notin Setters
  BY NoneAssumption, TextAssumption DEF Shm!Procs, Shm!Cleared

LEMMA ShmStart == Init => ShmInv
  BY DEF Init, Shm!Init, Points, ShmInv, ShmTypes, OneSegment, Kept, Fresh, Back, Written

LEMMA ShmTypesStep == ShmTypes /\ [Next]_vars => ShmTypes'
<1> SUFFICES ASSUME ShmTypes, [Next]_vars  PROVE ShmTypes'
  OBVIOUS
<1> USE DEF ShmTypes, Points
<1>1. CASE UNCHANGED shm
  BY <1>1 DEF shm
<1>2. CASE Shm!Next
  <2>1. PICK p \in Shm!Procs : Shm!Step(p)
    BY <1>2 DEF Shm!Next
  <2> USE DEF Shm!Goto, Shm!Found, Shm!seg, Shm!history
  <2>2. CASE Shm!Look(p)         BY <2>2 DEF Shm!Look
  <2>3. CASE Shm!Create(p)       BY <2>3 DEF Shm!Create
  <2>4. CASE Shm!CreateFails(p)  BY <2>4 DEF Shm!CreateFails, Shm!NoMemory
  <2>5. CASE Shm!Attach(p)       BY <2>5 DEF Shm!Attach
  <2>6. CASE Shm!AttachFails(p)  BY <2>6 DEF Shm!AttachFails, Shm!NoMemory
  <2>7. CASE Shm!Clear(p)        BY <2>7 DEF Shm!Clear
  <2>8. CASE Shm!Use(p)          BY <2>8 DEF Shm!Use
  <2>9. CASE Shm!Detach(p)       BY <2>9 DEF Shm!Detach
  <2> QED  BY <2>1, <2>2, <2>3, <2>4, <2>5, <2>6, <2>7, <2>8, <2>9 DEF Shm!Step
<1> QED  BY <1>1, <1>2, ProgramStep

\* One run's step keeps the invariant.
LEMMA ShmStepInv ==
  ASSUME ShmInv, ShmTypes', NEW p \in Shm!Procs, Shm!Step(p)
  PROVE  ShmInv'
<1> USE ShmDistinct DEF ShmInv, ShmTypes, Points, Shm!Goto, Shm!Found, Shm!seg, Shm!history
<1>1. CASE Shm!Look(p)
  <2>1. OneSegment'  BY <1>1 DEF Shm!Look, OneSegment
  <2>2. Kept'        BY <1>1 DEF Shm!Look, OneSegment, Kept, Written, Shm!First, Fresh
  <2>3. Fresh' /\ Back'  BY <1>1 DEF Shm!Look, Fresh, Back, Written
  <2> QED  BY <2>1, <2>2, <2>3
<1>2. CASE Shm!Create(p)
  <2>1. OneSegment'  BY <1>2 DEF Shm!Create, OneSegment
  <2>2. Kept'        BY <1>2 DEF Shm!Create, Kept, Written, Shm!First
  <2>3. Fresh' /\ Back'  BY <1>2 DEF Shm!Create, Fresh, Back, Written
  <2> QED  BY <2>1, <2>2, <2>3
<1>3. CASE Shm!CreateFails(p) \/ Shm!AttachFails(p)
  <2>1. failed'      BY <1>3 DEF Shm!CreateFails, Shm!AttachFails, Shm!NoMemory
  <2>2. Fresh' /\ Back'
    BY <1>3 DEF Shm!CreateFails, Shm!AttachFails, Shm!NoMemory, Fresh, Back, Written
  <2> QED  BY <2>1, <2>2 DEF OneSegment, Kept
<1>4. CASE Shm!Attach(p)
  <2>1. OneSegment'  BY <1>4 DEF Shm!Attach, OneSegment
  <2>2. Kept'        BY <1>4 DEF Shm!Attach, Kept, Written, Shm!First
  <2>3. Fresh' /\ Back'  BY <1>4 DEF Shm!Attach, Fresh, Back, Written
  <2> QED  BY <2>1, <2>2, <2>3
<1>5. CASE Shm!Clear(p)
  <2>1. OneSegment'  BY <1>5 DEF Shm!Clear, OneSegment
  <2>2. Kept'
    <3>1. pcM[p] = "clear" /\ created[p] /\ Shm!First(p)
      BY <1>5 DEF Shm!Clear, Shm!First, Fresh
    <3>2. \A q \in Shm!Procs : Written(q)' => Written(q)
      BY <1>5 DEF Shm!Clear, Written
    <3> QED  BY <1>5, <3>1, <3>2 DEF Shm!Clear, Kept
  <2>3. Fresh' /\ Back'  BY <1>5 DEF Shm!Clear, Fresh, Back, Written
  <2> QED  BY <2>1, <2>2, <2>3
<1>6. CASE Shm!Use(p)
  <2>1. OneSegment'  BY <1>6 DEF Shm!Use, OneSegment
  <2>2. Kept'
    <3>1. CASE p \in Setters
      BY <1>6, <3>1, ZenonT(40) DEF Shm!Use, Kept, Written, Shm!First, OneSegment
    <3>2. CASE p \notin Setters
      BY <1>6, <3>2 DEF Shm!Use, Kept, Written, Shm!First
    <3> QED  BY <3>1, <3>2
  <2>3. Fresh' /\ Back'  BY <1>6 DEF Shm!Use, Fresh, Back, Written
  <2> QED  BY <2>1, <2>2, <2>3
<1>7. CASE Shm!Detach(p)
  <2>1. OneSegment'  BY <1>7 DEF Shm!Detach, OneSegment
  <2>2. Kept'        BY <1>7 DEF Shm!Detach, Kept, Written, Shm!First
  <2>3. Fresh' /\ Back'  BY <1>7 DEF Shm!Detach, Fresh, Back, Written
  <2> QED  BY <2>1, <2>2, <2>3
<1> QED  BY <1>1, <1>2, <1>3, <1>4, <1>5, <1>6, <1>7 DEF Shm!Step

\* However many runs of 11shmem.c overlap, a text that was stored when no first
\* user had yet to clear the segment stays, unless a run could not attach.
THEOREM StoredStaysHolds == Spec => []StoredStays
<1>1. ShmInv /\ [Next]_vars => ShmInv'
  <2> SUFFICES ASSUME ShmInv, [Next]_vars  PROVE ShmInv'
    OBVIOUS
  <2>1. ShmTypes'
    BY ShmTypesStep DEF ShmInv
  <2>2. CASE UNCHANGED shm
    BY <2>1, <2>2 DEF shm, ShmInv, OneSegment, Kept, Fresh, Back, Written, Shm!First
  <2>3. CASE Shm!Next
    BY <2>1, <2>3, ShmStepInv DEF Shm!Next
  <2> QED  BY <2>2, <2>3, ProgramStep
<1>2. ShmInv => StoredStays
  BY DEF ShmInv, StoredStays, Shm!StoredStays, OneSegment, Kept, Back, Written
<1> QED  BY <1>1, <1>2, ShmStart, PTL DEF Spec
-----------------------------------------------------------------------------
(* The thread.                                                             *)

Calls == {"none", "pthread_create", "sleep", "set", "join", "loop", "reset", "end", "crash"}
ThreadTypes ==
  /\ at \in [Thread!Threads -> Thread!Lines \cup Calls]
  /\ doing \in [Thread!Threads -> {"copy", "cut", "print"}]
  /\ shown \in [Thread!Threads -> (Thread!Lines \cup {"none"}) \X {"empty", "raw", "clean"}]
  /\ timebuf \in {"empty", "raw", "clean"}

\* While main prints its first and its last line nobody else writes the buffer.
Alone == at["sub"] \in {"none", "end"}
ThreadInv ==
  /\ ThreadTypes
  /\ at["main"] \in {"create", "pthread_create"} => at["sub"] = "none"
  /\ at["main"] \in {"exited", "end"} => Alone
  /\ at["main"] \notin Thread!Lines => doing["main"] = "copy"
  /\ at["main"] \in {"create", "exited"} /\ doing["main"] = "print" => timebuf = "clean"
  /\ TornByOtherOnly

LEMMA ThreadStart == Init => ThreadInv
  BY DEF Init, Thread!Init, ThreadInv, ThreadTypes, Calls, Alone, Thread!Threads,
         Thread!Lines, TornByOtherOnly, Thread!TornByOtherOnly

\* A thread's next place after a line.
LEMMA AfterLine ==
  ASSUME NEW l \in Thread!Lines
  PROVE  /\ Thread!After(l) \in Calls
         /\ Thread!After(l) = "pthread_create" => l = "create"
         /\ Thread!After(l) = "end" => l = "exited"
         /\ Thread!After(l) # "none"
  BY DEF Thread!Lines, Thread!After, Calls

LEMMA MainLine ==
  ASSUME ThreadInv, Thread!Line("main")
  PROVE  ThreadInv'
<1> USE DEF ThreadInv, ThreadTypes, Alone, Thread!Threads, TornByOtherOnly, Thread!TornByOtherOnly
<1>1. CASE Thread!Copy("main")
  BY <1>1 DEF Thread!Copy
<1>2. CASE Thread!Cut("main")
  BY <1>2 DEF Thread!Cut
<1>3. CASE Thread!PrintLine("main")
  <2>1. /\ at["main"] \in Thread!Lines /\ Thread!After(at["main"]) \in Calls
        /\ at'["main"] = Thread!After(at["main"]) /\ at'["sub"] = at["sub"]
        /\ doing'["main"] = "copy" /\ doing' \in [Thread!Threads -> {"copy", "cut", "print"}]
        /\ at' \in [Thread!Threads -> Thread!Lines \cup Calls]
        /\ shown'["main"] = <<at["main"], timebuf>> /\ timebuf' = timebuf
        /\ shown' \in [Thread!Threads -> (Thread!Lines \cup {"none"}) \X {"empty", "raw", "clean"}]
    BY <1>3, AfterLine DEF Thread!PrintLine, Thread!Goto
  <2>2. at'["main"] \notin Thread!Lines
    BY <2>1 DEF Calls, Thread!Lines
  <2>3. at'["main"] \in {"create", "pthread_create"} => at'["sub"] = "none"
    BY <2>1, <2>2, AfterLine DEF Thread!Lines
  <2>4. at'["main"] \in {"exited", "end"} => at'["sub"] \in {"none", "end"}
    BY <2>1, <2>2, AfterLine DEF Thread!Lines
  <2>5. TornByOtherOnly'
    BY <1>3, <2>1 DEF Thread!PrintLine
  <2> QED  BY <2>1, <2>2, <2>3, <2>4, <2>5 DEF Thread!Lines
<1> QED  BY <1>1, <1>2, <1>3 DEF Thread!Line

\* The thread prints only between its creation and its end.
LEMMA SubLine ==
  ASSUME ThreadInv, Thread!Line("sub")
  PROVE  ThreadInv'
<1> USE DEF ThreadInv, ThreadTypes, Alone, Thread!Threads, TornByOtherOnly, Thread!TornByOtherOnly
<1>1. at["main"] \notin {"create", "pthread_create", "exited", "end"}
  BY DEF Thread!Line, Thread!Copy, Thread!Cut, Thread!PrintLine, Thread!Lines
<1>2. CASE Thread!Copy("sub")
  BY <1>1, <1>2 DEF Thread!Copy
<1>3. CASE Thread!Cut("sub")
  BY <1>1, <1>3 DEF Thread!Cut
<1>4. CASE Thread!PrintLine("sub")
  BY <1>1, <1>4, AfterLine DEF Thread!PrintLine, Thread!Goto
<1> QED  BY <1>2, <1>3, <1>4 DEF Thread!Line

LEMMA ThreadCalls ==
  ASSUME ThreadInv,
         \/ Thread!Create \/ Thread!Sleep \/ Thread!Set \/ Thread!Join
         \/ Thread!Loop \/ Thread!Reset
  PROVE  ThreadInv'
<1> USE DEF ThreadInv, ThreadTypes, Alone, Thread!Threads, TornByOtherOnly, Thread!TornByOtherOnly,
            Thread!Goto, Calls, Thread!Lines
<1>1. CASE Thread!Create
  BY <1>1 DEF Thread!Create
<1>2. CASE Thread!Sleep
  BY <1>2 DEF Thread!Sleep
<1>3. CASE Thread!Set
  BY <1>3 DEF Thread!Set
<1>4. CASE Thread!Join
  BY <1>4 DEF Thread!Join
<1>5. CASE Thread!Loop
  BY <1>5 DEF Thread!Loop
<1>6. CASE Thread!Reset
  BY <1>6 DEF Thread!Reset
<1> QED  BY <1>1, <1>2, <1>3, <1>4, <1>5, <1>6

\* The lines of 09thread.c that main prints before there is a thread and after
\* it joined it show a whole time, though both write the same static buffer.
THEOREM TornByOtherOnlyHolds == Spec => []TornByOtherOnly
<1>1. ThreadInv /\ [Next]_vars => ThreadInv'
  <2> SUFFICES ASSUME ThreadInv, [Next]_vars  PROVE ThreadInv'
    OBVIOUS
  <2>1. CASE UNCHANGED thread
    BY <2>1 DEF thread, ThreadInv, ThreadTypes, Alone, TornByOtherOnly, Thread!TornByOtherOnly
  <2>2. CASE Thread!Next
    BY <2>2, MainLine, SubLine, ThreadCalls
       DEF Thread!Next, Thread!Main, Thread!Sub
  <2> QED  BY <2>1, <2>2, ProgramStep
<1>2. ThreadInv => TornByOtherOnly
  BY DEF ThreadInv
<1> QED  BY <1>1, <1>2, ThreadStart, PTL DEF Spec
-----------------------------------------------------------------------------
(* TCP.                                                                    *)

TcpTypes ==
  /\ srvT \in {"start", "accept", "recv", "send"} \cup Tcp!Over
  /\ peerT \in Clients \cup {None} /\ received \in Nat
  /\ pcT \in [Clients -> {"none", "send", "recv", "end", "killed"}]
  /\ sent \in [Clients -> Nat] /\ total \in [Clients -> Nat]
  /\ toSrvT \in [Clients -> Nat] /\ toCliT \in [Clients -> Nat]
  /\ cEnd \in [Clients -> Tcp!Ends] /\ sEnd \in [Clients -> Tcp!Ends]
  /\ long \in BOOLEAN /\ died \in BOOLEAN

\* One message at a time is on its way, with its client waiting for the answer:
\* unread, being answered, or answered.
Answering(c) == IF c = peerT /\ srvT = "send" THEN 1 ELSE 0
Received(c) == IF c = peerT THEN received ELSE 0
Exchange(c) ==
  /\ cEnd[c] = "open" /\ pcT[c] # "killed"
  /\ toSrvT[c] + toCliT[c] + Answering(c) = IF pcT[c] = "recv" THEN 1 ELSE 0
  /\ sEnd[c] = IF pcT[c] = "end" THEN "closed" ELSE "open"
  /\ sent[c] = toSrvT[c] + Received(c)
  /\ pcT[c] = "end" => sent[c] = total[c]
Orderly(c) == Exchange(c) \/ (pcT[c] = "killed" /\ died)

\* Before the server has a peer all clients are orderly, then its peer is.
PeerInv ==
  /\ srvT \in {"start", "accept"} => peerT = None /\ received = 0
  /\ srvT \in {"recv", "send", "end", "killed"} => peerT \in Clients
WholeInv ==
  \A c \in Clients :
    /\ srvT \in {"start", "accept"} => Orderly(c)
    /\ c = peerT /\ srvT \in {"recv", "send"} => Orderly(c)
    /\ c = peerT /\ srvT = "end" =>
         pcT[c] = "killed" \/ (pcT[c] = "end" /\ received = total[c])
    /\ c = peerT /\ srvT = "killed" => pcT[c] = "killed" /\ died

TcpInv == TcpTypes /\ PeerInv /\ (~long => WholeInv)

LEMMA TcpStart == Init => TcpInv
<1> SUFFICES ASSUME Tcp!Init  PROVE TcpInv
  BY DEF Init
<1>1. TcpTypes /\ PeerInv
  BY DEF Tcp!Init, TcpTypes, PeerInv, Tcp!Ends
<1>2. ASSUME NEW c \in Clients  PROVE Exchange(c)
  <2>1. c # peerT
    BY NoneAssumption DEF Tcp!Init
  <2>2. Answering(c) = 0 /\ Received(c) = 0
    BY <2>1 DEF Answering, Received
  <2> QED  BY <2>2 DEF Tcp!Init, Exchange
<1> QED  BY <1>1, <1>2 DEF Tcp!Init, TcpInv, WholeInv, Orderly

LEMMA TcpTypesStep == ASSUME TcpTypes, PeerInv, Tcp!Next PROVE TcpTypes'
<1> USE BoundsAssumption DEF TcpTypes, PeerInv, Tcp!Over, Tcp!Ends, Tcp!AfterSend, Tcp!Goto,
        Tcp!Wait, Tcp!Turn, Tcp!server, Tcp!wire
<1>1. ASSUME NEW c \in Clients, Tcp!Connect(c)  PROVE TcpTypes'
  BY <1>1 DEF Tcp!Connect
<1>2. ASSUME NEW c \in Clients, NEW n \in 1..Pieces, Tcp!Send(c, n)  PROVE TcpTypes'
  <2>1. toSrvT[c] + n \in Nat /\ sent[c] + 1 \in Nat
    BY <1>2
  <2>2. sent' \in [Clients -> Nat] /\ toSrvT' \in [Clients -> Nat] /\ long' \in BOOLEAN
    BY <1>2, <2>1 DEF Tcp!Send
  <2>3. pcT' \in [Clients -> {"none", "send", "recv", "end", "killed"}]
    BY <1>2 DEF Tcp!Send
  <2>4. cEnd' \in [Clients -> Tcp!Ends]
    BY <1>2 DEF Tcp!Send
  <2> QED  BY <1>2, <2>2, <2>3, <2>4 DEF Tcp!Send
<1>3. ASSUME NEW c \in Clients, Tcp!Recv(c)  PROVE TcpTypes'
  BY <1>3 DEF Tcp!Recv
<1>4. ASSUME NEW c \in Clients, Tcp!Close(c) \/ Tcp!Kill(c)  PROVE TcpTypes'
  BY <1>4 DEF Tcp!Close, Tcp!Kill, Tcp!Leave
<1>5. CASE Tcp!Listen
  BY <1>5 DEF Tcp!Listen
<1>6. ASSUME NEW c \in Clients, Tcp!Accept(c)  PROVE TcpTypes'
  BY <1>6 DEF Tcp!Accept
<1>7. Tcp!HangUp => cEnd' \in [Clients -> Tcp!Ends]
  BY DEF Tcp!HangUp
<1>8. CASE Tcp!SrvRecv
  BY <1>7, <1>8 DEF Tcp!SrvRecv
<1>9. CASE Tcp!SrvSend
  BY <1>7, <1>9 DEF Tcp!SrvSend
<1>10. CASE Tcp!Stop
  BY <1>7, <1>10 DEF Tcp!Stop
<1> QED  BY <1>1, <1>2, <1>3, <1>4, <1>5, <1>6, <1>8, <1>9, <1>10
            DEF Tcp!Next, Tcp!Server, Tcp!Client

LEMMA PeerStep == ASSUME TcpTypes, PeerInv, Tcp!Next PROVE PeerInv'
<1> USE NoneAssumption DEF PeerInv, TcpTypes, Tcp!Over, Tcp!server, Tcp!Turn
<1>1. ASSUME NEW c \in Clients,
             \/ Tcp!Connect(c) \/ Tcp!Recv(c) \/ Tcp!Close(c) \/ Tcp!Kill(c)
             \/ \E n \in 1..Pieces : Tcp!Send(c, n)
      PROVE  PeerInv'
  BY <1>1 DEF Tcp!Connect, Tcp!Send, Tcp!Recv, Tcp!Close, Tcp!Kill, Tcp!Leave
<1>2. CASE Tcp!Listen
  BY <1>2 DEF Tcp!Listen
<1>3. ASSUME NEW c \in Clients, Tcp!Accept(c)  PROVE PeerInv'
  BY <1>3 DEF Tcp!Accept
<1>4. CASE Tcp!SrvRecv
  BY <1>4 DEF Tcp!SrvRecv
<1>5. CASE Tcp!SrvSend
  BY <1>5 DEF Tcp!SrvSend
<1>6. CASE Tcp!Stop
  BY <1>6 DEF Tcp!Stop
<1> QED  BY <1>1, <1>2, <1>3, <1>4, <1>5, <1>6 DEF Tcp!Next, Tcp!Server, Tcp!Client

\* An orderly client stays one in its own steps.
LEMMA OrderlyClient ==
  ASSUME TcpTypes, TcpTypes', NEW c \in Clients, Orderly(c), ~long',
         UNCHANGED <<srvT, peerT, received>>,
         \/ Tcp!Connect(c) \/ Tcp!Recv(c) \/ Tcp!Close(c) \/ Tcp!Kill(c)
         \/ \E n \in 1..Pieces : Tcp!Send(c, n)
  PROVE  Orderly(c)'
<1> USE DEF Tcp!Goto, Tcp!wire, Tcp!server
<1>1. Answering(c)' = Answering(c) /\ Received(c)' = Received(c)
  BY DEF Answering, Received
<1>2. Answering(c) \in Nat /\ Received(c) \in Nat
  BY DEF Answering, Received, TcpTypes
<1>3. CASE Tcp!Kill(c)
  BY <1>3 DEF Tcp!Kill, Tcp!Leave, Orderly, TcpTypes
<1>4. CASE ~Tcp!Kill(c)
  <2>1. pcT[c] # "killed"
    BY <1>4 DEF Tcp!Connect, Tcp!Recv, Tcp!Close, Tcp!Send
  <2>2. Exchange(c)
    BY <2>1 DEF Orderly
  <2>3. CASE Tcp!Connect(c)
    BY <1>1, <1>2, <2>2, <2>3 DEF Tcp!Connect, Exchange, Orderly, TcpTypes
  <2>4. CASE Tcp!Recv(c)
    <3>1. pcT[c] = "recv" /\ pcT'[c] = "send" /\ UNCHANGED <<toSrvT, sEnd, sent>>
      BY <2>4 DEF Tcp!Recv, TcpTypes
    <3>2. toCliT[c] \in {0, 1} /\ cEnd[c] = "open" /\ sEnd[c] = "open"
      BY <1>2, <2>2, <3>1 DEF Exchange, TcpTypes
    <3>3. toCliT[c] > 0 /\ UNCHANGED cEnd
      BY <2>4, <3>2 DEF Tcp!Recv
    <3>4. PICK n \in 1..toCliT[c] : toCliT' = [toCliT EXCEPT ![c] = @ - n]
      BY <2>4, <3>2, <3>3 DEF Tcp!Recv
    <3>5. toCliT'[c] = 0 /\ toCliT[c] = 1
      BY <3>2, <3>3, <3>4 DEF TcpTypes
    <3> QED  BY <1>1, <1>2, <2>2, <3>1, <3>3, <3>5 DEF Exchange, Orderly, TcpTypes
  <2>5. CASE Tcp!Close(c)
    <3>1. /\ pcT[c] = "send" /\ pcT'[c] = "end" /\ sent[c] = total[c] /\ toCliT[c] = 0
          /\ UNCHANGED <<toSrvT, toCliT, cEnd, sent, total>>
      BY <1>2, <2>2, <2>5 DEF Tcp!Close, Tcp!Leave, Exchange, TcpTypes
    <3>2. sEnd'[c] = "closed"
      BY <2>5, <3>1 DEF Tcp!Close, Tcp!Leave, TcpTypes
    <3> QED  BY <1>1, <1>2, <2>2, <3>1, <3>2 DEF Exchange, Orderly, TcpTypes
  <2>6. ASSUME NEW n \in 1..Pieces, Tcp!Send(c, n)  PROVE Orderly(c)'
    <3>1. cEnd[c] = "open" /\ n = 1
      <4>1. cEnd[c] = "open"
        BY <2>2 DEF Exchange
      <4>2. n > 1 => long'
        BY <2>6, <4>1 DEF Tcp!Send
      <4>3. n \in Nat /\ n >= 1
        BY <2>6, BoundsAssumption
      <4> QED  BY <4>1, <4>2, <4>3
    <3>2. /\ pcT[c] = "send" /\ pcT'[c] = "recv" /\ cEnd'[c] = "open"
          /\ UNCHANGED <<toCliT, sEnd>>
      BY <2>6, <3>1 DEF Tcp!Send, Tcp!Deadly, Tcp!Wait, Tcp!AfterSend, TcpTypes
    <3>3. toSrvT'[c] = toSrvT[c] + 1 /\ sent'[c] = sent[c] + 1
      BY <2>6, <3>1 DEF Tcp!Send, TcpTypes
    <3>4. pcT[c] = "send" /\ toSrvT[c] \in Nat /\ toCliT[c] \in Nat /\ sent[c] \in Nat
      BY <3>2 DEF TcpTypes
    <3>5. Exchange(c)'
      BY <1>1, <1>2, <2>2, <3>2, <3>3, <3>4 DEF Exchange
    <3> QED  BY <3>5 DEF Orderly
  <2> QED  BY <1>4, <2>3, <2>4, <2>5, <2>6
<1> QED  BY <1>3, <1>4

LEMMA ClientWhole ==
  ASSUME TcpTypes, TcpTypes', PeerInv, WholeInv, ~long', NEW c \in Clients,
         \/ Tcp!Connect(c) \/ Tcp!Recv(c) \/ Tcp!Close(c) \/ Tcp!Kill(c)
         \/ \E n \in 1..Pieces : Tcp!Send(c, n)
  PROVE  WholeInv'
<1> USE DEF Tcp!Goto, Tcp!wire, Tcp!server
<1>1. /\ UNCHANGED <<srvT, peerT, received>>
      /\ died => died'
      /\ pcT[c] \in {"none", "send", "recv"}
      /\ \A d \in Clients \ {c} :
           /\ pcT'[d] = pcT[d] /\ total'[d] = total[d] /\ sent'[d] = sent[d]
           /\ toSrvT'[d] = toSrvT[d] /\ toCliT'[d] = toCliT[d]
           /\ cEnd'[d] = cEnd[d] /\ sEnd'[d] = sEnd[d]
  <2> USE DEF TcpTypes
  <2>1. CASE Tcp!Connect(c)  BY <2>1 DEF Tcp!Connect
  <2>2. CASE Tcp!Recv(c)     BY <2>2 DEF Tcp!Recv
  <2>3. CASE Tcp!Close(c)    BY <2>3 DEF Tcp!Close, Tcp!Leave
  <2>4. CASE Tcp!Kill(c)     BY <2>4 DEF Tcp!Kill, Tcp!Leave
  <2>5. ASSUME NEW n \in 1..Pieces, Tcp!Send(c, n)
        PROVE  /\ UNCHANGED <<srvT, peerT, received, died>> /\ pcT[c] = "send"
               /\ \A d \in Clients \ {c} :
                    /\ pcT'[d] = pcT[d] /\ total'[d] = total[d] /\ sent'[d] = sent[d]
                    /\ toSrvT'[d] = toSrvT[d] /\ toCliT'[d] = toCliT[d]
                    /\ cEnd'[d] = cEnd[d] /\ sEnd'[d] = sEnd[d]
    BY <2>5 DEF Tcp!Send
  <2> QED  BY <2>1, <2>2, <2>3, <2>4, <2>5
<1>2. Orderly(c) => Orderly(c)'
  BY <1>1, OrderlyClient
<1>3. ASSUME NEW d \in Clients \ {c}  PROVE Orderly(d) => Orderly(d)'
  <2>1. Answering(d)' = Answering(d) /\ Received(d)' = Received(d)
    BY <1>1 DEF Answering, Received
  <2> QED  BY <1>1, <2>1 DEF Orderly, Exchange
<1>4. \A d \in Clients : Orderly(d) => Orderly(d)'
  BY <1>2, <1>3
<1>5. \A d \in Clients : pcT[d] \in {"end", "killed"} => pcT'[d] = pcT[d] /\ total'[d] = total[d]
  BY <1>1
<1> QED  BY <1>1, <1>4, <1>5 DEF WholeInv, PeerInv

\* The first and only client that the server takes is orderly, and nothing was
\* received from it yet.
LEMMA ServerTaken ==
  ASSUME TcpTypes, PeerInv, WholeInv, Tcp!Listen \/ \E c \in Clients : Tcp!Accept(c)
  PROVE  WholeInv'
<1>1. /\ srvT \in {"start", "accept"} /\ srvT' \in {"accept", "recv"}
      /\ srvT' = "accept" => peerT' = None
      /\ UNCHANGED <<received, pcT, total, sent, toSrvT, toCliT, cEnd, sEnd, died>>
  BY DEF Tcp!Listen, Tcp!Accept, Tcp!wire, PeerInv
<1>2. \A c \in Clients : Answering(c)' = Answering(c) /\ Received(c)' = Received(c)
  BY <1>1, NoneAssumption DEF Answering, Received, PeerInv
<1>3. \A c \in Clients : Orderly(c)'
  BY <1>1, <1>2 DEF WholeInv, Orderly, Exchange
<1> QED  BY <1>1, <1>3 DEF WholeInv

LEMMA ServerReceives ==
  ASSUME TcpTypes, PeerInv, WholeInv, Tcp!SrvRecv
  PROVE  WholeInv'
<1>1. /\ srvT = "recv" /\ peerT \in Clients /\ Orderly(peerT)
      /\ UNCHANGED <<peerT, pcT, total, sent, toCliT, died>>
  BY DEF Tcp!SrvRecv, PeerInv, WholeInv
<1>2. Answering(peerT) = 0 /\ Received(peerT) = received
  BY <1>1 DEF Answering, Received
<1>3. CASE pcT[peerT] = "killed"
  <2>1. died /\ srvT' \in {"recv", "send", "end"}
    BY <1>1, <1>3 DEF Orderly, Exchange, Tcp!SrvRecv, Tcp!Turn
  <2>2. \A c \in Clients : c = peerT => Orderly(c)' /\ pcT'[c] = "killed"
    BY <1>1, <1>3, <2>1 DEF Orderly
  <2> QED  BY <1>1, <2>1, <2>2 DEF WholeInv
<1>4. CASE pcT[peerT] # "killed"
  <2>1. Exchange(peerT)
    BY <1>1, <1>4 DEF Orderly
  <2>2. CASE toSrvT[peerT] > 0
    <3>0. toSrvT[peerT] = 1
      BY <1>1, <1>2, <2>1, <2>2 DEF Exchange, TcpTypes
    <3>1. /\ toSrvT'[peerT] = toSrvT[peerT] - 1 /\ received' = received + 1
          /\ srvT' = "send" /\ UNCHANGED <<cEnd, sEnd>>
      <4>1. PICK n \in 1..toSrvT[peerT] : /\ toSrvT' = [toSrvT EXCEPT ![peerT] = @ - n]
                                          /\ received' = received + n
        BY <2>2, <3>0 DEF Tcp!SrvRecv
      <4>2. n = 1
        BY <3>0, <4>1
      <4>3. srvT' = "send" /\ UNCHANGED <<cEnd, sEnd>>
        BY <2>2, <3>0 DEF Tcp!SrvRecv, Tcp!Turn
      <4> QED  BY <1>1, <4>1, <4>2, <4>3 DEF TcpTypes
    <3>2. ASSUME NEW c \in Clients, c = peerT  PROVE Exchange(c)'
      <4>1. Answering(c)' = 1 /\ Received(c)' = received + 1
        BY <1>1, <3>1, <3>2 DEF Answering, Received
      <4>2. toSrvT[c] \in Nat /\ toCliT[c] \in Nat /\ received \in Nat
        BY DEF TcpTypes
      <4> QED  BY <1>1, <1>2, <2>1, <3>1, <3>2, <4>1, <4>2 DEF Exchange
    <3> QED  BY <1>1, <3>1, <3>2 DEF WholeInv, Orderly
  <2>3. CASE toSrvT[peerT] = 0
    <3>1. sEnd[peerT] # "reset" /\ 1..toSrvT[peerT] = {}
      BY <2>1, <2>3 DEF Exchange
    <3>2. srvT' = "end" /\ sEnd[peerT] # "open" /\ UNCHANGED received
      BY <3>1, Zenon DEF Tcp!SrvRecv
    <3>3. pcT[peerT] = "end" /\ received = total[peerT]
      BY <1>2, <2>1, <2>3, <3>2 DEF Exchange, TcpTypes
    <3> QED  BY <1>1, <3>2, <3>3 DEF WholeInv
  <2> QED  BY <1>1, <2>2, <2>3 DEF TcpTypes
<1> QED  BY <1>3, <1>4

LEMMA ServerSends ==
  ASSUME TcpTypes, PeerInv, WholeInv, Tcp!SrvSend
  PROVE  WholeInv'
<1>1. /\ srvT = "send" /\ peerT \in Clients /\ Orderly(peerT)
      /\ UNCHANGED <<peerT, pcT, total, sent, received, toSrvT, died>>
  BY DEF Tcp!SrvSend, PeerInv, WholeInv
<1>2. CASE pcT[peerT] = "killed"
  <2>1. died /\ srvT' \in {"recv", "killed"}
    BY <1>1, <1>2 DEF Orderly, Exchange, Tcp!SrvSend
  <2> QED  BY <1>1, <1>2, <2>1 DEF Orderly, WholeInv
<1>3. CASE pcT[peerT] # "killed"
  <2>1. Exchange(peerT) /\ Answering(peerT) = 1
    BY <1>1, <1>3 DEF Orderly, Answering
  <2>2. pcT[peerT] = "recv" /\ sEnd[peerT] = "open"
    <3>1. toSrvT[peerT] \in Nat /\ toCliT[peerT] \in Nat
      BY <1>1 DEF TcpTypes
    <3>2. pcT[peerT] = "recv"
      BY <2>1, <3>1 DEF Exchange
    <3> QED  BY <2>1, <3>2 DEF Exchange
  <2>3. /\ srvT' = "recv" /\ UNCHANGED cEnd /\ toCliT'[peerT] = toCliT[peerT] + 1
        /\ sEnd'[peerT] = "open"
    BY <1>1, <2>2 DEF Tcp!SrvSend, Tcp!Deadly, Tcp!AfterSend, TcpTypes
  <2>4. ASSUME NEW c \in Clients, c = peerT  PROVE Exchange(c)'
    <3>1. Answering(c)' = 0 /\ Received(c)' = Received(c)
      BY <1>1, <2>3 DEF Answering, Received
    <3>2. toSrvT[c] \in Nat /\ toCliT[c] \in Nat
      BY DEF TcpTypes
    <3> QED  BY <1>1, <2>1, <2>2, <2>3, <2>4, <3>1, <3>2 DEF Exchange
  <2> QED  BY <1>1, <2>3, <2>4 DEF WholeInv, Orderly
<1> QED  BY <1>2, <1>3

LEMMA TcpNext == ASSUME TcpInv, Tcp!Next PROVE TcpInv'
<1>1. TcpTypes' /\ PeerInv'
  BY TcpTypesStep, PeerStep DEF TcpInv
<1>2. ASSUME ~long'  PROVE WholeInv'
  <2>1. ~long
    BY <1>2 DEF Tcp!Next, Tcp!Server, Tcp!Client, Tcp!Connect, Tcp!Send, Tcp!Recv,
                Tcp!Close, Tcp!Kill, Tcp!Leave, Tcp!Listen, Tcp!Accept, Tcp!SrvRecv,
                Tcp!SrvSend, Tcp!Stop
  <2>2. TcpTypes /\ PeerInv /\ WholeInv
    BY <2>1 DEF TcpInv
  <2>3. CASE Tcp!Stop
    BY <2>3 DEF Tcp!Stop, WholeInv
  <2> QED  BY <1>1, <1>2, <2>2, <2>3, ClientWhole, ServerTaken, ServerReceives, ServerSends
              DEF Tcp!Next, Tcp!Server, Tcp!Client
<1> QED  BY <1>1, <1>2 DEF TcpInv

\* An unsigned result of recv() (01tcpserver.c, 01tcpclient.c) does no harm, for
\* any clients and any number of messages, as long as each comes in one piece:
\* nobody is killed by SIGPIPE unless its user killed a client before, and the
\* client that ends on its own ends when the server has received its messages.
THEOREM OrderlyIfWholeHolds == Spec => []OrderlyIfWhole
<1>1. TcpInv /\ [Next]_vars => TcpInv'
  <2> SUFFICES ASSUME TcpInv, [Next]_vars  PROVE TcpInv'
    OBVIOUS
  <2>1. CASE UNCHANGED tcp
    BY <2>1 DEF tcp, TcpInv, TcpTypes, PeerInv, WholeInv, Orderly, Exchange, Answering, Received
  <2> QED  BY <2>1, TcpNext, ProgramStep
<1>2. TcpInv => OrderlyIfWhole
  <2> SUFFICES ASSUME TcpInv, ~long
               PROVE  /\ srvT = "killed" => died
                      /\ \A c \in Clients :
                           pcT[c] = "end" /\ c = peerT /\ srvT # "stopped" => received = total[c]
    BY DEF OrderlyIfWhole, Tcp!OrderlyIfWhole
  <2>1. TcpTypes /\ PeerInv /\ WholeInv
    BY DEF TcpInv
  <2>2. srvT = "killed" => died
    BY <2>1 DEF PeerInv, WholeInv
  <2>3. ASSUME NEW c \in Clients, pcT[c] = "end", c = peerT, srvT # "stopped"
        PROVE  received = total[c]
    <3>1. CASE srvT \in {"recv", "send"}
      <4>1. Exchange(c) /\ Received(c) = received
        BY <2>1, <2>3, <3>1 DEF WholeInv, Orderly, Received
      <4>2. toSrvT[c] = 0
        BY <2>1, <2>3, <4>1 DEF Exchange, Answering, TcpTypes
      <4> QED  BY <2>1, <2>3, <4>1, <4>2 DEF Exchange, TcpTypes
    <3>2. CASE srvT \in {"end", "killed"}
      BY <2>1, <2>3, <3>2 DEF WholeInv
    <3>3. srvT \notin {"start", "accept"}
      BY <2>1, <2>3, NoneAssumption DEF PeerInv
    <3> QED  BY <2>1, <2>3, <3>1, <3>2, <3>3 DEF TcpTypes, Tcp!Over
  <2> QED  BY <2>2, <2>3
<1> QED  BY <1>1, <1>2, TcpStart, PTL DEF Spec
-----------------------------------------------------------------------------
(* SSL.                                                                    *)

Steps == {"setup", "accept", "handshake", "write", "read", "end"}
SslTypes ==
  /\ srvS \in Steps /\ peerS \in Clients \cup {None}
  /\ pcS \in [Clients -> {"none", "connect", "read", "write", "end", "killed"}]
  /\ shook \in [Clients -> {"no", "ok", "shut", "failed"}]
  /\ report \in [Clients -> {"none", "received", "failed"}]

Serving(c) == c = peerS /\ srvS \in {"handshake", "write", "read"}

\* A client waits, is served and is cut off, in this order and once; one that
\* ended without its message was cut off or had no handshake.
ServedOnce(c) ==
  /\ srvS # "end" /\ pcS[c] = "none" => c \notin queueS \cup cut /\ ~Serving(c)
  /\ srvS # "end" /\ c \in queueS => c \notin cut
  /\ Serving(c) => c \notin queueS \cup cut
  /\ report[c] # "none" => c \in cut
Spoken(c) ==
  /\ Serving(c) /\ srvS # "handshake" => shook[c] \in {"ok", "shut"}
  /\ pcS[c] \in {"read", "write", "end"} => shook[c] # "no" \/ c \in cut
  /\ pcS[c] = "end" => c \in toSrvS \cup cut \/ shook[c] \in {"shut", "failed"}
Truthful(c) ==
  report[c] = "received" => c \in toSrvS \/ shook[c] = "shut" \/ pcS[c] = "killed"

SslInv ==
  /\ SslTypes
  /\ srvS \in {"handshake", "write", "read"} => peerS \in Clients
  /\ \A c \in Clients : ServedOnce(c) /\ Spoken(c) /\ Truthful(c)

LEMMA SslStart == Init => SslInv
  BY DEF Init, Ssl!Init, SslInv, SslTypes, Steps, ServedOnce, Spoken, Truthful, Serving

\* The client's steps leave the server alone.
LEMMA SslClient ==
  ASSUME SslInv, NEW c \in Clients, Ssl!Connect(c) \/ Ssl!Client(c) \/ Ssl!Kill(c)
  PROVE  SslInv'
<1> USE DEF SslInv, SslTypes, Steps, Ssl!Goto, Ssl!server
<1>1. /\ UNCHANGED <<srvS, peerS, cut, shook, report>>
      /\ pcS' \in [Clients -> {"none", "connect", "read", "write", "end", "killed"}]
      /\ \A d \in Clients \ {c} : pcS'[d] = pcS[d]
      /\ toSrvS \subseteq toSrvS'
      /\ pcS'[c] # "none" /\ pcS[c] \notin {"end", "killed"}
  BY DEF Ssl!Client, Ssl!Connect, Ssl!Connected, Ssl!Read, Ssl!Write, Ssl!Kill
<1>2. queueS' = queueS \/ (srvS # "end" /\ pcS[c] = "none" /\ queueS' = queueS \cup {c})
  BY DEF Ssl!Client, Ssl!Connect, Ssl!Connected, Ssl!Read, Ssl!Write, Ssl!Kill
<1>3. /\ pcS'[c] \in {"read", "write", "end"} => shook[c] # "no" \/ c \in cut
      /\ pcS'[c] = "end" => c \in toSrvS' \cup cut \/ shook[c] \in {"shut", "failed"}
  BY DEF Spoken, Ssl!Client, Ssl!Connect, Ssl!Connected, Ssl!Read, Ssl!Write, Ssl!Kill
<1>4. ASSUME NEW d \in Clients  PROVE ServedOnce(d)'
  BY <1>1, <1>2 DEF ServedOnce, Serving
<1>5. ASSUME NEW d \in Clients  PROVE Spoken(d)' /\ Truthful(d)'
  <2>1. CASE d = c
    BY <1>1, <1>3, <2>1 DEF Spoken, Truthful, Serving
  <2>2. CASE d # c
    BY <1>1, <2>2 DEF Spoken, Truthful, Serving
  <2> QED  BY <2>1, <2>2
<1> QED  BY <1>1, <1>4, <1>5

LEMMA SslServer ==
  ASSUME SslInv, Ssl!Server
  PROVE  SslInv'
<1> USE DEF SslInv, SslTypes, Steps, ServedOnce, Spoken, Truthful, Serving
<1>1. CASE Ssl!Setup
  BY <1>1 DEF Ssl!Setup, Ssl!Ends
<1>2. ASSUME NEW c \in Clients, Ssl!Accept(c)  PROVE SslInv'
  BY <1>2 DEF Ssl!Accept, Ssl!Ends
<1>3. CASE Ssl!Handshake
  <2>1. PICK r \in Ssl!Result(peerS) :
          /\ shook' = [shook EXCEPT ![peerS] = r]
          /\ IF r = "failed" THEN Ssl!Ends
                             ELSE srvS' = "write" /\ UNCHANGED <<peerS, queueS, cut>>
    BY <1>3 DEF Ssl!Handshake
  <2>2. /\ r \in {"ok", "shut", "failed"} /\ (r = "ok" => pcS[peerS] # "end")
        /\ srvS = "handshake" /\ UNCHANGED <<pcS, toSrvS, report>>
    BY <1>3, <2>1 DEF Ssl!Handshake, Ssl!Result, Ssl!Gone
  <2>3. CASE r = "failed"
    BY <2>1, <2>2, <2>3 DEF Ssl!Ends
  <2>4. CASE r # "failed"
    BY <2>1, <2>2, <2>4
  <2> QED  BY <2>3, <2>4
<1>4. CASE Ssl!SrvWrite
  BY <1>4 DEF Ssl!SrvWrite, Ssl!Ends
<1>5. CASE Ssl!SrvRead
  <2>1. PICK r \in {"received", "failed"} : report' = [report EXCEPT ![peerS] = r]
    BY <1>5 DEF Ssl!SrvRead
  <2>2. /\ srvS = "read" /\ Ssl!Done /\ UNCHANGED <<pcS, toSrvS, shook, peerS, queueS>>
        /\ \/ srvS' = "accept" /\ cut' = cut \cup {peerS}
           \/ srvS' = "end" /\ cut' = Clients
    BY <1>5 DEF Ssl!SrvRead, Ssl!Ends
  <2> QED  BY <2>1, <2>2 DEF Ssl!Done, Ssl!Gone
<1> QED  BY <1>1, <1>2, <1>3, <1>4, <1>5 DEF Ssl!Server

\* ssl_server.c keeps the result of SSL_read in an unsigned variable, so -1
\* passes for a message.  For any clients and failing calls, that can only be
\* after a handshake that was shut down, or of a client that was killed.
THEOREM ReportedIsReceivedHolds == Spec => []ReportedIsReceived
<1>1. SslInv /\ [Next]_vars => SslInv'
  <2> SUFFICES ASSUME SslInv, [Next]_vars  PROVE SslInv'
    OBVIOUS
  <2>1. CASE UNCHANGED ssl
    BY <2>1 DEF ssl, SslInv, SslTypes, ServedOnce, Spoken, Truthful, Serving
  <2>2. CASE Ssl!Next
    BY <2>2, SslClient, SslServer DEF Ssl!Next
  <2> QED  BY <2>1, <2>2, ProgramStep
<1>2. SslInv => ReportedIsReceived
  BY DEF SslInv, Truthful, ReportedIsReceived, Ssl!ReportedIsReceived
<1> QED  BY <1>1, <1>2, SslStart, PTL DEF Spec
=============================================================================
