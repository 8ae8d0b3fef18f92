--------------------------- MODULE VsysWireProofs ---------------------------
(***************************************************************************)
(* Proofs about VsysWire, for any messages, sizes of pipes and sockets and *)
(* splitting of writes and reads: a message that nobody cuts off arrives   *)
(* whole, and one that is cut off is never mixed with another, on sockets  *)
(* always, on pipes as long as no string can be split.                     *)
(*                                                                         *)
(* The invariant gives the writer and the reader a position in the stream  *)
(* of the fields of the current message.  Where each field starts is       *)
(* known as far as one of them has come (Offsets); what is between them is *)
(* in the pipe or socket (InTransit); and the field the reader is at says  *)
(* what it has already put into its message (Stage).  Kept says what is    *)
(* left there of the message before, also when the stream ends too soon.   *)
(***************************************************************************)
EXTENDS VsysWire, SequenceTheorems, TLAPS

Units == Seq(Nat)

Awaited ==
  /\ at \in {"idle", "head", "int", "len", "str"}
  /\ want \in Nat /\ got \in Units /\ Len(got) <= want
  /\ got # <<>> => Len(got) < want
  /\ at \in {"head", "int", "len"} => want = 2

Types ==
  /\ link \in Socks \cup Pipes /\ build \in Builds
  /\ cur \in Sent[link] /\ out \in Seq(Units) /\ chan \in Units
  /\ open \in BOOLEAN /\ eof \in BOOLEAN /\ msg \in Message
  /\ Awaited
  /\ ~Loops => got = <<>>
  /\ eof => ~open

\* The places where the first L fields of f start; the last may be its end.
Offsets(f, st, L) ==
  /\ L \in 1..Len(f) + 1 /\ st \in [1..L -> Nat]
  /\ \A i \in 1..L - 1 : st[i + 1] = st[i] + Len(f[i])
  /\ \A i, j \in 1..L : i <= j => st[i] <= st[j]

\* c is the part of the stream from place r to place w.
InTransit(f, st, L, w, r, c) ==
  /\ Len(c) + r = w
  /\ \A i \in 1..L : i <= Len(f) =>
       \A k \in 1..Len(f[i]), x \in 1..Len(c) : r + x = st[i] + k => c[x] = f[i][k]

\* The writer has written j units of field s, one that write() may split.
Writing(f, s, j) ==
  /\ j \in Nat /\ IF s <= Len(f) THEN j <= Len(f[s]) ELSE j = 0
  /\ link \in Pipes => j = 0
  /\ s <= Len(f) /\ j > 0 => Len(f[s]) > Atomic
  /\ open => /\ Len(out) = Len(f) + 1 - s
             /\ s <= Len(f) => out[1] = SubSeq(f[s], j + 1, Len(f[s]))
             /\ \A k \in 2..Len(out) : out[k] = f[s + k - 1]

\* The reader has read the first units of field p.
Reading(f, p) ==
  IF p <= Len(f) THEN /\ want = Len(f[p]) /\ Len(got) <= want
                      /\ \A k \in 1..Len(got) : got[k] = f[p][k]
  ELSE got = <<>>

\* What the reader's message holds when the int was taken.
Taken ==
  /\ HasInt(cur) /\ msg.head = cur.head
  /\ IF Command(cur) = Cmd.link THEN msg.dst = cur.dst ELSE msg.argc = cur.argc
  /\ Len(msg.strs) < Len(View(cur).strs)
  /\ \A i \in 1..Len(msg.strs) : msg.strs[i] = cur.strs[i]

Stage(p) ==
  /\ at = "head" => p = 1
  /\ at = "int" => p = 2 /\ HasInt(cur) /\ msg.head = cur.head
  /\ at = "len" => Taken /\ p = 2 * Len(msg.strs) + 3
  /\ at = "str" => Taken /\ p = 2 * Len(msg.strs) + 4
  /\ at = "idle" => p = Len(Fields(cur)) + 1 /\ ret = 0 /\ View(msg) = View(cur)

Placed(st, L, s, j, p) ==
  LET f == Fields(cur)
  IN /\ Offsets(f, st, L) /\ s \in 1..L /\ p \in 1..L
     /\ Writing(f, s, j) /\ Reading(f, p)
     /\ InTransit(f, st, L, st[s] + j, st[p] + Len(got), chan)
     /\ Stage(p)

PlaceInv == ~eof => \E L \in Nat : \E st \in [1..L -> Nat] : \E s, j, p \in Nat : Placed(st, L, s, j, p)

\* What the message variable holds of an earlier message: all of it before the
\* head is read, or when it never comes, all but the head before the int is.
Kept ==
  /\ before \in Message
  /\ at \in {"head", "int", "len"} => got = <<>>
  /\ at \in {"head", "str"} => ~eof
  /\ at = "head" => msg = before
  /\ at = "int" => msg = IF eof THEN before ELSE [before EXCEPT !.head = cur.head]
  /\ eof => chan = <<>>
  /\ at = "idle" /\ eof /\ ret = 0 =>
       \/ View(msg) = View(before)
       \/ msg.head = cur.head /\ msg.argc = before.argc /\ View(msg).strs = <<>>

WireInv == Types /\ PlaceInv /\ Kept

-----------------------------------------------------------------------------
(* Streams of fields.                                                       *)

\* A sequence of sequences of numbers: its parts, and their lengths.
LEMMA Parts ==
  ASSUME NEW f \in Seq(Units)
  PROVE  /\ Len(f) \in Nat
         /\ \A i \in 1..Len(f) : f[i] \in Units /\ Len(f[i]) \in Nat
         /\ \A i \in 1..Len(f) : \A k \in 1..Len(f[i]) : f[i][k] \in Nat
<1>1. Len(f) \in Nat  BY LenProperties
<1>2. \A i \in 1..Len(f) : f[i] \in Units  BY ElementOfSeq
<1>3. \A i \in 1..Len(f) : Len(f[i]) \in Nat  BY <1>2, LenProperties DEF Units
<1>4. \A i \in 1..Len(f) : \A k \in 1..Len(f[i]) : f[i][k] \in Nat
  BY <1>2, ElementOfSeq DEF Units
<1> QED  BY <1>1, <1>2, <1>3, <1>4

\* A part of a sequence of numbers.
LEMMA Part ==
  ASSUME NEW c \in Units, NEW a \in Nat, NEW b \in Nat, a >= 1, b <= Len(c), a <= b + 1
  PROVE  /\ SubSeq(c, a, b) \in Units /\ Len(SubSeq(c, a, b)) = b + 1 - a
         /\ \A k \in 1..b + 1 - a : SubSeq(c, a, b)[k] = c[a + k - 1]
<1>1. \A i \in a..b : c[i] \in Nat  BY ElementOfSeq, LenProperties DEF Units
<1>2. /\ SubSeq(c, a, b) \in Seq(Nat)
      /\ Len(SubSeq(c, a, b)) = IF a <= b THEN b - a + 1 ELSE 0
      /\ \A i \in 1..b - a + 1 : SubSeq(c, a, b)[i] = c[a + i - 1]
  BY <1>1, SubSeqProperties
<1>3. b - a + 1 = b + 1 - a  OBVIOUS
<1> QED  BY <1>2, <1>3 DEF Units

\* What the next lemmas need to know of a stream, without its being a sequence.
Sizes(f, c) == /\ Len(f) \in Nat /\ Len(c) \in Nat
               /\ \A i \in 1..Len(f) : Len(f[i]) \in Nat

\* n units of x, after the first j of them, follow c; c without its first n units.
Longer(c, c2, x, j, n) == /\ Len(c2) = Len(c) + n /\ \A i \in 1..Len(c) : c2[i] = c[i]
                          /\ \A k \in 1..n : c2[Len(c) + k] = x[j + k]
Shorter(c, c2, n) == Len(c2) = Len(c) - n /\ \A k \in 1..Len(c) - n : c2[k] = c[n + k]

\* The place where the next field starts can be added.
LEMMA Further ==
  ASSUME NEW f, NEW st, NEW L \in Nat, NEW w \in Nat, NEW r \in Nat, NEW c, Sizes(f, c),
         Offsets(f, st, L), InTransit(f, st, L, w, r, c), L <= Len(f), w <= st[L] + Len(f[L])
  PROVE  \E st2 : /\ Offsets(f, st2, L + 1) /\ InTransit(f, st2, L + 1, w, r, c)
                  /\ \A i \in 1..L : st2[i] = st[i]
<1> DEFINE st2 == [i \in 1..L + 1 |-> IF i <= L THEN st[i] ELSE st[L] + Len(f[L])]
<1>1. L \in Nat /\ L \in 1..Len(f) /\ \A i \in 1..L : st[i] \in Nat /\ Len(f[i]) \in Nat
  BY DEF Offsets, Sizes
<1>2. /\ st2 \in [1..L + 1 -> Nat] /\ \A i \in 1..L : st2[i] = st[i]
      /\ st2[L + 1] = st[L] + Len(f[L])
  BY <1>1
<1> HIDE DEF st2
<1>3. \A i \in 1..L : st2[i + 1] = st2[i] + Len(f[i])
  <2>1. TAKE i \in 1..L
  <2>2. CASE i = L  BY <2>2, <1>2, <1>1
  <2>3. CASE i \in 1..L - 1
    <3>1. st2[i + 1] = st[i + 1] /\ st2[i] = st[i]  BY <2>3, <1>1, <1>2
    <3> QED  BY <2>3, <3>1 DEF Offsets
  <2> QED  BY <2>2, <2>3, <1>1
<1>4. \A i, j \in 1..L + 1 : i <= j => st2[i] <= st2[j]
  <2>1. \A i \in 1..L : st2[i] <= st2[L]  BY <1>1, <1>2 DEF Offsets
  <2>2. \A i \in 1..L : st2[i] <= st2[L + 1]  BY <1>1, <1>2, <2>1
  <2> QED  BY <2>2, <1>1, <1>2, SMTT(40) DEF Offsets
<1>5. Offsets(f, st2, L + 1)  BY <1>1, <1>2, <1>3, <1>4, SMTT(40) DEF Offsets, Sizes
<1>6. InTransit(f, st2, L + 1, w, r, c)
  <2>0. Len(c) + r = w  BY Zenon DEF InTransit
  <2>1. ASSUME NEW i \in 1..L + 1, i <= Len(f), NEW k \in 1..Len(f[i]),
               NEW x \in 1..Len(c), r + x = st2[i] + k
        PROVE  c[x] = f[i][k]
    <3>1. CASE i \in 1..L
      <4>1. r + x = st[i] + k  BY <2>1, <3>1, <1>2
      <4> QED  BY <4>1, <2>1, <3>1 DEF InTransit
    <3>2. CASE i = L + 1
      <4>1. k \in Nat /\ k >= 1 /\ x \in Nat /\ x <= Len(c) /\ Len(c) \in Nat /\ i \in 1..Len(f)
        BY <2>1, <1>1, <3>2 DEF Sizes
      <4>2. r + x > w  BY <4>1, <2>1, <3>2, <1>1, <1>2
      <4> QED  BY <4>1, <4>2, <2>0
    <3> QED  BY <3>1, <3>2, <1>1
  <2> QED  BY <2>0, <2>1 DEF InTransit
<1> QED  BY <1>2, <1>5, <1>6

\* The next n units of the field the writer is at go into the stream.
LEMMA Written ==
  ASSUME NEW f, NEW st, NEW L, NEW r \in Nat, NEW c, NEW c2, Sizes(f, c),
         NEW s \in 1..Len(f), NEW j \in Nat, NEW n \in Nat,
         Offsets(f, st, L), s + 1 <= L, j + n <= Len(f[s]),
         InTransit(f, st, L, st[s] + j, r, c),
         Longer(c, c2, f[s], j, n)
  PROVE  InTransit(f, st, L, st[s] + j + n, r, c2)
<1>0. /\ L \in Nat /\ Len(f) \in Nat /\ Len(c) \in Nat /\ \A i \in 1..L : st[i] \in Nat
      /\ \A i \in 1..Len(f) : Len(f[i]) \in Nat
      /\ s \in 1..L /\ s + 1 \in 1..L
  <2>1. L \in Nat /\ Len(f) \in Nat
    <3>1. Len(f) \in Nat /\ L \in 1..Len(f) + 1  BY Zenon DEF Offsets, Sizes
    <3> QED  BY <3>1
  <2>3. st \in [1..L -> Nat]  BY Zenon DEF Offsets
  <2>2. s \in 1..L /\ s + 1 \in 1..L  BY <2>1
  <2> QED  BY <2>1, <2>2, <2>3 DEF Sizes
<1>1. Len(c) + r = st[s] + j  BY Zenon DEF InTransit
<1>2. st[s + 1] = st[s] + Len(f[s])  BY <1>0, SMTT(40) DEF Offsets
<1>3. st[s] \in Nat /\ Len(f[s]) \in Nat /\ Len(c2) = Len(c) + n  BY <1>0 DEF Longer
<1>4. ASSUME NEW i \in 1..L, i <= Len(f), NEW k \in 1..Len(f[i]),
             NEW x \in 1..Len(c2), r + x = st[i] + k
      PROVE  c2[x] = f[i][k]
  <2>0. st[i] \in Nat /\ k \in Nat /\ k >= 1 /\ i \in Nat /\ x \in Nat /\ x >= 1 /\ x <= Len(c) + n
    <3>1. st[i] \in Nat /\ i \in 1..Len(f)  BY <1>0, <1>4
    <3>2. Len(f[i]) \in Nat  BY <3>1, <1>0
    <3> QED  BY <3>1, <3>2, <1>0, <1>3
  <2>1. CASE x <= Len(c)
    <3>1. x \in 1..Len(c)  BY <2>1, <1>0, <2>0
    <3>2. c2[x] = c[x]  BY <3>1 DEF Longer
    <3> QED  BY <3>1, <3>2, <1>4 DEF InTransit
  <2>2. CASE x > Len(c)
    <3>0. PICK a \in Nat, b \in Nat, m \in Nat, l \in Nat, h \in Nat, y \in Nat, o \in Nat :
             /\ a = st[i] /\ b = st[s] /\ m = Len(c) /\ l = Len(f[s]) /\ h = k /\ y = x /\ o = i
      BY <2>0, <1>0, <1>3
    <3>1. a + h > b + j /\ a + h <= b + j + n /\ y - m = h - j + (a - b)
      <4>1. m + r = b + j  BY <3>0, <1>1
      <4>2. r + y = a + h /\ y > m /\ y <= m + n  BY <3>0, <1>4, <2>0, <2>2
      <4> QED  BY <4>1, <4>2
    <3>2. ~(o >= s + 1)
      <4>1. SUFFICES ASSUME o >= s + 1 PROVE FALSE  OBVIOUS
      <4>2. st[s + 1] <= st[i]  BY <4>1, <3>0, <1>0 DEF Offsets
      <4>3. b + l <= a  BY <4>2, <3>0, <1>2
      <4>4. h >= 1 /\ j + n <= l  BY <3>0, <2>0
      <4> QED  BY <4>3, <4>4, <3>1
    <3>3. ~(o + 1 <= s)
      <4>1. SUFFICES ASSUME o + 1 <= s PROVE FALSE  OBVIOUS
      <4>2. i + 1 \in 1..L /\ i \in 1..L - 1  BY <4>1, <3>0, <1>0, <2>0
      <4>3. i + 1 <= s  BY <4>1, <3>0
      <4>4. st[i + 1] <= st[s]  BY <4>2, <4>3, <1>0 DEF Offsets
      <4>5. st[i + 1] = st[i] + Len(f[i])  BY <4>2 DEF Offsets
      <4>6. PICK g \in Nat : g = Len(f[i])  BY <1>4, <1>0
      <4>7. a + g <= b /\ h <= g  BY <4>4, <4>5, <4>6, <3>0, <1>4
      <4> QED  BY <4>7, <3>1
    <3>4. o = s  BY <3>2, <3>3
    <3>5. a = b  BY <3>0, <3>4
    <3>6. h - j \in 1..n /\ y = m + (h - j) /\ j + (h - j) = h  BY <3>1, <3>5
    <3>7. c2[m + (h - j)] = f[s][j + (h - j)]  BY <3>6, <3>0 DEF Longer
    <3> QED  BY <3>0, <3>4, <3>6, <3>7
  <2> QED  BY <2>1, <2>2, <2>0, <1>0
<1>5. Len(c2) + r = st[s] + j + n  BY <1>0, <1>1, <1>3
<1> QED  BY <1>4, <1>5, Zenon DEF InTransit

\* The first n units leave the stream.
LEMMA Left ==
  ASSUME NEW f, NEW st, NEW L, NEW w \in Nat, NEW r \in Nat, NEW c, NEW c2, Sizes(f, c),
         NEW n \in Nat, Offsets(f, st, L), InTransit(f, st, L, w, r, c),
         n <= Len(c), Shorter(c, c2, n)
  PROVE  InTransit(f, st, L, w, r + n, c2)
<1>0. /\ L \in Nat /\ Len(f) \in Nat /\ Len(c) \in Nat /\ \A i \in 1..L : st[i] \in Nat
      /\ \A i \in 1..Len(f) : Len(f[i]) \in Nat
  BY DEF Offsets, Sizes
<1>1. Len(c) + r = w  BY Zenon DEF InTransit
<1>2. Len(c2) = Len(c) - n  BY DEF Shorter
<1>3. ASSUME NEW i \in 1..L, i <= Len(f), NEW k \in 1..Len(f[i]),
             NEW x \in 1..Len(c2), r + n + x = st[i] + k
      PROVE  c2[x] = f[i][k]
  <2>1. x \in 1..Len(c) - n  BY <1>2
  <2>2. c2[x] = c[n + x]  BY <2>1 DEF Shorter
  <2>3. n + x \in 1..Len(c) /\ r + (n + x) = r + n + x
    <3>1. PICK m \in Nat : m = Len(c)  BY <1>0
    <3>2. x \in Nat /\ x >= 1 /\ x <= m - n  BY <2>1, <3>1
    <3>3. PICK y \in Nat : y = x  BY <3>2
    <3>4. n + y \in 1..m /\ r + (n + y) = r + n + y  BY <3>2, <3>3
    <3> QED  BY <3>1, <3>3, <3>4
  <2>4. c[n + x] = f[i][k]  BY <2>3, <1>3, SMTT(40) DEF InTransit
  <2> QED  BY <2>2, <2>4
<1>4. Len(c2) + (r + n) = w
  <2>1. PICK m \in Nat : m = Len(c)  BY <1>0
  <2>2. m - n + (r + n) = w  BY <2>1, <1>1
  <2> QED  BY <2>1, <2>2, <1>2
<1> QED  BY <1>3, <1>4, Zenon DEF InTransit

-----------------------------------------------------------------------------
(* The fields of a message.                                                 *)

LEMMA Ints ==
  ASSUME NEW n \in Nat
  PROVE  IntOf(n) \in Pair /\ Value(IntOf(n)) = n
<1>1. n % 128 \in Nat /\ n \div 128 \in Nat /\ (n % 128) + 128 * (n \div 128) = n  BY SMT
<1>2. IntOf(n) \in Pair  BY <1>1 DEF IntOf, Pair
<1> QED  BY <1>1, <1>2 DEF IntOf, Value

LEMMA Pairs ==
  ASSUME NEW i \in Pair
  PROVE  /\ i \in Units /\ Len(i) = 2 /\ i[1] \in Nat /\ i[2] \in Nat /\ Value(i) \in Nat
         /\ i = <<i[1], i[2]>>
<1>1. i \in Seq(Nat) /\ Len(i) = 2  BY DEF Pair
<1>2. i[1] \in Nat /\ i[2] \in Nat
  <2>1. 1 \in 1..Len(i) /\ 2 \in 1..Len(i)  BY <1>1
  <2> QED  BY <1>1, <2>1
<1>3. i = <<i[1], i[2]>>  BY <1>1, <1>2
<1> QED  BY <1>1, <1>2, <1>3 DEF Units, Value

\* What is seen of a message that can be sent.
LEMMA Views ==
  ASSUME NEW m, Sendable(m)
  PROVE  /\ m \in Message /\ Strings(m) \in Nat /\ Strings(m) <= MaxAlloc
         /\ Strings(m) > 0 => HasInt(m)
         /\ View(m).head = m.head
         /\ View(m).int = IF ~HasInt(m) THEN <<>> ELSE IF Command(m) = Cmd.link THEN m.dst ELSE m.argc
         /\ View(m).strs \in Seq(Units) /\ Len(View(m).strs) = Strings(m)
         /\ \A k \in 1..Strings(m) : /\ View(m).strs[k] = m.strs[k] /\ m.strs[k] \in Units
                                     /\ Len(m.strs[k]) \in Nat /\ Len(m.strs[k]) <= MaxAlloc
<1>1. m \in Message /\ Strings(m) <= MaxAlloc  BY DEF Sendable
<1>2. m.argc \in Pair /\ m.strs \in Seq(Units)  BY <1>1 DEF Message, Units
<1>3. Strings(m) \in Nat /\ (Strings(m) > 0 => HasInt(m))
  BY <1>2, Pairs DEF Strings, HasInt, Cmd
<1>4. /\ View(m).head = m.head
      /\ View(m).int = IF ~HasInt(m) THEN <<>> ELSE IF Command(m) = Cmd.link THEN m.dst ELSE m.argc
      /\ View(m).strs = IF Strings(m) > 0 THEN m.strs ELSE <<>>
  BY Zenon DEF View
<1>5. CASE Strings(m) > 0
  <2>1. View(m).strs = m.strs /\ Len(m.strs) = Strings(m)  BY <1>4, <1>5 DEF Sendable
  <2>2. \A k \in 1..Strings(m) : m.strs[k] \in Units /\ Len(m.strs[k]) <= MaxAlloc
    BY <2>1, <1>2, ElementOfSeq DEF Sendable
  <2>3. \A k \in 1..Strings(m) : Len(m.strs[k]) \in Nat  BY <2>2, LenProperties DEF Units
  <2> QED  BY <1>1, <1>2, <1>3, <1>4, <2>1, <2>2, <2>3
<1>6. CASE Strings(m) = 0
  <2>1. View(m).strs = <<>>  BY <1>4, <1>6
  <2> QED  BY <1>1, <1>3, <1>4, <1>6, <2>1
<1> QED  BY <1>3, <1>5, <1>6

LEMMA FieldsOf ==
  ASSUME NEW m, Sendable(m)
  PROVE  /\ Fields(m) \in Seq(Units)
         /\ Len(Fields(m)) = IF HasInt(m) THEN 2 * (Strings(m) + 1) ELSE 1
         /\ Fields(m)[1] = m.head
         /\ HasInt(m) => Fields(m)[2] = View(m).int /\ View(m).int \in Pair
         /\ \A k \in 1..Strings(m) : /\ Fields(m)[2 * k + 1] = IntOf(Len(m.strs[k]))
                                     /\ Fields(m)[2 * k + 2] = m.strs[k]
<1> DEFINE N == IF HasInt(m) THEN 2 * (Strings(m) + 1) ELSE 1
           v == View(m)
           part(k) == IF k = 0 THEN <<v.head, v.int>> ELSE <<StrLen(v.strs[k]), v.strs[k]>>
           fld(i) == part((i - 1) \div 2)[((i - 1) % 2) + 1]
<1>1. N \in Nat /\ Len(v.strs) = Strings(m) /\ Strings(m) \in Nat  BY Views
<1>2. Fields(m) = [i \in 1..N |-> fld(i)]  BY <1>1 DEF Fields
<1>3. m.head \in Pair /\ (HasInt(m) => v.int \in Pair)
  BY Views DEF Message
<1>4. fld(1) = m.head /\ fld(2) = v.int
  BY Views
<1>5. ASSUME NEW k \in 1..Strings(m)
      PROVE  fld(2 * k + 1) = IntOf(Len(m.strs[k])) /\ fld(2 * k + 2) = m.strs[k]
  <2>1. k \in Nat /\ k # 0  BY <1>1
  <2>2. /\ (2 * k + 1 - 1) \div 2 = k /\ (2 * k + 1 - 1) % 2 = 0
        /\ (2 * k + 2 - 1) \div 2 = k /\ (2 * k + 2 - 1) % 2 = 1  BY <2>1
  <2> DEFINE q == part(k)
  <2>3. q[1] = StrLen(v.strs[k]) /\ q[2] = v.strs[k]  BY <2>1
  <2>4. fld(2 * k + 1) = q[0 + 1] /\ fld(2 * k + 2) = q[1 + 1]  BY ONLY <2>2
  <2>5. fld(2 * k + 1) = StrLen(v.strs[k]) /\ fld(2 * k + 2) = v.strs[k]
    <3> HIDE DEF q, fld
    <3> QED  BY <2>3, <2>4
  <2> QED  BY <2>5, Views DEF StrLen
<1>6. ASSUME NEW i \in 1..N  PROVE fld(i) \in Units
  <2>1. CASE i = 1  BY <2>1, <1>3, <1>4, Pairs
  <2>2. CASE i = 2  BY <2>2, <1>3, <1>4, <1>1, Pairs
  <2>3. CASE i > 2
    <3>1. HasInt(m) /\ i \in Nat /\ i <= 2 * (Strings(m) + 1)  BY <2>3, <1>1
    <3>2. PICK k \in Nat : i = 2 * k + 1 \/ i = 2 * k + 2
      <4>1. \A x \in Nat : x > 2 =>
              \/ x = 2 * ((x - 1) \div 2) + 1 /\ (x - 1) \div 2 \in Nat
              \/ x = 2 * ((x - 1) \div 2) + 2 /\ (x - 1) \div 2 \in Nat
        OBVIOUS
      <4> QED  BY <4>1, <3>1, <2>3
    <3>3. k \in 1..Strings(m)  BY <3>1, <3>2, <2>3, <1>1
    <3>4. IntOf(Len(m.strs[k])) \in Units /\ m.strs[k] \in Units  BY <3>3, Views, Ints, Pairs
    <3> QED  BY <3>2, <3>3, <3>4, <1>5
  <2> QED  BY <2>1, <2>2, <2>3, <1>1
<1> HIDE DEF fld, N
<1>7. Fields(m) \in [1..N -> Units]  BY <1>2, <1>6
<1>8. Fields(m) \in Seq(Units) /\ Len(Fields(m)) = N  BY <1>7, <1>1
<1>9. 1 \in 1..N /\ (HasInt(m) => 2 \in 1..N)
      /\ \A k \in 1..Strings(m) : 2 * k + 1 \in 1..N /\ 2 * k + 2 \in 1..N
  BY <1>1, Views DEF N
<1>10. \A i \in 1..N : Fields(m)[i] = fld(i)  BY <1>2
<1>11. \A k \in 1..Strings(m) : /\ Fields(m)[2 * k + 1] = IntOf(Len(m.strs[k]))
                                /\ Fields(m)[2 * k + 2] = m.strs[k]
  BY <1>5, <1>9, <1>10
<1>12. Fields(m)[1] = m.head /\ (HasInt(m) => Fields(m)[2] = v.int)  BY <1>4, <1>9, <1>10
<1> QED  BY <1>3, <1>8, <1>11, <1>12 DEF N

-----------------------------------------------------------------------------
(* Types.                                                                   *)

LEMMA Overs ==
  ASSUME NEW old \in Pair, NEW g \in Units, Len(g) <= 2
  PROVE  Over(old, g) \in Pair /\ (Len(g) = 2 => Over(old, g) = g)
<1> DEFINE x == SubSeq(old, Len(g) + 1, 2)
<1>1. old \in Units /\ Len(old) = 2 /\ Len(g) \in Nat  BY Pairs, LenProperties DEF Units
<1>2. x \in Units /\ Len(x) + Len(g) = 2 /\ Len(x) \in Nat
  <2>1. PICK l \in Nat : l = Len(g)  BY <1>1
  <2>2. PICK a \in Nat : a = l + 1  OBVIOUS
  <2>3. a >= 1 /\ a <= 2 + 1 /\ 2 <= Len(old)  BY <2>1, <2>2, <1>1
  <2>4. SubSeq(old, a, 2) \in Units /\ Len(SubSeq(old, a, 2)) = 2 + 1 - a
    <3>1. old \in Units /\ 2 \in Nat  BY <1>1
    <3> QED  BY ONLY <2>3, <3>1, Part, a \in Nat
  <2>5. 2 + 1 - a + l = 2 /\ 2 + 1 - a \in Nat  BY <2>2, <2>3
  <2> QED  BY <2>1, <2>2, <2>4, <2>5
<1>3. Over(old, g) = g \o x  BY <1>1 DEF Over
<1> HIDE DEF x
<1>4. g \o x \in Seq(Nat) /\ Len(g \o x) = 2
  <2>1. g \o x \in Seq(Nat) /\ Len(g \o x) = Len(g) + Len(x)  BY <1>2, ConcatProperties DEF Units
  <2> QED  BY <2>1, <1>1, <1>2
<1>5. ASSUME Len(g) = 2  PROVE g \o x = g
  <2>1. Len(x) = 0  BY <1>2, <1>5
  <2>2. x = <<>>  BY <1>2, <2>1, EmptySeq DEF Units
  <2> QED  BY <2>2, ConcatEmptySeq DEF Units
<1>6. Over(old, g) \in Pair  BY <1>3, <1>4 DEF Pair
<1> QED  BY <1>3, <1>5, <1>6

LEMMA WholeOver ==
  ASSUME NEW old \in Pair, NEW g \in Units, Len(g) = 2
  PROVE  Over(old, g) = g
<1>1. Len(g) <= 2  OBVIOUS
<1> QED  BY <1>1, Overs

LEMMA CurSendable == ASSUME Types PROVE Sendable(cur)
  BY SentAssumption DEF Types

LEMMA JunkType == Junk \in Message
<1>1. <<0, 0>> \in Pair  BY DEF Pair
<1> QED  BY <1>1 DEF Junk, Message

\* Nothing is read yet of the field that is awaited.
LEMMA Anew ==
  /\ got = <<>> /\ want \in Nat /\ at \in {"idle", "head", "int", "len", "str"}
  /\ at \in {"head", "int", "len"} => want = 2
  => Awaited
<1>1. <<>> \in Units /\ Len(<<>>) = 0  BY EmptySeq DEF Units
<1> QED  BY <1>1 DEF Awaited

LEMMA TypesInit == Init => Types
<1> SUFFICES ASSUME Init PROVE Types  OBVIOUS
<1>1. Sendable(cur)  BY SentAssumption DEF Init
<1>2. out \in Seq(Units)  BY <1>1, FieldsOf DEF Init
<1>3. Junk \in Message  BY JunkType
<1>4. <<>> \in Units  BY EmptySeq DEF Units
<1>5. Awaited /\ got = <<>>  BY Anew DEF Init
<1> QED  BY <1>2, <1>3, <1>4, <1>5 DEF Init, Types

\* What one read() takes: n units, after which g was read of the field.
Takes(n, g) ==
  /\ n \in Nat /\ n <= Len(chan) /\ n <= want - Len(got)
  /\ n < want - Len(got) => n = Len(chan)
  /\ g \in Units /\ Len(g) = Len(got) + n
  /\ \A k \in 1..Len(got) : g[k] = got[k]
  /\ \A k \in 1..n : g[Len(got) + k] = chan[k]
  /\ chan' \in Units /\ Shorter(chan, chan', n)
  /\ eof' = (eof \/ (n = 0 /\ want > 0))
  /\ IF Loops /\ n > 0 /\ Len(g) < want
       THEN got' = g /\ UNCHANGED <<at, want, msg, ret>>
       ELSE HeadRead(g) \/ IntRead(g) \/ LenRead(g) \/ StrRead(g)

LEMMA Reads ==
  ASSUME Types, Read
  PROVE  /\ at # "idle" /\ (want = 0 \/ chan # <<>> \/ ~open)
         /\ UNCHANGED <<chosen, cur, out, open, before>>
         /\ \E n \in Nat : \E g \in Units : Takes(n, g)
<1> DEFINE n == IF want - Len(got) <= Len(chan) THEN want - Len(got) ELSE Len(chan)
           h == SubSeq(chan, 1, n)
           g == got \o h
<1>1. /\ Len(got) \in Nat /\ Len(chan) \in Nat /\ want \in Nat /\ Len(got) <= want
      /\ chan \in Units /\ got \in Units
  BY LenProperties DEF Types, Awaited, Units
<1>2. /\ n \in Nat /\ n <= Len(chan) /\ n <= want - Len(got)
      /\ n < want - Len(got) => n = Len(chan)
  BY <1>1
<1>3. /\ chan' = SubSeq(chan, n + 1, Len(chan))
      /\ eof' = (eof \/ (n = 0 /\ want > 0))
      /\ IF Loops /\ n > 0 /\ Len(g) < want
           THEN got' = g /\ UNCHANGED <<at, want, msg, ret>>
           ELSE HeadRead(g) \/ IntRead(g) \/ LenRead(g) \/ StrRead(g)
  BY Zenon DEF Read
<1> HIDE DEF n
<1>4. h \in Units /\ Len(h) = n /\ \A k \in 1..n : h[k] = chan[k]
  <2>1. /\ h \in Units /\ Len(h) = n + 1 - 1
        /\ \A k \in 1..n + 1 - 1 : h[k] = chan[1 + k - 1]
    BY <1>1, <1>2, Part
  <2>2. n + 1 - 1 = n /\ \A k \in 1..n : 1 + k - 1 = k  BY <1>2
  <2> QED  BY <2>1, <2>2
<1> HIDE DEF h
<1>5. /\ g \in Units /\ Len(g) = Len(got) + n
      /\ \A k \in 1..Len(got) : g[k] = got[k]
      /\ \A k \in 1..n : g[Len(got) + k] = h[k]
  <2>1. /\ g \in Seq(Nat) /\ Len(g) = Len(got) + Len(h)
        /\ \A i \in 1..Len(got) + Len(h) : g[i] = IF i <= Len(got) THEN got[i] ELSE h[i - Len(got)]
    BY <1>1, <1>4, ConcatProperties DEF Units
  <2>2. \A k \in 1..Len(got) : g[k] = got[k]  BY <2>1, <1>1, <1>2, <1>4
  <2>3. ASSUME NEW k \in 1..n  PROVE g[Len(got) + k] = h[k]
    <3>1. PICK b \in Nat : b = Len(got)  BY <1>1
    <3>2. PICK m \in Nat : m = n  BY <1>2
    <3>3. PICK i \in Nat : i = k  BY <3>2
    <3>4. i >= 1 /\ i <= m  BY <3>2, <3>3
    <3>5. b + i \in 1..b + m /\ ~(b + i <= b) /\ b + i - b = i  BY <3>4
    <3>6. g[b + i] = h[b + i - b]  BY <2>1, <3>1, <3>2, <3>5, <1>4
    <3> QED  BY <3>1, <3>3, <3>5, <3>6
  <2> QED  BY <2>1, <2>2, <2>3, <1>4 DEF Units
<1>6. chan' \in Units /\ Shorter(chan, chan', n)
  <2>1. PICK b \in Nat : b = Len(chan)  BY <1>1
  <2>2. PICK m \in Nat : m = n  BY <1>2
  <2>3. m <= b  BY <1>2, <2>1, <2>2
  <2>4. /\ chan' \in Units /\ Len(chan') = b + 1 - (m + 1)
        /\ \A k \in 1..b + 1 - (m + 1) : chan'[k] = chan[m + 1 + k - 1]
    <3>1. m + 1 \in Nat /\ m + 1 >= 1 /\ m + 1 <= b + 1 /\ b <= Len(chan)  BY <2>1, <2>3
    <3>2. chan' = SubSeq(chan, m + 1, b)  BY <1>3, <2>1, <2>2
    <3> QED  BY <3>1, <3>2, <1>1, Part
  <2>5. b + 1 - (m + 1) = b - m /\ \A k \in 1..b - m : m + 1 + k - 1 = m + k  BY <2>3
  <2>6. \A k \in 1..b - m : chan'[k] = chan[m + k]  BY <2>4, <2>5
  <2> QED  BY <2>1, <2>2, <2>4, <2>5, <2>6 DEF Shorter
<1>7. Takes(n, g)  BY <1>2, <1>3, <1>4, <1>5, <1>6 DEF Takes
<1> QED  BY <1>2, <1>5, <1>7 DEF Read

\* What a field that was read to the end, or cut off, makes of the message.
FieldRead(g) == HeadRead(g) \/ IntRead(g) \/ LenRead(g) \/ StrRead(g)

LEMMA Taking ==
  ASSUME Types, NEW g \in Units, Len(g) <= want, FieldRead(g)
  PROVE  /\ msg' \in Message /\ got' = <<>> /\ want' \in Nat
         /\ at' \in {"idle", "head", "int", "len", "str"}
         /\ at' \in {"head", "int", "len"} => want' = 2
<1>0. /\ msg \in Message /\ msg.head \in Pair /\ msg.argc \in Pair /\ msg.dst \in Pair
      /\ msg.strs \in Seq(Units) /\ want \in Nat /\ Len(g) \in Nat
  BY LenProperties DEF Types, Awaited, Message, Units
<1>1. CASE HeadRead(g)
  <2>1. Over(msg.head, g) \in Pair  BY <1>0, <1>1, Overs DEF HeadRead, Types, Awaited
  <2>2. msg' \in Message  BY <1>0, <1>1, <2>1 DEF HeadRead, Message
  <2> QED  BY <1>1, <2>2 DEF HeadRead, Await, Return
<1>2. CASE IntRead(g)
  <2>0. want = 2  BY <1>2 DEF IntRead, Types, Awaited
  <2>1. Over(msg.argc, g) \in Pair /\ Over(msg.dst, g) \in Pair  BY <1>0, <2>0, Overs
  <2>2. <<>> \in Seq(Units) /\ Units = Seq(Nat)  BY EmptySeq DEF Units
  <2>3. \/ msg' = [msg EXCEPT !.argc = Over(@, g)]
        \/ msg' = [msg EXCEPT !.dst = Over(@, g), !.strs = <<>>]
        \/ msg' = [msg EXCEPT !.argc = Over(@, g), !.strs = <<>>]
    BY <1>2 DEF IntRead
  <2>4. msg' \in Message  BY <1>0, <2>1, <2>2, <2>3 DEF Message
  <2>5. Await("len", 2) \/ Return(0) \/ Return(-1)  BY <1>2 DEF IntRead, StringOrEnd
  <2> QED  BY <2>4, <2>5 DEF Await, Return
<1>3. CASE LenRead(g)
  <2>1. CASE Short(g)  BY <1>0, <1>3, <2>1 DEF LenRead, Return
  <2>2. CASE ~Short(g)
    <3>0. want = 2  BY <1>3 DEF LenRead, Types, Awaited
    <3>1. Len(g) = 2
      <4>1. PICK l \in Nat : l = Len(g)  BY <1>0
      <4>2. ~(l < 2)  BY <2>2, <3>0, <4>1 DEF Short
      <4>3. l <= 2  BY <3>0, <4>1
      <4> QED  BY <4>1, <4>2, <4>3
    <3>2. Value(g) \in Nat  BY <3>0, <3>1, Pairs DEF Pair, Units
    <3>3. MaxAlloc + 1 \in Nat  BY SizeAssumption
    <3>4. IntOf(MaxAlloc + 1) \in Pair  BY <3>3, Ints
    <3>5. \/ msg' = [msg EXCEPT !.argc = IntOf(MaxAlloc + 1)]
          \/ msg' = msg
      BY <1>3, <2>2 DEF LenRead
    <3>6. msg' \in Message  BY <1>0, <3>4, <3>5 DEF Message
    <3>7. Await("str", Value(g)) \/ Return(-1)  BY <1>3, <2>2 DEF LenRead
    <3> QED  BY <3>2, <3>6, <3>7 DEF Await, Return
  <2> QED  BY <2>1, <2>2
<1>4. CASE StrRead(g)
  <2>1. CASE Short(g)  BY <1>0, <1>4, <2>1 DEF StrRead, Return
  <2>2. CASE ~Short(g)
    <3>1. Append(msg.strs, g) \in Seq(Units)  BY <1>0, AppendProperties
    <3>2. msg' = [msg EXCEPT !.strs = Append(@, g)]  BY <1>4, <2>2 DEF StrRead
    <3>3. msg' \in Message  BY <1>0, <3>1, <3>2 DEF Message, Units
    <3>4. Await("len", 2) \/ Return(0)  BY <1>4, <2>2 DEF StrRead, StringOrEnd
    <3> QED  BY <3>3, <3>4 DEF Await, Return
  <2> QED  BY <2>1, <2>2
<1> QED  BY <1>1, <1>2, <1>3, <1>4 DEF FieldRead

LEMMA TypesStep == ASSUME Types, [Next]_vars PROVE Types'
<1>0. <<>> \in Units /\ Len(<<>>) = 0 /\ <<>> \in Seq(Units)  BY EmptySeq DEF Units
<1>1. ASSUME NEW n \in 0..Cap, Write(n)  PROVE Types'
  <2> DEFINE field == Head(out)
             rest == SubSeq(field, n + 1, Len(field))
  <2>1. out \in Seq(Units) /\ out # <<>> /\ chan \in Units  BY <1>1 DEF Types, Write
  <2>2. field \in Units /\ Tail(out) \in Seq(Units) /\ Len(field) \in Nat
    BY <2>1, HeadTailProperties, LenProperties DEF Units
  <2>3. n \in Nat /\ n <= Len(field)  BY <2>2, <1>1 DEF Write
  <2>4. rest \in Units /\ SubSeq(field, 1, n) \in Units
    <3>0. PICK m \in Nat, l \in Nat : m = n /\ l = Len(field)  BY <2>2, <2>3
    <3>1. PICK a \in Nat : a = m + 1  OBVIOUS
    <3>2. a >= 1 /\ a <= l + 1 /\ l <= Len(field) /\ 1 <= m + 1 /\ m <= Len(field)  BY <3>0, <3>1, <2>3
    <3>3. SubSeq(field, a, l) \in Units /\ SubSeq(field, 1, m) \in Units  BY <3>2, <2>2, Part
    <3> QED  BY <3>0, <3>1, <3>3
  <2> HIDE DEF rest
  <2>5. <<rest>> \in Seq(Units)  BY <2>4
  <2>6. <<rest>> \o Tail(out) \in Seq(Units)  BY <2>2, <2>5, ConcatProperties
  <2>7. out' = Tail(out) \/ out' = <<rest>> \o Tail(out)  BY <1>1 DEF Write, rest
  <2>8. chan' = chan \o SubSeq(field, 1, n)  BY <1>1 DEF Write
  <2>9. out' \in Seq(Units) /\ chan' \in Units
    BY <2>1, <2>2, <2>4, <2>6, <2>7, <2>8, ConcatProperties DEF Units
  <2>10. UNCHANGED <<chosen, cur, open, reader>>  BY <1>1 DEF Write
  <2> QED  BY <2>9, <2>10 DEF Types, Awaited, Loops, chosen, reader
<1>2. CASE Close
  BY <1>0, <1>2 DEF Close, Types, Awaited, Loops, chosen, reader
<1>3. CASE Connect
  <2>1. Sendable(cur') /\ out' = Fields(cur') /\ cur' \in Sent[link]
    BY <1>3, SentAssumption DEF Connect, Types
  <2>2. out' \in Seq(Units)  BY <2>1, FieldsOf
  <2>3. msg' \in Message  BY <1>3, JunkType DEF Connect, Types
  <2>4. at' = "head" /\ want' = 2 /\ got' = <<>> /\ eof' = FALSE  BY <1>3 DEF Connect, StartRead
  <2>5. Awaited'  BY <2>4, <1>0 DEF Awaited
  <2>6. UNCHANGED <<link, build>> /\ chan' = <<>> /\ open' = TRUE  BY <1>3 DEF Connect, chosen
  <2> QED  BY <1>0, <2>1, <2>2, <2>3, <2>4, <2>5, <2>6 DEF Types, Loops
<1>4. CASE SendNext
  <2>1. Sendable(cur') /\ out' = Fields(cur') /\ cur' \in Sent[link]
    BY <1>4, SentAssumption DEF SendNext, Types
  <2>2. out' \in Seq(Units)  BY <2>1, FieldsOf
  <2>3. at' = "head" /\ want' = 2 /\ got' = <<>> /\ eof' = FALSE  BY <1>4 DEF SendNext, StartRead
  <2>4. Awaited'  BY <2>3, <1>0 DEF Awaited
  <2>5. UNCHANGED <<link, build, chan, open, msg>>  BY <1>4 DEF SendNext, chosen
  <2> QED  BY <1>0, <2>1, <2>2, <2>3, <2>4, <2>5 DEF Types, Loops
<1>5. CASE ReadOn
  <2>1. at' = "head" /\ want' = 2 /\ got' = <<>> /\ eof' = FALSE  BY <1>5 DEF ReadOn, StartRead
  <2>2. Awaited'  BY <2>1, <1>0 DEF Awaited
  <2>3. UNCHANGED <<link, build, cur, out, chan, open, msg>>  BY <1>5 DEF ReadOn, chosen
  <2> QED  BY <2>1, <2>2, <2>3 DEF Types, Loops
<1>6. CASE Read
  <2>1. PICK n \in Nat, g \in Units : Takes(n, g)  BY <1>6, Reads
  <2>2. /\ UNCHANGED <<chosen, cur, out, open, before>>
        /\ want = 0 \/ chan # <<>> \/ ~open
    BY <1>6, Reads
  <2>3. Len(got) \in Nat /\ Len(chan) \in Nat /\ want \in Nat /\ Len(got) <= want
    BY LenProperties DEF Types, Awaited, Units
  <2>4. Len(g) <= want /\ Len(g) \in Nat  BY <2>1, <2>3 DEF Takes
  <2>5. eof' => ~open
    <3>1. CASE n = 0 /\ want > 0
      <4>1. CASE chan = <<>>  BY <2>2, <3>1, <4>1
      <4>2. CASE chan # <<>>
        <5>1. Len(chan) # 0  BY <4>2, EmptySeq DEF Types, Units
        <5>2. want = Len(got)  BY <5>1, <3>1, <2>1, <2>3 DEF Takes
        <5> QED  BY <5>2, <2>1, <2>3, <3>1 DEF Types, Awaited, Takes
      <4> QED  BY <4>1, <4>2
    <3>2. CASE ~(n = 0 /\ want > 0)  BY <3>2, <2>1 DEF Takes, Types
    <3> QED  BY <3>1, <3>2
  <2>6. CASE Loops /\ n > 0 /\ Len(g) < want
    <3>1. got' = g /\ UNCHANGED <<at, want, msg, ret>>  BY <2>1, <2>6 DEF Takes
    <3>2. Awaited'  BY <3>1, <2>1, <2>4, <2>6 DEF Awaited, Types, Takes
    <3> QED  BY <3>1, <3>2, <2>1, <2>2, <2>5, <2>6 DEF Takes, Types, Loops, chosen
  <2>7. CASE ~(Loops /\ n > 0 /\ Len(g) < want)
    <3>1. FieldRead(g)  BY <2>1, <2>7 DEF Takes, FieldRead
    <3>2. /\ msg' \in Message /\ got' = <<>> /\ want' \in Nat
          /\ at' \in {"idle", "head", "int", "len", "str"}
          /\ at' \in {"head", "int", "len"} => want' = 2
      BY <3>1, <2>4, Taking
    <3>3. Awaited'  BY <3>2, <1>0 DEF Awaited
    <3> QED  BY <2>1, <2>2, <2>5, <3>2, <3>3 DEF Takes, Types, Loops, chosen
  <2> QED  BY <2>6, <2>7
<1>7. CASE UNCHANGED vars
  BY <1>7 DEF vars, Types, Awaited, Loops, chosen, reader
<1> QED  BY <1>1, <1>2, <1>3, <1>4, <1>5, <1>6, <1>7 DEF Next

-----------------------------------------------------------------------------
(* What the reader makes of a whole field.                                  *)

\* Messages with the same head say the same about what follows it, if they
\* have the same count.
LEMMA SameHead ==
  ASSUME NEW a, NEW b, a.head = b.head
  PROVE  /\ Command(a) = Command(b) /\ HasInt(a) = HasInt(b)
         /\ (Command(b) = Cmd.run => a.argc = b.argc) => Strings(a) = Strings(b)
  BY DEF Command, HasInt, Strings

LEMMA SameView ==
  ASSUME NEW a, NEW b, a.head = b.head,
         HasInt(b) => IF Command(b) = Cmd.link THEN a.dst = b.dst ELSE a.argc = b.argc,
         Strings(b) > 0 => a.strs = b.strs
  PROVE  View(a) = View(b)
<1>1. Cmd.link # Cmd.run /\ (Command(b) = Cmd.run => HasInt(b))  BY DEF Cmd, HasInt
<1>2. Command(a) = Command(b) /\ HasInt(a) = HasInt(b) /\ Strings(a) = Strings(b)
  BY <1>1, SameHead
<1> QED  BY <1>2 DEF View

\* The reader has come to field p, and nothing is read of it yet.
Reached(p) ==
  /\ Stage(p) /\ got = <<>>
  /\ p <= Len(Fields(cur)) => want = Len(Fields(cur)[p])

LEMMA HeadWhole ==
  ASSUME Types, at = "head", HeadRead(Fields(cur)[1]), cur' = cur
  PROVE  Reached(2)'
<1>0. Sendable(cur)  BY CurSendable
<1> DEFINE f == Fields(cur)
<1>1. /\ Len(f) = IF HasInt(cur) THEN 2 * (Strings(cur) + 1) ELSE 1
      /\ f[1] = cur.head /\ (HasInt(cur) => f[2] \in Pair)
      /\ Strings(cur) \in Nat /\ (Strings(cur) > 0 => HasInt(cur)) /\ cur \in Message
  BY <1>0, FieldsOf, Views
<1>2. f[1] \in Units /\ Len(f[1]) = 2 /\ (HasInt(cur) => Len(f[2]) = 2)
  BY <1>1, Pairs DEF Message
<1>3. msg \in Message /\ msg.head \in Pair  BY DEF Types, Message
<1>4. Over(msg.head, f[1]) = f[1]  BY <1>2, <1>3, WholeOver
<1> HIDE DEF f
<1>5. msg' = [msg EXCEPT !.head = cur.head]  BY <1>1, <1>4 DEF HeadRead, f
<1>6. msg'.head = cur.head  BY <1>3, <1>5 DEF Message
<1>7. HasInt(msg') = HasInt(cur)  BY <1>6, SameHead
<1>8. CASE HasInt(cur)
  <2>1. Await("int", 2)  BY <1>7, <1>8 DEF HeadRead
  <2> QED  BY <2>1, <1>2, <1>6, <1>8 DEF Reached, Stage, Await, f
<1>9. CASE ~HasInt(cur)
  <2>1. Return(0)  BY <1>7, <1>9 DEF HeadRead
  <2>2. View(msg') = View(cur)  BY <1>1, <1>6, <1>9, SameView
  <2>3. Len(f) = 1  BY <1>1, <1>9
  <2> QED  BY <2>1, <2>2, <2>3 DEF Reached, Stage, Return, f
<1> QED  BY <1>8, <1>9

LEMMA IntWhole ==
  ASSUME Types, at = "int", HasInt(cur), msg.head = cur.head,
         IntRead(Fields(cur)[2]), cur' = cur
  PROVE  Reached(3)'
<1>0. Sendable(cur)  BY CurSendable
<1> DEFINE f == Fields(cur)
           g == View(cur).int
<1>1. /\ Len(f) = 2 * (Strings(cur) + 1)
      /\ f[2] = g /\ g \in Pair
      /\ g = IF Command(cur) = Cmd.link THEN cur.dst ELSE cur.argc
      /\ Strings(cur) \in Nat /\ Strings(cur) <= MaxAlloc /\ Len(View(cur).strs) = Strings(cur)
      /\ Strings(cur) > 0 => f[3] = IntOf(Len(cur.strs[1])) /\ Len(cur.strs[1]) \in Nat
  <2>1. 2 * 1 + 1 = 3  OBVIOUS
  <2>2. Strings(cur) \in Nat /\ (Strings(cur) > 0 => 1 \in 1..Strings(cur))  BY <1>0, Views
  <2> QED  BY <1>0, <2>1, <2>2, FieldsOf, Views, ZenonT(40)
<1>2. g \in Units /\ Len(g) = 2 /\ (Strings(cur) > 0 => Len(f[3]) = 2)
  BY <1>1, Pairs, Ints
<1>3. msg \in Message /\ msg.argc \in Pair /\ msg.dst \in Pair  BY DEF Types, Message
<1>4. Over(msg.argc, g) = g /\ Over(msg.dst, g) = g  BY <1>2, <1>3, WholeOver
<1>5. Command(msg) = Command(cur)  BY SameHead
<1>6. IntRead(g)  BY <1>1
<1> HIDE DEF f, g
<1>7. CASE Command(cur) = Cmd.response
  <2>1. msg' = [msg EXCEPT !.argc = g] /\ Return(0)
    BY <1>4, <1>5, <1>6, <1>7 DEF IntRead, Cmd
  <2>2. Strings(cur) = 0 /\ Command(cur) # Cmd.link  BY <1>7 DEF Strings, Cmd
  <2>3. msg'.head = cur.head /\ msg'.argc = cur.argc  BY <1>1, <1>3, <2>1, <2>2 DEF Message
  <2>4. View(msg') = View(cur)  BY <2>2, <2>3, SameView
  <2>5. 3 = Len(f) + 1  BY <1>1, <2>2
  <2> QED  BY <2>1, <2>4, <2>5 DEF Reached, Stage, Return, f
<1>8. CASE Command(cur) = Cmd.link
  <2>1. msg' = [msg EXCEPT !.dst = g, !.strs = <<>>] /\ Await("len", 2)
    BY <1>4, <1>5, <1>6, <1>8 DEF IntRead, Cmd
  <2>2. Strings(cur) = 1  BY <1>8 DEF Strings, Cmd
  <2>3. msg'.head = cur.head /\ msg'.dst = cur.dst /\ msg'.strs = <<>>
    BY <1>1, <1>3, <1>8, <2>1 DEF Message
  <2>4. Taken'  BY <2>2, <2>3, <1>1, <1>8 DEF Taken
  <2>5. 3 = 2 * Len(msg'.strs) + 3  BY <2>3
  <2> QED  BY <2>1, <2>2, <2>4, <2>5, <1>2 DEF Reached, Stage, Await, f
<1>9. CASE Command(cur) \notin {Cmd.response, Cmd.link}
  <2>0. Command(cur) = Cmd.run  BY <1>9 DEF HasInt
  <2>1. /\ msg' = [msg EXCEPT !.argc = g, !.strs = <<>>]
        /\ StringOrEnd(msg') \/ (Value(msg'.argc) > MaxAlloc /\ Return(-1))
    BY <1>4, <1>5, <1>6, <1>9 DEF IntRead
  <2>2. msg'.head = cur.head /\ msg'.argc = cur.argc /\ msg'.strs = <<>>
    BY <1>1, <1>3, <1>9, <2>1 DEF Message
  <2>3. Strings(msg') = Strings(cur)  BY <2>2, SameHead
  <2>4. Value(msg'.argc) = Strings(cur)  BY <2>0, <2>2 DEF Strings, Cmd
  <2>5. StringOrEnd(msg')  BY <2>1, <2>4, <1>1, SizeAssumption
  <2>6. CASE 0 < Strings(cur)
    <3>1. Await("len", 2)  BY <2>2, <2>3, <2>5, <2>6 DEF StringOrEnd
    <3>2. Taken'  BY <2>2, <2>6, <1>1, <1>9 DEF Taken
    <3>3. 3 = 2 * Len(msg'.strs) + 3  BY <2>2
    <3> QED  BY <3>1, <3>2, <3>3, <2>6, <1>2 DEF Reached, Stage, Await, f
  <2>7. CASE Strings(cur) = 0
    <3>1. Return(0)  BY <2>2, <2>3, <2>5, <2>7 DEF StringOrEnd
    <3>2. View(msg') = View(cur)  BY <2>2, <2>7, <1>9, SameView
    <3>3. 3 = Len(f) + 1  BY <1>1, <2>7
    <3> QED  BY <3>1, <3>2, <3>3 DEF Reached, Stage, Return, f
  <2> QED  BY <2>6, <2>7, <1>1
<1> QED  BY <1>7, <1>8, <1>9

\* The string to be received next.
LEMMA ThisString ==
  ASSUME Types, Taken
  PROVE  /\ Sendable(cur) /\ Len(msg.strs) \in Nat /\ Strings(cur) \in Nat
         /\ Len(Fields(cur)) = 2 * (Strings(cur) + 1)
         /\ Len(msg.strs) + 1 \in 1..Strings(cur)
         /\ LET s == cur.strs[Len(msg.strs) + 1]
            IN /\ s \in Units /\ Len(s) \in Nat /\ Len(s) <= MaxAlloc
               /\ View(cur).strs[Len(msg.strs) + 1] = s
               /\ Fields(cur)[2 * Len(msg.strs) + 3] = IntOf(Len(s))
               /\ Fields(cur)[2 * Len(msg.strs) + 4] = s
<1>1. Sendable(cur) /\ HasInt(cur) /\ Strings(cur) \in Nat /\ Len(View(cur).strs) = Strings(cur)
  BY CurSendable, Views DEF Taken
<1>2. Len(msg.strs) \in Nat  BY LenProperties DEF Types, Message
<1>3. PICK n \in Nat : n = Len(msg.strs)  BY <1>2
<1>4. PICK k \in Nat : k = n + 1  OBVIOUS
<1>5. k \in 1..Strings(cur)  BY <1>1, <1>3, <1>4 DEF Taken
<1>6. 2 * k + 1 = 2 * n + 3 /\ 2 * k + 2 = 2 * n + 4  BY <1>4
<1>7. /\ cur.strs[k] \in Units /\ Len(cur.strs[k]) \in Nat /\ Len(cur.strs[k]) <= MaxAlloc
      /\ View(cur).strs[k] = cur.strs[k]
  BY <1>1, <1>5, Views
<1>8. Fields(cur)[2 * k + 1] = IntOf(Len(cur.strs[k])) /\ Fields(cur)[2 * k + 2] = cur.strs[k]
  BY <1>1, <1>5, FieldsOf
<1>9. Len(Fields(cur)) = 2 * (Strings(cur) + 1)  BY <1>1, FieldsOf
<1> QED  BY <1>1, <1>2, <1>3, <1>4, <1>5, <1>6, <1>7, <1>8, <1>9

\* On a pipe a count is only believed by the build that reports it.
LEMMA NotShort ==
  ASSUME Types, Taken, Aligned, NEW g, Len(g) = want, want \in Nat
  PROVE  ~Short(g)
<1>1. CASE link \in Pipes
  <2>1. Len(msg.strs) + 1 \in 1..Len(View(cur).strs)
    BY ThisString, CurSendable, Views
  <2>2. build = "count"  BY <1>1, <2>1 DEF Aligned
  <2> QED  BY <2>2 DEF Short
<1>2. CASE link \notin Pipes  BY <1>2 DEF Short
<1> QED  BY <1>1, <1>2

LEMMA LenWhole ==
  ASSUME Types, Aligned, at = "len", Taken, cur' = cur, NEW n \in Nat, n = Len(msg.strs),
         LenRead(Fields(cur)[2 * n + 3])
  PROVE  Reached(2 * n + 4)'
<1> DEFINE s == cur.strs[n + 1]
           g == IntOf(Len(s))
<1>1. /\ Len(s) \in Nat /\ Len(s) <= MaxAlloc
      /\ Fields(cur)[2 * n + 3] = g /\ Fields(cur)[2 * n + 4] = s
  BY ThisString
<1>2. want = 2  BY DEF Types, Awaited
<1>3. Value(g) = Len(s) /\ Len(g) = 2  BY <1>1, Ints, Pairs
<1>4. ~Short(g)  BY <1>2, <1>3, NotShort
<1>5. LenRead(g)  BY <1>1
<1> HIDE DEF s, g
<1>6. /\ Await("str", Len(s))
      /\ msg' = IF Command(msg) = Cmd.link THEN [msg EXCEPT !.argc = IntOf(MaxAlloc + 1)] ELSE msg
  BY <1>1, <1>3, <1>4, <1>5, SizeAssumption DEF LenRead
<1>7. msg \in Message  BY DEF Types
<1>8. /\ msg'.head = msg.head /\ msg'.dst = msg.dst /\ msg'.strs = msg.strs
      /\ Command(msg) # Cmd.link => msg'.argc = msg.argc
  BY <1>6, <1>7 DEF Message
<1>9. Command(msg) = Command(cur)  BY SameHead DEF Taken
<1>10. Taken'  BY <1>8, <1>9 DEF Taken
<1>11. at' = "str" /\ got' = <<>> /\ want' = Len(s)  BY <1>6 DEF Await
<1>12. Stage(2 * n + 4)'  BY <1>8, <1>10, <1>11 DEF Stage
<1> QED  BY <1>1, <1>11, <1>12 DEF Reached

LEMMA StrWhole ==
  ASSUME Types, Aligned, at = "str", Taken, cur' = cur, NEW n \in Nat, n = Len(msg.strs),
         want = Len(Fields(cur)[2 * n + 4]), StrRead(Fields(cur)[2 * n + 4])
  PROVE  Reached(2 * n + 5)'
<1> DEFINE g == cur.strs[n + 1]
<1>1. /\ g \in Units /\ Len(g) \in Nat /\ View(cur).strs[n + 1] = g
      /\ Fields(cur)[2 * n + 4] = g /\ n + 1 \in 1..Strings(cur) /\ Strings(cur) \in Nat
      /\ Sendable(cur) /\ Len(Fields(cur)) = 2 * (Strings(cur) + 1)
  BY ThisString
<1>2. Len(View(cur).strs) = Strings(cur)  BY <1>1, Views
<1>3. ~Short(g)  BY <1>1, NotShort
<1>4. StrRead(g)  BY <1>1
<1> HIDE DEF g
<1>5. msg' = [msg EXCEPT !.strs = Append(@, g)] /\ StringOrEnd(msg')
  BY <1>3, <1>4 DEF StrRead
<1>6. msg \in Message /\ msg.strs \in Seq(Units)  BY DEF Types, Message, Units
<1>7. /\ msg'.head = msg.head /\ msg'.dst = msg.dst /\ msg'.argc = msg.argc
      /\ msg'.strs = Append(msg.strs, g)
  BY <1>5, <1>6 DEF Message
<1>8. /\ msg'.strs \in Seq(Units) /\ Len(msg'.strs) = n + 1
      /\ \A i \in 1..n : msg'.strs[i] = msg.strs[i]
      /\ msg'.strs[n + 1] = g
  BY <1>1, <1>6, <1>7, AppendProperties
<1>9. \A i \in 1..n + 1 : msg'.strs[i] = cur.strs[i]
  <2>1. \A i \in 1..n : msg'.strs[i] = cur.strs[i]  BY <1>8 DEF Taken
  <2>2. msg'.strs[n + 1] = cur.strs[n + 1]  BY <1>8 DEF g
  <2> QED  BY <2>1, <2>2
<1>10. Cmd.link # Cmd.run  BY DEF Cmd
<1>11. Strings(msg') = Strings(cur)  BY <1>7, <1>10, SameHead DEF Taken
<1>12. CASE n + 1 < Strings(cur)
  <2>1. Await("len", 2)  BY <1>5, <1>8, <1>11, <1>12 DEF StringOrEnd
  <2>2. Taken'  BY <1>2, <1>7, <1>8, <1>9, <1>12 DEF Taken
  <2>3. 2 * n + 5 = 2 * (n + 1) + 3  OBVIOUS
  <2>4. Stage(2 * n + 5)'  BY <2>1, <2>2, <2>3, <1>8 DEF Stage, Await
  <2>5. PICK k \in Nat : k = n + 2  OBVIOUS
  <2>6. k \in 1..Strings(cur) /\ 2 * k + 1 = 2 * n + 5  BY <2>5, <1>1, <1>12, SMTT(40)
  <2>7. Fields(cur)[2 * k + 1] = IntOf(Len(cur.strs[k])) /\ Len(cur.strs[k]) \in Nat
    BY <2>6, <1>1, FieldsOf, Views
  <2>8. Len(Fields(cur)[2 * k + 1]) = 2
    <3>1. PICK l \in Nat : l = Len(cur.strs[k])  BY <2>7
    <3>2. IntOf(l) \in Pair  BY Ints
    <3>3. Len(IntOf(l)) = 2  BY <3>2, Pairs
    <3> QED  BY <2>7, <3>1, <3>3
  <2> QED  BY <2>1, <2>4, <2>6, <2>8 DEF Reached, Await
<1>13. CASE n + 1 = Strings(cur)
  <2>1. Return(0)  BY <1>5, <1>8, <1>11, <1>13 DEF StringOrEnd
  <2>2. msg'.strs = cur.strs
    <3>1. cur.strs \in Seq(Units) /\ Len(cur.strs) = n + 1
      <4>1. Strings(cur) > 0  BY <1>13
      <4> QED  BY <4>1, <1>1, <1>13 DEF Sendable, Message, Units
    <3> QED  BY <3>1, <1>8, <1>9, SeqEqual
  <2>3. View(msg') = View(cur)  BY <1>7, <2>2, SameView DEF Taken
  <2>4. 2 * n + 5 = Len(Fields(cur)) + 1  BY <1>1, <1>13
  <2> QED  BY <2>1, <2>3, <2>4 DEF Reached, Stage, Return
<1> QED  BY <1>1, <1>12, <1>13

\* A whole field brings the reader to the next.
LEMMA FieldWhole ==
  ASSUME Types, Aligned, at # "idle", cur' = cur, NEW p \in Nat, Stage(p),
         want = Len(Fields(cur)[p]), FieldRead(Fields(cur)[p])
  PROVE  Reached(p + 1)'
<1>1. CASE at = "head"
  BY <1>1, HeadWhole DEF Stage, FieldRead, IntRead, LenRead, StrRead
<1>2. CASE at = "int"
  BY <1>2, IntWhole DEF Stage, FieldRead, HeadRead, LenRead, StrRead
<1>3. CASE at = "len"
  <2>1. PICK n \in Nat : n = Len(msg.strs)  BY <1>3, ThisString DEF Stage
  <2>2. p = 2 * n + 3 /\ p + 1 = 2 * n + 4 /\ Taken  BY <1>3, <2>1 DEF Stage
  <2>3. LenRead(Fields(cur)[p])  BY <1>3 DEF FieldRead, HeadRead, IntRead, StrRead
  <2> QED  BY <1>3, <2>1, <2>2, <2>3, LenWhole
<1>4. CASE at = "str"
  <2>1. PICK n \in Nat : n = Len(msg.strs)  BY <1>4, ThisString DEF Stage
  <2>2. p = 2 * n + 4 /\ p + 1 = 2 * n + 5 /\ Taken  BY <1>4, <2>1 DEF Stage
  <2>3. StrRead(Fields(cur)[p])  BY <1>4 DEF FieldRead, HeadRead, IntRead, LenRead
  <2> QED  BY <1>4, <2>1, <2>2, <2>3, StrWhole
<1> QED  BY <1>1, <1>2, <1>3, <1>4 DEF Types, Awaited

-----------------------------------------------------------------------------
(* The steps of the writer and the reader.                                  *)

LEMMA CurFields ==
  ASSUME Types
  PROVE  /\ Fields(cur) \in Seq(Units) /\ Sizes(Fields(cur), chan)
         /\ chan \in Units /\ got \in Units /\ Len(got) \in Nat /\ want \in Nat
         /\ Len(Fields(cur)) >= 1
<1>1. Sendable(cur)  BY CurSendable
<1>2. Fields(cur) \in Seq(Units)  BY <1>1, FieldsOf
<1>3. chan \in Units /\ got \in Units /\ Len(got) \in Nat /\ Len(chan) \in Nat /\ want \in Nat
  BY LenProperties DEF Types, Awaited, Units
<1>4. Sizes(Fields(cur), chan)  BY <1>2, <1>3, Parts DEF Sizes
<1>5. Len(Fields(cur)) >= 1  BY <1>1, FieldsOf, Views
<1> QED  BY <1>2, <1>3, <1>4, <1>5

\* The writer and the reader may go one field further.
LEMMA Ahead ==
  ASSUME Types, NEW L \in Nat, NEW st \in [1..L -> Nat], NEW s \in Nat, NEW j \in Nat, NEW p \in Nat,
         Placed(st, L, s, j, p), L <= Len(Fields(cur))
  PROVE  \E st2 \in [1..L + 1 -> Nat] : Placed(st2, L + 1, s, j, p)
<1> DEFINE f == Fields(cur)
<1>1. /\ Offsets(f, st, L) /\ s \in 1..L /\ p \in 1..L /\ Writing(f, s, j) /\ Reading(f, p)
      /\ InTransit(f, st, L, st[s] + j, st[p] + Len(got), chan) /\ Stage(p)
  BY DEF Placed
<1>2. Sizes(f, chan) /\ Len(got) \in Nat /\ \A i \in 1..Len(f) : Len(f[i]) \in Nat
  BY CurFields DEF Sizes
<1> HIDE DEF f
<1>3. PICK w \in Nat, r \in Nat : w = st[s] + j /\ r = st[p] + Len(got)
  <2>1. st[s] \in Nat /\ st[p] \in Nat  BY <1>1
  <2>2. PICK a \in Nat, b \in Nat, g \in Nat : a = st[s] /\ b = st[p] /\ g = Len(got)
    BY ONLY <2>1, <1>2
  <2>3. a + j \in Nat /\ b + g \in Nat  OBVIOUS
  <2> QED  BY ONLY <2>2, <2>3
<1>4. w <= st[L] + Len(f[L])
  <2>0. PICK a \in Nat, b \in Nat, l \in Nat, m \in Nat :
           a = st[s] /\ b = st[L] /\ l = Len(f[s]) /\ m = Len(f[L])
    <3>1. L \in 1..L /\ s \in 1..Len(f) /\ L \in 1..Len(f)
      <4>1. Len(f) \in Nat /\ L <= Len(f)  BY <1>2 DEF Sizes, f
      <4> QED  BY <4>1, <1>1
    <3>2. st[s] \in Nat /\ st[L] \in Nat  BY <3>1, <1>1
    <3>3. Len(f[s]) \in Nat /\ Len(f[L]) \in Nat  BY <3>1, <1>2
    <3> QED  BY <3>2, <3>3
  <2>1. j <= l
    <3>1. s <= Len(f)
      <4>1. Len(f) \in Nat /\ L <= Len(f)  BY <1>2 DEF Sizes, f
      <4> QED  BY <4>1, <1>1
    <3> QED  BY <1>1, <2>0, <3>1 DEF Writing
  <2>2. CASE s = L  BY <2>0, <2>1, <2>2, <1>3, SMTT(40)
  <2>3. CASE s < L
    <3>1. s \in 1..L - 1 /\ s + 1 \in 1..L /\ L \in 1..L /\ s + 1 <= L  BY <2>3, <1>1
    <3>2. st[s + 1] = st[s] + Len(f[s])  BY <3>1, <1>1 DEF Offsets
    <3>3. st[s + 1] <= st[L]  BY <3>1, <1>1 DEF Offsets
    <3>4. a + l <= b  BY <3>2, <3>3, <2>0
    <3>5. w = a + j  BY ONLY <2>0, <1>3
    <3>6. w <= b + m  BY ONLY <3>4, <3>5, <2>1, j \in Nat, a \in Nat, l \in Nat, b \in Nat, m \in Nat
    <3> QED  BY ONLY <3>6, <2>0
  <2> QED  BY <2>2, <2>3, <1>1
<1>5. InTransit(f, st, L, w, r, chan)  BY <1>1, <1>3
<1>6. PICK st2 : /\ Offsets(f, st2, L + 1) /\ InTransit(f, st2, L + 1, w, r, chan)
                  /\ \A i \in 1..L : st2[i] = st[i]
  <2>1. L <= Len(f)  BY DEF f
  <2>2. Sizes(f, chan) /\ Offsets(f, st, L)  BY <1>1, <1>2
  <2>3. /\ Sizes(f, chan) /\ Offsets(f, st, L) /\ InTransit(f, st, L, w, r, chan)
        /\ L <= Len(f) /\ w <= st[L] + Len(f[L]) /\ w \in Nat /\ r \in Nat
    BY <2>1, <2>2, <1>4, <1>5
  <2> QED  BY ONLY <2>3, Further, SMTT(30)
<1>7. InTransit(f, st2, L + 1, st2[s] + j, st2[p] + Len(got), chan)  BY <1>1, <1>3, <1>6
<1>8. s \in 1..L + 1 /\ p \in 1..L + 1  BY <1>1
<1>9. Placed(st2, L + 1, s, j, p)  BY <1>1, <1>6, <1>7, <1>8 DEF Placed, f
<1>10. st2 \in [1..L + 1 -> Nat]  BY <1>6, Zenon DEF Offsets
<1> QED  BY <1>9, <1>10

\* On a pipe that keeps its place no field can be split.
LEMMA FieldFits ==
  ASSUME Types, Aligned, link \in Pipes, NEW i \in 1..Len(Fields(cur))
  PROVE  Len(Fields(cur)[i]) <= Atomic
<1>1. Sendable(cur)  BY CurSendable
<1>2. /\ Len(Fields(cur)) = IF HasInt(cur) THEN 2 * (Strings(cur) + 1) ELSE 1
      /\ Fields(cur)[1] = cur.head /\ cur.head \in Pair
      /\ HasInt(cur) => Fields(cur)[2] \in Pair
      /\ Strings(cur) \in Nat
  BY <1>1, FieldsOf, Views DEF Message
<1>3. CASE i = 1
  <2>1. Len(cur.head) = 2  BY <1>2, Pairs
  <2> QED  BY <1>2, <1>3, <2>1, SizeAssumption
<1>4. CASE i = 2
  <2>1. HasInt(cur)  BY <1>2, <1>4
  <2>2. Len(Fields(cur)[2]) = 2  BY <1>2, <2>1, Pairs
  <2> QED  BY <1>4, <2>2, SizeAssumption
<1>5. CASE i > 2
  <2>1. HasInt(cur)  BY <1>2, <1>5
  <2>2. PICK x \in Nat : x = i  BY <1>2
  <2>3. x > 2 /\ x <= 2 * (Strings(cur) + 1)  BY <1>2, <1>5, <2>1, <2>2
  <2>4. PICK k \in Nat : x = 2 * k + 1 \/ x = 2 * k + 2
    <3>1. \A z \in Nat : z > 2 =>
            \/ z = 2 * ((z - 1) \div 2) + 1 /\ (z - 1) \div 2 \in Nat
            \/ z = 2 * ((z - 1) \div 2) + 2 /\ (z - 1) \div 2 \in Nat
      OBVIOUS
    <3> QED  BY <3>1, <2>3
  <2>5. k \in 1..Strings(cur)
    <3>1. PICK c \in Nat : c = Strings(cur)  BY <1>2
    <3>2. k >= 1 /\ k <= c  BY <2>3, <2>4, <3>1
    <3> QED  BY <3>1, <3>2
  <2>6. CASE x = 2 * k + 1
    <3>1. Len(cur.strs[k]) \in Nat  BY <1>1, <2>5, Views
    <3>2. IntOf(Len(cur.strs[k])) \in Pair  BY <3>1, Ints
    <3>3. Len(IntOf(Len(cur.strs[k]))) = 2  BY <3>2, Pairs
    <3>4. Fields(cur)[2 * k + 1] = IntOf(Len(cur.strs[k]))  BY <1>1, <2>5, FieldsOf
    <3> QED  BY <2>2, <2>6, <3>3, <3>4, SizeAssumption
  <2>7. CASE x = 2 * k + 2
    <3>1. View(cur).strs[k] = cur.strs[k] /\ k \in 1..Len(View(cur).strs)  BY <1>1, <2>5, Views
    <3>2. Len(cur.strs[k]) <= Atomic  BY <3>1 DEF Aligned
    <3>3. Fields(cur)[2 * k + 2] = cur.strs[k]  BY <1>1, <2>5, FieldsOf
    <3> QED  BY <2>2, <2>7, <3>2, <3>3
  <2> QED  BY <2>4, <2>6, <2>7
<1> QED  BY <1>2, <1>3, <1>4, <1>5

\* A message whose fields are all still to be written and read.
Fresh ==
  /\ Sendable(cur) /\ out = Fields(cur) /\ chan = <<>>
  /\ at = "head" /\ want = 2 /\ got = <<>>

LEMMA FreshPlaced == Fresh => PlaceInv
<1> SUFFICES ASSUME Fresh PROVE PlaceInv  OBVIOUS
<1> DEFINE f == Fields(cur)
           st == [i \in 1..1 |-> 0]
<1>1. f \in Seq(Units) /\ Len(f) \in Nat /\ Len(f) >= 1 /\ f[1] = cur.head /\ cur.head \in Pair
  BY FieldsOf, Views, LenProperties DEF Fresh, Message
<1>2. Len(f[1]) = 2 /\ f[1] \in Units  BY <1>1, Pairs
<1>3. st \in [1..1 -> Nat] /\ st[1] = 0  OBVIOUS
<1>4. out = f /\ chan = <<>> /\ at = "head" /\ want = 2 /\ got = <<>> /\ Len(<<>>) = 0  BY DEF Fresh
<1> HIDE DEF f, st
<1>5. Offsets(f, st, 1)  BY <1>1, <1>3 DEF Offsets
<1>6. Writing(f, 1, 0)
  <2>1. f[1] = SubSeq(f[1], 0 + 1, Len(f[1]))  BY <1>2, SubSeqFull DEF Units
  <2>2. \A k \in 2..Len(f) : f[k] = f[1 + k - 1]  BY <1>1
  <2> QED  BY <1>1, <1>2, <1>4, <2>1, <2>2 DEF Writing
<1>7. Reading(f, 1)  BY <1>1, <1>2, <1>4 DEF Reading
<1>8. InTransit(f, st, 1, st[1] + 0, st[1] + Len(got), chan)  BY <1>3, <1>4 DEF InTransit
<1>9. Stage(1)  BY <1>4 DEF Stage
<1>10. Placed(st, 1, 1, 0, 1)  BY <1>5, <1>6, <1>7, <1>8, <1>9 DEF Placed, f
<1> QED  BY <1>3, <1>10 DEF PlaceInv

LEMMA FreshPlacedNext == Fresh' => PlaceInv'  BY FreshPlaced, PTL

\* What is left of a field of which j units were written, and then n more.
LEMMA Cut ==
  ASSUME NEW x \in Units, NEW l \in Nat, l = Len(x), NEW j \in Nat, NEW n \in Nat, j + n <= l,
         NEW field, field = SubSeq(x, j + 1, l)
  PROVE  /\ field \in Units /\ Len(field) = l - j
         /\ SubSeq(field, n + 1, Len(field)) = SubSeq(x, j + n + 1, l)
         /\ SubSeq(x, j + n + 1, l) \in Units
         /\ Len(SubSeq(x, j + n + 1, l)) = l - j - n
         /\ SubSeq(field, 1, n) \in Units /\ Len(SubSeq(field, 1, n)) = n
         /\ \A k \in 1..n : SubSeq(field, 1, n)[k] = x[j + k]
<1>1. PICK a \in Nat, b \in Nat, d \in Nat, e \in Nat :
         a = j + 1 /\ b = j + n + 1 /\ d = l - j /\ e = n + 1
  <2>1. j + 1 \in Nat /\ j + n + 1 \in Nat /\ l - j \in Nat /\ n + 1 \in Nat  OBVIOUS
  <2> QED  BY ONLY <2>1
<1>2. /\ field \in Units /\ Len(field) = d
      /\ \A k \in 1..d : field[k] = x[j + k]
  <2>1. a >= 1 /\ a <= l + 1 /\ l <= Len(x)  BY <1>1
  <2>2. /\ SubSeq(x, a, l) \in Units /\ Len(SubSeq(x, a, l)) = l + 1 - a
        /\ \A k \in 1..l + 1 - a : SubSeq(x, a, l)[k] = x[a + k - 1]
    BY ONLY <2>1, Part, a \in Nat, l \in Nat, x \in Units
  <2>3. l + 1 - a = d /\ \A k \in 1..d : a + k - 1 = j + k  BY <1>1
  <2> QED  BY <1>1, <2>2, <2>3
<1>3. /\ SubSeq(x, b, l) \in Units /\ Len(SubSeq(x, b, l)) = d - n
      /\ \A k \in 1..d - n : SubSeq(x, b, l)[k] = x[j + n + k]
  <2>1. b >= 1 /\ b <= l + 1 /\ l <= Len(x)  BY <1>1
  <2>2. /\ SubSeq(x, b, l) \in Units /\ Len(SubSeq(x, b, l)) = l + 1 - b
        /\ \A k \in 1..l + 1 - b : SubSeq(x, b, l)[k] = x[b + k - 1]
    BY ONLY <2>1, Part, b \in Nat, l \in Nat, x \in Units
  <2>3. l + 1 - b = d - n /\ \A k \in 1..d - n : b + k - 1 = j + n + k  BY <1>1
  <2> QED  BY <2>2, <2>3
<1>4. /\ SubSeq(field, e, d) \in Units /\ Len(SubSeq(field, e, d)) = d - n
      /\ \A k \in 1..d - n : SubSeq(field, e, d)[k] = x[j + n + k]
  <2>1. e >= 1 /\ e <= d + 1 /\ d <= Len(field)  BY <1>1, <1>2
  <2>2. /\ SubSeq(field, e, d) \in Units /\ Len(SubSeq(field, e, d)) = d + 1 - e
        /\ \A k \in 1..d + 1 - e : SubSeq(field, e, d)[k] = field[e + k - 1]
    BY ONLY <2>1, <1>2, Part, e \in Nat, d \in Nat
  <2>3. d + 1 - e = d - n  BY <1>1
  <2>4. ASSUME NEW k \in 1..d - n  PROVE field[e + k - 1] = x[j + n + k]
    <3>1. n + k \in 1..d /\ e + k - 1 = n + k /\ j + n + k = j + (n + k)  BY <1>1
    <3> QED  BY <1>2, <3>1
  <2> QED  BY <2>2, <2>3, <2>4
<1>5. SubSeq(field, e, d) = SubSeq(x, b, l)
  <2>1. PICK y \in Seq(Nat), z \in Seq(Nat) : y = SubSeq(field, e, d) /\ z = SubSeq(x, b, l)
    BY ONLY <1>3, <1>4 DEF Units
  <2>2. Len(y) = d - n /\ Len(z) = d - n  BY ONLY <2>1, <1>3, <1>4
  <2>3. \A k \in 1..d - n : y[k] = z[k]  BY ONLY <2>1, <1>3, <1>4
  <2>4. Len(y) = Len(z) /\ \A k \in 1..Len(y) : y[k] = z[k]  BY <2>2, <2>3
  <2>5. y = z  BY ONLY <2>4, SeqEqual, y \in Seq(Nat), z \in Seq(Nat)
  <2> QED  BY ONLY <2>1, <2>5
<1>6. /\ SubSeq(field, 1, n) \in Units /\ Len(SubSeq(field, 1, n)) = n
      /\ \A k \in 1..n : SubSeq(field, 1, n)[k] = x[j + k]
  <2>1. n <= d /\ 1 <= n + 1 /\ 1 >= 1 /\ 1 \in Nat  BY <1>1
  <2>2. /\ SubSeq(field, 1, n) \in Units /\ Len(SubSeq(field, 1, n)) = n + 1 - 1
        /\ \A k \in 1..n + 1 - 1 : SubSeq(field, 1, n)[k] = field[1 + k - 1]
    BY ONLY <2>1, <1>2, Part, n \in Nat
  <2>3. n + 1 - 1 = n  OBVIOUS
  <2>4. ASSUME NEW k \in 1..n  PROVE 1 + k - 1 = k /\ k \in 1..d  BY <2>1
  <2> QED  BY <1>2, <2>2, <2>3, <2>4
<1> QED  BY <1>1, <1>2, <1>3, <1>5, <1>6

\* More of a field at the end of the stream.
LEMMA Appended ==
  ASSUME NEW c \in Units, NEW d \in Units, NEW n \in Nat, Len(d) = n, NEW x, NEW j \in Nat,
         \A k \in 1..n : d[k] = x[j + k]
  PROVE  c \o d \in Units /\ Longer(c, c \o d, x, j, n)
<1>1. PICK m \in Nat : m = Len(c)  BY LenProperties DEF Units
<1>2. /\ c \o d \in Units /\ Len(c \o d) = m + n
      /\ \A i \in 1..m + n : (c \o d)[i] = IF i <= m THEN c[i] ELSE d[i - m]
  BY <1>1, ConcatProperties DEF Units
<1>3. \A i \in 1..m : (c \o d)[i] = c[i]  BY <1>2
<1>4. ASSUME NEW k \in 1..n  PROVE (c \o d)[m + k] = x[j + k]
  <2>1. m + k \in 1..m + n /\ ~(m + k <= m) /\ m + k - m = k  OBVIOUS
  <2> QED  BY <1>2, <2>1
<1> QED  BY <1>1, <1>2, <1>3, <1>4 DEF Longer

LEMMA PlacedNext ==
  ASSUME NEW L \in Nat, NEW st \in [1..L -> Nat], NEW s \in Nat, NEW j \in Nat, NEW p \in Nat,
         Placed(st, L, s, j, p)'
  PROVE  PlaceInv'
  BY Zenon DEF PlaceInv

\* What the reader has is not disturbed by the writer.
LEMMA ReaderStays ==
  ASSUME UNCHANGED <<cur, reader>>, NEW p, Stage(p), Reading(Fields(cur), p)
  PROVE  Stage(p)' /\ Reading(Fields(cur), p)'
<1>1. /\ cur' = cur /\ at' = at /\ want' = want /\ got' = got /\ msg' = msg /\ ret' = ret
  BY DEF reader
<1>2. Stage(p)'  BY <1>1 DEF Stage, Taken
<1>3. Reading(Fields(cur), p)'  BY <1>1 DEF Reading
<1> QED  BY <1>2, <1>3

\* What one write() does to the stream and to the writer's place.
LEMMA Writes ==
  ASSUME Types, Aligned, NEW n \in 0..Cap, Write(n), NEW s \in Nat, NEW j \in Nat, s >= 1,
         Writing(Fields(cur), s, j)
  PROVE  /\ s <= Len(Fields(cur)) /\ j + n <= Len(Fields(cur)[s])
         /\ Longer(chan, chan', Fields(cur)[s], j, n)
         /\ IF j + n = Len(Fields(cur)[s]) THEN Writing(Fields(cur), s + 1, 0)'
            ELSE Writing(Fields(cur), s, j + n)'
<1> DEFINE f == Fields(cur)
<1>1. /\ open /\ out # <<>> /\ UNCHANGED <<link, build, cur, open>>
      /\ LET field == Head(out)
             rest == SubSeq(field, n + 1, Len(field))
         IN /\ n \in 1..Len(field) \/ n = Len(field)
            /\ Len(field) <= Atomic => n = Len(field)
            /\ chan' = chan \o SubSeq(field, 1, n)
            /\ out' = IF rest = <<>> THEN Tail(out) ELSE <<rest>> \o Tail(out)
  BY DEF Write, chosen
<1>2. f \in Seq(Units) /\ out \in Seq(Units) /\ chan \in Units /\ f' = f
  BY CurFields, <1>1 DEF Types
<1>3. n \in Nat
  <2>1. Cap \in Nat  BY SizeAssumption
  <2> QED  BY <2>1
<1>4. /\ IF s <= Len(f) THEN j <= Len(f[s]) ELSE j = 0
      /\ link \in Pipes => j = 0
      /\ Len(out) = Len(f) + 1 - s
      /\ s <= Len(f) => out[1] = SubSeq(f[s], j + 1, Len(f[s]))
      /\ \A k \in 2..Len(out) : out[k] = f[s + k - 1]
  BY <1>1 DEF Writing
<1>5. PICK m \in Nat, o \in Nat : m = Len(f) /\ o = Len(out)
  BY ONLY <1>2, LenProperties
<1>6. o >= 1  BY <1>1, <1>2, <1>5, EmptySeq
<1>7. s <= m /\ o = m + 1 - s  BY <1>4, <1>5, <1>6
<1> HIDE DEF f
<1>8. PICK x \in Units : x = f[s]
  <2>1. s \in 1..Len(f)  BY <1>5, <1>7
  <2> QED  BY <1>2, <2>1, ElementOfSeq
<1>9. PICK l \in Nat : l = Len(x)  BY ONLY LenProperties, x \in Units DEF Units
<1>10. PICK field \in Units : field = Head(out) /\ field = out[1]
  BY <1>1, <1>2, HeadTailProperties
<1>11. j <= l /\ field = SubSeq(x, j + 1, l)  BY <1>4, <1>5, <1>7, <1>8, <1>9, <1>10
<1>12. Len(field) = l - j
  <2>1. j + 0 <= l /\ 0 \in Nat  BY <1>11
  <2> QED  BY ONLY <2>1, <1>11, <1>9, Cut, j \in Nat, l \in Nat, x \in Units
<1>13. j + n <= l  BY <1>1, <1>3, <1>10, <1>11, <1>12
<1>14. PICK y \in Units, d \in Units :
          /\ y = SubSeq(field, n + 1, Len(field)) /\ d = SubSeq(field, 1, n)
          /\ y = SubSeq(x, j + n + 1, l) /\ Len(y) = l - j - n
          /\ Len(d) = n /\ \A k \in 1..n : d[k] = x[j + k]
  <2>1. PICK e \in Nat : e = n  BY <1>3
  <2>2. j + e <= l  BY ONLY <2>1, <1>13
  <2>3. /\ SubSeq(field, e + 1, Len(field)) = SubSeq(x, j + e + 1, l)
        /\ SubSeq(x, j + e + 1, l) \in Units
        /\ Len(SubSeq(x, j + e + 1, l)) = l - j - e
        /\ SubSeq(field, 1, e) \in Units /\ Len(SubSeq(field, 1, e)) = e
        /\ \A k \in 1..e : SubSeq(field, 1, e)[k] = x[j + k]
    <3>1. SubSeq(field, e + 1, Len(field)) = SubSeq(x, j + e + 1, l)
      BY ONLY <2>2, <1>9, <1>11, Cut, j \in Nat, l \in Nat, x \in Units, e \in Nat
    <3>2. SubSeq(x, j + e + 1, l) \in Units
      BY ONLY <2>2, <1>9, <1>11, Cut, j \in Nat, l \in Nat, x \in Units, e \in Nat
    <3>3. Len(SubSeq(x, j + e + 1, l)) = l - j - e
      BY ONLY <2>2, <1>9, <1>11, Cut, j \in Nat, l \in Nat, x \in Units, e \in Nat
    <3>4. SubSeq(field, 1, e) \in Units
      BY ONLY <2>2, <1>9, <1>11, Cut, j \in Nat, l \in Nat, x \in Units, e \in Nat
    <3>5. Len(SubSeq(field, 1, e)) = e
      BY ONLY <2>2, <1>9, <1>11, Cut, j \in Nat, l \in Nat, x \in Units, e \in Nat
    <3>6. \A k \in 1..e : SubSeq(field, 1, e)[k] = x[j + k]
      BY ONLY <2>2, <1>9, <1>11, Cut, j \in Nat, l \in Nat, x \in Units, e \in Nat
    <3> QED  BY ONLY <3>1, <3>2, <3>3, <3>4, <3>5, <3>6
  <2> QED  BY ONLY <2>1, <2>3
<1>15. chan' = chan \o d  BY ONLY <1>1, <1>10, <1>14
<1>16. Longer(chan, chan', x, j, n)
  BY ONLY <1>2, <1>3, <1>14, <1>15, Appended, j \in Nat
<1>17. PICK z \in Seq(Units) : z = Tail(out) /\ Len(z) = o - 1 /\ \A k \in 1..o - 1 : z[k] = out[k + 1]
  <2>1. /\ Tail(out) \in Seq(Units) /\ Len(Tail(out)) = Len(out) - 1
        /\ \A k \in 1..Len(Tail(out)) : Tail(out)[k] = out[k + 1]
    <3>1. out # <<>>  BY <1>1
    <3>2. PICK w \in Seq(Units) : w = out  BY ONLY <1>2
    <3>3. /\ Tail(w) \in Seq(Units) /\ Len(Tail(w)) = Len(w) - 1
          /\ \A k \in 1..Len(Tail(w)) : Tail(w)[k] = w[k + 1]
      BY ONLY <3>1, <3>2, HeadTailProperties
    <3> QED  BY ONLY <3>2, <3>3
  <2>2. Len(Tail(out)) = o - 1  BY ONLY <1>5, <2>1
  <2>3. \A k \in 1..o - 1 : Tail(out)[k] = out[k + 1]  BY ONLY <2>1, <2>2
  <2> QED  BY ONLY <2>1, <2>2, <2>3
<1>18. out' = IF y = <<>> THEN z ELSE <<y>> \o z  BY ONLY <1>1, <1>10, <1>14, <1>17
<1>19. link' = link /\ open' = open  BY <1>1
<1>20. CASE j + n = l
  <2>1. y = <<>>
    <3>1. Len(y) = 0  BY <1>14, <1>20
    <3> QED  BY ONLY <3>1, <1>14, EmptySeq DEF Units
  <2>2. out' = z  BY ONLY <1>18, <2>1
  <2>3. Len(out') = m + 1 - (s + 1)  BY <2>2, <1>17, <1>7
  <2>4. \A k \in 1..Len(out') : out'[k] = f[s + 1 + k - 1]
    <3>1. TAKE k \in 1..Len(out')
    <3>2. k \in Nat /\ k \in 1..o - 1  BY <2>2, <1>17, <1>6
    <3>3. k + 1 \in 2..o /\ s + (k + 1) - 1 = s + 1 + k - 1  BY <3>2
    <3>4. out[k + 1] = f[s + (k + 1) - 1]  BY <3>3, <1>4, <1>5
    <3> QED  BY <3>2, <3>3, <3>4, <2>2, <1>17
  <2>5. ASSUME s + 1 <= m  PROVE out'[1] = SubSeq(f[s + 1], 0 + 1, Len(f[s + 1]))
    <3>1. 1 \in 1..Len(out') /\ s + 1 + 1 - 1 = s + 1 /\ s + 1 \in 1..m  BY <2>3, <2>5
    <3>2. out'[1] = f[s + 1]  BY <3>1, <2>4
    <3>3. f[s + 1] \in Units  BY <3>1, <1>2, <1>5, ElementOfSeq
    <3>4. f[s + 1] = SubSeq(f[s + 1], 1, Len(f[s + 1]))  BY <3>3, SubSeqFull DEF Units
    <3> QED  BY <3>2, <3>4
  <2>6. s + 1 <= Len(f) => 0 <= Len(f[s + 1])
    <3>1. HAVE s + 1 <= Len(f)
    <3>2. s + 1 \in 1..Len(f)  BY <3>1, <1>5
    <3> QED  BY <3>2, <1>2, Parts
  <2>7. \A k \in 2..Len(out') : out'[k] = f[s + 1 + k - 1]
    <3>1. PICK b \in Nat : b = Len(out')  BY <2>3, <1>7
    <3> QED  BY <3>1, <2>4
  <2>8. Writing(f, s + 1, 0)'  BY <2>3, <2>5, <2>6, <2>7, <1>2, <1>5 DEF Writing
  <2> QED  BY <2>8, <1>5, <1>7, <1>8, <1>9, <1>13, <1>16, <1>20 DEF f
<1>21. CASE j + n < l
  <2>1. y # <<>>
    <3>1. PICK h \in Nat : h = l - j - n /\ h > 0
      <4>1. l - j - n \in Nat /\ l - j - n > 0  BY <1>3, <1>21
      <4> QED  BY ONLY <4>1
    <3>2. Len(y) = h  BY ONLY <3>1, <1>14
    <3> QED  BY ONLY <3>1, <3>2
  <2>2. out' = <<y>> \o z  BY ONLY <1>18, <2>1
  <2>3. /\ Len(out') = o /\ out'[1] = y /\ \A k \in 2..o : out'[k] = z[k - 1]
    <3>1. PICK q \in Seq(Units) : q = <<y>> /\ Len(q) = 1 /\ q[1] = y
      <4>1. <<y>> \in Seq(Units)  BY ONLY y \in Units
      <4> QED  BY ONLY <4>1
    <3>2. /\ Len(q \o z) = Len(q) + Len(z)
          /\ \A i \in 1..Len(q) + Len(z) : (q \o z)[i] = IF i <= Len(q) THEN q[i] ELSE z[i - Len(q)]
      BY ConcatProperties
    <3>3. 1 + (o - 1) = o  OBVIOUS
    <3>4. Len(q \o z) = o /\ \A i \in 1..o : (q \o z)[i] = IF i <= 1 THEN q[i] ELSE z[i - 1]
      BY <3>1, <3>2, <3>3, <1>17
    <3>5. out' = q \o z  BY <2>2, <3>1
    <3> QED  BY <3>1, <3>4, <3>5, <1>6
  <2>4. \A k \in 2..o : out'[k] = f[s + k - 1]
    <3>1. TAKE k \in 2..o
    <3>2. k - 1 \in 1..o - 1 /\ k - 1 + 1 = k  OBVIOUS
    <3> QED  BY <3>2, <2>3, <1>4, <1>5, <1>17
  <2>5. link \notin Pipes
    <3>1. SUFFICES ASSUME link \in Pipes PROVE FALSE  OBVIOUS
    <3>2. s \in 1..Len(f) /\ j = 0  BY <3>1, <1>4, <1>5, <1>7
    <3>3. l <= Atomic  BY <3>1, <3>2, <1>8, <1>9, FieldFits DEF f
    <3>4. n = l  BY <3>2, <3>3, <1>1, <1>10, <1>12
    <3> QED  BY <3>2, <3>4, <1>21
  <2>6. out'[1] = SubSeq(f[s], j + n + 1, Len(f[s]))  BY <2>3, <1>8, <1>9, <1>14
  <2>7. j + n \in Nat /\ j + n <= Len(f[s])  BY <1>3, <1>8, <1>9, <1>13
  <2>8. Len(f[s]) > Atomic
    <3>1. n # l - j  BY <1>3, <1>21
    <3>2. ~(l - j <= Atomic)  BY <3>1, <1>1, <1>10, <1>12
    <3>3. l > Atomic  BY <3>2, SizeAssumption
    <3> QED  BY <3>3, <1>8, <1>9
  <2>9. Writing(f, s, j + n)'
    BY <2>3, <2>4, <2>5, <2>6, <2>7, <2>8, <1>2, <1>5, <1>7, <1>19 DEF Writing
  <2>10. j + n # l  BY <1>21
  <2> QED  BY <2>9, <2>10, <1>5, <1>7, <1>8, <1>9, <1>13, <1>16 DEF f
<1> QED  BY <1>13, <1>20, <1>21

LEMMA WritePlaced ==
  ASSUME Types, Aligned, NEW n \in 0..Cap, Write(n),
         NEW L \in Nat, NEW st \in [1..L -> Nat], NEW s \in Nat, NEW j \in Nat, NEW p \in Nat,
         Placed(st, L, s, j, p), s + 1 <= L
  PROVE  PlaceInv'
<1> DEFINE f == Fields(cur)
<1>1. /\ Offsets(f, st, L) /\ s \in 1..L /\ p \in 1..L /\ Writing(f, s, j) /\ Reading(f, p)
      /\ InTransit(f, st, L, st[s] + j, st[p] + Len(got), chan) /\ Stage(p)
  BY DEF Placed
<1>2. f \in Seq(Units) /\ Sizes(f, chan) /\ Len(got) \in Nat  BY CurFields
<1>3. UNCHANGED <<cur, reader>> /\ got' = got /\ f' = f  BY DEF Write, reader
<1>4. Stage(p)' /\ Reading(f, p)'  BY <1>1, <1>3, ReaderStays
<1>5. /\ s <= Len(f) /\ j + n <= Len(f[s]) /\ Longer(chan, chan', f[s], j, n)
      /\ IF j + n = Len(f[s]) THEN Writing(f, s + 1, 0)' ELSE Writing(f, s, j + n)'
  <2>1. s >= 1  BY <1>1
  <2> QED  BY <1>1, <2>1, Writes
<1> HIDE DEF f
<1>6. PICK e \in Nat : e = n
  <2>1. Cap \in Nat  BY SizeAssumption
  <2> QED  BY <2>1
<1>7. s \in 1..Len(f) /\ s + 1 \in 1..L /\ st[s] \in Nat /\ st[p] \in Nat
  <2>1. Len(f) \in Nat  BY <1>2 DEF Sizes
  <2> QED  BY <2>1, <1>1, <1>5
<1>8. PICK r \in Nat : r = st[p] + Len(got)
  <2>1. PICK a \in Nat, b \in Nat : a = st[p] /\ b = Len(got)  BY ONLY <1>2, <1>7
  <2>2. a + b \in Nat  OBVIOUS
  <2> QED  BY ONLY <2>1, <2>2
<1>9. InTransit(f, st, L, st[s] + j + e, r, chan')
  <2>1. InTransit(f, st, L, st[s] + j, r, chan)  BY ONLY <1>1, <1>8
  <2>2. j + e <= Len(f[s]) /\ Longer(chan, chan', f[s], j, e)  BY ONLY <1>5, <1>6
  <2> QED
    BY ONLY <2>1, <2>2, <1>1, <1>2, <1>7, Written, j \in Nat, s + 1 <= L, r \in Nat, e \in Nat
<1>10. PICK a \in Nat, l \in Nat : a = st[s] /\ l = Len(f[s])
  BY ONLY <1>2, <1>7 DEF Sizes
<1>11. CASE j + e = l
  <2>1. st[s + 1] + 0 = st[s] + j + e
    <3>1. s \in 1..L - 1  BY <1>7
    <3>2. st[s + 1] = st[s] + Len(f[s])  BY <3>1, <1>1 DEF Offsets
    <3> QED  BY <3>2, <1>10, <1>11
  <2>2. InTransit(f, st, L, st[s + 1] + 0, st[p] + Len(got), chan')  BY ONLY <2>1, <1>8, <1>9
  <2>3. Writing(f, s + 1, 0)'  BY ONLY <1>5, <1>6, <1>10, <1>11
  <2>4. Placed(st, L, s + 1, 0, p)'
    BY ONLY <2>2, <2>3, <1>1, <1>3, <1>4, <1>7 DEF Placed, f
  <2> QED  BY <2>4, PlacedNext
<1>12. CASE j + e # l
  <2>1. PICK h \in Nat : h = j + e /\ h = j + n  BY <1>6
  <2>2. st[s] + j + e = st[s] + h  BY <1>10, <2>1
  <2>3. InTransit(f, st, L, st[s] + h, st[p] + Len(got), chan')  BY ONLY <2>2, <1>8, <1>9
  <2>4. Writing(f, s, h)'  BY ONLY <1>5, <1>6, <1>10, <1>12, <2>1
  <2>5. Placed(st, L, s, h, p)'
    BY ONLY <2>3, <2>4, <1>1, <1>3, <1>4 DEF Placed, f
  <2> QED  BY <2>5, PlacedNext
<1> QED  BY <1>11, <1>12

LEMMA WriteStep ==
  ASSUME Types, PlaceInv, Aligned, NEW n \in 0..Cap, Write(n)
  PROVE  PlaceInv'
<1>1. eof' = eof  BY DEF Write, reader
<1>2. CASE eof  BY <1>1, <1>2 DEF PlaceInv
<1>3. CASE ~eof
  <2>1. PICK L \in Nat : \E st \in [1..L -> Nat] : \E s, j, p \in Nat : Placed(st, L, s, j, p)
    BY <1>3, Zenon DEF PlaceInv
  <2>2. PICK st \in [1..L -> Nat] : \E s, j, p \in Nat : Placed(st, L, s, j, p)
    BY <2>1, Zenon
  <2>3. PICK s \in Nat, j \in Nat, p \in Nat : Placed(st, L, s, j, p)  BY <2>2, Zenon
  <2>4. CASE s + 1 <= L  BY <2>3, <2>4, WritePlaced
  <2>5. CASE ~(s + 1 <= L)
    <3>1. s = L  BY <2>3, <2>5 DEF Placed
    <3>2. s >= 1 /\ Writing(Fields(cur), s, j)  BY <2>3 DEF Placed
    <3>3. L <= Len(Fields(cur))  BY <3>1, <3>2, Writes
    <3>4. PICK st2 \in [1..L + 1 -> Nat] : Placed(st2, L + 1, s, j, p)
      BY <2>3, <3>3, Ahead
    <3>5. L + 1 \in Nat /\ s + 1 <= L + 1  BY <3>1
    <3> QED  BY <3>4, <3>5, WritePlaced
  <2> QED  BY <2>4, <2>5
<1> QED  BY <1>2, <1>3

\* A sender that ends leaves everything in its place.
LEMMA StaysPlaced ==
  ASSUME PlaceInv, UNCHANGED <<link, cur, chan, reader>>, open' => open /\ out' = out
  PROVE  PlaceInv'
<1>1. eof' = eof /\ got' = got /\ cur' = cur /\ chan' = chan /\ link' = link  BY DEF reader
<1>2. CASE eof  BY <1>1, <1>2 DEF PlaceInv
<1>3. CASE ~eof
  <2>1. PICK L \in Nat : \E st \in [1..L -> Nat] : \E s, j, p \in Nat : Placed(st, L, s, j, p)
    BY <1>3, Zenon DEF PlaceInv
  <2>2. PICK st \in [1..L -> Nat] : \E s, j, p \in Nat : Placed(st, L, s, j, p)
    BY <2>1, Zenon
  <2>3. PICK s \in Nat, j \in Nat, p \in Nat : Placed(st, L, s, j, p)  BY <2>2, Zenon
  <2> DEFINE f == Fields(cur)
  <2>4. f' = f  BY <1>1
  <2>5. /\ Offsets(f, st, L) /\ s \in 1..L /\ p \in 1..L /\ Writing(f, s, j) /\ Reading(f, p)
        /\ InTransit(f, st, L, st[s] + j, st[p] + Len(got), chan) /\ Stage(p)
    BY <2>3 DEF Placed
  <2>6. Stage(p)' /\ Reading(f, p)'  BY <2>5, ReaderStays
  <2> HIDE DEF f
  <2>7. Writing(f, s, j)'  BY <2>4, <2>5, <1>1 DEF Writing
  <2>8. Placed(st, L, s, j, p)'  BY ONLY <2>4, <2>5, <2>6, <2>7, <1>1 DEF Placed, f
  <2> QED  BY <2>8, PlacedNext
<1> QED  BY <1>2, <1>3

\* A message that was received whole is the one that was sent, and the reader
\* is at its end.
LEMMA AtIdle ==
  ASSUME Types, PlaceInv, ~eof, at = "idle"
  PROVE  ret = 0 /\ View(msg) = View(cur) /\ Magical
<1>1. PICK L \in Nat : \E st \in [1..L -> Nat] : \E s, j, p \in Nat : Placed(st, L, s, j, p)
  BY Zenon DEF PlaceInv
<1>2. PICK p \in Nat : Stage(p)  BY <1>1, Zenon DEF Placed
<1>3. ret = 0 /\ View(msg) = View(cur)  BY <1>2 DEF Stage
<1>4. View(msg).head = msg.head /\ View(cur).head = cur.head  BY DEF View
<1>5. cur.head[1] = Magic  BY CurSendable DEF Sendable
<1> QED  BY <1>3, <1>4, <1>5 DEF Magical

LEMMA NotReadOn == ASSUME Types, PlaceInv, ReadOn PROVE FALSE
<1>1. at = "idle" /\ ~eof /\ (ret = -1 \/ ~Magical)  BY DEF ReadOn, Types
<1> QED  BY <1>1, AtIdle

\* When the sender has written all of a message and it was received, nothing
\* is left in the pipe.
LEMMA NothingLeft ==
  ASSUME Types, PlaceInv, at = "idle", open, out = <<>>
  PROVE  chan = <<>>
<1>1. ~eof  BY DEF Types
<1>2. PICK L \in Nat : \E st \in [1..L -> Nat] : \E s, j, p \in Nat : Placed(st, L, s, j, p)
  BY <1>1, Zenon DEF PlaceInv
<1>3. PICK st \in [1..L -> Nat] : \E s, j, p \in Nat : Placed(st, L, s, j, p)
  BY <1>2, Zenon
<1>4. PICK s \in Nat, j \in Nat, p \in Nat : Placed(st, L, s, j, p)  BY <1>3, Zenon
<1> DEFINE f == Fields(cur)
<1>5. /\ s \in 1..L /\ p \in 1..L /\ Writing(f, s, j) /\ Reading(f, p)
      /\ InTransit(f, st, L, st[s] + j, st[p] + Len(got), chan) /\ Stage(p)
  BY <1>4 DEF Placed
<1>6. Len(f) \in Nat /\ Len(chan) \in Nat  BY CurFields DEF Sizes
<1>7. p = Len(f) + 1  BY <1>5 DEF Stage
<1> HIDE DEF f
<1>8. s = Len(f) + 1 /\ j = 0
  <2>1. Len(out) = Len(f) + 1 - s /\ Len(out) = 0  BY <1>5 DEF Writing
  <2>2. s = Len(f) + 1  BY <2>1, <1>6
  <2>3. ~(s <= Len(f))  BY <2>2, <1>6
  <2> QED  BY <2>2, <2>3, <1>5 DEF Writing
<1>9. got = <<>> /\ Len(got) = 0
  <2>1. ~(p <= Len(f))  BY <1>6, <1>7
  <2> QED  BY <2>1, <1>5 DEF Reading
<1>10. PICK a \in Nat, m \in Nat : a = st[s] /\ m = Len(chan)  BY ONLY <1>5, <1>6, st \in [1..L -> Nat]
<1>11. st[p] = a  BY <1>7, <1>8, <1>10
<1>12. m + (a + 0) = a + 0  BY <1>5, <1>8, <1>9, <1>10, <1>11 DEF InTransit
<1>13. m = 0  BY ONLY <1>12, a \in Nat, m \in Nat
<1> QED  BY <1>10, <1>13, EmptySeq DEF Types, Units

LEMMA AnewPlaced ==
  ASSUME Types, PlaceInv, Connect \/ SendNext
  PROVE  PlaceInv'
<1>1. cur' \in Sent[link] /\ out' = Fields(cur') /\ at' = "head" /\ want' = 2 /\ got' = <<>>
  BY DEF Connect, SendNext, StartRead
<1>2. Sendable(cur')  BY <1>1, SentAssumption DEF Types
<1>3. chan' = <<>>
  <2>1. CASE Connect  BY <2>1 DEF Connect
  <2>2. CASE SendNext  BY <2>2, NothingLeft DEF SendNext
  <2> QED  BY <2>1, <2>2
<1>4. Fresh'  BY <1>1, <1>2, <1>3 DEF Fresh
<1> QED  BY <1>4, FreshPlacedNext

\* A field is only taken for whole when it is: a socket reads on, and over a
\* pipe that keeps its place no part of a field is ever alone.
LEMMA WholeTaken ==
  ASSUME Types, NEW n \in Nat, NEW g \in Units, Takes(n, g), ~eof',
         ~(Loops /\ n > 0 /\ Len(g) < want),
         NEW f, NEW st, NEW L \in Nat, NEW s \in Nat, NEW j \in Nat, NEW p \in Nat,
         Offsets(f, st, L), s \in 1..L, p \in 1..L, p + 1 <= L, p <= Len(f), Len(f[p]) \in Nat,
         want = Len(f[p]), Writing(f, s, j),
         InTransit(f, st, L, st[s] + j, st[p] + Len(got), chan)
  PROVE  Len(g) = want
<1>1. PICK l \in Nat, q \in Nat, m \in Nat : l = want /\ q = Len(got) /\ m = Len(chan)
  BY LenProperties DEF Types, Awaited, Units
<1>2. /\ n <= l - q /\ (n < l - q => n = m) /\ Len(g) = q + n /\ ~(n = 0 /\ l > 0)
  BY <1>1 DEF Takes
<1>3. CASE Loops  BY <1>1, <1>2, <1>3, SMTT(40)
<1>4. CASE ~Loops
  <2>1. link \in Pipes /\ got = <<>>  BY <1>4 DEF Types, Loops
  <2>2. q = 0 /\ j = 0  BY <2>1, <1>1 DEF Writing
  <2>3. SUFFICES ASSUME n < l PROVE FALSE  BY <2>2, <1>1, <1>2
  <2>4. m = n /\ m > 0  BY <2>2, <2>3, <1>2
  <2>5. PICK a \in Nat, b \in Nat : a = st[p] /\ b = st[s]  BY DEF Offsets
  <2>6. m + (a + 0) = b + 0  BY <2>2, <2>5, <1>1 DEF InTransit
  <2>7. ~(s <= p)
    <3>1. SUFFICES ASSUME s <= p PROVE FALSE  OBVIOUS
    <3>2. b <= a  BY <3>1, <2>5 DEF Offsets
    <3> QED  BY ONLY <3>2, <2>4, <2>6, a \in Nat, b \in Nat, m \in Nat, n \in Nat
  <2>8. p + 1 \in 1..L /\ p + 1 <= s /\ p \in 1..L - 1  BY <2>7
  <2>9. st[p + 1] <= st[s]  BY <2>8 DEF Offsets
  <2>10. st[p + 1] = st[p] + Len(f[p])  BY <2>8 DEF Offsets
  <2>11. a + l <= b  BY <2>5, <2>9, <2>10, <1>1
  <2> QED  BY <2>3, <2>4, <2>6, <2>11
<1> QED  BY <1>3, <1>4

LEMMA ReadPlaced ==
  ASSUME Types, Aligned, at # "idle", UNCHANGED <<chosen, cur, out, open, before>>,
         NEW n \in Nat, NEW g \in Units, Takes(n, g), ~eof',
         NEW L \in Nat, NEW st \in [1..L -> Nat], NEW s \in Nat, NEW j \in Nat, NEW p \in Nat,
         Placed(st, L, s, j, p), p <= Len(Fields(cur)), p + 1 <= L
  PROVE  PlaceInv'
<1> DEFINE f == Fields(cur)
<1>1. /\ Offsets(f, st, L) /\ s \in 1..L /\ p \in 1..L /\ Writing(f, s, j) /\ Reading(f, p)
      /\ InTransit(f, st, L, st[s] + j, st[p] + Len(got), chan) /\ Stage(p)
  BY DEF Placed
<1>2. f \in Seq(Units) /\ Sizes(f, chan) /\ Len(f) \in Nat
      /\ \A i \in 1..Len(f) : f[i] \in Units /\ Len(f[i]) \in Nat
  BY CurFields, Parts
<1>3. UNCHANGED <<link, cur, out, open>> /\ f' = f  BY DEF chosen
<1>4. Writing(f, s, j)'
  <2>1. link' = link /\ out' = out /\ open' = open  BY <1>3
  <2> QED  BY <2>1, <1>1, <1>3 DEF Writing
<1> HIDE DEF f
<1>5. PICK q \in Nat, a \in Nat, b \in Nat : q = Len(got) /\ a = st[p] /\ b = st[s]
  <2>1. Len(got) \in Nat /\ st[p] \in Nat /\ st[s] \in Nat  BY CurFields, <1>1
  <2> QED  BY ONLY <2>1
<1>6. p \in 1..Len(f) /\ p <= Len(f)
  <2>1. p <= Len(f)  BY DEF f
  <2> QED  BY <2>1, <1>1, <1>2
<1>7. PICK x \in Units, l \in Nat : x = f[p] /\ l = Len(f[p])  BY <1>2, <1>6
<1>8. /\ want = l /\ Len(g) = q + n /\ q + n <= l
      /\ \A k \in 1..q + n : g[k] = f[p][k]
  <2>1. want = l /\ q <= l /\ \A k \in 1..q : got[k] = f[p][k]
    BY ONLY <1>1, <1>5, <1>6, <1>7 DEF Reading
  <2>2. PICK m \in Nat : m = Len(chan)  BY ONLY <1>2 DEF Sizes
  <2>3. /\ n <= m /\ n <= l - q /\ Len(g) = q + n
        /\ \A k \in 1..q : g[k] = got[k]
        /\ \A k \in 1..n : g[q + k] = chan[k]
    BY ONLY <1>5, <2>1, <2>2, Takes(n, g) DEF Takes
  <2>4. ASSUME NEW i \in Nat, i >= 1, i <= n  PROVE g[q + i] = f[p][q + i]
    <3>1. i \in 1..m /\ i \in 1..n /\ q + i \in 1..l /\ a + q + i = a + (q + i)
      BY ONLY <2>3, <2>4, i \in Nat, n \in Nat, m \in Nat, l \in Nat, q \in Nat, a \in Nat
    <3>2. \A k \in 1..l, y \in 1..m : a + q + y = a + k => chan[y] = f[p][k]
      <4>1. \A k \in 1..Len(f[p]), y \in 1..Len(chan) :
               st[p] + Len(got) + y = st[p] + k => chan[y] = f[p][k]
        BY ONLY <1>1, <1>6 DEF InTransit
      <4> QED  BY ONLY <4>1, <1>5, <1>7, <2>2
    <3>3. chan[i] = f[p][q + i]  BY ONLY <3>1, <3>2
    <3> QED  BY ONLY <3>1, <3>3, <2>3
  <2>5. ASSUME NEW k \in 1..q + n  PROVE g[k] = f[p][k]
    <3>1. CASE k \in 1..q  BY ONLY <3>1, <2>1, <2>3
    <3>2. CASE k \notin 1..q
      <4>1. PICK i \in Nat : k = q + i /\ i >= 1 /\ i <= n
        <5>1. k = q + (k - q) /\ k - q \in Nat /\ k - q >= 1 /\ k - q <= n  BY ONLY <3>2, k \in 1..q + n, q \in Nat, n \in Nat
        <5> QED  BY ONLY <5>1
      <4> QED  BY ONLY <4>1, <2>4
    <3> QED  BY <3>1, <3>2
  <2>6. q + n <= l  BY ONLY <2>3, l \in Nat, q \in Nat, n \in Nat
  <2> QED  BY ONLY <2>1, <2>3, <2>5, <2>6
<1>9. InTransit(f, st, L, st[s] + j, a + q + n, chan')
  <2>1. PICK w \in Nat, r \in Nat : w = b + j /\ r = a + q
    <3>1. b + j \in Nat /\ a + q \in Nat  OBVIOUS
    <3> QED  BY ONLY <3>1
  <2>2. InTransit(f, st, L, w, r, chan)  BY ONLY <1>1, <1>5, <2>1
  <2>3. n <= Len(chan) /\ Shorter(chan, chan', n)  BY DEF Takes
  <2>4. InTransit(f, st, L, w, r + n, chan')
    BY ONLY <2>2, <2>3, <1>1, <1>2, Left, w \in Nat, r \in Nat, n \in Nat
  <2> QED  BY ONLY <2>1, <2>4, <1>5
<1>10. CASE Loops /\ n > 0 /\ Len(g) < want
  <2>1. got' = g /\ UNCHANGED <<at, want, msg, ret>>  BY <1>10 DEF Takes
  <2>2. Stage(p)'  BY <2>1, <1>1, <1>3 DEF Stage, Taken
  <2>3. Reading(f, p)'
    <3>1. want' = Len(f[p]) /\ Len(g) <= want' /\ \A k \in 1..Len(g) : g[k] = f[p][k]
      BY <2>1, <1>7, <1>8
    <3> QED  BY <3>1, <2>1, <1>3, <1>6 DEF Reading
  <2>4. st[p] + Len(got') = a + q + n
    <3>1. a + (q + n) = a + q + n  OBVIOUS
    <3>2. Len(got') = q + n /\ st[p] = a  BY ONLY <2>1, <1>5, <1>8
    <3> QED  BY ONLY <3>1, <3>2
  <2>5. InTransit(f, st, L, st[s] + j, st[p] + Len(got'), chan')  BY ONLY <2>4, <1>9
  <2>6. Placed(st, L, s, j, p)'
    BY ONLY <2>2, <2>3, <2>5, <1>1, <1>3, <1>4 DEF Placed, f
  <2> QED  BY <2>6, PlacedNext
<1>11. CASE ~(Loops /\ n > 0 /\ Len(g) < want)
  <2>1. want = Len(f[p]) /\ Len(f[p]) \in Nat  BY <1>7, <1>8
  <2>2. Len(g) = want  BY <2>1, <1>1, <1>6, <1>11, WholeTaken
  <2>3. FieldRead(g)  BY <1>11 DEF Takes, FieldRead
  <2>4. q + n = l  BY <2>2, <1>8
  <2>5. g = f[p]
    <3>1. PICK y \in Seq(Nat), z \in Seq(Nat) : y = g /\ z = x  BY ONLY g \in Units, x \in Units DEF Units
    <3>2. Len(y) = l /\ Len(z) = l  BY ONLY <3>1, <2>4, <1>7, <1>8
    <3>3. \A k \in 1..l : y[k] = z[k]  BY ONLY <3>1, <2>4, <1>7, <1>8
    <3>4. y = z  BY ONLY <3>2, <3>3, SeqEqual, y \in Seq(Nat), z \in Seq(Nat)
    <3> QED  BY ONLY <3>1, <3>4, <1>7
  <2>6. FieldRead(Fields(cur)[p]) /\ want = Len(Fields(cur)[p])
    <3>1. FieldRead(f[p]) /\ want = Len(f[p])  BY ONLY <2>1, <2>3, <2>5
    <3> QED  BY ONLY <3>1 DEF f
  <2>7. Reached(p + 1)'  BY <2>6, <1>1, <1>3, FieldWhole
  <2>8. /\ Stage(p + 1)' /\ got' = <<>>
        /\ p + 1 <= Len(f) => want' = Len(f[p + 1])
    BY <2>7, <1>3 DEF Reached, f
  <2>9. Reading(f, p + 1)'
    <3>1. p + 1 <= Len(f) => Len(f[p + 1]) \in Nat
      <4>1. HAVE p + 1 <= Len(f)
      <4>2. p + 1 \in 1..Len(f)  BY <4>1, <1>2
      <4> QED  BY <4>2, <1>2
    <3>2. Len(<<>>) = 0  OBVIOUS
    <3> QED  BY <3>1, <3>2, <2>8, <1>3 DEF Reading
  <2>10. st[p + 1] = st[p] + Len(f[p])
    <3>1. p \in 1..L - 1  BY <1>1
    <3> QED  BY <3>1, <1>1 DEF Offsets
  <2>11. st[p + 1] + Len(got') = a + q + n
    <3>1. Len(got') = 0  BY <2>8
    <3>2. st[p + 1] = a + l  BY ONLY <2>10, <1>5, <1>7
    <3>3. a + l + 0 = a + q + n  BY ONLY <2>4, a \in Nat, l \in Nat, q \in Nat, n \in Nat
    <3> QED  BY ONLY <3>1, <3>2, <3>3
  <2>12. InTransit(f, st, L, st[s] + j, st[p + 1] + Len(got'), chan')  BY ONLY <2>11, <1>9
  <2>13. p + 1 \in 1..L /\ p + 1 \in Nat  BY <1>1
  <2>14. Placed(st, L, s, j, p + 1)'
    BY ONLY <2>8, <2>9, <2>12, <2>13, <1>1, <1>3, <1>4 DEF Placed, f
  <2> QED  BY <2>13, <2>14, PlacedNext
<1> QED  BY <1>10, <1>11

\* The reader that waits has a field before it.
LEMMA FieldLeft ==
  ASSUME Types, at # "idle", NEW p \in Nat, Stage(p)
  PROVE  p <= Len(Fields(cur))
<1>1. CASE at = "head"  BY <1>1, CurFields DEF Stage
<1>2. CASE at = "int"
  <2>1. p = 2 /\ HasInt(cur)  BY <1>2 DEF Stage
  <2>2. Len(Fields(cur)) = 2 * (Strings(cur) + 1) /\ Strings(cur) \in Nat
    BY <2>1, CurSendable, FieldsOf, Views
  <2> QED  BY <2>1, <2>2
<1>3. CASE at \in {"len", "str"}
  <2>1. Taken /\ (p = 2 * Len(msg.strs) + 3 \/ p = 2 * Len(msg.strs) + 4)  BY <1>3 DEF Stage
  <2>2. PICK n \in Nat, c \in Nat :
           n = Len(msg.strs) /\ c = Strings(cur) /\ n + 1 \in 1..c /\ Len(Fields(cur)) = 2 * (c + 1)
    <3>1. /\ Len(msg.strs) \in Nat /\ Strings(cur) \in Nat
          /\ Len(Fields(cur)) = 2 * (Strings(cur) + 1)
          /\ Len(msg.strs) + 1 \in 1..Strings(cur)
      BY <2>1, ThisString
    <3> QED  BY ONLY <3>1
  <2> QED  BY <2>1, <2>2
<1> QED  BY <1>1, <1>2, <1>3 DEF Types, Awaited

LEMMA ReadStep ==
  ASSUME Types, PlaceInv, Aligned, Read
  PROVE  PlaceInv'
<1>1. PICK n \in Nat, g \in Units : Takes(n, g)  BY Reads
<1>2. at # "idle" /\ UNCHANGED <<chosen, cur, out, open, before>>  BY Reads
<1>3. CASE eof'  BY <1>3 DEF PlaceInv
<1>4. CASE ~eof'
  <2>0. ~eof  BY <1>1, <1>4 DEF Takes
  <2>1. PICK L \in Nat : \E st \in [1..L -> Nat] : \E s, j, p \in Nat : Placed(st, L, s, j, p)
    BY <2>0, Zenon DEF PlaceInv
  <2>2. PICK st \in [1..L -> Nat] : \E s, j, p \in Nat : Placed(st, L, s, j, p)
    BY <2>1, Zenon
  <2>3. PICK s \in Nat, j \in Nat, p \in Nat : Placed(st, L, s, j, p)  BY <2>2, Zenon
  <2>4. p <= Len(Fields(cur)) /\ p \in 1..L /\ Offsets(Fields(cur), st, L)
    BY <2>3, <1>2, FieldLeft DEF Placed
  <2>5. CASE p + 1 <= L  BY <2>3, <2>4, <2>5, <1>1, <1>2, <1>4, ReadPlaced
  <2>6. CASE ~(p + 1 <= L)
    <3>1. p = L  BY <2>4, <2>6
    <3>2. L <= Len(Fields(cur))  BY <2>4, <3>1
    <3>3. PICK st2 \in [1..L + 1 -> Nat] : Placed(st2, L + 1, s, j, p)
      BY <2>3, <3>2, Ahead
    <3>4. L + 1 \in Nat /\ p + 1 <= L + 1  BY <3>1
    <3> QED  BY <3>3, <3>4, <2>4, <1>1, <1>2, <1>4, ReadPlaced
  <2> QED  BY <2>5, <2>6
<1> QED  BY <1>3, <1>4

-----------------------------------------------------------------------------
(* What is kept of an earlier message.                                      *)

LEMMA OverNothing == ASSUME NEW old \in Pair PROVE Over(old, <<>>) = old
<1>1. old \in Seq(Nat) /\ Len(<<>>) + 1 = 1  BY DEF Pair
<1>2. Over(old, <<>>) = <<>> \o SubSeq(old, 1, Len(old))  BY <1>1 DEF Over
<1>3. SubSeq(old, 1, Len(old)) = old  BY <1>1, SubSeqFull
<1> QED  BY <1>1, <1>2, <1>3, ConcatEmptySeq

\* A field that write() does not split is never read in part.
LEMMA SmallTaken ==
  ASSUME Types, NEW n \in Nat, NEW g \in Units, Takes(n, g), n > 0, got = <<>>, want <= Atomic,
         NEW f, NEW st, NEW L \in Nat, NEW s \in Nat, NEW j \in Nat, NEW p \in Nat,
         Offsets(f, st, L), s \in 1..L, p \in 1..L, p + 1 <= L,
         Len(f) \in Nat, \A i \in 1..Len(f) : Len(f[i]) \in Nat,
         want = Len(f[p]), Writing(f, s, j),
         InTransit(f, st, L, st[s] + j, st[p] + Len(got), chan)
  PROVE  Len(g) = want
<1>0. PICK h \in Nat, d \in Nat : h = Len(f) /\ d = Atomic  BY SizeAssumption
<1>1. PICK l \in Nat, m \in Nat : l = want /\ m = Len(chan)
  BY LenProperties DEF Types, Awaited, Units
<1>2. Len(got) = 0 /\ n <= l /\ (n < l => n = m) /\ Len(g) = n  BY <1>1 DEF Takes
<1>3. SUFFICES ASSUME n < l PROVE FALSE  BY <1>1, <1>2
<1>4. m = n /\ m > 0  BY <1>2, <1>3
<1>5. PICK a \in Nat, b \in Nat : a = st[p] /\ b = st[s]  BY DEF Offsets
<1>6. m + (a + 0) = b + j  BY <1>1, <1>2, <1>5 DEF InTransit
<1>7. CASE s = p
  <2>1. j = m  BY <1>5, <1>6, <1>7
  <2>2. s <= Len(f) /\ j > 0
    <3>1. L \in 1..h + 1  BY <1>0 DEF Offsets
    <3>2. s <= h  BY <3>1, <1>7
    <3> QED  BY <3>2, <2>1, <1>4, <1>0
  <2>3. Len(f[s]) > Atomic  BY <2>2 DEF Writing
  <2>4. l > d  BY <2>3, <1>0, <1>1, <1>7
  <2>5. l <= d  BY <1>0, <1>1
  <2> QED  BY ONLY <2>4, <2>5, l \in Nat, d \in Nat
<1>8. CASE s > p
  <2>1. p + 1 \in 1..L /\ p + 1 <= s /\ p \in 1..L - 1  BY <1>8
  <2>2. st[p + 1] <= st[s] /\ st[p + 1] = st[p] + Len(f[p])  BY <2>1 DEF Offsets
  <2>3. a + l <= b  BY <2>2, <1>1, <1>5
  <2> QED
    BY ONLY <2>3, <1>3, <1>4, <1>6, l \in Nat, n \in Nat, m \in Nat, a \in Nat, b \in Nat, j \in Nat
<1>9. CASE s < p
  <2>1. s + 1 \in 1..L /\ s + 1 <= p /\ s \in 1..L - 1  BY <1>9
  <2>2. st[s + 1] <= st[p] /\ st[s + 1] = st[s] + Len(f[s])  BY <2>1 DEF Offsets
  <2>3. s \in 1..h /\ s <= Len(f)
    <3>1. L \in 1..h + 1  BY <1>0 DEF Offsets
    <3> QED  BY <3>1, <2>1, <1>0
  <2>4. PICK k \in Nat : k = Len(f[s])  BY <2>3, <1>0
  <2>5. j <= k  BY <2>3, <2>4 DEF Writing
  <2>6. b + k <= a  BY <2>2, <2>4, <1>5
  <2> QED
    BY ONLY <2>5, <2>6, <1>4, <1>6, n \in Nat, m \in Nat, a \in Nat, b \in Nat, j \in Nat, k \in Nat
<1> QED  BY <1>7, <1>8, <1>9

LEMMA SmallRead ==
  ASSUME Types, PlaceInv, ~eof, at \in {"head", "int", "len"}, got = <<>>,
         NEW n \in Nat, NEW g \in Units, Takes(n, g), n > 0
  PROVE  Len(g) = want
<1>1. PICK L \in Nat : \E st \in [1..L -> Nat] : \E s, j, p \in Nat : Placed(st, L, s, j, p)
  BY Zenon DEF PlaceInv
<1>2. PICK st \in [1..L -> Nat] : \E s, j, p \in Nat : Placed(st, L, s, j, p)
  BY <1>1, Zenon
<1>3. PICK s \in Nat, j \in Nat, p \in Nat : Placed(st, L, s, j, p)  BY <1>2, Zenon
<1>4. want <= Atomic  BY SizeAssumption DEF Types, Awaited
<1>5. p <= Len(Fields(cur)) /\ p \in 1..L  BY <1>3, FieldLeft DEF Placed
<1>6. ASSUME NEW M \in Nat, NEW pl \in [1..M -> Nat], Placed(pl, M, s, j, p), p + 1 <= M
      PROVE  Len(g) = want
  <2> DEFINE f == Fields(cur)
  <2>1. /\ Offsets(f, pl, M) /\ s \in 1..M /\ p \in 1..M /\ Writing(f, s, j) /\ Reading(f, p)
        /\ InTransit(f, pl, M, pl[s] + j, pl[p] + Len(got), chan)
    BY <1>6 DEF Placed
  <2>2. Len(f) \in Nat /\ \A i \in 1..Len(f) : Len(f[i]) \in Nat  BY CurFields DEF Sizes
  <2>3. want = Len(f[p])  BY <2>1, <1>5 DEF Reading
  <2> HIDE DEF f
  <2> QED  BY <2>1, <2>2, <2>3, <1>4, <1>6, SmallTaken
<1>7. CASE p + 1 <= L  BY <1>3, <1>6, <1>7
<1>8. CASE ~(p + 1 <= L)
  <2>1. p = L  BY <1>5, <1>8
  <2>2. L <= Len(Fields(cur))  BY <1>5, <2>1
  <2>3. PICK st2 \in [1..L + 1 -> Nat] : Placed(st2, L + 1, s, j, p)
    BY <1>3, <2>2, Ahead
  <2>4. L + 1 \in Nat /\ p + 1 <= L + 1  BY <2>1
  <2> QED  BY <2>3, <2>4, <1>6
<1> QED  BY <1>7, <1>8

LEMMA KeptInit == Init => Kept
  BY JunkType DEF Init, Kept

\* The actions that do not read.
LEMMA KeptUnread ==
  ASSUME Kept, UNCHANGED <<cur, reader>>, eof => chan' = chan
  PROVE  Kept'
<1>1. /\ cur' = cur /\ at' = at /\ got' = got /\ msg' = msg /\ ret' = ret
      /\ before' = before /\ eof' = eof
  BY DEF reader
<1> QED  BY <1>1 DEF Kept

LEMMA KeptAnew ==
  ASSUME StartRead, msg' \in Message, before' = msg'
  PROVE  Kept'
  BY DEF StartRead, Kept

IntHead == ~eof /\ at = "int" => msg.head = cur.head

LEMMA IntPlaced == PlaceInv => IntHead
<1> SUFFICES ASSUME PlaceInv, ~eof, at = "int" PROVE msg.head = cur.head  BY DEF IntHead
<1>1. PICK L \in Nat : \E st \in [1..L -> Nat] : \E s, j, p \in Nat : Placed(st, L, s, j, p)
  BY Zenon DEF PlaceInv
<1>2. PICK p \in Nat : Stage(p)  BY <1>1, Zenon DEF Placed
<1> QED  BY <1>2 DEF Stage

LEMMA IntPlacedNext == PlaceInv' => IntHead'
  BY IntPlaced, PTL

\* At the end of the stream there is nothing to read.
LEMMA NothingRead ==
  ASSUME Types, Kept, NEW n \in Nat, NEW g \in Units, Takes(n, g), eof'
  PROVE  /\ n = 0 /\ chan' = <<>> /\ Len(g) = Len(got)
         /\ at \in {"head", "int", "len"} => g = <<>>
         /\ want > 0 => Len(g) < want
<1>1. PICK l \in Nat, q \in Nat, m \in Nat : l = want /\ q = Len(got) /\ m = Len(chan)
  BY LenProperties DEF Types, Awaited, Units
<1>2. /\ n <= m /\ n <= l - q /\ (n < l - q => n = m) /\ Len(g) = q + n
      /\ Len(chan') = m - n /\ chan' \in Units /\ (eof \/ (n = 0 /\ l > 0))
  BY <1>1 DEF Takes, Shorter
<1>3. q <= l /\ (l > 0 => q < l)
  <2>1. got # <<>> => q < l  BY <1>1 DEF Types, Awaited
  <2>2. got = <<>> => q = 0  BY <1>1
  <2> QED  BY <2>1, <2>2, <1>1 DEF Types, Awaited
<1>4. m = 0 /\ n = 0
  <2>1. CASE eof
    <3>1. m = 0  BY <2>1, <1>1 DEF Kept
    <3> QED  BY <3>1, <1>2
  <2>2. CASE n = 0 /\ l > 0
    <3>1. n < l - q  BY <2>2, <1>3
    <3> QED  BY <3>1, <2>2, <1>2
  <2> QED  BY <2>1, <2>2, <1>2
<1>5. chan' = <<>>
  <2>1. Len(chan') = 0  BY <1>2, <1>4
  <2> QED  BY ONLY <2>1, <1>2, EmptySeq DEF Units
<1>6. ASSUME at \in {"head", "int", "len"}  PROVE g = <<>>
  <2>1. q = 0  BY <1>6, <1>1 DEF Kept
  <2>2. Len(g) = 0  BY <2>1, <1>2, <1>4
  <2> QED  BY ONLY <2>2, g \in Units, EmptySeq DEF Units
<1> QED  BY <1>1, <1>2, <1>3, <1>4, <1>5, <1>6

\* Then a head is the one before, an int as well, and a string is missed.
LEMMA KeptAtEnd ==
  ASSUME Types, Kept, at # "idle", UNCHANGED <<cur, before>>,
         NEW n \in Nat, NEW g \in Units, Takes(n, g), eof', FieldRead(g)
  PROVE  Kept'
<1>1. /\ n = 0 /\ chan' = <<>> /\ (at \in {"head", "int", "len"} => g = <<>>)
      /\ want > 0 => Len(g) < want
  BY NothingRead
<1>2. eof \/ want > 0  BY DEF Takes
<1>3. got' = <<>> /\ cur' = cur /\ before' = before
  <2>1. Await("int", 2) \/ Await("len", 2) \/ Return(0) \/ Return(-1) \/ Await("str", Value(g))
    BY DEF FieldRead, HeadRead, IntRead, LenRead, StrRead, StringOrEnd
  <2> QED  BY <2>1 DEF Await, Return
<1>4. /\ msg \in Message /\ msg.head \in Pair /\ msg.argc \in Pair /\ msg.dst \in Pair
      /\ before \in Message /\ before.head \in Pair /\ before.argc \in Pair
  BY DEF Types, Kept, Message
<1>5. CASE HeadRead(g)
  <2>1. at = "head" /\ msg = before /\ g = <<>>  BY <1>1, <1>5 DEF HeadRead, Kept
  <2>2. Over(msg.head, g) = msg.head  BY <2>1, <1>4, OverNothing
  <2>3. msg' = [msg EXCEPT !.head = Over(@, g)] /\ (Await("int", 2) \/ Return(0))
    BY <1>5 DEF HeadRead
  <2>4. msg' = before  BY <2>1, <2>2, <2>3, <1>4 DEF Message
  <2> QED  BY <2>3, <2>4, <1>1, <1>3, <1>4 DEF Kept, Await, Return
<1>6. CASE IntRead(g)
  <2>1. at = "int" /\ g = <<>>  BY <1>1, <1>6 DEF IntRead
  <2>2. /\ Over(msg.argc, g) = msg.argc
        /\ msg.argc = before.argc
        /\ ~eof => msg.head = cur.head
        /\ eof => msg = before
    BY <2>1, <1>4, OverNothing DEF Kept, Message
  <2>3. CASE Await("len", 2) \/ Return(-1)  BY <2>3, <1>1, <1>3, <1>4 DEF Kept, Await, Return
  <2>4. CASE Return(0)
    <3>1. /\ Command(msg) # Cmd.link
          /\ \/ Command(msg) = Cmd.response /\ msg' = [msg EXCEPT !.argc = Over(@, g)]
             \/ /\ msg' = [msg EXCEPT !.argc = Over(@, g), !.strs = <<>>]
                /\ StringOrEnd(msg') /\ Command(msg) # Cmd.link
      BY <2>4, <1>6 DEF IntRead, Return, Await, Cmd
    <3>2. msg'.head = msg.head /\ msg'.argc = before.argc  BY <3>1, <2>2, <1>4 DEF Message
    <3>3. Strings(msg') > 0 => FALSE
      <4>1. CASE Command(msg) = Cmd.response  BY <4>1, <3>2 DEF Strings, Command, Cmd
      <4>2. CASE Command(msg) # Cmd.response
        <5>1. msg'.strs = <<>> /\ StringOrEnd(msg')  BY <4>2, <3>1, <1>4 DEF Message
        <5>2. ~(0 < Strings(msg'))  BY <5>1, <2>4 DEF StringOrEnd, Return, Await
        <5>3. Strings(msg') \in Nat
          <6>1. Value(before.argc) \in Nat  BY <1>4, Pairs
          <6> QED  BY <6>1, <3>2 DEF Strings
        <5> QED  BY <5>2, <5>3
      <4> QED  BY <4>1, <4>2
    <3>4. View(msg').strs = <<>>  BY <3>3 DEF View
    <3>5. CASE ~eof
      <4>1. msg'.head = cur'.head /\ msg'.argc = before'.argc  BY <3>2, <3>5, <2>2, <1>3
      <4> QED  BY <2>4, <3>4, <4>1, <1>1, <1>3, <1>4 DEF Kept, Return
    <3>6. CASE eof
      <4>1. msg = before  BY <3>6, <2>2
      <4>2. View(msg').head = View(before).head /\ View(msg').int = View(before).int
        BY <4>1, <3>1, <3>2 DEF View, HasInt, Command
      <4>3. Strings(msg') = Strings(before)
        BY <4>1, <3>1, <3>2 DEF Strings, Command
      <4>4. View(before).strs = <<>>  BY <4>3, <3>3 DEF View
      <4>5. View(msg') = View(before)  BY <4>2, <4>4, <3>4 DEF View
      <4> QED  BY <2>4, <4>5, <1>1, <1>3, <1>4 DEF Kept, Return
    <3> QED  BY <3>5, <3>6
  <2>5. Await("len", 2) \/ Return(-1) \/ Return(0)  BY <1>6 DEF IntRead, StringOrEnd
  <2> QED  BY <2>3, <2>4, <2>5
<1>7. CASE LenRead(g)
  <2>1. at = "len" /\ g = <<>> /\ want = 2  BY <1>1, <1>7 DEF LenRead, Types, Awaited
  <2>2. Short(g)  BY <2>1 DEF Short
  <2>3. Return(-1)  BY <2>2, <1>7 DEF LenRead
  <2> QED  BY <2>3, <1>1, <1>3, <1>4 DEF Kept, Return
<1>8. CASE StrRead(g)
  <2>1. at = "str" /\ ~eof  BY <1>8 DEF StrRead, Kept
  <2>2. Short(g)  BY <2>1, <1>1, <1>2 DEF Short
  <2>3. Return(-1)  BY <2>2, <1>8 DEF StrRead
  <2> QED  BY <2>3, <1>1, <1>3, <1>4 DEF Kept, Return
<1> QED  BY <1>5, <1>6, <1>7, <1>8 DEF FieldRead

LEMMA KeptRead ==
  ASSUME Types, PlaceInv, Kept, Read, PlaceInv'
  PROVE  Kept'
<1>1. PICK n \in Nat, g \in Units : Takes(n, g)  BY Reads
<1>2. at # "idle" /\ UNCHANGED <<chosen, cur, out, open, before>>  BY Reads
<1>3. CASE Loops /\ n > 0 /\ Len(g) < want
  <2>1. got' = g /\ UNCHANGED <<at, want, msg, ret>>  BY <1>1, <1>3 DEF Takes
  <2>2. ~eof'  BY <1>1, <1>3, NothingRead
  <2>3. ~eof
    <3>1. eof' = (eof \/ (n = 0 /\ want > 0))  BY <1>1, Zenon DEF Takes
    <3> QED  BY <2>2, <3>1
  <2>4. at \notin {"head", "int", "len"}
    <3>1. SUFFICES ASSUME at \in {"head", "int", "len"} PROVE FALSE  OBVIOUS
    <3>2. Len(g) = want  BY <3>1, <2>3, <1>1, <1>3, SmallRead DEF Kept
    <3>3. want \in Nat  BY CurFields
    <3> QED  BY <3>2, <3>3, <1>3
  <2> QED  BY <2>1, <2>2, <2>4, <1>2 DEF Kept
<1>4. CASE ~(Loops /\ n > 0 /\ Len(g) < want)
  <2>1. FieldRead(g)  BY <1>1, <1>4 DEF Takes, FieldRead
  <2>2. CASE eof'  BY <2>1, <2>2, <1>1, <1>2, KeptAtEnd
  <2>3. CASE ~eof'
    <3>1. ~eof  BY <2>3, <1>1 DEF Takes
    <3>2. got' = <<>> /\ at' # "head"
      <4>1. \/ Await("int", 2) \/ Await("len", 2) \/ Return(0) \/ Return(-1)
            \/ Await("str", Value(g))
        BY <2>1 DEF FieldRead, HeadRead, IntRead, LenRead, StrRead, StringOrEnd
      <4> QED  BY <4>1 DEF Await, Return
    <3>3. ASSUME at' = "int"  PROVE msg' = [before EXCEPT !.head = cur'.head]
      <4>1. msg'.head = cur'.head  BY <3>3, <2>3, IntPlacedNext DEF IntHead
      <4>2. HeadRead(g)
        BY <3>3, <2>1 DEF FieldRead, IntRead, LenRead, StrRead, StringOrEnd, Await, Return
      <4>3. at = "head" /\ msg = before  BY <4>2 DEF HeadRead, Kept
      <4>4. before \in Message  BY DEF Kept
      <4>5. msg' = [before EXCEPT !.head = Over(@, g)]  BY <4>2, <4>3 DEF HeadRead
      <4>6. msg'.head = Over(before.head, g)  BY <4>4, <4>5 DEF Message
      <4> QED  BY <4>1, <4>5, <4>6
    <3> QED  BY <2>3, <3>2, <3>3, <1>2 DEF Kept
  <2> QED  BY <2>2, <2>3
<1> QED  BY <1>3, <1>4

LEMMA KeptStep ==
  ASSUME Types, PlaceInv, Kept, [Next]_vars, PlaceInv'
  PROVE  Kept'
<1>1. ASSUME NEW n \in 0..Cap, Write(n)  PROVE Kept'
  <2>1. UNCHANGED <<cur, reader>> /\ ~eof  BY <1>1 DEF Write, Types
  <2> QED  BY <2>1, KeptUnread
<1>2. CASE Close
  <2>1. UNCHANGED <<cur, reader>> /\ chan' = chan  BY <1>2 DEF Close
  <2> QED  BY <2>1, KeptUnread
<1>3. CASE Connect \/ SendNext
  <2>1. StartRead /\ before' = msg' /\ msg' \in Message
    BY <1>3, JunkType DEF Connect, SendNext, Types
  <2> QED  BY <2>1, KeptAnew
<1>4. CASE ReadOn  BY <1>4, NotReadOn
<1>5. CASE Read  BY <1>5, KeptRead
<1>6. CASE UNCHANGED vars
  <2>1. UNCHANGED <<cur, reader>> /\ chan' = chan  BY <1>6 DEF vars
  <2> QED  BY <2>1, KeptUnread
<1> QED  BY <1>1, <1>2, <1>3, <1>4, <1>5, <1>6 DEF Next

-----------------------------------------------------------------------------
(* The theorems.                                                            *)

LEMMA PlaceInit == Init => PlaceInv
<1> SUFFICES ASSUME Init PROVE PlaceInv  OBVIOUS
<1>1. Sendable(cur)  BY SentAssumption DEF Init
<1>2. Fresh  BY <1>1 DEF Init, Fresh
<1> QED  BY <1>2, FreshPlaced

LEMMA PlaceStep == ASSUME Types, PlaceInv, Aligned, [Next]_vars PROVE PlaceInv'
<1>1. ASSUME NEW n \in 0..Cap, Write(n)  PROVE PlaceInv'  BY <1>1, WriteStep
<1>2. CASE Close
  <2>1. UNCHANGED <<link, cur, chan, reader>> /\ open' = FALSE  BY <1>2 DEF Close, chosen
  <2> QED  BY <2>1, StaysPlaced
<1>3. CASE Connect \/ SendNext  BY <1>3, AnewPlaced
<1>4. CASE ReadOn  BY <1>4, NotReadOn
<1>5. CASE Read  BY <1>5, ReadStep
<1>6. CASE UNCHANGED vars
  <2>1. UNCHANGED <<link, cur, chan, reader, open, out>>  BY <1>6 DEF vars, chosen
  <2> QED  BY <2>1, StaysPlaced
<1> QED  BY <1>1, <1>2, <1>3, <1>4, <1>5, <1>6 DEF Next

\* The types of everything on the way, whatever is sent, split and cut off: a
\* receiver never asks read() for a negative count, nor for more than is left
\* of a field.
THEOREM WireTypeCorrect == Spec => []Types
<1>1. Init => Types  BY TypesInit
<1>2. Types /\ [Next]_vars => Types'  BY TypesStep
<1> QED  BY <1>1, <1>2, PTL DEF Spec

\* As long as the messages sent over a pipe keep its place (Aligned, which
\* every message over a socket does), writer and reader have their positions,
\* and what an earlier message left in the receiver's is known.
THEOREM WireInvariance == Spec /\ []Aligned => []WireInv
<1>1. Init => WireInv  BY TypesInit, PlaceInit, KeptInit DEF WireInv
<1>2. WireInv /\ Aligned /\ [Next]_vars => WireInv'
  BY TypesStep, PlaceStep, KeptStep DEF WireInv
<1> QED  BY <1>1, <1>2, PTL DEF Spec

\* A message that nobody cuts off arrives as it was sent, however its writes
\* and reads fall and whatever was received before: libvsys.c's sending and
\* receiving functions agree about what follows what, and vsd_sock_readn's and
\* vsd_sock_writen's loops, or a pipe's whole writes, keep the place.
THEOREM WholeMessagesHold == Spec /\ []Aligned => []WholeMessages
<1>1. WireInv => WholeMessages
  <2> SUFFICES ASSUME WireInv, at = "idle", ~eof  PROVE ret = 0 /\ View(msg) = View(cur)
    BY DEF WholeMessages
  <2> QED  BY AtIdle DEF WireInv
<1> QED  BY <1>1, WireInvariance, PTL

\* A receive that libvsys.c reports as a success gave the message sent, or at
\* the end of the stream the one before, or a command to run nothing: it never
\* mixes two messages, wherever the sender was killed.
THEOREM AcceptedIsSentHolds == Spec /\ []Aligned => []AcceptedIsSent
<1>1. WireInv => AcceptedIsSent
  <2>1. SUFFICES ASSUME WireInv, at = "idle", ret = 0
                 PROVE  \/ View(msg) = View(cur)
                        \/ /\ eof
                           /\ \/ View(msg) = View(before)
                              \/ /\ msg.head = cur.head /\ msg.argc = before.argc
                                 /\ View(msg).strs = <<>>
    BY DEF AcceptedIsSent
  <2>2. CASE ~eof  BY <2>1, <2>2, AtIdle DEF WireInv
  <2>3. CASE eof  BY <2>1, <2>3 DEF WireInv, Kept
  <2> QED  BY <2>2, <2>3
<1> QED  BY <1>1, WireInvariance, PTL

\* Over a socket, between the daemon and its users, nothing is assumed: what
\* carries the messages never changes.
THEOREM SocketsHold == Spec /\ link \in Socks => [](WholeMessages /\ AcceptedIsSent)
<1>1. link \in Socks => Aligned  BY DEF Aligned, Socks, Pipes
<1>2. link \in Socks /\ [Next]_vars => (link \in Socks)'
  BY DEF Next, Write, Close, Connect, SendNext, ReadOn, Read, vars, chosen
<1>3. Spec /\ link \in Socks => []Aligned  BY <1>1, <1>2, PTL DEF Spec
<1> QED  BY <1>3, WholeMessagesHold, AcceptedIsSentHolds, PTL

\* Over a pipe, between the daemon and its children, it takes a build that
\* returns what was read, and strings that PIPE_BUF holds.
THEOREM PipesHold ==
  ASSUME \A l \in Pipes : \A m \in Sent[l] :
            \A i \in 1..Len(m.strs) : Len(m.strs[i]) <= Atomic
  PROVE  Spec /\ build = "count" => [](WholeMessages /\ AcceptedIsSent)
<1>1. Types /\ build = "count" => Aligned
  <2> SUFFICES ASSUME Types, build = "count", link \in Pipes, NEW i \in 1..Len(View(cur).strs)
               PROVE  Len(View(cur).strs[i]) <= Atomic
    BY DEF Aligned
  <2>1. View(cur).strs = cur.strs \/ View(cur).strs = <<>>  BY DEF View
  <2> QED  BY <2>1, SMTT(40) DEF Types
<1>2. build = "count" /\ [Next]_vars => (build = "count")'
  BY DEF Next, Write, Close, Connect, SendNext, ReadOn, Read, vars, chosen
<1>3. Spec /\ build = "count" => []Aligned  BY <1>1, <1>2, WireTypeCorrect, PTL DEF Spec
<1> QED  BY <1>3, WholeMessagesHold, AcceptedIsSentHolds, PTL

-----------------------------------------------------------------------------
(* Both sides waiting for each other.                                       *)

\* The guards of Read and Write: there is something to take, or room for what
\* is left of a field.
ReaderGoesOn == want = 0 \/ chan # <<>> \/ ~open
WriterGoesOn ==
  /\ open /\ out # <<>>
  /\ \E n \in 0..Cap :
       /\ n \in 1..Len(Head(out)) \/ n = Len(Head(out))
       /\ n <= Cap - Len(chan)
       /\ Len(Head(out)) <= Atomic => n = Len(Head(out))

\* A receiver in the middle of a message, with nothing to read and a sender that
\* lives, has a sender with more to write, and an empty channel takes some of it.
NeverBothWait == at # "idle" => ReaderGoesOn \/ WriterGoesOn

\* A sender that has written all its fields has written the one the reader is at.
LEMMA StillWriting ==
  ASSUME Types, PlaceInv, at # "idle", ~ReaderGoesOn
  PROVE  open /\ Len(chan) = 0 /\ out # <<>>
<1>1. open /\ chan = <<>> /\ want # 0 /\ ~eof  BY DEF ReaderGoesOn, Types
<1>2. PICK L \in Nat : \E st \in [1..L -> Nat] : \E s, j, p \in Nat : Placed(st, L, s, j, p)
  BY <1>1, Zenon DEF PlaceInv
<1>3. PICK st \in [1..L -> Nat] : \E s, j, p \in Nat : Placed(st, L, s, j, p)
  BY <1>2, Zenon
<1>4. PICK s \in Nat, j \in Nat, p \in Nat : Placed(st, L, s, j, p)  BY <1>3, Zenon
<1> DEFINE f == Fields(cur)
<1>5. /\ Offsets(f, st, L) /\ s \in 1..L /\ p \in 1..L /\ Writing(f, s, j) /\ Reading(f, p)
      /\ InTransit(f, st, L, st[s] + j, st[p] + Len(got), chan) /\ Stage(p)
  BY <1>4 DEF Placed
<1>6. /\ Len(f) \in Nat /\ \A i \in 1..Len(f) : Len(f[i]) \in Nat
      /\ Len(got) \in Nat /\ want \in Nat
  BY CurFields DEF Sizes
<1>7. p <= Len(f)  BY <1>5, FieldLeft
<1> HIDE DEF f
<1>8. Len(got) < want /\ want = Len(f[p])
  <2>1. Len(<<>>) = 0  OBVIOUS
  <2>2. CASE got = <<>>  BY <2>1, <2>2, <1>1, <1>5, <1>6, <1>7 DEF Reading
  <2>3. CASE got # <<>>  BY <2>3, <1>5, <1>7 DEF Reading, Types, Awaited
  <2> QED  BY <2>2, <2>3
<1>9. ~(s > Len(f))
  <2> SUFFICES ASSUME s > Len(f)  PROVE FALSE  OBVIOUS
  <2>1. L \in 1..Len(f) + 1  BY <1>5 DEF Offsets
  <2>2. s = Len(f) + 1 /\ L = s  BY <2>1, <1>5, <1>6
  <2>3. j = 0  BY <2>2, <1>5, <1>6 DEF Writing
  <2>4. st[p + 1] = st[p] + Len(f[p]) /\ st[p + 1] <= st[s]
    <3>1. p \in 1..L - 1 /\ p + 1 \in 1..L /\ p + 1 <= s  BY <2>2, <1>5, <1>6, <1>7
    <3> QED  BY <3>1, <1>5 DEF Offsets
  <2>5. Len(chan) + (st[p] + Len(got)) = st[s] + j  BY <1>5, Zenon DEF InTransit
  <2>6. Len(chan) = 0  BY <1>1
  <2>7. PICK a \in Nat, b \in Nat, q \in Nat, l \in Nat :
           a = st[p] /\ b = st[s] /\ q = Len(got) /\ l = Len(f[p])
    BY <1>5, <1>6, <1>8
  <2>8. 0 + (a + q) = b + 0 /\ a + l <= b /\ q < l
    BY <2>3, <2>4, <2>5, <2>6, <2>7, <1>8
  <2> QED  BY <2>8
<1>10. Len(out) = Len(f) + 1 - s  BY <1>1, <1>5 DEF Writing
<1>11. Len(out) # 0  BY <1>6, <1>9, <1>10
<1>12. out # <<>>  BY <1>11
<1> QED  BY <1>1, <1>12

\* No message waits for ever because both sides wait: a pipe holds at least what
\* it takes at once, so whenever the reader has to wait the writer can write.
\* With fairness this is EveryMessageArrives.
THEOREM NeverBothWaitHolds ==
  ASSUME Atomic <= Cap
  PROVE  Spec /\ []Aligned => []NeverBothWait
<1>1. WireInv => NeverBothWait
  <2> SUFFICES ASSUME WireInv, at # "idle", ~ReaderGoesOn  PROVE WriterGoesOn
    BY DEF NeverBothWait
  <2>1. open /\ Len(chan) = 0 /\ out # <<>>  BY StillWriting DEF WireInv
  <2>2. Atomic \in Nat /\ Cap \in Nat /\ Cap >= 1  BY SizeAssumption
  <2>3. PICK l \in Nat : l = Len(Head(out))
    <3>1. out \in Seq(Units)  BY DEF WireInv, Types
    <3>2. Head(out) \in Units  BY <2>1, <3>1, HeadTailProperties
    <3> QED  BY <3>2, LenProperties DEF Units
  <2>4. CASE l <= Atomic
    <3>1. l \in 0..Cap /\ l <= Cap - 0  BY <2>2, <2>3, <2>4
    <3> QED  BY <2>1, <2>3, <3>1 DEF WriterGoesOn
  <2>5. CASE l > Atomic
    <3>1. 1 \in 0..Cap /\ 1 \in 1..l /\ 1 <= Cap - 0 /\ ~(l <= Atomic)  BY <2>2, <2>3, <2>5
    <3> QED  BY <2>1, <2>3, <3>1 DEF WriterGoesOn
  <2> QED  BY <2>2, <2>3, <2>4, <2>5
<1> QED  BY <1>1, WireInvariance, PTL
=============================================================================
