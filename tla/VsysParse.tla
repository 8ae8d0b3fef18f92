----------------------------- MODULE VsysParse ------------------------------
(***************************************************************************)
(* From the digits a user typed to the vsys the daemon is asked for:       *)
(* vsd_parse_vsys_str (libvsys.c), which adds up an int without a bound,   *)
(* its callers in vsys_u.c, which refuse -1 but no other negative value,   *)
(* and their conversion of the int to an unsigned char.                    *)
(***************************************************************************)
EXTENDS Integers

CONSTANTS
  Half,      \* 2^31: where an int wraps around to negative values
  MaxNum,    \* VSD_VSYS_MAX_NUM, 256: the range of unsigned char too
  MaxDigits  \* bound on the length of what is typed

VARIABLES
  typed,   \* history: the number that was typed, of any size
  digits,  \* how many digits of it were read
  vsysid,  \* the int it is added up in
  ret      \* "none" yet, "word", "refused", or "id"

vars == <<typed, digits, vsysid, ret>>

Init == typed = 0 /\ digits = 0 /\ vsysid = 0 /\ ret = "none"

\* Signed overflow is undefined in C; what compilers make of it is this.
Wrapped(n) == ((n + Half) % (2 * Half)) - Half

Add(n, d) == n * 10 + d

Digit(d) == /\ ret = "none" /\ digits < MaxDigits
            /\ typed' = typed * 10 + d
            /\ digits' = digits + 1
            /\ vsysid' = Wrapped(Add(vsysid, d))
            /\ UNCHANGED ret

NoDigit == /\ ret = "none" /\ ret' = "word"
           /\ UNCHANGED <<typed, digits, vsysid>>

\* Slip: the largest number is taken for an id.
SlipValid(n) == n <= MaxNum /\ n # -1
Valid(n) == n < MaxNum /\ n # -1

\* The end of the string; the end of an empty one is vsys 0.
End == /\ ret = "none"
       /\ ret' = IF Valid(vsysid) THEN "id" ELSE "refused"
       /\ UNCHANGED <<typed, digits, vsysid>>

Next == (\E d \in 0..9 : Digit(d)) \/ NoDigit \/ End
Spec == Init /\ [][Next]_vars

Sent == vsysid % MaxNum                   \* (unsigned char)vsysid

-----------------------------------------------------------------------------
\* A number an int can hold is taken for what it is, and for an id if it is one.
\* A longer one is not always refused, because it wraps around; at worst it
\* names the vsys of its last eight bits.
IdIsTyped ==
  /\ ret = "id" => Sent = typed % MaxNum
  /\ typed < Half => /\ ret = "id" => typed < MaxNum
                     /\ ret = "refused" => typed >= MaxNum
=============================================================================
