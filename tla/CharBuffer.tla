----------------------------- MODULE CharBuffer -----------------------------
(***************************************************************************)
(* The class CharBuffer of port/utils/src/charbuffer.cpp, the buffer that  *)
(* every I2C message of the mining rig goes through: a fixed array of      *)
(* BUF_SIZE characters and the number of them in use.  Separators are      *)
(* looked up with strchr on the whole array, so what lies beyond buf_len   *)
(* matters; the class keeps it at NUL, and TailIsZero says so.             *)
(*                                                                         *)
(* LoadShrinks says whether a caller may load (setBuffer) a text shorter   *)
(* than the one the buffer holds.  The slave's requestBuffer never does:   *)
(* it is loaded with all 256 characters.  The master's jobBuffer does when *)
(* a server message had something left behind its first newline.           *)
(***************************************************************************)
EXTENDS Integers, Sequences

CONSTANTS BUF_SIZE, Chars, NUL, LoadShrinks

ASSUME BufAssumption == /\ BUF_SIZE \in Nat \ {0}
                        /\ NUL \notin Chars
                        /\ LoadShrinks \in BOOLEAN

VARIABLES buffer,     \* the array, indices 0..BUF_SIZE-1 as in C
          buf_len,    \* the number of characters in use
          ret         \* what the last call returned

vars == <<buffer, buf_len, ret>>

Index  == 0..(BUF_SIZE - 1)
Char   == Chars \cup {NUL}
Strings == UNION {[1..n -> Char] : n \in 0..BUF_SIZE}

Yes(s) == [ok |-> TRUE, str |-> s]
No     == [ok |-> FALSE, str |-> <<>>]

\* The first n characters of the array, as a sequence.
Prefix(n) == [i \in 1..n |-> buffer[i - 1]]

\* indexOf: strchr stops at the first NUL.  When the array has none it runs
\* into buf_len, which follows the array: its low byte is 0 when it is 256.
At(c, p)      == buffer[p] = c /\ \A k \in 0..(p - 1) : buffer[k] # c /\ buffer[k] # NUL
IsThere(c)    == \E p \in Index : At(c, p)
indexOf(c)    == CHOOSE p \in Index : At(c, p)

Init == /\ buffer = [i \in Index |-> NUL]     \* a static object starts zeroed
        /\ buf_len = 0
        /\ ret = No

write(c) ==
  \/ /\ buf_len >= BUF_SIZE
     /\ ret' = No
     /\ UNCHANGED <<buffer, buf_len>>
  \/ /\ buf_len < BUF_SIZE
     /\ buffer' = [buffer EXCEPT ![buf_len] = c]
     /\ buf_len' = buf_len + 1
     /\ ret' = Yes(<<>>)

\* Mutated form: the memmove is given buf_len - 1 after the decrement, one
\* character too few.
readShort ==
  \/ /\ buf_len > 0
     /\ ret' = Yes(<<buffer[0]>>)
     /\ buf_len' = buf_len - 1
     /\ buffer' = [i \in Index |-> IF i < buf_len - 2 THEN buffer[i + 1]
                                   ELSE IF i = buf_len - 1 THEN NUL ELSE buffer[i]]
  \/ /\ buf_len <= 0
     /\ ret' = No
     /\ UNCHANGED <<buffer, buf_len>>

\* memmove of buf_len characters reads one past the last one in use; the
\* character it brings in is overwritten by the memset that follows.
read ==
  \/ /\ buf_len > 0
     /\ ret' = Yes(<<buffer[0]>>)
     /\ buf_len' = buf_len - 1
     /\ buffer' = [i \in Index |-> IF i < buf_len - 1 THEN buffer[i + 1]
                                   ELSE IF i = buf_len - 1 THEN NUL ELSE buffer[i]]
  \/ /\ buf_len <= 0
     /\ ret' = No
     /\ UNCHANGED <<buffer, buf_len>>

\* Mutated form: the array is compacted and the freed tail is left as it was.
readStringUntilNoFill(c) ==
  \/ /\ buf_len > 0 /\ IsThere(c)
     /\ LET p    == indexOf(c)
            left == buf_len - (p + 1)
        IN  /\ ret' = Yes(Prefix(p))
            /\ buf_len' = left
            /\ buffer' = [i \in Index |-> IF i < left THEN buffer[i + p + 1] ELSE buffer[i]]
  \/ /\ ~(buf_len > 0 /\ IsThere(c))
     /\ ret' = No
     /\ UNCHANGED <<buffer, buf_len>>

readStringUntil(c) ==
  \/ /\ buf_len > 0 /\ IsThere(c)
     /\ LET p    == indexOf(c)
            left == buf_len - (p + 1)
        IN  /\ ret' = Yes(Prefix(p))
            /\ buf_len' = left
            /\ buffer' = [i \in Index |-> IF i < left THEN buffer[i + p + 1]
                                          ELSE IF i <= left + p THEN NUL ELSE buffer[i]]
  \/ /\ ~(buf_len > 0 /\ IsThere(c))
     /\ ret' = No
     /\ UNCHANGED <<buffer, buf_len>>

\* The tail of the array keeps what it held.
setBuffer(s) ==
  /\ LoadShrinks \/ Len(s) >= buf_len
  /\ buffer' = [i \in Index |-> IF i < Len(s) THEN s[i + 1] ELSE buffer[i]]
  /\ buf_len' = Len(s)
  /\ ret' = No

addString(s) ==
  /\ buffer' = [i \in Index |-> IF buf_len <= i /\ i < buf_len + Len(s)
                                THEN s[i - buf_len + 1] ELSE buffer[i]]
  /\ buf_len' = IF buf_len + Len(s) >= BUF_SIZE THEN BUF_SIZE ELSE buf_len + Len(s)
  /\ ret' = No

clear == /\ buffer' = [i \in Index |-> NUL]
         /\ buf_len' = 0
         /\ ret' = No

Next == \/ \E c \in Char : write(c)
        \/ \E c \in Chars : readStringUntil(c)
        \/ \E s \in Strings : setBuffer(s) \/ addString(s)
        \/ read
        \/ clear

Spec == Init /\ [][Next]_vars

-----------------------------------------------------------------------------
\* The number of characters in use never leaves the array: the subtraction of
\* readStringUntil (line 78), whose position comes from the whole array, never
\* takes more than is there.
LengthInRange == buf_len \in 0..BUF_SIZE

\* Nothing but NUL lies beyond the characters in use, so a separator found by
\* strchr is one of them.
TailIsZero == \A i \in Index : i >= buf_len => buffer[i] = NUL

\* The arrays, the lengths and the answers are of their types, and the tail of
\* the array is zero: the state every operation leaves a buffer in.
BufferInv == /\ buffer \in [Index -> Char]
             /\ LengthInRange
             /\ TailIsZero

Fifo == INSTANCE ByteFifo WITH q <- Prefix(buf_len)

\* A buffer whose text is never replaced by a shorter one is a bounded queue of
\* characters: every call changes it and answers as the queue would.
IsFifo == Fifo!Spec
=============================================================================
