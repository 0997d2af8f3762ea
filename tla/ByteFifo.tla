------------------------------ MODULE ByteFifo ------------------------------
(***************************************************************************)
(* What a user of CharBuffer (port/utils/src/charbuffer.cpp) may rely on:  *)
(* a bounded first-in first-out queue of characters that can be cut at the *)
(* first occurrence of a separator.  A NUL ends the text a separator is    *)
(* looked up in, as it does for the strchr of indexOf.                     *)
(***************************************************************************)
EXTENDS Integers, Sequences

CONSTANTS BUF_SIZE,   \* capacity of a buffer, in characters
          Chars,      \* the characters that are not NUL
          NUL         \* '\0'

VARIABLES q,          \* the characters held, oldest first
          ret         \* what the last call returned: its verdict and its text

fifoVars == <<q, ret>>

Yes(s) == [ok |-> TRUE, str |-> s]
No     == [ok |-> FALSE, str |-> <<>>]

\* The first c, when no NUL hides it.
First(s, c, i) == s[i] = c /\ \A k \in 1..(i - 1) : s[k] \notin {c, NUL}
Found(s, c)    == \E i \in 1..Len(s) : First(s, c, i)
Cut(s, c)      == CHOOSE i \in 1..Len(s) : First(s, c, i)

Init == q = <<>> /\ ret = No

Put(c) == \/ Len(q) < BUF_SIZE /\ q' = Append(q, c) /\ ret' = Yes(<<>>)
          \/ Len(q) = BUF_SIZE /\ q' = q /\ ret' = No

Take == \/ q # <<>> /\ q' = Tail(q) /\ ret' = Yes(<<Head(q)>>)
        \/ q = <<>> /\ q' = q /\ ret' = No

TakeUntil(c) ==
  \/ Found(q, c) /\ q' = SubSeq(q, Cut(q, c) + 1, Len(q))
                 /\ ret' = Yes(SubSeq(q, 1, Cut(q, c) - 1))
  \/ ~Found(q, c) /\ q' = q /\ ret' = No

Load(s) == q' = s /\ ret' = No

Add(s) == /\ \E n \in 0..Len(s) :
               /\ q' = q \o SubSeq(s, 1, n)
               /\ n = Len(s) \/ Len(q) + n = BUF_SIZE
          /\ ret' = No

Empty == q' = <<>> /\ ret' = No

Strings == UNION {[1..n -> Chars \cup {NUL}] : n \in 0..BUF_SIZE}

Next == \/ \E c \in Chars \cup {NUL} : Put(c)
        \/ \E c \in Chars : TakeUntil(c)
        \/ \E s \in Strings : Load(s) \/ Add(s)
        \/ Take
        \/ Empty

Spec == Init /\ [][Next]_fifoVars
=============================================================================
