-------------------------- MODULE CharBufferProofs --------------------------
(***************************************************************************)
(* The invariant of CharBuffer, for every buffer size and alphabet.        *)
(***************************************************************************)
EXTENDS CharBuffer, TLAPS

\* What strchr finds in a buffer whose tail is zero is in use: the character
\* is not NUL, so its position is below buf_len.
LEMMA FoundIsInUse ==
  ASSUME BufferInv, NEW c \in Chars, IsThere(c)
  PROVE  /\ indexOf(c) \in Index
         /\ indexOf(c) < buf_len
<1> DEFINE p == indexOf(c)
<1>1. p \in Index /\ At(c, p)
  BY DEF IsThere, indexOf
<1>2. buffer[p] # NUL
  BY <1>1, BufAssumption DEF At
<1> QED
  BY <1>1, <1>2 DEF BufferInv, TailIsZero, LengthInRange, Index

\* The bytes beyond the characters in use are zero and the count of those in
\* use stays within the array, whatever calls a program makes that never loads
\* a shorter text over a longer one.  The count is what readStringUntil hands
\* to memmove as a size, which a negative count would turn into a huge one.
THEOREM BufferInvariant ==
  ASSUME LoadShrinks = FALSE
  PROVE  Spec => []BufferInv
<1> USE BufAssumption
<1>1. Init => BufferInv
  BY DEF Init, BufferInv, LengthInRange, TailIsZero, Char, Index
<1>2. BufferInv /\ [Next]_vars => BufferInv'
  <2> SUFFICES ASSUME BufferInv, [Next]_vars
               PROVE  BufferInv'
    OBVIOUS
  <2> USE DEF BufferInv, LengthInRange, TailIsZero, Index
  <2>1. ASSUME NEW c \in Char, write(c)
        PROVE  BufferInv'
    BY <2>1 DEF write
  <2>2. ASSUME NEW c \in Chars, readStringUntil(c)
        PROVE  BufferInv'
    <3>1. CASE buf_len > 0 /\ IsThere(c)
      <4> DEFINE p    == indexOf(c)
                 left == buf_len - (p + 1)
      <4>1. p \in Index /\ p < buf_len
        BY <3>1, FoundIsInUse
      <4>2. left \in 0..BUF_SIZE /\ left + p < BUF_SIZE /\ left + p + 1 = buf_len
        BY <4>1
      <4>3. /\ buf_len' = left
            /\ buffer' = [i \in Index |-> IF i < left THEN buffer[i + p + 1]
                                          ELSE IF i <= left + p THEN NUL ELSE buffer[i]]
        BY <2>2, <3>1 DEF readStringUntil
      <4> HIDE DEF p, left
      <4>4. \A i \in Index : i < left => i + p + 1 \in Index
        BY <4>1, <4>2
      <4>5. buffer' \in [Index -> Char]
        BY <4>3, <4>4 DEF Char
      <4>6. \A i \in Index : i >= left => buffer'[i] = NUL
        BY <4>1, <4>2, <4>3
      <4> QED
        BY <4>2, <4>3, <4>5, <4>6
    <3>2. CASE ~(buf_len > 0 /\ IsThere(c))
      BY <2>2, <3>2 DEF readStringUntil
    <3> QED
      BY <3>1, <3>2
  <2>3. ASSUME NEW s \in Strings, setBuffer(s)
        PROVE  BufferInv'
    <3>1. PICK n \in 0..BUF_SIZE : s \in [1..n -> Char]
      BY DEF Strings
    <3>2. Len(s) = n /\ n >= buf_len
      BY <2>3, <3>1 DEF setBuffer
    <3>3. \A i \in Index : i < n => s[i + 1] \in Char
      BY <3>1
    <3> QED
      BY <2>3, <3>1, <3>2, <3>3 DEF setBuffer
  <2>4. ASSUME NEW s \in Strings, addString(s)
        PROVE  BufferInv'
    <3>1. PICK n \in 0..BUF_SIZE : s \in [1..n -> Char]
      BY DEF Strings
    <3>2. Len(s) = n
      BY <3>1
    <3>3. \A i \in Index : buf_len <= i /\ i < buf_len + n => s[i - buf_len + 1] \in Char
      BY <3>1
    <3>4. buffer' = [i \in Index |-> IF buf_len <= i /\ i < buf_len + n
                                     THEN s[i - buf_len + 1] ELSE buffer[i]]
      BY <2>4, <3>2 DEF addString
    <3>5. buf_len' \in 0..BUF_SIZE /\ (buf_len' = BUF_SIZE \/ buf_len' = buf_len + n)
      BY <2>4, <3>2 DEF addString
    <3>6. buffer' \in [Index -> Char]
      BY <3>3, <3>4
    <3>7. \A i \in Index : i >= buf_len' => buffer'[i] = NUL
      BY <3>4, <3>5
    <3> QED
      BY <3>5, <3>6, <3>7
  <2>5. CASE read
    BY <2>5 DEF read, Char
  <2>6. CASE clear
    BY <2>6 DEF clear, Char
  <2>7. CASE UNCHANGED vars
    BY <2>7 DEF vars
  <2> QED
    BY <2>1, <2>2, <2>3, <2>4, <2>5, <2>6, <2>7 DEF Next
<1> QED
  BY <1>1, <1>2, PTL DEF Spec

-----------------------------------------------------------------------------
(* A buffer is a queue *)

\* Two sequences with the same elements are the same.
LEMMA SameElements ==
  ASSUME NEW S, NEW T, NEW s \in Seq(S), NEW t \in Seq(T), Len(s) = Len(t),
         \A i \in 1..Len(s) : s[i] = t[i]
  PROVE  s = t
OBVIOUS

\* Two sequences, one behind the other.
LEMMA Concat ==
  ASSUME NEW S, NEW s \in Seq(S), NEW t \in Seq(S)
  PROVE  /\ s \o t \in Seq(S) /\ Len(s \o t) = Len(s) + Len(t)
         /\ \A i \in 1..(Len(s) + Len(t)) : (s \o t)[i] = IF i <= Len(s) THEN s[i] ELSE t[i - Len(s)]
OBVIOUS

\* The characters in use, as a sequence.
LEMMA InUse ==
  ASSUME BufferInv
  PROVE  /\ Prefix(buf_len) \in Seq(Char) /\ Len(Prefix(buf_len)) = buf_len
         /\ \A i \in 1..buf_len : Prefix(buf_len)[i] = buffer[i - 1] /\ i - 1 \in Index
         /\ buf_len \in 0..BUF_SIZE /\ BUF_SIZE \in Nat \ {0}
<1>1. buf_len \in 0..BUF_SIZE /\ BUF_SIZE \in Nat \ {0}
  BY BufAssumption DEF BufferInv, LengthInRange
<1>2. \A i \in 1..buf_len : i - 1 \in Index
  BY <1>1 DEF Index
<1>3. Prefix(buf_len) \in [1..buf_len -> Char]
  BY <1>2 DEF Prefix, BufferInv
<1> QED
  BY <1>1, <1>2, <1>3 DEF Prefix

\* A separator is found in the buffer where it is first in the queue.
LEMMA FoundInQueue ==
  ASSUME BufferInv, NEW c \in Chars
  PROVE  /\ buf_len > 0 /\ IsThere(c) <=> Fifo!Found(Prefix(buf_len), c)
         /\ IsThere(c) => /\ indexOf(c) \in 0..(buf_len - 1)
                          /\ Fifo!Cut(Prefix(buf_len), c) = indexOf(c) + 1
<1> DEFINE q == Prefix(buf_len)
<1>1. /\ Len(q) = buf_len /\ buf_len \in Nat
      /\ \A i \in 1..buf_len : q[i] = buffer[i - 1] /\ i - 1 \in Index
  BY InUse
<1>2. ASSUME NEW p \in Index, p < buf_len
      PROVE  At(c, p) <=> Fifo!First(q, c, p + 1)
  <2>1. p + 1 \in 1..buf_len /\ (p + 1) - 1 = p /\ p \in Nat
    BY <1>1, <1>2 DEF Index
  <2>2. q[p + 1] = buffer[p]
    BY <1>1, <2>1
  <2>3. \A k \in 0..(p - 1) : k + 1 \in 1..((p + 1) - 1) /\ buffer[k] = q[k + 1]
    <3> TAKE k \in 0..(p - 1)
    <3>1. k + 1 \in 1..buf_len /\ (k + 1) - 1 = k /\ k + 1 \in 1..((p + 1) - 1)
      BY <1>1, <2>1
    <3> QED
      BY <1>1, <3>1
  <2>4. \A k \in 1..((p + 1) - 1) : k - 1 \in 0..(p - 1) /\ q[k] = buffer[k - 1]
    <3> TAKE k \in 1..((p + 1) - 1)
    <3>1. k \in 1..buf_len /\ k - 1 \in 0..(p - 1)
      BY <1>1, <2>1
    <3> QED
      BY <1>1, <3>1
  <2> HIDE DEF q
  <2>5. At(c, p) => Fifo!First(q, c, p + 1)
    BY <2>2, <2>4 DEF At, Fifo!First
  <2>6. Fifo!First(q, c, p + 1) => At(c, p)
    BY <2>2, <2>3 DEF At, Fifo!First
  <2> QED
    BY <2>5, <2>6
<1> HIDE DEF q
<1>3. ASSUME IsThere(c)
      PROVE  /\ indexOf(c) \in Index /\ indexOf(c) \in 0..(buf_len - 1) /\ At(c, indexOf(c))
             /\ Fifo!First(q, c, indexOf(c) + 1) /\ indexOf(c) + 1 \in 1..Len(q)
  <2>1. indexOf(c) \in Index /\ indexOf(c) < buf_len
    BY <1>3, FoundIsInUse
  <2>2. At(c, indexOf(c))
    BY <1>3 DEF IsThere, indexOf
  <2>3. indexOf(c) \in 0..(buf_len - 1) /\ indexOf(c) + 1 \in 1..Len(q)
    BY <1>1, <2>1 DEF Index
  <2> QED
    BY <1>2, <2>1, <2>2, <2>3
<1>4. ASSUME Fifo!Found(q, c) PROVE buf_len > 0 /\ IsThere(c)
  <2>1. PICK i \in 1..Len(q) : Fifo!First(q, c, i)
    BY <1>4 DEF Fifo!Found
  <2>2. i - 1 \in Index /\ i - 1 < buf_len /\ (i - 1) + 1 = i /\ buf_len > 0
    BY <1>1, <2>1
  <2>3. At(c, i - 1)
    BY <1>2, <2>1, <2>2
  <2> QED
    BY <2>2, <2>3 DEF IsThere
<1>5. ASSUME IsThere(c) PROVE Fifo!Cut(q, c) = indexOf(c) + 1
  <2> DEFINE i == Fifo!Cut(q, c)
             j == indexOf(c) + 1
  <2>1. Fifo!First(q, c, j) /\ j \in 1..Len(q)
    BY <1>3, <1>5
  <2>2. i \in 1..Len(q) /\ Fifo!First(q, c, i)
    BY <2>1 DEF Fifo!Cut
  <2> HIDE DEF i, j
  <2>3. ~(i < j) /\ ~(j < i)
    BY <1>1, <2>1, <2>2 DEF Fifo!First
  <2>4. i = j
    BY <1>1, <2>1, <2>2, <2>3
  <2> QED
    BY <2>4 DEF i, j
<1> QED
  BY <1>3, <1>4, <1>5 DEF q, Fifo!Found

\* Every call changes the queue and answers as the queue would.
LEMMA CallOfQueue ==
  ASSUME BufferInv, BufferInv', Next
  PROVE  Fifo!Next
<1> DEFINE q  == Prefix(buf_len)
           q2 == Prefix(buf_len)'
<1>0. /\ q \in Seq(Char) /\ Len(q) = buf_len /\ buf_len \in 0..BUF_SIZE /\ BUF_SIZE \in Nat \ {0}
      /\ \A i \in 1..buf_len : q[i] = buffer[i - 1] /\ i - 1 \in Index
      /\ Char = Chars \cup {NUL} /\ NUL \notin Chars
  BY InUse, BufAssumption DEF Char
<1>1. /\ q2 \in Seq(Char) /\ Len(q2) = buf_len' /\ buf_len' \in 0..BUF_SIZE
      /\ \A i \in 1..buf_len' : q2[i] = buffer'[i - 1] /\ i - 1 \in Index
  <2>1. buf_len' \in 0..BUF_SIZE /\ BUF_SIZE \in Nat
    BY <1>0 DEF BufferInv, LengthInRange
  <2>2. \A i \in 1..buf_len' : i - 1 \in Index
    BY <2>1 DEF Index
  <2>3. q2 = [i \in 1..buf_len' |-> buffer'[i - 1]]
    BY DEF Prefix
  <2>4. q2 \in [1..buf_len' -> Char]
    BY <2>2, <2>3 DEF BufferInv
  <2> HIDE DEF q2
  <2> QED
    BY <2>1, <2>2, <2>3, <2>4
<1>2. ASSUME UNCHANGED <<buffer, buf_len>> PROVE q2 = q
  BY <1>2 DEF Prefix
<1> HIDE DEF q, q2
<1>3. ASSUME NEW c \in Char, write(c) PROVE Fifo!Put(c)
  <2>1. CASE buf_len >= BUF_SIZE
    BY <1>0, <1>2, <1>3, <2>1 DEF write, Fifo!Put, Fifo!No, No, q, q2
  <2>2. CASE buf_len < BUF_SIZE
    <3>1. /\ buffer' = [buffer EXCEPT ![buf_len] = c] /\ buf_len' = buf_len + 1 /\ ret' = Yes(<<>>)
          /\ buf_len \in Index
      BY <1>0, <1>3, <2>2 DEF write, Index
    <3>2. /\ Append(q, c) \in Seq(Char) /\ Len(Append(q, c)) = buf_len + 1
          /\ \A i \in 1..buf_len : Append(q, c)[i] = q[i]
          /\ Append(q, c)[buf_len + 1] = c
      BY <1>0
    <3>3. ASSUME NEW i \in 1..Len(q2) PROVE q2[i] = Append(q, c)[i]
      <4>1. i - 1 \in Index /\ q2[i] = buffer'[i - 1] /\ (i \in 1..buf_len \/ i = buf_len + 1)
        BY <1>0, <1>1, <3>1
      <4>2. CASE i \in 1..buf_len
        <5>1. i - 1 # buf_len
          BY <1>0, <4>2
        <5> QED
          BY <1>0, <3>1, <3>2, <4>1, <4>2, <5>1 DEF BufferInv
      <4>3. CASE i = buf_len + 1
        <5>1. i - 1 = buf_len
          BY <1>0, <4>3
        <5> QED
          BY <3>1, <3>2, <4>1, <4>3, <5>1 DEF BufferInv
      <4> QED
        BY <4>1, <4>2, <4>3
    <3>4. q2 = Append(q, c)
      BY <1>1, <3>1, <3>2, <3>3, SameElements
    <3> QED
      BY <1>0, <2>2, <3>1, <3>4 DEF Fifo!Put, Fifo!Yes, Yes, q, q2
  <2> QED
    BY <1>0, <2>1, <2>2
<1>4. ASSUME read PROVE Fifo!Take
  <2>1. CASE buf_len <= 0
    <3>1. q = <<>>
      BY <1>0, <2>1
    <3> QED
      BY <1>0, <1>2, <1>4, <2>1, <3>1 DEF read, Fifo!Take, Fifo!No, No, q, q2
  <2>2. CASE buf_len > 0
    <3>1. /\ buffer' = [i \in Index |-> IF i < buf_len - 1 THEN buffer[i + 1]
                                        ELSE IF i = buf_len - 1 THEN NUL ELSE buffer[i]]
          /\ buf_len' = buf_len - 1 /\ ret' = Yes(<<buffer[0]>>)
      BY <1>0, <1>4, <2>2 DEF read
    <3>2. /\ q # <<>> /\ Head(q) = q[1] /\ Tail(q) \in Seq(Char) /\ Len(Tail(q)) = buf_len - 1
          /\ \A i \in 1..(buf_len - 1) : Tail(q)[i] = q[i + 1]
      BY <1>0, <2>2
    <3>3. ASSUME NEW i \in 1..Len(q2) PROVE q2[i] = Tail(q)[i]
      <4>1. /\ i - 1 \in Index /\ i - 1 < buf_len - 1 /\ (i - 1) + 1 = i /\ (i + 1) - 1 = i
            /\ i \in 1..(buf_len - 1) /\ i + 1 \in 1..buf_len
        <5>1. i \in 1..(buf_len - 1)
          BY <1>1, <3>1
        <5> QED
          BY <1>0, <5>1 DEF Index
      <4>2. q2[i] = buffer[i] /\ q[i + 1] = buffer[i]
        BY <1>0, <1>1, <3>1, <4>1
      <4> QED
        BY <3>2, <4>1, <4>2
    <3>4. q2 = Tail(q)
      BY <1>1, <3>1, <3>2, <3>3, SameElements
    <3>5. Head(q) = buffer[0]
      BY <1>0, <2>2, <3>2
    <3> QED
      BY <3>1, <3>2, <3>4, <3>5 DEF Fifo!Take, Fifo!Yes, Yes, q, q2
  <2> QED
    BY <1>0, <2>1, <2>2
<1>5. ASSUME NEW c \in Chars, readStringUntil(c) PROVE Fifo!TakeUntil(c)
  <2>1. CASE ~(buf_len > 0 /\ IsThere(c))
    <3>1. ~Fifo!Found(q, c)
      BY <2>1, FoundInQueue DEF q
    <3> QED
      BY <1>2, <1>5, <2>1, <3>1 DEF readStringUntil, Fifo!TakeUntil, Fifo!No, No, q, q2
  <2>2. CASE buf_len > 0 /\ IsThere(c)
    <3> DEFINE p == indexOf(c)
               left == buf_len - (p + 1)
    <3>1. Fifo!Found(q, c) /\ p \in 0..(buf_len - 1) /\ Fifo!Cut(q, c) = p + 1
      BY <2>2, FoundInQueue DEF q
    <3>2. /\ ret' = Yes(Prefix(p)) /\ buf_len' = left
          /\ buffer' = [i \in Index |-> IF i < left THEN buffer[i + p + 1]
                                        ELSE IF i <= left + p THEN NUL ELSE buffer[i]]
      BY <1>5, <2>2 DEF readStringUntil
    <3> HIDE DEF p
    <3>3. /\ SubSeq(q, (p + 1) + 1, Len(q)) \in Seq(Char)
          /\ Len(SubSeq(q, (p + 1) + 1, Len(q))) = left
          /\ \A i \in 1..left : SubSeq(q, (p + 1) + 1, Len(q))[i] = q[i + p + 1]
      BY <1>0, <3>1
    <3>4. ASSUME NEW i \in 1..Len(q2) PROVE q2[i] = SubSeq(q, (p + 1) + 1, Len(q))[i]
      <4>1. /\ i - 1 \in Index /\ i - 1 < left /\ (i - 1) + p + 1 = i + p /\ (i + p + 1) - 1 = i + p
            /\ i \in 1..left /\ i + p + 1 \in 1..buf_len
        <5>1. i \in 1..left /\ p \in 0..(buf_len - 1) /\ buf_len \in 0..BUF_SIZE /\ BUF_SIZE \in Nat
          BY <1>0, <1>1, <3>1, <3>2
        <5> QED
          BY <5>1 DEF Index
      <4>2. q2[i] = buffer[i + p] /\ q[i + p + 1] = buffer[i + p]
        BY <1>0, <1>1, <3>2, <4>1
      <4> QED
        BY <3>3, <4>1, <4>2
    <3>5. q2 = SubSeq(q, Fifo!Cut(q, c) + 1, Len(q))
      <4> DEFINE rest == SubSeq(q, (p + 1) + 1, Len(q))
      <4>1. rest \in Seq(Char) /\ q2 \in Seq(Char) /\ Len(q2) = Len(rest) /\ \A i \in 1..Len(q2) : q2[i] = rest[i]
        BY <1>1, <3>2, <3>3, <3>4
      <4> HIDE DEF rest
      <4>2. q2 = rest
        BY <4>1, SameElements
      <4> QED
        BY <3>1, <4>2 DEF rest
    <3>6. Prefix(p) = SubSeq(q, 1, Fifo!Cut(q, c) - 1)
      <4>1. SubSeq(q, 1, p) = [i \in 1..p |-> q[i]] /\ (p + 1) - 1 = p
        BY <1>0, <3>1
      <4>2. \A i \in 1..p : q[i] = buffer[i - 1]
        BY <1>0, <3>1
      <4> QED
        BY <3>1, <4>1, <4>2 DEF Prefix
    <3> QED
      BY <3>1, <3>2, <3>5, <3>6 DEF Fifo!TakeUntil, Fifo!Yes, Yes, q, q2
  <2> QED
    BY <2>1, <2>2
<1>6. ASSUME NEW s \in Strings, setBuffer(s) PROVE Fifo!Load(s)
  <2>1. PICK n \in 0..BUF_SIZE : s \in [1..n -> Char]
    BY DEF Strings
  <2>2. s \in Seq(Char) /\ Len(s) = n
    BY <2>1
  <2>3. /\ buffer' = [i \in Index |-> IF i < n THEN s[i + 1] ELSE buffer[i]]
        /\ buf_len' = n /\ ret' = No
    BY <1>6, <2>2 DEF setBuffer
  <2>4. ASSUME NEW i \in 1..Len(q2) PROVE q2[i] = s[i]
    <3>1. i - 1 \in Index /\ i - 1 < n /\ (i - 1) + 1 = i /\ q2[i] = buffer'[i - 1]
      BY <1>1, <2>3
    <3> QED
      BY <2>3, <3>1
  <2>5. q2 = s
    BY <1>1, <2>2, <2>3, <2>4, SameElements
  <2> QED
    BY <2>3, <2>5 DEF Fifo!Load, Fifo!No, No, q2
<1>7. ASSUME NEW s \in Strings, addString(s) PROVE Fifo!Add(s)
  <2>1. PICK m \in 0..BUF_SIZE : s \in [1..m -> Char]
    BY DEF Strings
  <2>2. s \in Seq(Char) /\ Len(s) = m
    BY <2>1
  <2> DEFINE n == IF buf_len + m >= BUF_SIZE THEN BUF_SIZE - buf_len ELSE m
  <2>3. /\ buffer' = [i \in Index |-> IF buf_len <= i /\ i < buf_len + m
                                      THEN s[i - buf_len + 1] ELSE buffer[i]]
        /\ buf_len' = buf_len + n /\ ret' = No
    BY <1>0, <1>7, <2>1, <2>2 DEF addString
  <2>4. n \in 0..m /\ (n = m \/ buf_len + n = BUF_SIZE) /\ m \in Nat
    BY <1>0, <2>1
  <2> HIDE DEF n
  <2>5. /\ SubSeq(s, 1, n) \in Seq(Char) /\ Len(SubSeq(s, 1, n)) = n
        /\ \A i \in 1..n : SubSeq(s, 1, n)[i] = s[i]
    BY <2>2, <2>4
  <2> DEFINE r == SubSeq(s, 1, n)
  <2>6. /\ q \o r \in Seq(Char) /\ Len(q \o r) = buf_len + n
        /\ \A i \in 1..(buf_len + n) : (q \o r)[i] = IF i <= buf_len THEN q[i] ELSE r[i - buf_len]
    <3> HIDE DEF r
    <3>1. r \in Seq(Char) /\ Len(r) = n
      BY <2>5 DEF r
    <3>2. /\ q \o r \in Seq(Char) /\ Len(q \o r) = Len(q) + Len(r)
          /\ \A i \in 1..(Len(q) + Len(r)) : (q \o r)[i] = IF i <= Len(q) THEN q[i] ELSE r[i - Len(q)]
      BY ZenonT(60), <1>0, <3>1, Concat
    <3> QED
      BY <1>0, <3>1, <3>2
  <2>7. ASSUME NEW i \in 1..Len(q2) PROVE q2[i] = (q \o r)[i]
    <3>1. /\ i - 1 \in Index /\ i \in 1..(buf_len + n) /\ q2[i] = buffer'[i - 1]
      BY <1>1, <2>3
    <3>2. CASE i <= buf_len
      <4>1. ~(buf_len <= i - 1) /\ i \in 1..buf_len
        BY <1>0, <3>1, <3>2
      <4> QED
        BY <1>0, <2>3, <2>6, <3>1, <3>2, <4>1
    <3>3. CASE ~(i <= buf_len)
      <4>1. /\ buf_len <= i - 1 /\ i - 1 < buf_len + m /\ (i - 1) - buf_len + 1 = i - buf_len
            /\ i - buf_len \in 1..n
        BY <1>0, <2>4, <3>1, <3>3
      <4>2. q2[i] = s[i - buf_len] /\ r[i - buf_len] = s[i - buf_len]
        BY <2>3, <2>5, <3>1, <4>1
      <4> QED
        BY <2>6, <3>1, <3>3, <4>2
    <3> QED
      BY <3>2, <3>3
  <2>8. q2 = q \o SubSeq(s, 1, n)
    <3> DEFINE longer == q \o r
    <3>1. longer \in Seq(Char) /\ q2 \in Seq(Char) /\ Len(q2) = Len(longer) /\ \A i \in 1..Len(q2) : q2[i] = longer[i]
      BY <1>1, <2>3, <2>6, <2>7
    <3> HIDE DEF longer
    <3>2. q2 = longer
      BY <3>1, SameElements
    <3> QED
      BY <3>2 DEF longer
  <2> QED
    BY <1>0, <2>2, <2>3, <2>4, <2>8 DEF Fifo!Add, Fifo!No, No, q, q2
<1>8. ASSUME clear PROVE Fifo!Empty
  <2>1. q2 = <<>>
    BY <1>1, <1>8 DEF clear
  <2> QED
    BY <1>8, <2>1 DEF clear, Fifo!Empty, Fifo!No, No, q2
<1>9. Fifo!Strings = Strings
  BY DEF Fifo!Strings, Strings, Char
<1> QED
  BY <1>3, <1>4, <1>5, <1>6, <1>7, <1>8, <1>9 DEF Next, Fifo!Next, Char

\* For every capacity and alphabet, a buffer whose text is never replaced by a
\* shorter one is a bounded queue of characters: the array and its length implement
\* it, whatever is called in whatever order.
THEOREM IsFifoTheorem ==
  ASSUME LoadShrinks = FALSE
  PROVE  Spec => IsFifo
<1>1. Init => Fifo!Init
  <2> SUFFICES ASSUME Init PROVE Fifo!Init
    OBVIOUS
  <2>1. Prefix(buf_len) = <<>>
    BY DEF Init, Prefix
  <2> QED
    BY <2>1 DEF Init, Fifo!Init, Fifo!No, No
<1>2. ASSUME BufferInv, BufferInv', [Next]_vars PROVE [Fifo!Next]_(Fifo!fifoVars)
  <2>1. CASE Next
    BY <1>2, <2>1, CallOfQueue
  <2>2. CASE UNCHANGED vars
    BY <2>2 DEF vars, Prefix, Fifo!fifoVars
  <2> QED
    BY <1>2, <2>1, <2>2
<1>3. Spec => []BufferInv
  BY BufferInvariant
<1> QED
  BY <1>1, <1>2, <1>3, PTL DEF Spec, IsFifo, Fifo!Spec

=============================================================================
