------------------------------- MODULE TwoWire -------------------------------
(***************************************************************************)
(* The class TwoWire (port/utils/src/Wire.cpp): the object Wire1 of each   *)
(* board, as master or as slave.  The methods that move bytes over the bus *)
(* are cut where they call the SDK: endTransmission and requestFrom into   *)
(* what they hand to it and what they make of its result.  bufLen_ and     *)
(* bufPos_ are 8-bit numbers and the array has 256 places, so the test for *)
(* a full array cannot succeed: the length goes from 255 to 0.  Length is  *)
(* both the size of the array and the number of values of bufLen_.         *)
(***************************************************************************)
EXTENDS Integers, Sequences

CONSTANTS Board,   \* the boards with a TwoWire object
          Length   \* WIRE_BUFFER_LENGTH, and 2^8: the values of bufLen_

ASSUME WireAssumption == Length \in Nat \ {0}

VARIABLES
  mode,       \* mode_
  txAddress,  \* txAddress_, or NoAddress
  buf,        \* buf_[0 .. bufLen_ - 1]
  pos         \* bufPos_

wireVars  == <<mode, txAddress, buf, pos>>
NoAddress == 255

WireInit == /\ mode      = [b \in Board |-> "Unassigned"]
            /\ txAddress = [b \in Board |-> NoAddress]
            /\ buf       = [b \in Board |-> <<>>]
            /\ pos       = [b \in Board |-> 0]

Empty(b) == /\ buf' = [buf EXCEPT ![b] = <<>>]
            /\ pos' = [pos EXCEPT ![b] = 0]

\* begin, begin(selfAddress), end: the mode, and no bytes
Begin(b, as) == /\ txAddress[b] = NoAddress
                /\ mode' = [mode EXCEPT ![b] = as]
                /\ Empty(b)
                /\ UNCHANGED txAddress

\* buf_ after more bytes are written: those since bufLen_ was last 0
GrownBy(s, bytes) == LET all == s \o bytes
                     IN  SubSeq(all, Len(all) - (Len(all) % Length) + 1, Len(all))

\* beginTransmission, then write(cmd) and write(follow, len): the message
Transmission(b, a, bytes) ==
  /\ mode[b] = "Master" /\ txAddress[b] = NoAddress /\ a # NoAddress
  /\ txAddress' = [txAddress EXCEPT ![b] = a]
  /\ buf' = [buf EXCEPT ![b] = GrownBy(<<>>, bytes)]
  /\ pos' = [pos EXCEPT ![b] = 0]
  /\ UNCHANGED mode

\* Mutant of EndTransmission: the transmission stays open.
EndTransmissionOpen(b) ==
  /\ mode[b] = "Master" /\ txAddress[b] # NoAddress
  /\ buf' = [buf EXCEPT ![b] = <<>>]
  /\ UNCHANGED <<mode, txAddress, pos>>

\* endTransmission, after i2c_write_blocking_until.  bufLen_ is 0 when the result
\* is compared with it, so the code is never 3; no caller looks at it.
EndTransmission(b) ==
  /\ mode[b] = "Master" /\ txAddress[b] # NoAddress
  /\ txAddress' = [txAddress EXCEPT ![b] = NoAddress]
  /\ buf' = [buf EXCEPT ![b] = <<>>]
  /\ UNCHANGED <<mode, pos>>

\* requestFrom: how many bytes it asks for, and what it keeps of what came
Count(n) == IF n < Length THEN n ELSE Length

Requested(b, bytes, result) ==
  /\ mode[b] = "Master" /\ txAddress[b] = NoAddress
  /\ buf' = [buf EXCEPT ![b] = IF result < 0 \/ Len(bytes) = Length THEN <<>> ELSE bytes]
  /\ pos' = [pos EXCEPT ![b] = 0]
  /\ UNCHANGED <<mode, txAddress>>

\* while (available()) read(): the bytes behind bufPos_
Available(b) == Len(buf[b]) - pos[b]
Rest(b)      == SubSeq(buf[b], pos[b] + 1, Len(buf[b]))
ReadAll(b)   == /\ pos' = [pos EXCEPT ![b] = Len(buf[b])]
                /\ UNCHANGED <<mode, txAddress, buf>>

-----------------------------------------------------------------------------
(* handleEvent, on a slave *)

\* I2C_SLAVE_RECEIVE: the bytes of the FIFO, the excess discarded
OnReceive(b, fifo) == /\ buf' = [buf EXCEPT ![b] = GrownBy(@, fifo)]
                      /\ UNCHANGED <<mode, txAddress, pos>>

\* Mutant of OnFinish: the bytes that were handled stay.
OnFinishKeeps(b) == UNCHANGED <<buf, pos, mode, txAddress>>

\* I2C_SLAVE_FINISH: the receive handler gets the bytes, if there are any
OnFinish(b) == /\ IF buf[b] = <<>> THEN UNCHANGED <<buf, pos>> ELSE Empty(b)
               /\ UNCHANGED <<mode, txAddress>>
=============================================================================
