----------------------------- MODULE BitStream -----------------------------
(***************************************************************************)
(* What CBitRead promises its callers, without its word buffer: a finite   *)
(* string of bits, a position in it and a sticky overflow flag.  BitRead   *)
(* implements this specification.                                          *)
(***************************************************************************)
EXTENDS Integers

CONSTANTS
    Bit,            \* the values one bit of the buffer may have
    Zero,           \* the bit the reader invents when it has none left
    Widths,         \* the widths the callers ask for
    Targets         \* the positions they seek

VARIABLES
    bits,           \* the bytes under the reader, as a function of the bit
    length,         \* how many bits there are
    pos,            \* the next bit to be read
    overflow,       \* a caller asked for what is not there
    exhausted,      \* overflowed, and not repositioned inside the data since
    result          \* what the last read returned

vars == <<bits, length, pos, overflow, exhausted, result>>

Bits(n) == [0 .. n - 1 -> Bit]
Zeros(n) == [i \in 0 .. n - 1 |-> Zero]
Slice(n) == [i \in 0 .. n - 1 |-> bits[pos + i]]

Init ==
    /\ length \in Nat
    /\ bits \in Bits(length)
    /\ pos = 0
    /\ ~overflow
    /\ ~exhausted
    /\ result = Zeros(1)

(* The n bits at the position, in order, when they are all there.          *)
Read(n) ==
    /\ ~overflow
    /\ pos + n <= length
    /\ result' = Slice(n)
    /\ pos' = pos + n
    /\ UNCHANGED <<bits, length, overflow, exhausted>>

(* A read that needs even one bit too many raises the flag and leaves the  *)
(* reader at the end.  Its own value is not specified: a reader may hand   *)
(* out the bits it had.                                                    *)
ReadPastEnd(n) ==
    /\ ~overflow
    /\ pos + n > length
    /\ overflow'
    /\ exhausted'
    /\ pos' = length
    /\ result' \in Bits(n)
    /\ UNCHANGED <<bits, length>>

(* Once exhausted, every read returns zeros, which is what ends the loops  *)
(* that look for a terminator; a reader repositioned after an overflow may *)
(* return anything and be anywhere, but never forgets the flag.            *)
ReadAfterOverflow(n) ==
    /\ overflow
    /\ overflow'
    /\ result' \in Bits(n)
    /\ pos' \in 0 .. length
    /\ exhausted' \in BOOLEAN
    /\ exhausted => exhausted' /\ pos' = length /\ result' = Zeros(n)
    /\ UNCHANGED <<bits, length>>

(* A target outside the data is moved to the end, and raises the flag.     *)
Seek(p) ==
    /\ IF p \in 0 .. length
       THEN pos' = p /\ overflow' = overflow
       ELSE pos' = length /\ overflow'
    /\ exhausted' = (overflow' /\ pos' = length)
    /\ UNCHANGED <<bits, length, result>>

(* The owner of the buffer writes it before anything has been read.        *)
Fill ==
    /\ pos = 0
    /\ bits' \in Bits(length)
    /\ UNCHANGED <<length, pos, overflow, exhausted, result>>

Next ==
    \/ \E n \in Widths : Read(n) \/ ReadPastEnd(n) \/ ReadAfterOverflow(n)
    \/ \E p \in Targets : Seek(p)
    \/ Fill

Spec == Init /\ [][Next]_vars
=============================================================================
