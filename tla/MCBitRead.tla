----------------------------- MODULE MCBitRead -----------------------------
(***************************************************************************)
(* BitRead on buffers whose every bit is a token of its own: bit i of the  *)
(* g-th contents is 1000 * g + i, so no two bits can be taken for one      *)
(* another and none for the cleared bit.                                   *)
(***************************************************************************)
EXTENDS BitRead

MCBit == Nat
MCContents ==
    {[i \in 0 .. 8 * MaxBytes - 1 |-> 1000 * g + i] : g \in 1 .. 2}

(* Every seek a caller makes is to a byte; one lies before the data and    *)
(* some beyond it.                                                         *)
MCSeekTargets == {8 * k : k \in -1 .. MaxBytes + 1}
=============================================================================
