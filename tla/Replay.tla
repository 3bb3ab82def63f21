------------------------------- MODULE Replay -------------------------------
(***************************************************************************)
(* What a dump of a demo promises.  A recording holds a sequence of items  *)
(* (the script): the messages of its packets the program knows and its     *)
(* table snapshots, up to the end of the recording or to the first place   *)
(* where it is damaged.  They are dumped one by one and in order; a sound  *)
(* recording ends well once all of them were, and a damaged one fails, or  *)
(* is dumped in some way beyond the damage, but only once everything that  *)
(* precedes the damage was dumped.                                         *)
(***************************************************************************)
EXTENDS Sequences, Naturals

VARIABLES
    script,         \* the items due
    damaged,        \* whether something is wrong behind them
    dumped,         \* the items dumped so far
    outcome         \* "running", "done" or "failed"

vars == <<script, damaged, dumped, outcome>>

AllDumped ==
    /\ Len(dumped) >= Len(script)
    /\ SubSeq(dumped, 1, Len(script)) = script

Init ==
    /\ dumped = <<>>
    /\ outcome = "running"

Dump ==
    /\ outcome = "running"
    /\ Len(dumped) < Len(script)
    /\ dumped' = Append(dumped, script[Len(dumped) + 1])
    /\ UNCHANGED <<script, damaged, outcome>>

Finish ==
    /\ outcome = "running"
    /\ AllDumped
    /\ outcome' = "done"
    /\ UNCHANGED <<script, damaged, dumped>>

Fail ==
    /\ outcome = "running"
    /\ damaged
    /\ AllDumped
    /\ outcome' = "failed"
    /\ UNCHANGED <<script, damaged, dumped>>

(* Behind the damage anything may be taken for an item.                    *)
Stray ==
    /\ outcome = "running"
    /\ damaged
    /\ AllDumped
    /\ Len(dumped') = Len(dumped) + 1
    /\ SubSeq(dumped', 1, Len(dumped)) = dumped
    /\ UNCHANGED <<script, damaged, outcome>>

Next == Dump \/ Finish \/ Fail \/ Stray

Spec == Init /\ [][Next]_vars
=============================================================================
