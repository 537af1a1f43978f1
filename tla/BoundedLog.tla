----------------------------- MODULE BoundedLog -----------------------------
(***************************************************************************)
(* What the timing storage promises: it keeps the last Capacity entries,   *)
(* oldest first, and can be emptied.                                       *)
(***************************************************************************)
EXTENDS Naturals, Sequences

CONSTANTS Entries, Capacity

VARIABLE log

LogInit == log = <<>>

Push(e) == log' = Append(IF Len(log) < Capacity THEN log ELSE Tail(log), e)

Empty == log' = <<>>

LogSpec == LogInit /\ [][Empty \/ \E e \in Entries : Push(e)]_log
=============================================================================
