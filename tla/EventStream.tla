----------------------------- MODULE EventStream -----------------------------
(***************************************************************************)
(* What iterating over a subscription promises: the events come in the     *)
(* order in which the reader offered them, none twice, none invented; some *)
(* may be missing; after the end nothing comes.                            *)
(***************************************************************************)
EXTENDS Naturals, Sequences

VARIABLES
  offered, \* how many events the reader has accepted
  seen,    \* their numbers, in the order the application received them
  ended    \* the iteration is over

Init == offered = 0 /\ seen = <<>> /\ ended = FALSE

LastSeen == IF seen = <<>> THEN 0 ELSE seen[Len(seen)]

Offer == offered' = offered + 1 /\ UNCHANGED <<seen, ended>>

Deliver ==
  /\ ~ended
  /\ \E n \in (LastSeen + 1)..offered : seen' = Append(seen, n)
  /\ UNCHANGED <<offered, ended>>

End == ~ended /\ ended' = TRUE /\ UNCHANGED <<offered, seen>>

Next == Offer \/ Deliver \/ End

Spec == Init /\ [][Next]_<<offered, seen, ended>>
==============================================================================
