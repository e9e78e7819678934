------------------------------ MODULE ReadIndex -----------------------------
(***************************************************************************)
(* What a projection promises to its readers: "a current-state read index".*)
(* The owner's record of a key advances through versions; the index shows, *)
(* for a key, nothing (0) or a version the owner has had, whole.  A        *)
(* refresh changes any number of keys in one step.  The index may lag and, *)
(* when refreshes overlap, go back; it never shows what the owner never    *)
(* had.                                                                    *)
(***************************************************************************)
EXTENDS Naturals

CONSTANT Keys

VARIABLES truth,        \* the owner's version of a key, 0 before the first
          copy          \* the version the index shows, 0 for none

Init ==
  /\ truth = [k \in Keys |-> 0]
  /\ copy = [k \in Keys |-> 0]

Advance ==
  /\ \E k \in Keys : truth' = [truth EXCEPT ![k] = @ + 1]
  /\ UNCHANGED copy

Refresh ==
  /\ DOMAIN copy' = Keys
  /\ \A k \in Keys : copy'[k] \in 0..truth[k]
  /\ UNCHANGED truth

Next == Advance \/ Refresh

Spec == Init /\ [][Next]_<<truth, copy>>
=============================================================================
