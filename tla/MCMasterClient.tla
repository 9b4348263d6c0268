--------------------------- MODULE MCMasterClient ---------------------------
(* Instances of MasterClient for TLC. *)
EXTENDS MasterClient, TLC

(* A tree of two directories whose listings echo themselves and the root. *)
EchoListing == [d \in {"root", "sub"} |-> {"root", "sub"}]

FairSpec == Spec /\ Fairness
============================================================================
