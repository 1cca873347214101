---------------------------- MODULE MCShareLinks ----------------------------
(***************************************************************************)
(* The shared links alone, under the fairness of their requests, with one   *)
(* link and nothing that goes wrong but its expiry.                         *)
(***************************************************************************)
EXTENDS ShareLinks

CalmShares == {[ops |-> ShareOps, overlap |-> FALSE, faults |-> FALSE, midSave |-> FALSE]}
=============================================================================
