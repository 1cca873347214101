---------------------------- MODULE MCFTPSessions ----------------------------
(* Three connections and two users, who may connect twice and once, for TLC. *)
EXTENDS FTPSessions, TLC

CONSTANTS c1, c2, c3, u1, u2

ConnSymmetry == Permutations({c1, c2, c3})

Limits == {u1 :> 2 @@ u2 :> 1}

Use(relogin, edits, stops, overlap, n) ==
  [relogin |-> relogin, edits |-> edits, stops |-> stops, overlap |-> overlap, loops |-> n]

\* Clients log in again; or are edited; or come and go while starts and stops overlap.
Relogins == {Use(TRUE, {}, FALSE, FALSE, 1)}
SomeUses == {Use(FALSE, {u1}, TRUE, FALSE, 1)} \cup Relogins
              \cup {Use(FALSE, {}, TRUE, overlap, 2) : overlap \in BOOLEAN}
=============================================================================
