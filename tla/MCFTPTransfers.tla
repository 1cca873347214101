---------------------------- MODULE MCFTPTransfers ----------------------------
(* Two sessions for TLC: data connections of one, uploads of both, the panel. *)
EXTENDS FTPTransfers, TLC

CONSTANTS s1, s2, n1, n2, n3

Use(names1, names2, opens1, opens2) ==
  [names |-> s1 :> names1 @@ s2 :> names2, opens |-> s1 :> opens1 @@ s2 :> opens2,
   active |-> FALSE, slow |-> FALSE, panel |-> {}, files |-> {}]

TransferUses ==
  { [Use({}, {}, 3, 0) EXCEPT !.slow = TRUE, !.active = TRUE],
    [Use({n1, n2}, {}, 1, 0) EXCEPT !.files = {n1}],
    [Use({n1, n2}, {n2, n3}, 0, 0) EXCEPT !.active = TRUE],
    [Use({n1}, {n2}, 0, 0) EXCEPT !.panel = {n2}, !.active = TRUE],
    [Use({n1}, {}, 0, 0) EXCEPT !.panel = {n1, n2}, !.active = TRUE] }
=============================================================================
