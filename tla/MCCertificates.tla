--------------------------- MODULE MCCertificates ---------------------------
(***************************************************************************)
(* Three domains on two sites for TLC: d1 and d2 have sites of their own,   *)
(* d3 shares that of d1.                                                    *)
(***************************************************************************)
EXTENDS Certificates, TLC

CONSTANTS d1, d2, d3, s1, s2, j1, j2

SomeSites == (d1 :> s1) @@ (d2 :> s2) @@ (d3 :> s1)
JobSymmetry == Permutations({j1, j2})

Do(ops, domains) ==
  [ops |-> ops, domains |-> domains, overlap |-> FALSE, faults |-> FALSE, crash |-> FALSE]

SomeUses ==
  { Do({"api", "deploy"}, {d1, d2}), Do({"file"}, {d1, d2}), Do({"file", "api"}, {d1}),
    Do({"auto", "delete"}, {d1, d2}),
    Do({"upload", "auto", "renew", "delete"}, {d1}),
    Do({"upload", "dns"}, {d1, d3}), Do({"upload", "renew", "file"}, {d1}),
    [Do({"dns", "paste", "delete", "renew"}, {d1}) EXCEPT !.faults = TRUE],
    [Do({"api", "upload"}, {d1}) EXCEPT !.crash = TRUE],
    [Do({"dns", "upload", "auto"}, {d1}) EXCEPT !.overlap = TRUE] }
=============================================================================
