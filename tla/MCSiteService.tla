--------------------------- MODULE MCSiteService ---------------------------
(* A panel with two sites, for TLC.                                        *)
EXTENDS SiteService, TLC

CONSTANTS s1, s2, n1, n2, n3

Servers3 == {n1, n2, n3}
ServerSymmetry == Permutations(Servers3)

Disk(a, b) == (s1 :> a) @@ (s2 :> b)
On(p)  == [st |-> "on", port |-> p]
Off(p) == [st |-> "off", port |-> p]

\* Two sites on ports of their own, and two that would share one.
TwoDisks == {Disk(On(8081), On(8082)), Disk(On(8081), Off(8081))}

Use(requests, overlap, repeat, saveFails) ==
  [requests |-> requests, overlap |-> overlap, repeat |-> repeat, saveFails |-> saveFails]

(***************************************************************************)
(* Orderly use, one request at a time and site by site; adding, removing   *)
(* and editing sites; a disk that fails; reloads; and requests about one   *)
(* site that overlap.                                                      *)
(***************************************************************************)
Environments7 ==
  {Use(Lifecycle, "none", FALSE, FALSE),
   Use(Lifecycle, "sites", FALSE, FALSE),
   Use({"create", "delete"}, "none", FALSE, FALSE),
   Use({"update"}, "none", FALSE, FALSE),
   Use({"enable", "delete", "stop"}, "none", FALSE, TRUE),
   Use({"enable", "stop", "svcStart", "reload"}, "none", TRUE, FALSE),
   Use({"enable", "stop", "svcStart", "svcStop"}, "any", FALSE, FALSE)}

\* For the liveness run: two servers, requests about different sites overlap.
DistinctDisk == {Disk(On(8081), Off(8082))}
SiteBySite   == {Use({"enable", "disable", "restart", "svcStart", "svcStop", "svcRestart"},
                     "sites", FALSE, FALSE)}
\* For the deletion run.
StartAndDelete == {Use({"svcStart", "delete"}, "none", FALSE, FALSE)}
=============================================================================
