--------------------------- MODULE MCVhostRouting ---------------------------
(* Three sites, two plain domains and a wildcard, for TLC.                 *)
EXTENDS VhostRouting, TLC

CONSTANTS a, b, c, dA, dB, dW

Site(s, on, domains) == [id |-> s, on |-> on, domains |-> domains]

\* dA and dW are a's, b and c both claim dB.
CoversD == dW :> {dA, dB}
Configs ==
  {Site(a, on, D) : on \in BOOLEAN, D \in {{dA}, {dW}}}
    \cup {Site(s, on, {dB}) : on \in BOOLEAN, s \in {b, c}}

\* The array the file is decoded into is full, or has room for one more.
Arrays2 == <<2, 3>>
Starts  == {<<Site(a, TRUE, {dA}), Site(b, TRUE, {dB})>>, <<Site(b, FALSE, {dB})>>}

Use(requests, overlap, saveFails) ==
  [requests |-> requests, overlap |-> overlap, saveFails |-> saveFails]

Environments4 ==
  {Use({"create", "update", "enable", "disable", "start", "stop", "svcRestart"}, "none", FALSE),
   Use({"update", "enable", "disable", "start", "stop", "svcRestart"}, "sites", FALSE),
   Use({"disable", "create"}, "none", TRUE),
   Use({"delete", "enable", "start", "stop"}, "any", FALSE)}

Deletes == {Use({"delete"}, "none", FALSE)}
=============================================================================
