---------------------------- MODULE MCConfigStore ----------------------------
(***************************************************************************)
(* The configuration store for TLC: the accounts in memory and the files    *)
(* share no state that either tells apart, so a behaviour exercises one of   *)
(* the two, which part says.                                                *)
(***************************************************************************)
EXTENDS Accounts, ConfigFiles, TLC

CONSTANTS u1, u2, r1, r2

TwoUsers == <<u1, u2>>
RequestSymmetry == Permutations({r1, r2})

Do(ops) == [ops |-> ops, lateDelete |-> FALSE, doubleAdd |-> FALSE, overlapSave |-> FALSE]

SomeUses ==
  { Do({"save"}), [Do({"save"}) EXCEPT !.overlapSave = TRUE],
    Do({"update", "config"}), Do({"status"}), Do({"update", "add"}), Do({"config", "add"}),
    [Do({"config"}) EXCEPT !.lateDelete = TRUE], [Do({"add"}) EXCEPT !.lateDelete = TRUE],
    [Do({"add"}) EXCEPT !.doubleAdd = TRUE] }

After(inPlace, lists) ==
  [inPlace |-> inPlace, lists |-> lists, legacy |-> FALSE, incomplete |-> FALSE,
   faults |-> FALSE, crashes |-> FALSE]

SomeHistories ==
  { [After({{"server", "sites"}, {"ftp"}}, {"ftp"}) EXCEPT !.faults = TRUE, !.crashes = TRUE],
    [After({{"server"}}, {"dns", "sites"}) EXCEPT !.legacy = TRUE],
    [After({{"server"}}, {"quick"}) EXCEPT !.incomplete = TRUE, !.faults = TRUE] }

VARIABLE part

Init ==
  /\ part \in {"accounts", "files"}
  /\ AccInit /\ (part = "files" => use = CHOOSE u \in SomeUses : TRUE)
  /\ ConfigInit /\ (part = "accounts" => hist = CHOOSE h \in SomeHistories : TRUE)

Next ==
  \/ part = "accounts" /\ AccNext /\ UNCHANGED <<configVars, part>>
  \/ part = "files" /\ ConfigNext /\ UNCHANGED <<accVars, part>>

Spec == Init /\ [][Next]_<<accVars, configVars, part>>

(* Every variable of the two modules has a value of its type. *)
TypeOK == AccTypeOK /\ ConfigTypeOK
=============================================================================
