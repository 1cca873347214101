------------------------------- MODULE MCPanel -------------------------------
(***************************************************************************)
(* The services of the panel that keep their own state, for TLC: they share *)
(* no variable, so that a behaviour exercises one of them, which part says. *)
(***************************************************************************)
EXTENDS Files, ShareLinks, Uploads, Scripts, LogFiles, TLC

CONSTANTS near, nearR, far, farR, e1, e2, c1, c2, c3, r1, r2, t1, t2, p1, p2

RequestsAreAlike == Permutations({r1, r2})

\* near is a file beside the trash, far a directory on another device.
SomeNames == near :> nearR @@ far :> farR
SomeTree ==
  (near :> [dir |-> FALSE, has |-> {c1}]) @@ (far :> [dir |-> TRUE, has |-> {c2}])
    @@ (nearR :> Nothing) @@ (farR :> Nothing)

Manage(ops, careless, faults) == [ops |-> ops, careless |-> careless, faults |-> faults]
SomeFileUses ==
  {Manage({"store", "rename"}, {}, {}), Manage({"copy", "mkdir"}, {}, {"copy", "meta", "crash"}),
   Manage({"copy"}, {"ontoItself"}, {"remove"})}

Share(ops, faults) == [ops |-> ops, overlap |-> FALSE, faults |-> faults, midSave |-> FALSE]
SomeShareUses ==
  {Share({"share", "info", "list", "delete"}, FALSE), Share({"share", "download", "page"}, TRUE)}

Receive(w) == [overlap |-> "overlap" \in w, again |-> "again" \in w,
               resume |-> "resume" \in w, full |-> "full" \in w]
SomeUploadUses == {Receive({"resume"}), Receive({"overlap", "again", "resume", "full"})}

SomeScriptUses == {[pidReuse |-> on, restart |-> on] : on \in BOOLEAN}

VARIABLE part

Init ==
  /\ part \in {"files", "shares", "uploads", "scripts", "logs"}
  /\ FileInit /\ (part # "files" => fileUse = CHOOSE u \in FileUses : TRUE)
  /\ ShareInit /\ (part # "shares" => shareUse = CHOOSE u \in ShareUses : TRUE)
  /\ UploadInit /\ (part # "uploads" => uploadUse = CHOOSE u \in UploadUses : TRUE)
  /\ ScriptInit /\ (part # "scripts" => scriptUse = CHOOSE u \in ScriptUses : TRUE)
  /\ LogInit

Next ==
  \/ /\ part = "files" /\ FileNext
     /\ UNCHANGED <<shareVars, uploadVars, scriptVars, logVars, part>>
  \/ /\ part = "shares" /\ ShareNext
     /\ UNCHANGED <<fileVars, uploadVars, scriptVars, logVars, part>>
  \/ /\ part = "uploads" /\ UploadNext
     /\ UNCHANGED <<fileVars, shareVars, scriptVars, logVars, part>>
  \/ /\ part = "scripts" /\ ScriptNext
     /\ UNCHANGED <<fileVars, shareVars, uploadVars, logVars, part>>
  \/ /\ part = "logs" /\ LogNext
     /\ UNCHANGED <<fileVars, shareVars, uploadVars, scriptVars, part>>

Spec == Init /\ [][Next]_<<fileVars, shareVars, uploadVars, scriptVars, logVars, part>>

(* Every variable of the five modules has a value of its type.              *)
TypeOK == FileTypeOK /\ ShareTypeOK /\ UploadTypeOK /\ ScriptTypeOK /\ LogTypeOK
=============================================================================
