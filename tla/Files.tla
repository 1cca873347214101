-------------------------------- MODULE Files --------------------------------
(***************************************************************************)
(* The file manager of the panel and its trash (panel/api_file.go,          *)
(* panel/api_trash.go, file/operations.go).  The handlers take no lock and  *)
(* the only state is the file system: requests interleave between its       *)
(* calls.  Moving to the trash and restoring from it take several calls,    *)
(* the other operations are one step each.                                  *)
(*                                                                          *)
(* A file or a directory is its kind and the set of contents in it, so that *)
(* a directory may be copied or removed in part.  A path is a name: none    *)
(* lies inside another.  Far are the paths on another device than .trash,   *)
(* between which rename fails with a cross-device error.                    *)
(***************************************************************************)
EXTENDS FiniteSets

CONSTANTS
  Paths,      \* the paths clients name
  NoPath,
  Far,        \* the paths on another device than .trash
  Recovered,  \* the path with "_已恢复" in its name, of each path clients delete
  Contents,
  FirstTree,  \* what the paths hold when the model starts
  Nothing,    \* what a path holds that does not exist
  Entries,    \* the identifiers of moveToTrash
  NoEntry,
  Clients,    \* the requests that may be in flight together
  FileUses    \* the environments: see FileUseType

Careless == {"samePath", "ontoItself", "twice"}
Faults == {"copy", "remove", "meta", "crash"}
FileOps == {"store", "mkdir", "rename", "copy"}

(* ops: what clients do besides deleting and restoring.                     *)
(* careless: requests that concern one path overlap, a file is copied onto  *)
(* itself, a file is restored although its "_已恢复" name is taken.  faults: *)
(* a copy, a removal or the writing of .meta.json fails, the panel dies.    *)
FileUseType ==
  [ops : SUBSET FileOps, careless : SUBSET Careless, faults : SUBSET Faults]

Item == [dir : BOOLEAN, has : SUBSET Contents]

ASSUME FilePathsAreTyped ==
  /\ Far \subseteq Paths /\ NoPath \notin Paths /\ NoEntry \notin Entries
  /\ DOMAIN Recovered \subseteq Paths
  /\ \A p \in DOMAIN Recovered : Recovered[p] \in Paths /\ (Recovered[p] \in Far <=> p \in Far)
  /\ Nothing \notin Item /\ FirstTree \in [Paths -> Item \cup {Nothing}]
ASSUME FileUsesAreTyped == FileUses \subseteq FileUseType

VARIABLES
  tree,       \* what each path holds
  trash,      \* the entries of .trash: item, and original path of .meta.json
  work,       \* what each request of several calls does
  stored,     \* the contents clients have stored
  discarded,  \* those that went because a client overwrote or purged them
  fileUse

fileVars == <<tree, trash, work, stored, discarded, fileUse>>

Entry == [state : {"unused", "there", "gone"}, item : Item \cup {Nothing},
          meta : Paths \cup {NoPath}]
Removed == [state |-> "gone", item |-> Nothing, meta |-> NoPath]
Free == [at |-> "idle", path |-> NoPath, to |-> NoPath, entry |-> NoEntry]

FileTypeOK ==
  /\ tree \in [Paths -> Item \cup {Nothing}]
  /\ trash \in [Entries -> Entry]
  /\ work \in [Clients -> [at : {"idle", "rename", "copy", "remove", "meta", "place", "clean"},
                           path : Paths \cup {NoPath}, to : Paths \cup {NoPath},
                           entry : Entries \cup {NoEntry}]]
  /\ stored \subseteq Contents /\ discarded \subseteq Contents
  /\ fileUse \in FileUses

HeldBy(items) == UNION {i.has : i \in items \ {Nothing}}
InTree == HeldBy({tree[p] : p \in Paths})
InTrash == HeldBy({trash[e].item : e \in Entries})

FileInit ==
  /\ tree = FirstTree
  /\ trash = [e \in Entries |-> [Removed EXCEPT !.state = "unused"]]
  /\ work = [k \in Clients |-> Free]
  /\ stored = InTree /\ discarded = {}
  /\ fileUse \in FileUses

Fault(f) == f \in fileUse.faults
Doing(k, step) == work[k].at = step
Then(k, step) == work' = [work EXCEPT ![k].at = step]
Done(k) == work' = [work EXCEPT ![k] = Free]

(* Without overlaps a client leaves alone the paths of a request in flight. *)
Claimed == UNION {{work[k].path, work[k].to} : k \in Clients}
Unclaimed(ps) == "samePath" \in fileUse.careless \/ ps \cap Claimed = {}

(* What is nowhere any more was given up by the client that makes this step. *)
Discard == discarded' = discarded \cup ((InTree \cup InTrash) \ (InTree' \cup InTrash'))

-----------------------------------------------------------------------------
(* The operations of one call.  rename replaces a file and an empty         *)
(* directory; a copy replaces a file and adds to a directory.               *)
Renames(new, old) ==
  old # Nothing => new.dir = old.dir /\ (old.dir => old.has = {})
Copies(new, old) == old # Nothing => new.dir = old.dir
Copied(new, old) ==
  IF old # Nothing /\ old.dir THEN [new EXCEPT !.has = @ \cup old.has] ELSE new

(* A file is created or emptied, and written.                               *)
Put(p, cs) ==
  /\ Unclaimed({p})
  /\ tree[p] # Nothing => ~ tree[p].dir
  /\ tree' = [tree EXCEPT ![p] = [dir |-> FALSE, has |-> cs]]
  /\ stored' = stored \cup cs
  /\ UNCHANGED <<trash, work, fileUse>>
  /\ Discard

(* saveFileContent and uploadFileWithPath store a content, touchFile, which *)
(* creates the file without a look at what is there, none.                  *)
Save(p, c) == c \notin stored /\ Put(p, {c})
Upload(p, c) == c \notin stored /\ Put(p, {c})
Touch(p) == Put(p, {})

(* mkdir succeeds on a directory that exists.                               *)
Mkdir(p) ==
  /\ Unclaimed({p}) /\ tree[p] = Nothing
  /\ tree' = [tree EXCEPT ![p] = [dir |-> TRUE, has |-> {}]]
  /\ UNCHANGED <<trash, work, stored, discarded, fileUse>>

(* renameFile, and moveFile to another directory: os.Rename, which replaces *)
(* what it can.                                                             *)
Rename(p, q) ==
  /\ p # q /\ Unclaimed({p, q}) /\ tree[p] # Nothing
  /\ p \in Far <=> q \in Far
  /\ Renames(tree[p], tree[q])
  /\ tree' = [tree EXCEPT ![p] = Nothing, ![q] = tree[p]]
  /\ UNCHANGED <<trash, work, stored, fileUse>>
  /\ Discard

Move(p, q) == Rename(p, q)

(* copyFile creates the destination before it reads: of a file that is its  *)
(* own destination nothing is left to read.                                 *)
Copy(p, q) ==
  /\ Unclaimed({p, q}) /\ tree[p] # Nothing
  /\ IF p = q
       THEN /\ "ontoItself" \in fileUse.careless
            /\ tree' = [tree EXCEPT ![p].has = {}]
            /\ UNCHANGED <<trash, discarded>>
       ELSE /\ Copies(tree[p], tree[q])
            /\ \E part \in {tree[p].has} \cup (IF Fault("copy") THEN SUBSET tree[p].has ELSE {}) :
                 tree' = [tree EXCEPT ![q] = Copied([tree[p] EXCEPT !.has = part], @)]
            /\ UNCHANGED trash /\ Discard
  /\ UNCHANGED <<work, stored, fileUse>>

-----------------------------------------------------------------------------
(* moveToTrash: a directory of its own for the entry, then the move.        *)
Delete(k, p, e) ==
  /\ Doing(k, "idle") /\ Unclaimed({p})
  /\ trash[e].state = "unused"
  /\ trash' = [trash EXCEPT ![e].state = "there"]
  /\ work' = [work EXCEPT ![k] = [at |-> "rename", path |-> p, to |-> NoPath, entry |-> e]]
  /\ UNCHANGED <<tree, stored, discarded, fileUse>>

Abandon(k) ==
  /\ trash' = [trash EXCEPT ![work[k].entry] = Removed]
  /\ Done(k)

MoveToTrash(k) ==
  /\ Doing(k, "rename")
  /\ LET p == work[k].path  e == work[k].entry IN
     \/ /\ tree[p] = Nothing \/ trash[e].state = "gone"
        /\ Abandon(k) /\ UNCHANGED tree
     \/ /\ tree[p] # Nothing /\ trash[e].state = "there" /\ p \notin Far
        /\ trash' = [trash EXCEPT ![e].item = tree[p]]
        /\ tree' = [tree EXCEPT ![p] = Nothing]
        /\ Then(k, "meta")
     \/ /\ tree[p] # Nothing /\ trash[e].state = "there" /\ p \in Far
        /\ Then(k, "copy") /\ UNCHANGED <<tree, trash>>
  /\ UNCHANGED <<stored, discarded, fileUse>>

(* copyRecursive, which makes the directory of the entry again for a        *)
(* directory, not for a file, if the trash was cleared meanwhile.           *)
CopyToTrash(k) ==
  /\ Doing(k, "copy")
  /\ LET p == work[k].path  e == work[k].entry IN
     \/ /\ tree[p] # Nothing /\ (trash[e].state = "there" \/ tree[p].dir)
        /\ trash' = [trash EXCEPT ![e].state = "there", ![e].item = tree[p]]
        /\ Then(k, "remove")
     \/ /\ tree[p] = Nothing \/ trash[e].state = "gone" \/ Fault("copy")
        /\ Abandon(k)
  /\ UNCHANGED <<tree, stored, discarded, fileUse>>

(* The original goes when the copy is complete; should that fail the copy   *)
(* goes instead, whatever RemoveAll removed before it failed.  A copy that  *)
(* was purged meanwhile was given up by the client that did.                *)
RemoveOriginal(k) ==
  /\ Doing(k, "remove")
  /\ LET p == work[k].path  e == work[k].entry IN
     \/ /\ tree' = [tree EXCEPT ![p] = Nothing]
        /\ Then(k, "meta")
        /\ UNCHANGED trash
        /\ IF trash[e].state = "gone" THEN Discard ELSE UNCHANGED discarded
     \/ /\ Fault("remove") /\ tree[p] # Nothing
        /\ \E left \in SUBSET tree[p].has : tree' = [tree EXCEPT ![p].has = left]
        /\ Abandon(k) /\ UNCHANGED discarded
  /\ UNCHANGED <<stored, fileUse>>

(* .meta.json comes last, and the request succeeds without it.              *)
WriteMeta(k) ==
  /\ Doing(k, "meta")
  /\ LET e == work[k].entry IN
     \/ trash[e].state = "there" /\ trash' = [trash EXCEPT ![e].meta = work[k].path]
     \/ (trash[e].state = "gone" \/ Fault("meta")) /\ UNCHANGED trash
  /\ Done(k)
  /\ UNCHANGED <<tree, stored, discarded, fileUse>>

-----------------------------------------------------------------------------
(* Mutant: what has the name of the restored file meanwhile is replaced. *)
OriginalPath(p) == p

(* The destination of restoreTrash, chosen before anything is moved.        *)
RestoredTo(p) == IF tree[p] = Nothing THEN p ELSE Recovered[p]

Restore(k, e) ==
  /\ Doing(k, "idle")
  /\ trash[e].meta # NoPath /\ trash[e].item # Nothing
  /\ LET p == trash[e].meta IN
       /\ Unclaimed({p, Recovered[p]})
       /\ "twice" \in fileUse.careless \/ Nothing \in {tree[p], tree[Recovered[p]]}
       /\ work' = [work EXCEPT ![k] = [at |-> "place", path |-> p, to |-> RestoredTo(p),
                                       entry |-> e]]
  /\ UNCHANGED <<tree, trash, stored, discarded, fileUse>>

Place(k) ==
  /\ Doing(k, "place")
  /\ LET to == work[k].to  e == work[k].entry  item == trash[e].item IN
     \/ /\ item # Nothing /\ to \notin Far /\ Renames(item, tree[to])
        /\ tree' = [tree EXCEPT ![to] = item]
        /\ trash' = [trash EXCEPT ![e].item = Nothing]
        /\ Then(k, "clean")
     \/ /\ item # Nothing /\ to \in Far /\ Copies(item, tree[to])
        /\ tree' = [tree EXCEPT ![to] = Copied(item, @)]
        /\ Then(k, "clean") /\ UNCHANGED trash
     \/ /\ item # Nothing /\ to \in Far /\ Copies(item, tree[to]) /\ Fault("copy")
        /\ \E part \in SUBSET item.has :
             tree' = [tree EXCEPT ![to] = Copied([item EXCEPT !.has = part], @)]
        /\ Done(k) /\ UNCHANGED trash
     \/ /\ item = Nothing \/ ~ (IF to \in Far THEN Copies(item, tree[to]) ELSE Renames(item, tree[to]))
        /\ Done(k) /\ UNCHANGED <<tree, trash>>
  /\ UNCHANGED <<stored, discarded, fileUse>>

RemoveEntry(k) ==
  /\ Doing(k, "clean")
  /\ Abandon(k)
  /\ UNCHANGED <<tree, stored, discarded, fileUse>>

(* permanentDeleteTrash, and clearTrash, which removes .trash itself.       *)
Purge(es) ==
  /\ \E e \in es : trash[e].state = "there"
  /\ trash' = [e \in Entries |-> IF e \in es /\ trash[e].state = "there" THEN Removed ELSE trash[e]]
  /\ UNCHANGED <<tree, work, stored, fileUse>>
  /\ Discard

PermanentDelete(e) == Purge({e})
ClearTrash == Purge(Entries)

(* The panel dies with its requests; the file system stays as it is.        *)
Die ==
  /\ Fault("crash")
  /\ work' = [k \in Clients |-> Free]
  /\ UNCHANGED <<tree, trash, stored, discarded, fileUse>>

FileNext ==
  \/ "store" \in fileUse.ops /\ \E p \in Paths, c \in Contents : Save(p, c) \/ Upload(p, c)
  \/ "store" \in fileUse.ops /\ \E p \in Paths : Touch(p)
  \/ "mkdir" \in fileUse.ops /\ \E p \in Paths : Mkdir(p)
  \/ "rename" \in fileUse.ops /\ \E p, q \in Paths : Rename(p, q) \/ Move(p, q)
  \/ "copy" \in fileUse.ops /\ \E p, q \in Paths : Copy(p, q)
  \/ \E k \in Clients, p \in DOMAIN Recovered, e \in Entries : Delete(k, p, e)
  \/ \E k \in Clients : MoveToTrash(k) \/ CopyToTrash(k) \/ RemoveOriginal(k) \/ WriteMeta(k)
  \/ \E k \in Clients, e \in Entries : Restore(k, e)
  \/ \E k \in Clients : Place(k) \/ RemoveEntry(k)
  \/ \E e \in Entries : PermanentDelete(e)
  \/ ClearTrash
  \/ Die

FileSpec == FileInit /\ [][FileNext]_fileVars

-----------------------------------------------------------------------------
(* What listTrash shows and restoreTrash finds, and what is on its way.     *)
Restorable ==
  HeldBy({trash[e].item : e \in {x \in Entries :
            trash[x].meta # NoPath \/ \E k \in Clients : work[k].entry = x}})

(***************************************************************************)
(* What a client stored is at some path or can be restored from the trash   *)
(* until a client overwrites it or purges it, although neither moving to    *)
(* the trash nor restoring is one step and both may fail half way: when     *)
(* every original that was copied to the trash can be removed, no two       *)
(* requests concern one path and no restore meets two files in its way.     *)
(* After a crash or without its .meta.json it is still on the disk, though  *)
(* the panel may not show it any more (moveToTrash, restoreTrash).          *)
(***************************************************************************)
NothingLost ==
  fileUse.careless = {} /\ ~ Fault("remove") =>
    stored \subseteq discarded \cup InTree
                       \cup (IF Fault("crash") \/ Fault("meta") THEN InTrash ELSE Restorable)
=============================================================================
