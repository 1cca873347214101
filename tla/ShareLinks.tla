----------------------------- MODULE ShareLinks -----------------------------
(***************************************************************************)
(* The shared links of the panel (panel/api_file.go): ShareService keeps    *)
(* the links in a map under an RWMutex and writes all of them to            *)
(* shares.json after each change.  A save takes its snapshot under the      *)
(* read lock and writes the file outside it, so that the saves of two       *)
(* requests may overlap.                                                    *)
(*                                                                          *)
(* A link is its token; what it points to, its password and the checks      *)
(* that only refuse a request are left out, DownloadCount is kept.  A       *)
(* critical section that calls nothing is one step.  cleanExpired is the    *)
(* one that calls, so holder is the only trace of the lock between steps.   *)
(***************************************************************************)
EXTENDS Naturals, FiniteSets

CONSTANTS
  Tokens,        \* what generateShareToken returns
  Visitors,      \* the requests that may be in flight together
  NoVisitor,
  NoToken,
  MaxDownloads,  \* bound of the downloads of a link
  MaxRestarts,   \* bound of the restarts of the panel
  ShareUses      \* the environments: see ShareUseType

ShareOps == {"share", "info", "page", "download", "list", "delete"}

(* ops: the requests clients make; overlap: saves may overlap; faults: the  *)
(* file may be impossible to write; midSave: the panel may be killed while  *)
(* it writes the file.                                                      *)
ShareUseType ==
  [ops : SUBSET ShareOps, overlap : BOOLEAN, faults : BOOLEAN, midSave : BOOLEAN]

ASSUME ShareUsesAreTyped == ShareUses \subseteq ShareUseType
ASSUME NoVisitorIsNone == NoVisitor \notin Visitors
ASSUME NoTokenIsNone == NoToken \notin Tokens
ASSUME ShareBoundsAreNaturals == MaxDownloads \in Nat /\ MaxRestarts \in Nat

VARIABLES
  links,      \* the tokens in ShareService.links
  downloads,  \* DownloadCount of the link of a token
  holder,     \* who holds ShareService.mu for writing across a call
  shares,     \* shares.json: its links, FALSE in whole when it does not parse
  visit,      \* what each request does: operation, next step, token, snapshot
  expired,    \* the tokens whose ExpiresAt is past
  told,       \* tokens a client was given
  asked,      \* tokens a client asked to delete
  dropped,    \* tokens a client was told are deleted
  restarts,
  shareUse

shareVars == <<links, downloads, holder, shares, visit, expired, told, asked,
               dropped, restarts, shareUse>>

SharesFile == [whole : BOOLEAN, links : SUBSET Tokens]
Resting == [op |-> "none", at |-> "idle", token |-> NoToken, seen |-> {}]

ShareTypeOK ==
  /\ links \subseteq Tokens
  /\ downloads \in [Tokens -> 0..MaxDownloads]
  /\ holder \in Visitors \cup {NoVisitor}
  /\ shares \in SharesFile
  /\ visit \in [Visitors ->
       [op : ShareOps \cup {"none"},
        at : {"idle", "add", "look", "check", "count", "drop", "clean", "read",
              "save", "open", "write"},
        token : Tokens \cup {NoToken}, seen : SUBSET Tokens]]
  /\ expired \subseteq Tokens
  /\ told \subseteq Tokens /\ asked \subseteq Tokens /\ dropped \subseteq Tokens
  /\ restarts \in 0..MaxRestarts
  /\ shareUse \in ShareUses

(* The panel starts without a shares.json.                                  *)
ShareInit ==
  /\ links = {} /\ downloads = [t \in Tokens |-> 0]
  /\ holder = NoVisitor
  /\ shares = [whole |-> TRUE, links |-> {}]
  /\ visit = [v \in Visitors |-> Resting]
  /\ expired = {} /\ told = {} /\ asked = {} /\ dropped = {}
  /\ restarts = 0
  /\ shareUse \in ShareUses

At(v, step) == visit[v].at = step
Goto(v, step) == visit' = [visit EXCEPT ![v].at = step]
Unlocked == holder = NoVisitor
Known == links \cup expired \cup told \cup shares.links

(* The answer of a request tells its client what became of the token.       *)
Answer(v) ==
  /\ visit' = [visit EXCEPT ![v] = Resting]
  /\ told' = IF visit[v].op = "share" THEN told \cup {visit[v].token} ELSE told
  /\ dropped' = IF visit[v].op = "delete" THEN dropped \cup {visit[v].token} ELSE dropped

-----------------------------------------------------------------------------
(* The handlers.  A new link has a token nobody has seen.                   *)
FirstStep(op) == CASE op = "share" -> "add" [] op = "delete" -> "drop"
                   [] op = "list" -> "clean" [] OTHER -> "look"

Visit(v, op, t) ==
  /\ At(v, "idle")
  /\ CASE op = "share" -> t \in Tokens \ (Known \cup asked) /\ \A w \in Visitors : visit[w].token # t
       [] op = "list" -> t = NoToken
       [] OTHER -> t \in Known
  /\ visit' = [visit EXCEPT ![v] = [op |-> op, at |-> FirstStep(op), token |-> t, seen |-> {}]]
  /\ asked' = IF op = "delete" THEN asked \cup {t} ELSE asked
  /\ UNCHANGED <<links, downloads, holder, shares, expired, told, dropped, restarts, shareUse>>

(* shareFile stores the link, then saves.                                   *)
Add(v) ==
  /\ At(v, "add") /\ Unlocked
  /\ links' = links \cup {visit[v].token}
  /\ Goto(v, "save")
  /\ UNCHANGED <<downloads, holder, shares, expired, told, asked, dropped, restarts, shareUse>>

(* getShareInfo and downloadSharedFile look the link up and keep the        *)
(* pointer when they release the lock.                                      *)
Look(v) ==
  /\ At(v, "look") /\ Unlocked /\ visit[v].op # "page"
  /\ IF visit[v].token \in links
       THEN Goto(v, "check") /\ UNCHANGED <<told, dropped>>
       ELSE Answer(v)
  /\ UNCHANGED <<links, downloads, holder, shares, expired, asked, restarts, shareUse>>

(* serveSharePage shows the link or that it has expired, and leaves it.     *)
ShowPage(v) ==
  /\ At(v, "look") /\ Unlocked /\ visit[v].op = "page"
  /\ Answer(v)
  /\ UNCHANGED <<links, downloads, holder, shares, expired, asked, restarts, shareUse>>

Check(v) ==
  /\ At(v, "check")
  /\ \/ visit[v].token \in expired /\ Goto(v, "drop") /\ UNCHANGED <<told, dropped>>
     \/ visit[v].token \notin expired /\ visit[v].op = "download"
          /\ Goto(v, "count") /\ UNCHANGED <<told, dropped>>
     \/ visit[v].token \notin expired /\ Answer(v)  \* also a download that is refused
  /\ UNCHANGED <<links, downloads, holder, shares, expired, asked, restarts, shareUse>>

Count(v) ==
  /\ At(v, "count") /\ Unlocked
  /\ downloads[visit[v].token] < MaxDownloads
  /\ downloads' = [downloads EXCEPT ![visit[v].token] = @ + 1]
  /\ Answer(v)
  /\ UNCHANGED <<links, holder, shares, expired, asked, restarts, shareUse>>

(* Mutant: the link leaves the map and the file is not written. *)
DropUnsaved(v) ==
  /\ At(v, "drop") /\ Unlocked
  /\ links' = links \ {visit[v].token}
  /\ Answer(v)
  /\ UNCHANGED <<downloads, holder, shares, expired, asked, restarts, shareUse>>

(* deleteShareLink, and the two readers that find the link expired.         *)
Drop(v) ==
  /\ At(v, "drop") /\ Unlocked
  /\ links' = links \ {visit[v].token}
  /\ Goto(v, "save")
  /\ UNCHANGED <<downloads, holder, shares, expired, told, asked, dropped, restarts, shareUse>>

(* cleanExpired keeps the lock while it calls save, whose read lock has to  *)
(* wait for it: from then on no step that needs the lock is possible.       *)
CleanExpired(v) ==
  /\ At(v, "clean") /\ Unlocked
  /\ links' = links \ expired
  /\ IF links \cap expired = {}
       THEN Goto(v, "read") /\ UNCHANGED holder
       ELSE Goto(v, "save") /\ holder' = v
  /\ UNCHANGED <<downloads, shares, expired, told, asked, dropped, restarts, shareUse>>

List(v) ==
  /\ At(v, "read") /\ Unlocked
  /\ Answer(v)
  /\ UNCHANGED <<links, downloads, holder, shares, expired, asked, restarts, shareUse>>

-----------------------------------------------------------------------------
(* save.  WriteFile truncates the file it opens and then writes.  When      *)
(* another save has written meanwhile, what is left of the longer text      *)
(* makes the file unreadable.                                               *)
Saving(v) == visit[v].at \in {"open", "write"}

Snapshot(v) ==
  /\ At(v, "save") /\ Unlocked
  /\ shareUse.overlap \/ \A w \in Visitors : ~ Saving(w)
  /\ visit' = [visit EXCEPT ![v] = [@ EXCEPT !.at = "open", !.seen = links]]
  /\ UNCHANGED <<links, downloads, holder, shares, expired, told, asked, dropped, restarts, shareUse>>

Open(v) ==
  /\ At(v, "open")
  /\ shares' = [whole |-> FALSE, links |-> {}]
  /\ Goto(v, "write")
  /\ UNCHANGED <<links, downloads, holder, expired, told, asked, dropped, restarts, shareUse>>

WriteShares(v) ==
  /\ At(v, "write")
  /\ \E whole \in {TRUE} \cup (IF shares.links = {} THEN {} ELSE {FALSE}) :
       shares' = [whole |-> whole, links |-> visit[v].seen]
  /\ Answer(v)
  /\ UNCHANGED <<links, downloads, holder, expired, asked, restarts, shareUse>>

(* An error of save is logged and the request answers as if it had saved.   *)
SaveFails(v) ==
  /\ Saving(v) /\ shareUse.faults
  /\ Answer(v)
  /\ UNCHANGED <<links, downloads, holder, shares, expired, asked, restarts, shareUse>>

-----------------------------------------------------------------------------
Expire(t) ==
  /\ t \in links \cup shares.links /\ t \notin expired
  /\ expired' = expired \cup {t}
  /\ UNCHANGED <<links, downloads, holder, shares, visit, told, asked, dropped, restarts, shareUse>>

(* A kill or a stop of the panel, and load when it starts again: the links  *)
(* of the file that have not expired.  A file that does not parse is        *)
(* logged and counts as empty.                                              *)
Restart ==
  /\ restarts < MaxRestarts
  /\ shareUse.midSave \/ \A v \in Visitors : ~ At(v, "write")
  /\ links' = IF shares.whole THEN shares.links \ expired ELSE {}
  /\ downloads' = [t \in Tokens |-> 0]
  /\ holder' = NoVisitor
  /\ visit' = [v \in Visitors |-> Resting]
  /\ restarts' = restarts + 1
  /\ UNCHANGED <<shares, expired, told, asked, dropped, shareUse>>

ShareStep(v) ==
  \/ Add(v) \/ Look(v) \/ ShowPage(v) \/ Check(v) \/ Count(v) \/ Drop(v) \/ CleanExpired(v)
  \/ List(v) \/ Snapshot(v) \/ Open(v) \/ WriteShares(v) \/ SaveFails(v)

ShareNext ==
  \/ \E v \in Visitors : ShareStep(v)
  \/ \E v \in Visitors, op \in shareUse.ops, t \in Tokens \cup {NoToken} : Visit(v, op, t)
  \/ \E t \in Tokens : Expire(t)
  \/ Restart

(* A request the panel has accepted runs on: a goroutine that can take its  *)
(* next step takes it.                                                      *)
ShareFairness == \A v \in Visitors : WF_shareVars(ShareStep(v))

ShareSpec == ShareInit /\ [][ShareNext]_shareVars
ShareFairSpec == ShareSpec /\ ShareFairness

-----------------------------------------------------------------------------
(***************************************************************************)
(* A link a client was given works until it expires or somebody asks to     *)
(* delete it, and one that a client was told is deleted does not come back, *)
(* through any number of restarts: as long as no two saves overlap, the     *)
(* file can be written and the panel is not killed while it writes it       *)
(* (shareFile, deleteShareLink, save and load).                             *)
(***************************************************************************)
SharesKept ==
  ~ shareUse.overlap /\ ~ shareUse.faults /\ ~ shareUse.midSave =>
    /\ told \ (asked \cup expired) \subseteq links
    /\ dropped \cap links = {}

(***************************************************************************)
(* A request for the list of the links is answered: cleanExpired removes    *)
(* the expired links (清理过期链接) before the rest are listed.             *)
(***************************************************************************)
ListIsAnswered ==
  \A v \in Visitors : At(v, "clean") ~> At(v, "idle")
=============================================================================
