----------------------------- MODULE ConfigFiles -----------------------------
(***************************************************************************)
(* The configuration files of config/config.go: how they are loaded at the  *)
(* start of the program, how the requests of the panel change and save      *)
(* them, and what a failed write or a crash leaves.                         *)
(*                                                                          *)
(* The contents of a file are known by a version, which every change        *)
(* raises.  Most handlers change the configuration in memory first, without *)
(* the lock, and then call Save, which takes the lock and writes four files *)
(* in order, each in place; the methods of ConfigManager that change one    *)
(* list hold the lock throughout and write one file.                        *)
(***************************************************************************)
EXTENDS Integers, Sequences

CONSTANTS
  Savers,      \* the requests of the panel
  MaxVersion,  \* how often a file is changed (a bound)
  MaxCrashes,  \* how often the program crashes (a bound)
  Nobody,
  Histories    \* what happened before and what may happen, see HistoryType

Files == {"server", "sites", "ftp", "dns", "quick"}

HistoryType ==
  [inPlace    : SUBSET SUBSET (Files \ {"quick"}),  \* what handlers change without the lock
   lists      : SUBSET Files,         \* the files whose list is changed under the lock
   legacy     : BOOLEAN,  \* the DNS providers are in server.json, as they used to be
   incomplete : BOOLEAN,  \* server.json lacks a field that has a default
   faults     : BOOLEAN,  \* a write may fail
   crashes    : BOOLEAN]

ASSUME ConfigFilesAssumption ==
  /\ MaxVersion \in Nat \ {0} /\ MaxCrashes \in Nat
  /\ Savers \cap {Nobody, "load", "defaults"} = {} /\ Nobody \notin {"load", "defaults"}
  /\ Histories \subseteq HistoryType

VARIABLES
  proc,      \* the program
  toLoad,    \* the files load has yet to read
  mem,       \* Server, Sites, FTP, DNSProviders, QuickDirs
  file,      \* the state of each file
  last,      \* the version that was last written to it completely
  field,     \* server.json has a field dns_providers
  lacks,     \* server.json lacks a field that has a default
  changed,   \* the versions a request is responsible for, 0 for a file it has not changed
  job,       \* what the holder of the lock has yet to write
  acked,     \* the newest version whose request was answered with success
  crashes,
  hist

configVars == <<proc, toLoad, mem, file, last, field, lacks, changed, job, acked, crashes, hist>>

SaveOrder == <<"server", "sites", "ftp", "dns">>
LoadOrder == <<"server", "sites", "ftp", "dns", "quick">>

Untouched == [f \in Files |-> 0]

(***************************************************************************)
(* who is a request, or load: "load" when a file it needs is missing, whose *)
(* failure stops the start, "defaults" for ensureDefaults.  buf is what was *)
(* marshalled for the file that is open.                                    *)
(***************************************************************************)
Job == [who : Savers \cup {Nobody, "load", "defaults"}, todo : Seq(Files),
        open : BOOLEAN, buf : 0..MaxVersion]

Write(who, todo) == [who |-> who, todo |-> todo, open |-> FALSE, buf |-> 0]
NoJob == Write(Nobody, <<>>)

ConfigTypeOK ==
  /\ proc \in {"down", "loading", "up", "refused"}
  /\ toLoad \in Seq(Files) /\ Len(toLoad) <= Len(LoadOrder)
  /\ mem \in [Files -> 0..MaxVersion] /\ last \in [Files -> 0..MaxVersion]
  /\ acked \in [Files -> 0..MaxVersion]
  /\ file \in [Files -> {"missing", "whole", "torn"}]
  /\ field \in BOOLEAN /\ lacks \in BOOLEAN
  /\ changed \in [Savers -> [Files -> 0..MaxVersion]]
  /\ job \in Job
  /\ crashes \in 0..MaxCrashes /\ hist \in Histories

Free == job = NoJob

-----------------------------------------------------------------------------
(* The start of the program.                                                *)

Start ==
  /\ proc = "down"
  /\ proc' = "loading" /\ toLoad' = LoadOrder
  /\ UNCHANGED <<mem, file, last, field, lacks, changed, job, acked, crashes, hist>>

(***************************************************************************)
(* A file that is there is read; ensureDefaults writes server.json again    *)
(* when it filled something in.  One that is missing gets its defaults and  *)
(* is written; for dns_providers.json the old field of server.json is       *)
(* looked at first, and server.json written without it.                     *)
(***************************************************************************)
LoadFile(f) ==
  /\ proc = "loading" /\ Free /\ toLoad # <<>> /\ Head(toLoad) = f
  /\ IF file[f] = "torn"
     THEN proc' = "refused" /\ UNCHANGED <<toLoad, mem, job>>
     ELSE /\ toLoad' = Tail(toLoad)
          /\ mem' = [mem EXCEPT ![f] =
                       IF file[f] = "whole" THEN last[f]
                       ELSE IF f = "dns" /\ field THEN 1 ELSE 0]
          /\ job' = IF file[f] = "missing"
                    THEN Write("load", IF f = "dns" THEN <<"server", "dns">> ELSE <<f>>)
                    ELSE IF f = "server" /\ lacks THEN Write("defaults", <<f>>)
                    ELSE NoJob
          /\ UNCHANGED proc
  /\ UNCHANGED <<file, last, field, lacks, changed, acked, crashes, hist>>

Loaded ==
  /\ proc = "loading" /\ Free /\ toLoad = <<>>
  /\ proc' = "up"
  /\ UNCHANGED <<toLoad, mem, file, last, field, lacks, changed, job, acked, crashes, hist>>

-----------------------------------------------------------------------------
(* Changes.                                                                 *)

Changes(r, F) ==
  /\ \A f \in F : mem[f] < MaxVersion
  /\ mem' = [f \in Files |-> IF f \in F THEN mem[f] + 1 ELSE mem[f]]
  /\ changed' = [changed EXCEPT ![r] = [f \in Files |-> IF f \in F THEN mem[f] + 1 ELSE 0]]

(***************************************************************************)
(* A handler changes fields of ConfigManager: saveConfig the server and     *)
(* maybe the sites, resetConfig the server, saveFtpPort and the handlers of *)
(* FTP users the FTP configuration.  Then it waits for the lock in Save.    *)
(***************************************************************************)
ChangeInPlace(r, F) ==
  /\ proc = "up" /\ changed[r] = Untouched /\ F \in hist.inPlace
  /\ Changes(r, F)
  /\ UNCHANGED <<proc, toLoad, file, last, field, lacks, job, acked, crashes, hist>>

\* Mutant: Save leaves out the FTP configuration.
SaveWithoutFTP(r) ==
  /\ proc = "up" /\ Free /\ changed[r] # Untouched
  /\ job' = Write(r, <<"server", "sites", "dns">>)
  /\ UNCHANGED <<proc, toLoad, mem, file, last, field, lacks, changed, acked, crashes, hist>>

Save(r) ==
  /\ proc = "up" /\ Free /\ changed[r] # Untouched
  /\ job' = Write(r, SaveOrder)
  /\ UNCHANGED <<proc, toLoad, mem, file, last, field, lacks, changed, acked, crashes, hist>>

(***************************************************************************)
(* The methods that change one list under the lock: those of sites, FTP     *)
(* users, passwords, DNS providers and quick directories.                   *)
(***************************************************************************)
ChangeAndSave(r, f) ==
  /\ proc = "up" /\ Free /\ changed[r] = Untouched /\ f \in hist.lists
  /\ Changes(r, {f})
  /\ job' = Write(r, <<f>>)
  /\ UNCHANGED <<proc, toLoad, file, last, field, lacks, acked, crashes, hist>>

-----------------------------------------------------------------------------
(* saveJSON: marshal, truncate, write.                                      *)

BeginWrite ==
  /\ ~Free /\ ~job.open
  /\ LET f == Head(job.todo) IN
       /\ job' = [job EXCEPT !.open = TRUE, !.buf = mem[f]]
       /\ file' = [file EXCEPT ![f] = "torn"]
  /\ UNCHANGED <<proc, toLoad, mem, last, field, lacks, changed, acked, crashes, hist>>

Newest(m, n) == IF m > n THEN m ELSE n

\* Mutant: what the request changed is written, not what the memory holds under the lock.
EndWriteOwn ==
  /\ ~Free /\ job.open
  /\ LET f == Head(job.todo)
         rest == Tail(job.todo)
         own == job.who \in Savers /\ changed[job.who][f] # 0
     IN /\ file' = [file EXCEPT ![f] = "whole"]
        /\ last' = [last EXCEPT ![f] = IF own THEN changed[job.who][f] ELSE job.buf]
        /\ field' = (field /\ f # "server") /\ lacks' = (lacks /\ f # "server")
        /\ job' = IF rest = <<>> THEN NoJob ELSE Write(job.who, rest)
        /\ IF rest = <<>> /\ job.who \in Savers
           THEN /\ acked' = [g \in Files |-> Newest(acked[g], changed[job.who][g])]
                /\ changed' = [changed EXCEPT ![job.who] = Untouched]
           ELSE UNCHANGED <<acked, changed>>
  /\ UNCHANGED <<proc, toLoad, mem, crashes, hist>>

\* After the last file the lock is released and the request answered.
EndWrite ==
  /\ ~Free /\ job.open
  /\ LET f == Head(job.todo)
         rest == Tail(job.todo)
     IN /\ file' = [file EXCEPT ![f] = "whole"]
        /\ last' = [last EXCEPT ![f] = job.buf]
        /\ field' = (field /\ f # "server") /\ lacks' = (lacks /\ f # "server")
        /\ job' = IF rest = <<>> THEN NoJob ELSE Write(job.who, rest)
        /\ IF rest = <<>> /\ job.who \in Savers
           THEN /\ acked' = [g \in Files |-> Newest(acked[g], changed[job.who][g])]
                /\ changed' = [changed EXCEPT ![job.who] = Untouched]
           ELSE UNCHANGED <<acked, changed>>
  /\ UNCHANGED <<proc, toLoad, mem, crashes, hist>>

(***************************************************************************)
(* The file cannot be opened, or the disk is full: the files that follow    *)
(* are not written and the request is answered with an error; the memory    *)
(* keeps the change.  A start goes on only after ensureDefaults.            *)
(***************************************************************************)
FailWrite ==
  /\ hist.faults /\ ~Free
  /\ job' = NoJob
  /\ IF job.who \in Savers THEN changed' = [changed EXCEPT ![job.who] = Untouched]
     ELSE UNCHANGED changed
  /\ proc' = IF job.who = "load" THEN "refused" ELSE proc
  /\ UNCHANGED <<toLoad, mem, file, last, field, lacks, acked, crashes, hist>>

Crash ==
  /\ hist.crashes /\ crashes < MaxCrashes
  /\ proc \in {"loading", "up", "refused"}
  /\ proc' = "down" /\ toLoad' = <<>>
  /\ crashes' = crashes + 1
  /\ job' = NoJob /\ changed' = [r \in Savers |-> Untouched]
  /\ UNCHANGED <<mem, file, last, field, lacks, acked, hist>>

-----------------------------------------------------------------------------

(* With the providers in server.json, they are the first version of theirs. *)
ConfigInit ==
  /\ hist \in Histories
  /\ proc = "down" /\ toLoad = <<>>
  /\ mem = Untouched /\ changed = [r \in Savers |-> Untouched] /\ job = NoJob
  /\ file = [f \in Files |-> IF f = "server" /\ (hist.legacy \/ hist.incomplete)
                             THEN "whole" ELSE "missing"]
  /\ last = [f \in Files |-> IF f = "dns" /\ hist.legacy THEN 1 ELSE 0]
  /\ acked = last
  /\ field = hist.legacy /\ lacks = hist.incomplete
  /\ crashes = 0

ConfigNext ==
  \/ Start \/ Loaded \/ BeginWrite \/ EndWrite \/ FailWrite \/ Crash
  \/ \E f \in Files : LoadFile(f)
  \/ \E r \in Savers : \/ Save(r)
                       \/ \E F \in hist.inPlace : ChangeInPlace(r, F)
                       \/ \E f \in Files : ChangeAndSave(r, f)

ConfigSpec == ConfigInit /\ [][ConfigNext]_configVars

-----------------------------------------------------------------------------
(***************************************************************************)
(* A change whose request was answered with success is on the disk, and is  *)
(* in effect whenever the program runs, also after a crash: Save writes     *)
(* under the lock what the memory holds then.  The DNS providers that are   *)
(* in server.json at the start count as answered.                           *)
(***************************************************************************)
AckedInEffect ==
  \A f \in Files : last[f] >= acked[f] /\ (proc = "up" => mem[f] >= acked[f])

(***************************************************************************)
(* The store implements its promise: no file goes back to an older version, *)
(* whatever requests and crashes overlap.                                   *)
(***************************************************************************)
Promise == INSTANCE ConfigPromise WITH
             value <- mem, kept <- last, lost <- [f \in Files |-> file[f] = "torn"]
KeepsPromise == Promise!Spec

=============================================================================
