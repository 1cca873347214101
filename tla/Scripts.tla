------------------------------- MODULE Scripts -------------------------------
(***************************************************************************)
(* The background scripts of the panel (panel/api_file.go): a request       *)
(* starts the process and records it, a goroutine waits for its end and     *)
(* fills in the record, other requests list, read, stop and delete records. *)
(* processManager's lock covers the map and the writes of the goroutine; a  *)
(* stop keeps it while it signals the process, the reader of an output      *)
(* lets it go before it reads the fields.                                   *)
(*                                                                          *)
(* A step under the lock that nothing can observe is one step.  The         *)
(* goroutine's assignments are one step each, because that reader sees them *)
(* in between.  Scripts in the foreground share no state.                   *)
(***************************************************************************)
CONSTANTS
  Procs,        \* the background processes, by the identifier of their record
  NoProc,
  Askers,       \* the requests that may be in flight together
  ScriptUses    \* the environments: see ScriptUseType

ASSUME NamesAreApart == NoProc \notin Procs \cup Askers /\ Procs \cap Askers = {}

(* pidReuse: the system gives a PID that was waited for to another process  *)
(* at once; restart: the panel stops while scripts run.                     *)
ScriptUseType == [pidReuse : BOOLEAN, restart : BOOLEAN]
ASSUME ScriptUsesAreTyped == ScriptUses \subseteq ScriptUseType

VARIABLES
  process,    \* each process, as the system knows it
  record,     \* its bgProcess; listed when processManager has it
  waiter,     \* the goroutine that waits for it
  lock,       \* who holds processManager's lock between steps
  ask,        \* what each request does, and what it has read
  misled,     \* an answer said a script has ended and left out how
  strayKill,  \* a signal reached a process that is no script
  scriptUse

scriptVars == <<process, record, waiter, lock, ask, misled, strayKill, scriptUse>>

View == [running : BOOLEAN, code : BOOLEAN, output : BOOLEAN]
Fresh == [running |-> TRUE, code |-> FALSE, output |-> FALSE]
Silent == [at |-> "idle", proc |-> NoProc, view |-> Fresh]

ScriptTypeOK ==
  /\ process \in [Procs -> {"none", "alive", "dead", "reaped", "reused"}]
  /\ record \in [Procs -> [listed : BOOLEAN, view : View]]
  /\ waiter \in [Procs -> {"none", "wait", "lock", "output", "running", "code"}]
  /\ lock \in Procs \cup Askers \cup {NoProc}
  /\ ask \in [Askers -> [at : {"idle", "record", "running", "code", "output", "term", "kill"},
                         proc : Procs \cup {NoProc}, view : View]]
  /\ misled \in BOOLEAN /\ strayKill \in BOOLEAN
  /\ scriptUse \in ScriptUses

ScriptInit ==
  /\ process = [p \in Procs |-> "none"]
  /\ record = [p \in Procs |-> [listed |-> FALSE, view |-> Fresh]]
  /\ waiter = [p \in Procs |-> "none"]
  /\ lock = NoProc
  /\ ask = [a \in Askers |-> Silent]
  /\ misled = FALSE /\ strayKill = FALSE
  /\ scriptUse \in ScriptUses

LockFree == lock = NoProc
Asked(a, step) == ask[a].at = step
Listed(p) == record[p].listed
Truthful(view, exact) == ~ view.running => view.output /\ (exact => view.code)
Finish(a) == ask' = [ask EXCEPT ![a] = Silent]

-----------------------------------------------------------------------------
(* handleRunScript in the background: the process runs before it is         *)
(* recorded, and the goroutine starts after.                                *)
Start(a, p) ==
  /\ Asked(a, "idle") /\ process[p] = "none"
  /\ process' = [process EXCEPT ![p] = "alive"]
  /\ ask' = [ask EXCEPT ![a] = [at |-> "record", proc |-> p, view |-> Fresh]]
  /\ UNCHANGED <<record, waiter, lock, misled, strayKill, scriptUse>>

Record(a) ==
  /\ Asked(a, "record") /\ LockFree
  /\ record' = [record EXCEPT ![ask[a].proc].listed = TRUE]
  /\ waiter' = [waiter EXCEPT ![ask[a].proc] = "wait"]
  /\ Finish(a)
  /\ UNCHANGED <<process, lock, misled, strayKill, scriptUse>>

(* The script ends by itself.                                               *)
End(p) ==
  /\ process[p] = "alive"
  /\ process' = [process EXCEPT ![p] = "dead"]
  /\ UNCHANGED <<record, waiter, lock, ask, misled, strayKill, scriptUse>>

(* cmd.Wait returns: the PID is free from here on.                          *)
Reap(p) ==
  /\ waiter[p] = "wait" /\ process[p] = "dead"
  /\ process' = [process EXCEPT ![p] = "reaped"]
  /\ waiter' = [waiter EXCEPT ![p] = "lock"]
  /\ UNCHANGED <<record, lock, ask, misled, strayKill, scriptUse>>

Reuse(p) ==
  /\ scriptUse.pidReuse /\ process[p] = "reaped"
  /\ process' = [process EXCEPT ![p] = "reused"]
  /\ UNCHANGED <<record, waiter, lock, ask, misled, strayKill, scriptUse>>

(* The goroutine takes the lock and assigns Output, Running and ExitCode in *)
(* this order.                                                              *)
FillRecord(p) ==
  /\ \/ /\ waiter[p] = "lock" /\ LockFree /\ lock' = p
        /\ waiter' = [waiter EXCEPT ![p] = "output"] /\ UNCHANGED record
     \/ /\ waiter[p] = "output" /\ waiter' = [waiter EXCEPT ![p] = "running"]
        /\ record' = [record EXCEPT ![p].view = [@ EXCEPT !.output = TRUE]] /\ UNCHANGED lock
     \/ /\ waiter[p] = "running" /\ waiter' = [waiter EXCEPT ![p] = "code"]
        /\ record' = [record EXCEPT ![p].view = [@ EXCEPT !.running = FALSE]] /\ UNCHANGED lock
     \/ /\ waiter[p] = "code" /\ waiter' = [waiter EXCEPT ![p] = "none"]
        /\ record' = [record EXCEPT ![p].view = [@ EXCEPT !.code = TRUE]] /\ lock' = NoProc
  /\ UNCHANGED <<process, ask, misled, strayKill, scriptUse>>

-----------------------------------------------------------------------------
(* handleListProcesses writes its answer under the lock.                    *)
ListProcesses(a) ==
  /\ Asked(a, "idle") /\ LockFree
  /\ misled' = (misled \/ \E p \in Procs : Listed(p) /\ ~ Truthful(record[p].view, TRUE))
  /\ UNCHANGED <<process, record, waiter, lock, ask, strayKill, scriptUse>>

(* handleProcessOutput finds the record under the lock and reads its        *)
(* running, exitCode and output after it.                                   *)
AskOutput(a, p) ==
  /\ Asked(a, "idle") /\ LockFree /\ Listed(p)
  /\ ask' = [ask EXCEPT ![a] = [at |-> "running", proc |-> p, view |-> Fresh]]
  /\ UNCHANGED <<process, record, waiter, lock, misled, strayKill, scriptUse>>

ReadField(a) ==
  /\ LET p == ask[a].proc
         seen == ask[a].view IN
     \/ /\ Asked(a, "running")
        /\ ask' = [ask EXCEPT ![a] = [@ EXCEPT !.at = "code",
                                       !.view = [seen EXCEPT !.running = record[p].view.running]]]
        /\ UNCHANGED misled
     \/ /\ Asked(a, "code")
        /\ ask' = [ask EXCEPT ![a] = [@ EXCEPT !.at = "output",
                                       !.view = [seen EXCEPT !.code = record[p].view.code]]]
        /\ UNCHANGED misled
     \/ /\ Asked(a, "output")
        /\ misled' = (misled \/
             ~ Truthful([seen EXCEPT !.output = record[p].view.output], FALSE))
        /\ Finish(a)
  /\ UNCHANGED <<process, record, waiter, lock, strayKill, scriptUse>>

(* handleStopProcess keeps the lock for SIGTERM, half a second and SIGKILL. *)
(* The process has to obey only the second.                                 *)
Stop(a, p) ==
  /\ Asked(a, "idle") /\ LockFree /\ Listed(p) /\ record[p].view.running
  /\ lock' = a
  /\ ask' = [ask EXCEPT ![a] = [at |-> "term", proc |-> p, view |-> Fresh]]
  /\ UNCHANGED <<process, record, waiter, misled, strayKill, scriptUse>>

Signal(a) ==
  /\ ask[a].at \in {"term", "kill"}
  /\ LET p == ask[a].proc IN
       /\ \E obeys \in IF Asked(a, "kill") THEN {TRUE} ELSE BOOLEAN :
            process' = [process EXCEPT ![p] = IF @ = "alive" /\ obeys THEN "dead" ELSE @]
       /\ strayKill' = (strayKill \/ process[p] = "reused")
  /\ IF Asked(a, "term")
       THEN ask' = [ask EXCEPT ![a].at = "kill"] /\ UNCHANGED lock
       ELSE Finish(a) /\ lock' = NoProc
  /\ UNCHANGED <<record, waiter, misled, scriptUse>>

(* Mutant: a record is deleted whether or not its process runs. *)
DeleteAny(a, p) ==
  /\ Asked(a, "idle") /\ LockFree /\ Listed(p)
  /\ record' = [record EXCEPT ![p].listed = FALSE]
  /\ UNCHANGED <<process, waiter, lock, ask, misled, strayKill, scriptUse>>

(* handleDeleteProcess.                                                     *)
DeleteRecord(a, p) ==
  /\ Asked(a, "idle") /\ LockFree /\ Listed(p) /\ ~ record[p].view.running
  /\ record' = [record EXCEPT ![p].listed = FALSE]
  /\ UNCHANGED <<process, waiter, lock, ask, misled, strayKill, scriptUse>>

(* The panel is stopped and started: the scripts run on without a record.   *)
LoseRecords ==
  /\ scriptUse.restart
  /\ record' = [p \in Procs |-> [record[p] EXCEPT !.listed = FALSE]]
  /\ waiter' = [p \in Procs |-> "none"]
  /\ lock' = NoProc /\ ask' = [a \in Askers |-> Silent]
  /\ UNCHANGED <<process, misled, strayKill, scriptUse>>

ScriptNext ==
  \/ \E a \in Askers, p \in Procs :
       Start(a, p) \/ AskOutput(a, p) \/ Stop(a, p) \/ DeleteRecord(a, p)
  \/ \E a \in Askers : Record(a) \/ ListProcesses(a) \/ ReadField(a) \/ Signal(a)
  \/ \E p \in Procs : End(p) \/ Reap(p) \/ Reuse(p) \/ FillRecord(p)
  \/ LoseRecords

ScriptSpec == ScriptInit /\ [][ScriptNext]_scriptVars

-----------------------------------------------------------------------------
(***************************************************************************)
(* Until the panel stops, a background script that runs can be found and    *)
(* stopped: it has a record, which says that it runs, unless its start is   *)
(* still in flight.  A client that was told of its end was given the whole  *)
(* output, by the list also the exit code; the reader of an output may see  *)
(* the exit code before it is assigned.  A stop signals no other process    *)
(* unless the system gives the PID away at once (handleRunScript and its    *)
(* goroutine, handleStopProcess, handleDeleteProcess).                      *)
(***************************************************************************)
ScriptsAccounted ==
  /\ ~ scriptUse.restart => \A p \in Procs : process[p] = "alive" =>
       \/ Listed(p) /\ record[p].view.running
       \/ \E a \in Askers : Asked(a, "record") /\ ask[a].proc = p
  /\ ~ misled
  /\ ~ scriptUse.pidReuse => ~ strayKill
=============================================================================
