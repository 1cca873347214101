------------------------------- MODULE LogFiles -------------------------------
(***************************************************************************)
(* The log files (logger/logger.go): writers share one open file per        *)
(* category, type and day.  A writer gets the file under the lock, lets it  *)
(* go, and takes it again to write; in between the goroutine that notices   *)
(* a new day, or Close, may have closed the file.                           *)
(*                                                                          *)
(* One category and type; the files of all days have the same name, so that *)
(* an open file is the number of its opening.  rotate has no caller, so     *)
(* there are no dated files for doCleanup: both are left out.               *)
(***************************************************************************)
EXTENDS Naturals

CONSTANTS
  Writers,      \* the goroutines that may log together
  Lines,        \* what they log
  Details,      \* the lines of the level "info", below "error"
  NoLine,
  MaxDay,       \* bound of the days that pass
  MaxOpenings   \* bound of the openings of the file

ASSUME LogBoundsAreNaturals == MaxDay \in Nat /\ MaxOpenings \in Nat
ASSUME LinesAreTyped == Details \subseteq Lines /\ NoLine \notin Lines

VARIABLES
  day,          \* the date of the clock
  currentDate,  \* Logger.currentDate
  files,        \* Logger.files: the opening each day has in the map, or 0
  openings,     \* how often the file was opened
  openFiles,    \* the openings that were not closed
  content,      \* the lines in the file
  writing,      \* what each writer does: step, line, day it looks for, file
  quiet,        \* the configured level is "error"
  stopped,      \* stopCleanup is closed
  dead,         \* the process panicked
  excused,      \* lines refused by their level, cleared, or not to be opened
  overtaken,    \* lines whose file was closed before they were written
  logged        \* lines whose writer is done

logVars == <<day, currentDate, files, openings, openFiles, content, writing, quiet,
             stopped, dead, excused, overtaken, logged>>

Days == 0..MaxDay
Listening == [at |-> "idle", line |-> NoLine, key |-> 0, file |-> 0]

LogTypeOK ==
  /\ day \in Days /\ currentDate \in Days
  /\ files \in [Days -> 0..MaxOpenings]
  /\ openings \in 0..MaxOpenings
  /\ openFiles \subseteq 1..MaxOpenings
  /\ writing \in [Writers -> [at : {"idle", "find", "write"}, line : Lines \cup {NoLine},
                              key : Days, file : 0..MaxOpenings]]
  /\ quiet \in BOOLEAN /\ stopped \in BOOLEAN /\ dead \in BOOLEAN
  /\ \A lines \in {content, excused, overtaken, logged} : lines \subseteq Lines

LogInit ==
  /\ day = 0 /\ currentDate = 0
  /\ files = [d \in Days |-> 0] /\ openings = 0 /\ openFiles = {}
  /\ content = {}
  /\ writing = [w \in Writers |-> Listening]
  /\ quiet = FALSE /\ stopped = FALSE /\ dead = FALSE
  /\ excused = {} /\ overtaken = {} /\ logged = {}

Busy(w, step) == ~ dead /\ writing[w].at = step

(* shouldLog: the level of the configuration decides first.                 *)
Refused(line) == quiet /\ line \in Details

Log(w, line) ==
  /\ Busy(w, "idle") /\ line \notin logged
  /\ \A o \in Writers : writing[o].line # line
  /\ IF Refused(line)
       THEN /\ excused' = excused \cup {line} /\ logged' = logged \cup {line}
            /\ UNCHANGED writing
       ELSE /\ writing' = [writing EXCEPT ![w] =
                             [at |-> "find", line |-> line, key |-> day, file |-> 0]]
            /\ UNCHANGED <<excused, logged>>
  /\ UNCHANGED <<day, currentDate, files, openings, openFiles, content, quiet, stopped, dead,
                 overtaken>>

(* getFile, for the day it has read before it takes the lock.               *)
FindFile(w) ==
  /\ Busy(w, "find") /\ files[writing[w].key] # 0
  /\ writing' = [writing EXCEPT ![w] = [@ EXCEPT !.at = "write", !.file = files[writing[w].key]]]
  /\ UNCHANGED <<day, currentDate, files, openings, openFiles, content, quiet, stopped, dead,
                 excused, overtaken, logged>>

OpenLog(w) ==
  /\ Busy(w, "find") /\ files[writing[w].key] = 0 /\ openings < MaxOpenings
  /\ openings' = openings + 1
  /\ openFiles' = openFiles \cup {openings + 1}
  /\ files' = [files EXCEPT ![writing[w].key] = openings + 1]
  /\ writing' = [writing EXCEPT ![w] = [@ EXCEPT !.at = "write", !.file = openings + 1]]
  /\ UNCHANGED <<day, currentDate, content, quiet, stopped, dead, excused, overtaken, logged>>

OpenLogFails(w) ==
  /\ Busy(w, "find") /\ files[writing[w].key] = 0
  /\ excused' = excused \cup {writing[w].line}
  /\ logged' = logged \cup {writing[w].line}
  /\ writing' = [writing EXCEPT ![w] = Listening]
  /\ UNCHANGED <<day, currentDate, files, openings, openFiles, content, quiet, stopped, dead,
                 overtaken>>

(* The error of a write to a closed file is not looked at.                  *)
WriteLine(w) ==
  /\ Busy(w, "write")
  /\ content' = IF writing[w].file \in openFiles THEN content \cup {writing[w].line} ELSE content
  /\ logged' = logged \cup {writing[w].line}
  /\ writing' = [writing EXCEPT ![w] = Listening]
  /\ UNCHANGED <<day, currentDate, files, openings, openFiles, quiet, stopped, dead, excused,
                 overtaken>>

-----------------------------------------------------------------------------
Midnight ==
  /\ day < MaxDay
  /\ day' = day + 1
  /\ UNCHANGED <<currentDate, files, openings, openFiles, content, writing, quiet, stopped,
                 dead, excused, overtaken, logged>>

(* The files of every day in the map are closed under the writers that have *)
(* got one of them.                                                         *)
CloseFiles ==
  LET closing == {files[d] : d \in Days} \cap openFiles IN
    /\ openFiles' = openFiles \ closing
    /\ overtaken' = overtaken \cup
         {writing[w].line : w \in {v \in Writers : Busy(v, "write") /\ writing[v].file \in closing}}

(* Mutant: the closed files stay in the map. *)
DateCheckKeeps ==
  /\ ~ dead /\ ~ stopped /\ day # currentDate
  /\ currentDate' = day
  /\ CloseFiles
  /\ UNCHANGED <<day, files, openings, content, writing, quiet, stopped, dead, excused, logged>>

(* dateChecker, within a minute of midnight: also the file that a writer    *)
(* has opened for the new day since.                                        *)
DateCheck ==
  /\ ~ dead /\ ~ stopped /\ day # currentDate
  /\ currentDate' = day
  /\ files' = [d \in Days |-> 0]
  /\ CloseFiles
  /\ UNCHANGED <<day, openings, content, writing, quiet, stopped, dead, excused, logged>>

(* Close, before a restart of the panel or at its end; what is logged after *)
(* it opens the file again.  A second Close closes stopCleanup again, which *)
(* panics.                                                                  *)
Close ==
  /\ ~ dead
  /\ IF stopped
       THEN /\ dead' = TRUE
            /\ UNCHANGED <<stopped, files, openFiles, overtaken>>
       ELSE /\ stopped' = TRUE
            /\ files' = [d \in Days |-> 0]
            /\ CloseFiles
            /\ UNCHANGED dead
  /\ UNCHANGED <<day, currentDate, openings, content, writing, quiet, excused, logged>>

(* handleLogsClear and truncateAppLogs empty the file under its writers.    *)
Clear ==
  /\ ~ dead
  /\ excused' = excused \cup content
  /\ content' = {}
  /\ UNCHANGED <<day, currentDate, files, openings, openFiles, writing, quiet, stopped, dead,
                 overtaken, logged>>

SetLogConfig ==
  /\ ~ dead
  /\ quiet' = ~ quiet
  /\ UNCHANGED <<day, currentDate, files, openings, openFiles, content, writing, stopped, dead,
                 excused, overtaken, logged>>

LogNext ==
  \/ \E w \in Writers, line \in Lines : Log(w, line)
  \/ \E w \in Writers : FindFile(w) \/ OpenLog(w) \/ OpenLogFails(w) \/ WriteLine(w)
  \/ Midnight \/ DateCheck \/ Close \/ Clear \/ SetLogConfig

LogSpec == LogInit /\ [][LogNext]_logVars

-----------------------------------------------------------------------------
(***************************************************************************)
(* A line of a level that is logged is in the file when its writer is done, *)
(* unless somebody cleared the log, the file could not be opened, or the    *)
(* file was closed between getting it and writing it: a new day and Close   *)
(* cost only the lines that are under way, and no later one (write,         *)
(* getFile, dateChecker, Close).                                            *)
(***************************************************************************)
LinesWritten == logged \subseteq content \cup excused \cup overtaken
=============================================================================
