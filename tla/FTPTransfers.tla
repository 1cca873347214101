---------------------------- MODULE FTPTransfers ----------------------------
(***************************************************************************)
(* The data connections and the file commands of the FTP server            *)
(* (ftp/server.go from handlePASV on), and the panel's operations on the    *)
(* same directory (panel/api_ftp.go).                                       *)
(*                                                                          *)
(* Every PASV opens a listener of its own and starts a goroutine that       *)
(* accepts one connection, stores it in the field dataConn of the session   *)
(* and signals the channel the session has by then.  A transfer takes       *)
(* whatever is in dataConn.  The n-th connection of a session is the one    *)
(* its n-th PASV accepts.                                                   *)
(*                                                                          *)
(* Of a file, its size matters; the checks of an upload, the creation of    *)
(* the file, its writing and its removal are steps of their own.            *)
(***************************************************************************)
EXTENDS Integers, FiniteSets

CONSTANTS
  Sessions,      \* logged-in control connections; their users share a directory
  Names,         \* names in that directory
  MaxFiles,      \* FTPUser.MaxFiles, 0 is unlimited
  MaxSize,       \* FTPUser.MaxFileSize
  Opens,         \* how many PASV a session sends (a bound)
  Absent, Dir,   \* what a name may be besides a file
  Environments   \* what clients and administrator do, see EnvType

EnvType ==
  [names  : [Sessions -> SUBSET Names],  \* the names a session works with
   opens  : [Sessions -> 0..Opens],
   active : BOOLEAN,   \* PORT is used
   slow   : BOOLEAN,   \* a timeout may fire while a connection is on its way
   panel  : SUBSET Names,   \* the names the administrator works with
   files  : SUBSET Names]   \* the (empty) files that are there at the start

ASSUME FTPTransfersAssumption ==
  /\ IsFiniteSet(Sessions) /\ Sessions # {} /\ IsFiniteSet(Names) /\ Absent \notin Names
  /\ MaxFiles \in Nat /\ MaxSize \in Nat \ {0} /\ Opens \in Nat
  /\ Absent # Dir /\ {Absent, Dir} \cap Int = {}
  /\ Environments \subseteq EnvType

VARIABLES
  files,       \* what each name is: a size, Dir or Absent
  cmd,         \* the command each session is in
  reply,       \* the last answer about a file of each session
  passive,     \* FTPClient.passive
  dataConn,    \* FTPClient.dataConn, 0 is nil
  token,       \* a signal waits in FTPClient.dataConnReady
  pasv,        \* the PASV commands answered so far
  acc,         \* the goroutine of each PASV
  used,        \* the PASV whose connection was taken last
  left,        \* an earlier PASV was followed by another before it was used
  env

data == <<passive, dataConn, token, pasv, acc, used, left>>
vars == <<files, cmd, reply, data, env>>

Sizes  == 0..(MaxSize + 1)
Active == Opens + 1          \* the connection to the client's own port
IsFile(n) == files[n] \in Int

(***************************************************************************)
(* conn is the connection of a transfer, fd the name the open file has now, *)
(* Absent when it has none, total what an upload has received.              *)
(***************************************************************************)
Command == [op    : {"none", "LIST", "RETR", "STOR"},
            at    : {"idle", "opening", "waiting", "open", "receiving", "removing"},
            name  : Names \cup {Absent},
            conn  : 0..Active,
            fd    : Names \cup {Absent},
            total : 0..MaxSize]

Idle == [op |-> "none", at |-> "idle", name |-> Absent, conn |-> 0, fd |-> Absent, total |-> 0]

Reply   == [code : {"none", "stored", "too large", "removed", "made"}, name : Names \cup {Absent}]
NoReply == [code |-> "none", name |-> Absent]
Replied(s, code, n) == reply' = [reply EXCEPT ![s] = [code |-> code, name |-> n]]

TypeOK ==
  /\ files \in [Names -> Sizes \cup {Absent, Dir}]
  /\ cmd \in [Sessions -> Command]
  /\ reply \in [Sessions -> Reply]
  /\ passive \in [Sessions -> BOOLEAN]
  /\ dataConn \in [Sessions -> 0..Opens] /\ pasv \in [Sessions -> 0..Opens]
  /\ used \in [Sessions -> 0..Opens]
  /\ token \in [Sessions -> BOOLEAN] /\ left \in [Sessions -> BOOLEAN]
  /\ acc \in [Sessions -> [1..Opens -> {"none", "listening", "connected", "stored",
                                          "done", "dead"}]]
  /\ env \in Environments

-----------------------------------------------------------------------------
(* Opening a data connection.                                               *)

\* The connection of the last PASV was not taken and is there, or may still come.
Unused(s) == pasv[s] > used[s] /\ acc[s][pasv[s]] # "dead"

(***************************************************************************)
(* PASV and EPSV: a new listener, a new channel, a new goroutine.  What the *)
(* session has in dataConn stays there.                                     *)
(***************************************************************************)
PASV(s) ==
  /\ cmd[s].at = "idle" /\ pasv[s] < env.opens[s]
  /\ pasv'    = [pasv EXCEPT ![s] = @ + 1]
  /\ passive' = [passive EXCEPT ![s] = TRUE]
  /\ token'   = [token EXCEPT ![s] = FALSE]
  /\ acc'     = [acc EXCEPT ![s][pasv[s] + 1] = "listening"]
  /\ left'    = [left EXCEPT ![s] = @ \/ Unused(s)]
  /\ UNCHANGED <<files, cmd, reply, dataConn, used, env>>

PORT(s) ==
  /\ cmd[s].at = "idle" /\ env.active /\ passive[s]
  /\ passive' = [passive EXCEPT ![s] = FALSE]
  /\ UNCHANGED <<files, cmd, reply, dataConn, token, pasv, acc, used, left, env>>

GoroutineAt(s, n, now, next) ==
  /\ acc[s][n] = now
  /\ acc' = [acc EXCEPT ![s][n] = next]

\* The client connects to the port of its n-th PASV.
Dial(s, n) ==
  /\ GoroutineAt(s, n, "listening", "connected")
  /\ UNCHANGED <<files, cmd, reply, passive, dataConn, token, pasv, used, left, env>>

\* The deadline of the listener.
Expire(s, n) ==
  /\ GoroutineAt(s, n, "listening", "dead")
  /\ UNCHANGED <<files, cmd, reply, passive, dataConn, token, pasv, used, left, env>>

Store(s, n) ==
  /\ GoroutineAt(s, n, "connected", "stored")
  /\ dataConn' = [dataConn EXCEPT ![s] = n]
  /\ UNCHANGED <<files, cmd, reply, passive, token, pasv, used, left, env>>

\* The channel is read when the signal is sent, after transferMu was released.
Signal(s, n) ==
  /\ GoroutineAt(s, n, "stored", "done")
  /\ token' = [token EXCEPT ![s] = TRUE]
  /\ UNCHANGED <<files, cmd, reply, passive, dataConn, pasv, used, left, env>>

\* Mutant: the connection handed over stays in dataConn.
HandOverKept(s) ==
  /\ cmd' = [cmd EXCEPT ![s] = [@ EXCEPT !.at = "open", !.conn = dataConn[s]]]
  /\ used' = [used EXCEPT ![s] = dataConn[s]]
  /\ UNCHANGED <<dataConn, acc>>

HandOver(s) ==
  /\ cmd' = [cmd EXCEPT ![s] = [@ EXCEPT !.at = "open", !.conn = dataConn[s]]]
  /\ dataConn' = [dataConn EXCEPT ![s] = 0]
  /\ used' = [used EXCEPT ![s] = dataConn[s]]
  /\ UNCHANGED acc

\* getDataConnection gives up and closes the last listener: what waits in it is lost.
GiveUp(s) ==
  /\ cmd' = [cmd EXCEPT ![s] = Idle]
  /\ UNCHANGED <<dataConn, used>>
  /\ LET n == pasv[s] IN
       \E next \in CASE acc[s][n] = "listening" -> {"dead"}
                     [] acc[s][n] = "connected" -> {"connected", "dead"}
                     [] OTHER                   -> {acc[s][n]} :
         acc' = [acc EXCEPT ![s][n] = next]

(***************************************************************************)
(* getDataConnection, first half: a connection that is there is taken, and  *)
(* its signal stays in the channel; an active session dials out.            *)
(***************************************************************************)
GetDataConnection(s) ==
  /\ cmd[s].at = "opening"
  /\ \/ passive[s] /\ dataConn[s] # 0 /\ HandOver(s)
     \/ /\ passive[s] /\ dataConn[s] = 0
        /\ cmd' = [cmd EXCEPT ![s] = [@ EXCEPT !.at = "waiting"]]
        /\ UNCHANGED <<dataConn, acc, used>>
     \/ /\ ~passive[s]
        /\ cmd' \in {[cmd EXCEPT ![s] = [@ EXCEPT !.at = "open", !.conn = Active]],
                     [cmd EXCEPT ![s] = Idle]}
        /\ UNCHANGED <<dataConn, acc, used>>
  /\ UNCHANGED <<files, reply, passive, token, pasv, left, env>>

TimedOut(s) == env.slow \/ acc[s][pasv[s]] \notin {"connected", "stored"}

\* Mutant: the channel is waited for without a timeout.
WakeWithoutTimeout(s) ==
  /\ cmd[s].at = "waiting" /\ token[s]
  /\ token' = [token EXCEPT ![s] = FALSE]
  /\ IF dataConn[s] # 0 THEN HandOver(s) ELSE GiveUp(s)
  /\ UNCHANGED <<files, reply, passive, pasv, left, env>>

\* Second half: after the signal or the timeout dataConn is looked at once more.
Wake(s) ==
  /\ cmd[s].at = "waiting"
  /\ \/ token[s] /\ token' = [token EXCEPT ![s] = FALSE]
     \/ TimedOut(s) /\ UNCHANGED token
  /\ IF dataConn[s] # 0 THEN HandOver(s) ELSE GiveUp(s)
  /\ UNCHANGED <<files, reply, passive, pasv, left, env>>

-----------------------------------------------------------------------------
(* The commands.  One that is refused before 150 changes nothing; the data  *)
(* connection it was sent for is left where it is.                          *)

Begin(s, op, n) ==
  /\ cmd[s].at = "idle" /\ (passive[s] \/ env.active)
  /\ cmd' = [cmd EXCEPT ![s] = [@ EXCEPT !.op = op, !.at = "opening", !.name = n]]
  /\ UNCHANGED <<files, reply, data, env>>

LIST(s) == Begin(s, "LIST", Absent)

RETR(s, n) == IsFile(n) /\ files[n] <= MaxSize /\ Begin(s, "RETR", n)

FileCount == Cardinality({n \in Names : IsFile(n)})

\* Mutant: one file too many.
HasRoomForAFileMore == MaxFiles = 0 \/ FileCount <= MaxFiles

HasRoomForAFile == MaxFiles = 0 \/ FileCount < MaxFiles

STOR(s, n) == HasRoomForAFile /\ Begin(s, "STOR", n)

At(s, op, at) == cmd[s].op = op /\ cmd[s].at = at

(* The listing or the file is sent, or the file is gone by now; a client    *)
(* that has closed its connection is not noticed.                           *)
Send(s) ==
  /\ cmd[s].op \in {"LIST", "RETR"} /\ cmd[s].at = "open"
  /\ cmd' = [cmd EXCEPT ![s] = Idle]
  /\ UNCHANGED <<files, reply, data, env>>

\* os.Create: a file that exists is truncated, whoever else has it open.
Create(s) ==
  /\ At(s, "STOR", "open")
  /\ IF files[cmd[s].name] = Dir
     THEN cmd' = [cmd EXCEPT ![s] = Idle] /\ UNCHANGED <<files, reply>>
     ELSE /\ files' = [files EXCEPT ![cmd[s].name] = 0]
          /\ cmd' = [cmd EXCEPT ![s] = [@ EXCEPT !.at = "receiving", !.fd = cmd[s].name]]
          /\ UNCHANGED reply
  /\ UNCHANGED <<data, env>>

\* Mutant: blocks are written whatever their number.
ReceiveUnlimited(s) ==
  /\ At(s, "STOR", "receiving")
  /\ cmd' = [cmd EXCEPT ![s].total = @ + 1]
  /\ UNCHANGED <<files, reply, data, env>>

(***************************************************************************)
(* A block arrives: it is counted, and written if the limit allows it, to   *)
(* the open file, whatever name that has now.                               *)
(***************************************************************************)
Receive(s) ==
  /\ At(s, "STOR", "receiving")
  /\ IF cmd[s].total = MaxSize
     THEN /\ cmd' = [cmd EXCEPT ![s] = [@ EXCEPT !.at = "removing"]]
          /\ UNCHANGED files
     ELSE /\ cmd' = [cmd EXCEPT ![s].total = @ + 1]
          /\ files' = IF cmd[s].fd = Absent THEN files
                      ELSE [files EXCEPT ![cmd[s].fd] =
                              IF @ < cmd[s].total + 1 THEN cmd[s].total + 1 ELSE @]
  /\ UNCHANGED <<reply, data, env>>

\* The client closes the data connection, or it breaks: 226 in either case.
EndOfFile(s) ==
  /\ At(s, "STOR", "receiving")
  /\ cmd' = [cmd EXCEPT ![s] = Idle]
  /\ Replied(s, "stored", cmd[s].name)
  /\ UNCHANGED <<files, data, env>>

\* What becomes of the open files when the name n is removed.
Unlinked(n) ==
  [t \in Sessions |-> IF cmd[t].fd = n THEN [cmd[t] EXCEPT !.fd = Absent] ELSE cmd[t]]

\* Mutant: a file that is too large stays.
RemoveTooLargeKept(s) ==
  /\ At(s, "STOR", "removing")
  /\ cmd' = [cmd EXCEPT ![s] = Idle]
  /\ Replied(s, "too large", cmd[s].name)
  /\ UNCHANGED <<files, data, env>>

RemoveTooLarge(s) ==
  /\ At(s, "STOR", "removing")
  /\ files' = [files EXCEPT ![cmd[s].name] = Absent]
  /\ cmd' = [Unlinked(cmd[s].name) EXCEPT ![s] = Idle]
  /\ Replied(s, "too large", cmd[s].name)
  /\ UNCHANGED <<data, env>>

\* DELE and RMD are the same os.Remove.
DELE(s, n) ==
  /\ cmd[s].at = "idle" /\ files[n] # Absent
  /\ files' = [files EXCEPT ![n] = Absent]
  /\ cmd' = Unlinked(n)
  /\ Replied(s, "removed", n)
  /\ UNCHANGED <<data, env>>

MKD(s, n) ==
  /\ cmd[s].at = "idle" /\ ~IsFile(n)
  /\ files' = [files EXCEPT ![n] = Dir]
  /\ Replied(s, "made", n)
  /\ UNCHANGED <<cmd, data, env>>

-----------------------------------------------------------------------------
(* The panel, which works in the same directory without any limit.          *)

uploadFtpFile(n, size) ==
  /\ n \in env.panel /\ files[n] # Dir
  /\ files' = [files EXCEPT ![n] = size]
  /\ UNCHANGED <<cmd, reply, data, env>>

deleteFtpFile(n) ==
  /\ n \in env.panel
  /\ files' = [files EXCEPT ![n] = Absent]
  /\ cmd' = Unlinked(n)
  /\ UNCHANGED <<reply, data, env>>

mkdirFtp(n) ==
  /\ n \in env.panel /\ ~IsFile(n)
  /\ files' = [files EXCEPT ![n] = Dir]
  /\ UNCHANGED <<cmd, reply, data, env>>

\* os.Rename replaces a file; an open file keeps its contents under its new name.
renameFtpFile(m, n) ==
  /\ {m, n} \subseteq env.panel /\ m # n
  /\ files[m] # Absent /\ files[n] # Dir /\ (files[m] = Dir => files[n] = Absent)
  /\ files' = [files EXCEPT ![m] = Absent, ![n] = files[m]]
  /\ cmd' = [t \in Sessions |->
               IF cmd[t].fd = m THEN [cmd[t] EXCEPT !.fd = n] ELSE Unlinked(n)[t]]
  /\ UNCHANGED <<reply, data, env>>

\* CopySingleFile opens the source and creates the target: a copy onto itself empties it.
copyFtpFile(m, n) ==
  /\ {m, n} \subseteq env.panel /\ IsFile(m) /\ files[n] # Dir
  /\ files' = [files EXCEPT ![n] = IF m = n THEN 0 ELSE files[m]]
  /\ UNCHANGED <<cmd, reply, data, env>>

-----------------------------------------------------------------------------

Init ==
  /\ env \in Environments
  /\ files = [n \in Names |-> IF n \in env.files THEN 0 ELSE Absent]
  /\ cmd = [s \in Sessions |-> Idle]
  /\ reply = [s \in Sessions |-> NoReply]
  /\ passive = [s \in Sessions |-> FALSE]
  /\ dataConn = [s \in Sessions |-> 0] /\ pasv = [s \in Sessions |-> 0]
  /\ used = [s \in Sessions |-> 0]
  /\ token = [s \in Sessions |-> FALSE] /\ left = [s \in Sessions |-> FALSE]
  /\ acc = [s \in Sessions |-> [n \in 1..Opens |-> "none"]]

DataStep(s) == PASV(s) \/ PORT(s) \/ \E n \in 1..Opens : Dial(s, n) \/ Expire(s, n)

ServerStep(s) ==
  \/ GetDataConnection(s) \/ Wake(s)
  \/ \E n \in 1..Opens : Store(s, n) \/ Signal(s, n)

FileStep(s) ==
  \/ LIST(s) \/ Send(s) \/ Create(s) \/ Receive(s) \/ EndOfFile(s) \/ RemoveTooLarge(s)
  \/ \E n \in env.names[s] : RETR(s, n) \/ STOR(s, n) \/ DELE(s, n) \/ MKD(s, n)

PanelStep ==
  \E m, n \in Names :
    \/ \E size \in Sizes : uploadFtpFile(n, size)
    \/ deleteFtpFile(n) \/ mkdirFtp(n)
    \/ renameFtpFile(m, n) \/ copyFtpFile(m, n)

Next == PanelStep \/ \E s \in Sessions : DataStep(s) \/ ServerStep(s) \/ FileStep(s)

(***************************************************************************)
(* The goroutine of the session and the accepting goroutines run, timers    *)
(* fire.  Clients need not do anything.                                     *)
(***************************************************************************)
Fairness ==
  \A s \in Sessions :
    /\ WF_vars(GetDataConnection(s)) /\ WF_vars(Wake(s))
    /\ \A n \in 1..Opens : WF_vars(Store(s, n)) /\ WF_vars(Signal(s, n))

Spec == Init /\ [][Next]_vars /\ Fairness

-----------------------------------------------------------------------------
(***************************************************************************)
(* A transfer runs over the connection of the last PASV of its session,     *)
(* unless an earlier PASV was abandoned: getDataConnection takes whatever   *)
(* the accepting goroutines have left in dataConn, and nothing else ties    *)
(* the two together.                                                        *)
(***************************************************************************)
OwnConnection ==
  \A s \in Sessions :
    cmd[s].conn \in 1..Opens => cmd[s].conn = pasv[s] \/ left[s]

(***************************************************************************)
(* The number of files exceeds MaxFiles by at most one for every session    *)
(* but one: handleSTOR counts the files long before it creates its own.     *)
(***************************************************************************)
FileLimit ==
  MaxFiles # 0 /\ env.panel = {} /\ Cardinality(env.files) <= MaxFiles =>
    FileCount <= MaxFiles + Cardinality(Sessions) - 1

\* The names nobody but the session s touches.
OwnNames(s) ==
  env.names[s] \ (env.panel \cup UNION {env.names[t] : t \in Sessions \ {s}})

(***************************************************************************)
(* What a session was last told of a file only it works with is so: a file  *)
(* that was stored is there and within the limit, one that was too large or *)
(* removed is gone, a directory is there.                                   *)
(***************************************************************************)
RepliesTrue ==
  \A s \in Sessions :
    cmd[s].at \in {"idle", "opening", "waiting"} /\ reply[s].name \in OwnNames(s) =>
      LET f == files[reply[s].name]
      IN CASE reply[s].code = "stored" -> f \in 0..MaxSize
           [] reply[s].code \in {"too large", "removed"} -> f = Absent
           [] reply[s].code = "made" -> f = Dir

(***************************************************************************)
(* A command that asks for a data connection gets one or is refused,        *)
(* whatever the client does: getDataConnection waits with a timeout.        *)
(***************************************************************************)
Answered ==
  \A s \in Sessions :
    cmd[s].at \in {"opening", "waiting"} ~> cmd[s].at \notin {"opening", "waiting"}

=============================================================================
