------------------------- MODULE FTPTransfers_proofs ---------------------------
(* Proofs about the data connections and the files of the FTP server.       *)
EXTENDS FTPTransfers, FiniteSetTheorems, TLAPS


LEMMA IdleIsTyped == Idle \in Command /\ Idle.at = "idle" /\ Idle.conn = 0
BY FTPTransfersAssumption DEF Idle, Command, Active

\* A command is a step further.
LEMMA CmdMoves ==
  ASSUME TypeOK, NEW s \in Sessions, NEW r \in Command, cmd' = [cmd EXCEPT ![s] = r]
  PROVE  /\ cmd' \in [Sessions -> Command] /\ cmd'[s] = r
         /\ \A t \in Sessions : t # s => cmd'[t] = cmd[t]
BY DEF TypeOK

\* The command r works with the file of the command c.
SameFile(c, r) == r.op = c.op /\ r.name = c.name /\ r.fd = c.fd

LEMMA AtTyped ==
  ASSUME NEW c \in Command, NEW at \in {"idle", "opening", "waiting", "open", "receiving", "removing"}
  PROVE  /\ [c EXCEPT !.at = at] \in Command
         /\ [c EXCEPT !.at = at].conn = c.conn /\ [c EXCEPT !.at = at].at = at
         /\ SameFile(c, [c EXCEPT !.at = at])
BY DEF Command, SameFile

LEMMA OpenedTyped ==
  ASSUME NEW c \in Command, NEW n \in 0..Active
  PROVE  /\ [c EXCEPT !.at = "open", !.conn = n] \in Command
         /\ [c EXCEPT !.at = "open", !.conn = n].conn = n
         /\ [c EXCEPT !.at = "open", !.conn = n].at = "open"
         /\ SameFile(c, [c EXCEPT !.at = "open", !.conn = n])
BY DEF Command, SameFile

LEMMA CreatedTyped ==
  ASSUME NEW c \in Command, NEW n \in Names \cup {Absent}
  PROVE  /\ [c EXCEPT !.at = "receiving", !.fd = n] \in Command
         /\ [c EXCEPT !.at = "receiving", !.fd = n].conn = c.conn
         /\ [c EXCEPT !.at = "receiving", !.fd = n].at = "receiving"
         /\ [c EXCEPT !.at = "receiving", !.fd = n].fd = n
         /\ [c EXCEPT !.at = "receiving", !.fd = n].op = c.op
         /\ [c EXCEPT !.at = "receiving", !.fd = n].name = c.name
BY DEF Command

LEMMA RenamedTyped ==
  ASSUME NEW c \in Command, NEW n \in Names \cup {Absent}
  PROVE  /\ [c EXCEPT !.fd = n] \in Command
         /\ [c EXCEPT !.fd = n].conn = c.conn /\ [c EXCEPT !.fd = n].at = c.at
         /\ [c EXCEPT !.fd = n].op = c.op /\ [c EXCEPT !.fd = n].name = c.name
         /\ [c EXCEPT !.fd = n].fd = n
BY DEF Command

LEMMA BegunTyped ==
  ASSUME NEW c \in Command, NEW op \in {"LIST", "RETR", "STOR"}, NEW n \in Names \cup {Absent}
  PROVE  /\ [c EXCEPT !.op = op, !.at = "opening", !.name = n] \in Command
         /\ [c EXCEPT !.op = op, !.at = "opening", !.name = n].conn = c.conn
         /\ [c EXCEPT !.op = op, !.at = "opening", !.name = n].at = "opening"
         /\ [c EXCEPT !.op = op, !.at = "opening", !.name = n].op = op
         /\ [c EXCEPT !.op = op, !.at = "opening", !.name = n].name = n
         /\ [c EXCEPT !.op = op, !.at = "opening", !.name = n].fd = c.fd
BY DEF Command

LEMMA ReceivedTyped ==
  ASSUME NEW c \in Command, NEW m \in 0..MaxSize
  PROVE  /\ [c EXCEPT !.total = m] \in Command
         /\ [c EXCEPT !.total = m].conn = c.conn /\ [c EXCEPT !.total = m].at = c.at
         /\ SameFile(c, [c EXCEPT !.total = m])
BY DEF Command, SameFile

\* A session that has not got a data connection yet has none.
FlowInv == \A s \in Sessions : cmd[s].at \in {"idle", "opening", "waiting"} => cmd[s].conn = 0

(* What a step about files may do to the commands: a session ends its own,  *)
(* or keeps its data connection.                                            *)
CmdKept ==
  /\ cmd' \in [Sessions -> Command] /\ FlowInv'
  /\ \A t \in Sessions : cmd'[t].conn \in {cmd[t].conn, 0}

LEMMA OneKept ==
  ASSUME TypeOK, FlowInv, NEW s \in Sessions, NEW r \in Command, cmd' = [cmd EXCEPT ![s] = r],
         r.conn \in {cmd[s].conn, 0}, r.at \in {"idle", "opening", "waiting"} => r.conn = 0
  PROVE  CmdKept
BY CmdMoves DEF CmdKept, FlowInv

LEMMA UnlinkedTyped ==
  ASSUME TypeOK, NEW n
  PROVE  /\ Unlinked(n) \in [Sessions -> Command]
         /\ \A t \in Sessions : /\ Unlinked(n)[t].conn = cmd[t].conn
                                /\ Unlinked(n)[t].at = cmd[t].at
<1>1. ASSUME NEW t \in Sessions
      PROVE  /\ Unlinked(n)[t] \in Command
             /\ Unlinked(n)[t].conn = cmd[t].conn /\ Unlinked(n)[t].at = cmd[t].at
  <2>1. cmd[t] \in Command
    BY <1>1 DEF TypeOK
  <2>2. /\ [cmd[t] EXCEPT !.fd = Absent] \in Command
        /\ [cmd[t] EXCEPT !.fd = Absent].conn = cmd[t].conn
        /\ [cmd[t] EXCEPT !.fd = Absent].at = cmd[t].at
    BY <2>1, RenamedTyped
  <2>3. Unlinked(n)[t] = IF cmd[t].fd = n THEN [cmd[t] EXCEPT !.fd = Absent] ELSE cmd[t]
    BY <1>1 DEF Unlinked
  <2> QED
    BY <2>1, <2>2, <2>3
<1>2. DOMAIN Unlinked(n) = Sessions /\ Unlinked(n) = [t \in Sessions |-> Unlinked(n)[t]]
  BY DEF Unlinked
<1> QED
  BY <1>1, <1>2

LEMMA KeptByUnlinking ==
  ASSUME TypeOK, FlowInv, NEW n, cmd' = Unlinked(n)
  PROVE  CmdKept
BY UnlinkedTyped DEF CmdKept, FlowInv

\* One command of a session, after the data connection.
LEMMA FileKeeps ==
  ASSUME TypeOK, FlowInv, NEW s \in Sessions, FileStep(s)
  PROVE  CmdKept /\ files' \in [Names -> Sizes \cup {Absent, Dir}] /\ reply' \in [Sessions -> Reply]
         /\ UNCHANGED <<data, env>>
<1> USE FTPTransfersAssumption
<1> DEFINE c == cmd[s]
<1>1. c \in Command /\ c.name \in Names \cup {Absent} /\ c.total \in 0..MaxSize
      /\ 0 \in Sizes /\ env.names[s] \subseteq Names
  BY DEF TypeOK, Command, Sizes, EnvType
<1>2. ASSUME NEW code \in {"stored", "too large", "removed", "made"}, NEW n \in Names \cup {Absent},
             Replied(s, code, n)
      PROVE  reply' \in [Sessions -> Reply]
  <2>1. [code |-> code, name |-> n] \in Reply
    BY DEF Reply
  <2> QED
    BY <1>2, <2>1 DEF TypeOK, Replied
<1>3. ASSUME NEW op \in {"LIST", "RETR", "STOR"}, NEW n \in Names \cup {Absent}, Begin(s, op, n)
      PROVE  CmdKept /\ UNCHANGED <<files, reply, data, env>>
  <2>1. /\ cmd' = [cmd EXCEPT ![s] = [c EXCEPT !.op = op, !.at = "opening", !.name = n]]
        /\ c.at = "idle" /\ UNCHANGED <<files, reply, data, env>>
    BY <1>3 DEF Begin
  <2>2. /\ [c EXCEPT !.op = op, !.at = "opening", !.name = n] \in Command
        /\ [c EXCEPT !.op = op, !.at = "opening", !.name = n].conn = c.conn
    BY <1>1, <1>3 DEF Command
  <2>3. c.conn = 0
    BY <2>1 DEF FlowInv
  <2> QED
    BY <2>1, <2>2, <2>3, OneKept
<1>4. CASE LIST(s)
  BY <1>3, <1>4 DEF LIST, TypeOK
<1>5. ASSUME NEW n \in env.names[s], RETR(s, n) \/ STOR(s, n)
      PROVE  CmdKept /\ UNCHANGED <<files, reply, data, env>>
  BY <1>1, <1>3, <1>5 DEF RETR, STOR
<1>6. CASE Send(s)
  BY <1>6, IdleIsTyped, OneKept DEF Send, TypeOK
<1>7. CASE Create(s)
  <2>1. CASE files[c.name] = Dir
    BY <1>7, <2>1, IdleIsTyped, OneKept DEF Create, TypeOK
  <2>2. CASE files[c.name] # Dir
    <3>1. /\ [c EXCEPT !.at = "receiving", !.fd = c.name] \in Command
          /\ [c EXCEPT !.at = "receiving", !.fd = c.name].conn = c.conn
          /\ [c EXCEPT !.at = "receiving", !.fd = c.name].at = "receiving"
      BY <1>1, CreatedTyped
    <3>2. cmd' = [cmd EXCEPT ![s] = [c EXCEPT !.at = "receiving", !.fd = c.name]]
      BY <1>7, <2>2 DEF Create
    <3>3. CmdKept
      BY <3>1, <3>2, OneKept
    <3>4. files' = [files EXCEPT ![c.name] = 0] /\ UNCHANGED <<reply, data, env>>
      BY <1>7, <2>2 DEF Create
    <3>5. files' \in [Names -> Sizes \cup {Absent, Dir}]
      BY <1>1, <3>4 DEF TypeOK
    <3> QED
      BY <3>3, <3>4, <3>5 DEF TypeOK
  <2> QED
    BY <2>1, <2>2
<1>8. CASE Receive(s)
  <2>1. CASE c.total = MaxSize
    <3>1. /\ [c EXCEPT !.at = "removing"] \in Command
          /\ [c EXCEPT !.at = "removing"].conn = c.conn
          /\ [c EXCEPT !.at = "removing"].at = "removing"
      BY <1>1, AtTyped
    <3>2. cmd' = [cmd EXCEPT ![s] = [c EXCEPT !.at = "removing"]] /\ UNCHANGED <<files, reply, data, env>>
      BY <1>8, <2>1 DEF Receive
    <3> QED
      BY <3>1, <3>2, OneKept DEF TypeOK
  <2>2. CASE c.total # MaxSize
    <3>1. c.total + 1 \in 0..MaxSize /\ c.total + 1 \in Sizes /\ c.at = "receiving"
      BY <1>1, <1>8, <2>2 DEF Sizes, Receive, At
    <3>2. cmd' = [cmd EXCEPT ![s].total = @ + 1] /\ UNCHANGED <<reply, data, env>>
      BY <1>8, <2>2 DEF Receive
    <3>3. /\ cmd' \in [Sessions -> Command]
          /\ \A t \in Sessions : cmd'[t].conn = cmd[t].conn /\ cmd'[t].at = cmd[t].at
      <4> DEFINE m == cmd[s].total + 1
      <4>1. m \in 0..MaxSize /\ cmd[s] \in Command
        BY <1>1, <3>1
      <4>2. cmd' = [cmd EXCEPT ![s].total = m]
        BY <3>2
      <4> HIDE DEF m
      <4>3. cmd' = [cmd EXCEPT ![s] = [cmd[s] EXCEPT !.total = m]]
        BY <4>2
      <4>4. /\ [cmd[s] EXCEPT !.total = m] \in Command
            /\ [cmd[s] EXCEPT !.total = m].conn = cmd[s].conn
            /\ [cmd[s] EXCEPT !.total = m].at = cmd[s].at
        BY <4>1, ReceivedTyped
      <4>5. /\ cmd' \in [Sessions -> Command] /\ cmd'[s] = [cmd[s] EXCEPT !.total = m]
            /\ \A t \in Sessions : t # s => cmd'[t] = cmd[t]
        BY <4>3, <4>4, CmdMoves
      <4> QED
        BY <4>4, <4>5
    <3>4. CmdKept
      BY <3>3 DEF CmdKept, FlowInv
    <3>5. files' \in [Names -> Sizes \cup {Absent, Dir}]
      <4>1. files \in [Names -> Sizes \cup {Absent, Dir}]
        BY DEF TypeOK
      <4>2. \/ files' = files
            \/ files' = [files EXCEPT ![c.fd] = IF @ < c.total + 1 THEN c.total + 1 ELSE @]
        BY <1>8, <2>2 DEF Receive
      <4> QED
        BY <3>1, <4>1, <4>2
    <3> QED
      BY <3>2, <3>4, <3>5 DEF TypeOK
  <2> QED
    BY <2>1, <2>2
<1>9. CASE EndOfFile(s)
  BY <1>1, <1>2, <1>9, IdleIsTyped, OneKept DEF EndOfFile, TypeOK
<1>10. CASE RemoveTooLarge(s)
  <2>1. cmd' = [Unlinked(c.name) EXCEPT ![s] = Idle]
    BY <1>10 DEF RemoveTooLarge
  <2>2. CmdKept
    BY <2>1, UnlinkedTyped, IdleIsTyped DEF CmdKept, FlowInv
  <2> QED
    BY <1>1, <1>2, <1>10, <2>2 DEF RemoveTooLarge, TypeOK
<1>11. ASSUME NEW n \in env.names[s], DELE(s, n)
       PROVE  CmdKept /\ files' \in [Names -> Sizes \cup {Absent, Dir}] /\ reply' \in [Sessions -> Reply]
              /\ UNCHANGED <<data, env>>
  BY <1>1, <1>2, <1>11, KeptByUnlinking DEF DELE, TypeOK
<1>12. ASSUME NEW n \in env.names[s], MKD(s, n)
       PROVE  CmdKept /\ files' \in [Names -> Sizes \cup {Absent, Dir}] /\ reply' \in [Sessions -> Reply]
              /\ UNCHANGED <<data, env>>
  BY <1>1, <1>2, <1>12 DEF MKD, TypeOK, CmdKept, FlowInv
<1> QED
  BY <1>4, <1>5, <1>6, <1>7, <1>8, <1>9, <1>10, <1>11, <1>12 DEF FileStep, TypeOK

LEMMA PanelKeeps ==
  ASSUME TypeOK, FlowInv, PanelStep
  PROVE  CmdKept /\ files' \in [Names -> Sizes \cup {Absent, Dir}] /\ UNCHANGED <<reply, data, env>>
<1> USE FTPTransfersAssumption
<1>1. 0 \in Sizes
  BY DEF Sizes
<1>2. ASSUME UNCHANGED cmd PROVE CmdKept
  BY <1>2 DEF CmdKept, FlowInv, TypeOK
<1>3. ASSUME NEW n \in Names, NEW size \in Sizes, uploadFtpFile(n, size)
      PROVE  CmdKept /\ files' \in [Names -> Sizes \cup {Absent, Dir}] /\ UNCHANGED <<reply, data, env>>
  BY <1>2, <1>3 DEF uploadFtpFile, TypeOK
<1>4. ASSUME NEW n \in Names, deleteFtpFile(n)
      PROVE  CmdKept /\ files' \in [Names -> Sizes \cup {Absent, Dir}] /\ UNCHANGED <<reply, data, env>>
  BY <1>4, KeptByUnlinking DEF deleteFtpFile, TypeOK
<1>5. ASSUME NEW n \in Names, mkdirFtp(n)
      PROVE  CmdKept /\ files' \in [Names -> Sizes \cup {Absent, Dir}] /\ UNCHANGED <<reply, data, env>>
  BY <1>2, <1>5 DEF mkdirFtp, TypeOK
<1>6. ASSUME NEW m \in Names, NEW n \in Names, renameFtpFile(m, n)
      PROVE  CmdKept /\ files' \in [Names -> Sizes \cup {Absent, Dir}] /\ UNCHANGED <<reply, data, env>>
  <2>1. ASSUME NEW t \in Sessions
        PROVE  /\ cmd'[t] \in Command /\ cmd'[t].conn = cmd[t].conn /\ cmd'[t].at = cmd[t].at
    <3>1. cmd[t] \in Command
      BY <2>1 DEF TypeOK
    <3>2. /\ [cmd[t] EXCEPT !.fd = n] \in Command
          /\ [cmd[t] EXCEPT !.fd = n].conn = cmd[t].conn /\ [cmd[t] EXCEPT !.fd = n].at = cmd[t].at
      BY <3>1, RenamedTyped
    <3>3. cmd'[t] = IF cmd[t].fd = m THEN [cmd[t] EXCEPT !.fd = n] ELSE Unlinked(n)[t]
      BY <1>6, <2>1 DEF renameFtpFile
    <3>4. /\ Unlinked(n)[t] \in Command
          /\ Unlinked(n)[t].conn = cmd[t].conn /\ Unlinked(n)[t].at = cmd[t].at
      BY <2>1, UnlinkedTyped
    <3> QED
      BY <3>2, <3>3, <3>4
  <2>2. DOMAIN cmd' = Sessions /\ cmd' = [t \in Sessions |-> cmd'[t]]
    BY <1>6 DEF renameFtpFile
  <2>3. CmdKept
    BY <2>1, <2>2 DEF CmdKept, FlowInv
  <2> QED
    BY <1>6, <2>3 DEF renameFtpFile, TypeOK
<1>7. ASSUME NEW m \in Names, NEW n \in Names, copyFtpFile(m, n)
      PROVE  CmdKept /\ files' \in [Names -> Sizes \cup {Absent, Dir}] /\ UNCHANGED <<reply, data, env>>
  BY <1>1, <1>2, <1>7 DEF copyFtpFile, TypeOK
<1> QED
  BY <1>3, <1>4, <1>5, <1>6, <1>7 DEF PanelStep

-----------------------------------------------------------------------------
\* The goroutine of one PASV goes on.
LEMMA GoroutineMoves ==
  ASSUME TypeOK, NEW s \in Sessions, NEW n \in 1..Opens, NEW now,
         NEW next \in {"listening", "connected", "stored", "done", "dead"},
         GoroutineAt(s, n, now, next)
  PROVE  /\ acc' \in [Sessions -> [1..Opens -> {"none", "listening", "connected", "stored", "done", "dead"}]]
         /\ acc[s][n] = now /\ acc'[s][n] = next
         /\ \A m \in 1..Opens : m # n => acc'[s][m] = acc[s][m]
         /\ \A t \in Sessions : t # s => acc'[t] = acc[t]
BY DEF TypeOK, GoroutineAt

\* Giving up ends the last goroutine, unless it has its connection already.
LEMMA GivenUp ==
  ASSUME TypeOK, NEW s \in Sessions, GiveUp(s)
  PROVE  /\ acc' \in [Sessions -> [1..Opens -> {"none", "listening", "connected", "stored", "done", "dead"}]]
         /\ \A t \in Sessions : t # s => acc'[t] = acc[t]
         /\ \A m \in 1..Opens : \/ acc'[s][m] = acc[s][m]
                                \/ m = pasv[s] /\ acc[s][m] \in {"listening", "connected"} /\ acc'[s][m] = "dead"
<1> DEFINE n == pasv[s]
<1>1. PICK next \in CASE acc[s][n] = "listening" -> {"dead"}
                      [] acc[s][n] = "connected" -> {"connected", "dead"}
                      [] OTHER                   -> {acc[s][n]} :
        acc' = [acc EXCEPT ![s][n] = next]
  BY DEF GiveUp
<1>2. n \in 0..Opens
  BY DEF TypeOK
<1> HIDE DEF n
<1>3. CASE n \in 1..Opens
  <2>1. acc[s][n] \in {"none", "listening", "connected", "stored", "done", "dead"}
    <3>1. acc[s] \in [1..Opens -> {"none", "listening", "connected", "stored", "done", "dead"}]
      BY DEF TypeOK
    <3> QED
      BY <1>3, <3>1
  <2>2. \/ next = acc[s][n]
        \/ acc[s][n] \in {"listening", "connected"} /\ next = "dead"
    BY <1>1, <2>1
  <2>3. next \in {"none", "listening", "connected", "stored", "done", "dead"}
    BY <2>1, <2>2
  <2>4. /\ acc' \in [Sessions -> [1..Opens -> {"none", "listening", "connected", "stored", "done", "dead"}]]
        /\ acc'[s][n] = next /\ \A m \in 1..Opens : m # n => acc'[s][m] = acc[s][m]
        /\ \A t \in Sessions : t # s => acc'[t] = acc[t]
    <3>1. acc' = [acc EXCEPT ![s][n] = next]
      BY <1>1
    <3> QED
      BY <1>3, <2>3, <3>1 DEF TypeOK
  <2> QED
    BY <2>2, <2>4 DEF n
<1>4. CASE n = 0
  <2>1. acc' = acc
    BY <1>1, <1>4, FTPTransfersAssumption DEF TypeOK
  <2> QED
    BY <2>1 DEF TypeOK
<1> QED
  BY <1>2, <1>3, <1>4, FTPTransfersAssumption

\* A transfer takes what is in dataConn.
LEMMA HandedOver ==
  ASSUME TypeOK, FlowInv, NEW s \in Sessions, dataConn[s] # 0, HandOver(s)
  PROVE  /\ cmd' \in [Sessions -> Command] /\ FlowInv' /\ UNCHANGED acc
         /\ dataConn' \in [Sessions -> 0..Opens] /\ used' \in [Sessions -> 0..Opens]
         /\ cmd'[s].conn = dataConn[s] /\ dataConn'[s] = 0 /\ used'[s] = dataConn[s]
         /\ \A t \in Sessions : t # s => /\ cmd'[t] = cmd[t] /\ dataConn'[t] = dataConn[t]
                                         /\ used'[t] = used[t]
<1> DEFINE d == dataConn[s]
<1>1. cmd[s] \in Command /\ d \in 0..Active
  BY FTPTransfersAssumption DEF TypeOK, Active
<1>2. /\ [cmd[s] EXCEPT !.at = "open", !.conn = d] \in Command
      /\ [cmd[s] EXCEPT !.at = "open", !.conn = d].conn = d
      /\ [cmd[s] EXCEPT !.at = "open", !.conn = d].at = "open"
  <2> HIDE DEF d
  <2> QED
    BY <1>1, OpenedTyped
<1>3. cmd' = [cmd EXCEPT ![s] = [cmd[s] EXCEPT !.at = "open", !.conn = d]]
  BY DEF HandOver
<1>4. /\ cmd' \in [Sessions -> Command] /\ cmd'[s] = [cmd[s] EXCEPT !.at = "open", !.conn = d]
      /\ \A t \in Sessions : t # s => cmd'[t] = cmd[t]
  BY <1>2, <1>3, CmdMoves
<1>5. cmd'[s].conn = d /\ FlowInv'
  BY <1>2, <1>4 DEF FlowInv
<1> QED
  BY <1>4, <1>5, FTPTransfersAssumption DEF HandOver, TypeOK

\* Every state of the data connections is well typed.
THEOREM Typing == Spec => [](TypeOK /\ FlowInv)
<1> USE FTPTransfersAssumption
<1>1. Init => TypeOK /\ FlowInv
  <2> SUFFICES ASSUME Init PROVE TypeOK /\ FlowInv
    OBVIOUS
  <2>1. cmd \in [Sessions -> Command] /\ FlowInv
    BY IdleIsTyped DEF Init, FlowInv
  <2>2. reply \in [Sessions -> Reply]
    BY DEF Init, NoReply, Reply
  <2>3. files \in [Names -> Sizes \cup {Absent, Dir}]
    BY DEF Init, Sizes
  <2> QED
    BY <2>1, <2>2, <2>3 DEF Init, TypeOK
<1>2. TypeOK /\ FlowInv /\ [Next]_vars => TypeOK' /\ FlowInv'
  <2> SUFFICES ASSUME TypeOK, FlowInv, [Next]_vars PROVE TypeOK' /\ FlowInv'
    OBVIOUS
  <2>1. CASE PanelStep
    BY <2>1, PanelKeeps DEF CmdKept, TypeOK, data
  <2>2. ASSUME NEW s \in Sessions, FileStep(s) PROVE TypeOK' /\ FlowInv'
    BY <2>2, FileKeeps DEF CmdKept, TypeOK, data
  <2>3. ASSUME NEW s \in Sessions, PASV(s) PROVE TypeOK' /\ FlowInv'
    <3>1. pasv[s] + 1 \in 1..Opens
      BY <2>3 DEF PASV, TypeOK, EnvType
    <3>2. acc' \in [Sessions -> [1..Opens -> {"none", "listening", "connected", "stored", "done", "dead"}]]
      BY <2>3, <3>1 DEF PASV, TypeOK
    <3>3. left' \in [Sessions -> BOOLEAN]
      <4>1. (left[s] \/ Unused(s)) \in BOOLEAN
        OBVIOUS
      <4> QED
        BY <2>3, <4>1 DEF PASV, TypeOK
    <3>4. /\ pasv' \in [Sessions -> 0..Opens] /\ passive' \in [Sessions -> BOOLEAN]
          /\ token' \in [Sessions -> BOOLEAN]
      BY <2>3, <3>1 DEF PASV, TypeOK
    <3> QED
      BY <2>3, <3>2, <3>3, <3>4 DEF PASV, TypeOK, FlowInv
  <2>4. ASSUME NEW s \in Sessions, PORT(s) PROVE TypeOK' /\ FlowInv'
    BY <2>4 DEF PORT, TypeOK, FlowInv
  <2>5. ASSUME NEW s \in Sessions, NEW n \in 1..Opens, Dial(s, n) \/ Expire(s, n) PROVE TypeOK' /\ FlowInv'
    <3>1. CASE Dial(s, n)
      BY <3>1, GoroutineMoves DEF Dial, TypeOK, FlowInv
    <3>2. CASE Expire(s, n)
      BY <3>2, GoroutineMoves DEF Expire, TypeOK, FlowInv
    <3> QED
      BY <2>5, <3>1, <3>2
  <2>6. ASSUME NEW s \in Sessions, NEW n \in 1..Opens, Store(s, n) PROVE TypeOK' /\ FlowInv'
    <3>1. dataConn' \in [Sessions -> 0..Opens]
      BY <2>6 DEF Store, TypeOK
    <3> QED
      BY <2>6, <3>1, GoroutineMoves DEF Store, TypeOK, FlowInv
  <2>7. ASSUME NEW s \in Sessions, NEW n \in 1..Opens, Signal(s, n) PROVE TypeOK' /\ FlowInv'
    BY <2>7, GoroutineMoves DEF Signal, TypeOK, FlowInv
  <2>8. ASSUME NEW s \in Sessions, GetDataConnection(s) PROVE TypeOK' /\ FlowInv'
    <3>1. cmd[s] \in Command /\ cmd[s].conn = 0
      BY <2>8 DEF GetDataConnection, TypeOK, FlowInv
    <3>2. CASE passive[s] /\ dataConn[s] # 0 /\ HandOver(s)
      BY <2>8, <3>2, HandedOver DEF GetDataConnection, TypeOK
    <3>3. CASE cmd' = [cmd EXCEPT ![s] = [@ EXCEPT !.at = "waiting"]] /\ UNCHANGED <<dataConn, acc, used>>
      <4>1. cmd' = [cmd EXCEPT ![s] = [cmd[s] EXCEPT !.at = "waiting"]]
        BY <3>3
      <4>2. /\ [cmd[s] EXCEPT !.at = "waiting"] \in Command
            /\ [cmd[s] EXCEPT !.at = "waiting"].conn = 0
        BY <3>1, AtTyped
      <4> QED
        BY <2>8, <3>3, <4>1, <4>2, CmdMoves DEF GetDataConnection, TypeOK, FlowInv
    <3>4. CASE cmd' = [cmd EXCEPT ![s] = [@ EXCEPT !.at = "open", !.conn = Active]]
               /\ UNCHANGED <<dataConn, acc, used>>
      <4>1. cmd' = [cmd EXCEPT ![s] = [cmd[s] EXCEPT !.at = "open", !.conn = Active]]
        BY <3>4
      <4>2. Active \in 0..Active
        BY DEF Active
      <4>3. /\ [cmd[s] EXCEPT !.at = "open", !.conn = Active] \in Command
            /\ [cmd[s] EXCEPT !.at = "open", !.conn = Active].at = "open"
        BY <3>1, <4>2, OpenedTyped
      <4> QED
        BY <2>8, <3>4, <4>1, <4>3, CmdMoves DEF GetDataConnection, TypeOK, FlowInv
    <3>5. CASE cmd' = [cmd EXCEPT ![s] = Idle] /\ UNCHANGED <<dataConn, acc, used>>
      <4>1. cmd' \in [Sessions -> Command] /\ FlowInv'
        BY <3>5, IdleIsTyped, CmdMoves DEF FlowInv
      <4> QED
        BY <2>8, <3>5, <4>1 DEF GetDataConnection, TypeOK
    <3> QED
      BY <2>8, <3>2, <3>3, <3>4, <3>5 DEF GetDataConnection
  <2>9. ASSUME NEW s \in Sessions, Wake(s) PROVE TypeOK' /\ FlowInv'
    <3>1. token' \in [Sessions -> BOOLEAN]
      BY <2>9 DEF Wake, TypeOK
    <3>2. CASE dataConn[s] # 0
      BY <2>9, <3>1, <3>2, HandedOver DEF Wake, TypeOK
    <3>3. CASE dataConn[s] = 0
      <4>1. GiveUp(s) /\ UNCHANGED <<files, reply, passive, pasv, left, env>>
        BY <2>9, <3>3 DEF Wake
      <4>2. cmd' = [cmd EXCEPT ![s] = Idle] /\ UNCHANGED <<dataConn, used>>
        BY <4>1 DEF GiveUp
      <4> QED
        <5>1. cmd' \in [Sessions -> Command] /\ FlowInv'
          BY <4>2, IdleIsTyped, CmdMoves DEF FlowInv
        <5>2. acc' \in [Sessions -> [1..Opens -> {"none", "listening", "connected", "stored", "done", "dead"}]]
          BY <4>1, GivenUp
        <5> QED
          BY <3>1, <4>1, <4>2, <5>1, <5>2 DEF TypeOK
    <3> QED
      BY <3>2, <3>3
  <2>10. CASE UNCHANGED vars
    BY <2>10 DEF vars, data, TypeOK, FlowInv
  <2> QED
    BY <2>1, <2>2, <2>3, <2>4, <2>5, <2>6, <2>7, <2>8, <2>9, <2>10 DEF Next, DataStep, ServerStep
<1> QED
  BY <1>1, <1>2, PTL DEF Spec

-----------------------------------------------------------------------------
(* What is in dataConn was accepted for a PASV that was sent, and, while no *)
(* PASV was abandoned, for the last one; the goroutines of the others have  *)
(* nothing more to store.                                                   *)
ConnInv ==
  \A s \in Sessions :
    /\ used[s] <= pasv[s] /\ dataConn[s] <= pasv[s]
    /\ \A n \in 1..Opens : n > pasv[s] => acc[s][n] = "none"
    /\ used[s] # 0 => acc[s][used[s]] \in {"stored", "done"}
    /\ dataConn[s] # 0 => acc[s][dataConn[s]] \in {"stored", "done"}
    /\ ~ left[s] => /\ \A n \in 1..Opens : n < pasv[s] => acc[s][n] \in {"dead", "stored", "done"}
                    /\ dataConn[s] # 0 => dataConn[s] = pasv[s] /\ used[s] < pasv[s]

TransferInv == ConnInv /\ OwnConnection

\* A step that opens, stores and takes no connection.
LEMMA OthersKeep ==
  ASSUME ConnInv, OwnConnection, UNCHANGED data,
         \A t \in Sessions : cmd'[t].conn \in {cmd[t].conn, 0}
  PROVE  TransferInv'
<1>1. ConnInv'
  BY DEF data, ConnInv
<1>2. OwnConnection'
  BY DEF data, OwnConnection
<1> QED
  BY <1>1, <1>2 DEF TransferInv

LEMMA PasvKeeps ==
  ASSUME TypeOK, FlowInv, ConnInv, OwnConnection, NEW s \in Sessions, PASV(s) PROVE TransferInv'
<1> USE FTPTransfersAssumption
<1> DEFINE n == pasv[s]
<1>1. /\ n \in 0..Opens /\ n + 1 \in 1..Opens /\ cmd[s].conn = 0
      /\ UNCHANGED <<cmd, dataConn, used>>
  BY DEF PASV, TypeOK, EnvType, FlowInv
<1>2. /\ pasv'[s] = n + 1 /\ left'[s] = (left[s] \/ Unused(s))
      /\ \A t \in Sessions : t # s => pasv'[t] = pasv[t] /\ left'[t] = left[t] /\ acc'[t] = acc[t]
  BY DEF PASV, TypeOK
<1>3. acc'[s][n + 1] = "listening" /\ \A m \in 1..Opens : m # n + 1 => acc'[s][m] = acc[s][m]
  BY <1>1 DEF PASV, TypeOK
<1>4. /\ used[s] \in 0..Opens /\ dataConn[s] \in 0..Opens
      /\ used[s] <= n /\ dataConn[s] <= n
  BY DEF TypeOK, ConnInv
<1>5. ~ left'[s] => dataConn[s] = 0 /\ (n # 0 => acc[s][n] \in {"dead", "stored", "done"})
  <2>1. SUFFICES ASSUME ~ left[s], ~ Unused(s)
                 PROVE  dataConn[s] = 0 /\ (n # 0 => acc[s][n] \in {"dead", "stored", "done"})
    BY <1>2
  <2>2. /\ used[s] # 0 => acc[s][used[s]] \in {"stored", "done"}
        /\ dataConn[s] # 0 => /\ acc[s][dataConn[s]] \in {"stored", "done"}
                             /\ dataConn[s] = n /\ used[s] < n
    BY <2>1 DEF ConnInv
  <2>3. CASE used[s] = n
    BY <1>1, <1>4, <2>2, <2>3
  <2>4. CASE acc[s][n] = "dead"
    BY <2>2, <2>4
  <2>5. used[s] = n \/ acc[s][n] = "dead"
    BY <1>1, <1>4, <2>1 DEF Unused
  <2> QED
    BY <2>3, <2>4, <2>5
<1> HIDE DEF n
<1>6. ConnInv'
  <2> SUFFICES ASSUME NEW t \in Sessions
               PROVE  (/\ used[t] <= pasv[t] /\ dataConn[t] <= pasv[t]
                       /\ \A m \in 1..Opens : m > pasv[t] => acc[t][m] = "none"
                       /\ used[t] # 0 => acc[t][used[t]] \in {"stored", "done"}
                       /\ dataConn[t] # 0 => acc[t][dataConn[t]] \in {"stored", "done"}
                       /\ ~ left[t] => /\ \A m \in 1..Opens : m < pasv[t] => acc[t][m] \in {"dead", "stored", "done"}
                                       /\ dataConn[t] # 0 => dataConn[t] = pasv[t] /\ used[t] < pasv[t])'
    BY DEF ConnInv
  <2>1. CASE t # s
    BY <1>1, <1>2, <2>1 DEF ConnInv
  <2>2. CASE t = s
    <3>1. /\ used[s] # 0 => acc[s][used[s]] \in {"stored", "done"}
          /\ dataConn[s] # 0 => acc[s][dataConn[s]] \in {"stored", "done"}
          /\ \A m \in 1..Opens : m > n => acc[s][m] = "none"
          /\ ~ left[s] => \A m \in 1..Opens : m < n => acc[s][m] \in {"dead", "stored", "done"}
      BY DEF ConnInv, n
    <3> QED
      <4>1. /\ used'[s] <= pasv'[s] /\ dataConn'[s] <= pasv'[s]
            /\ \A m \in 1..Opens : m > pasv'[s] => acc'[s][m] = "none"
        BY <1>1, <1>2, <1>3, <1>4, <3>1
      <4>2. /\ used'[s] # 0 => acc'[s][used'[s]] \in {"stored", "done"}
            /\ dataConn'[s] # 0 => acc'[s][dataConn'[s]] \in {"stored", "done"}
        <5>1. \A m \in 1..n : acc'[s][m] = acc[s][m]
          BY <1>1, <1>3
        <5> QED
          BY <1>1, <1>4, <3>1, <5>1
      <4>3. ~ left'[s] => /\ \A m \in 1..Opens : m < pasv'[s] => acc'[s][m] \in {"dead", "stored", "done"}
                          /\ dataConn'[s] # 0 => dataConn'[s] = pasv'[s] /\ used'[s] < pasv'[s]
        <5>1. SUFFICES ASSUME ~ left'[s]
                       PROVE  /\ dataConn'[s] = 0
                              /\ \A m \in 1..Opens : m < n + 1 => acc'[s][m] \in {"dead", "stored", "done"}
          BY <1>2
        <5>2. ASSUME NEW m \in 1..Opens, m < n + 1 PROVE acc'[s][m] \in {"dead", "stored", "done"}
          <6>1. acc'[s][m] = acc[s][m]
            BY <1>1, <1>3, <5>2
          <6>2. CASE m < n
            BY <1>2, <3>1, <5>1, <5>2, <6>1, <6>2
          <6>3. CASE m = n
            BY <1>5, <5>1, <5>2, <6>1, <6>3
          <6> QED
            BY <1>1, <5>2, <6>2, <6>3
        <5> QED
          BY <1>1, <1>5, <5>1, <5>2
      <4> QED
        BY <2>2, <4>1, <4>2, <4>3
  <2> QED
    BY <2>1, <2>2
<1>7. OwnConnection'
  BY <1>1, <1>2 DEF OwnConnection
<1> QED
  BY <1>6, <1>7 DEF TransferInv

\* The steps of the goroutines that store nothing, and a command that gives up.
LEMMA GoroutineKeeps ==
  ASSUME TypeOK, ConnInv, OwnConnection, NEW s \in Sessions,
         UNCHANGED <<pasv, left, used, dataConn>>,
         \A t \in Sessions : t # s => acc'[t] = acc[t],
         \A m \in 1..Opens :
           \/ acc'[s][m] = acc[s][m]
           \/ acc[s][m] = "listening" /\ acc'[s][m] \in {"connected", "dead"}
           \/ acc[s][m] = "connected" /\ acc'[s][m] = "dead"
           \/ acc[s][m] = "stored" /\ acc'[s][m] = "done",
         \A t \in Sessions : cmd'[t].conn \in {cmd[t].conn, 0}
  PROVE  TransferInv'
<1>1. ConnInv'
  <2>1. \A t \in Sessions : \A m \in 1..Opens :
          /\ acc[t][m] = "none" => acc'[t][m] = "none"
          /\ acc[t][m] \in {"stored", "done"} => acc'[t][m] \in {"stored", "done"}
          /\ acc[t][m] \in {"dead", "stored", "done"} => acc'[t][m] \in {"dead", "stored", "done"}
    BY DEF TypeOK
  <2>2. \A t \in Sessions : used[t] \in 0..Opens /\ dataConn[t] \in 0..Opens
    BY DEF TypeOK
  <2> QED
    BY <2>1, <2>2, FTPTransfersAssumption DEF ConnInv
<1>2. OwnConnection'
  BY DEF OwnConnection
<1> QED
  BY <1>1, <1>2 DEF TransferInv

LEMMA StoreKeeps ==
  ASSUME TypeOK, ConnInv, OwnConnection, NEW s \in Sessions, NEW n \in 1..Opens, Store(s, n)
  PROVE  TransferInv'
<1> USE FTPTransfersAssumption
<1>1. /\ acc[s][n] = "connected" /\ acc'[s][n] = "stored"
      /\ \A m \in 1..Opens : m # n => acc'[s][m] = acc[s][m]
      /\ \A t \in Sessions : t # s => acc'[t] = acc[t]
  BY GoroutineMoves DEF Store
<1>2. /\ dataConn'[s] = n /\ \A t \in Sessions : t # s => dataConn'[t] = dataConn[t]
      /\ UNCHANGED <<cmd, pasv, used, left>>
  BY DEF Store, TypeOK
<1>3. used[s] \in 0..Opens /\ pasv[s] \in 0..Opens
  BY DEF TypeOK
<1>4. n <= pasv[s] /\ used[s] # n /\ (~ left[s] => n = pasv[s] /\ used[s] < pasv[s])
  BY <1>1, <1>3 DEF ConnInv
<1>5. ConnInv'
  BY <1>1, <1>2, <1>3, <1>4 DEF ConnInv
<1>6. OwnConnection'
  BY <1>2 DEF OwnConnection
<1> QED
  BY <1>5, <1>6 DEF TransferInv

LEMMA HandOverKeeps ==
  ASSUME TypeOK, FlowInv, ConnInv, OwnConnection, NEW s \in Sessions, dataConn[s] # 0, HandOver(s),
         UNCHANGED <<pasv, left>>
  PROVE  TransferInv'
<1>1. /\ UNCHANGED acc /\ cmd'[s].conn = dataConn[s] /\ dataConn'[s] = 0 /\ used'[s] = dataConn[s]
      /\ \A t \in Sessions : t # s => /\ cmd'[t] = cmd[t] /\ dataConn'[t] = dataConn[t]
                                      /\ used'[t] = used[t]
  BY HandedOver
<1>2. pasv[s] \in 0..Opens /\ dataConn[s] \in 0..Opens
  BY DEF TypeOK
<1>3. ConnInv'
  BY <1>1, <1>2, FTPTransfersAssumption DEF ConnInv
<1>4. OwnConnection'
  BY <1>1 DEF ConnInv, OwnConnection
<1> QED
  BY <1>3, <1>4 DEF TransferInv

\* A transfer runs over the connection of the last PASV, unless one was abandoned.
THEOREM OwnConnectionKept == Spec => []OwnConnection
<1> USE FTPTransfersAssumption
<1>1. Init => TransferInv
  <2>1. Init => OwnConnection
    BY IdleIsTyped DEF Init, OwnConnection
  <2>2. Init => ConnInv
    BY DEF Init, ConnInv
  <2> QED
    BY <2>1, <2>2 DEF TransferInv
<1>2. TypeOK /\ FlowInv /\ TransferInv /\ [Next]_vars => TransferInv'
  <2> SUFFICES ASSUME TypeOK, FlowInv, ConnInv, OwnConnection, [Next]_vars PROVE TransferInv'
    BY DEF TransferInv
  <2>1. CASE PanelStep
    BY <2>1, PanelKeeps, OthersKeep DEF CmdKept
  <2>2. ASSUME NEW s \in Sessions, FileStep(s) PROVE TransferInv'
    BY <2>2, FileKeeps, OthersKeep DEF CmdKept
  <2>3. ASSUME NEW s \in Sessions, PORT(s) PROVE TransferInv'
    BY <2>3 DEF PORT, TransferInv, ConnInv, OwnConnection
  <2>4. ASSUME NEW s \in Sessions, NEW n \in 1..Opens, Dial(s, n) PROVE TransferInv'
    <3>1. /\ acc[s][n] = "listening" /\ acc'[s][n] = "connected"
          /\ \A m \in 1..Opens : m # n => acc'[s][m] = acc[s][m]
          /\ \A t \in Sessions : t # s => acc'[t] = acc[t]
      BY <2>4, GoroutineMoves DEF Dial
    <3> QED
      BY <2>4, <3>1, GoroutineKeeps DEF Dial
  <2>5. ASSUME NEW s \in Sessions, NEW n \in 1..Opens, Expire(s, n) PROVE TransferInv'
    <3>1. /\ acc[s][n] = "listening" /\ acc'[s][n] = "dead"
          /\ \A m \in 1..Opens : m # n => acc'[s][m] = acc[s][m]
          /\ \A t \in Sessions : t # s => acc'[t] = acc[t]
      BY <2>5, GoroutineMoves DEF Expire
    <3> QED
      BY <2>5, <3>1, GoroutineKeeps DEF Expire
  <2>6. ASSUME NEW s \in Sessions, NEW n \in 1..Opens, Signal(s, n) PROVE TransferInv'
    <3>1. /\ acc[s][n] = "stored" /\ acc'[s][n] = "done"
          /\ \A m \in 1..Opens : m # n => acc'[s][m] = acc[s][m]
          /\ \A t \in Sessions : t # s => acc'[t] = acc[t]
      BY <2>6, GoroutineMoves DEF Signal
    <3> QED
      BY <2>6, <3>1, GoroutineKeeps DEF Signal
  <2>7. ASSUME NEW s \in Sessions, GetDataConnection(s) PROVE TransferInv'
    <3>1. cmd[s] \in Command /\ cmd[s].conn = 0 /\ UNCHANGED <<passive, token, pasv, left>>
      BY <2>7 DEF GetDataConnection, TypeOK, FlowInv
    <3>2. CASE passive[s] /\ dataConn[s] # 0 /\ HandOver(s)
      BY <3>1, <3>2, HandOverKeeps
    <3>3. CASE cmd' = [cmd EXCEPT ![s] = [@ EXCEPT !.at = "waiting"]] /\ UNCHANGED <<dataConn, acc, used>>
      <4>1. cmd' = [cmd EXCEPT ![s] = [cmd[s] EXCEPT !.at = "waiting"]]
        BY <3>3
      <4>2. /\ [cmd[s] EXCEPT !.at = "waiting"] \in Command
            /\ [cmd[s] EXCEPT !.at = "waiting"].conn = 0
        BY <3>1, AtTyped
      <4>3. \A t \in Sessions : cmd'[t].conn \in {cmd[t].conn, 0}
        BY <4>1, <4>2, CmdMoves
      <4> QED
        BY <3>1, <3>3, <4>3, OthersKeep DEF data
    <3>4. CASE cmd' = [cmd EXCEPT ![s] = [@ EXCEPT !.at = "open", !.conn = Active]]
               /\ UNCHANGED <<dataConn, acc, used>>
      <4>1. cmd' = [cmd EXCEPT ![s] = [cmd[s] EXCEPT !.at = "open", !.conn = Active]]
        BY <3>4
      <4>2. Active \in 0..Active /\ Active \notin 1..Opens
        BY DEF Active
      <4>3. /\ [cmd[s] EXCEPT !.at = "open", !.conn = Active] \in Command
            /\ [cmd[s] EXCEPT !.at = "open", !.conn = Active].conn = Active
        BY <3>1, <4>2, OpenedTyped
      <4>4. cmd'[s].conn = Active /\ \A t \in Sessions : t # s => cmd'[t] = cmd[t]
        BY <4>1, <4>3, CmdMoves
      <4>5. OwnConnection'
        BY <3>1, <4>2, <4>4 DEF OwnConnection
      <4>6. ConnInv'
        BY <3>1, <3>4 DEF ConnInv
      <4> QED
        BY <4>5, <4>6 DEF TransferInv
    <3>5. CASE cmd' = [cmd EXCEPT ![s] = Idle] /\ UNCHANGED <<dataConn, acc, used>>
      <4>1. \A t \in Sessions : cmd'[t].conn \in {cmd[t].conn, 0}
        BY <3>5, IdleIsTyped, CmdMoves
      <4> QED
        BY <3>1, <3>5, <4>1, OthersKeep DEF data
    <3> QED
      BY <2>7, <3>2, <3>3, <3>4, <3>5 DEF GetDataConnection
  <2>8. ASSUME NEW s \in Sessions, Wake(s) PROVE TransferInv'
    <3>1. UNCHANGED <<pasv, left>>
      BY <2>8 DEF Wake
    <3>2. CASE dataConn[s] # 0
      BY <2>8, <3>1, <3>2, HandOverKeeps DEF Wake
    <3>3. CASE dataConn[s] = 0
      <4>1. GiveUp(s)
        BY <2>8, <3>3 DEF Wake
      <4>2. cmd' = [cmd EXCEPT ![s] = Idle] /\ UNCHANGED <<dataConn, used>>
        BY <4>1 DEF GiveUp
      <4>3. \A t \in Sessions : cmd'[t].conn \in {cmd[t].conn, 0}
        BY <4>2, IdleIsTyped, CmdMoves
      <4>4. /\ \A t \in Sessions : t # s => acc'[t] = acc[t]
            /\ \A m \in 1..Opens :
                 \/ acc'[s][m] = acc[s][m]
                 \/ acc[s][m] = "listening" /\ acc'[s][m] \in {"connected", "dead"}
                 \/ acc[s][m] = "connected" /\ acc'[s][m] = "dead"
                 \/ acc[s][m] = "stored" /\ acc'[s][m] = "done"
        BY <4>1, GivenUp
      <4> QED
        BY <3>1, <4>2, <4>3, <4>4, GoroutineKeeps
    <3> QED
      BY <3>2, <3>3
  <2>9. CASE UNCHANGED vars
    BY <2>9 DEF vars, data, TransferInv, ConnInv, OwnConnection
  <2> QED
    BY <2>1, <2>2, <2>3, <2>4, <2>5, <2>6, <2>7, <2>8, <2>9, PasvKeeps, StoreKeeps
       DEF Next, DataStep, ServerStep
<1> QED
  BY <1>1, <1>2, Typing, PTL DEF Spec, TransferInv

-----------------------------------------------------------------------------
(* An upload works with a name of its session; the file it has open is one  *)
(* of those or of the panel, and, of a name nobody else works with, the one *)
(* it has created.                                                          *)
OpenInv ==
  \A t \in Sessions :
    /\ cmd[t].at \notin {"receiving", "removing"} => cmd[t].fd = Absent
    /\ cmd[t].op = "STOR" => cmd[t].name \in env.names[t]
    /\ cmd[t].fd # Absent => cmd[t].fd \in env.names[t] \cup env.panel /\ IsFile(cmd[t].fd)
    /\ /\ cmd[t].op = "STOR" /\ cmd[t].at \in {"receiving", "removing"}
       /\ cmd[t].name \in OwnNames(t)
       => cmd[t].fd = cmd[t].name

\* Only the panel makes a file that is larger than the limit.
SizesInv == \A n \in Names \ env.panel : files[n] \in 0..MaxSize \cup {Absent, Dir}

\* The last answer of the session s is so, if it is about a name of its own.
Told(s) ==
  reply[s].name \in OwnNames(s) =>
    /\ reply[s].code = "stored" => IsFile(reply[s].name)
    /\ reply[s].code \in {"too large", "removed"} => files[reply[s].name] = Absent
    /\ reply[s].code = "made" => files[reply[s].name] = Dir
    /\ reply[s].code # "none"

\* It is so until the session creates the file of its next upload.
RepliesInv ==
  \A s \in Sessions : cmd[s].at \in {"idle", "opening", "waiting", "open"} => Told(s)

\* The sessions that have counted the files and not yet created theirs.
Storing == {t \in Sessions : cmd[t].op = "STOR" /\ cmd[t].at \in {"opening", "waiting", "open"}}

Limited == MaxFiles # 0 /\ env.panel = {} /\ Cardinality(env.files) <= MaxFiles

\* Every session that may still create a file counted fewer than MaxFiles.
CountInv ==
  Limited => FileCount + Cardinality(Storing) <= MaxFiles + Cardinality(Sessions) - 1

UploadInv == OpenInv /\ SizesInv /\ RepliesInv /\ CountInv

(* A step that changes neither files nor answers: a session goes on with    *)
(* its command, gives it up before there is a file, or begins one that      *)
(* creates none.                                                            *)
Goes(c, r) ==
  \/ c.at \in {"idle", "opening", "waiting", "open"} /\ r = Idle
  \/ /\ SameFile(c, r)
     /\ r.at = c.at \/ {c.at, r.at} \subseteq {"opening", "waiting", "open"}
  \/ c.at = "idle" /\ r.at = "opening" /\ r.op \in {"LIST", "RETR"} /\ r.fd = c.fd

Quiet == UNCHANGED <<files, reply, env>> /\ \A t \in Sessions : Goes(cmd[t], cmd'[t])

\* The count of a limited directory, when the sets only shrink.
LEMMA CountsShrink ==
  ASSUME FTPTransfersAssumption, CountInv, UNCHANGED env, NEW F, F = {n \in Names : IsFile(n)},
         {n \in Names : IsFile(n)}' \subseteq F, Storing' \subseteq Storing
  PROVE  CountInv'
<1> DEFINE G == {n \in Names : files'[n] \in Int}
<1>1. FileCount = Cardinality(F) /\ FileCount' = Cardinality(G) /\ G \subseteq F
  BY DEF FileCount, IsFile
<1>2. IsFiniteSet(F) /\ IsFiniteSet(Storing)
  <2>1. F \in SUBSET Names /\ Storing \in SUBSET Sessions
    BY DEF Storing
  <2> QED
    BY <2>1, FS_Subset, FTPTransfersAssumption DEF FTPTransfersAssumption
<1> HIDE DEF G
<1>3. Cardinality(G) <= Cardinality(F) /\ Cardinality(Storing') <= Cardinality(Storing)
      /\ IsFiniteSet(G) /\ IsFiniteSet(Storing')
  BY <1>1, <1>2, FS_Subset
<1>4. /\ Cardinality(G) \in Nat /\ Cardinality(F) \in Nat /\ Cardinality(Storing') \in Nat
      /\ Cardinality(Storing) \in Nat /\ Cardinality(Sessions) \in Nat /\ MaxFiles \in Nat
  BY <1>2, <1>3, FS_CardinalityType, FTPTransfersAssumption
<1>5. Limited' = Limited
  BY DEF Limited
<1> QED
  BY <1>1, <1>3, <1>4, <1>5 DEF CountInv

LEMMA QuietKeeps ==
  ASSUME TypeOK, UploadInv, Quiet
  PROVE  UploadInv'
<1> USE FTPTransfersAssumption
<1>1. UNCHANGED <<files, reply, env>> /\ \A t \in Sessions : OwnNames(t)' = OwnNames(t)
  BY DEF Quiet, OwnNames
<1>2. ASSUME NEW t \in Sessions
      PROVE  \/ cmd[t].at \in {"idle", "opening", "waiting", "open"} /\ cmd'[t] = Idle
             \/ /\ SameFile(cmd[t], cmd'[t])
                /\ \/ cmd'[t].at = cmd[t].at
                   \/ /\ cmd[t].at \in {"opening", "waiting", "open"}
                      /\ cmd'[t].at \in {"opening", "waiting", "open"}
             \/ /\ cmd[t].at = "idle" /\ cmd'[t].at = "opening"
                /\ cmd'[t].op \in {"LIST", "RETR"} /\ cmd'[t].fd = cmd[t].fd
  BY <1>2 DEF Quiet, Goes
<1>3. /\ Idle.op = "none" /\ Idle.at = "idle" /\ Idle.fd = Absent
  BY DEF Idle
<1>4. OpenInv'
  BY <1>1, <1>2, <1>3 DEF UploadInv, OpenInv, SameFile, IsFile
<1>5. SizesInv'
  BY <1>1 DEF UploadInv, SizesInv
<1>6. RepliesInv'
  BY <1>1, <1>2, <1>3 DEF UploadInv, RepliesInv, Told, IsFile
<1>7. CountInv'
  <2>1. Storing' \subseteq Storing
    BY <1>2, <1>3 DEF Storing, SameFile
  <2>2. {n \in Names : IsFile(n)}' \subseteq {n \in Names : IsFile(n)}
    BY <1>1 DEF IsFile
  <2> QED
    BY <1>1, <2>1, <2>2, CountsShrink DEF UploadInv
<1> QED
  BY <1>4, <1>5, <1>6, <1>7 DEF UploadInv

(* The steps of the data connections, LIST, RETR and the end of a transfer  *)
(* to the client are quiet.                                                 *)
LEMMA OneGoes ==
  ASSUME TypeOK, NEW s \in Sessions, NEW r \in Command, cmd' = [cmd EXCEPT ![s] = r],
         Goes(cmd[s], r), UNCHANGED <<files, reply, env>>
  PROVE  Quiet
<1>1. ASSUME NEW t \in Sessions PROVE Goes(cmd[t], cmd'[t])
  <2>1. CASE t = s
    BY <2>1, CmdMoves
  <2>2. CASE t # s
    BY <2>2, CmdMoves DEF Goes, SameFile
  <2> QED
    BY <2>1, <2>2
<1> QED
  BY <1>1 DEF Quiet

LEMMA StillQuiet ==
  ASSUME UNCHANGED <<files, cmd, reply, env>>
  PROVE  Quiet
BY DEF Quiet, Goes, SameFile

LEMMA HandOverGoes ==
  ASSUME TypeOK, NEW s \in Sessions, HandOver(s), cmd[s].at \in {"opening", "waiting"},
         UNCHANGED <<files, reply, env>>
  PROVE  Quiet
<1> DEFINE d == dataConn[s]
<1>1. cmd[s] \in Command /\ d \in 0..Active
  BY FTPTransfersAssumption DEF TypeOK, Active
<1>2. cmd' = [cmd EXCEPT ![s] = [cmd[s] EXCEPT !.at = "open", !.conn = d]]
  BY DEF HandOver
<1> HIDE DEF d
<1>3. /\ [cmd[s] EXCEPT !.at = "open", !.conn = d] \in Command
      /\ [cmd[s] EXCEPT !.at = "open", !.conn = d].at = "open"
      /\ SameFile(cmd[s], [cmd[s] EXCEPT !.at = "open", !.conn = d])
  BY <1>1, OpenedTyped
<1>4. Goes(cmd[s], [cmd[s] EXCEPT !.at = "open", !.conn = d])
  BY <1>3 DEF Goes
<1> QED
  BY <1>2, <1>3, <1>4, OneGoes

LEMMA IdleGoes ==
  ASSUME TypeOK, NEW s \in Sessions, cmd' = [cmd EXCEPT ![s] = Idle],
         cmd[s].at \in {"idle", "opening", "waiting", "open"}, UNCHANGED <<files, reply, env>>
  PROVE  Quiet
BY IdleIsTyped, OneGoes DEF Goes

LEMMA GetDataConnectionIsQuiet ==
  ASSUME TypeOK, NEW s \in Sessions, GetDataConnection(s)
  PROVE  Quiet
<1>1. cmd[s] \in Command /\ cmd[s].at = "opening" /\ UNCHANGED <<files, reply, env>>
  BY DEF GetDataConnection, TypeOK
<1>2. CASE HandOver(s)
  BY <1>1, <1>2, HandOverGoes
<1>3. CASE cmd' = [cmd EXCEPT ![s] = [@ EXCEPT !.at = "waiting"]]
  <2>1. cmd' = [cmd EXCEPT ![s] = [cmd[s] EXCEPT !.at = "waiting"]]
    BY <1>3
  <2>2. /\ [cmd[s] EXCEPT !.at = "waiting"] \in Command
        /\ [cmd[s] EXCEPT !.at = "waiting"].at = "waiting"
        /\ SameFile(cmd[s], [cmd[s] EXCEPT !.at = "waiting"])
    BY <1>1, AtTyped
  <2>3. Goes(cmd[s], [cmd[s] EXCEPT !.at = "waiting"])
    BY <1>1, <2>2 DEF Goes
  <2> QED
    BY <1>1, <2>1, <2>2, <2>3, OneGoes
<1>4. CASE cmd' = [cmd EXCEPT ![s] = [@ EXCEPT !.at = "open", !.conn = Active]]
  <2>1. cmd' = [cmd EXCEPT ![s] = [cmd[s] EXCEPT !.at = "open", !.conn = Active]]
    BY <1>4
  <2>2. Active \in 0..Active
    BY FTPTransfersAssumption DEF Active
  <2>3. /\ [cmd[s] EXCEPT !.at = "open", !.conn = Active] \in Command
        /\ [cmd[s] EXCEPT !.at = "open", !.conn = Active].at = "open"
        /\ SameFile(cmd[s], [cmd[s] EXCEPT !.at = "open", !.conn = Active])
    BY <1>1, <2>2, OpenedTyped
  <2>4. Goes(cmd[s], [cmd[s] EXCEPT !.at = "open", !.conn = Active])
    BY <1>1, <2>3 DEF Goes
  <2> QED
    BY <1>1, <2>1, <2>3, <2>4, OneGoes
<1>5. CASE cmd' = [cmd EXCEPT ![s] = Idle]
  BY <1>1, <1>5, IdleGoes
<1> QED
  BY <1>2, <1>3, <1>4, <1>5 DEF GetDataConnection

LEMMA WakeIsQuiet ==
  ASSUME TypeOK, NEW s \in Sessions, Wake(s)
  PROVE  Quiet
<1>1. cmd[s].at = "waiting" /\ UNCHANGED <<files, reply, env>> /\ (HandOver(s) \/ GiveUp(s))
  BY DEF Wake
<1>2. CASE HandOver(s)
  BY <1>1, <1>2, HandOverGoes
<1>3. CASE GiveUp(s)
  BY <1>1, <1>3, IdleGoes DEF GiveUp
<1> QED
  BY <1>1, <1>2, <1>3

\* What beginning a command does to the session's.
LEMMA Begins ==
  ASSUME TypeOK, NEW s \in Sessions, NEW op \in {"LIST", "RETR", "STOR"},
         NEW n \in Names \cup {Absent}, Begin(s, op, n)
  PROVE  /\ cmd[s].at = "idle" /\ UNCHANGED <<files, reply, env>>
         /\ cmd'[s].op = op /\ cmd'[s].at = "opening" /\ cmd'[s].name = n
         /\ cmd'[s].fd = cmd[s].fd
         /\ \A t \in Sessions : t # s => cmd'[t] = cmd[t]
<1>1. cmd[s] \in Command
  BY DEF TypeOK
<1>2. cmd' = [cmd EXCEPT ![s] = [cmd[s] EXCEPT !.op = op, !.at = "opening", !.name = n]]
  BY DEF Begin
<1>3. /\ [cmd[s] EXCEPT !.op = op, !.at = "opening", !.name = n] \in Command
      /\ [cmd[s] EXCEPT !.op = op, !.at = "opening", !.name = n].at = "opening"
      /\ [cmd[s] EXCEPT !.op = op, !.at = "opening", !.name = n].op = op
      /\ [cmd[s] EXCEPT !.op = op, !.at = "opening", !.name = n].name = n
      /\ [cmd[s] EXCEPT !.op = op, !.at = "opening", !.name = n].fd = cmd[s].fd
  BY <1>1 DEF Command
<1>4. /\ cmd'[s] = [cmd[s] EXCEPT !.op = op, !.at = "opening", !.name = n]
      /\ \A t \in Sessions : t # s => cmd'[t] = cmd[t]
  BY <1>2, <1>3, CmdMoves
<1> QED
  BY <1>3, <1>4 DEF Begin

LEMMA ReadingIsQuiet ==
  ASSUME TypeOK, NEW s \in Sessions, NEW op \in {"LIST", "RETR"},
         NEW n \in Names \cup {Absent}, Begin(s, op, n)
  PROVE  Quiet
<1>1. /\ cmd[s].at = "idle" /\ UNCHANGED <<files, reply, env>>
      /\ cmd'[s].op = op /\ cmd'[s].at = "opening" /\ cmd'[s].fd = cmd[s].fd
      /\ \A t \in Sessions : t # s => cmd'[t] = cmd[t]
  BY Begins
<1> QED
  BY <1>1 DEF Quiet, Goes, SameFile

-----------------------------------------------------------------------------
(* The steps that change files.                                             *)

LEMMA OwnIsOwn ==
  ASSUME NEW s \in Sessions, NEW n \in OwnNames(s)
  PROVE  n \in env.names[s] /\ n \notin env.panel /\ \A t \in Sessions : t # s => n \notin env.names[t]
BY DEF OwnNames

\* What a session was told stays so while its names and its answer do.
LEMMA ToldStays ==
  ASSUME NEW t \in Sessions, Told(t), UNCHANGED env, reply'[t] = reply[t],
         \A n \in OwnNames(t) : files'[n] = files[n]
  PROVE  Told(t)'
<1>1. OwnNames(t)' = OwnNames(t)
  BY DEF OwnNames
<1> QED
  BY <1>1 DEF Told, IsFile

LEMMA CountedSets ==
  /\ IsFiniteSet({n \in Names : IsFile(n)}) /\ IsFiniteSet(Storing) /\ IsFiniteSet(Sessions)
  /\ FileCount = Cardinality({n \in Names : IsFile(n)}) /\ FileCount \in Nat
  /\ Cardinality(Storing) \in Nat /\ Cardinality(Storing) <= Cardinality(Sessions)
  /\ Cardinality(Sessions) \in Nat /\ MaxFiles \in Nat
<1>1. {n \in Names : IsFile(n)} \in SUBSET Names /\ Storing \in SUBSET Sessions
  BY DEF Storing
<1>2. /\ IsFiniteSet(Names) /\ IsFiniteSet(Sessions) /\ MaxFiles \in Nat
  BY FTPTransfersAssumption
<1>3. /\ IsFiniteSet({n \in Names : IsFile(n)}) /\ IsFiniteSet(Storing)
      /\ Cardinality(Storing) <= Cardinality(Sessions)
  BY <1>1, <1>2, FS_Subset
<1> QED
  BY <1>2, <1>3, FS_CardinalityType DEF FileCount

\* STOR: the session that has counted fewer than MaxFiles.
LEMMA StorKeeps ==
  ASSUME TypeOK, UploadInv, NEW s \in Sessions, NEW n \in env.names[s], STOR(s, n)
  PROVE  UploadInv'
<1> USE FTPTransfersAssumption
<1>1. n \in Names
  BY DEF TypeOK, EnvType
<1>2. /\ cmd[s].at = "idle" /\ UNCHANGED <<files, reply, env>>
      /\ cmd'[s].op = "STOR" /\ cmd'[s].at = "opening" /\ cmd'[s].name = n
      /\ cmd'[s].fd = cmd[s].fd
      /\ \A t \in Sessions : t # s => cmd'[t] = cmd[t]
  BY <1>1, Begins DEF STOR
<1>3. \A t \in Sessions : OwnNames(t)' = OwnNames(t)
  BY <1>2 DEF OwnNames
<1>4. OpenInv'
  BY <1>2, <1>3 DEF UploadInv, OpenInv, IsFile
<1>5. SizesInv' /\ RepliesInv'
  BY <1>2, <1>3 DEF UploadInv, SizesInv, RepliesInv, Told, IsFile
<1>6. CountInv'
  <2>1. SUFFICES ASSUME Limited'
                 PROVE  FileCount' + Cardinality(Storing') <= MaxFiles + Cardinality(Sessions) - 1
    BY DEF CountInv
  <2>2. FileCount < MaxFiles /\ FileCount' = FileCount
    BY <1>2, <2>1 DEF Limited, STOR, HasRoomForAFile, FileCount, IsFile
  <2>3. /\ Storing' \in SUBSET Sessions /\ IsFiniteSet(Sessions)
    BY DEF Storing
  <2>4. /\ IsFiniteSet(Storing') /\ Cardinality(Storing') <= Cardinality(Sessions)
    BY <2>3, FS_Subset
  <2>5. /\ Cardinality(Storing') \in Nat /\ Cardinality(Sessions) \in Nat
        /\ FileCount \in Nat /\ MaxFiles \in Nat
    BY <2>4, CountedSets, FS_CardinalityType
  <2> QED
    BY <2>2, <2>4, <2>5
<1> QED
  BY <1>4, <1>5, <1>6 DEF UploadInv

LEMMA CreateKeeps ==
  ASSUME TypeOK, UploadInv, NEW s \in Sessions, Create(s)
  PROVE  UploadInv'
<1> USE FTPTransfersAssumption
<1> DEFINE n == cmd[s].name
<1>1. /\ cmd[s] \in Command /\ cmd[s].op = "STOR" /\ cmd[s].at = "open" /\ n \in env.names[s]
      /\ n \in Names /\ cmd[s].fd = Absent
  BY DEF Create, At, TypeOK, UploadInv, OpenInv, EnvType
<1>2. CASE files[n] = Dir
  <2>1. cmd' = [cmd EXCEPT ![s] = Idle] /\ UNCHANGED <<files, reply, env>>
    BY <1>2 DEF Create
  <2>2. Quiet
    BY <1>1, <2>1, IdleGoes
  <2> QED
    BY <2>2, QuietKeeps
<1>3. CASE files[n] # Dir
  <2> HIDE DEF n
  <2>1. /\ cmd' = [cmd EXCEPT ![s] = [cmd[s] EXCEPT !.at = "receiving", !.fd = n]]
        /\ files' = [files EXCEPT ![n] = 0] /\ UNCHANGED <<reply, env>>
    BY <1>3 DEF Create, n
  <2>2. /\ [cmd[s] EXCEPT !.at = "receiving", !.fd = n] \in Command
        /\ [cmd[s] EXCEPT !.at = "receiving", !.fd = n].at = "receiving"
        /\ [cmd[s] EXCEPT !.at = "receiving", !.fd = n].fd = n
        /\ [cmd[s] EXCEPT !.at = "receiving", !.fd = n].op = "STOR"
        /\ [cmd[s] EXCEPT !.at = "receiving", !.fd = n].name = n
    BY <1>1 DEF Command, n
  <2>3. /\ cmd'[s].at = "receiving" /\ cmd'[s].fd = n /\ cmd'[s].op = "STOR" /\ cmd'[s].name = n
        /\ \A t \in Sessions : t # s => cmd'[t] = cmd[t]
    BY <2>1, <2>2, CmdMoves
  <2>4. files'[n] = 0 /\ \A m \in Names : m # n => files'[m] = files[m]
    BY <1>1, <2>1 DEF TypeOK
  <2>5. \A t \in Sessions : OwnNames(t)' = OwnNames(t)
    BY <2>1 DEF OwnNames
  <2>6. OpenInv'
    <3>1. ASSUME NEW m \in Names, IsFile(m) PROVE IsFile(m)'
      BY <2>4, <3>1 DEF IsFile
    <3>2. files'[n] \in Int
      BY <2>4
    <3>3. \A t \in Sessions : cmd[t].fd \in Names \cup {Absent}
      BY DEF TypeOK, Command
    <3> QED
      BY <1>1, <2>1, <2>3, <2>5, <3>1, <3>2, <3>3 DEF UploadInv, OpenInv, IsFile
  <2>7. SizesInv'
    BY <2>1, <2>4 DEF UploadInv, SizesInv
  <2>8. RepliesInv'
    <3>1. ASSUME NEW t \in Sessions, cmd'[t].at \in {"idle", "opening", "waiting", "open"}
          PROVE  Told(t)'
      <4>1. t # s /\ Told(t)
        BY <2>3, <3>1 DEF UploadInv, RepliesInv
      <4>2. \A m \in OwnNames(t) : m \in Names /\ m # n
        BY <1>1, <4>1 DEF OwnNames, TypeOK, EnvType
      <4> QED
        BY <2>1, <2>4, <4>1, <4>2, ToldStays
    <3> QED
      BY <3>1 DEF RepliesInv
  <2>9. CountInv'
    <3> DEFINE F == {m \in Names : IsFile(m)}
               G == {m \in Names : files'[m] \in Int}
               P == Storing
    <3>1. SUFFICES ASSUME Limited'
                   PROVE  FileCount' + Cardinality(Storing') <= MaxFiles + Cardinality(Sessions) - 1
      BY DEF CountInv
    <3>2. FileCount + Cardinality(P) <= MaxFiles + Cardinality(Sessions) - 1
      BY <2>1, <3>1 DEF UploadInv, CountInv, Limited
    <3>3. /\ IsFiniteSet(F) /\ IsFiniteSet(P) /\ FileCount = Cardinality(F) /\ FileCount \in Nat
          /\ Cardinality(P) \in Nat /\ Cardinality(Sessions) \in Nat /\ MaxFiles \in Nat
      BY CountedSets
    <3>4. G \subseteq F \cup {n} /\ s \in P /\ FileCount' = Cardinality(G)
      BY <1>1, <2>4 DEF IsFile, Storing, FileCount
    <3>5. Storing' = P \ {s}
      BY <2>3 DEF Storing
    <3> HIDE DEF F, G, P
    <3>6. IsFiniteSet(F \cup {n}) /\ Cardinality(F \cup {n}) <= Cardinality(F) + 1
      <4>1. /\ IsFiniteSet(F \cup {n})
            /\ Cardinality(F \cup {n}) = IF n \in F THEN Cardinality(F) ELSE Cardinality(F) + 1
        BY <3>3, FS_AddElement, Zenon
      <4> QED
        BY <3>3, <4>1
    <3>7. IsFiniteSet(G) /\ Cardinality(G) <= Cardinality(F \cup {n})
      BY <3>4, <3>6, FS_Subset
    <3>8. Cardinality(P \ {s}) = Cardinality(P) - 1
      BY <3>3, <3>4, FS_RemoveElement
    <3>9. Cardinality(G) \in Nat /\ Cardinality(F \cup {n}) \in Nat
      BY <3>6, <3>7, FS_CardinalityType
    <3> QED
      BY <3>2, <3>3, <3>4, <3>5, <3>6, <3>7, <3>8, <3>9
  <2> QED
    BY <2>6, <2>7, <2>8, <2>9 DEF UploadInv
<1> QED
  BY <1>2, <1>3

LEMMA ReceiveKeeps ==
  ASSUME TypeOK, UploadInv, NEW s \in Sessions, Receive(s)
  PROVE  UploadInv'
<1> USE FTPTransfersAssumption
<1>1. /\ cmd[s] \in Command /\ cmd[s].op = "STOR" /\ cmd[s].at = "receiving"
      /\ UNCHANGED <<reply, env>> /\ \A t \in Sessions : OwnNames(t)' = OwnNames(t)
  BY DEF Receive, At, TypeOK, OwnNames
<1>2. /\ SameFile(cmd[s], cmd'[s]) /\ cmd'[s].at \in {"receiving", "removing"}
      /\ \A t \in Sessions : t # s => cmd'[t] = cmd[t]
  <2>1. CASE cmd[s].total = MaxSize
    <3>1. /\ [cmd[s] EXCEPT !.at = "removing"] \in Command
          /\ [cmd[s] EXCEPT !.at = "removing"].at = "removing"
          /\ SameFile(cmd[s], [cmd[s] EXCEPT !.at = "removing"])
      BY <1>1 DEF Command, SameFile
    <3>2. cmd' = [cmd EXCEPT ![s] = [cmd[s] EXCEPT !.at = "removing"]]
      BY <2>1 DEF Receive
    <3> QED
      BY <3>1, <3>2, CmdMoves
  <2>2. CASE cmd[s].total # MaxSize
    <3> DEFINE m == cmd[s].total + 1
    <3>1. m \in 0..MaxSize
      BY <1>1, <2>2 DEF Command
    <3>2. cmd' = [cmd EXCEPT ![s].total = m]
      BY <2>2 DEF Receive
    <3> HIDE DEF m
    <3>3. cmd' = [cmd EXCEPT ![s] = [cmd[s] EXCEPT !.total = m]]
      BY <3>2
    <3>4. /\ [cmd[s] EXCEPT !.total = m] \in Command
          /\ [cmd[s] EXCEPT !.total = m].at = cmd[s].at
          /\ SameFile(cmd[s], [cmd[s] EXCEPT !.total = m])
      BY <1>1, <3>1, ReceivedTyped
    <3> QED
      BY <1>1, <3>3, <3>4, CmdMoves
  <2> QED
    BY <2>1, <2>2
<1>3. cmd[s].fd \in Names => cmd[s].fd \in env.names[s] \cup env.panel /\ files[cmd[s].fd] \in Int
  BY DEF UploadInv, OpenInv, IsFile
<1>4. ASSUME NEW m \in Names
      PROVE  \/ files'[m] = files[m]
             \/ m = cmd[s].fd /\ files[m] \in Int /\ files'[m] \in 0..MaxSize
  <2>1. CASE cmd[s].total = MaxSize
    BY <2>1 DEF Receive
  <2>2. CASE cmd[s].total # MaxSize /\ cmd[s].fd = Absent
    BY <2>2 DEF Receive
  <2>3. CASE cmd[s].total # MaxSize /\ cmd[s].fd # Absent
    <3>1. cmd[s].total + 1 \in 0..MaxSize /\ cmd[s].fd \in Names
      BY <1>1, <2>3 DEF Command
    <3>2. files' = [files EXCEPT ![cmd[s].fd] =
                      IF @ < cmd[s].total + 1 THEN cmd[s].total + 1 ELSE @]
      BY <2>3 DEF Receive
    <3> QED
      BY <1>3, <3>1, <3>2 DEF TypeOK
  <2> QED
    BY <2>1, <2>2, <2>3
<1>5. OpenInv'
  <2>1. \A m \in Names : IsFile(m) => IsFile(m)'
    BY <1>4 DEF IsFile
  <2>2. \A t \in Sessions : cmd[t].fd \in Names \cup {Absent}
    BY DEF TypeOK, Command
  <2>3. ASSUME NEW t \in Sessions
        PROVE  SameFile(cmd[t], cmd'[t]) /\ (cmd'[t].at = cmd[t].at \/ t = s)
    BY <1>1, <1>2 DEF SameFile
  <2> QED
    BY <1>1, <1>2, <2>1, <2>2, <2>3 DEF UploadInv, OpenInv, SameFile, IsFile
<1>6. SizesInv'
  BY <1>1, <1>4 DEF UploadInv, SizesInv
<1>7. RepliesInv'
  <2>1. ASSUME NEW t \in Sessions, cmd'[t].at \in {"idle", "opening", "waiting", "open"}
        PROVE  Told(t)'
    <3>1. t # s /\ Told(t)
      BY <1>2, <2>1 DEF UploadInv, RepliesInv
    <3>2. \A m \in OwnNames(t) : m \in Names /\ m # cmd[s].fd
      BY <1>3, <3>1 DEF OwnNames, TypeOK, EnvType
    <3>3. \A m \in OwnNames(t) : files'[m] = files[m]
      BY <1>4, <3>2
    <3> QED
      BY <1>1, <3>1, <3>3, ToldStays
  <2> QED
    BY <2>1 DEF RepliesInv
<1>8. CountInv'
  <2>1. {m \in Names : IsFile(m)}' \subseteq {m \in Names : IsFile(m)}
    BY <1>4 DEF IsFile
  <2>2. Storing' \subseteq Storing
    BY <1>2 DEF Storing
  <2> QED
    BY <1>1, <2>1, <2>2, CountsShrink DEF UploadInv
<1> QED
  BY <1>5, <1>6, <1>7, <1>8 DEF UploadInv

\* What was stored under a name of the session's own is there.
LEMMA EndOfFileKeeps ==
  ASSUME TypeOK, UploadInv, NEW s \in Sessions, EndOfFile(s)
  PROVE  UploadInv'
<1> USE FTPTransfersAssumption
<1>1. /\ cmd[s].op = "STOR" /\ cmd[s].at = "receiving" /\ UNCHANGED <<files, env>>
      /\ cmd[s].name \in Names \cup {Absent}
      /\ \A t \in Sessions : OwnNames(t)' = OwnNames(t)
  BY DEF EndOfFile, At, OwnNames, TypeOK, Command
<1>2. cmd'[s] = Idle /\ \A t \in Sessions : t # s => cmd'[t] = cmd[t]
  BY IdleIsTyped, CmdMoves DEF EndOfFile
<1>3. /\ reply'[s].code = "stored" /\ reply'[s].name = cmd[s].name
      /\ \A t \in Sessions : t # s => reply'[t] = reply[t]
  BY DEF EndOfFile, Replied, TypeOK
<1>4. Idle.op = "none" /\ Idle.at = "idle" /\ Idle.fd = Absent
  BY DEF Idle
<1>5. OpenInv'
  BY <1>1, <1>2, <1>4 DEF UploadInv, OpenInv, IsFile
<1>6. SizesInv'
  BY <1>1 DEF UploadInv, SizesInv
<1>7. RepliesInv'
  <2>1. ASSUME NEW t \in Sessions, t # s, cmd'[t].at \in {"idle", "opening", "waiting", "open"}
        PROVE  Told(t)'
    <3>1. Told(t)
      BY <1>2, <2>1 DEF UploadInv, RepliesInv
    <3> QED
      BY <1>1, <1>3, <2>1, <3>1, ToldStays
  <2>2. Told(s)'
    <3>1. SUFFICES ASSUME cmd[s].name \in OwnNames(s) PROVE files'[cmd[s].name] \in Int
      BY <1>1, <1>3 DEF Told, IsFile
    <3>2. cmd[s].fd = cmd[s].name /\ cmd[s].name \in Names
      BY <1>1, <3>1 DEF UploadInv, OpenInv, OwnNames, TypeOK, EnvType
    <3> QED
      BY <1>1, <3>2 DEF UploadInv, OpenInv, IsFile
  <2> QED
    BY <2>1, <2>2 DEF RepliesInv
<1>8. CountInv'
  <2>1. {m \in Names : IsFile(m)}' \subseteq {m \in Names : IsFile(m)}
    BY <1>1 DEF IsFile
  <2>2. Storing' \subseteq Storing
    BY <1>2, <1>4 DEF Storing
  <2> QED
    BY <1>1, <2>1, <2>2, CountsShrink DEF UploadInv
<1> QED
  BY <1>5, <1>6, <1>7, <1>8 DEF UploadInv

\* The commands when the name n is removed.
LEMMA UnlinkedFiles ==
  ASSUME TypeOK, NEW n, NEW t \in Sessions
  PROVE  /\ Unlinked(n)[t].op = cmd[t].op /\ Unlinked(n)[t].at = cmd[t].at
         /\ Unlinked(n)[t].name = cmd[t].name
         /\ Unlinked(n)[t].fd = IF cmd[t].fd = n THEN Absent ELSE cmd[t].fd
<1>1. cmd[t] \in Command
  BY DEF TypeOK
<1>2. /\ [cmd[t] EXCEPT !.fd = Absent].op = cmd[t].op
      /\ [cmd[t] EXCEPT !.fd = Absent].at = cmd[t].at
      /\ [cmd[t] EXCEPT !.fd = Absent].name = cmd[t].name
      /\ [cmd[t] EXCEPT !.fd = Absent].fd = Absent
  BY <1>1 DEF Command
<1>3. Unlinked(n)[t] = IF cmd[t].fd = n THEN [cmd[t] EXCEPT !.fd = Absent] ELSE cmd[t]
  BY DEF Unlinked
<1> QED
  BY <1>2, <1>3

(* A name that no session but those in Actors has for its own is removed;   *)
(* these are told so, and are idle then.                                    *)
LEMMA RemovalKeeps ==
  ASSUME TypeOK, UploadInv, UNCHANGED env, NEW Actors, NEW n \in Names,
         \A t \in Sessions \ Actors : n \notin OwnNames(t),
         files' = [files EXCEPT ![n] = Absent],
         \A t \in Sessions \ Actors : cmd'[t] = Unlinked(n)[t] /\ reply'[t] = reply[t],
         \A t \in Sessions \cap Actors :
           cmd'[t] \in {Idle, Unlinked(n)[t]} /\ cmd'[t].at = "idle" /\ Told(t)'
  PROVE  UploadInv'
<1> USE FTPTransfersAssumption
<1>1. /\ files'[n] = Absent /\ n # Absent /\ \A m \in Names : m # n => files'[m] = files[m]
      /\ \A t \in Sessions : OwnNames(t)' = OwnNames(t)
  BY DEF TypeOK, OwnNames
<1>2. ASSUME NEW t \in Sessions
      PROVE  \/ /\ cmd'[t].op = cmd[t].op /\ cmd'[t].at = cmd[t].at /\ cmd'[t].name = cmd[t].name
                /\ cmd'[t].fd = IF cmd[t].fd = n THEN Absent ELSE cmd[t].fd
                /\ n \notin OwnNames(t) \/ cmd[t].at = "idle"
             \/ cmd'[t].op = "none" /\ cmd'[t].at = "idle" /\ cmd'[t].fd = Absent
  <2>1. CASE t \in Actors
    BY <2>1, UnlinkedFiles DEF Idle
  <2>2. CASE t \notin Actors
    BY <2>2, UnlinkedFiles
  <2> QED
    BY <2>1, <2>2
<1>3. OpenInv'
  <2>1. \A m \in Names : m # n /\ IsFile(m) => IsFile(m)'
    BY <1>1 DEF IsFile
  <2>2. \A t \in Sessions : cmd[t].fd \in Names \cup {Absent}
    BY DEF TypeOK, Command
  <2> QED
    BY <1>1, <1>2, <2>1, <2>2 DEF UploadInv, OpenInv, IsFile
<1>4. SizesInv'
  BY <1>1 DEF UploadInv, SizesInv
<1>5. RepliesInv'
  <2>1. ASSUME NEW t \in Sessions \ Actors, cmd'[t].at \in {"idle", "opening", "waiting", "open"}
        PROVE  Told(t)'
    <3>1. Told(t) /\ reply'[t] = reply[t] /\ n \notin OwnNames(t)
      BY <2>1, UnlinkedFiles DEF UploadInv, RepliesInv
    <3>2. \A m \in OwnNames(t) : files'[m] = files[m]
      BY <1>1, <3>1 DEF OwnNames, TypeOK, EnvType
    <3> QED
      BY <3>1, <3>2, ToldStays
  <2> QED
    BY <2>1 DEF RepliesInv
<1>6. CountInv'
  <2>1. {m \in Names : IsFile(m)}' \subseteq {m \in Names : IsFile(m)}
    BY <1>1 DEF IsFile
  <2>2. Storing' \subseteq Storing
    BY <1>2 DEF Storing
  <2> QED
    BY <2>1, <2>2, CountsShrink DEF UploadInv
<1> QED
  BY <1>3, <1>4, <1>5, <1>6 DEF UploadInv

LEMMA RemoveTooLargeKeeps ==
  ASSUME TypeOK, UploadInv, NEW s \in Sessions, RemoveTooLarge(s)
  PROVE  UploadInv'
<1> USE FTPTransfersAssumption
<1> DEFINE n == cmd[s].name
<1>1. /\ n \in env.names[s] /\ n \in Names /\ UNCHANGED env
      /\ files' = [files EXCEPT ![n] = Absent] /\ cmd' = [Unlinked(n) EXCEPT ![s] = Idle]
  BY DEF RemoveTooLarge, At, UploadInv, OpenInv, TypeOK, EnvType
<1>2. /\ reply'[s].code = "too large" /\ reply'[s].name = n
      /\ \A t \in Sessions : t # s => reply'[t] = reply[t]
  BY DEF RemoveTooLarge, Replied, TypeOK
<1> HIDE DEF n
<1>3. cmd'[s] = Idle /\ \A t \in Sessions : t # s => cmd'[t] = Unlinked(n)[t]
  BY <1>1, UnlinkedTyped
<1>4. files'[n] = Absent
  BY <1>1 DEF TypeOK
<1>5. Told(s)'
  BY <1>1, <1>2, <1>4 DEF Told, OwnNames
<1>6. \A t \in Sessions \ {s} : n \notin OwnNames(t)
  BY <1>1 DEF OwnNames
<1>7. /\ \A t \in Sessions \ {s} : cmd'[t] = Unlinked(n)[t] /\ reply'[t] = reply[t]
      /\ \A t \in Sessions \cap {s} :
           cmd'[t] \in {Idle, Unlinked(n)[t]} /\ cmd'[t].at = "idle" /\ Told(t)'
  BY <1>2, <1>3, <1>5, IdleIsTyped
<1> QED
  BY <1>1, <1>6, <1>7, RemovalKeeps

LEMMA DeleKeeps ==
  ASSUME TypeOK, UploadInv, NEW s \in Sessions, NEW n \in env.names[s], DELE(s, n)
  PROVE  UploadInv'
<1> USE FTPTransfersAssumption
<1>1. /\ n \in Names /\ UNCHANGED env /\ cmd[s].at = "idle"
      /\ files' = [files EXCEPT ![n] = Absent] /\ cmd' = Unlinked(n)
  BY DEF DELE, TypeOK, EnvType
<1>2. /\ reply'[s].code = "removed" /\ reply'[s].name = n
      /\ \A t \in Sessions : t # s => reply'[t] = reply[t]
  BY DEF DELE, Replied, TypeOK
<1>3. cmd'[s].at = "idle"
  BY <1>1, UnlinkedFiles
<1>4. files'[n] = Absent
  BY <1>1 DEF TypeOK
<1>5. Told(s)'
  BY <1>1, <1>2, <1>4 DEF Told, OwnNames
<1>6. \A t \in Sessions \ {s} : n \notin OwnNames(t)
  BY <1>1 DEF OwnNames
<1>7. /\ \A t \in Sessions \ {s} : cmd'[t] = Unlinked(n)[t] /\ reply'[t] = reply[t]
      /\ \A t \in Sessions \cap {s} :
           cmd'[t] \in {Idle, Unlinked(n)[t]} /\ cmd'[t].at = "idle" /\ Told(t)'
  BY <1>1, <1>2, <1>3, <1>5
<1> QED
  BY <1>1, <1>6, <1>7, RemovalKeeps

LEMMA DeleteFtpFileKeeps ==
  ASSUME TypeOK, UploadInv, NEW n \in Names, deleteFtpFile(n)
  PROVE  UploadInv'
<1>1. /\ n \in env.panel /\ UNCHANGED <<reply, env>>
      /\ files' = [files EXCEPT ![n] = Absent] /\ cmd' = Unlinked(n)
  BY DEF deleteFtpFile
<1>2. \A t \in Sessions \ {} : n \notin OwnNames(t)
  BY <1>1 DEF OwnNames
<1>3. /\ \A t \in Sessions \ {} : cmd'[t] = Unlinked(n)[t] /\ reply'[t] = reply[t]
      /\ \A t \in Sessions \cap {} :
           cmd'[t] \in {Idle, Unlinked(n)[t]} /\ cmd'[t].at = "idle" /\ Told(t)'
  BY <1>1
<1> QED
  BY <1>1, <1>2, <1>3, RemovalKeeps

LEMMA MkdKeeps ==
  ASSUME TypeOK, UploadInv, NEW s \in Sessions, NEW n \in env.names[s], MKD(s, n)
  PROVE  UploadInv'
<1> USE FTPTransfersAssumption
<1>1. /\ n \in Names /\ UNCHANGED <<cmd, env>> /\ ~IsFile(n) /\ files'[n] = Dir
      /\ \A m \in Names : m # n => files'[m] = files[m]
      /\ \A t \in Sessions : OwnNames(t)' = OwnNames(t)
  BY DEF MKD, TypeOK, EnvType, OwnNames
<1>2. /\ reply'[s].code = "made" /\ reply'[s].name = n
      /\ \A t \in Sessions : t # s => reply'[t] = reply[t]
  BY DEF MKD, Replied, TypeOK
<1>3. OpenInv'
  <2>1. \A m \in Names : IsFile(m) => IsFile(m)'
    BY <1>1 DEF IsFile
  <2>2. \A t \in Sessions : cmd[t].fd \in Names \cup {Absent}
    BY DEF TypeOK, Command
  <2> QED
    BY <1>1, <2>1, <2>2 DEF UploadInv, OpenInv, IsFile
<1>4. SizesInv'
  BY <1>1 DEF UploadInv, SizesInv
<1>5. RepliesInv'
  <2>1. ASSUME NEW t \in Sessions, t # s, cmd'[t].at \in {"idle", "opening", "waiting", "open"}
        PROVE  Told(t)'
    <3>1. Told(t)
      BY <1>1, <2>1 DEF UploadInv, RepliesInv
    <3>2. \A m \in OwnNames(t) : m \in Names /\ m # n
      BY <2>1 DEF OwnNames, TypeOK, EnvType
    <3> QED
      BY <1>1, <1>2, <2>1, <3>1, <3>2, ToldStays
  <2>2. Told(s)'
    BY <1>1, <1>2 DEF Told, IsFile
  <2> QED
    BY <2>1, <2>2 DEF RepliesInv
<1>6. CountInv'
  <2>1. {m \in Names : IsFile(m)}' \subseteq {m \in Names : IsFile(m)}
    BY <1>1 DEF IsFile
  <2>2. Storing' \subseteq Storing
    BY <1>1 DEF Storing
  <2> QED
    BY <1>1, <2>1, <2>2, CountsShrink DEF UploadInv
<1> QED
  BY <1>3, <1>4, <1>5, <1>6 DEF UploadInv

(* The panel writes names of its own, and what is a file stays one.         *)
LEMMA PanelWriteKeeps ==
  ASSUME TypeOK, UploadInv, UNCHANGED <<cmd, reply, env>>, NEW n \in env.panel,
         \A m \in Names : m # n => files'[m] = files[m],
         files[n] \in Int => files'[n] \in Int
  PROVE  UploadInv'
<1> USE FTPTransfersAssumption
<1>1. \A t \in Sessions : OwnNames(t)' = OwnNames(t) /\ n \notin OwnNames(t)
  BY DEF OwnNames
<1>2. OpenInv'
  <2>1. \A m \in Names : IsFile(m) => IsFile(m)'
    BY DEF IsFile
  <2>2. \A t \in Sessions : cmd[t].fd \in Names \cup {Absent}
    BY DEF TypeOK, Command
  <2> QED
    BY <1>1, <2>1, <2>2 DEF UploadInv, OpenInv, IsFile
<1>3. SizesInv'
  BY DEF UploadInv, SizesInv
<1>4. RepliesInv'
  <2>1. ASSUME NEW t \in Sessions, cmd'[t].at \in {"idle", "opening", "waiting", "open"}
        PROVE  Told(t)'
    <3>1. Told(t)
      BY <2>1 DEF UploadInv, RepliesInv
    <3>2. \A m \in OwnNames(t) : m \in Names /\ m # n
      BY <1>1 DEF OwnNames, TypeOK, EnvType
    <3> QED
      BY <3>1, <3>2, ToldStays
  <2> QED
    BY <2>1 DEF RepliesInv
<1>5. CountInv'
  BY DEF CountInv, Limited
<1> QED
  BY <1>2, <1>3, <1>4, <1>5 DEF UploadInv

LEMMA RenameFtpFileKeeps ==
  ASSUME TypeOK, UploadInv, NEW m \in Names, NEW n \in Names, renameFtpFile(m, n)
  PROVE  UploadInv'
<1> USE FTPTransfersAssumption
<1>1. /\ {m, n} \subseteq env.panel /\ m # n /\ UNCHANGED <<reply, env>>
      /\ files'[m] = Absent /\ files'[n] = files[m]
      /\ \A k \in Names \ {m, n} : files'[k] = files[k]
      /\ \A t \in Sessions : OwnNames(t)' = OwnNames(t) /\ {m, n} \cap OwnNames(t) = {}
  BY DEF renameFtpFile, TypeOK, OwnNames
<1>2. ASSUME NEW t \in Sessions
      PROVE  /\ cmd'[t].op = cmd[t].op /\ cmd'[t].at = cmd[t].at /\ cmd'[t].name = cmd[t].name
             /\ cmd'[t].fd = IF cmd[t].fd = m THEN n ELSE IF cmd[t].fd = n THEN Absent ELSE cmd[t].fd
  <2>1. cmd'[t] = IF cmd[t].fd = m THEN [cmd[t] EXCEPT !.fd = n] ELSE Unlinked(n)[t]
    BY DEF renameFtpFile
  <2>2. cmd[t] \in Command
    BY DEF TypeOK
  <2>3. /\ [cmd[t] EXCEPT !.fd = n].op = cmd[t].op
        /\ [cmd[t] EXCEPT !.fd = n].at = cmd[t].at
        /\ [cmd[t] EXCEPT !.fd = n].name = cmd[t].name
        /\ [cmd[t] EXCEPT !.fd = n].fd = n
    BY <2>2 DEF Command
  <2>4. /\ Unlinked(n)[t].op = cmd[t].op /\ Unlinked(n)[t].at = cmd[t].at
        /\ Unlinked(n)[t].name = cmd[t].name
        /\ Unlinked(n)[t].fd = IF cmd[t].fd = n THEN Absent ELSE cmd[t].fd
    BY UnlinkedFiles
  <2> QED
    BY <1>1, <2>1, <2>3, <2>4
<1>3. OpenInv'
  <2>1. \A k \in Names \ {m, n} : IsFile(k) => IsFile(k)'
    BY <1>1 DEF IsFile
  <2>2. IsFile(m) => files'[n] \in Int
    BY <1>1 DEF IsFile
  <2>3. ASSUME NEW t \in Sessions
        PROVE  (/\ cmd[t].at \notin {"receiving", "removing"} => cmd[t].fd = Absent
                /\ cmd[t].op = "STOR" => cmd[t].name \in env.names[t]
                /\ cmd[t].fd # Absent => cmd[t].fd \in env.names[t] \cup env.panel /\ IsFile(cmd[t].fd)
                /\ /\ cmd[t].op = "STOR" /\ cmd[t].at \in {"receiving", "removing"}
                   /\ cmd[t].name \in OwnNames(t)
                   => cmd[t].fd = cmd[t].name)'
    <3>1. /\ cmd[t].at \notin {"receiving", "removing"} => cmd[t].fd = Absent
          /\ cmd[t].op = "STOR" => cmd[t].name \in env.names[t]
          /\ cmd[t].fd # Absent => cmd[t].fd \in env.names[t] \cup env.panel /\ IsFile(cmd[t].fd)
          /\ /\ cmd[t].op = "STOR" /\ cmd[t].at \in {"receiving", "removing"}
             /\ cmd[t].name \in OwnNames(t)
             => cmd[t].fd = cmd[t].name
      BY DEF UploadInv, OpenInv
    <3>2. cmd[t].fd \in Names \cup {Absent} /\ m # Absent
      BY DEF TypeOK, Command
    <3>3. CASE cmd[t].fd = m
      BY <1>1, <1>2, <2>2, <3>1, <3>2, <3>3 DEF IsFile
    <3>4. CASE cmd[t].fd = n
      BY <1>1, <1>2, <3>1, <3>4 DEF IsFile
    <3>5. CASE cmd[t].fd \notin {m, n}
      BY <1>1, <1>2, <2>1, <3>1, <3>2, <3>5 DEF IsFile
    <3> QED
      BY <3>3, <3>4, <3>5
  <2> QED
    BY <2>3 DEF OpenInv
<1>4. SizesInv'
  BY <1>1 DEF UploadInv, SizesInv
<1>5. RepliesInv'
  <2>1. ASSUME NEW t \in Sessions, cmd'[t].at \in {"idle", "opening", "waiting", "open"}
        PROVE  Told(t)'
    <3>1. Told(t)
      BY <1>2, <2>1 DEF UploadInv, RepliesInv
    <3>2. \A k \in OwnNames(t) : k \in Names \ {m, n}
      BY <1>1 DEF OwnNames, TypeOK, EnvType
    <3> QED
      BY <1>1, <3>1, <3>2, ToldStays
  <2> QED
    BY <2>1 DEF RepliesInv
<1>6. CountInv'
  BY <1>1 DEF CountInv, Limited
<1> QED
  BY <1>3, <1>4, <1>5, <1>6 DEF UploadInv

LEMMA UploadKeeps ==
  ASSUME TypeOK, UploadInv, [Next]_vars
  PROVE  UploadInv'
<1> USE FTPTransfersAssumption
<1>1. ASSUME NEW s \in Sessions, DataStep(s) PROVE UploadInv'
  <2>1. UNCHANGED <<files, cmd, reply, env>>
    BY <1>1 DEF DataStep, PASV, PORT, Dial, Expire
  <2> QED
    BY <2>1, StillQuiet, QuietKeeps
<1>2. ASSUME NEW s \in Sessions, ServerStep(s) PROVE UploadInv'
  <2>1. CASE GetDataConnection(s)
    BY <2>1, GetDataConnectionIsQuiet, QuietKeeps
  <2>2. CASE Wake(s)
    BY <2>2, WakeIsQuiet, QuietKeeps
  <2>3. CASE \E n \in 1..Opens : Store(s, n) \/ Signal(s, n)
    BY <2>3, StillQuiet, QuietKeeps DEF Store, Signal
  <2> QED
    BY <1>2, <2>1, <2>2, <2>3 DEF ServerStep
<1>3. ASSUME NEW s \in Sessions, FileStep(s) PROVE UploadInv'
  <2>1. CASE LIST(s)
    BY <2>1, ReadingIsQuiet, QuietKeeps DEF LIST
  <2>2. CASE Send(s)
    BY <2>2, IdleGoes, QuietKeeps DEF Send
  <2>3. ASSUME NEW n \in env.names[s], RETR(s, n) PROVE UploadInv'
    <3>1. n \in Names /\ Begin(s, "RETR", n)
      BY <2>3 DEF RETR, TypeOK, EnvType
    <3> QED
      BY <3>1, ReadingIsQuiet, QuietKeeps
  <2> QED
    BY <1>3, <2>1, <2>2, <2>3, StorKeeps, CreateKeeps, ReceiveKeeps, EndOfFileKeeps,
       RemoveTooLargeKeeps, DeleKeeps, MkdKeeps DEF FileStep
<1>4. CASE PanelStep
  <2>1. ASSUME NEW n \in Names, NEW size \in Sizes, uploadFtpFile(n, size) PROVE UploadInv'
    BY <2>1, PanelWriteKeeps DEF uploadFtpFile, TypeOK, Sizes
  <2>2. ASSUME NEW n \in Names, mkdirFtp(n) PROVE UploadInv'
    BY <2>2, PanelWriteKeeps DEF mkdirFtp, TypeOK, IsFile
  <2>3. ASSUME NEW m \in Names, NEW n \in Names, copyFtpFile(m, n) PROVE UploadInv'
    BY <2>3, PanelWriteKeeps DEF copyFtpFile, TypeOK, IsFile
  <2> QED
    BY <1>4, <2>1, <2>2, <2>3, DeleteFtpFileKeeps, RenameFtpFileKeeps DEF PanelStep
<1>5. CASE UNCHANGED vars
  BY <1>5, StillQuiet, QuietKeeps DEF vars
<1> QED
  BY <1>1, <1>2, <1>3, <1>4, <1>5 DEF Next

LEMMA UploadStarts == Init => UploadInv
<1> SUFFICES ASSUME Init PROVE UploadInv
  OBVIOUS
<1> USE FTPTransfersAssumption
<1>1. \A t \in Sessions : /\ cmd[t].op = "none" /\ cmd[t].at = "idle" /\ cmd[t].fd = Absent
                          /\ reply[t].name = Absent
  BY DEF Init, Idle, NoReply
<1>2. \A n \in Names : files[n] = IF n \in env.files THEN 0 ELSE Absent
  BY DEF Init
<1>3. env \in EnvType
  BY DEF Init
<1>4. OpenInv
  BY <1>1 DEF OpenInv
<1>5. SizesInv
  BY <1>2 DEF SizesInv
<1>6. RepliesInv
  <2>1. ASSUME NEW t \in Sessions PROVE OwnNames(t) \subseteq Names
    BY <1>3 DEF OwnNames, EnvType
  <2> QED
    BY <1>1, <2>1 DEF RepliesInv, Told
<1>7. CountInv
  <2>1. SUFFICES ASSUME Limited
                 PROVE  FileCount + Cardinality(Storing) <= MaxFiles + Cardinality(Sessions) - 1
    BY DEF CountInv
  <2>2. Storing = {} /\ {n \in Names : IsFile(n)} = env.files /\ Cardinality(env.files) <= MaxFiles
    BY <1>1, <1>2, <1>3, <2>1 DEF Storing, IsFile, EnvType, Limited
  <2>3. Cardinality(Storing) = 0 /\ FileCount = Cardinality(env.files)
    BY <2>2, FS_EmptySet DEF FileCount
  <2>4. Cardinality(Sessions) # 0
    BY FS_EmptySet
  <2> QED
    BY <2>2, <2>3, <2>4, CountedSets
<1> QED
  BY <1>4, <1>5, <1>6, <1>7 DEF UploadInv

(* What a session was last told of a file only it works with is so.         *)
THEOREM RepliesStayTrue == Spec => []RepliesTrue
<1>1. TypeOK /\ UploadInv => RepliesTrue
  <2> SUFFICES ASSUME TypeOK, UploadInv, NEW s \in Sessions,
                      cmd[s].at \in {"idle", "opening", "waiting"}, reply[s].name \in OwnNames(s)
               PROVE  LET f == files[reply[s].name]
                      IN CASE reply[s].code = "stored" -> f \in 0..MaxSize
                           [] reply[s].code \in {"too large", "removed"} -> f = Absent
                           [] reply[s].code = "made" -> f = Dir
    BY DEF RepliesTrue
  <2>1. /\ reply[s].code = "stored" => files[reply[s].name] \in Int
        /\ reply[s].code \in {"too large", "removed"} => files[reply[s].name] = Absent
        /\ reply[s].code = "made" => files[reply[s].name] = Dir
        /\ reply[s].code # "none"
    BY DEF UploadInv, RepliesInv, Told, IsFile
  <2>2. reply[s].code \in {"none", "stored", "too large", "removed", "made"}
    BY DEF TypeOK, Reply
  <2>3. files[reply[s].name] \in 0..MaxSize \cup {Absent, Dir}
    BY FTPTransfersAssumption DEF UploadInv, SizesInv, OwnNames, TypeOK, EnvType
  <2>4. Absent \notin Int /\ Dir \notin Int
    BY FTPTransfersAssumption
  <2> QED
    BY <2>1, <2>2, <2>3, <2>4
<1> QED
  BY <1>1, UploadStarts, UploadKeeps, Typing, PTL DEF Spec

(* The number of files exceeds the limit by less than the number of         *)
(* sessions.                                                                *)
THEOREM FileLimitStays == Spec => []FileLimit
<1>1. UploadInv => FileLimit
  <2> SUFFICES ASSUME CountInv PROVE FileLimit
    BY DEF UploadInv
  <2> QED
    BY CountedSets DEF CountInv, Limited, FileLimit
<1> QED
  BY <1>1, UploadStarts, UploadKeeps, Typing, PTL DEF Spec
=============================================================================
