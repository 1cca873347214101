------------------------- MODULE FTPSessions_proofs -------------------------
(* Proofs about the control connections of the FTP server.                  *)
EXTENDS FTPSessions, FiniteSetTheorems, TLAPS

(***************************************************************************)
(* Typing.                                                                 *)
(***************************************************************************)
LoginInv == \A c \in Conns : sess[c].st = "login" => sess[c].user \in Users

\* Releasing a count never makes it negative.
LEMMA CountReleased ==
  ASSUME NEW n \in [Users -> Nat], NEW u \in Users
  PROVE  Released(n, u) \in [Users -> Nat]
BY DEF Released

LEMMA SetSession ==
  ASSUME TypeOK, LoginInv, NEW c \in Conns, NEW r \in Session,
         r.st = "login" => r.user \in Users,
         sess' = [sess EXCEPT ![c] = r]
  PROVE  sess' \in [Conns -> Session] /\ LoginInv'
BY DEF LoginInv, TypeOK

\* Closing and forgetting several connections at once, as a stop does.
LEMMA SetSessions ==
  ASSUME TypeOK, LoginInv, NEW f \in [Conns -> Session],
         \A c \in Conns : f[c].st = "login" => f[c].user \in Users,
         sess' = f
  PROVE  sess' \in [Conns -> Session] /\ LoginInv'
BY DEF LoginInv

\* What a start and a stop note about the connections.
LEMMA SetMissed ==
  ASSUME TypeOK, LoginInv, NEW S \in SUBSET Conns, NEW m \in {"no", "held", "late"},
         sess' = [c \in Conns |-> IF c \in S THEN [sess[c] EXCEPT !.missed = m] ELSE sess[c]]
  PROVE  sess' \in [Conns -> Session] /\ LoginInv'
<1>1. \A c \in Conns : sess'[c] \in Session /\ sess'[c].st = sess[c].st /\ sess'[c].user = sess[c].user
  BY DEF TypeOK, Session
<1> QED
  BY <1>1 DEF LoginInv

LEMMA SomeLoops ==
  ASSUME env \in Environments
  PROVE  env.loops \in Nat /\ env.loops > 0
BY FTPSessionsAssumption DEF EnvType

LEMMA StartedTyped ==
  ASSUME TypeOK, LoginInv, Started
  PROVE  /\ sess' \in [Conns -> Session] /\ LoginInv'
         /\ listening' \in BOOLEAN /\ ftpRunning' \in BOOLEAN
         /\ loops' \in 0..env.loops /\ swept' \in 0..env.loops
<1> USE FTPSessionsAssumption
<1>1. CASE listening
  BY <1>1 DEF Started, TypeOK, LoginInv
<1>2. CASE ~listening
  <2>1. sess' = [c \in Conns |-> IF c \in Conns THEN [sess[c] EXCEPT !.missed = "no"] ELSE sess[c]]
    BY <1>2 DEF Started
  <2>2. sess' \in [Conns -> Session] /\ LoginInv'
    BY <2>1, SetMissed
  <2> QED
    BY <1>2, <2>2, SomeLoops DEF Started, TypeOK
<1> QED
  BY <1>1, <1>2

LEMMA StopBeginsTyped ==
  ASSUME TypeOK, LoginInv, StopBegins
  PROVE  sess' \in [Conns -> Session] /\ LoginInv' /\ swept' \in 0..env.loops
<1>1. Held \in SUBSET Conns
  BY DEF Held
<1> QED
  BY <1>1, SetMissed DEF StopBegins, TypeOK

LEMMA HeldIsFinite == IsFiniteSet(Held) /\ Cardinality(Held) \in Nat
<1>1. Held \subseteq Conns
  BY DEF Held
<1> QED
  BY <1>1, FTPSessionsAssumption, FS_Subset, FS_CardinalityType

\* The panel's requests mark and close connections, and touch no login.
LEMMA PanelKeepsLogins ==
  ASSUME TypeOK, startFTPSvc \/ stopFTPSvc \/ restartFTPSvc \/ RestartStart \/ StopClients
  PROVE  /\ \A c \in Conns : /\ sess'[c].tracked = sess[c].tracked
                             /\ sess'[c].loggedIn = sess[c].loggedIn
                             /\ sess'[c].user = sess[c].user
                             /\ sess'[c].max = sess[c].max
                             /\ sess'[c].st = sess[c].st
         /\ UNCHANGED <<userConns, limit>>
<1>1. UNCHANGED <<userConns, limit>>
  BY DEF startFTPSvc, stopFTPSvc, restartFTPSvc, RestartStart, StopClients, usersUnchanged
<1>2. CASE UNCHANGED sess
  BY <1>1, <1>2
<1>3. CASE \E m \in {"no", "held"} : \E S \in SUBSET Conns :
             sess' = [c \in Conns |-> IF c \in S THEN [sess[c] EXCEPT !.missed = m] ELSE sess[c]]
  BY <1>1, <1>3 DEF TypeOK, Session
<1>4. CASE StopClients
  BY <1>1, <1>4 DEF StopClients, TypeOK, Session
<1>5. CASE startFTPSvc \/ RestartStart
  <2>1. CASE listening
    BY <1>2, <1>5, <2>1 DEF startFTPSvc, RestartStart, Started
  <2>2. CASE ~listening
    <3>1. sess' = [c \in Conns |-> IF c \in Conns THEN [sess[c] EXCEPT !.missed = "no"] ELSE sess[c]]
      BY <1>5, <2>2 DEF startFTPSvc, RestartStart, Started
    <3> QED
      BY <1>3, <3>1
  <2> QED
    BY <2>1, <2>2
<1>6. CASE stopFTPSvc \/ restartFTPSvc
  <2>1. Held \in SUBSET Conns
    BY DEF Held
  <2>2. CASE StopBegins
    BY <1>3, <2>1, <2>2 DEF StopBegins
  <2>3. CASE ~StopBegins
    BY <1>2, <1>6, <2>3 DEF stopFTPSvc, restartFTPSvc
  <2> QED
    BY <2>2, <2>3
<1> QED
  BY <1>4, <1>5, <1>6

(***************************************************************************)
(* The state stays well typed; in particular no connection count is ever   *)
(* negative, although a client may release a count that was never taken.   *)
(***************************************************************************)
THEOREM Typing == Spec => [](TypeOK /\ LoginInv)
<1>1. Init => TypeOK /\ LoginInv
  <2> SUFFICES ASSUME Init PROVE TypeOK /\ LoginInv
    OBVIOUS
  <2>1. NoSession \in Session /\ NoSession.st = "none"
    BY FTPSessionsAssumption DEF NoSession, Session
  <2> QED
    BY <2>1, SomeLoops, FTPSessionsAssumption DEF Init, TypeOK, LoginInv, AdminStages
<1>2. TypeOK /\ LoginInv /\ [Next]_vars => TypeOK' /\ LoginInv'
  <2> SUFFICES ASSUME TypeOK, LoginInv, [Next]_vars PROVE TypeOK' /\ LoginInv'
    OBVIOUS
  <2> USE FTPSessionsAssumption DEF usersUnchanged, serviceUnchanged
  <2>1. ASSUME NEW c \in Conns, Client(c) PROVE TypeOK' /\ LoginInv'
    <3>0. sess[c] \in Session
      BY DEF TypeOK
    <3>01. 0 \in 0..MaxLimit
      OBVIOUS
    <3>1. CASE Connect(c)
      <4> DEFINE r == [sess[c] EXCEPT !.st = "waiting", !.open = TRUE]
      <4>1. r \in Session /\ (r.st = "login" => r.user \in Users)
        BY <3>0, <3>1 DEF Connect, Session, TypeOK, LoginInv
      <4>2. sess' = [sess EXCEPT ![c] = r]
        BY <3>1 DEF Connect
      <4> HIDE DEF r
      <4>3. sess' \in [Conns -> Session] /\ LoginInv'
        BY <4>1, <4>2, SetSession
      <4> QED
        BY <3>1, <4>3 DEF Connect, TypeOK
    <3>2. CASE Accept(c)
      <4> DEFINE m == IF Stopping THEN "late" ELSE "no"
                 r == [sess[c] EXCEPT !.st = "accepted", !.missed = m]
      <4>1. r \in Session /\ r.st = "accepted"
        <5>1. m \in {"no", "held", "late"}
          OBVIOUS
        <5> HIDE DEF m
        <5> QED
          BY <3>0, <5>1 DEF Session
      <4>2. sess' = [sess EXCEPT ![c] = r]
        BY <3>2 DEF Accept
      <4> HIDE DEF r
      <4>3. sess' \in [Conns -> Session] /\ LoginInv'
        BY <4>1, <4>2, SetSession
      <4> QED
        BY <3>2, <4>3 DEF Accept, TypeOK
    <3>11. CASE Store(c)
      <4> DEFINE r == [sess[c] EXCEPT !.st = "serving"]
      <4>1. r \in Session /\ r.st = "serving"
        BY <3>0 DEF Session
      <4>2. sess' = [sess EXCEPT ![c] = r]
        BY <3>11 DEF Store
      <4> HIDE DEF r
      <4>3. sess' \in [Conns -> Session] /\ LoginInv'
        BY <4>1, <4>2, SetSession
      <4> QED
        BY <3>11, <4>3 DEF Store, TypeOK
    <3>3. CASE HangUp(c)
      <4> DEFINE r == [sess[c] EXCEPT !.open = FALSE]
      <4>1. r \in Session /\ (r.st = "login" => r.user \in Users)
        BY <3>0, <3>3 DEF HangUp, Session, TypeOK, LoginInv
      <4>2. sess' = [sess EXCEPT ![c] = r]
        BY <3>3 DEF HangUp
      <4> HIDE DEF r
      <4>3. sess' \in [Conns -> Session] /\ LoginInv'
        BY <4>1, <4>2, SetSession
      <4> QED
        BY <3>3, <4>3 DEF HangUp, TypeOK
    <3>4. CASE PassRejected(c)
      <4> DEFINE r == [sess[c] EXCEPT !.user = NoUser]
      <4>1. r \in Session /\ (r.st = "login" => r.user \in Users)
        BY <3>0, <3>4 DEF PassRejected, MaySend, Session, TypeOK, LoginInv
      <4>2. sess' = [sess EXCEPT ![c] = r]
        BY <3>4 DEF PassRejected
      <4> HIDE DEF r
      <4>3. sess' \in [Conns -> Session] /\ LoginInv'
        BY <4>1, <4>2, SetSession
      <4> QED
        BY <3>4, <4>3 DEF PassRejected, TypeOK
    <3>5. CASE CommandOfDisabledUser(c)
      <4> DEFINE r == [sess[c] EXCEPT !.open = FALSE]
      <4>1. r \in Session /\ (r.st = "login" => r.user \in Users)
        BY <3>0, <3>5 DEF CommandOfDisabledUser, Session, TypeOK, LoginInv
      <4>2. sess' = [sess EXCEPT ![c] = r]
        BY <3>5 DEF CommandOfDisabledUser
      <4> HIDE DEF r
      <4>3. sess' \in [Conns -> Session] /\ LoginInv'
        BY <4>1, <4>2, SetSession
      <4> QED
        BY <3>5, <4>3 DEF CommandOfDisabledUser, TypeOK
    <3>6. CASE PassAccepted(c)
      <4> DEFINE r == [sess[c] EXCEPT !.st = "login", !.max = limit[sess[c].user]]
      <4>1. r \in Session /\ (r.st = "login" => r.user \in Users)
        BY <3>0, <3>6 DEF PassAccepted, MaySend, Session, TypeOK, LoginInv
      <4>2. sess' = [sess EXCEPT ![c] = r]
        BY <3>6 DEF PassAccepted
      <4> HIDE DEF r
      <4>3. sess' \in [Conns -> Session] /\ LoginInv'
        BY <4>1, <4>2, SetSession
      <4> QED
        BY <3>6, <4>3 DEF PassAccepted, TypeOK
    <3>7. CASE TooManyConnections(c)
      <4> DEFINE r == [sess[c] EXCEPT !.st = "serving", !.user = NoUser, !.max = 0]
      <4>1. r \in Session /\ (r.st = "login" => r.user \in Users)
        <5>1. r \in Session
          BY <3>0, <3>01 DEF Session
        <5>2. r.st = "serving"
          BY <3>0 DEF Session
        <5> QED
          BY <5>1, <5>2
      <4>2. sess' = [sess EXCEPT ![c] = r]
        BY <3>7 DEF TooManyConnections
      <4> HIDE DEF r
      <4>3. sess' \in [Conns -> Session] /\ LoginInv'
        BY <4>1, <4>2, SetSession
      <4> QED
        BY <3>7, <4>3 DEF TooManyConnections, TypeOK
    <3>8. CASE Login(c)
      <4> DEFINE r == [sess[c] EXCEPT !.st = "serving", !.loggedIn = TRUE,
                             !.tracked = sess[c].tracked \/ sess[c].max > 0, !.max = 0]
      <4>1. r \in Session /\ (r.st = "login" => r.user \in Users)
        <5> DEFINE b == sess[c].tracked \/ sess[c].max > 0
        <5>1. b \in BOOLEAN
          BY <3>0 DEF Session
        <5>2. r = [sess[c] EXCEPT !.st = "serving", !.loggedIn = TRUE, !.tracked = b, !.max = 0]
          OBVIOUS
        <5> HIDE DEF b, r
        <5>3. r \in Session
          BY <3>0, <3>01, <5>1, <5>2 DEF Session
        <5>4. r.st = "serving"
          BY <3>0, <5>2 DEF Session
        <5> QED
          BY <5>3, <5>4
      <4>2. sess' = [sess EXCEPT ![c] = r]
        BY <3>8 DEF Login
      <4> HIDE DEF r
      <4>3. sess' \in [Conns -> Session] /\ LoginInv'
        BY <4>1, <4>2, SetSession
      <4>4. userConns' \in [Users -> Nat]
        BY <3>8 DEF Login, TypeOK, LoginInv
      <4> QED
        BY <3>8, <4>3, <4>4 DEF Login, TypeOK
    <3>9. CASE Cleanup(c)
      <4> DEFINE r == NoSession
      <4>1. r \in Session /\ (r.st = "login" => r.user \in Users)
        BY <3>0, <3>9 DEF Cleanup, Session, TypeOK, LoginInv, NoSession
      <4>2. sess' = [sess EXCEPT ![c] = r]
        BY <3>9 DEF Cleanup
      <4> HIDE DEF r
      <4>3. sess' \in [Conns -> Session] /\ LoginInv'
        BY <4>1, <4>2, SetSession
      <4>4. userConns' \in [Users -> Nat]
        <5>1. sess[c].user \in Users \cup {NoUser}
          BY <3>0 DEF Session
        <5>2. CASE sess[c].tracked /\ sess[c].user # NoUser
          <6>1. userConns' = Released(userConns, sess[c].user)
            BY <3>9, <5>2 DEF Cleanup
          <6> QED
            BY <5>1, <5>2, <6>1, CountReleased DEF TypeOK
        <5>3. CASE ~(sess[c].tracked /\ sess[c].user # NoUser)
          BY <3>9, <5>3 DEF Cleanup, TypeOK
        <5> QED
          BY <5>2, <5>3
      <4> QED
        BY <3>9, <4>3, <4>4 DEF Cleanup, TypeOK
    <3>10. ASSUME NEW u \in Users, User(c, u) PROVE TypeOK' /\ LoginInv'
      <4> DEFINE r == [sess[c] EXCEPT !.user = u]
      <4>1. r \in Session /\ (r.st = "login" => r.user \in Users)
        BY <3>0 DEF Session
      <4>2. sess' = [sess EXCEPT ![c] = r]
        BY <3>10 DEF User
      <4> HIDE DEF r
      <4>3. sess' \in [Conns -> Session] /\ LoginInv'
        BY <4>1, <4>2, SetSession
      <4> QED
        BY <3>10, <4>3 DEF User, TypeOK
    <3> QED
      BY <2>1, <3>1, <3>2, <3>3, <3>4, <3>5, <3>6, <3>7, <3>8, <3>9, <3>10, <3>11 DEF Client
  <2>2. ASSUME NEW u \in Users, EditUser(u) PROVE TypeOK' /\ LoginInv'
    BY <2>2 DEF EditUser, TypeOK, LoginInv
  <2>3. CASE Panel
    <3>1. CASE startFTPSvc \/ RestartStart
      <4>1. Started
        BY <3>1 DEF startFTPSvc, RestartStart
      <4> QED
        BY <3>1, <4>1, StartedTyped DEF startFTPSvc, RestartStart, TypeOK, AdminStages
    <3>2. CASE StopClients
      <4>1. PICK passed \in SUBSET clients :
              sess' = [c \in Conns |-> [sess[c] EXCEPT !.open = sess[c].open /\ c \notin clients \ passed]]
        BY <3>2 DEF StopClients
      <4>2. ASSUME NEW c \in Conns
            PROVE  sess'[c] \in Session /\ (sess'[c].st = "login" => sess'[c].user \in Users)
        <5> DEFINE b == sess[c].open /\ c \notin clients \ passed
        <5>1. sess[c] \in Session /\ b \in BOOLEAN
          BY DEF TypeOK, Session
        <5>2. sess'[c] = [sess[c] EXCEPT !.open = b]
          BY <4>1
        <5> HIDE DEF b
        <5> QED
          BY <5>1, <5>2 DEF Session, LoginInv
      <4>3. sess' \in [Conns -> Session] /\ LoginInv'
        BY <4>1, <4>2 DEF LoginInv
      <4> QED
        BY <3>2, <4>3 DEF StopClients, TypeOK, AdminStages
    <3>3. CASE StopListener
      <4> DEFINE f == [c \in Conns |-> IF sess[c].st = "waiting" THEN NoSession ELSE sess[c]]
      <4>1. \A c \in Conns : f[c] \in Session /\ (f[c].st = "login" => f[c].user \in Users)
        BY DEF TypeOK, LoginInv, Session, NoSession
      <4>2. f \in [Conns -> Session] /\ sess' = f
        BY <3>3, <4>1 DEF StopListener
      <4> HIDE DEF f
      <4>3. sess' \in [Conns -> Session] /\ LoginInv'
        BY <4>1, <4>2, SetSessions
      <4> QED
        BY <3>3, <4>3 DEF StopListener, TypeOK, AdminStages
    <3>4. CASE StopFlag
      BY <3>4 DEF StopFlag, TypeOK, LoginInv, AdminStages
    <3>5. CASE stopFTPSvc
      BY <3>5, StopBeginsTyped DEF stopFTPSvc, TypeOK, AdminStages
    <3>6. CASE restartFTPSvc
      <4>1. CASE ftpRunning
        BY <3>6, <4>1, StopBeginsTyped DEF restartFTPSvc, TypeOK, AdminStages
      <4>2. CASE ~ftpRunning
        BY <3>6, <4>2 DEF restartFTPSvc, TypeOK, LoginInv, AdminStages
      <4> QED
        BY <4>1, <4>2
    <3> QED
      BY <2>3, <3>1, <3>2, <3>3, <3>4, <3>5, <3>6 DEF Panel
  <2>4. CASE UNCHANGED vars
    BY <2>4 DEF vars, TypeOK, LoginInv
  <2>5. CASE AcceptFails
    <3>1. loops' \in 0..env.loops
      BY <2>5, HeldIsFinite, SomeLoops DEF AcceptFails, TypeOK
    <3> QED
      BY <2>5, <3>1 DEF AcceptFails, TypeOK, LoginInv
  <2> QED
    BY <2>1, <2>2, <2>3, <2>4, <2>5 DEF Next
<1> QED
  BY <1>1, <1>2, PTL DEF Spec

(***************************************************************************)
(* The stop.  From its beginning until the next start, whoever it may miss *)
(* is marked: a connection a loop holds, of which there is one per loop,   *)
(* and those accepted since.  The sweep closes every other connection that *)
(* is served, because each is in clients.                                  *)
(***************************************************************************)
Live(c) == sess[c].st \in {"serving", "login"}

Swept == ~listening \/ admin \in {"stopListener", "restartListener"}

\* A stop begins only while the server listens, and then nobody is marked.
StageInv ==
  /\ ftpRunning => listening \/ admin \in {"stopFlag", "restartFlag"}
  /\ Stopping => listening
  /\ listening /\ ~Stopping => \A c \in Conns : sess[c].missed = "no"

SweepInv ==
  /\ \A c \in Conns : Live(c) => c \in clients
  /\ \A c \in Conns : sess[c].open => Live(c) \/ sess[c].st \in {"waiting", "accepted"}
  /\ \A c \in Conns : sess[c].st \in {"none", "waiting"} => sess[c].missed = "no"
  /\ ~listening => \A c \in Conns : sess[c].st # "waiting"
  /\ ~listening \/ Stopping => \A c \in Held : sess[c].missed # "no"
  /\ Swept => \A c \in Conns : Live(c) /\ sess[c].open => sess[c].missed # "no"

LoopInv == /\ Cardinality(Held) <= loops
           /\ Cardinality(Missed("held")) <= swept

StopInv == StageInv /\ SweepInv /\ LoopInv

LEMMA FewerMissed ==
  ASSUME LoopInv, TypeOK, Missed("held")' \subseteq Missed("held"), UNCHANGED swept
  PROVE  Cardinality(Missed("held")') <= swept'
<1>1. IsFiniteSet(Missed("held"))
  BY FTPSessionsAssumption, FS_Subset DEF Missed
<1>2. Cardinality(Missed("held")') <= Cardinality(Missed("held"))
  BY <1>1, FS_Subset
<1>3. Cardinality(Missed("held")) \in Nat /\ Cardinality(Missed("held")') \in Nat
  BY <1>1, FS_Subset, FS_CardinalityType
<1> QED
  BY <1>2, <1>3 DEF LoopInv, TypeOK

\* A loop gives its connection away, or a connection that was missed goes.
LEMMA FewerHeld ==
  ASSUME TypeOK, LoopInv, Held' \subseteq Held, Missed("held")' \subseteq Missed("held"),
         UNCHANGED <<loops, swept>>
  PROVE  LoopInv'
<1>1. Cardinality(Held') <= Cardinality(Held) /\ Cardinality(Held') \in Nat
  BY HeldIsFinite, FS_Subset, FS_CardinalityType
<1>2. Cardinality(Held') <= loops'
  BY <1>1, HeldIsFinite DEF LoopInv, TypeOK
<1> QED
  BY <1>2, FewerMissed DEF LoopInv

LEMMA StopInit == Init => StopInv
<1> SUFFICES ASSUME Init PROVE StopInv
  OBVIOUS
<1>1. NoSession.st = "none" /\ NoSession.open = FALSE /\ NoSession.missed = "no"
  BY DEF NoSession
<1>2. \A c \in Conns : sess[c] = NoSession
  BY DEF Init
<1>3. Held = {} /\ Missed("held") = {}
  BY <1>1, <1>2 DEF Held, Missed
<1>4. LoopInv
  BY <1>3, FS_EmptySet DEF LoopInv, Init
<1> QED
  BY <1>1, <1>2, <1>4 DEF Init, StopInv, StageInv, SweepInv, Live, Swept, Stopping, Held

\* What one connection does.
LEMMA ClientStops ==
  ASSUME TypeOK, StopInv, NEW c \in Conns, Client(c)
  PROVE  StopInv'
<1> USE DEF usersUnchanged, serviceUnchanged
<1>1. sess[c] \in Session
  BY DEF TypeOK
<1>0. UNCHANGED <<listening, loops, swept, ftpRunning, admin>>
  BY DEF Client, Connect, Accept, Store, HangUp, Cleanup, User, PassRejected, PassAccepted,
         Login, TooManyConnections, CommandOfDisabledUser
<1>01. StageInv /\ SweepInv /\ LoopInv
  BY DEF StopInv
<1>2. CASE Connect(c)
  <2>1. /\ sess[c].st = "none" /\ sess'[c].st = "waiting" /\ sess'[c].missed = sess[c].missed
        /\ \A d \in Conns \ {c} : sess'[d] = sess[d]
        /\ listening /\ UNCHANGED clients
    BY <1>1, <1>2 DEF Connect, TypeOK, Session
  <2>2. sess'[c].missed = "no"
    BY <1>01, <2>1 DEF SweepInv
  <2>3. Held' \subseteq Held /\ Missed("held")' \subseteq Missed("held")
    BY <2>1, <2>2 DEF Held, Missed
  <2>4. LoopInv'
    BY <1>0, <1>01, <2>3, FewerHeld
  <2>5. StageInv'
    BY <1>0, <1>01, <2>1, <2>2 DEF StageInv, Stopping
  <2>6. SweepInv'
    BY <1>0, <1>01, <2>1, <2>2 DEF SweepInv, Live, Swept, Stopping, Held
  <2> QED
    BY <2>4, <2>5, <2>6 DEF StopInv
<1>3. CASE Accept(c)
  <2>1. /\ sess[c].st = "waiting" /\ sess'[c].st = "accepted"
        /\ sess'[c].missed = IF Stopping THEN "late" ELSE "no"
        /\ \A d \in Conns \ {c} : sess'[d] = sess[d]
        /\ listening /\ UNCHANGED clients /\ Cardinality(Held) < loops
    BY <1>1, <1>3 DEF Accept, TypeOK, Session
  <2>2. Held' = Held \cup {c} /\ c \notin Held
    BY <2>1 DEF Held
  <2>3. Cardinality(Held') = Cardinality(Held) + 1
    BY <2>2, HeldIsFinite, FS_AddElement
  <2>4. Cardinality(Held') <= loops'
    BY <1>0, <2>1, <2>3, HeldIsFinite DEF TypeOK
  <2>5. Missed("held")' \subseteq Missed("held")
    BY <2>1 DEF Missed
  <2>6. LoopInv'
    BY <1>0, <1>01, <2>4, <2>5, FewerMissed DEF LoopInv
  <2>7. StageInv'
    BY <1>0, <1>01, <2>1 DEF StageInv, Stopping
  <2>8. SweepInv'
    <3>1. admin \in {"stopListener", "restartListener"} => Stopping
      BY DEF Stopping
    <3> QED
      BY <1>0, <1>01, <2>1, <3>1 DEF SweepInv, Live, Swept, Stopping, Held
  <2> QED
    BY <2>6, <2>7, <2>8 DEF StopInv
<1>4. CASE \/ Store(c) \/ Cleanup(c) \/ HangUp(c) \/ (\E u \in Users : User(c, u))
           \/ PassRejected(c) \/ PassAccepted(c) \/ Login(c) \/ TooManyConnections(c)
           \/ CommandOfDisabledUser(c)
  <2>1. /\ \A d \in Conns \ {c} : sess'[d] = sess[d] /\ (d \in clients => d \in clients')
        /\ \/ /\ sess'[c].st \in {"serving", "login"} /\ c \in clients'
              /\ sess'[c].open => sess[c].open
              /\ sess'[c].missed = sess[c].missed
              /\ Live(c) \/ c \in Held
           \/ sess'[c].st = "none" /\ sess'[c].open = FALSE /\ sess'[c].missed = "no"
    <3>1. CASE Store(c)
      BY <1>1, <3>1 DEF Store, TypeOK, Session, Held
    <3>2. CASE Cleanup(c)
      BY <3>2 DEF Cleanup, TypeOK, NoSession
    <3>3. ASSUME Live(c) => /\ \A d \in Conns \ {c} : sess'[d] = sess[d]
                            /\ sess'[c].st \in {"serving", "login"}
                            /\ sess'[c].open => sess[c].open
                            /\ sess'[c].missed = sess[c].missed
                            /\ UNCHANGED clients,
                 Live(c)
          PROVE  <2>1
      BY <1>01, <3>3 DEF SweepInv
    <3>4. CASE HangUp(c)
      BY <1>1, <3>3, <3>4 DEF HangUp, TypeOK, Session, Live
    <3>5. CASE \E u \in Users : User(c, u)
      <4> PICK u \in Users : User(c, u)
        BY <3>5
      <4> QED
        BY <1>1, <3>3 DEF User, MaySend, TypeOK, Session, Live
    <3>6. CASE PassRejected(c)
      BY <1>1, <3>3, <3>6 DEF PassRejected, MaySend, TypeOK, Session, Live
    <3>7. CASE PassAccepted(c)
      BY <1>1, <3>3, <3>7 DEF PassAccepted, MaySend, TypeOK, Session, Live
    <3>8. CASE Login(c)
      BY <1>1, <3>3, <3>8 DEF Login, TypeOK, Session, Live
    <3>9. CASE TooManyConnections(c)
      BY <1>1, <3>3, <3>9 DEF TooManyConnections, TypeOK, Session, Live
    <3>10. CASE CommandOfDisabledUser(c)
      BY <1>1, <3>3, <3>10 DEF CommandOfDisabledUser, TypeOK, Session, Live
    <3> QED
      BY <1>4, <3>1, <3>2, <3>4, <3>5, <3>6, <3>7, <3>8, <3>9, <3>10
  <2>2. Held' \subseteq Held /\ Missed("held")' \subseteq Missed("held")
    BY <2>1 DEF Held, Missed
  <2>3. LoopInv'
    BY <1>0, <1>01, <2>2, FewerHeld
  <2>4. StageInv'
    BY <1>0, <1>01, <2>1 DEF StageInv, Stopping
  <2>5. SweepInv'
    <3>1. Swept => ~listening \/ Stopping
      BY DEF Swept, Stopping
    <3> QED
      BY <1>0, <1>01, <2>1, <3>1 DEF SweepInv, Live, Swept, Stopping, Held
  <2> QED
    BY <2>3, <2>4, <2>5 DEF StopInv
<1> QED
  BY <1>2, <1>3, <1>4 DEF Client

\* A start makes the last stop history; it takes a loop of its own.
LEMMA StartedStops ==
  ASSUME TypeOK, StopInv, Started, UNCHANGED clients,
         admin' \in {admin, "idle"}, admin' = "idle" => admin \in {"idle", "restartSleep"}
  PROVE  StopInv'
<1>01. StageInv /\ SweepInv /\ LoopInv
  BY DEF StopInv
<1>1. CASE listening
  <2>1. /\ UNCHANGED <<sess, listening, loops, swept, ftpRunning>>
        /\ Stopping' = Stopping /\ Swept' = Swept
    BY <1>1 DEF Started, Stopping, Swept
  <2>2. Held' = Held /\ Missed("held")' = Missed("held")
    BY <2>1 DEF Held, Missed
  <2>3. StageInv'
    BY <1>1, <1>01, <2>1 DEF StageInv
  <2>4. SweepInv'
    BY <1>01, <2>1, <2>2 DEF SweepInv, Live
  <2>5. LoopInv'
    BY <1>01, <2>1, <2>2 DEF LoopInv
  <2> QED
    BY <2>3, <2>4, <2>5 DEF StopInv
<1>2. CASE ~listening
  <2>1. /\ \A c \in Conns : /\ sess'[c].st = sess[c].st /\ sess'[c].open = sess[c].open
                            /\ sess'[c].missed = "no"
        /\ listening' /\ loops' = loops + 1 /\ swept' = 0
    BY <1>2 DEF Started, TypeOK, Session
  <2>2. ~Stopping /\ ~Stopping' /\ ~Swept'
    BY <1>2, <1>01, <2>1 DEF StageInv, Stopping, Swept
  <2>3. Held' = Held /\ Missed("held")' = {}
    BY <2>1 DEF Held, Missed
  <2>4. Cardinality(Held') <= loops' /\ Cardinality(Missed("held")') <= swept'
    <3>1. Cardinality(Missed("held")') = 0
      BY <2>3, FS_EmptySet
    <3>2. Cardinality(Held) <= loops /\ Cardinality(Held) \in Nat /\ loops \in Nat
      BY <1>01, HeldIsFinite DEF LoopInv, TypeOK
    <3> QED
      BY <2>1, <2>3, <3>1, <3>2
  <2>5. StageInv'
    BY <2>1, <2>2 DEF StageInv
  <2>6. SweepInv'
    BY <1>01, <2>1, <2>2 DEF SweepInv, Live
  <2> QED
    BY <2>4, <2>5, <2>6 DEF StopInv, LoopInv
<1> QED
  BY <1>1, <1>2

\* A stop begins: what the loops hold is all it may miss of what was accepted.
LEMMA StopBeginsStops ==
  ASSUME TypeOK, StopInv, StopBegins, admin = "idle", ftpRunning,
         UNCHANGED <<clients, listening, loops, ftpRunning>>,
         admin' \in {"stopClients", "restartClients"}
  PROVE  StopInv'
<1>01. StageInv /\ SweepInv /\ LoopInv
  BY DEF StopInv
<1>1. listening /\ \A c \in Conns : sess[c].missed = "no"
  BY <1>01 DEF StageInv, Stopping
<1>2. /\ \A c \in Conns : /\ sess'[c].st = sess[c].st /\ sess'[c].open = sess[c].open
                          /\ sess'[c].missed = IF c \in Held THEN "held" ELSE "no"
      /\ swept' = loops
  BY <1>1 DEF StopBegins, TypeOK, Session
<1>3. Held' = Held /\ Missed("held")' \subseteq Held
  BY <1>2 DEF Held, Missed
<1>4. Cardinality(Missed("held")') <= Cardinality(Held) /\ Cardinality(Missed("held")') \in Nat
  BY <1>3, HeldIsFinite, FS_Subset, FS_CardinalityType
<1>5. LoopInv'
  BY <1>01, <1>2, <1>3, <1>4, HeldIsFinite DEF LoopInv, TypeOK
<1>6. Stopping' /\ ~Swept'
  BY <1>1 DEF Stopping, Swept
<1>7. StageInv'
  BY <1>1, <1>6 DEF StageInv
<1>8. SweepInv'
  BY <1>01, <1>1, <1>2, <1>3, <1>6 DEF SweepInv, Live, Held
<1> QED
  BY <1>5, <1>7, <1>8 DEF StopInv

LEMMA PanelStops ==
  ASSUME TypeOK, StopInv, Panel
  PROVE  StopInv'
<1> USE DEF usersUnchanged
<1>01. StageInv /\ SweepInv /\ LoopInv
  BY DEF StopInv
<1>1. CASE startFTPSvc \/ RestartStart
  <2>1. /\ Started /\ UNCHANGED clients
        /\ admin' \in {admin, "idle"} /\ (admin' = "idle" => admin \in {"idle", "restartSleep"})
    BY <1>1 DEF startFTPSvc, RestartStart
  <2> QED
    BY <2>1, StartedStops
<1>2. CASE stopFTPSvc \/ (restartFTPSvc /\ ftpRunning)
  <2>1. /\ StopBegins /\ admin = "idle" /\ ftpRunning
        /\ UNCHANGED <<clients, listening, loops, ftpRunning>>
        /\ admin' \in {"stopClients", "restartClients"}
    BY <1>2 DEF stopFTPSvc, restartFTPSvc
  <2> QED
    BY <2>1, StopBeginsStops
<1>3. CASE (restartFTPSvc /\ ~ftpRunning) \/ StopFlag
  <2>1. /\ UNCHANGED <<sess, clients, listening, loops, swept>> /\ ~ftpRunning'
        /\ Stopping' = Stopping /\ Swept' = Swept
    BY <1>3 DEF restartFTPSvc, StopFlag, Stopping, Swept
  <2>2. Held' = Held /\ Missed("held")' = Missed("held")
    BY <2>1 DEF Held, Missed
  <2>3. StageInv'
    BY <1>01, <2>1 DEF StageInv
  <2>4. SweepInv'
    BY <1>01, <2>1, <2>2 DEF SweepInv, Live
  <2>5. LoopInv'
    BY <1>01, <2>1, <2>2 DEF LoopInv
  <2> QED
    BY <2>3, <2>4, <2>5 DEF StopInv
<1>4. CASE StopClients
  <2>1. PICK passed \in SUBSET {c \in clients : sess[c].missed # "no"} :
          sess' = [c \in Conns |-> [sess[c] EXCEPT !.open = sess[c].open /\ c \notin clients \ passed]]
    BY <1>4 DEF StopClients
  <2>2. \A c \in Conns : /\ sess'[c].st = sess[c].st /\ sess'[c].missed = sess[c].missed
                         /\ sess'[c].open => sess[c].open /\ (c \notin clients \/ sess[c].missed # "no")
    BY <2>1 DEF TypeOK, Session
  <2>3. /\ UNCHANGED <<clients, listening, loops, swept, ftpRunning>>
        /\ Stopping /\ Stopping' /\ listening
    BY <1>01, <1>4 DEF StopClients, Stopping, StageInv
  <2>4. Held' = Held /\ Missed("held")' \subseteq Missed("held")
    BY <2>2 DEF Held, Missed
  <2>5. LoopInv'
    BY <1>01, <2>3, <2>4, FewerHeld
  <2>6. StageInv'
    BY <2>3 DEF StageInv
  <2>7. SweepInv'
    BY <1>01, <2>2, <2>3, <2>4 DEF SweepInv, Live, Held
  <2> QED
    BY <2>5, <2>6, <2>7 DEF StopInv
<1>5. CASE StopListener
  <2>1. \A c \in Conns :
          IF sess[c].st = "waiting"
          THEN sess'[c].st = "none" /\ sess'[c].open = FALSE /\ sess'[c].missed = "no"
          ELSE sess'[c] = sess[c]
    BY <1>5 DEF StopListener, NoSession
  <2>2. /\ UNCHANGED <<clients, loops, swept, ftpRunning>> /\ ~listening'
        /\ Stopping /\ ~Stopping' /\ Swept /\ listening
        /\ admin' \in {"stopFlag", "restartFlag"}
    BY <1>01, <1>5 DEF StopListener, Stopping, Swept, StageInv
  <2>3. Held' \subseteq Held /\ Missed("held")' \subseteq Missed("held")
    BY <2>1 DEF Held, Missed
  <2>4. LoopInv'
    BY <1>01, <2>2, <2>3, FewerHeld
  <2>5. StageInv'
    BY <2>2 DEF StageInv
  <2>6. SweepInv'
    BY <1>01, <2>1, <2>2, <2>3 DEF SweepInv, Live, Held
  <2> QED
    BY <2>4, <2>5, <2>6 DEF StopInv
<1> QED
  BY <1>1, <1>2, <1>3, <1>4, <1>5 DEF Panel

LEMMA AcceptFailsStops ==
  ASSUME TypeOK, StopInv, AcceptFails
  PROVE  StopInv'
<1>1. UNCHANGED <<sess, clients, listening, swept, ftpRunning, admin>>
  BY DEF AcceptFails
<1>2. Held' = Held /\ Missed("held")' = Missed("held") /\ Stopping' = Stopping /\ Swept' = Swept
  BY <1>1 DEF Held, Missed, Stopping, Swept
<1>3. Cardinality(Held') <= loops'
  BY <1>2, HeldIsFinite DEF AcceptFails, TypeOK
<1> QED
  BY <1>1, <1>2, <1>3 DEF StopInv, StageInv, SweepInv, LoopInv, Live

(***************************************************************************)
(* StopDisconnects: once Stop (ftp/server.go) has closed the listener, it  *)
(* has missed at most one client of each accept loop that ran when it      *)
(* began, whatever the loops did while it ranged over the clients and      *)
(* however many clients there are; the others that are still connected     *)
(* were accepted while it was under way.                                   *)
(***************************************************************************)
THEOREM StopSweeps == Spec => []StopDisconnects
<1>1. TypeOK /\ StopInv /\ [Next]_vars => StopInv'
  <2> SUFFICES ASSUME TypeOK, StopInv, [Next]_vars PROVE StopInv'
    OBVIOUS
  <2>1. CASE \E c \in Conns : Client(c)
    BY <2>1, ClientStops
  <2>2. CASE (\E u \in Users : EditUser(u)) \/ UNCHANGED vars
    <3>1. UNCHANGED <<sess, clients, listening, loops, swept, ftpRunning, admin>>
      BY <2>2 DEF EditUser, serviceUnchanged, vars
    <3>2. Held' = Held /\ Missed("held")' = Missed("held") /\ Stopping' = Stopping /\ Swept' = Swept
      BY <3>1 DEF Held, Missed, Stopping, Swept
    <3> QED
      BY <3>1, <3>2 DEF StopInv, StageInv, SweepInv, LoopInv, Live
  <2> QED
    BY <2>1, <2>2, PanelStops, AcceptFailsStops DEF Next
<1>2. StopInv => StopDisconnects
  <2> SUFFICES ASSUME StopInv, ~listening PROVE StopDisconnects
    BY DEF StopDisconnects
  <2>1. \A c \in Conns : sess[c].open => sess[c].missed # "no"
    BY DEF StopInv, SweepInv, Swept, Held
  <2>2. Missed("no") = {}
    BY <2>1 DEF Missed
  <2> QED
    BY <2>2 DEF StopInv, LoopInv, StopDisconnects
<1> QED
  BY Typing, StopInit, <1>1, <1>2, PTL DEF Spec

(***************************************************************************)
(* The counts.  A client that logs in once is tracked only while it is     *)
(* logged in, and keeps its user as long: so its count goes up once, at    *)
(* the login, and down once, when its goroutine ends.                      *)
(***************************************************************************)
TrackInv ==
  \A c \in Conns :
    /\ sess[c].tracked => sess[c].loggedIn /\ sess[c].user \in Users
    /\ sess[c].loggedIn => sess[c].st = "serving"

CountInv == \A u \in Users : userConns[u] = Cardinality(Tracked(u))

LEMMA TrackedIsFinite ==
  ASSUME NEW u \in Users
  PROVE  IsFiniteSet(Tracked(u)) /\ Cardinality(Tracked(u)) \in Nat
<1>1. Tracked(u) \subseteq Conns
  BY DEF Tracked
<1> QED
  BY <1>1, FTPSessionsAssumption, FS_Subset, FS_CardinalityType

\* A step that tracks and forgets nobody keeps the counts.
LEMMA SameTracked ==
  ASSUME CountInv, UNCHANGED userConns,
         \A c \in Conns : /\ sess'[c].tracked = sess[c].tracked
                          /\ sess[c].tracked => sess'[c].user = sess[c].user
  PROVE  CountInv'
<1>1. \A u \in Users : Tracked(u)' = Tracked(u)
  BY DEF Tracked
<1> QED
  BY <1>1 DEF CountInv

CountingInv == ~env.relogin => TrackInv /\ CountInv

LEMMA CountingInit == Init => CountingInv
<1> SUFFICES ASSUME Init PROVE TrackInv /\ CountInv
  BY DEF CountingInv
<1>1. NoSession.tracked = FALSE /\ NoSession.loggedIn = FALSE
  BY DEF NoSession
<1>2. \A c \in Conns : sess[c].tracked = FALSE /\ sess[c].loggedIn = FALSE
  BY <1>1 DEF Init
<1>3. \A u \in Users : Tracked(u) = {}
  BY <1>2 DEF Tracked
<1>4. CountInv
  BY <1>3, FS_EmptySet DEF CountInv, Init
<1> QED
  BY <1>2, <1>4 DEF TrackInv

LEMMA CountingStep == TypeOK /\ LoginInv /\ CountingInv /\ [Next]_vars => CountingInv'
<1> SUFFICES ASSUME TypeOK, LoginInv, [Next]_vars, ~env'.relogin, CountingInv
             PROVE  TrackInv' /\ CountInv'
  BY DEF CountingInv
<1>0. ~env.relogin /\ TrackInv /\ CountInv
  BY DEF Next, Client, Panel, vars, Connect, Accept, Store, AcceptFails,
         HangUp, Cleanup, User, PassRejected,
         PassAccepted, Login, TooManyConnections, CommandOfDisabledUser, EditUser,
         startFTPSvc, stopFTPSvc, restartFTPSvc, StopClients, StopListener, StopFlag,
         RestartStart, CountingInv, usersUnchanged
<1> USE DEF usersUnchanged, serviceUnchanged
<1>1. ASSUME NEW c \in Conns, Client(c) PROVE TrackInv' /\ CountInv'
  <2>1. sess[c] \in Session
    BY DEF TypeOK
  <2>2. CASE \/ Connect(c) \/ Accept(c) \/ Store(c) \/ HangUp(c) \/ (\E u \in Users : User(c, u))
             \/ PassRejected(c) \/ PassAccepted(c) \/ TooManyConnections(c)
             \/ CommandOfDisabledUser(c)
    <3>1. /\ \A d \in Conns \ {c} : sess'[d] = sess[d]
          /\ sess'[c].tracked = sess[c].tracked
          /\ sess'[c].loggedIn = sess[c].loggedIn
          /\ sess[c].loggedIn => sess'[c].user = sess[c].user /\ sess'[c].st = "serving"
          /\ UNCHANGED userConns
      <4>1. CASE Connect(c)
        BY <1>0, <2>1, <4>1 DEF Connect, TypeOK, TrackInv, Session
      <4>2. CASE Accept(c)
        BY <1>0, <2>1, <4>2 DEF Accept, TypeOK, TrackInv, Session
      <4>9. CASE Store(c)
        BY <1>0, <2>1, <4>9 DEF Store, TypeOK, TrackInv, Session
      <4>3. CASE HangUp(c)
        BY <1>0, <2>1, <4>3 DEF HangUp, TypeOK, TrackInv, Session
      <4>4. CASE \E u \in Users : User(c, u)
        BY <1>0, <2>1, <4>4 DEF User, MaySend, TypeOK, Session
      <4>5. CASE PassRejected(c)
        BY <1>0, <2>1, <4>5 DEF PassRejected, MaySend, TypeOK, Session
      <4>6. CASE PassAccepted(c)
        BY <1>0, <2>1, <4>6 DEF PassAccepted, MaySend, TypeOK, Session
      <4>7. CASE TooManyConnections(c)
        BY <1>0, <2>1, <4>7 DEF TooManyConnections, TypeOK, TrackInv, Session
      <4>8. CASE CommandOfDisabledUser(c)
        BY <1>0, <2>1, <4>8 DEF CommandOfDisabledUser, TypeOK, TrackInv, Session
      <4> QED
        BY <2>2, <4>1, <4>2, <4>3, <4>4, <4>5, <4>6, <4>7, <4>8, <4>9
    <3>2. TrackInv'
      BY <1>0, <3>1 DEF TrackInv
    <3>3. CountInv'
      BY <1>0, <3>1, SameTracked DEF TrackInv
    <3> QED
      BY <3>2, <3>3
  <2>3. CASE Login(c)
    <3>0. PICK u \in Users : u = sess[c].user
      BY <2>3 DEF Login, LoginInv
    <3> DEFINE isCounted == sess[c].max > 0
    <3>1. sess[c].tracked = FALSE /\ sess[c].max \in 0..MaxLimit
      BY <1>0, <2>1, <2>3 DEF Login, TrackInv, Session
    <3>2. /\ \A d \in Conns \ {c} : sess'[d] = sess[d]
          /\ sess'[c].user = u /\ sess'[c].loggedIn /\ sess'[c].st = "serving"
      BY <2>1, <2>3, <3>0 DEF Login, TypeOK, Session
    <3>3. sess'[c].tracked = isCounted
      <4>1. sess'[c].tracked = (sess[c].tracked \/ isCounted)
        BY <2>1, <2>3 DEF Login, TypeOK, Session
      <4> QED
        BY <3>1, <4>1
    <3> HIDE DEF isCounted
    <3>4. TrackInv'
      BY <1>0, <3>1, <3>2 DEF TrackInv
    <3>5. CASE isCounted
      <4>1. userConns' = [userConns EXCEPT ![u] = userConns[u] + 1]
        BY <2>3, <3>0, <3>1, <3>5, FTPSessionsAssumption DEF Login, isCounted
      <4>2. Tracked(u)' = Tracked(u) \cup {c} /\ c \notin Tracked(u)
        <5>1. c \in Tracked(u)'
          BY <3>2, <3>3, <3>5 DEF Tracked
        <5>2. \A d \in Conns \ {c} : d \in Tracked(u)' <=> d \in Tracked(u)
          BY <3>2 DEF Tracked
        <5>3. c \notin Tracked(u)
          BY <3>1 DEF Tracked
        <5>4. Tracked(u)' \subseteq Conns /\ Tracked(u) \subseteq Conns
          BY DEF Tracked
        <5> QED
          BY <5>1, <5>2, <5>3, <5>4
      <4>3. \A v \in Users \ {u} : Tracked(v)' = Tracked(v)
        BY <3>1, <3>2, <3>3, <3>5 DEF Tracked
      <4>4. Cardinality(Tracked(u)') = Cardinality(Tracked(u)) + 1
        BY <3>1, <4>2, TrackedIsFinite, FS_AddElement
      <4>5. CountInv'
        <5> SUFFICES ASSUME NEW v \in Users PROVE userConns'[v] = Cardinality(Tracked(v)')
          BY DEF CountInv
        <5>1. CASE v = u
          BY <1>0, <4>1, <4>4, <5>1 DEF CountInv, TypeOK
        <5>2. CASE v # u
          <6>1. userConns'[v] = userConns[v]
            BY <3>1, <4>1, <5>2 DEF TypeOK
          <6> QED
            BY <1>0, <4>3, <5>2, <6>1 DEF CountInv
        <5> QED
          BY <5>1, <5>2
      <4> QED
        BY <3>4, <4>5
    <3>6. CASE ~isCounted
      <4>1. UNCHANGED userConns
        BY <2>3, <3>1, <3>6, FTPSessionsAssumption DEF Login, isCounted
      <4>2. CountInv'
        <5>1. sess'[c].tracked = sess[c].tracked /\ ~sess[c].tracked
          <6>1. isCounted = FALSE
            BY <3>6 DEF isCounted
          <6> QED
            BY <3>1, <3>3, <6>1
        <5> QED
          BY <1>0, <3>2, <4>1, <5>1, SameTracked
      <4> QED
        BY <3>4, <4>2
    <3> QED
      BY <3>5, <3>6
  <2>4. CASE Cleanup(c)
    <3>1. /\ \A d \in Conns \ {c} : sess'[d] = sess[d]
          /\ sess'[c].tracked = FALSE /\ sess'[c].loggedIn = FALSE
      BY <2>4 DEF Cleanup, TypeOK, NoSession
    <3>2. TrackInv'
      BY <1>0, <3>1 DEF TrackInv
    <3>3. CASE sess[c].tracked
      <4>1. PICK u \in Users : u = sess[c].user /\ u # NoUser
        BY <1>0, <3>3, FTPSessionsAssumption DEF TrackInv
      <4>2. userConns' = Released(userConns, u)
        BY <2>4, <3>3, <4>1 DEF Cleanup
      <4>3. Tracked(u)' = Tracked(u) \ {c} /\ c \in Tracked(u)
        <5>1. c \notin Tracked(u)'
          BY <3>1 DEF Tracked
        <5>2. \A d \in Conns \ {c} : d \in Tracked(u)' <=> d \in Tracked(u)
          BY <3>1 DEF Tracked
        <5>3. c \in Tracked(u)
          BY <3>3, <4>1 DEF Tracked
        <5>4. Tracked(u)' \subseteq Conns /\ Tracked(u) \subseteq Conns
          BY DEF Tracked
        <5> QED
          BY <5>1, <5>2, <5>3, <5>4
      <4>4. \A v \in Users \ {u} : Tracked(v)' = Tracked(v)
        BY <3>1, <4>1 DEF Tracked
      <4>5. /\ Cardinality(Tracked(u)') = Cardinality(Tracked(u)) - 1
            /\ Cardinality(Tracked(u)') \in Nat
        <5>1. IsFiniteSet(Tracked(u)) /\ IsFiniteSet(Tracked(u) \ {c})
          BY <4>1, TrackedIsFinite, FS_Subset
        <5> QED
          BY <4>3, <5>1, FS_RemoveElement, FS_CardinalityType
      <4>6. CountInv'
        <5> SUFFICES ASSUME NEW v \in Users PROVE userConns'[v] = Cardinality(Tracked(v)')
          BY DEF CountInv
        <5>1. CASE v = u
          <6>1. userConns[u] = Cardinality(Tracked(u)) /\ userConns[u] \in Nat
            BY <1>0, <4>1 DEF CountInv, TypeOK
          <6>2. userConns'[u] = IF userConns[u] > 1 THEN userConns[u] - 1 ELSE 0
            BY <4>1, <4>2 DEF Released, TypeOK
          <6> QED
            BY <4>5, <5>1, <6>1, <6>2
        <5>2. CASE v # u
          <6>1. userConns'[v] = userConns[v]
            BY <4>1, <4>2, <5>2 DEF Released, TypeOK
          <6> QED
            BY <1>0, <4>4, <5>2, <6>1 DEF CountInv
        <5> QED
          BY <5>1, <5>2
      <4> QED
        BY <3>2, <4>6
    <3>4. CASE ~sess[c].tracked
      <4>1. UNCHANGED userConns /\ sess[c].tracked = FALSE
        BY <2>1, <2>4, <3>4 DEF Cleanup, Session
      <4>2. CountInv'
        BY <1>0, <3>1, <4>1, SameTracked
      <4> QED
        BY <3>2, <4>2
    <3> QED
      BY <3>3, <3>4
  <2> QED
    BY <1>1, <2>2, <2>3, <2>4 DEF Client
<1>2. CASE UNCHANGED <<sess, userConns>>
  BY <1>0, <1>2, SameTracked DEF TrackInv
<1>3. CASE startFTPSvc \/ stopFTPSvc \/ restartFTPSvc \/ RestartStart \/ StopClients
  <2>1. /\ \A c \in Conns : /\ sess'[c].tracked = sess[c].tracked
                            /\ sess'[c].loggedIn = sess[c].loggedIn
                            /\ sess'[c].user = sess[c].user
                            /\ sess'[c].st = sess[c].st
        /\ UNCHANGED userConns
    BY <1>3, PanelKeepsLogins
  <2>2. TrackInv'
    BY <1>0, <2>1 DEF TrackInv
  <2> QED
    BY <1>0, <2>1, <2>2, SameTracked
<1>4. CASE StopListener
  <2>1. \A c \in Conns : IF sess[c].st = "waiting"
                         THEN sess'[c].tracked = FALSE /\ sess'[c].loggedIn = FALSE
                         ELSE sess'[c] = sess[c]
    BY <1>4 DEF StopListener, NoSession
  <2>2. \A c \in Conns : sess[c].st = "waiting" => sess[c].tracked = FALSE
    BY <1>0 DEF TrackInv, TypeOK, Session
  <2>3. TrackInv'
    BY <1>0, <2>1 DEF TrackInv
  <2>4. UNCHANGED userConns
    BY <1>4 DEF StopListener
  <2> QED
    BY <1>0, <2>1, <2>2, <2>3, <2>4, SameTracked
<1> QED
  BY <1>1, <1>2, <1>3, <1>4 DEF Next, Panel, vars, EditUser, StopFlag, AcceptFails

(***************************************************************************)
(* CountsAreExact: a client that logs in once is counted once and released *)
(* once (handlePASS and the deferred function of handleClient), however it *)
(* is disconnected and however many connections and users there are.       *)
(***************************************************************************)
THEOREM CountsStayExact == Spec => []CountsAreExact
<1>1. CountingInv => CountsAreExact
  BY DEF CountingInv, CountInv, CountsAreExact
<1> QED
  BY Typing, CountingInit, CountingStep, <1>1, PTL DEF Spec

(***************************************************************************)
(* The limit.  It is read before the counter is locked, but compared and   *)
(* counted in one step; and whoever is logged in under a limit is counted. *)
(***************************************************************************)
LimitInv ==
  \A u \in Users \ env.edits :
    /\ \A c \in Conns : sess[c].st = "login" /\ sess[c].user = u => sess[c].max = limit[u]
    /\ limit[u] > 0 =>
         /\ userConns[u] <= limit[u]
         /\ \A c \in Conns : sess[c].loggedIn /\ sess[c].user = u => sess[c].tracked

LimitingInv == ~env.relogin => LimitInv

LEMMA LimitingInit == Init => LimitingInv
<1>1. NoSession.loggedIn = FALSE /\ NoSession.st = "none"
  BY DEF NoSession
<1> SUFFICES ASSUME Init, NEW u \in Users, limit[u] > 0
             PROVE  userConns[u] <= limit[u]
  BY <1>1 DEF LimitingInv, LimitInv, Init
<1>2. limit[u] \in Nat
  BY FTPSessionsAssumption DEF Init
<1> QED
  BY <1>2 DEF Init

\* A step that logs nobody in, and counts nobody.
LEMMA SameLimited ==
  ASSUME LimitInv, TypeOK, UNCHANGED env,
         \A u \in Users : userConns'[u] <= userConns[u],
         userConns' \in [Users -> Nat],
         \A u \in Users \ env.edits : limit'[u] = limit[u],
         \A c \in Conns :
           /\ sess'[c].st = "login" /\ sess'[c].user \in Users
                => \/ sess'[c].max = limit[sess'[c].user]
                   \/ sess[c].st = "login" /\ sess'[c].user = sess[c].user
                                           /\ sess'[c].max = sess[c].max
           /\ sess'[c].loggedIn
                => /\ sess[c].loggedIn /\ sess'[c].user = sess[c].user
                   /\ sess'[c].tracked = sess[c].tracked
  PROVE  LimitInv'
<1> SUFFICES ASSUME NEW u \in Users \ env.edits
             PROVE  /\ \A c \in Conns : sess'[c].st = "login" /\ sess'[c].user = u
                                          => sess'[c].max = limit'[u]
                    /\ limit'[u] > 0 =>
                         /\ userConns'[u] <= limit'[u]
                         /\ \A c \in Conns : sess'[c].loggedIn /\ sess'[c].user = u
                                               => sess'[c].tracked
  BY DEF LimitInv
<1>1. limit'[u] = limit[u] /\ limit[u] \in Nat /\ userConns[u] \in Nat /\ userConns'[u] \in Nat
  BY FTPSessionsAssumption DEF TypeOK
<1>2. limit[u] > 0 => userConns'[u] <= limit[u]
  BY <1>1 DEF LimitInv
<1> QED
  BY <1>1, <1>2 DEF LimitInv

LEMMA LimitingStep ==
  TypeOK /\ LoginInv /\ CountingInv /\ LimitingInv /\ [Next]_vars => LimitingInv'
<1> SUFFICES ASSUME TypeOK, LoginInv, [Next]_vars, ~env'.relogin, CountingInv, LimitingInv
             PROVE  LimitInv'
  BY DEF LimitingInv
<1>0. UNCHANGED env
  BY DEF Next, Client, Panel, vars, Connect, Accept, Store, AcceptFails,
         HangUp, Cleanup, User, PassRejected,
         PassAccepted, Login, TooManyConnections, CommandOfDisabledUser, EditUser,
         startFTPSvc, stopFTPSvc, restartFTPSvc, StopClients, StopListener, StopFlag,
         RestartStart, usersUnchanged
<1>02. TrackInv /\ LimitInv
  BY <1>0 DEF CountingInv, LimitingInv
<1>01. \A u \in Users : userConns[u] \in Nat
  BY DEF TypeOK
<1> USE DEF usersUnchanged, serviceUnchanged
<1>1. ASSUME NEW c \in Conns, Client(c) PROVE LimitInv'
  <2>1. sess[c] \in Session
    BY DEF TypeOK
  <2>2. CASE \/ Connect(c) \/ Accept(c) \/ Store(c) \/ HangUp(c) \/ (\E u \in Users : User(c, u))
             \/ PassRejected(c) \/ PassAccepted(c) \/ TooManyConnections(c)
             \/ CommandOfDisabledUser(c)
    <3>1. /\ \A d \in Conns \ {c} : sess'[d] = sess[d]
          /\ sess'[c].st = "login"
               => \/ sess'[c].max = limit[sess'[c].user]
                  \/ sess[c].st = "login" /\ sess'[c].user = sess[c].user
                                          /\ sess'[c].max = sess[c].max
          /\ sess'[c].loggedIn = sess[c].loggedIn
          /\ sess[c].loggedIn => sess'[c].user = sess[c].user
          /\ sess'[c].tracked = sess[c].tracked
          /\ UNCHANGED <<userConns, limit>>
      <4>1. CASE Connect(c)
        BY <2>1, <4>1 DEF Connect, TypeOK, Session
      <4>2. CASE Accept(c)
        BY <2>1, <4>2 DEF Accept, TypeOK, Session
      <4>9. CASE Store(c)
        BY <2>1, <4>9 DEF Store, TypeOK, Session
      <4>3. CASE HangUp(c)
        BY <2>1, <4>3 DEF HangUp, TypeOK, Session
      <4>4. CASE \E u \in Users : User(c, u)
        BY <1>0, <2>1, <4>4 DEF User, MaySend, TypeOK, Session
      <4>5. CASE PassRejected(c)
        BY <1>0, <2>1, <4>5 DEF PassRejected, MaySend, TypeOK, Session
      <4>6. CASE PassAccepted(c)
        BY <1>0, <2>1, <4>6 DEF PassAccepted, MaySend, TypeOK, Session
      <4>7. CASE TooManyConnections(c)
        BY <1>02, <2>1, <4>7 DEF TooManyConnections, TrackInv, TypeOK, Session
      <4>8. CASE CommandOfDisabledUser(c)
        BY <2>1, <4>8 DEF CommandOfDisabledUser, TypeOK, Session
      <4> QED
        BY <2>2, <4>1, <4>2, <4>3, <4>4, <4>5, <4>6, <4>7, <4>8, <4>9
    <3> QED
      BY <1>0, <1>02, <1>01, <3>1, SameLimited DEF TypeOK
  <2>3. CASE Login(c)
    <3>0. PICK u \in Users : u = sess[c].user
      BY <2>3 DEF Login, LoginInv
    <3>1. /\ \A d \in Conns \ {c} : sess'[d] = sess[d]
          /\ sess'[c].user = u /\ sess'[c].st = "serving"
          /\ sess[c].max > 0 => sess'[c].tracked
          /\ UNCHANGED limit
      BY <2>1, <2>3, <3>0 DEF Login, TypeOK, Session
    <3>2. /\ \A v \in Users \ {u} : userConns'[v] = userConns[v]
          /\ \/ sess[c].max = 0
             \/ userConns'[u] = userConns[u] + 1 /\ userConns[u] < sess[c].max
      <4>1. CASE sess[c].max = 0
        <5>1. userConns' = userConns
          BY <2>3, <4>1 DEF Login
        <5> QED
          BY <4>1, <5>1
      <4>2. CASE sess[c].max # 0
        <5>1. userConns' = [userConns EXCEPT ![u] = userConns[u] + 1]
          BY <2>3, <3>0, <4>2 DEF Login
        <5>2. userConns[u] < sess[c].max
          BY <2>3, <3>0, <4>2 DEF Login, HasRoom
        <5> QED
          BY <5>1, <5>2 DEF TypeOK
      <4> QED
        BY <4>1, <4>2
    <3> SUFFICES ASSUME NEW v \in Users \ env.edits
                 PROVE  /\ \A d \in Conns : sess'[d].st = "login" /\ sess'[d].user = v
                                              => sess'[d].max = limit[v]
                        /\ limit[v] > 0 =>
                             /\ userConns'[v] <= limit[v]
                             /\ \A d \in Conns : sess'[d].loggedIn /\ sess'[d].user = v
                                                   => sess'[d].tracked
      BY <1>0, <3>1 DEF LimitInv
    <3>3. CASE v = u
      <4>1. sess[c].max = limit[u] /\ limit[u] \in Nat /\ userConns[u] \in Nat
        BY <1>02, <1>01, <2>3, <3>0, <3>3, FTPSessionsAssumption DEF LimitInv, Login, TypeOK
      <4>2. limit[u] > 0 => userConns'[u] <= limit[u] /\ sess'[c].tracked
        BY <3>1, <3>2, <4>1
      <4> QED
        BY <1>02, <3>1, <3>3, <4>2 DEF LimitInv
    <3>4. CASE v # u
      BY <1>02, <3>1, <3>2, <3>4 DEF LimitInv
    <3> QED
      BY <3>3, <3>4
  <2>4. CASE Cleanup(c)
    <3>1. /\ \A d \in Conns \ {c} : sess'[d] = sess[d]
          /\ sess'[c].loggedIn = FALSE /\ sess'[c].st = "none"
          /\ UNCHANGED limit
      BY <2>4 DEF Cleanup, TypeOK, NoSession
    <3>2. /\ userConns' \in [Users -> Nat]
          /\ \A u \in Users : userConns'[u] <= userConns[u]
      <4>1. CASE sess[c].tracked
        <5>1. PICK u \in Users : u = sess[c].user /\ u # NoUser
          BY <1>02, <4>1, FTPSessionsAssumption DEF TrackInv
        <5>2. userConns' = Released(userConns, u)
          BY <2>4, <4>1, <5>1 DEF Cleanup
        <5> QED
          BY <1>01, <5>2, CountReleased DEF Released, TypeOK
      <4>2. CASE ~sess[c].tracked
        BY <1>01, <2>4, <4>2 DEF Cleanup, TypeOK
      <4> QED
        BY <4>1, <4>2
    <3> QED
      BY <1>0, <1>02, <3>1, <3>2, SameLimited
  <2> QED
    BY <1>1, <2>2, <2>3, <2>4 DEF Client
<1>2. CASE UNCHANGED <<sess, userConns, limit>>
  BY <1>0, <1>02, <1>2 DEF LimitInv
<1>3. CASE \E u \in Users : EditUser(u)
  <2>1. /\ UNCHANGED <<sess, userConns>>
        /\ \A u \in Users \ env.edits : limit'[u] = limit[u]
    BY <1>3 DEF EditUser, TypeOK
  <2> QED
    BY <1>0, <1>02, <2>1 DEF LimitInv
<1>4. CASE startFTPSvc \/ stopFTPSvc \/ restartFTPSvc \/ RestartStart \/ StopClients
  <2>1. /\ \A c \in Conns : /\ sess'[c].tracked = sess[c].tracked
                            /\ sess'[c].loggedIn = sess[c].loggedIn
                            /\ sess'[c].user = sess[c].user
                            /\ sess'[c].max = sess[c].max
                            /\ sess'[c].st = sess[c].st
        /\ UNCHANGED <<userConns, limit>>
    BY <1>4, PanelKeepsLogins
  <2> QED
    BY <1>0, <1>02, <2>1 DEF LimitInv
<1>5. CASE StopListener
  <2>1. \A c \in Conns : IF sess[c].st = "waiting"
                         THEN sess'[c].loggedIn = FALSE /\ sess'[c].st = "none"
                         ELSE sess'[c] = sess[c]
    BY <1>5 DEF StopListener, NoSession
  <2>2. UNCHANGED <<userConns, limit>>
    BY <1>5 DEF StopListener
  <2> QED
    BY <1>0, <1>02, <2>1, <2>2 DEF LimitInv
<1> QED
  BY <1>1, <1>2, <1>3, <1>4, <1>5 DEF Next, Panel, vars, StopFlag, AcceptFails

(***************************************************************************)
(* LimitRespected: however the logins of a user overlap, no more of them   *)
(* succeed than the MaxConnections of the user, unless it is edited.       *)
(***************************************************************************)
THEOREM LimitStaysRespected == Spec => []LimitRespected
<1>1. TypeOK /\ CountingInv /\ LimitingInv => LimitRespected
  <2> SUFFICES ASSUME TypeOK, CountInv, LimitInv, NEW u \in Users \ env.edits, limit[u] > 0
               PROVE  Cardinality(LoggedInAs(u)) <= limit[u]
    BY DEF CountingInv, LimitingInv, LimitRespected
  <2>1. LoggedInAs(u) \subseteq Tracked(u)
    BY DEF LimitInv, LoggedInAs, Tracked
  <2>2. /\ Cardinality(LoggedInAs(u)) <= Cardinality(Tracked(u))
        /\ Cardinality(LoggedInAs(u)) \in Nat /\ Cardinality(Tracked(u)) \in Nat
    BY <2>1, TrackedIsFinite, FS_Subset, FS_CardinalityType
  <2>3. Cardinality(Tracked(u)) <= limit[u] /\ limit[u] \in Nat
    BY FTPSessionsAssumption DEF CountInv, LimitInv, TypeOK
  <2> QED
    BY <2>2, <2>3
<1> QED
  BY Typing, CountingInit, CountingStep, LimitingInit, LimitingStep, <1>1, PTL DEF Spec

(***************************************************************************)
(* The flag.  Without overlaps only a stop that has closed the listener    *)
(* and has not yet cleared the flag sees the two differ.                   *)
(***************************************************************************)
FlagInv ==
  ~env.overlap =>
    IF admin \in {"stopFlag", "restartFlag"} THEN ~listening ELSE ftpRunning = listening

(***************************************************************************)
(* PanelKnowsService: if the panel's starts do not overlap its stops,      *)
(* ftpRunning tells the truth whenever no request is in flight.            *)
(***************************************************************************)
THEOREM PanelStaysInformed == Spec => []PanelKnowsService
<1>1. Init => FlagInv
  BY DEF Init, FlagInv
<1>2. TypeOK /\ FlagInv /\ [Next]_vars => FlagInv'
  <2> SUFFICES ASSUME TypeOK, FlagInv, [Next]_vars PROVE FlagInv'
    OBVIOUS
  <2> USE DEF usersUnchanged, serviceUnchanged
  <2>1. CASE UNCHANGED <<listening, ftpRunning, admin, env>>
    BY <2>1 DEF FlagInv
  <2>2. CASE startFTPSvc
    <3>1. CASE listening
      BY <2>2, <3>1 DEF startFTPSvc, Started, FlagInv
    <3>2. CASE ~listening
      <4>1. /\ listening' = TRUE /\ ftpRunning' = TRUE
            /\ env' = env /\ (env.overlap \/ admin' = "idle")
        BY <2>2, <3>2 DEF startFTPSvc, Started
      <4> QED
        BY <4>1 DEF FlagInv
    <3> QED
      BY <3>1, <3>2
  <2>3. CASE stopFTPSvc \/ restartFTPSvc
    BY <2>3 DEF stopFTPSvc, restartFTPSvc, FlagInv
  <2>4. CASE StopClients
    BY <2>4 DEF StopClients, FlagInv
  <2>5. CASE StopListener
    BY <2>5 DEF StopListener, FlagInv, TypeOK
  <2>6. CASE StopFlag
    BY <2>6 DEF StopFlag, FlagInv, TypeOK
  <2>7. CASE RestartStart
    <3>1. CASE listening
      BY <2>7, <3>1 DEF RestartStart, Started, FlagInv
    <3>2. CASE ~listening
      <4>1. /\ listening' = TRUE /\ ftpRunning' = TRUE
            /\ env' = env /\ (env.overlap \/ admin' = "idle")
        BY <2>7, <3>2 DEF RestartStart, Started
      <4> QED
        BY <4>1 DEF FlagInv
    <3> QED
      BY <3>1, <3>2
  <2> QED
    BY <2>1, <2>2, <2>3, <2>4, <2>5, <2>6, <2>7
    DEF Next, Client, Panel, vars, Connect, Accept, Store, AcceptFails,
         HangUp, Cleanup, User, PassRejected,
        PassAccepted, Login, TooManyConnections, CommandOfDisabledUser, EditUser
<1>3. FlagInv => PanelKnowsService
  BY DEF FlagInv, PanelKnowsService
<1> QED
  BY Typing, <1>1, <1>2, <1>3, PTL DEF Spec
=============================================================================
