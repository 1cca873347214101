---------------------------- MODULE FTPSessions ----------------------------
(***************************************************************************)
(* The control connections of the FTP server (ftp/server.go): the accept   *)
(* loop, one goroutine per client, the login and the connection limit of   *)
(* each user, and the panel requests that start, stop and restart the      *)
(* server (panel/api_ftp.go, panel/handler.go).                            *)
(*                                                                         *)
(* Neither the login, nor the acceptance of a client, nor the stop is      *)
(* atomic: the user's configuration is read before the counter is locked;  *)
(* a client that was accepted is entered in clients a step later; and the  *)
(* stop closes the clients it finds, then the listener, then clears the    *)
(* panel's flag.                                                           *)
(***************************************************************************)
EXTENDS Integers, FiniteSets

CONSTANTS
  Conns,          \* control connections
  Users,          \* user names
  NoUser,         \* the empty user name
  MaxLimit,       \* largest MaxConnections a user may be given (a bound)
  InitialLimits,  \* MaxConnections of the users at start; 0 is unlimited
  Environments    \* what clients and administrator do, see EnvType

EnvType == [relogin : BOOLEAN,   \* USER and PASS are sent again after a login
            edits   : SUBSET Users,  \* who is edited while connected
            stops   : BOOLEAN,   \* the service is stopped and restarted
            overlap : BOOLEAN,   \* a start may overlap a stop or a restart
            loops   : Nat \ {0}] \* most accept loops at a time (a bound)

ASSUME FTPSessionsAssumption ==
  /\ IsFiniteSet(Conns)
  /\ NoUser \notin Users
  /\ MaxLimit \in Nat
  /\ InitialLimits \subseteq [Users -> 0..MaxLimit]
  /\ Environments \subseteq EnvType

VARIABLES
  sess,        \* the FTPClient of each connection
  clients,     \* FTPServer.clients
  userConns,   \* FTPServer.userConns; a missing key is 0
  listening,   \* FTPServer.listener is open
  loops,       \* how many goroutines run acceptConnections
  swept,       \* how many did when the last stop began
  ftpRunning,  \* Handler.ftpRunning
  admin,       \* the stopFTPSvc or restartFTPSvc in flight
  enabled,     \* users whose Status is "enabled"
  limit,       \* MaxConnections of each user
  env

vars == <<sess, clients, userConns, listening, loops, swept, ftpRunning, admin, enabled, limit, env>>
usersUnchanged   == UNCHANGED <<enabled, limit, env>>
serviceUnchanged == UNCHANGED <<listening, loops, swept, ftpRunning, admin>>

(***************************************************************************)
(* st: a connection waits to be accepted, is held by an accept loop, then a *)
(* goroutine serves it; open says whether its socket is.  missed: when the  *)
(* last stop began it was held and not yet in clients, or it was accepted   *)
(* after that.  A login in progress has read its limit.                     *)
(***************************************************************************)
Session == [st       : {"none", "waiting", "accepted", "serving", "login"},
            open     : BOOLEAN,
            missed   : {"no", "held", "late"},
            user     : Users \cup {NoUser},
            loggedIn : BOOLEAN,
            tracked  : BOOLEAN,    \* connTracked
            max      : 0..MaxLimit]

NoSession == [st |-> "none", open |-> FALSE, missed |-> "no", user |-> NoUser,
              loggedIn |-> FALSE, tracked |-> FALSE, max |-> 0]

AdminStages == {"idle", "stopClients", "stopListener", "stopFlag",
                "restartClients", "restartListener", "restartFlag", "restartSleep"}
Stopping == admin \in {"stopClients", "stopListener", "restartClients", "restartListener"}

TypeOK ==
  /\ sess \in [Conns -> Session]
  /\ clients \subseteq Conns
  /\ userConns \in [Users -> Nat]
  /\ listening \in BOOLEAN /\ ftpRunning \in BOOLEAN
  /\ loops \in 0..env.loops /\ swept \in 0..env.loops
  /\ admin \in AdminStages
  /\ enabled \subseteq Users /\ limit \in [Users -> 0..MaxLimit]
  /\ env \in Environments

-----------------------------------------------------------------------------
(* Connections come and go.                                                *)

Connect(c) ==
  /\ listening /\ sess[c].st = "none"
  /\ sess' = [sess EXCEPT ![c] = [@ EXCEPT !.st = "waiting", !.open = TRUE]]
  /\ UNCHANGED <<clients, userConns>> /\ serviceUnchanged /\ usersUnchanged

\* The connections between listener.Accept and clients.Store, one per loop.
Held == {c \in Conns : sess[c].st = "accepted"}

Accept(c) ==
  /\ listening /\ sess[c].st = "waiting" /\ Cardinality(Held) < loops
  /\ sess' = [sess EXCEPT ![c] = [@ EXCEPT !.st = "accepted",
                                           !.missed = IF Stopping THEN "late" ELSE "no"]]
  /\ UNCHANGED <<clients, userConns>> /\ serviceUnchanged /\ usersUnchanged

\* Mutant: the connection is served but not entered in clients.
StoreNothing(c) ==
  /\ sess[c].st = "accepted"
  /\ sess' = [sess EXCEPT ![c] = [@ EXCEPT !.st = "serving"]]
  /\ UNCHANGED <<clients, userConns>> /\ serviceUnchanged /\ usersUnchanged

\* The loop enters it in clients, whatever has become of the listener, and starts handleClient.
Store(c) ==
  /\ sess[c].st = "accepted"
  /\ sess' = [sess EXCEPT ![c] = [@ EXCEPT !.st = "serving"]]
  /\ clients' = clients \cup {c}
  /\ UNCHANGED userConns /\ serviceUnchanged /\ usersUnchanged

\* A loop ends when Accept fails on a closed listener, which it may learn only after the
\* next Start; one that comes back from a client then serves the new listener as well.
AcceptFails ==
  /\ ~listening \/ loops > 1
  /\ Cardinality(Held) < loops
  /\ loops' = loops - 1
  /\ UNCHANGED <<sess, clients, userConns, listening, swept, ftpRunning, admin>> /\ usersUnchanged

\* The client hangs up, or sends QUIT.
HangUp(c) ==
  /\ sess[c].st \in {"serving", "login"} /\ sess[c].open
  /\ sess' = [sess EXCEPT ![c] = [@ EXCEPT !.open = FALSE]]
  /\ UNCHANGED <<clients, userConns>> /\ serviceUnchanged /\ usersUnchanged

\* Mutant: a count that is missing is decremented all the same.
ReleasedBelowZero(counts, user) == [counts EXCEPT ![user] = @ - 1]

(***************************************************************************)
(* The deferred function of handleClient, once the reader is at its end:   *)
(* the count of the user the client names now is released.                 *)
(***************************************************************************)
Released(counts, user) ==
  [counts EXCEPT ![user] = IF @ > 1 THEN @ - 1 ELSE 0]

\* Mutant: connTracked is not looked at.
CleanupOfAnyUser(c) ==
  /\ sess[c].st = "serving" /\ ~sess[c].open
  /\ userConns' = IF sess[c].user # NoUser
                  THEN Released(userConns, sess[c].user) ELSE userConns
  /\ sess' = [sess EXCEPT ![c] = NoSession]
  /\ clients' = clients \ {c}
  /\ serviceUnchanged /\ usersUnchanged

Cleanup(c) ==
  /\ sess[c].st = "serving" /\ ~sess[c].open
  /\ userConns' = IF sess[c].tracked /\ sess[c].user # NoUser
                  THEN Released(userConns, sess[c].user) ELSE userConns
  /\ sess' = [sess EXCEPT ![c] = NoSession]
  /\ clients' = clients \ {c}
  /\ serviceUnchanged /\ usersUnchanged

-----------------------------------------------------------------------------
(* Commands.  They may have been buffered before the connection closed.    *)

MaySend(c) == sess[c].st = "serving" /\ (env.relogin \/ ~sess[c].loggedIn)

User(c, u) ==
  /\ MaySend(c)
  /\ sess' = [sess EXCEPT ![c] = [@ EXCEPT !.user = u]]
  /\ UNCHANGED <<clients, userConns>> /\ serviceUnchanged /\ usersUnchanged

\* No such user, wrong password, disabled or expired account.
PassRejected(c) ==
  /\ MaySend(c)
  /\ sess' = [sess EXCEPT ![c] = [@ EXCEPT !.user = NoUser]]
  /\ UNCHANGED <<clients, userConns>> /\ serviceUnchanged /\ usersUnchanged

\* The right password: the limit is taken from a copy of the user's configuration.
PassAccepted(c) ==
  /\ MaySend(c) /\ sess[c].user \in enabled
  /\ sess' = [sess EXCEPT ![c] = [@ EXCEPT !.st = "login", !.max = limit[sess[c].user]]]
  /\ UNCHANGED <<clients, userConns>> /\ serviceUnchanged /\ usersUnchanged

\* Mutant: one connection too many.
HasRoomForOneMore(c) == sess[c].max = 0 \/ userConns[sess[c].user] <= sess[c].max

HasRoom(c) == sess[c].max = 0 \/ userConns[sess[c].user] < sess[c].max

Login(c) ==
  /\ sess[c].st = "login" /\ HasRoom(c)
  /\ sess' = [sess EXCEPT ![c] =
                [@ EXCEPT !.st = "serving", !.loggedIn = TRUE,
                          !.tracked = sess[c].tracked \/ sess[c].max > 0,
                          !.max = 0]]
  /\ userConns' = IF sess[c].max = 0 THEN userConns
                  ELSE [userConns EXCEPT ![sess[c].user] = @ + 1]
  /\ UNCHANGED clients /\ serviceUnchanged /\ usersUnchanged

TooManyConnections(c) ==
  /\ sess[c].st = "login" /\ ~HasRoom(c)
  /\ sess' = [sess EXCEPT ![c] = [@ EXCEPT !.st = "serving", !.user = NoUser, !.max = 0]]
  /\ UNCHANGED <<clients, userConns>> /\ serviceUnchanged /\ usersUnchanged

\* checkLogin closes the connection of a user who is gone or disabled.
CommandOfDisabledUser(c) ==
  /\ sess[c].st = "serving" /\ sess[c].loggedIn /\ sess[c].user \notin enabled
  /\ sess[c].open
  /\ sess' = [sess EXCEPT ![c] = [@ EXCEPT !.open = FALSE]]
  /\ UNCHANGED <<clients, userConns>> /\ serviceUnchanged /\ usersUnchanged

EditUser(u) ==
  /\ u \in env.edits
  /\ enabled' \in {enabled \cup {u}, enabled \ {u}}
  /\ \E n \in 0..MaxLimit : limit' = [limit EXCEPT ![u] = n]
  /\ UNCHANGED <<sess, clients, userConns, env>> /\ serviceUnchanged

-----------------------------------------------------------------------------
(* The panel.  Its FTP handlers hold no lock.                              *)

\* Mutant: the flag is not set.
StartedUnflagged == listening' = TRUE /\ UNCHANGED <<sess, loops, swept, ftpRunning>>

\* Start fails while the port is taken.  The last stop is then history.
Started ==
  IF listening THEN UNCHANGED <<sess, listening, loops, swept, ftpRunning>>
  ELSE /\ loops < env.loops /\ loops' = loops + 1 /\ listening' = TRUE /\ ftpRunning' = TRUE
       /\ sess' = [c \in Conns |-> [sess[c] EXCEPT !.missed = "no"]] /\ swept' = 0

startFTPSvc ==
  /\ env.overlap \/ admin = "idle"
  /\ Started
  /\ UNCHANGED <<clients, userConns, admin>> /\ usersUnchanged

\* Stop begins to range over clients; a loop may hold a connection that is not among them.
StopBegins ==
  /\ swept' = loops
  /\ sess' = [c \in Conns |-> IF c \in Held THEN [sess[c] EXCEPT !.missed = "held"] ELSE sess[c]]

stopFTPSvc ==
  /\ env.stops /\ admin = "idle" /\ ftpRunning
  /\ StopBegins /\ admin' = "stopClients"
  /\ UNCHANGED <<clients, userConns, listening, loops, ftpRunning>> /\ usersUnchanged

restartFTPSvc ==
  /\ env.stops /\ admin = "idle"
  /\ IF ftpRunning THEN StopBegins /\ admin' = "restartClients"
     ELSE UNCHANGED <<sess, swept>> /\ admin' = "restartSleep"
  /\ UNCHANGED <<clients, userConns, listening, loops, ftpRunning>> /\ usersUnchanged

\* Range has closed the clients; those entered since it began it may have passed over.
StopClients ==
  /\ admin \in {"stopClients", "restartClients"}
  /\ \E passed \in SUBSET {c \in clients : sess[c].missed # "no"} :
       sess' = [c \in Conns |-> [sess[c] EXCEPT !.open = @ /\ c \notin clients \ passed]]
  /\ admin' = IF admin = "stopClients" THEN "stopListener" ELSE "restartListener"
  /\ UNCHANGED <<clients, userConns, listening, loops, swept, ftpRunning>> /\ usersUnchanged

\* Closing the listener resets the connections nobody has accepted; a listener
\* that is closed already is an error, and the request ends there.
StopListener ==
  /\ admin \in {"stopListener", "restartListener"}
  /\ listening' = FALSE
  /\ sess' = [c \in Conns |-> IF sess[c].st = "waiting" THEN NoSession ELSE sess[c]]
  /\ admin' = IF ~listening THEN "idle"
              ELSE IF admin = "stopListener" THEN "stopFlag" ELSE "restartFlag"
  /\ UNCHANGED <<clients, userConns, loops, swept, ftpRunning>> /\ usersUnchanged

StopFlag ==
  /\ admin \in {"stopFlag", "restartFlag"}
  /\ ftpRunning' = FALSE
  /\ admin' = IF admin = "stopFlag" THEN "idle" ELSE "restartSleep"
  /\ UNCHANGED <<sess, clients, userConns, listening, loops, swept>> /\ usersUnchanged

RestartStart ==
  /\ admin = "restartSleep"
  /\ Started
  /\ admin' = "idle"
  /\ UNCHANGED <<clients, userConns>> /\ usersUnchanged

-----------------------------------------------------------------------------
\* The process has started, and started the server.
Init ==
  /\ env \in Environments
  /\ sess = [c \in Conns |-> NoSession]
  /\ clients = {} /\ userConns = [u \in Users |-> 0]
  /\ listening = TRUE /\ loops = 1 /\ swept = 0 /\ ftpRunning = TRUE /\ admin = "idle"
  /\ enabled = Users /\ limit \in InitialLimits

Client(c) ==
  \/ Connect(c) \/ Accept(c) \/ Store(c) \/ HangUp(c) \/ Cleanup(c)
  \/ (\E u \in Users : User(c, u)) \/ PassRejected(c) \/ PassAccepted(c)
  \/ Login(c) \/ TooManyConnections(c) \/ CommandOfDisabledUser(c)

Panel ==
  \/ startFTPSvc \/ stopFTPSvc \/ restartFTPSvc
  \/ StopClients \/ StopListener \/ StopFlag \/ RestartStart

Next == (\E c \in Conns : Client(c)) \/ AcceptFails \/ (\E u \in Users : EditUser(u)) \/ Panel

Spec == Init /\ [][Next]_vars

-----------------------------------------------------------------------------
(* Properties.                                                             *)

Tracked(u)     == {c \in Conns : sess[c].tracked /\ sess[c].user = u}
LoggedInAs(u)  == {c \in Conns : sess[c].loggedIn /\ sess[c].user = u}

(***************************************************************************)
(* A client that logs in once is counted once and released once, however   *)
(* it is disconnected and whatever is done to its user meanwhile.          *)
(***************************************************************************)
CountsAreExact ==
  ~env.relogin => \A u \in Users : userConns[u] = Cardinality(Tracked(u))

(***************************************************************************)
(* No user has more connections than MaxConnections allows, although the   *)
(* limit is read before the counter is locked.  (Lowering the limit of a   *)
(* connected user disconnects nobody.)                                     *)
(***************************************************************************)
LimitRespected ==
  ~env.relogin =>
    \A u \in Users \ env.edits : limit[u] > 0 => Cardinality(LoggedInAs(u)) <= limit[u]

(***************************************************************************)
(* When the listener is closed, a client is connected only if it entered    *)
(* clients after the stop had begun, or has not yet: of those accepted      *)
(* before, each accept loop may have held one, whom the stop misses and     *)
(* handleClient goes on to serve; the others were accepted meanwhile.       *)
(***************************************************************************)
Missed(how) == {c \in Conns : sess[c].open /\ sess[c].missed = how}

StopDisconnects ==
  ~listening => /\ Missed("no") = {}
                /\ Cardinality(Missed("held")) <= swept

(***************************************************************************)
(* The panel's flag tells whether the server listens, if starts and stops  *)
(* do not overlap: otherwise a start that comes between the closing of the *)
(* listener and the clearing of the flag is forgotten.                     *)
(***************************************************************************)
PanelKnowsService ==
  ~env.overlap /\ admin = "idle" => ftpRunning = listening

(***************************************************************************)
(* server.go:42 calls userConns the number of current connections of each  *)
(* user: when no client is connected every count is 0.                     *)
(***************************************************************************)
UserConnsAreCurrent ==
  (\A c \in Conns : sess[c].st = "none") => \A u \in Users : userConns[u] = 0
=============================================================================
