---------------------------- MODULE SiteService ----------------------------
(***************************************************************************)
(* The website service of the panel: the site requests of the admin API    *)
(* (panel/api_site.go), the SiteManager that starts and stops the          *)
(* listeners of the sites (site/server.go) and the site configuration they *)
(* share (config/config.go), in memory and on disk.                        *)
(*                                                                         *)
(* A listener is an http.Server: it is started by a goroutine, so between  *)
(* the moment SiteManager registers a server and the moment it serves, its *)
(* port may be taken, or the server may already have been closed.          *)
(***************************************************************************)
EXTENDS Naturals, Functions

CONSTANTS
  Sites,          \* site identifiers
  Ports,          \* port numbers a site may be given; 0 is "no port"
  AdminPort,      \* Server.Admin.Port, held by the panel itself
  BadSites,       \* sites whose handler createHandler refuses to build
  Servers,        \* *http.Server objects (bounds how many are alive at once)
  NoServer,       \* nil
  MaxGo,          \* bound on shared-port goroutines not yet run
  InitialDisks,   \* contents of sites.json the process may start from
  Environments    \* how the administrator uses the service, see EnvType

(***************************************************************************)
(* The requests.  "restart", "svcRestart", ... are one kind each; a batch  *)
(* request is an enable, disable or delete of several sites.               *)
(***************************************************************************)
Lifecycle == {"enable", "disable", "start", "stop", "restart",
              "svcStart", "svcStop", "svcRestart", "reloadFTP"}
RequestKinds == Lifecycle \cup {"create", "update", "delete", "reload"}

EnvType == [requests  : SUBSET RequestKinds,
            overlap   : {"none", "sites", "any"},  \* which requests overlap:
                                   \* none, those about different sites, any
            repeat    : BOOLEAN,   \* an enabled site may be enabled again
            saveFails : BOOLEAN]   \* writing a configuration file may fail

CMs         == {1, 2}              \* the two ConfigManager objects that can be live
SiteState   == {"absent", "off", "on"}
SiteConfig  == [st : SiteState, port : Ports]
SitesConfig == [Sites -> SiteConfig]

ServerState == {"free", "starting", "binding", "serving", "closing", "failed"}
Net == [srv    : [Servers -> [st : ServerState, port : Ports]],
        ports  : [Ports -> Servers \cup {NoServer}],
        shared : Servers \cup {NoServer},
        go     : 0..MaxGo]

Absent == [st |-> "absent", port |-> 0]

ASSUME SiteServiceAssumption ==
  /\ Ports \subseteq Nat /\ 0 \in Ports
  /\ AdminPort \in Nat
  /\ BadSites \subseteq Sites
  /\ NoServer \notin Servers
  /\ MaxGo \in Nat
  /\ InitialDisks \subseteq SitesConfig
  /\ Environments \subseteq EnvType

VARIABLES
  mem,           \* the ConfigManager objects: their in-memory Sites
  panelCM,       \* Handler.ConfigManager
  mgrCM,         \* SiteManager.ConfigManager
  disk,          \* sites.json
  net,           \* portServers, sharedServer and the http.Servers behind them
  sitesRunning,  \* SiteManager.sitesRunning
  hreq,          \* the request that holds Handler.mu
  svc,           \* the StopSitesServer, RestartSitesServer or reloadFTP in flight
  restarting,    \* sites whose RestartSite is in its 300 ms sleep
  panicked,      \* a goroutine dereferenced nil: the process is gone
  env            \* the environment of this behaviour; never changes

vars == <<mem, panelCM, mgrCM, disk, net, sitesRunning, hreq, svc,
          restarting, panicked, env>>
cfgVars == <<mem, panelCM, mgrCM, disk>>

Idle == [stage |-> "idle", op |-> "none", todo |-> {}, copy |-> Absent]

TypeOK ==
  /\ mem \in [CMs -> SitesConfig]
  /\ panelCM \in CMs /\ mgrCM \in CMs
  /\ disk \in SitesConfig
  /\ net \in Net
  /\ sitesRunning \in BOOLEAN
  /\ hreq \in [stage : {"idle", "save", "runtime"},
               op    : {"none", "create", "update", "delete", "enable", "disable"},
               todo  : SUBSET Sites,
               copy  : SiteConfig]
  /\ svc \in {"idle", "stopClose", "stopReset", "restartClose",
              "restartReset", "restartSleep", "ftpSync"}
  /\ restarting \subseteq Sites
  /\ panicked \in BOOLEAN
  /\ env \in Environments

-----------------------------------------------------------------------------
(* The shared port.                                                        *)

OnSites(c) == {s \in Sites : c[s].st = "on"}

(***************************************************************************)
(* GetSharedPort walks a Go map and returns the first port with more than  *)
(* one enabled site, or 80 or 443: any such port may be the answer, and    *)
(* two calls may answer differently.  0 means there is none.               *)
(***************************************************************************)
SharedCandidates(c) ==
  {p \in Ports \ {0} : \E s \in OnSites(c) :
     /\ c[s].port = p
     /\ \/ p \in {80, 443}
        \/ \E t \in OnSites(c) \ {s} : c[t].port = p}

GetSharedPort(c) == IF SharedCandidates(c) = {} THEN {0} ELSE SharedCandidates(c)

-----------------------------------------------------------------------------
(* http.Server: closing and launching.                                     *)

\* A server nobody refers to can stand for a newly allocated one.
Unused(nt) == {n \in Servers \ (Range(nt.ports) \cup {nt.shared}) :
                 nt.srv[n].st \in {"free", "failed"}}

Starting(p) == [st |-> "starting", port |-> p]

(***************************************************************************)
(* Close: a server whose goroutine has not listened yet never will; one    *)
(* that has its socket but has not registered it with Serve keeps the port *)
(* until Serve returns; a serving one releases its port at once.           *)
(***************************************************************************)
CloseServers(srv, T) ==
  [n \in Servers |->
     IF n \notin T THEN srv[n]
     ELSE IF srv[n].st \in {"binding", "closing"}
          THEN [srv[n] EXCEPT !.st = "closing"]
          ELSE [srv[n] EXCEPT !.st = "free"]]

Launch(nt, n, p) == [nt EXCEPT !.srv[n] = Starting(p), !.ports[p] = n]

-----------------------------------------------------------------------------
(* The SiteManager helpers that start and stop listeners.  The starting    *)
(* ones give the set of possible outcomes.                                 *)

\* Mutants: the entry is dropped and the server left open, or the reverse.
StopSitePortLeavesOpen(nt, p) == [nt EXCEPT !.ports[p] = NoServer]

StopSitePortKeepsEntry(nt, p) ==
  [nt EXCEPT !.srv = CloseServers(@, {nt.ports[p]})]

StopSitePort(nt, p) ==
  [nt EXCEPT !.srv = CloseServers(@, {nt.ports[p]}), !.ports[p] = NoServer]

\* startSitePort leaves shared, reserved and absent ports alone.
GetsOwnPort(s, p, sharedPort) ==
  /\ p > 0 /\ p # AdminPort
  /\ p \notin {sharedPort, 80, 443}
  /\ s \notin BadSites

\* The server is entered in portServers whatever entry is already there.
StartSitePort(nt, c, s, p) ==
  {nt : x \in {y \in GetSharedPort(c) : ~GetsOwnPort(s, p, y)}}
    \cup
  {Launch(nt, n, p) : n \in {m \in Unused(nt) :
                               \E y \in GetSharedPort(c) : GetsOwnPort(s, p, y)}}

StopPortSites(nt) ==
  [nt EXCEPT !.srv = CloseServers(@, Range(nt.ports)),
             !.ports = [p \in Ports |-> NoServer]]

(***************************************************************************)
(* Starting the sites of T one after another: each gets a server, and      *)
(* where two have the same port the later one takes the map entry.         *)
(***************************************************************************)
LaunchAs(nt, c, T, server, winners) ==
  LET entry(p) == IF \E w \in winners : c[w].port = p
                  THEN server[CHOOSE w \in winners : c[w].port = p]
                  ELSE nt.ports[p]
      state(n) == IF \E s \in T : server[s] = n
                  THEN Starting(c[CHOOSE s \in T : server[s] = n].port)
                  ELSE nt.srv[n]
  IN [nt EXCEPT !.srv = [n \in Servers |-> state(n)], !.ports = [p \in Ports |-> entry(p)]]

LaunchAll(nt, c, T) ==
  {LaunchAs(nt, c, T, server, winners) :
     server \in Injection(T, Unused(nt)),
     winners \in {W \in SUBSET T : \A s \in T :
                    \E w \in W : /\ c[w].port = c[s].port
                                 /\ \A v \in W : c[v].port = c[s].port => v = w}}

\* startPortSites asks for the shared port once, startSitePort once per site.
StartPortSites(nt, c) ==
  UNION {LaunchAll(StopPortSites(nt), c,
                   {s \in OnSites(c) : /\ c[s].port # x
                                       /\ GetsOwnPort(s, c[s].port, answer[s])})
           : x \in GetSharedPort(c), answer \in [OnSites(c) -> GetSharedPort(c)]}

StopSharedPort(nt) ==
  [nt EXCEPT !.srv = CloseServers(@, {nt.shared}), !.shared = NoServer]

LaunchShared(nt, n, p) ==
  [nt EXCEPT !.srv[n] = Starting(p), !.shared = n, !.go = @ + 1]

StartSharedPort(nt, c) ==
  LET stopped == StopSharedPort(nt)
  IN {stopped : x \in GetSharedPort(c) \cap {0}}
       \cup
     {LaunchShared(stopped, n, x) : x \in GetSharedPort(c) \ {0},
                                    n \in {m \in Unused(stopped) : stopped.go < MaxGo}}

StartAll(nt, c) == UNION {StartSharedPort(r, c) : r \in StartPortSites(nt, c)}

-----------------------------------------------------------------------------
(* When a request may arrive.                                              *)

Busy == hreq.todo \cup restarting

MayTouch(S) ==
  \/ env.overlap = "any"
  \/ svc = "idle" /\ Busy \cap (IF env.overlap = "sites" THEN S ELSE Sites) = {}

MayTouchAll == MayTouch(Sites)

Asked(kind) == ~panicked /\ kind \in env.requests

SaveOutcomes == IF env.saveFails THEN BOOLEAN ELSE {TRUE}

\* Save writes four files: it may fail before sites.json or after it.
Written(saved, old, new) == IF saved THEN {new} ELSE {old, new}

-----------------------------------------------------------------------------
(* The requests that hold Handler.mu: they change the configuration the    *)
(* panel sees, save it, then bring the listeners in line.                  *)

Panel == mem[panelCM]

\* What the request does to the configuration before it saves.
Mutated(c, op, S, cfg) ==
  [s \in Sites |->
     IF s \notin S THEN c[s]
     ELSE IF op \in {"create", "update"} THEN cfg
     ELSE [c[s] EXCEPT !.st = CASE op = "enable"  -> "on"
                                [] op = "disable" -> "off"
                                [] op = "delete"  -> "absent"]]

\* AddSite, UpdateSite and DeleteSite write sites.json themselves.
SavesAtOnce(op) == op \in {"create", "update", "delete"}

BeginRequest(op, S, cfg) ==
  /\ Asked(op) /\ hreq.stage = "idle" /\ MayTouch(S)
  /\ \A s \in S : (Panel[s].st = "absent") <=> (op = "create")
  /\ op = "enable" /\ ~env.repeat => \A s \in S : Panel[s].st = "off"
  /\ mem' = [mem EXCEPT ![panelCM] = Mutated(Panel, op, S, cfg)]
  /\ \E saved \in IF SavesAtOnce(op) THEN SaveOutcomes ELSE {TRUE} :
       /\ disk' = IF SavesAtOnce(op) /\ saved THEN mem'[panelCM] ELSE disk
       /\ hreq' = IF saved
                  THEN [stage |-> "save", op |-> op, todo |-> S,
                        copy |-> IF op = "create" THEN cfg ELSE Absent]
                  ELSE Idle
  /\ UNCHANGED <<panelCM, mgrCM, net, sitesRunning, svc, restarting, panicked, env>>

\* handleSiteToggle and handleSitesBatch (enable, disable, delete), deleteSite
Toggle == \E op \in {"enable", "disable", "delete"}, S \in (SUBSET Sites) \ {{}} :
            BeginRequest(op, S, Absent)

\* createSite and updateSite: the new configuration comes with the request
Edit == \E op \in {"create", "update"}, s \in Sites,
           st \in {"off", "on"}, p \in Ports :
          BeginRequest(op, {s}, [st |-> st, port |-> p])

SaveRequest ==
  /\ hreq.stage = "save" /\ ~panicked
  /\ \E saved \in SaveOutcomes :
       /\ disk' \in Written(saved, disk, Panel)
       /\ hreq' = IF saved THEN [hreq EXCEPT !.stage = "runtime"] ELSE Idle
  /\ UNCHANGED <<mem, panelCM, mgrCM, net, sitesRunning, svc, restarting, panicked, env>>

\* AddSiteRuntime, for the configuration the handler passes
AddSiteRuntime(s, cfg) ==
  IF cfg.st = "on" /\ s \notin BadSites
  THEN net' \in StartSitePort(net, mem[mgrCM], s, cfg.port)
  ELSE UNCHANGED net

\* UpdateSiteRuntime is passed the new configuration only
UpdateSiteRuntime(s, cfg) ==
  LET stopped == StopSitePort(net, cfg.port)
  IN CASE cfg.st = "on" /\ s \notin BadSites ->
            net' \in StartSitePort(stopped, mem[mgrCM], s, cfg.port)
       [] cfg.st = "off" \/ (cfg.st = "on" /\ s \in BadSites) -> net' = stopped
       [] cfg.st = "absent" -> UNCHANGED net

\* Mutant: only a site that is still enabled has its port stopped.
DeleteSiteRuntimeIfEnabled(s) ==
  LET cfg == mem[mgrCM][s]
  IN net' = IF cfg.st = "on" THEN StopSitePort(net, cfg.port) ELSE net

\* DeleteSiteRuntime finds the port through the SiteManager's configuration
DeleteSiteRuntime(s) ==
  LET cfg == mem[mgrCM][s]
  IN net' = IF cfg.st # "absent" THEN StopSitePort(net, cfg.port) ELSE net

ApplyRequest(s) ==
  /\ hreq.stage = "runtime" /\ s \in hreq.todo /\ ~panicked
  /\ CASE hreq.op = "create" -> AddSiteRuntime(s, hreq.copy)
       [] hreq.op = "enable" -> AddSiteRuntime(s, Panel[s])
       [] hreq.op = "update" -> UpdateSiteRuntime(s, Panel[s])
       [] hreq.op \in {"disable", "delete"} -> DeleteSiteRuntime(s)
  /\ hreq' = IF hreq.todo = {s} THEN Idle ELSE [hreq EXCEPT !.todo = @ \ {s}]
  /\ UNCHANGED <<cfgVars, sitesRunning, svc, restarting, panicked, env>>
-----------------------------------------------------------------------------
(* The requests that hold only SiteManager.mu, and only while they run.    *)

Manager == mem[mgrCM]

\* Mutant: the change is not saved.
SetStateUnsaved(s, st) ==
  mem' = [mem EXCEPT ![mgrCM][s].st = st] /\ UNCHANGED disk

\* StartSite and StopSite ignore a failure to save.
SetState(s, st) ==
  /\ mem' = [mem EXCEPT ![mgrCM][s].st = st]
  /\ \E saved \in SaveOutcomes : disk' \in Written(saved, disk, mem'[mgrCM])

StartSiteBody(s) ==
  IF Manager[s].st = "off" /\ s \notin BadSites
  THEN /\ SetState(s, "on")
       /\ net' \in StartSitePort(net, mem'[mgrCM], s, Manager[s].port)
  ELSE UNCHANGED <<mem, disk, net>>

StopSiteBody(s) ==
  IF Manager[s].st = "on"
  THEN /\ SetState(s, "off")
       /\ net' = StopSitePort(net, Manager[s].port)
  ELSE UNCHANGED <<mem, disk, net>>

StartSite(s) ==
  /\ Asked("start") /\ MayTouch({s}) /\ StartSiteBody(s)
  /\ UNCHANGED <<panelCM, mgrCM, sitesRunning, hreq, svc, restarting, panicked, env>>

StopSite(s) ==
  /\ Asked("stop") /\ MayTouch({s}) /\ StopSiteBody(s)
  /\ UNCHANGED <<panelCM, mgrCM, sitesRunning, hreq, svc, restarting, panicked, env>>

\* RestartSite releases the lock between stopping and starting.
RestartSite(s) ==
  /\ Asked("restart") /\ MayTouch({s}) /\ s \notin restarting
  /\ Manager[s].st # "absent" /\ StopSiteBody(s)
  /\ restarting' = restarting \cup {s}
  /\ UNCHANGED <<panelCM, mgrCM, sitesRunning, hreq, svc, panicked, env>>

FinishRestartSite(s) ==
  /\ s \in restarting /\ ~panicked /\ StartSiteBody(s)
  /\ restarting' = restarting \ {s}
  /\ UNCHANGED <<panelCM, mgrCM, sitesRunning, hreq, svc, panicked, env>>

StartSitesServerBody ==
  IF sitesRunning \/ OnSites(Manager) = {}
  THEN UNCHANGED <<net, sitesRunning>>
  ELSE net' \in StartAll(net, Manager) /\ sitesRunning' = TRUE

StartSitesServer ==
  /\ Asked("svcStart") /\ MayTouchAll /\ StartSitesServerBody
  /\ UNCHANGED <<cfgVars, hreq, svc, restarting, panicked, env>>

(***************************************************************************)
(* StopSitesServer clears the flag under the lock and stops the listeners  *)
(* after releasing it: first every registered server is closed, then the   *)
(* map is replaced and the shared port stopped.                            *)
(***************************************************************************)
StopSitesServer ==
  /\ Asked("svcStop") /\ MayTouchAll /\ svc = "idle" /\ sitesRunning
  /\ sitesRunning' = FALSE /\ svc' = "stopClose"
  /\ UNCHANGED <<cfgVars, net, hreq, restarting, panicked, env>>

\* Mutant: the flag stays set, so the second half of the restart starts nothing.
RestartSitesServerKeepsFlag ==
  /\ Asked("svcRestart") /\ MayTouchAll /\ svc = "idle"
  /\ svc' = IF sitesRunning THEN "restartClose" ELSE "restartSleep"
  /\ UNCHANGED <<cfgVars, net, sitesRunning, hreq, restarting, panicked, env>>

RestartSitesServer ==
  /\ Asked("svcRestart") /\ MayTouchAll /\ svc = "idle"
  /\ sitesRunning' = FALSE
  /\ svc' = IF sitesRunning THEN "restartClose" ELSE "restartSleep"
  /\ UNCHANGED <<cfgVars, net, hreq, restarting, panicked, env>>

\* Its walk of portServers may meet a request that writes the map: Go aborts.
MapRace ==
  /\ env.overlap = "any" /\ ~panicked /\ svc \in {"stopClose", "restartClose"}
  /\ panicked' = TRUE
  /\ UNCHANGED <<cfgVars, net, sitesRunning, hreq, svc, restarting, env>>

CloseServices ==
  /\ svc \in {"stopClose", "restartClose"} /\ ~panicked
  /\ net' = [net EXCEPT !.srv = CloseServers(@, Range(net.ports))]
  /\ svc' = IF svc = "stopClose" THEN "stopReset" ELSE "restartReset"
  /\ UNCHANGED <<cfgVars, sitesRunning, hreq, restarting, panicked, env>>

\* Mutant: the closed map is thrown away and no new one made.
ResetServicesNilMap ==
  /\ svc \in {"stopReset", "restartReset"} /\ ~panicked
  /\ net' = StopSharedPort([net EXCEPT !.ports = <<>>])
  /\ svc' = IF svc = "stopReset" THEN "idle" ELSE "restartSleep"
  /\ UNCHANGED <<cfgVars, sitesRunning, hreq, restarting, panicked, env>>

ResetServices ==
  /\ svc \in {"stopReset", "restartReset"} /\ ~panicked
  /\ net' = StopSharedPort([net EXCEPT !.ports = [p \in Ports |-> NoServer]])
  /\ svc' = IF svc = "stopReset" THEN "idle" ELSE "restartSleep"
  /\ UNCHANGED <<cfgVars, sitesRunning, hreq, restarting, panicked, env>>

FinishServiceRestart ==
  /\ svc = "restartSleep" /\ ~panicked /\ StartSitesServerBody
  /\ svc' = "idle"
  /\ UNCHANGED <<cfgVars, hreq, restarting, panicked, env>>

(***************************************************************************)
(* ReloadSites gives the SiteManager a ConfigManager of its own, read from *)
(* disk; the panel keeps the one it has.                                   *)
(***************************************************************************)
ReloadSites ==
  LET fresh == CHOOSE i \in CMs : i # panelCM
  IN /\ mgrCM' = fresh
     /\ mem' = [mem EXCEPT ![fresh] = disk]
     /\ net' \in StartAll(net, disk)

ReloadSitesConfig ==
  /\ Asked("reload") /\ MayTouchAll /\ ReloadSites
  /\ UNCHANGED <<panelCM, disk, sitesRunning, hreq, svc, restarting, panicked, env>>

\* reloadFTP also makes the panel use the new one, once the lock is released.
ReloadFTP ==
  /\ Asked("reloadFTP") /\ MayTouchAll /\ svc = "idle" /\ ReloadSites
  /\ svc' = "ftpSync"
  /\ UNCHANGED <<panelCM, disk, sitesRunning, hreq, restarting, panicked, env>>

SyncPanel ==
  /\ svc = "ftpSync" /\ ~panicked
  /\ panelCM' = mgrCM /\ svc' = "idle"
  /\ mem' = [i \in CMs |-> Manager]       \* nobody refers to the old one
  /\ UNCHANGED <<mgrCM, disk, net, sitesRunning, hreq, restarting, panicked, env>>

-----------------------------------------------------------------------------
(* The goroutines that run the servers (net/http).                         *)

Holds(nt, n) == nt.srv[n].st \in {"binding", "serving", "closing"}

PortTaken(nt, p) == p = AdminPort \/ \E m \in Servers : Holds(nt, m) /\ nt.srv[m].port = p

Listened(nt, n) ==
  [nt EXCEPT !.srv[n].st = IF PortTaken(nt, nt.srv[n].port) THEN "failed" ELSE "binding"]

goroutineUnchanged == <<cfgVars, sitesRunning, hreq, svc, restarting, env>>

Listen(n) ==
  /\ ~panicked /\ net.srv[n].st = "starting" /\ n # net.shared
  /\ net' = Listened(net, n)
  /\ UNCHANGED <<goroutineUnchanged, panicked>>

Serve(n) ==
  /\ ~panicked /\ net.srv[n].st \in {"binding", "closing"}
  /\ net' = [net EXCEPT !.srv[n].st = IF @ = "binding" THEN "serving" ELSE "free"]
  /\ UNCHANGED <<goroutineUnchanged, panicked>>

(***************************************************************************)
(* The goroutine of startSharedPort reads m.sharedServer when it runs, not *)
(* when it was launched: it may find a later server, or nil.               *)
(***************************************************************************)
SharedListen ==
  /\ ~panicked /\ net.go > 0
  /\ LET run == [net EXCEPT !.go = @ - 1]
     IN net' = IF net.shared # NoServer /\ net.srv[net.shared].st = "starting"
               THEN Listened(run, net.shared) ELSE run
  /\ panicked' = (net.shared = NoServer)
  /\ UNCHANGED goroutineUnchanged

-----------------------------------------------------------------------------
Init ==
  /\ env \in Environments
  /\ disk \in InitialDisks
  /\ mem = [i \in CMs |-> disk]
  /\ panelCM = 1 /\ mgrCM = 1
  /\ net = [srv    |-> [n \in Servers |-> [st |-> "free", port |-> 0]],
            ports  |-> [p \in Ports |-> NoServer],
            shared |-> NoServer,
            go     |-> 0]
  /\ sitesRunning = FALSE /\ hreq = Idle /\ svc = "idle"
  /\ restarting = {} /\ panicked = FALSE

Goroutine == SharedListen \/ \E n \in Servers : Listen(n) \/ Serve(n)

Request ==
  \/ Toggle \/ Edit
  \/ \E s \in Sites : StartSite(s) \/ StopSite(s) \/ RestartSite(s)
  \/ StartSitesServer \/ StopSitesServer \/ RestartSitesServer
  \/ ReloadSitesConfig \/ ReloadFTP

ContinueRequest == SaveRequest \/ \E s \in Sites : ApplyRequest(s)

ContinueService ==
  CloseServices \/ ResetServices \/ FinishServiceRestart \/ SyncPanel

Next ==
  \/ Request
  \/ ContinueRequest \/ ContinueService \/ \E s \in Sites : FinishRestartSite(s)
  \/ Goroutine \/ MapRace

\* Every goroutine that can take a step takes one; nobody has to send requests.
Fairness ==
  /\ WF_vars(ContinueRequest) /\ WF_vars(ContinueService) /\ WF_vars(SharedListen)
  /\ \A s \in Sites : WF_vars(FinishRestartSite(s))
  /\ \A n \in Servers : WF_vars(Listen(n)) /\ WF_vars(Serve(n))

Spec == Init /\ [][Next]_vars
FairSpec == Spec /\ Fairness

-----------------------------------------------------------------------------
(* Properties.                                                             *)

(***************************************************************************)
(* Orderly use: sites are enabled, disabled, started, stopped and          *)
(* restarted, never edited; requests about sites that have the same port   *)
(* do not overlap; and there is at most one port GetSharedPort may answer. *)
(***************************************************************************)
SamePort(s, t) == s # t /\ Manager[s].port = Manager[t].port

MightBeShared(p) ==
  /\ p # 0
  /\ \E s \in Sites : Manager[s].port = p /\ (p \in {80, 443} \/ \E t \in Sites : SamePort(s, t))

Orderly ==
  /\ env.requests \subseteq Lifecycle /\ ~env.repeat /\ ~env.saveFails
  /\ \/ env.overlap = "none"
     \/ env.overlap = "sites" /\ \A s, t \in Sites : ~SamePort(s, t)
  /\ \A p, q \in Ports : MightBeShared(p) /\ MightBeShared(q) => p = q

Alive(n) == net.srv[n].st \in {"starting", "binding", "serving"}

(***************************************************************************)
(* No listener is lost: in orderly use every server that runs is one that  *)
(* SiteManager can still close, as the shared server or as the portServers *)
(* entry of its port.                                                      *)
(***************************************************************************)
NoOrphanServer ==
  Orderly => \A n \in Servers : Alive(n) =>
              n = net.shared \/ net.ports[net.srv[n].port] = n

(***************************************************************************)
(* A registered server has not been closed: stopSitePort, stopPortSites    *)
(* and stopSharedPort forget a server when they close it, whatever         *)
(* requests overlap; only StopSitesServer does the two in separate steps.  *)
(***************************************************************************)
RegisteredServersAreOpen ==
  LET closed(n) == net.srv[n].st \in {"free", "closing"}
  IN /\ net.shared # NoServer => ~closed(net.shared)
     /\ svc \in {"stopReset", "restartReset"}
          \/ \A p \in Ports : net.ports[p] # NoServer => ~closed(net.ports[p])

(***************************************************************************)
(* A port that is listened on has an enabled site: a disabled or stopped   *)
(* site is not left served, except while the request is being carried out. *)
(***************************************************************************)
ListenedPortHasSite ==
  Orderly /\ svc = "idle" =>
    \A p \in Ports : net.ports[p] # NoServer =>
      \E s \in Sites : Manager[s].port = p /\ (Manager[s].st = "on" \/ s \in hreq.todo)

(***************************************************************************)
(* The same of every use of the service, as server.go:380 says of a        *)
(* deletion: the site is deleted and stopped at once.                      *)
(***************************************************************************)
DeletedSiteStops ==
  hreq.stage = "idle" /\ svc = "idle" =>
    \A p \in Ports : net.ports[p] # NoServer =>
      \E s \in Sites : Manager[s].port = p /\ Manager[s].st = "on"

(***************************************************************************)
(* While the service runs, an enabled site that shares its port with no    *)
(* other configured site has a listener of its own.                        *)
(***************************************************************************)
OwnPort(s) ==
  /\ Manager[s].port \notin {0, 80, 443, AdminPort}
  /\ \A t \in Sites \ {s} : Manager[t].port # Manager[s].port

EnabledSiteListens ==
  Orderly /\ sitesRunning /\ svc = "idle" =>
    \A s \in OnSites(Manager) \ (BadSites \cup hreq.todo) :
      OwnPort(s) => net.ports[Manager[s].port] # NoServer

(***************************************************************************)
(* With one ConfigManager and no failing disk, sites.json is what the      *)
(* process has in memory, except between a change and its save; and so     *)
(* again once reloadFTP has given the panel the configuration it has read, *)
(* if no change of a site came between the two.                            *)
(***************************************************************************)
ReloadOverlaps == env.overlap = "any" /\ "reloadFTP" \in env.requests

DiskMatchesMemory ==
  ~env.saveFails /\ ~ReloadOverlaps /\ panelCM = mgrCM /\ hreq.stage # "save" =>
    disk = Panel

(***************************************************************************)
(* When the last enabled site of a port is gone, the listener that was     *)
(* started for the port gives it back to the operating system, whatever    *)
(* its goroutine was doing.  (The shared server stays: only a reload or a  *)
(* stop of the whole service ends it.)                                     *)
(***************************************************************************)
Wanted(p) == \E s \in Sites : Manager[s].port = p /\ Manager[s].st = "on"

HeldByOwnServer(p) ==
  \E n \in Servers \ {net.shared} : Holds(net, n) /\ net.srv[n].port = p

PortsAreReleased ==
  \A p \in Ports \ {0} :
    Orderly /\ ~Wanted(p) ~> Wanted(p) \/ ~HeldByOwnServer(p) \/ panicked
=============================================================================
