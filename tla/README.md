# LiteServer: specifications, checks and proofs

TLA+ models of LiteServer (`src/backend`), a single Go process that serves
static and proxied sites, an FTP server and an admin panel. The models are
translated from the Go code; every definition that stands for code is mapped to
its lines in `PROJECT.json`. `src/...` paths below are relative to the
repository, other Go paths to `src/backend/internal/`.

## The system

| part | state | operations | talks to |
|---|---|---|---|
| Panel, `panel/` | `Handler`: sessions, login attempts, `ftpRunning`, the `ConfigManager`, `SiteManager` and `FTPServer` it drives; `Handler.mu` | one HTTP handler per route of `router.go`, each in a goroutine of its own | everything below, by calls |
| Configuration, `config/config.go` | the server, sites, FTP, DNS and log settings in memory, five JSON files on disk | Load, Save, one operation per site, FTP user and DNS provider, password migrations in goroutines | disk; its structs are shared by pointer with every other part |
| Site listeners, `site/server.go` | `portServers`, `sharedServer`, `sitesRunning`; `SiteManager.mu` | start, stop, restart and reload of the service; start, stop, restart, add, update, delete of one site | configuration, router, net/http |
| Domain routing, `site/vhost.go` | `hosts`, `defaultHost`, each a pointer to a site's configuration | AddHost, RemoveHost, ServeHTTP | configuration cells, site handlers |
| FTP server, `ftp/server.go` | `clients`, `userConns`, the listener; one `FTPClient` per connection with its login and its data connection | Start, Stop, accept, one handler per FTP command, one goroutine per PASV | panel (start, stop, user edits), configuration (password, limit), files |
| Certificates, `ssl/` | certificates and configurations by domain, pending challenges, two files per domain | upload, order, renew, delete, deploy, GetCertificate during a handshake | the sites' configurations, ACME services (lego, autocert) |
| File manager and trash, `panel/api_file.go`, `panel/api_trash.go`, `file/` | the file system, one directory per trash entry | one handler each, without a lock | files |
| Uploads, shared links, scripts, `panel/api_file.go` | a directory of chunks; the links and `shares.json`; the records of background processes | one handler each, one goroutine per script | files, processes |
| Logger, `logger/` | open files by category, type and day, a goroutine that notices a new day | write, Close, clear, set level | files |
| Notification, `notify/` | rules, channels, history | never constructed by `main` or the panel | |
| Backup, monitor, crypto, terminal, static cache, front end | none that outlives a request, or caches of files | | |

What makes it hard:

- **Two locks that do not nest.** A panel request that changes a site holds
  `Handler.mu` from start to end; `SiteManager` takes `SiteManager.mu` inside it.
  The start, stop and restart of a site, and of the whole service, take only
  `SiteManager.mu`, release it half-way (`RestartSite`, `StopSitesServer`), and
  change the same configuration.
- **Configuration first, runtime second.** Every change is made in memory,
  saved, and then carried out; a save that fails ends the request in between,
  and the runtime step reads whatever the configuration says by then.
- **Goroutines that listen later.** `startSitePort` and `startSharedPort`
  register a server and launch a goroutine that opens its socket some time
  afterwards, when the port may be taken, the server closed or the field
  it reads replaced.
- **Pointers into a slice.** Virtual hosts point into the slice of sites, which
  is overwritten, shifted and reallocated under them.
- **An FTP login that is not atomic, and a stop that is not.** The limit is read
  before the counter is locked; `Stop` closes the clients, then the
  listener, and the panel clears its flag last, without a lock; meanwhile the accept
  loop enters a client in `clients` a step after it has accepted it.

- **A data connection nobody waits for.** Each PASV starts a goroutine that
  accepts one connection and leaves it in a field of the session; a transfer takes
  whatever is there.
- **Files written in place and in several calls.** A save of the configuration
  writes four files in order, a certificate is two files, moving to the trash is a rename or a copy
  and a removal and a `.meta.json`, a merge writes chunk by chunk: each may stop in the middle,
  and several of them take no lock at all.
- **Goroutines that outlive their request.** A password in the old format
  is rewritten after the login that noticed it, at an index of a slice that may
  have changed; a script is waited for; an order waits for its challenge.

`PROJECT.json` lists each hazard at its line with the properties that cover it,
or why none does.

What makes each part correct, in short: *site listeners*: no server is lost or
kept after it was closed, an enabled site listens and a disabled one does not,
ports are given back, disk and memory agree; *routing*: an enabled site answers
for its domains and a disabled or deleted one for none; *FTP*: counts are exact,
limits hold, a stop disconnects all but a client per accept loop and those accepted meanwhile, the panel knows what runs, a transfer runs over its own connection and ends;
*configuration*: what was acknowledged stays, no file goes back, a password is the one set last;
*certificates*: what is served is what was installed last, the two files are a pair, a challenge waits for its user;
*trash and uploads*: no file is lost by a partial failure; *shares*: links survive a restart, no request waits
for ever; *scripts*: a process that runs can be found and stopped; *logs*: a new day costs no later line.

## The modules

| module | models | checked by | proved in |
|---|---|---|---|
| `SiteService` | site requests of `panel/api_site.go`, `SiteManager` in `site/server.go`, sites in `config/config.go` | `MCSiteService` | `SiteService_proofs` |
| `VhostRouting` | `site/vhost.go`, its upkeep in `site/server.go`, the slice of sites | `MCVhostRouting` | `VhostRouting_proofs` |
| `FTPSessions` | control connections in `ftp/server.go`, start and stop in `panel/handler.go` | `MCFTPSessions` | `FTPSessions_proofs` |
| `FTPTransfers` | data connections and file commands in `ftp/server.go`, the panel's FTP files in `panel/api_ftp.go` | `MCFTPTransfers` | `FTPTransfers_proofs` |
| `Accounts` | passwords and FTP users in `config/config.go` and the requests on them | `MCConfigStore` | `Accounts_proofs` |
| `ConfigFiles` | load, changes and saves of the files of `config/config.go` | `MCConfigStore` | `ConfigFiles_proofs` |
| `ConfigPromise` | what the configuration store promises, an abstract specification | by refinement | `ConfigFiles_proofs` |
| `Certificates` | `ssl/manager.go`, `ssl/lego.go`, `panel/api_ssl.go` | `MCCertificates` | `Certificates_proofs` |
| `Files` | file manager and trash, `panel/api_file.go`, `panel/api_trash.go`, `file/operations.go` | `MCPanel` | `Panel_proofs` |
| `ShareLinks` | shared links, `panel/api_file.go` | `MCPanel`, `MCShareLinks` | `Panel_proofs` |
| `Uploads` | chunked uploads, `panel/api_file.go` | `MCPanel` | `Panel_proofs` |
| `Scripts` | background scripts, `panel/api_file.go` | `MCPanel` | `Panel_proofs` |
| `LogFiles` | `logger/logger.go` | `MCPanel` | `Panel_proofs` |

Each module takes a constant set of environments (`Environments`, `Uses`, `Histories`, `ShareUses`
and so on): records that say which requests arrive, which of them may overlap and what may fail. Init
picks one and it never changes, so one run covers several ways of using the program, and a property that the
code only gives to careful use names that use in its antecedent (`Orderly`,
`~env.relogin`, `~use.lateDelete`, `~shareUse.overlap`). The antecedents are the
places where the code does *not* keep the promise; they are listed below, and the hazards say at which line.

The modules are the parts that share state: the site requests, for example, meet
only in `SiteService`. Parts that share none are checked in one run
(`MCConfigStore`, `MCPanel`): a variable `part` says which of them a behaviour
exercises, and the others keep their initial state, so the run explores the sum of their states and
not the product.

### SiteService

`mem`, `panelCM` and `mgrCM` are the configuration managers: `ReloadSites` gives
`SiteManager` a new one and the panel keeps the old, so there can be two.
`disk` is `sites.json`. `net` collects what the listeners consist of: the state
of every `http.Server` (`starting` before its goroutine listens, `binding`
between the socket and Serve, `serving`, `closing` when Close comes before Serve has
registered the socket, `failed` when the port was taken), `portServers`,
`sharedServer`, and how many goroutines of the shared port have not run.

A request that holds `Handler.mu` is three actions: `BeginRequest` changes the memory
(create, update and delete also save at once, as `AddSite` and its siblings do),
`SaveRequest` is the handler's `Save`, which may fail before `sites.json` or after
it, and `ApplyRequest` is one runtime call per site, in any order for a batch.
`StartSite` and `StopSite` are one action each: they hold `SiteManager.mu`
throughout, and what they read of the configuration outside that lock is read at
one place. `RestartSite` is two actions around its sleep. `StopSitesServer` and
`RestartSitesServer` are cut where the code releases the lock; the walk over
`portServers` outside the lock may meet a writer, which Go answers by aborting the
process (`MapRace`).

`GetSharedPort` walks a map and returns the first port that qualifies:
`SharedCandidates` is the set it may answer, and each call chooses anew.

Abstracted: handlers, file contents, certificates; a site has one port and a
state. A batch names distinct sites that exist. One stop or restart of the whole service is in flight at
a time. Left out: the TLS listener on 443 and the redirect on 80.

### VhostRouting

A virtual host holds a pointer: a cell (array and index) of the slice
`Sites.Sites`, or the copy `createSite` decoded. `Appended` is Go's `append`, in
place while the array has room and into the next array otherwise; `Deleted` is
`deleteFromSlice`, which shifts the cells and leaves the last one as it was.
`RemoveHost` compares the identifier each pointer leads to now. A request is two
actions (change the slice; call SiteManager), `StartSite` and `StopSite` are two as well
(locate the cell; use it) because the slice may change in between. `createHandler` always succeeds: a proxy
that cannot be constructed makes `AddHost` return before it changes anything (`site/vhost.go:51`) and `StartSite` put
`Enabled` back (`site/server.go:295`), which is left out. The start of the service
adds the enabled sites of the slice one after another, each over the domains of those before it: `AddInTurn` is that
loop, `AddEnabled` its result in one piece, which is what the actions use; `StartAddsInTurn` says that the two
agree in every state.

### FTPSessions

One record per control connection. `Login` is cut after the limit has been read
(`PassAccepted`) and before the counter is taken (`Login`,
`TooManyConnections`). `Stop` is `StopClients`, `StopListener` and the panel's
`StopFlag`. Commands may still be read after the socket is closed, because the
reader buffers them. Rejections that leave the session as it was are stutters.

`Accept` and `Store` are the two calls of `acceptConnections`: between them a loop holds a connection that is not in
`clients`, and it stores it whether or not the listener has been closed since. `loops` counts the goroutines in that
function: a loop that a closed listener ends does so in a step of its own (`AcceptFails`), so the next `Start`
may find one that still holds a client, and then two run. `StopClients` is the end of `Range`: it has closed what was in
`clients` when it began and any of what was entered since. `missed` and `swept` are history: which connections a loop held
when the last stop began and which were accepted after that, and how many loops there were. `StopDisconnects` says what
a stop then promises: whoever is still connected is one of these, and of those held there is at most one per loop.
A stop does not disconnect everybody who was accepted before it; `missed = "held"` is that client.

### FTPTransfers

The session that `FTPSessions` has logged in goes on here. `PASV` opens a listener and starts a goroutine,
`Dial` is the client's connection, `Store` and `Signal` are that goroutine's two
assignments (`dataConn`, then the channel of whichever PASV came last), `Expire` its timeout. A command that needs a
data connection is `GetDataConnection`, which finds one or waits, and `Wake`,
which is signalled or gives up. `left` records that a PASV was abandoned by a later one or by a
refused command, after which the field may hold its connection.
`STOR` checks the limits, `Create` opens and so empties the file, `Receive` grows it,
`RemoveTooLarge` deletes it: other sessions and the panel act in between. A
file is its size; names are `Absent`, `Dir` or a number.

### Accounts

`users` is the slice with, for each user, whose directory, limits and password the
record has; `spare` what a deletion left beyond the end of its array. A pointer into the slice
(`updateFtpUser`, `updateFtpUserConfig`) is an index; when a batch deletion builds a
new slice, the request keeps a copy of what it pointed to. `jobs` are the
migrations of old password hashes under way. Passwords are versions per user, so that one of another user can be told apart.

### ConfigFiles and ConfigPromise

The content of a file is a version; `mem`, `file` and `last` are what is in memory, whether
the file is there and whole, and what was last written to it. `job` is the holder of
the lock with the files it has yet to write; `BeginWrite` marshals and truncates,
`EndWrite` completes a file, `FailWrite` and `Crash` may come at any point. `LoadFile` contains
`ensureDefaults` and the migration of the DNS providers. `ConfigPromise` describes one file:
its value gets newer while the program runs, what is kept never gets older, a restart
takes up what was kept, and a file may be lost but not replaced by an old one.
`KeepsPromise` is the refinement under `value <- mem`, `kept <- last`, `lost <-` torn.

### Certificates

`certs` is the map that handshakes read, `cfg` the configurations of domains and
of sites, `same` which of them are one object (the code shares pointers and later replaces
some of them), `crt` and `key` the versions of the two files. `hosts` is the list of the autocert manager, and empty when there is none; a handshake
(`Handshake`) gets what autocert keeps for a domain even when the list no longer has it, and an order only for one of the list.
Each domain has one site (`SiteOf`); of several sites that name it, a start of the program
lets the last enabled one win, which is left out. A job is an upload, an order, a renewal or a
handshake that autocert serves: `Issued`, `WriteCrt`, `WriteKey`, `Load`,
`TellSite`, each a step. `now` and `durable` say what was installed last and what a restart must find.

### Files, Uploads, ShareLinks, Scripts, LogFiles

`Files`: a path holds nothing, a file or a directory with a set of contents. Each call of the file system is a step
(`MoveToTrash`, `CopyToTrash`, `RemoveOriginal`, `WriteMeta`; `Place`, `RemoveEntry`), with its partial failures.
`Uploads`: a chunk is none, empty or whole; a merge goes through them one step at a time.
`ShareLinks`: critical sections that call nothing are one step; `save` is a snapshot, a
truncation and a write. `CleanExpired` keeps the lock for its call of `save`.
`Scripts`: the system's view of each process, the record of it, the goroutine that waits, and
requests that read the record's fields one by one. `LogFiles`: a writer finds its file under the lock and writes to
it under the lock, and loses the lock in between.

## What the runs check

| run | instance | shows |
|---|---|---|
| `site_service` | 2 sites, ports 8081 and 8082, 3 servers, 7 environments | `NoOrphanServer`, `RegisteredServersAreOpen`, `ListenedPortHasSite`, `EnabledSiteListens`, `DiskMatchesMemory` |
| `site_ports_released` | 2 sites on ports of their own, 2 servers, requests about different sites overlap | under fairness a port nobody needs is given back: `PortsAreReleased` |
| `site_delete` | one deletion | violated: `DeletedSiteStops` |
| `vhost_routing` | 3 sites, 3 domains, arrays of 2 and 3 cells, 4 environments | `DisabledSiteNotServed`, `EnabledSiteServed`, `DefaultHostPicked`, `StartAddsInTurn` |
| `vhost_delete` | the same, deletions only | violated: `DeletedSiteNotServed` |
| `ftp_sessions` | 3 connections, 2 users with limits 2 and 1, one or two accept loops, 4 environments | `CountsAreExact`, `LimitRespected`, `StopDisconnects`, `PanelKnowsService` |
| `ftp_relogin` | the same, clients that log in again | violated: `UserConnsAreCurrent` |
| `ftp_data` | 2 sessions, 3 PASV in a session, 3 names, one file of size 1 allowed, 5 environments | `OwnConnection`, `FileLimit`, `RepliesTrue`, and under fairness `Answered` |
| `config_store` | 2 users, 2 requests, 3 places in the slice, two new passwords; files changed twice, one crash; 9 and 3 environments | `PasswordIsLastSet`, `SettingsAreOwn`, `NamesUnique`, `AdminPasswordIsLastSet`, `AckedInEffect`, and the refinement `KeepsPromise` |
| `certificates` | 3 domains on 2 sites, 2 jobs, 2 certificates per domain, one restart, 10 environments | `PairsOnDisk`, `ServedAsPromised`, `ManagedAsPromised`, `ChallengeKept` |
| `panel` | 2 requests at a time; 4 paths on 2 devices, 2 trash entries, 3 contents; 2 links; 2 chunks; 2 scripts; 3 log lines over 3 days | `NothingLost`, `SharesKept`, `MergedWhole`, `ScriptsAccounted`, `LinesWritten` |
| `share_expiry` | one link, one request | violated: `ListIsAnswered` |

Each module's `TypeOK` is checked with it.

Why the bounds are enough: two sites are what sharing or conflicting over a port
takes, two ports what moving from one to the other takes; a third server lets a
request start one while two are being closed. Requests for a server when none is
unused are not taken, so the bound cuts behaviours off and never invents any.
One goroutine of the shared port may be outstanding (`MaxGo`). Three sites are the
least for a deletion that shifts one site under another and leaves a third; the
second array is reached by one creation. Three connections exceed both limits.
`MaxLimit` bounds what an edit may set. `env.loops` bounds the accept loops: where starts overlap stops it is 2, which lets a loop hold a client through a
stop and a start and another one hold a second when the next stop begins, so that the stop misses both. Where users are
edited, or log in again, it is 1: the counts do not depend on the loops.

Three PASV commands (`Opens`) are what it takes for a connection of the first to be
taken for the third; `MaxFiles = 1` and `MaxSize = 1` make every second file and every second unit of size exceed a limit.
A file is changed twice (`MaxVersion`) so that an older and a newer change of two requests meet, and
one crash (`MaxCrashes`, `MaxRestarts`) is followed by a start whose result is compared with what was acknowledged;
a second crash would start from a state of the same kind. Two requests in flight are enough for every overlap, because the
hazards are between two; a third place in the slice of users lets a user be deleted, shift the next and be added again.
A domain of its own, and two that share a site, are the two ways in which configurations are shared by pointer.
Two entries of the trash let a second deletion overlap a restoration; the contents tell which file a path holds. Three openings of the log (`MaxOpenings`) are one
per day that passes (`MaxDay`), and `Close` uses one up.

Deadlock is not checked where the program may stop for good: `SiteService` after a
panic, `VhostRouting` when no site is left and none can be created, and the modules in which the
clients have used up their bounded requests.

Fairness. `SiteService!FairSpec`: weak fairness of each goroutine step and of the
continuation of a request that has begun, because the Go scheduler runs every
runnable goroutine and none of these steps waits for a client.
`FTPTransfers!Fairness`: the goroutine of the session (`GetDataConnection`, `Wake`, which
contains its timeout) and the accepting goroutines run; the client need not connect or send anything.
`ShareLinks!ShareFairness`: a request that can take its next step takes it. Requests
themselves are nowhere fair: nobody has to send one.

### What the violated runs found

1. `site/server.go:387`: `deleteSite` removes the site from the configuration before
   it calls `DeleteSiteRuntime`, which looks the port up there and finds
   nothing. The listener stays open, against `site/server.go:380`.
2. `site/vhost.go:117`: `RemoveHost` recognises a virtual host by the identifier in
   the cell it points to, which the deletion has just overwritten. The virtual host
   stays and may go on serving the deleted site, against the same comment.
3. `ftp/server.go:139`: a client that sends PASS twice is counted twice and
   released once; one that sends USER after a login releases somebody else's
   count. `userConns` is then not "每用户当前连接数" (`ftp/server.go:42`).
4. `panel/api_file.go:1275`: `cleanExpired` holds `ShareService.mu` for writing when it
   calls `save`, which takes the read lock of the same mutex. The request that lists the links after
   one of them has expired waits for itself, and every later request about links waits for it, against
   "清理过期链接" (`panel/api_file.go:1260`, `:1555`).

### Where the code keeps its promise only to careful use

These are antecedents of properties. Without one of them TLC finds a behaviour that breaks the property; for late
deletions beside additions, for old providers with a crash or a missing default, for overlapping saves of the
links and for a kill while they are written it takes an environment that the runs leave out:

- `PasswordIsLastSet`, `SettingsAreOwn`: users deleted while an update or a migration of another request is under way
  shift the slice under its index (`config/config.go:1019`, `panel/api_ftp.go:777`).
- `NamesUnique`: two requests that add the same name both find it free.
- `AdminPasswordIsLastSet`: `saveConfig` puts back a password that was changed after it remembered it.
- `AckedInEffect`, `KeepsPromise`: `ensureDefaults` rewrites `server.json` without the old field `dns_providers` before
  `loadDNSProviders` has moved it; a missing default, or a crash in between, loses the providers (`config/config.go:335`).
  The histories keep these apart, and the theorems assume it (`Calm`).
- `OwnConnection`: after a PASV that was abandoned, its connection may serve a later transfer.
- `FileLimit`: each session but one may exceed the limit by one file, since the count and the creation are apart.
- `NothingLost`: a file copied across devices whose original cannot be removed is rolled back by removing the copy, though
  part of the original may be gone; a restore may replace a file that was stored meanwhile; `copyFile` truncates a file copied onto itself.
- `SharesKept`: two overlapping saves may leave the older snapshot; a save that fails or a panel killed while it writes leaves an unreadable file.
- `MergedWhole`: a chunk sent again during a merge, a merge repeated after its success, and a write that fails unnoticed on a full disk.
- `ScriptsAccounted`: a PID that was waited for may belong to another process when a stop signals it.

## What is proved

Every invariant that a passing run checks, and the refinement `KeepsPromise`, is proved as a theorem of its
specification. The proofs assume only the named assumptions on the constants and hold for any number of
sites, ports, servers, connections, users, files, domains and requests and any environments. A theorem about a property
that only careful use has (see above) keeps the antecedent of that property and adds none, but for `Calm` of
`ConfigFiles_proofs`. In each module the typing theorem comes first, the inductive invariant
of a property is a conjunction of named parts, and one lemma per action, or per kind of action, shows that a part is kept.

### SiteService_proofs

`Typing` and `RegisteredServersStayOpen`. The invariant is
`Inv == TypeOK /\ OpInv /\ BookInv`. `RegisteredServersAreOpen` alone is not inductive:
closing the servers of one entry could close a server another entry still
names. `BookInv` adds that each entry names a server started for that port
(`PortsMatch`, so two entries never share a server) and that the shared server is in no
entry (`SharedIsApart`); with these, closing and forgetting go together, except in
the two halfway stages of `StopSitesServer`. One lemma per helper (`StopSitePortBooks`,
`LaunchAllBooks`, `StartAllBooks`, ...) says what it does to the books; the steps cite them.

`DiskStaysMatched`: `SavedInv` says that disk and memory agree but between a change and its save, and that while
`reloadFTP` has read the disk and not yet given the panel what it read, no other request is under way.

`NoServerIsOrphaned`, `ListenedPortsHaveSites`, `EnabledSitesListen` are about `Orderly` use. Its last two conditions speak of the
present configuration; `CalmInv` first shows what makes them lasting: requests under way are
about different sites (`Apart`), none runs beside a change of the whole service (`Alone`), what a batch enables or
disables already is so in memory (`Toggling`), and no site changes its port (`SamePorts`). `OrderInv`
is then inductive: every server that runs is the shared one or in the entry of its port (`AllKnown`), an entry is that of a
site that was on when the request under way began (`Backed`, `WasOn`: a request changes the configuration before it touches the
listener), the halfway stages of a restart hold only closed servers (`Down`), and an enabled site alone on its port has its entry
(`Listening`).

### VhostRouting_proofs

`Typing` is the longest: that every configured site has exactly one cell (`ShapeInv`) has to survive `append`, with
and without room, the update of a cell and the shift of a deletion, which also moves what an action in flight points
to (`RequestInv`, `ActionInv`).

`DisabledStaysUnserved`, `EnabledStaysServed`, `DefaultStaysPicked` follow from `KeptInv`. `HostOK` is its centre:
a virtual host leads to a cell with its own site, whether in the slice or left behind by an `append`. A cell left behind keeps saying
that its site is enabled; this does no harm only because disabling a site takes its virtual hosts away, so both the
cell and the present configuration are on, unless the request that takes the hosts away is under way (`Ending`). `ServedInv`
says the converse for domains that are one site's own, `DefaultInv` that the router is without a default only when nothing is left to pick,
`FlowInv` that what requests and actions have located is still so.

`StartStaysInTurn` is about a loop: `AddInTurn` is a recursive function of the place in the slice. The library's induction theorems are
out of the provers' reach, so the proof takes a least counterexample, which exists because inclusion of finite sets is well founded
(`LeastIsThere`), and shows with `OneAdded` that there is none.

### FTPSessions_proofs

Five theorems, each on the typing theorem.
`StopSweeps` has the invariant `StopInv` of three parts. `StageInv`: a stop begins only while the server listens, and from
each start until then nobody is marked. `SweepInv`: every served connection is in `clients`; what a loop holds
during a stop is marked, so that what it stores after the sweep is; and once the sweep is over, of the served ones only the marked
are open. `LoopInv`: loops hold no more connections than there are loops, nor have more of those been missed
than there were when the stop began, which takes the finite-set theorems. `CountsStayExact` needs that
a connection is tracked only while it is logged in under the name that was
counted; a step of one connection changes the set of tracked ones by at most one element and the
counter with it. `LimitStaysRespected` adds that those logged in under a limit
are tracked, so their number is the counter, which `Login` has compared with
the limit it read; the limit cannot have changed for a user nobody edits.
`PanelStaysInformed` follows the flag through the stages of a stop.

### FTPTransfers_proofs

`OwnConnectionKept`: `OwnConnection` speaks of the connection a transfer has; what makes it so is
`ConnInv`, about the field it came from: what is in `dataConn` was accepted for a PASV that was sent, and, as long as none was
abandoned, for the last one, which has not been used; the goroutines of the earlier ones have stored their connection or never
will. A PASV keeps this because it marks the session as one that abandoned a PASV whenever the last is neither used nor dead.

`RepliesStayTrue` and `FileLimitStays` follow from `UploadInv`. `OpenInv`: the file an upload has open is one of its session or of the panel,
and the one it was sent for if nobody else works with that name. `SizesInv`: only the panel makes a file
larger than the limit. `RepliesInv`: the last answer stays true until the session creates the file of its next upload. `CountInv`: the
files there are, and the sessions that have counted them and not created theirs, are together at most
`MaxFiles + Cardinality(Sessions) - 1`; a session counts only below the limit, and then every other may be about to create one.

### Accounts_proofs

`NamesStayUnique` from `NamesInv`: at most one request is between finding a name free and adding it (`OneAdder`).
`PasswordStaysTheLastSet` from `PasswordsInv`: a migration under way was started for the password its place still
has, or the place has the new format already and the migration will leave it alone (`JobsFit`). `SettingsStayOwn`
from `SettingsInv`: a request that holds an index points to its user, one that holds a copy has that user's settings (`Points`).
`AdminPasswordStaysTheLastSet` from `AdminInv`: a password in the old format is the first one, so a migration restores
nothing newer, and `saveConfig` remembers the present one while it is alone (`OneSaver`).

`StoreIsItsParts`: a behaviour of `MCConfigStore` is one of `Accounts` and one of `ConfigFiles`, so that what is proved of
the parts holds of the specification the run checks; `StoreStaysTyped` is its `TypeOK`.

### ConfigFiles_proofs

`Typing`, `AckedStaysInEffect` and `StoreKeepsPromise`, the last being the
refinement `ConfigSpec => KeepsPromise`; the two assume `Calm`: a history with old DNS providers has
neither a crash nor a missing default. The invariant is `StoreInv`, in four parts. `ValueInv`: what is about to be written is
no older than the file and no newer than the memory; it follows the files `load` has not read yet, whose memory is still
that of the previous life of the program. `MissingInv`: a file that is missing has the version that its defaults, or the old field, will
give it. `LoadInv`: `load` takes each file once and `server.json` first, so that the old field is still there when the
DNS providers are looked for. `AckInv`: what the holder of the lock changed is in its file or still to be written, so that
it is on the disk when the request is answered. One lemma per action shows that it keeps `StoreInv`; `PromiseStep` maps
each action to the step of `ConfigPromise` it implements (a change, a file kept or lost, a restart) or to a stutter.

### Certificates_proofs

`CertificatesAgree` is one inductive invariant, `CertInv`; the other theorems are consequences.
`FlowInv` says what a job at each step has, `VersionInv` and `AcmeInv` that nothing on the disk, promised or kept by autocert is newer
than what was made. `SoleInv`: without
overlapping jobs a job is alone with its domain and installs the newest certificate. From it `FilesInv`
(`PairsStayOnDisk`): a certificate without its key is one whose job is about to write it. `SharingInv`: only holders of one site share a
configuration object, and only after a restart. `DurableInv`: the two files and the saved configuration are what a restart needs to serve
what was promised (`Settled`), and so is the configuration in memory, from which it
is saved. `NowInv` (`PromisesAreKept`): what is served is what was installed last, or after a deletion at most a certificate of autocert
for a domain it accepted (`Serving`); a restart keeps it because of `DurableInv`. `AutoInv` says that there is an autocert manager only
if a domain on its list has asked for one, so that a domain that is served although it is off the list gave way to another. `PromisedInv` says that nothing is promised for a domain that
nothing is done to. `ManagedAsPromised` and `ChallengeKept` are parts themselves: beside the others they are inductive
(`KindsStayAsInstalled`, `ChallengesStay`).

### Panel_proofs

The five services of `MCPanel`; `PanelIsItsServices` shows that a behaviour of the composition is one of each, by
showing that each of its steps is a step or a stutter of each.

`FilesStayKept` from `WholeInv`: requests under way share neither entry nor path (`OwnInv`); `StepInv` says what is in the
entry and at the paths of a request at each step, for instance that after the copy, before the original is removed, both
hold the same; `ShownInv` that an entry which holds something says where it belongs, or a request is about to write that; with these
`OnDiskInv`, that what was stored is in the tree or in the trash until a client gives it up, is inductive.

`MergedStaysWhole`: under careful use (`Solo`) a merge is alone (`AloneInv`); a chunk that is empty is being
written, so a merge meets none (`ChunkInv`); a merge at chunk *n* has written the first *n*
(`TargetInv`). `WrittenIsTyped` says what a write at an offset does to a file.

`ScriptsStayAccounted`: `StateInv` relates the goroutine of a script to its process and its record: a record
says the script has ended only after it was waited for, and has its output by then. `CodeInv` adds that it has the exit code as
well or the lock is held, so that the list, which takes the lock, never sees one without the other; `AskInv` is what the requests under way
have read and hold.

`SharesStayKept`: under careful use (`Careful`) the invariant `KeptInv` has
five parts: one save at a time, between whose truncation and writing the file has no links
(`SaveInv`); the links given away are in memory, and in the file or in the snapshot that is being written
(`ToldInv`); the deleted ones in none of them (`DroppedInv`); a request that shares has a token nobody else has
seen until it adds it (`NewInv`); one that deletes has removed its link before it saves (`OldInv`).

`LinesAreWritten`, from `FilesInv` (the files in the map are open; a writer's file is open, or its line is counted as
overtaken) and `LineInv` (a writer under way has its line).

### What the proofs corrected

- Two statements about certificates were too strong for environments no run had: an order through the API that
  installs its certificate uses up the challenge prepared for the user, or leaves it for good, and adding an automatic domain makes autocert's list
  anew from the configurations of the time, so that a deleted domain may have been accepted before (`Elsewhere`). The
  definitions now say so, and the `certificates` run has those environments.
- The proof of `StopSweeps` rests on where a loop may be when a stop begins, and is about every number of loops. With
  accepting and storing a client as one step it had shown that a stop misses nobody who was there before it, which is false of the code.
- Deleting a batch of FTP users keeps the order of the others, which the model had left open; the proof of
  `PasswordsInv` needed it and the code does it.
- Assumptions that had been tacit are stated: the first users have different names and there is one name at least
  (`AccountsAssumption`); there is a session, and `Absent` is no name (`FTPTransfersAssumption`); the sites of `sites.json` have
  different identifiers and `Nil` is none of the other values (`VhostRoutingAssumption`).

### Only model-checked

The liveness properties `PortsAreReleased` and `Answered`: the prover does neither fairness nor ENABLED. The violated runs are
TLC's by their nature.

## What is left

- The router's own RWMutex in `VhostRouting`: `ServeHTTP` keeps the read lock while it proxies
  (`site/vhost.go:160`), so a site that proxies to another of the same port may wait behind a writer that waits for it.
- `saveFtpPort` between two overlapping starts of the FTP server (`ftp/server.go:74`).
- Action properties for what a single step may never do: give away a trash entry that is in use, change the files of a domain
  without a job of that domain, change another user's record.

## Not modelled

- Static and proxy handlers, monitor, system information, terminal, crypto, the
  static cache and the front end keep no state that two steps could disagree
  about: they are single calls of the operating system or of a library. Log
  reading and the system pages are text processing.
- Backup is one library call after another in one request. Notification is never constructed by `main` or the panel.
- Panel sessions and the login limiter are maps under one lock that single steps change by the clock.
- Within modelled parts: the TLS listener on 443, the redirect on 80 and `saveFtpPort`; rate limits,
  CWD and CDUP, listing formats; archives and permissions in the file manager; wildcard certificates, redirect and
  challenge handlers, the DNS services and the accounts and progress of orders; `rotate` and `doCleanup` of the logger, which find nothing to do.
- The ACME protocol, bcrypt and net/http belong to libraries; of net/http, `SiteService` models what Listen,
  Serve and Close do to a port.

Seen while reading and not modelled: `RestoreBackup` writes under the configuration directory with the names
`config/`, `sites/` and `ftp/`, where `Load` does not look (`backup/manager.go:213`); a second `Close` of the logger panics
(`logger/logger.go:115`; `LogFiles` takes the step).

Hazards without a property say why in `PROJECT.json`: a start that overlaps `saveFtpPort` and the router's lock
are not in the models; the shared server read late (`site/server.go:197`), a cell that moves under `StartSite`
(`site/server.go:281`) and the rewriting of `server.json` (`config/config.go:335`) are, but nothing in the repository
promises the contrary, and the properties hold around them or exclude them by name.
