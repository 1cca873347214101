---------------------------- MODULE VhostRouting ----------------------------
(***************************************************************************)
(* Domain routing of the sites that share a port: the VirtualHostRouter    *)
(* (site/vhost.go), the operations of SiteManager that keep it up to date  *)
(* (site/server.go) and the slice of sites they all point into             *)
(* (config/config.go).                                                     *)
(*                                                                         *)
(* A virtual host does not hold a site's configuration but a pointer to    *)
(* it: to a cell of the slice ConfigManager.Sites.Sites, or to the copy    *)
(* that createSite decoded from its request.  Cells are overwritten by an  *)
(* update, shifted by a deletion and left behind when the slice grows.     *)
(***************************************************************************)
EXTENDS Naturals, Sequences

CONSTANTS
  Sites,          \* site identifiers
  Domains,        \* domain names a site may have
  Wildcards,      \* those of the form *.example.com
  Covers,         \* the domain names each wildcard stands for
  Capacity,       \* capacity of each array the slice may get, in turn
  Inputs,         \* the configurations a request may carry
  InitialSites,   \* the sequences of sites the process may start with
  Environments,   \* how the administrator uses the panel, see EnvType
  Nil             \* no virtual host, no pointer

RequestKinds == {"create", "update", "enable", "disable", "delete",
                 "start", "stop", "svcRestart"}

EnvType == [requests  : SUBSET RequestKinds,
            overlap   : {"none", "sites", "any"},  \* whether StartSite and StopSite
                      \* overlap with other requests: never, about other sites, any
            saveFails : BOOLEAN]

SiteConfig == [id : Sites, on : BOOLEAN, domains : SUBSET Domains]
Arrays     == DOMAIN Capacity
Cells      == UNION {{k} \X (1..Capacity[k]) : k \in Arrays}

\* A pointer to a site: a cell of an array, or a copy with a fixed content.
Pointer == [cell : Cells \cup {Nil}, copy : SiteConfig \cup {Nil}]
VirtualHost == [config : Pointer, handler : Sites]

ASSUME VhostRoutingAssumption ==
  /\ Wildcards \subseteq Domains /\ Covers \in [Wildcards -> SUBSET Domains]
  /\ Capacity \in Seq(Nat) /\ Capacity # <<>>
  /\ \A k \in Arrays : k > 1 => Capacity[k - 1] < Capacity[k]
  /\ Inputs \subseteq SiteConfig /\ InitialSites \subseteq Seq(SiteConfig)
  /\ \A init \in InitialSites :
       /\ Len(init) <= Capacity[1]
       /\ \A i, j \in 1..Len(init) : init[i].id = init[j].id => i = j
  /\ Environments \subseteq EnvType
  /\ Nil \notin Sites \cup Cells \cup SiteConfig \cup Pointer \cup VirtualHost

VARIABLES
  heap,         \* what the cells contain
  slice,        \* ConfigManager.Sites.Sites: array and length
  hosts,        \* VirtualHostRouter.hosts
  defaultHost,  \* VirtualHostRouter.defaultHost
  hreq,         \* the request that holds Handler.mu, after it changed the slice
  action,       \* the StartSite or StopSite that holds SiteManager.mu
  env

vars == <<heap, slice, hosts, defaultHost, hreq, action, env>>
router == <<hosts, defaultHost>>

NoRequest == [op |-> "none", site |-> Nil, arg |-> Nil]
NoAction  == [op |-> "none", site |-> Nil, config |-> Nil]

TypeOK ==
  /\ heap \in [Cells -> SiteConfig \cup {Nil}]
  /\ slice \in [arr : Arrays, len : Nat] /\ slice.len <= Capacity[slice.arr]
  /\ hosts \in [Domains -> VirtualHost \cup {Nil}]
  /\ defaultHost \in VirtualHost \cup {Nil}
  /\ hreq \in [op   : {"none", "create", "update", "enable", "disable", "delete"},
               site : Sites \cup {Nil},
               arg  : SiteConfig \cup {Nil}]
  /\ action \in [op     : {"none", "start", "stop"},
                 site   : Sites \cup {Nil},
                 config : Pointer \cup {Nil}]
  /\ env \in Environments

-----------------------------------------------------------------------------
(* The slice.                                                              *)

Listed(hp, sl) == {<<sl.arr, i>> : i \in 1..sl.len}

Configured == {heap[c].id : c \in Listed(heap, slice)}
CellOf(s)  == CHOOSE c \in Listed(heap, slice) : heap[c].id = s
Config(s)  == heap[CellOf(s)]
AtCell(c)  == [cell |-> c, copy |-> Nil]
AtCopy(c)  == [cell |-> Nil, copy |-> c]

Deref(hp, ptr) == IF ptr.cell = Nil THEN ptr.copy ELSE hp[ptr.cell]

\* Mutant: append never moves to a larger array.
AppendedInPlace(hp, sl, cfg) ==
  [heap  |-> [hp EXCEPT ![<<sl.arr, sl.len + 1>>] = cfg],
   slice |-> [sl EXCEPT !.len = @ + 1]]

\* append: in place while the array has room, else into a larger copy of it.
Appended(hp, sl, cfg) ==
  IF sl.len < Capacity[sl.arr]
  THEN [heap  |-> [hp EXCEPT ![<<sl.arr, sl.len + 1>>] = cfg],
        slice |-> [sl EXCEPT !.len = @ + 1]]
  ELSE [heap  |-> [c \in Cells |->
                     IF c[1] # sl.arr + 1 THEN hp[c]
                     ELSE IF c[2] <= sl.len THEN hp[<<sl.arr, c[2]>>]
                     ELSE IF c[2] = sl.len + 1 THEN cfg ELSE Nil],
        slice |-> [arr |-> sl.arr + 1, len |-> sl.len + 1]]

HasRoom(sl) == sl.len < Capacity[sl.arr] \/ sl.arr + 1 \in Arrays

\* deleteFromSlice shifts the cells behind i; the last one keeps its content.
Deleted(hp, sl, i) ==
  [heap  |-> [c \in Cells |->
                IF c[1] = sl.arr /\ c[2] \in i..(sl.len - 1) THEN hp[<<c[1], c[2] + 1>>]
                ELSE hp[c]],
   slice |-> [sl EXCEPT !.len = @ - 1]]

-----------------------------------------------------------------------------
(* The router: r is a record of hosts and default.                         *)

Router == [hosts |-> hosts, default |-> defaultHost]

SetRouter(r) == hosts' = r.hosts /\ defaultHost' = r.default

AddHost(r, hp, ptr) ==
  LET cfg == Deref(hp, ptr)
      vh  == [config |-> ptr, handler |-> cfg.id]
  IN [hosts   |-> [d \in Domains |-> IF d \in cfg.domains THEN vh ELSE r.hosts[d]],
      default |-> IF r.default = Nil /\ cfg.on THEN vh ELSE r.default]

Is(vh, hp, s) == vh # Nil /\ Deref(hp, vh.config).id = s
IsOn(vh, hp)  == vh # Nil /\ Deref(hp, vh.config).on

\* Mutants: the default host outlives its site, or no other is picked.
RemoveHostKeepsDefault(r, hp, s) ==
  {[r EXCEPT !.hosts = [d \in Domains |-> IF Is(@[d], hp, s) THEN Nil ELSE @[d]]]}

RemoveHostPicksNone(r, hp, s) ==
  {[hosts   |-> [d \in Domains |-> IF Is(r.hosts[d], hp, s) THEN Nil ELSE r.hosts[d]],
    default |-> IF Is(r.default, hp, s) THEN Nil ELSE r.default]}

\* Whether a virtual host is of the site is asked of what it points to now.
RemoveHost(r, hp, s) ==
  LET kept   == [d \in Domains |-> IF Is(r.hosts[d], hp, s) THEN Nil ELSE r.hosts[d]]
      others == {kept[d] : d \in {e \in Domains : IsOn(kept[e], hp)}}
  IN {[hosts |-> kept, default |-> x] :
        x \in IF ~Is(r.default, hp, s) THEN {r.default}
              ELSE IF others = {} THEN {Nil} ELSE others}

\* ServeHTTP: the handlers that may answer a request for host d.
ServedBy(d) ==
  LET wild == {w \in Wildcards : d \in Covers[w] /\ IsOn(hosts[w], heap)}
  IN IF IsOn(hosts[d], heap) THEN {hosts[d].handler}
     ELSE IF wild # {} THEN {hosts[w].handler : w \in wild}
     ELSE IF IsOn(defaultHost, heap) THEN {defaultHost.handler} ELSE {}

-----------------------------------------------------------------------------
(* The requests that hold Handler.mu: first they change the slice ...      *)

Busy == {hreq.site, action.site} \ {Nil}

Asked(kind, s) ==
  /\ kind \in env.requests
  /\ CASE env.overlap = "none"  -> Busy = {}
       [] env.overlap = "sites" -> s \notin Busy
       [] env.overlap = "any"   -> TRUE

Begin(op, s, arg) ==
  /\ hreq = NoRequest
  /\ hreq' = [op |-> op, site |-> s, arg |-> arg]
  /\ UNCHANGED <<router, action, env>>

CreateSite(cfg) ==
  /\ Asked("create", cfg.id) /\ cfg.id \notin Configured /\ HasRoom(slice)
  /\ LET grown == Appended(heap, slice, cfg)
     IN heap' = grown.heap /\ slice' = grown.slice
  /\ Begin("create", cfg.id, cfg)

UpdateSite(cfg) ==
  /\ Asked("update", cfg.id) /\ cfg.id \in Configured
  /\ heap' = [heap EXCEPT ![CellOf(cfg.id)] = cfg]
  /\ UNCHANGED slice
  /\ Begin("update", cfg.id, Nil)

DeleteSite(s) ==
  /\ Asked("delete", s) /\ s \in Configured
  /\ LET shrunk == Deleted(heap, slice, CellOf(s)[2])
     IN heap' = shrunk.heap /\ slice' = shrunk.slice
  /\ Begin("delete", s, Nil)

Toggle(op, s) ==
  /\ Asked(op, s) /\ s \in Configured
  /\ heap' = [heap EXCEPT ![CellOf(s)].on = (op = "enable")]
  /\ UNCHANGED slice
  /\ Begin(op, s, Nil)

(* ... then, if Save succeeded, they call SiteManager with its own lock.   *)

AddSiteRuntime(ptr) ==
  IF Deref(heap, ptr).on THEN SetRouter(AddHost(Router, heap, ptr)) ELSE UNCHANGED router

\* Mutant: the new host is added before the old one is removed.
UpdateSiteRuntimeAddsFirst(s) ==
  LET added == IF Config(s).on THEN AddHost(Router, heap, AtCell(CellOf(s))) ELSE Router
  IN \E r \in RemoveHost(added, heap, s) : SetRouter(r)

UpdateSiteRuntime(s) ==
  \E r \in RemoveHost(Router, heap, s) :
    SetRouter(IF Config(s).on THEN AddHost(r, heap, AtCell(CellOf(s))) ELSE r)

DeleteSiteRuntime(s) == \E r \in RemoveHost(Router, heap, s) : SetRouter(r)

ApplyRequest ==
  /\ hreq # NoRequest /\ action = NoAction
  /\ CASE hreq.op = "create" -> AddSiteRuntime(AtCopy(hreq.arg))
       [] hreq.op = "enable" -> AddSiteRuntime(AtCell(CellOf(hreq.site)))
       [] hreq.op = "update" -> UpdateSiteRuntime(hreq.site)
       [] hreq.op \in {"disable", "delete"} -> DeleteSiteRuntime(hreq.site)
  /\ hreq' = NoRequest
  /\ UNCHANGED <<heap, slice, action, env>>

SaveFails ==
  /\ env.saveFails /\ hreq # NoRequest
  /\ hreq' = NoRequest
  /\ UNCHANGED <<heap, slice, router, action, env>>

-----------------------------------------------------------------------------
(* StartSite and StopSite hold SiteManager.mu but not Handler.mu: the      *)
(* slice may change after they have looked the site up in it.              *)

Locate(op, s) ==
  /\ Asked(op, s) /\ action = NoAction /\ s \in Configured
  /\ action' = [op |-> op, site |-> s, config |-> AtCell(CellOf(s))]
  /\ UNCHANGED <<heap, slice, router, hreq, env>>

Located == action.config.cell

StartSite ==
  /\ action.op = "start"
  /\ IF heap[Located].on THEN UNCHANGED <<heap, router>>
     ELSE /\ heap' = [heap EXCEPT ![Located].on = TRUE]
          /\ SetRouter(AddHost(Router, heap', action.config))
  /\ action' = NoAction
  /\ UNCHANGED <<slice, hreq, env>>

\* RemoveHost is given the identifier of the request, not of the cell.
StopSite ==
  /\ action.op = "stop"
  /\ IF heap[Located].on
     THEN /\ \E r \in RemoveHost(Router, heap, action.site) : SetRouter(r)
          /\ heap' = [heap EXCEPT ![Located].on = FALSE]
     ELSE UNCHANGED <<heap, router>>
  /\ action' = NoAction
  /\ UNCHANGED <<slice, hreq, env>>

-----------------------------------------------------------------------------
\* The loop of StartSitesServer: the enabled sites are added in order.
AddInTurn(r, hp, sl) ==
  LET add[i \in 0..sl.len] ==
        IF i = 0 THEN r
        ELSE IF hp[<<sl.arr, i>>].on
             THEN AddHost(add[i - 1], hp, AtCell(<<sl.arr, i>>))
             ELSE add[i - 1]
  IN add[sl.len]

Enabled(hp, sl) == {i \in 1..sl.len : hp[<<sl.arr, i>>].on}

Least(S)    == CHOOSE i \in S : \A j \in S : i <= j
Greatest(S) == CHOOSE i \in S : \A j \in S : j <= i

HostOf(hp, c) == [config |-> AtCell(c), handler |-> hp[c].id]

\* Mutant: the first site that claims a domain keeps it.
AddEnabledFirstWins(r, hp, sl) ==
  LET claims(d) == {i \in Enabled(hp, sl) : d \in hp[<<sl.arr, i>>].domains}
  IN [hosts   |-> [d \in Domains |-> IF claims(d) = {} THEN r.hosts[d]
                                     ELSE HostOf(hp, <<sl.arr, Least(claims(d))>>)],
      default |-> IF r.default = Nil /\ Enabled(hp, sl) # {}
                  THEN HostOf(hp, <<sl.arr, Least(Enabled(hp, sl))>>) ELSE r.default]

(***************************************************************************)
(* What the loop leaves: the last enabled site that claims a domain has it, *)
(* the first enabled site is the default host if there was none.            *)
(***************************************************************************)
AddEnabled(r, hp, sl) ==
  LET claims(d) == {i \in Enabled(hp, sl) : d \in hp[<<sl.arr, i>>].domains}
  IN [hosts   |-> [d \in Domains |-> IF claims(d) = {} THEN r.hosts[d]
                                     ELSE HostOf(hp, <<sl.arr, Greatest(claims(d))>>)],
      default |-> IF r.default = Nil /\ Enabled(hp, sl) # {}
                  THEN HostOf(hp, <<sl.arr, Least(Enabled(hp, sl))>>) ELSE r.default]

\* Stopping the service leaves the router alone, starting it adds to it.
RestartSitesServer ==
  /\ "svcRestart" \in env.requests /\ (env.overlap = "any" \/ Busy = {}) /\ action = NoAction
  /\ SetRouter(AddEnabled(Router, heap, slice))
  /\ UNCHANGED <<heap, slice, hreq, action, env>>

Init ==
  /\ env \in Environments
  /\ \E init \in InitialSites :
       /\ heap = [c \in Cells |-> IF c[1] = 1 /\ c[2] <= Len(init) THEN init[c[2]] ELSE Nil]
       /\ slice = [arr |-> 1, len |-> Len(init)]
  /\ LET empty == [hosts |-> [d \in Domains |-> Nil], default |-> Nil]
         r     == AddEnabled(empty, heap, slice)
     IN hosts = r.hosts /\ defaultHost = r.default
  /\ hreq = NoRequest /\ action = NoAction

Next ==
  \/ \E cfg \in Inputs : CreateSite(cfg) \/ UpdateSite(cfg)
  \/ \E s \in Sites :
       \/ DeleteSite(s)
       \/ Toggle("enable", s) \/ Toggle("disable", s)
       \/ Locate("start", s) \/ Locate("stop", s)
  \/ ApplyRequest \/ SaveFails \/ StartSite \/ StopSite \/ RestartSitesServer

Spec == Init /\ [][Next]_vars

-----------------------------------------------------------------------------
(* Properties.                                                             *)

(***************************************************************************)
(* Orderly use: nothing is deleted, saving works, requests about one site  *)
(* do not overlap, and no site is created while one is started or stopped. *)
(***************************************************************************)
Orderly ==
  /\ "delete" \notin env.requests /\ ~env.saveFails
  /\ \/ env.overlap = "none"
     \/ env.overlap = "sites" /\ "create" \notin env.requests

\* A domain no configuration gives to another site.
OwnDomain(s, d) ==
  \A cfg \in Inputs \cup UNION {{init[i] : i \in DOMAIN init} : init \in InitialSites} :
    d \in cfg.domains => cfg.id = s

(***************************************************************************)
(* Of the sites that claim the same domain the last one that is enabled     *)
(* gets it when the service starts, and the first one that is enabled       *)
(* answers what no site claims: what the loop over the slice makes of the   *)
(* router, one AddHost after another.                                       *)
(***************************************************************************)
StartAddsInTurn == AddEnabled(Router, heap, slice) = AddInTurn(Router, heap, slice)

(***************************************************************************)
(* No request is answered by the handler of a site that is disabled,       *)
(* whatever array or copy its virtual host still points to.                *)
(***************************************************************************)
DisabledSiteNotServed ==
  Orderly => \A d \in Domains : \A s \in ServedBy(d) : Config(s).on \/ s \in Busy

(***************************************************************************)
(* An enabled site answers the requests for the domains it alone has.      *)
(***************************************************************************)
EnabledSiteServed ==
  Orderly => \A s \in Configured : Config(s).on /\ s \notin Busy =>
               \A d \in Config(s).domains : OwnDomain(s, d) => ServedBy(d) = {s}

(***************************************************************************)
(* As long as an enabled site has a domain of its own, some site answers   *)
(* every request: the default host is picked again when it goes.           *)
(***************************************************************************)
DefaultHostPicked ==
  Orderly /\ Busy = {}
    /\ (\E s \in Configured : Config(s).on /\ \E d \in Config(s).domains : OwnDomain(s, d))
  => \A d \in Domains : ServedBy(d) # {}

(***************************************************************************)
(* Once a deletion has been carried out the deleted site is not served:    *)
(* server.go:380 says it is stopped at once.                               *)
(***************************************************************************)
DeletedSiteNotServed ==
  hreq = NoRequest => \A d \in Domains : ServedBy(d) \subseteq Configured
=============================================================================
