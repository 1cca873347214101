------------------------ MODULE SiteService_proofs ------------------------
(***************************************************************************)
(* Proofs about the website service: its state stays well typed, a server  *)
(* that SiteManager has on its books has not been closed, sites.json is what *)
(* the panel has in memory, and in orderly use exactly the enabled sites have *)
(* listeners and none is lost.                                             *)
(***************************************************************************)
EXTENDS SiteService, TLAPS

(***************************************************************************)
(* The books.  A server is registered under its own port, so one port at   *)
(* most; and the shared server has no entry in portServers.  This is what  *)
(* keeps stopSitePort and stopSharedPort from closing a server that stays  *)
(* on the books.                                                           *)
(***************************************************************************)
Open(nt, n) == nt.srv[n].st \notin {"free", "closing"}

SharedIsApart(nt) ==
  nt.shared # NoServer =>
    Open(nt, nt.shared) /\ \A p \in Ports : nt.ports[p] # nt.shared

PortsMatch(nt) == \A p \in Ports : nt.ports[p] # NoServer => nt.srv[nt.ports[p]].port = p

PortsOpen(nt) == \A p \in Ports : nt.ports[p] # NoServer => Open(nt, nt.ports[p])

Books(nt) == nt \in Net /\ SharedIsApart(nt) /\ PortsMatch(nt)

ServerRec == [st : ServerState, port : Ports]

LEMMA NetFields ==
  ASSUME NEW nt \in Net
  PROVE  /\ nt.srv \in [Servers -> ServerRec]
         /\ nt.ports \in [Ports -> Servers \cup {NoServer}]
         /\ nt.shared \in Servers \cup {NoServer}
         /\ nt.go \in 0..MaxGo
BY DEF Net, ServerRec

LEMMA SetSrv ==
  ASSUME NEW nt \in Net, NEW srv \in [Servers -> ServerRec]
  PROVE  LET r == [nt EXCEPT !.srv = srv]
         IN /\ r \in Net /\ r.srv = srv
            /\ r.ports = nt.ports /\ r.shared = nt.shared /\ r.go = nt.go
BY DEF Net, ServerRec

LEMMA SetPorts ==
  ASSUME NEW nt \in Net, NEW ports \in [Ports -> Servers \cup {NoServer}]
  PROVE  LET r == [nt EXCEPT !.ports = ports]
         IN /\ r \in Net /\ r.ports = ports
            /\ r.srv = nt.srv /\ r.shared = nt.shared /\ r.go = nt.go
BY DEF Net

LEMMA SetShared ==
  ASSUME NEW nt \in Net, NEW shared \in Servers \cup {NoServer}
  PROVE  LET r == [nt EXCEPT !.shared = shared]
         IN /\ r \in Net /\ r.shared = shared
            /\ r.srv = nt.srv /\ r.ports = nt.ports /\ r.go = nt.go
BY DEF Net

\* Two fields at once, as closing and forgetting a server does.
WithSrvPorts(nt, srv, ports)   == [nt EXCEPT !.srv = srv, !.ports = ports]
WithSrvShared(nt, srv, shared) == [nt EXCEPT !.srv = srv, !.shared = shared]

LEMMA SetSrvPorts ==
  ASSUME NEW nt \in Net, NEW srv \in [Servers -> ServerRec],
         NEW ports \in [Ports -> Servers \cup {NoServer}]
  PROVE  LET r == WithSrvPorts(nt, srv, ports)
         IN /\ r \in Net /\ r.srv = srv /\ r.ports = ports
            /\ r.shared = nt.shared /\ r.go = nt.go
<1> DEFINE m == [nt EXCEPT !.srv = srv]
<1>1. m \in Net /\ m.srv = srv /\ m.shared = nt.shared /\ m.go = nt.go
  BY SetSrv
<1>2. WithSrvPorts(nt, srv, ports) = [m EXCEPT !.ports = ports]
  BY Zenon DEF WithSrvPorts
<1> HIDE DEF m
<1> QED
  BY <1>1, <1>2, SetPorts

LEMMA SetSrvShared ==
  ASSUME NEW nt \in Net, NEW srv \in [Servers -> ServerRec],
         NEW shared \in Servers \cup {NoServer}
  PROVE  LET r == WithSrvShared(nt, srv, shared)
         IN /\ r \in Net /\ r.srv = srv /\ r.shared = shared
            /\ r.ports = nt.ports /\ r.go = nt.go
<1> DEFINE m == [nt EXCEPT !.srv = srv]
<1>1. m \in Net /\ m.srv = srv /\ m.ports = nt.ports /\ m.go = nt.go
  BY SetSrv
<1>2. WithSrvShared(nt, srv, shared) = [m EXCEPT !.shared = shared]
  BY Zenon DEF WithSrvShared
<1> HIDE DEF m
<1> QED
  BY <1>1, <1>2, SetShared

(***************************************************************************)
(* Closing servers.                                                        *)
(***************************************************************************)
LEMMA Closing ==
  ASSUME NEW srv \in [Servers -> ServerRec], NEW T
  PROVE  /\ CloseServers(srv, T) \in [Servers -> ServerRec]
         /\ \A n \in Servers : CloseServers(srv, T)[n].port = srv[n].port
         /\ \A n \in Servers \ T : CloseServers(srv, T)[n] = srv[n]
<1>1. ASSUME NEW n \in Servers
      PROVE  /\ CloseServers(srv, T)[n] \in ServerRec
             /\ CloseServers(srv, T)[n].port = srv[n].port
             /\ n \notin T => CloseServers(srv, T)[n] = srv[n]
  <2>0. srv[n] \in ServerRec
    OBVIOUS
  <2>1. CASE n \notin T
    BY <2>0, <2>1 DEF CloseServers
  <2>2. CASE n \in T
    <3>1. PICK st \in ServerState : CloseServers(srv, T)[n] = [srv[n] EXCEPT !.st = st]
      BY <2>2 DEF CloseServers, ServerState
    <3> QED
      BY <2>0, <2>2, <3>1 DEF ServerRec
  <2> QED
    BY <2>1, <2>2
<1>2. CloseServers(srv, T) = [n \in Servers |-> CloseServers(srv, T)[n]]
  BY DEF CloseServers
<1> QED
  BY <1>1, <1>2

LEMMA StopSitePortFields ==
  ASSUME NEW nt \in Net, NEW p \in Ports
  PROVE  LET r == StopSitePort(nt, p)
         IN /\ r.srv = CloseServers(nt.srv, {nt.ports[p]})
            /\ r.ports = [nt.ports EXCEPT ![p] = NoServer]
            /\ r.shared = nt.shared
            /\ r \in Net
<1> DEFINE r == StopSitePort(nt, p)
           srv == CloseServers(nt.srv, {nt.ports[p]})
           ports == [nt.ports EXCEPT ![p] = NoServer]
<1>1. srv \in [Servers -> ServerRec] /\ ports \in [Ports -> Servers \cup {NoServer}]
  BY NetFields, Closing
<1>2. r = WithSrvPorts(nt, srv, ports)
  <2>1. [nt EXCEPT !.srv = srv].ports = nt.ports
    BY DEF Net
  <2> QED
    BY <2>1, Zenon DEF StopSitePort, WithSrvPorts
<1> HIDE DEF r, srv, ports
<1>3. r \in Net /\ r.srv = srv /\ r.ports = ports /\ r.shared = nt.shared
  BY <1>1, <1>2, SetSrvPorts
<1> QED
  BY <1>3 DEF r, srv, ports

LEMMA StopSitePortBooks ==
  ASSUME NEW nt, Books(nt), NEW p \in Ports
  PROVE  /\ Books(StopSitePort(nt, p))
         /\ PortsOpen(nt) => PortsOpen(StopSitePort(nt, p))
<1> DEFINE r == StopSitePort(nt, p)
<1>0. nt \in Net
  BY DEF Books
<1>1. /\ r.srv = CloseServers(nt.srv, {nt.ports[p]})
      /\ r.ports = [nt.ports EXCEPT ![p] = NoServer]
      /\ r.shared = nt.shared
      /\ r \in Net
  BY <1>0, StopSitePortFields
<1> HIDE DEF r
<1>2. /\ nt.srv \in [Servers -> ServerRec]
      /\ nt.ports \in [Ports -> Servers \cup {NoServer}]
      /\ nt.shared \in Servers \cup {NoServer}
  BY <1>0, NetFields
<1>3. \A n \in Servers : /\ r.srv[n].port = nt.srv[n].port
                         /\ n # nt.ports[p] => r.srv[n] = nt.srv[n]
  BY <1>1, <1>2, Closing
<1>4. \A q \in Ports : /\ q # p => r.ports[q] = nt.ports[q]
                       /\ q = p => r.ports[q] = NoServer
  BY <1>1, <1>2
<1>5. \A q \in Ports : q # p /\ nt.ports[q] # NoServer => nt.ports[q] # nt.ports[p]
  BY DEF Books, PortsMatch
<1>6. SharedIsApart(r)
  BY <1>0, <1>1, <1>2, <1>3, <1>4, SiteServiceAssumption DEF Books, SharedIsApart, Open
<1>7. PortsMatch(r)
  BY <1>2, <1>3, <1>4 DEF Books, PortsMatch
<1>8. PortsOpen(nt) => PortsOpen(r)
  BY <1>2, <1>3, <1>4, <1>5 DEF PortsOpen, Open
<1> QED
  BY <1>1, <1>6, <1>7, <1>8 DEF Books, r

LEMMA StopPortSitesBooks ==
  ASSUME NEW nt, Books(nt)
  PROVE  /\ Books(StopPortSites(nt)) /\ PortsOpen(StopPortSites(nt))
<1> DEFINE r == StopPortSites(nt)
           srv == CloseServers(nt.srv, Range(nt.ports))
           ports == [p \in Ports |-> NoServer]
<1>0. nt \in Net
  BY DEF Books
<1>1. srv \in [Servers -> ServerRec] /\ ports \in [Ports -> Servers \cup {NoServer}]
  BY <1>0, NetFields, Closing
<1>2. r = WithSrvPorts(nt, srv, ports)
  BY Zenon DEF StopPortSites, WithSrvPorts
<1> HIDE DEF r, srv
<1>3. r \in Net /\ r.srv = srv /\ r.ports = ports /\ r.shared = nt.shared
  BY <1>0, <1>1, <1>2, SetSrvPorts
<1>4. \A p \in Ports : r.ports[p] = NoServer
  BY <1>3
<1>5. SharedIsApart(r)
  <2>1. SUFFICES ASSUME nt.shared # NoServer PROVE Open(r, nt.shared)
    BY <1>3, <1>4 DEF SharedIsApart
  <2>2. nt.shared \in Servers /\ nt.shared \notin Range(nt.ports)
    <3>1. \A p \in Ports : nt.ports[p] # nt.shared
      BY <2>1 DEF Books, SharedIsApart
    <3>2. DOMAIN nt.ports = Ports
      BY <1>0, NetFields
    <3> QED
      BY <1>0, <2>1, <3>1, <3>2, NetFields DEF Range
  <2>3. srv[nt.shared] = nt.srv[nt.shared]
    BY <1>0, <2>2, NetFields, Closing DEF srv
  <2> QED
    BY <1>3, <2>1, <2>3 DEF Books, SharedIsApart, Open
<1> QED
  BY <1>3, <1>4, <1>5 DEF Books, PortsMatch, PortsOpen, r

LEMMA StopSharedPortBooks ==
  ASSUME NEW nt, Books(nt)
  PROVE  /\ Books(StopSharedPort(nt))
         /\ PortsOpen(nt) => PortsOpen(StopSharedPort(nt))
         /\ StopSharedPort(nt).shared = NoServer
<1> DEFINE r == StopSharedPort(nt)
           srv == CloseServers(nt.srv, {nt.shared})
<1>0. nt \in Net
  BY DEF Books
<1>1. srv \in [Servers -> ServerRec]
  BY <1>0, NetFields, Closing
<1>2. r = WithSrvShared(nt, srv, NoServer)
  BY Zenon DEF StopSharedPort, WithSrvShared
<1> HIDE DEF r, srv
<1>3. r \in Net /\ r.srv = srv /\ r.shared = NoServer /\ r.ports = nt.ports
  BY <1>0, <1>1, <1>2, SetSrvShared
<1>4. \A n \in Servers : /\ r.srv[n].port = nt.srv[n].port
                         /\ n # nt.shared => r.srv[n] = nt.srv[n]
  BY <1>0, <1>3, NetFields, Closing DEF srv
<1>5. PortsMatch(r)
  BY <1>0, <1>3, <1>4, NetFields DEF Books, PortsMatch
<1>6. PortsOpen(nt) => PortsOpen(r)
  <2>1. \A p \in Ports : nt.ports[p] # NoServer => nt.ports[p] # nt.shared
    BY DEF Books, SharedIsApart
  <2> QED
    BY <1>0, <1>3, <1>4, <2>1, NetFields DEF PortsOpen, Open
<1> QED
  BY <1>3, <1>5, <1>6 DEF Books, SharedIsApart, r

(***************************************************************************)
(* Starting servers.  A new server is not on the books yet.                *)
(***************************************************************************)
LEMMA UnusedIsNew ==
  ASSUME NEW nt \in Net, NEW n \in Unused(nt)
  PROVE  n \in Servers /\ n # nt.shared /\ \A p \in Ports : nt.ports[p] # n
<1>1. DOMAIN nt.ports = Ports
  BY NetFields
<1> QED
  BY <1>1 DEF Unused, Range

LEMMA StartingOpen ==
  ASSUME NEW p \in Ports
  PROVE  /\ Starting(p) \in ServerRec /\ Starting(p).port = p
         /\ Starting(p).st \notin {"free", "closing"}
BY DEF Starting, ServerRec, ServerState

LEMMA LaunchBooks ==
  ASSUME NEW nt, Books(nt), NEW n \in Unused(nt), NEW p \in Ports
  PROVE  /\ Books(Launch(nt, n, p))
         /\ PortsOpen(nt) => PortsOpen(Launch(nt, n, p))
<1> DEFINE r == Launch(nt, n, p)
           srv == [nt.srv EXCEPT ![n] = Starting(p)]
           ports == [nt.ports EXCEPT ![p] = n]
<1>0. nt \in Net /\ n \in Servers
  BY UnusedIsNew DEF Books
<1>1. srv \in [Servers -> ServerRec] /\ ports \in [Ports -> Servers \cup {NoServer}]
  BY <1>0, NetFields, StartingOpen
<1>2. r = WithSrvPorts(nt, srv, ports)
  <2>1. [nt EXCEPT !.srv = srv].ports = nt.ports
    BY <1>0 DEF Net
  <2> QED
    BY <2>1, Zenon DEF Launch, WithSrvPorts
<1> HIDE DEF r, srv, ports
<1>3. r \in Net /\ r.srv = srv /\ r.ports = ports /\ r.shared = nt.shared
  BY <1>0, <1>1, <1>2, SetSrvPorts
<1>4. /\ r.srv[n] = Starting(p)
      /\ \A m \in Servers \ {n} : r.srv[m] = nt.srv[m]
      /\ r.ports[p] = n
      /\ \A q \in Ports \ {p} : r.ports[q] = nt.ports[q]
  BY <1>0, <1>3, NetFields DEF srv, ports
<1>5. n # nt.shared /\ \A q \in Ports : nt.ports[q] # n
  BY <1>0, UnusedIsNew
<1>6. SharedIsApart(r)
  BY <1>0, <1>3, <1>4, <1>5, NetFields DEF Books, SharedIsApart, Open
<1>7. PortsMatch(r)
  BY <1>0, <1>4, <1>5, NetFields, StartingOpen DEF Books, PortsMatch
<1>8. PortsOpen(nt) => PortsOpen(r)
  BY <1>0, <1>4, <1>5, NetFields, StartingOpen DEF PortsOpen, Open
<1> QED
  BY <1>3, <1>6, <1>7, <1>8 DEF Books, r

LEMMA StartSitePortBooks ==
  ASSUME NEW nt, Books(nt), NEW c, NEW s, NEW p \in Ports,
         NEW r \in StartSitePort(nt, c, s, p)
  PROVE  Books(r) /\ (PortsOpen(nt) => PortsOpen(r))
BY LaunchBooks DEF StartSitePort

(***************************************************************************)
(* Starting several servers at once, as startPortSites does: the entries   *)
(* of portServers are overwritten, and still each names a new server that  *)
(* was given the port of the entry.                                        *)
(***************************************************************************)
LEMMA LaunchAllFields ==
  ASSUME NEW nt \in Net, NEW c \in SitesConfig, NEW T \in SUBSET Sites,
         NEW r \in LaunchAll(nt, c, T)
  PROVE  /\ r \in Net /\ r.shared = nt.shared
         /\ \E a \in [T -> Unused(nt)] :
              /\ \A s \in T : r.srv[a[s]] = Starting(c[s].port)
              /\ \A n \in Servers : (\A s \in T : a[s] # n) => r.srv[n] = nt.srv[n]
              /\ \A p \in Ports :
                   \/ r.ports[p] = nt.ports[p] /\ \A s \in T : c[s].port # p
                   \/ \E w \in T : c[w].port = p /\ r.ports[p] = a[w]
<1> DEFINE Entry(a, W, p) == IF \E w \in W : c[w].port = p
                             THEN a[CHOOSE w \in W : c[w].port = p]
                             ELSE nt.ports[p]
           Server(a, n)   == IF \E s \in T : a[s] = n
                             THEN Starting(c[CHOOSE s \in T : a[s] = n].port)
                             ELSE nt.srv[n]
<1>1. PICK a \in Injection(T, Unused(nt)), W \in SUBSET T :
        /\ \A s \in T : \E w \in W : c[w].port = c[s].port
        /\ r = WithSrvPorts(nt, [n \in Servers |-> Server(a, n)],
                                [p \in Ports |-> Entry(a, W, p)])
  <2>1. PICK a \in Injection(T, Unused(nt)), W \in SUBSET T :
          /\ \A s \in T : \E w \in W : c[w].port = c[s].port
          /\ r = LaunchAs(nt, c, T, a, W)
    BY DEF LaunchAll
  <2>2. LaunchAs(nt, c, T, a, W) = WithSrvPorts(nt, [n \in Servers |-> Server(a, n)],
                                                [p \in Ports |-> Entry(a, W, p)])
    BY Zenon DEF LaunchAs, WithSrvPorts
  <2> QED
    BY <2>1, <2>2
<1>2. /\ a \in [T -> Unused(nt)]
      /\ \A s, t \in T : a[s] = a[t] => s = t
  BY <1>1 DEF Injection, IsInjective
<1>3. \A s \in T : /\ a[s] \in Servers /\ a[s] # nt.shared
                   /\ \A p \in Ports : nt.ports[p] # a[s]
  BY <1>2, UnusedIsNew
<1>4. \A s \in T : c[s].port \in Ports
  BY DEF SitesConfig, SiteConfig
<1>5. \A n \in Servers :
        \/ Server(a, n) = nt.srv[n] /\ \A s \in T : a[s] # n
        \/ \E s \in T : a[s] = n /\ Server(a, n) = Starting(c[s].port)
  OBVIOUS
<1>6. \A p \in Ports :
        \/ Entry(a, W, p) = nt.ports[p] /\ \A s \in T : c[s].port # p
        \/ \E w \in T : c[w].port = p /\ Entry(a, W, p) = a[w]
  BY <1>1
<1> DEFINE srv == [n \in Servers |-> Server(a, n)]
           ports == [p \in Ports |-> Entry(a, W, p)]
<1>7. srv \in [Servers -> ServerRec]
  <2>1. \A n \in Servers : Server(a, n) \in ServerRec
    BY <1>4, <1>5, NetFields, StartingOpen
  <2> QED
    BY <2>1
<1>8. ports \in [Ports -> Servers \cup {NoServer}]
  <2>1. \A p \in Ports : Entry(a, W, p) \in Servers \cup {NoServer}
    BY <1>3, <1>6, NetFields
  <2> QED
    BY <2>1
<1>9. /\ \A n \in Servers : srv[n] = Server(a, n)
      /\ \A p \in Ports : ports[p] = Entry(a, W, p)
  OBVIOUS
<1> HIDE DEF srv, ports, Server, Entry
<1>10. r \in Net /\ r.srv = srv /\ r.ports = ports /\ r.shared = nt.shared
  BY <1>1, <1>7, <1>8, SetSrvPorts DEF srv, ports
<1>11. \A s \in T : r.srv[a[s]] = Starting(c[s].port)
  BY <1>2, <1>3, <1>5, <1>9, <1>10
<1>12. \A n \in Servers : (\A s \in T : a[s] # n) => r.srv[n] = nt.srv[n]
  BY <1>5, <1>9, <1>10
<1>13. \A p \in Ports :
         \/ r.ports[p] = nt.ports[p] /\ \A s \in T : c[s].port # p
         \/ \E w \in T : c[w].port = p /\ r.ports[p] = a[w]
  BY <1>6, <1>9, <1>10
<1> QED
  BY <1>2, <1>10, <1>11, <1>12, <1>13

LEMMA LaunchAllBooks ==
  ASSUME NEW nt, Books(nt), NEW c \in SitesConfig, NEW T \in SUBSET Sites,
         NEW r \in LaunchAll(nt, c, T)
  PROVE  Books(r) /\ (PortsOpen(nt) => PortsOpen(r))
<1>0. nt \in Net
  BY DEF Books
<1>1. r \in Net /\ r.shared = nt.shared
  BY <1>0, LaunchAllFields
<1>2. PICK a \in [T -> Unused(nt)] :
        /\ \A s \in T : r.srv[a[s]] = Starting(c[s].port)
        /\ \A n \in Servers : (\A s \in T : a[s] # n) => r.srv[n] = nt.srv[n]
        /\ \A p \in Ports : \/ r.ports[p] = nt.ports[p]
                            \/ \E w \in T : c[w].port = p /\ r.ports[p] = a[w]
  BY <1>0, LaunchAllFields
<1>3. /\ \A s \in T : /\ a[s] \in Servers /\ a[s] # nt.shared
                      /\ \A p \in Ports : nt.ports[p] # a[s]
      /\ \A s \in T : c[s].port \in Ports
  BY <1>0, UnusedIsNew DEF SitesConfig, SiteConfig
<1>4. SharedIsApart(r)
  <2> SUFFICES ASSUME nt.shared # NoServer
               PROVE  Open(r, nt.shared) /\ \A p \in Ports : r.ports[p] # nt.shared
    BY <1>1 DEF SharedIsApart
  <2>1. r.srv[nt.shared] = nt.srv[nt.shared]
    BY <1>0, <1>2, <1>3, NetFields
  <2>2. Open(nt, nt.shared) /\ \A p \in Ports : nt.ports[p] # nt.shared
    BY DEF Books, SharedIsApart
  <2>3. \A p \in Ports : r.ports[p] # nt.shared
    BY <1>2, <1>3, <2>2
  <2> QED
    BY <2>1, <2>2, <2>3 DEF Open
<1>5. ASSUME NEW p \in Ports, r.ports[p] # NoServer
      PROVE  /\ r.srv[r.ports[p]].port = p
             /\ PortsOpen(nt) => Open(r, r.ports[p])
  <2>1. CASE r.ports[p] = nt.ports[p]
    <3>1. nt.ports[p] \in Servers /\ \A s \in T : a[s] # nt.ports[p]
      BY <1>0, <1>3, <1>5, <2>1, NetFields
    <3>2. r.srv[nt.ports[p]] = nt.srv[nt.ports[p]]
      BY <1>2, <3>1
    <3> QED
      BY <1>5, <2>1, <3>2 DEF Books, PortsMatch, PortsOpen, Open
  <2>2. CASE \E w \in T : c[w].port = p /\ r.ports[p] = a[w]
    BY <1>2, <2>2, StartingOpen DEF Open
  <2> QED
    BY <1>2, <2>1, <2>2
<1> QED
  BY <1>1, <1>4, <1>5 DEF Books, PortsMatch, PortsOpen

\* The sites startPortSites gives a server of their own.
OwnSites(c, x, answer) ==
  {s \in OnSites(c) : /\ c[s].port # x
                      /\ GetsOwnPort(s, c[s].port, answer[s])}

LEMMA StartPortSitesLaunch ==
  ASSUME NEW nt, NEW c, NEW r \in StartPortSites(nt, c)
  PROVE  \E x \in GetSharedPort(c), answer \in [OnSites(c) -> GetSharedPort(c)] :
           r \in LaunchAll(StopPortSites(nt), c, OwnSites(c, x, answer))
BY DEF StartPortSites, OwnSites

LEMMA StartPortSitesBooks ==
  ASSUME NEW nt, Books(nt), NEW c \in SitesConfig, NEW r \in StartPortSites(nt, c)
  PROVE  Books(r) /\ PortsOpen(r)
<1>1. PICK T \in SUBSET Sites : r \in LaunchAll(StopPortSites(nt), c, T)
  <2>1. PICK x \in GetSharedPort(c), answer \in [OnSites(c) -> GetSharedPort(c)] :
          r \in LaunchAll(StopPortSites(nt), c, OwnSites(c, x, answer))
    BY StartPortSitesLaunch
  <2>2. OwnSites(c, x, answer) \in SUBSET Sites
    BY DEF OwnSites, OnSites
  <2> QED
    BY <2>1, <2>2
<1> QED
  BY <1>1, StopPortSitesBooks, LaunchAllBooks

LEMMA SharedPortTyped ==
  ASSUME NEW c, NEW x \in GetSharedPort(c)
  PROVE  x \in Ports
BY SiteServiceAssumption DEF GetSharedPort, SharedCandidates

LEMMA StartSharedPortBooks ==
  ASSUME NEW nt, Books(nt), NEW c, NEW r \in StartSharedPort(nt, c)
  PROVE  Books(r) /\ (PortsOpen(nt) => PortsOpen(r))
<1> DEFINE m == StopSharedPort(nt)
<1>0. Books(m) /\ (PortsOpen(nt) => PortsOpen(m)) /\ m \in Net
  BY StopSharedPortBooks DEF Books
<1>1. CASE r = m
  BY <1>0, <1>1
<1>2. CASE \E x \in GetSharedPort(c) \ {0}, n \in {k \in Unused(m) : m.go < MaxGo} :
             r = LaunchShared(m, n, x)
  <2>1. PICK x \in Ports, n \in Unused(m) :
          m.go < MaxGo /\ r = LaunchShared(m, n, x)
    BY <1>2, SharedPortTyped
  <2>2. n \in Servers /\ n # m.shared /\ \A p \in Ports : m.ports[p] # n
    BY <1>0, UnusedIsNew
  <2> HIDE DEF m
  <2> DEFINE srv == [m.srv EXCEPT ![n] = Starting(x)]
             k == WithSrvShared(m, srv, n)
  <2>3. srv \in [Servers -> ServerRec] /\ n \in Servers \cup {NoServer}
    BY <1>0, <2>2, NetFields, StartingOpen
  <2>4. k \in Net /\ k.srv = srv /\ k.shared = n /\ k.ports = m.ports /\ k.go = m.go
    <3> HIDE DEF srv
    <3> QED
      BY <1>0, <2>3, SetSrvShared
  <2>5. r = [k EXCEPT !.go = m.go + 1]
    <3>1. /\ [m EXCEPT !.srv = srv].go = m.go
          /\ WithSrvShared(m, srv, n).go = m.go
      BY <1>0, <2>4 DEF Net
    <3> QED
      BY <2>1, <3>1, Zenon DEF LaunchShared, WithSrvShared
  <2> HIDE DEF k
  <2>6. m.go + 1 \in 0..MaxGo
    BY <1>0, <2>1, NetFields, SiteServiceAssumption
  <2>7. r \in Net /\ r.srv = srv /\ r.shared = n /\ r.ports = m.ports
    <3> HIDE DEF srv
    <3> QED
      BY <2>4, <2>5, <2>6 DEF Net
  <2>8. /\ r.srv[n] = Starting(x)
        /\ \A j \in Servers \ {n} : r.srv[j] = m.srv[j]
    BY <1>0, <2>2, <2>7, NetFields
  <2>9. SharedIsApart(r)
    BY <2>2, <2>7, <2>8, StartingOpen DEF SharedIsApart, Open
  <2>10. PortsMatch(r) /\ (PortsOpen(m) => PortsOpen(r))
    <3>1. \A p \in Ports : m.ports[p] # NoServer => r.srv[m.ports[p]] = m.srv[m.ports[p]]
      BY <1>0, <2>2, <2>8, NetFields
    <3> QED
      BY <1>0, <2>7, <3>1 DEF Books, PortsMatch, PortsOpen, Open
  <2> QED
    BY <1>0, <2>7, <2>9, <2>10 DEF Books
<1> QED
  BY <1>1, <1>2 DEF StartSharedPort

LEMMA StartAllBooks ==
  ASSUME NEW nt, Books(nt), NEW c \in SitesConfig, NEW r \in StartAll(nt, c)
  PROVE  Books(r) /\ PortsOpen(r)
BY StartPortSitesBooks, StartSharedPortBooks DEF StartAll

(***************************************************************************)
(* What the goroutines and the stop of the service do to the books.        *)
(***************************************************************************)
LEMMA CloseRegisteredBooks ==
  ASSUME NEW nt, Books(nt)
  PROVE  Books([nt EXCEPT !.srv = CloseServers(@, Range(nt.ports))])
<1> DEFINE srv == CloseServers(nt.srv, Range(nt.ports))
           r == [nt EXCEPT !.srv = srv]
<1>0. nt \in Net
  BY DEF Books
<1>1. srv \in [Servers -> ServerRec]
  BY <1>0, NetFields, Closing
<1>2. r \in Net /\ r.srv = srv /\ r.ports = nt.ports /\ r.shared = nt.shared
  <2> HIDE DEF srv
  <2> QED
    BY <1>0, <1>1, SetSrv
<1> HIDE DEF r
<1>3. PortsMatch(r)
  BY <1>0, <1>2, NetFields, Closing DEF Books, PortsMatch
<1>4. SharedIsApart(r)
  <2> SUFFICES ASSUME nt.shared # NoServer PROVE Open(r, nt.shared)
    BY <1>2 DEF SharedIsApart, Books
  <2>1. nt.shared \in Servers /\ nt.shared \notin Range(nt.ports)
    <3>1. \A p \in Ports : nt.ports[p] # nt.shared
      BY DEF Books, SharedIsApart
    <3>2. DOMAIN nt.ports = Ports
      BY <1>0, NetFields
    <3> QED
      BY <1>0, <3>1, <3>2, NetFields DEF Range
  <2>2. srv[nt.shared] = nt.srv[nt.shared]
    BY <1>0, <2>1, NetFields, Closing
  <2> QED
    BY <1>2, <2>2 DEF Books, SharedIsApart, Open
<1> QED
  BY <1>2, <1>3, <1>4 DEF Books, r

LEMMA ResetPortsBooks ==
  ASSUME NEW nt, Books(nt)
  PROVE  LET r == StopSharedPort([nt EXCEPT !.ports = [p \in Ports |-> NoServer]])
         IN Books(r) /\ PortsOpen(r)
<1> DEFINE ports == [p \in Ports |-> NoServer]
           k == [nt EXCEPT !.ports = ports]
<1>0. nt \in Net /\ ports \in [Ports -> Servers \cup {NoServer}]
  BY DEF Books
<1>1. k \in Net /\ k.ports = ports /\ k.srv = nt.srv /\ k.shared = nt.shared
  BY <1>0, SetPorts
<1> HIDE DEF k
<1>2. Books(k) /\ PortsOpen(k)
  <2>1. \A p \in Ports : k.ports[p] = NoServer
    BY <1>1
  <2> HIDE DEF ports
  <2> QED
    BY <1>1, <2>1 DEF Books, SharedIsApart, PortsMatch, PortsOpen, Open
<1> QED
  BY <1>2, StopSharedPortBooks DEF k

\* A goroutine changes the state of its server, and never closes an open one.
LEMMA SetStateBooks ==
  ASSUME NEW nt, Books(nt), NEW n \in Servers, NEW st \in ServerState,
         st \in {"free", "closing"} => ~Open(nt, n)
  PROVE  LET r == [nt EXCEPT !.srv[n].st = st]
         IN Books(r) /\ (PortsOpen(nt) => PortsOpen(r))
<1> DEFINE srv == [nt.srv EXCEPT ![n] = [nt.srv[n] EXCEPT !.st = st]]
           r == [nt EXCEPT !.srv = srv]
<1>0. nt \in Net /\ nt.srv \in [Servers -> ServerRec]
  BY NetFields DEF Books
<1>1. srv \in [Servers -> ServerRec]
  BY <1>0 DEF ServerRec
<1>2. /\ \A m \in Servers \ {n} : srv[m] = nt.srv[m]
      /\ srv[n].st = st /\ srv[n].port = nt.srv[n].port
  BY <1>0 DEF ServerRec
<1> HIDE DEF srv
<1>3. r \in Net /\ r.srv = srv /\ r.ports = nt.ports /\ r.shared = nt.shared
  BY <1>0, <1>1, SetSrv
<1> HIDE DEF r
<1>4. \A m \in Servers : r.srv[m].port = nt.srv[m].port /\ (Open(nt, m) => Open(r, m))
  BY <1>2, <1>3 DEF Open
<1>5. Books(r) /\ (PortsOpen(nt) => PortsOpen(r))
  BY <1>0, <1>3, <1>4, NetFields DEF Books, SharedIsApart, PortsMatch, PortsOpen
<1> QED
  BY <1>5 DEF r, srv

LEMMA ListenedBooks ==
  ASSUME NEW nt, Books(nt), NEW n \in Servers
  PROVE  Books(Listened(nt, n)) /\ (PortsOpen(nt) => PortsOpen(Listened(nt, n)))
<1> DEFINE st == IF PortTaken(nt, nt.srv[n].port) THEN "failed" ELSE "binding"
<1>1. st \in ServerState /\ st \notin {"free", "closing"}
  BY DEF ServerState
<1>2. Listened(nt, n) = [nt EXCEPT !.srv[n].st = st]
  BY Zenon DEF Listened
<1> HIDE DEF st
<1> QED
  BY <1>1, <1>2, SetStateBooks

LEMMA GoneBooks ==
  ASSUME NEW nt, Books(nt), nt.go > 0
  PROVE  LET r == [nt EXCEPT !.go = @ - 1]
         IN Books(r) /\ (PortsOpen(nt) => PortsOpen(r)) /\ r.shared = nt.shared
<1> DEFINE r == [nt EXCEPT !.go = nt.go - 1]
<1>1. nt \in Net /\ nt.go - 1 \in 0..MaxGo
  BY NetFields, SiteServiceAssumption DEF Books
<1>2. r \in Net /\ r.srv = nt.srv /\ r.ports = nt.ports /\ r.shared = nt.shared
  BY <1>1 DEF Net
<1> HIDE DEF r
<1>3. Books(r) /\ (PortsOpen(nt) => PortsOpen(r)) /\ r.shared = nt.shared
  BY <1>2 DEF Books, SharedIsApart, PortsMatch, PortsOpen, Open
<1> QED
  BY <1>3 DEF r

(***************************************************************************)
(* The requests.                                                           *)
(***************************************************************************)
LEMMA RuntimeBooks ==
  ASSUME Books(net), NEW s, NEW cfg \in SiteConfig,
         AddSiteRuntime(s, cfg) \/ UpdateSiteRuntime(s, cfg)
  PROVE  Books(net') /\ (PortsOpen(net) => PortsOpen(net'))
<1>1. cfg.st \in SiteState /\ cfg.port \in Ports
  BY DEF SiteConfig
<1>2. CASE AddSiteRuntime(s, cfg)
  BY <1>1, <1>2, StartSitePortBooks DEF AddSiteRuntime
<1>3. CASE UpdateSiteRuntime(s, cfg)
  <2> DEFINE m == StopSitePort(net, cfg.port)
  <2>1. Books(m) /\ (PortsOpen(net) => PortsOpen(m))
    BY <1>1, StopSitePortBooks
  <2>2. net' = net \/ net' = m \/ net' \in StartSitePort(m, mem[mgrCM], s, cfg.port)
    BY <1>1, <1>3 DEF UpdateSiteRuntime, SiteState
  <2> HIDE DEF m
  <2> QED
    BY <1>1, <2>1, <2>2, StartSitePortBooks
<1> QED
  BY <1>2, <1>3

LEMMA DeleteRuntimeBooks ==
  ASSUME Books(net), mem[mgrCM] \in SitesConfig, NEW s \in Sites, DeleteSiteRuntime(s)
  PROVE  Books(net') /\ (PortsOpen(net) => PortsOpen(net'))
<1>1. mem[mgrCM][s].port \in Ports
  BY DEF SitesConfig, SiteConfig
<1>2. net' = StopSitePort(net, mem[mgrCM][s].port) \/ net' = net
  BY DEF DeleteSiteRuntime
<1> QED
  BY <1>1, <1>2, StopSitePortBooks

LEMMA MutatedTyped ==
  ASSUME NEW c \in SitesConfig, NEW cfg \in SiteConfig, NEW S,
         NEW op \in {"create", "update", "delete", "enable", "disable"}
  PROVE  Mutated(c, op, S, cfg) \in SitesConfig
<1>1. ASSUME NEW s \in Sites
      PROVE  Mutated(c, op, S, cfg)[s] \in SiteConfig
  <2>0. c[s] \in SiteConfig
    BY DEF SitesConfig
  <2>1. CASE s \notin S \/ op \in {"create", "update"}
    BY <2>0, <2>1 DEF Mutated
  <2>2. CASE s \in S /\ op \notin {"create", "update"}
    <3>1. PICK st \in SiteState : Mutated(c, op, S, cfg)[s] = [c[s] EXCEPT !.st = st]
      BY <2>2 DEF Mutated, SiteState
    <3> QED
      BY <2>0, <3>1 DEF SiteConfig
  <2> QED
    BY <2>1, <2>2
<1>2. Mutated(c, op, S, cfg) = [s \in Sites |-> Mutated(c, op, S, cfg)[s]]
  BY DEF Mutated
<1> QED
  BY <1>1, <1>2 DEF SitesConfig

\* A change of one site's state by SiteManager, saved or not.
LEMMA SetStateTyped ==
  ASSUME TypeOK, NEW s \in Sites, NEW st \in SiteState, SetState(s, st)
  PROVE  mem' \in [CMs -> SitesConfig] /\ disk' \in SitesConfig
<1>1. mem[mgrCM] \in SitesConfig /\ mem[mgrCM][s] \in SiteConfig
  BY DEF TypeOK, SitesConfig
<1> DEFINE site == [mem[mgrCM][s] EXCEPT !.st = st]
           cm == [mem[mgrCM] EXCEPT ![s] = site]
<1>2. site \in SiteConfig
  BY <1>1 DEF SiteConfig
<1>3. mem' = [mem EXCEPT ![mgrCM] = cm]
  BY DEF SetState
<1> HIDE DEF site
<1>4. cm \in SitesConfig
  BY <1>1, <1>2 DEF SitesConfig
<1> HIDE DEF cm
<1>5. mem' \in [CMs -> SitesConfig] /\ mem'[mgrCM] \in SitesConfig
  BY <1>3, <1>4 DEF TypeOK
<1>6. disk' \in {disk, mem'[mgrCM]}
  BY DEF SetState, Written
<1> QED
  BY <1>5, <1>6 DEF TypeOK

LEMMA StartSiteBodyTyped ==
  ASSUME TypeOK, Books(net), NEW s \in Sites, StartSiteBody(s)
  PROVE  /\ mem' \in [CMs -> SitesConfig] /\ disk' \in SitesConfig
         /\ Books(net') /\ (PortsOpen(net) => PortsOpen(net'))
<1>1. CASE UNCHANGED <<mem, disk, net>>
  BY <1>1 DEF TypeOK
<1>2. CASE /\ SetState(s, "on")
           /\ net' \in StartSitePort(net, mem'[mgrCM], s, mem[mgrCM][s].port)
  <2>1. mem[mgrCM][s].port \in Ports
    BY DEF TypeOK, SitesConfig, SiteConfig
  <2>2. "on" \in SiteState
    BY DEF SiteState
  <2> QED
    BY <1>2, <2>1, <2>2, SetStateTyped, StartSitePortBooks
<1> QED
  BY <1>1, <1>2 DEF StartSiteBody, Manager

LEMMA StopSiteBodyTyped ==
  ASSUME TypeOK, Books(net), NEW s \in Sites, StopSiteBody(s)
  PROVE  /\ mem' \in [CMs -> SitesConfig] /\ disk' \in SitesConfig
         /\ Books(net') /\ (PortsOpen(net) => PortsOpen(net'))
<1>1. CASE UNCHANGED <<mem, disk, net>>
  BY <1>1 DEF TypeOK
<1>2. CASE SetState(s, "off") /\ net' = StopSitePort(net, mem[mgrCM][s].port)
  <2>1. mem[mgrCM][s].port \in Ports
    BY DEF TypeOK, SitesConfig, SiteConfig
  <2>2. "off" \in SiteState
    BY DEF SiteState
  <2> QED
    BY <1>2, <2>1, <2>2, SetStateTyped, StopSitePortBooks
<1> QED
  BY <1>1, <1>2 DEF StopSiteBody, Manager

LEMMA StartServiceTyped ==
  ASSUME TypeOK, Books(net), StartSitesServerBody
  PROVE  /\ sitesRunning' \in BOOLEAN
         /\ Books(net') /\ (PortsOpen(net) => PortsOpen(net'))
<1>1. mem[mgrCM] \in SitesConfig
  BY DEF TypeOK
<1>2. CASE UNCHANGED <<net, sitesRunning>>
  BY <1>2 DEF TypeOK
<1>3. CASE net' \in StartAll(net, mem[mgrCM]) /\ sitesRunning' = TRUE
  BY <1>1, <1>3, StartAllBooks
<1> QED
  BY <1>2, <1>3 DEF StartSitesServerBody, Manager

LEMMA ReloadTyped ==
  ASSUME TypeOK, Books(net), ReloadSites
  PROVE  /\ mgrCM' \in CMs /\ mem' \in [CMs -> SitesConfig]
         /\ Books(net') /\ PortsOpen(net')
<1>1. (CHOOSE i \in CMs : i # panelCM) \in CMs
  BY DEF TypeOK, CMs
<1>2. disk \in SitesConfig
  BY DEF TypeOK
<1>3. mgrCM' \in CMs /\ mem' \in [CMs -> SitesConfig]
  BY <1>1, <1>2 DEF ReloadSites, TypeOK
<1>4. net' \in StartAll(net, disk)
  BY DEF ReloadSites
<1> QED
  BY <1>2, <1>3, <1>4, StartAllBooks

LEMMA AbsentTyped == Absent \in SiteConfig /\ Absent.st = "absent"
BY SiteServiceAssumption DEF Absent, SiteConfig, SiteState

(***************************************************************************)
(* The inductive invariant.  Only between the two halves of                *)
(* StopSitesServer may a registered server of a port be closed.            *)
(***************************************************************************)
Halfway == svc \in {"stopReset", "restartReset"}

BookInv == Books(net) /\ (Halfway \/ PortsOpen(net))

\* A request that is under way is one of the five.
OpInv == hreq.stage # "idle" => hreq.op # "none"

Inv == TypeOK /\ OpInv /\ BookInv

RequestRec == [stage : {"idle", "save", "runtime"},
               op    : {"none", "create", "update", "delete", "enable", "disable"},
               todo  : SUBSET Sites,
               copy  : SiteConfig]

LEMMA IdleTyped == Idle \in RequestRec
BY AbsentTyped DEF Idle, RequestRec

LEMMA InitInv == Init => Inv
<1> SUFFICES ASSUME Init PROVE Inv
  OBVIOUS
<1>0. disk \in SitesConfig /\ env \in Environments
  BY SiteServiceAssumption DEF Init
<1>1. net \in Net
  <2> DEFINE srv == [n \in Servers |-> [st |-> "free", port |-> 0]]
             ports == [p \in Ports |-> NoServer]
  <2>1. /\ srv \in [Servers -> [st : ServerState, port : Ports]]
        /\ ports \in [Ports -> Servers \cup {NoServer}]
        /\ 0 \in 0..MaxGo
    BY SiteServiceAssumption DEF ServerState
  <2>2. net = [srv |-> srv, ports |-> ports, shared |-> NoServer, go |-> 0]
    BY DEF Init
  <2> HIDE DEF srv, ports
  <2> QED
    BY <2>1, <2>2 DEF Net
<1>2. net.shared = NoServer /\ \A p \in Ports : net.ports[p] = NoServer
  BY DEF Init
<1>3. BookInv
  BY <1>1, <1>2 DEF BookInv, Books, SharedIsApart, PortsMatch, PortsOpen
<1>4. hreq \in RequestRec
  BY IdleTyped DEF Init
<1>5. TypeOK /\ OpInv
  BY <1>0, <1>1, <1>4 DEF Init, TypeOK, OpInv, CMs, RequestRec, Idle
<1> QED
  BY <1>3, <1>5 DEF Inv

LEMMA BeginInv ==
  ASSUME Inv, NEW op \in {"create", "update", "delete", "enable", "disable"},
         NEW S \in SUBSET Sites, NEW cfg \in SiteConfig, BeginRequest(op, S, cfg)
  PROVE  Inv'
<1>1. mem[panelCM] \in SitesConfig
  BY DEF Inv, TypeOK
<1>2. mem' = [mem EXCEPT ![panelCM] = Mutated(mem[panelCM], op, S, cfg)]
  BY DEF BeginRequest, Panel
<1>3. mem' \in [CMs -> SitesConfig] /\ mem'[panelCM] \in SitesConfig
  BY <1>1, <1>2, MutatedTyped DEF Inv, TypeOK
<1>4. PICK saved \in BOOLEAN :
        /\ disk' = IF SavesAtOnce(op) /\ saved THEN mem'[panelCM] ELSE disk
        /\ hreq' = IF saved
                   THEN [stage |-> "save", op |-> op, todo |-> S,
                         copy |-> IF op = "create" THEN cfg ELSE Absent]
                   ELSE Idle
  BY DEF BeginRequest, SaveOutcomes
<1>5. disk' \in SitesConfig
  BY <1>3, <1>4 DEF Inv, TypeOK
<1>6. hreq' \in RequestRec
  <2> DEFINE copy == IF op = "create" THEN cfg ELSE Absent
  <2>1. copy \in SiteConfig
    BY AbsentTyped
  <2>2. hreq' = IF saved THEN [stage |-> "save", op |-> op, todo |-> S, copy |-> copy]
                ELSE Idle
    BY <1>4
  <2> HIDE DEF copy
  <2>3. [stage |-> "save", op |-> op, todo |-> S, copy |-> copy] \in RequestRec
    BY <2>1 DEF RequestRec
  <2> QED
    BY <2>2, <2>3, IdleTyped
<1>7. UNCHANGED <<panelCM, mgrCM, net, sitesRunning, svc, restarting, panicked, env>>
  BY DEF BeginRequest
<1>8. TypeOK' /\ OpInv'
  BY <1>3, <1>4, <1>5, <1>6, <1>7 DEF Inv, TypeOK, OpInv, RequestRec, Idle
<1>9. BookInv'
  BY <1>7 DEF Inv, BookInv, Halfway, Books, SharedIsApart, PortsMatch, PortsOpen, Open
<1> QED
  BY <1>8, <1>9 DEF Inv

\* Most steps leave the stage of the service's stop alone.
LEMMA KeepBooks ==
  ASSUME BookInv, UNCHANGED svc, Books(net'), PortsOpen(net) => PortsOpen(net')
  PROVE  BookInv'
BY DEF BookInv, Halfway, Books, SharedIsApart, PortsMatch, PortsOpen, Open

LEMMA SameBooks ==
  ASSUME BookInv, UNCHANGED net, Halfway => Halfway'
  PROVE  BookInv'
BY DEF BookInv, Halfway, Books, SharedIsApart, PortsMatch, PortsOpen, Open

LEMMA PrimedBooks ==
  ASSUME Books(net')
  PROVE  Books(net)' /\ (PortsOpen(net') => PortsOpen(net)')
BY DEF Books, SharedIsApart, PortsMatch, PortsOpen, Open

LEMMA RequestInv == Inv /\ Request => Inv'
<1> SUFFICES ASSUME Inv, Request PROVE Inv'
  OBVIOUS
<1>0. TypeOK /\ OpInv /\ BookInv /\ Books(net)
  BY DEF Inv, BookInv
<1>1. CASE Toggle
  BY <1>1, AbsentTyped, BeginInv DEF Toggle
<1>2. CASE Edit
  <2>1. PICK op \in {"create", "update"}, s \in Sites, st \in {"off", "on"}, p \in Ports :
          BeginRequest(op, {s}, [st |-> st, port |-> p])
    BY <1>2 DEF Edit
  <2>2. [st |-> st, port |-> p] \in SiteConfig
    BY DEF SiteConfig, SiteState
  <2> QED
    BY <2>1, <2>2, BeginInv
<1>3. ASSUME NEW s \in Sites, StartSite(s) \/ StopSite(s) PROVE Inv'
  <2>1. /\ StartSiteBody(s) \/ StopSiteBody(s)
        /\ UNCHANGED <<panelCM, mgrCM, sitesRunning, hreq, svc, restarting, panicked, env>>
    BY <1>3 DEF StartSite, StopSite
  <2>2. /\ mem' \in [CMs -> SitesConfig] /\ disk' \in SitesConfig
        /\ Books(net') /\ (PortsOpen(net) => PortsOpen(net'))
    BY <1>0, <2>1, StartSiteBodyTyped, StopSiteBodyTyped
  <2>3. TypeOK' /\ OpInv'
    BY <1>0, <2>1, <2>2 DEF OpInv, TypeOK, Books
  <2> QED
    BY <1>0, <2>1, <2>2, <2>3, KeepBooks DEF Inv
<1>4. ASSUME NEW s \in Sites, RestartSite(s) PROVE Inv'
  <2>1. /\ StopSiteBody(s)
        /\ restarting' = restarting \cup {s}
        /\ UNCHANGED <<panelCM, mgrCM, sitesRunning, hreq, svc, panicked, env>>
    BY <1>4 DEF RestartSite
  <2>2. /\ mem' \in [CMs -> SitesConfig] /\ disk' \in SitesConfig
        /\ Books(net') /\ (PortsOpen(net) => PortsOpen(net'))
    BY <1>0, <2>1, StopSiteBodyTyped
  <2>3. TypeOK' /\ OpInv'
    BY <1>0, <2>1, <2>2 DEF OpInv, TypeOK, Books
  <2> QED
    BY <1>0, <2>1, <2>2, <2>3, KeepBooks DEF Inv
<1>5. CASE StartSitesServer
  <2>1. /\ StartSitesServerBody
        /\ UNCHANGED <<mem, panelCM, mgrCM, disk, hreq, svc, restarting, panicked, env>>
    BY <1>5 DEF StartSitesServer, cfgVars
  <2>2. /\ sitesRunning' \in BOOLEAN
        /\ Books(net') /\ (PortsOpen(net) => PortsOpen(net'))
    BY <1>0, <2>1, StartServiceTyped
  <2>3. TypeOK' /\ OpInv'
    BY <1>0, <2>1, <2>2 DEF OpInv, TypeOK, Books
  <2> QED
    BY <1>0, <2>1, <2>2, <2>3, KeepBooks DEF Inv
<1>6. CASE StopSitesServer \/ RestartSitesServer
  <2>1. /\ svc = "idle" /\ svc' \in {"stopClose", "restartClose", "restartSleep"}
        /\ sitesRunning' = FALSE
        /\ UNCHANGED <<mem, panelCM, mgrCM, disk, net, hreq, restarting, panicked, env>>
    BY <1>6 DEF StopSitesServer, RestartSitesServer, cfgVars
  <2>2. TypeOK' /\ OpInv'
    BY <1>0, <2>1 DEF OpInv, TypeOK
  <2>3. Halfway => Halfway'
    BY <2>1 DEF Halfway
  <2> QED
    BY <1>0, <2>1, <2>2, <2>3, SameBooks DEF Inv
<1>7. CASE ReloadSitesConfig \/ ReloadFTP
  <2>1. /\ ReloadSites
        /\ svc' \in {svc, "ftpSync"}
        /\ UNCHANGED <<panelCM, disk, sitesRunning, hreq, restarting, panicked, env>>
    BY <1>7 DEF ReloadSitesConfig, ReloadFTP
  <2>2. /\ mgrCM' \in CMs /\ mem' \in [CMs -> SitesConfig]
        /\ Books(net') /\ PortsOpen(net')
    BY <1>0, <2>1, ReloadTyped
  <2>3. TypeOK' /\ OpInv'
    BY <1>0, <2>1, <2>2 DEF OpInv, TypeOK, Books
  <2>4. BookInv'
    BY <2>2, PrimedBooks DEF BookInv
  <2> QED
    BY <2>3, <2>4 DEF Inv
<1> QED
  BY <1>1, <1>2, <1>3, <1>4, <1>5, <1>6, <1>7 DEF Request

LEMMA ContinueInv ==
  Inv /\ (ContinueRequest \/ ContinueService \/ \E s \in Sites : FinishRestartSite(s)) => Inv'
<1> SUFFICES ASSUME Inv, \/ ContinueRequest \/ ContinueService
                         \/ \E s \in Sites : FinishRestartSite(s)
             PROVE  Inv'
  OBVIOUS
<1>0. TypeOK /\ OpInv /\ BookInv /\ Books(net) /\ hreq \in RequestRec /\ mem[mgrCM] \in SitesConfig
  BY DEF Inv, BookInv, TypeOK, RequestRec
<1>1. CASE SaveRequest
  <2>1. /\ UNCHANGED <<mem, panelCM, mgrCM, net, sitesRunning, svc, restarting, panicked, env>>
        /\ disk' \in {disk, mem[panelCM]}
        /\ hreq' \in {[hreq EXCEPT !.stage = "runtime"], Idle}
        /\ hreq.stage = "save"
    BY <1>1 DEF SaveRequest, Written, Panel
  <2>2. hreq' \in RequestRec
    BY <1>0, <2>1, IdleTyped DEF RequestRec
  <2>3. TypeOK' /\ OpInv'
    <3>1. hreq'.op = hreq.op \/ hreq'.stage = "idle"
      BY <1>0, <2>1 DEF RequestRec, Idle
    <3>2. OpInv'
      BY <1>0, <2>1, <3>1 DEF OpInv
    <3>3. TypeOK'
      BY <1>0, <2>1, <2>2 DEF TypeOK, RequestRec
    <3> QED
      BY <3>2, <3>3
  <2>4. Halfway => Halfway'
    BY <2>1 DEF Halfway
  <2> QED
    BY <1>0, <2>1, <2>3, <2>4, SameBooks DEF Inv
<1>2. ASSUME NEW s \in Sites, ApplyRequest(s) PROVE Inv'
  <2>1. /\ UNCHANGED <<mem, panelCM, mgrCM, disk, sitesRunning, svc, restarting, panicked, env>>
        /\ hreq' \in {[hreq EXCEPT !.todo = hreq.todo \ {s}], Idle}
    BY <1>2 DEF ApplyRequest, cfgVars
  <2>2. hreq' \in RequestRec
    BY <1>0, <2>1, IdleTyped DEF RequestRec
  <2>3. Books(net') /\ (PortsOpen(net) => PortsOpen(net'))
    <3>1. \E cfg \in SiteConfig : \/ AddSiteRuntime(s, cfg) \/ UpdateSiteRuntime(s, cfg)
                                  \/ DeleteSiteRuntime(s)
      <4>1. hreq.copy \in SiteConfig /\ mem[panelCM][s] \in SiteConfig
        BY <1>0 DEF TypeOK, RequestRec, SitesConfig
      <4>2. hreq.op \in {"create", "enable", "update", "disable", "delete"}
              => \/ AddSiteRuntime(s, hreq.copy) \/ AddSiteRuntime(s, mem[panelCM][s])
                 \/ UpdateSiteRuntime(s, mem[panelCM][s]) \/ DeleteSiteRuntime(s)
        BY <1>2 DEF ApplyRequest, Panel
      <4>3. hreq.op \in {"create", "enable", "update", "disable", "delete"}
        BY <1>0, <1>2 DEF ApplyRequest, RequestRec, OpInv
      <4> QED
        BY <4>1, <4>2, <4>3
    <3> QED
      BY <1>0, <3>1, RuntimeBooks, DeleteRuntimeBooks
  <2>4. TypeOK' /\ OpInv'
    BY <1>0, <2>1, <2>2, <2>3 DEF OpInv, TypeOK, RequestRec, Idle, Books
  <2> QED
    BY <1>0, <2>1, <2>3, <2>4, KeepBooks DEF Inv
<1>3. CASE CloseServices
  <2>1. /\ net' = [net EXCEPT !.srv = CloseServers(@, Range(net.ports))]
        /\ svc' \in {"stopReset", "restartReset"}
        /\ UNCHANGED <<mem, panelCM, mgrCM, disk, sitesRunning, hreq, restarting, panicked, env>>
    BY <1>3 DEF CloseServices, cfgVars
  <2>2. Books(net')
    BY <1>0, <2>1, CloseRegisteredBooks
  <2>3. TypeOK' /\ OpInv'
    BY <1>0, <2>1, <2>2 DEF OpInv, TypeOK, Books
  <2>4. BookInv'
    BY <2>1, <2>2, PrimedBooks DEF BookInv, Halfway
  <2> QED
    BY <2>3, <2>4 DEF Inv
<1>4. CASE ResetServices
  <2>1. /\ net' = StopSharedPort([net EXCEPT !.ports = [p \in Ports |-> NoServer]])
        /\ svc' \in {"idle", "restartSleep"}
        /\ UNCHANGED <<mem, panelCM, mgrCM, disk, sitesRunning, hreq, restarting, panicked, env>>
    BY <1>4 DEF ResetServices, cfgVars
  <2>2. Books(net') /\ PortsOpen(net')
    BY <1>0, <2>1, ResetPortsBooks
  <2>3. TypeOK' /\ OpInv'
    BY <1>0, <2>1, <2>2 DEF OpInv, TypeOK, Books
  <2>4. BookInv'
    BY <2>2, PrimedBooks DEF BookInv
  <2> QED
    BY <2>3, <2>4 DEF Inv
<1>5. CASE FinishServiceRestart
  <2>1. /\ StartSitesServerBody /\ svc = "restartSleep" /\ svc' = "idle"
        /\ UNCHANGED <<mem, panelCM, mgrCM, disk, hreq, restarting, panicked, env>>
    BY <1>5 DEF FinishServiceRestart, cfgVars
  <2>2. /\ sitesRunning' \in BOOLEAN
        /\ Books(net') /\ (PortsOpen(net) => PortsOpen(net'))
    BY <1>0, <2>1, StartServiceTyped
  <2>3. TypeOK' /\ OpInv'
    BY <1>0, <2>1, <2>2 DEF OpInv, TypeOK, Books
  <2>4. BookInv'
    BY <1>0, <2>1, <2>2, PrimedBooks DEF BookInv, Halfway
  <2> QED
    BY <2>3, <2>4 DEF Inv
<1>6. CASE SyncPanel
  <2>1. /\ svc = "ftpSync" /\ svc' = "idle" /\ panelCM' = mgrCM
        /\ mem' = [i \in CMs |-> mem[mgrCM]]
        /\ UNCHANGED <<mgrCM, disk, net, sitesRunning, hreq, restarting, panicked, env>>
    BY <1>6 DEF SyncPanel, Manager
  <2>2. TypeOK' /\ OpInv'
    BY <1>0, <2>1 DEF OpInv, TypeOK
  <2>3. Halfway => Halfway'
    BY <2>1 DEF Halfway
  <2> QED
    BY <1>0, <2>1, <2>2, <2>3, SameBooks DEF Inv
<1>7. ASSUME NEW s \in Sites, FinishRestartSite(s) PROVE Inv'
  <2>1. /\ StartSiteBody(s)
        /\ restarting' = restarting \ {s}
        /\ UNCHANGED <<panelCM, mgrCM, sitesRunning, hreq, svc, panicked, env>>
    BY <1>7 DEF FinishRestartSite
  <2>2. /\ mem' \in [CMs -> SitesConfig] /\ disk' \in SitesConfig
        /\ Books(net') /\ (PortsOpen(net) => PortsOpen(net'))
    BY <1>0, <2>1, StartSiteBodyTyped
  <2>3. TypeOK' /\ OpInv'
    BY <1>0, <2>1, <2>2 DEF OpInv, TypeOK, Books
  <2> QED
    BY <1>0, <2>1, <2>2, <2>3, KeepBooks DEF Inv
<1> QED
  BY <1>1, <1>2, <1>3, <1>4, <1>5, <1>6, <1>7 DEF ContinueRequest, ContinueService

LEMMA GoroutineInv == Inv /\ (Goroutine \/ MapRace) => Inv'
<1> SUFFICES ASSUME Inv, Goroutine \/ MapRace PROVE Inv'
  OBVIOUS
<1>0. TypeOK /\ OpInv /\ BookInv /\ Books(net)
  BY DEF Inv, BookInv
<1>1. ASSUME NEW n \in Servers, Listen(n) PROVE Inv'
  <2>1. /\ net' = Listened(net, n)
        /\ UNCHANGED <<mem, panelCM, mgrCM, disk, sitesRunning, hreq, svc, restarting, env, panicked>>
    BY <1>1 DEF Listen, goroutineUnchanged, cfgVars
  <2>2. Books(net') /\ (PortsOpen(net) => PortsOpen(net'))
    BY <1>0, <2>1, ListenedBooks
  <2>3. TypeOK' /\ OpInv'
    BY <1>0, <2>1, <2>2 DEF OpInv, TypeOK, Books
  <2> QED
    BY <1>0, <2>1, <2>2, <2>3, KeepBooks DEF Inv
<1>2. ASSUME NEW n \in Servers, Serve(n) PROVE Inv'
  <2> DEFINE st == IF net.srv[n].st = "binding" THEN "serving" ELSE "free"
  <2>1. /\ net' = [net EXCEPT !.srv[n].st = st]
        /\ net.srv[n].st \in {"binding", "closing"}
        /\ UNCHANGED <<mem, panelCM, mgrCM, disk, sitesRunning, hreq, svc, restarting, env, panicked>>
    BY <1>2 DEF Serve, goroutineUnchanged, cfgVars
  <2>2. st \in ServerState /\ (st \in {"free", "closing"} => ~Open(net, n))
    BY <2>1 DEF ServerState, Open
  <2> HIDE DEF st
  <2>3. Books(net') /\ (PortsOpen(net) => PortsOpen(net'))
    BY <1>0, <2>1, <2>2, SetStateBooks
  <2>4. TypeOK' /\ OpInv'
    BY <1>0, <2>1, <2>3 DEF OpInv, TypeOK, Books
  <2> QED
    BY <1>0, <2>1, <2>3, <2>4, KeepBooks DEF Inv
<1>3. CASE SharedListen
  <2> DEFINE run == [net EXCEPT !.go = @ - 1]
  <2>1. /\ net' \in {Listened(run, run.shared), run} /\ net.go > 0
        /\ net' # run => run.shared # NoServer
        /\ panicked' \in BOOLEAN
        /\ UNCHANGED <<mem, panelCM, mgrCM, disk, sitesRunning, hreq, svc, restarting, env>>
    BY <1>0, <1>3, GoneBooks DEF SharedListen, goroutineUnchanged, cfgVars
  <2>2. Books(run) /\ (PortsOpen(net) => PortsOpen(run)) /\ run \in Net
    BY <1>0, <2>1, GoneBooks DEF Books
  <2> HIDE DEF run
  <2>3. Books(net') /\ (PortsOpen(net) => PortsOpen(net'))
    BY <2>1, <2>2, NetFields, ListenedBooks
  <2>4. TypeOK' /\ OpInv'
    BY <1>0, <2>1, <2>3 DEF OpInv, TypeOK, Books
  <2> QED
    BY <1>0, <2>1, <2>3, <2>4, KeepBooks DEF Inv
<1>4. CASE MapRace
  <2>1. /\ panicked' = TRUE
        /\ UNCHANGED <<mem, panelCM, mgrCM, disk, net, sitesRunning, hreq, svc, restarting, env>>
    BY <1>4 DEF MapRace, cfgVars
  <2>2. TypeOK' /\ OpInv'
    BY <1>0, <2>1 DEF OpInv, TypeOK
  <2>3. Halfway => Halfway'
    BY <2>1 DEF Halfway
  <2> QED
    BY <1>0, <2>1, <2>2, <2>3, SameBooks DEF Inv
<1> QED
  BY <1>1, <1>2, <1>3, <1>4 DEF Goroutine

(***************************************************************************)
(* The invariant holds of every behaviour.                                 *)
(***************************************************************************)
LEMMA UnchangedInv == Inv /\ UNCHANGED vars => Inv'
<1> SUFFICES ASSUME Inv, UNCHANGED vars PROVE Inv'
  OBVIOUS
<1>1. TypeOK' /\ OpInv'
  BY DEF OpInv, vars, Inv, TypeOK
<1>2. BookInv'
  BY SameBooks DEF vars, Inv, Halfway
<1> QED
  BY <1>1, <1>2 DEF Inv

LEMMA SpecInv == Spec => []Inv
<1>1. Inv /\ [Next]_vars => Inv'
  BY UnchangedInv, RequestInv, ContinueInv, GoroutineInv DEF Next
<1> QED
  BY <1>1, InitInv, PTL DEF Spec

(***************************************************************************)
(* TypeOK: whatever requests overlap, and whatever part of a save fails.   *)
(***************************************************************************)
THEOREM Typing == Spec => []TypeOK
<1>1. Inv => TypeOK
  BY DEF Inv
<1> QED
  BY <1>1, SpecInv, PTL

(***************************************************************************)
(* RegisteredServersAreOpen: however the requests of the panel overlap,    *)
(* stopSitePort, stopPortSites and stopSharedPort never close a server     *)
(* that stays registered; only StopSitesServer is seen halfway.            *)
(***************************************************************************)
THEOREM RegisteredServersStayOpen == Spec => []RegisteredServersAreOpen
<1>1. Inv => RegisteredServersAreOpen
  BY DEF Inv, BookInv, Halfway, Books, SharedIsApart, PortsOpen, Open, RegisteredServersAreOpen
<1> QED
  BY <1>1, SpecInv, PTL


(***************************************************************************)
(* What is on disk.  reloadFTP is the one step that depends on it: until   *)
(* the panel has taken over the configuration read from disk, nothing may  *)
(* change a site.                                                          *)
(***************************************************************************)
TodoInv == hreq.stage = "idle" <=> hreq.todo = {}

SavedInv ==
  ~env.saveFails /\ ~ReloadOverlaps =>
    /\ panelCM = mgrCM /\ hreq.stage # "save" => disk = mem[panelCM]
    /\ svc = "ftpSync" => /\ env.overlap # "any" /\ disk = mem[mgrCM]
                          /\ hreq.stage = "idle" /\ restarting = {}

DiskInv == Inv /\ TodoInv /\ SavedInv

\* The configuration after SiteManager has set the state of one site.
LEMMA SetStateEffect ==
  ASSUME TypeOK, NEW s \in Sites, NEW st \in SiteState, SetState(s, st)
  PROVE  /\ mem'[mgrCM][s] = [mem[mgrCM][s] EXCEPT !.st = st]
         /\ \A t \in Sites \ {s} : mem'[mgrCM][t] = mem[mgrCM][t]
         /\ ~env.saveFails => disk' = mem'[mgrCM]
<1>1. mem[mgrCM] \in SitesConfig /\ mgrCM \in CMs
  BY DEF TypeOK
<1>2. mem' = [mem EXCEPT ![mgrCM] = [mem[mgrCM] EXCEPT ![s] = [mem[mgrCM][s] EXCEPT !.st = st]]]
  BY DEF SetState
<1>3. mem'[mgrCM] = [mem[mgrCM] EXCEPT ![s] = [mem[mgrCM][s] EXCEPT !.st = st]]
  BY <1>1, <1>2 DEF TypeOK
<1>4. ~env.saveFails => disk' = mem'[mgrCM]
  BY DEF SetState, SaveOutcomes, Written
<1> QED
  BY <1>1, <1>3, <1>4 DEF SitesConfig

\* StartSite, StopSite and the two halves of RestartSite: the configuration.
SiteStep(s, st) ==
  \/ UNCHANGED <<mem, disk>>
  \/ SetState(s, st)

LEMMA SiteBodies ==
  ASSUME NEW s \in Sites
  PROVE  /\ StartSiteBody(s) => SiteStep(s, "on")
         /\ StopSiteBody(s) => SiteStep(s, "off")
BY DEF StartSiteBody, StopSiteBody, SiteStep

LEMMA SiteStepSaved ==
  ASSUME DiskInv, NEW s \in Sites, NEW st \in SiteState, SiteStep(s, st),
         UNCHANGED <<panelCM, mgrCM, hreq, env, svc>>,
         svc = "ftpSync" => env.overlap = "any" \/ s \in restarting
  PROVE  (TodoInv /\ SavedInv)'
<1>1. TodoInv'
  BY DEF DiskInv, TodoInv
<1>2. ASSUME ~env.saveFails, ~ReloadOverlaps PROVE svc # "ftpSync"
  BY <1>2 DEF DiskInv, SavedInv
<1>3. CASE UNCHANGED <<mem, disk>>
  BY <1>1, <1>3 DEF DiskInv, SavedInv, ReloadOverlaps
<1>4. CASE SetState(s, st)
  <2>1. ~env.saveFails => disk' = mem'[mgrCM]
    BY <1>4, SetStateEffect DEF DiskInv, Inv
  <2> QED
    BY <1>1, <1>2, <2>1 DEF DiskInv, SavedInv, ReloadOverlaps
<1> QED
  BY <1>3, <1>4 DEF SiteStep

LEMMA ToggleStates == "on" \in SiteState /\ "off" \in SiteState
BY DEF SiteState

LEMMA BeginSaved ==
  ASSUME DiskInv, NEW op \in {"create", "update", "delete", "enable", "disable"},
         NEW S \in (SUBSET Sites) \ {{}}, NEW cfg, BeginRequest(op, S, cfg)
  PROVE  (TodoInv /\ SavedInv)'
<1>1. /\ UNCHANGED <<panelCM, mgrCM, svc, restarting, env>>
      /\ hreq.stage = "idle" /\ S # {}
      /\ env.overlap = "any" \/ svc = "idle"
  <2>1. MayTouch(S) => env.overlap = "any" \/ svc = "idle"
    BY Zenon DEF MayTouch
  <2> QED
    BY <2>1 DEF BeginRequest
<1>2. PICK saved \in BOOLEAN :
        /\ ~env.saveFails => saved
        /\ hreq' = IF saved
                   THEN [stage |-> "save", op |-> op, todo |-> S,
                         copy |-> IF op = "create" THEN cfg ELSE Absent]
                   ELSE Idle
  BY DEF BeginRequest, SaveOutcomes
<1>3. TodoInv' /\ (~env.saveFails => hreq'.stage = "save")
  BY <1>1, <1>2 DEF TodoInv, Idle
<1> QED
  BY <1>1, <1>3 DEF DiskInv, SavedInv, ReloadOverlaps

LEMMA ReloadEffect ==
  ASSUME TypeOK, ReloadSites
  PROVE  /\ mgrCM' \in CMs /\ mgrCM' # panelCM
         /\ mem'[mgrCM'] = disk /\ mem'[panelCM] = mem[panelCM]
<1> DEFINE fresh == CHOOSE i \in CMs : i # panelCM
<1>1. fresh \in CMs /\ fresh # panelCM
  BY DEF TypeOK, CMs
<1>2. mgrCM' = fresh /\ mem' = [mem EXCEPT ![fresh] = disk]
  BY DEF ReloadSites
<1> HIDE DEF fresh
<1> QED
  BY <1>1, <1>2 DEF TypeOK

LEMMA SavedStep == DiskInv /\ [Next]_vars => (TodoInv /\ SavedInv)'
<1> SUFFICES ASSUME DiskInv, [Next]_vars PROVE (TodoInv /\ SavedInv)'
  OBVIOUS
<1>0. Inv /\ TypeOK /\ TodoInv /\ SavedInv /\ hreq \in RequestRec
  BY DEF DiskInv, Inv, TypeOK, RequestRec
<1>1. CASE Toggle \/ Edit
  <2>1. PICK op \in {"create", "update", "delete", "enable", "disable"},
             S \in (SUBSET Sites) \ {{}}, cfg \in {Absent} \cup SiteConfig :
               BeginRequest(op, S, cfg)
    <3>1. CASE Toggle
      BY <3>1 DEF Toggle
    <3>2. CASE Edit
      <4>1. PICK op \in {"create", "update"}, s \in Sites, st \in {"off", "on"}, p \in Ports :
              BeginRequest(op, {s}, [st |-> st, port |-> p])
        BY <3>2 DEF Edit
      <4>2. [st |-> st, port |-> p] \in SiteConfig /\ {s} \in (SUBSET Sites) \ {{}}
        <5>1. {s} \subseteq Sites /\ {s} # {}
          OBVIOUS
        <5> QED
          BY <5>1 DEF SiteConfig, SiteState
      <4> QED
        BY <4>1, <4>2
    <3> QED
      BY <1>1, <3>1, <3>2
  <2> QED
    BY <2>1, BeginSaved
<1>2. ASSUME NEW s \in Sites, StartSite(s) \/ StopSite(s) \/ RestartSite(s)
      PROVE  (TodoInv /\ SavedInv)'
  <2>1. /\ StartSiteBody(s) \/ StopSiteBody(s)
        /\ UNCHANGED <<panelCM, mgrCM, hreq, env, svc>>
        /\ svc = "ftpSync" => env.overlap = "any"
    BY Zenon, <1>2 DEF StartSite, StopSite, RestartSite, MayTouch
  <2> QED
    BY <2>1, SiteBodies, SiteStepSaved, ToggleStates
<1>3. ASSUME NEW s \in Sites, FinishRestartSite(s)
      PROVE  (TodoInv /\ SavedInv)'
  <2>1. /\ StartSiteBody(s) /\ s \in restarting
        /\ UNCHANGED <<panelCM, mgrCM, hreq, env, svc>>
    BY <1>3 DEF FinishRestartSite
  <2> QED
    BY <2>1, SiteBodies, SiteStepSaved, ToggleStates
<1>4. CASE ReloadSitesConfig \/ ReloadFTP
  <2>1. /\ ReloadSites
        /\ UNCHANGED <<panelCM, disk, hreq, restarting, env>>
        /\ env.overlap = "any" \/ (svc = "idle" /\ hreq.todo = {} /\ restarting = {})
        /\ svc' = svc \/ (svc' = "ftpSync" /\ "reloadFTP" \in env.requests)
    <3>1. MayTouchAll => env.overlap = "any" \/ (svc = "idle" /\ hreq.todo = {} /\ restarting = {})
      <4>1. hreq.todo \subseteq Sites /\ restarting \subseteq Sites
        BY <1>0 DEF RequestRec, TypeOK
      <4> QED
        BY <4>1 DEF MayTouchAll, MayTouch, Busy
    <3> QED
      BY <1>4, <3>1 DEF ReloadSitesConfig, ReloadFTP, Asked
  <2>2. /\ mgrCM' # panelCM /\ mem'[mgrCM'] = disk
    BY <1>0, <2>1, ReloadEffect
  <2> QED
    BY <1>0, <2>1, <2>2 DEF TodoInv, SavedInv, ReloadOverlaps
<1>5. CASE SaveRequest
  <2>1. /\ UNCHANGED <<mem, panelCM, mgrCM, svc, env>>
        /\ hreq.stage = "save"
        /\ hreq' = [hreq EXCEPT !.stage = "runtime"] \/ hreq' = Idle
        /\ ~env.saveFails => disk' = mem[panelCM]
    BY <1>5 DEF SaveRequest, Written, Panel, SaveOutcomes
  <2>2. TodoInv'
    BY <1>0, <2>1 DEF TodoInv, RequestRec, Idle
  <2> QED
    BY <1>0, <2>1, <2>2 DEF SavedInv, ReloadOverlaps
<1>6. ASSUME NEW s \in Sites, ApplyRequest(s) PROVE (TodoInv /\ SavedInv)'
  <2>1. /\ UNCHANGED <<mem, panelCM, mgrCM, disk, svc, env>>
        /\ hreq.stage = "runtime"
        /\ hreq' = IF hreq.todo = {s} THEN Idle ELSE [hreq EXCEPT !.todo = @ \ {s}]
        /\ s \in hreq.todo
    BY <1>6 DEF ApplyRequest, cfgVars
  <2>2. TodoInv' /\ hreq'.stage # "save"
    BY <1>0, <2>1 DEF TodoInv, RequestRec, Idle
  <2> QED
    BY <1>0, <2>1, <2>2 DEF SavedInv, ReloadOverlaps
<1>7. CASE SyncPanel
  <2>1. /\ svc = "ftpSync" /\ svc' = "idle" /\ panelCM' = mgrCM
        /\ mem' = [i \in CMs |-> mem[mgrCM]] /\ mgrCM \in CMs
        /\ UNCHANGED <<mgrCM, disk, hreq, env>>
    BY <1>0, <1>7 DEF SyncPanel, Manager, TypeOK
  <2> QED
    BY <1>0, <2>1 DEF TodoInv, SavedInv, ReloadOverlaps
<1>8. CASE \/ StartSitesServer \/ StopSitesServer \/ RestartSitesServer \/ CloseServices
           \/ ResetServices \/ FinishServiceRestart \/ MapRace \/ Goroutine \/ UNCHANGED vars
  <2>1. /\ UNCHANGED <<mem, panelCM, mgrCM, disk, hreq, restarting, env>>
        /\ svc' = "ftpSync" => svc = "ftpSync"
    BY <1>8 DEF StartSitesServer, StopSitesServer, RestartSitesServer, CloseServices,
         ResetServices, FinishServiceRestart, MapRace, Goroutine, SharedListen, Listen, Serve,
         goroutineUnchanged, cfgVars, vars
  <2> QED
    BY <1>0, <2>1 DEF TodoInv, SavedInv, ReloadOverlaps
<1> QED
  BY <1>1, <1>2, <1>3, <1>4, <1>5, <1>6, <1>7, <1>8
  DEF Next, Request, ContinueRequest, ContinueService

LEMMA SpecDiskInv == Spec => []DiskInv
<1>1. Init => DiskInv
  BY InitInv DEF Init, DiskInv, TodoInv, SavedInv, Idle, CMs
<1>2. DiskInv /\ [Next]_vars => DiskInv'
  <2>1. Inv /\ UNCHANGED vars => Inv'
    BY UnchangedInv
  <2> QED
    BY <2>1, SavedStep, RequestInv, ContinueInv, GoroutineInv DEF DiskInv, Next
<1> QED
  BY <1>1, <1>2, PTL DEF Spec

(***************************************************************************)
(* DiskMatchesMemory: while saves succeed and no reload of the FTP service *)
(* overlaps another request, sites.json holds what the panel has in memory, *)
(* except between a request's change and its SaveConfig; whatever other    *)
(* requests overlap, and after reloadFTP too.                              *)
(***************************************************************************)
THEOREM DiskStaysMatched == Spec => []DiskMatchesMemory
<1>1. DiskInv => DiskMatchesMemory
  BY DEF DiskInv, SavedInv, DiskMatchesMemory, Panel
<1> QED
  BY <1>1, SpecDiskInv, PTL

(***************************************************************************)
(* Orderly use.  The requests that overlap are about different sites, and  *)
(* no site ever changes its port.                                          *)
(***************************************************************************)
Calm == /\ env.requests \subseteq Lifecycle /\ ~env.repeat /\ ~env.saveFails
        /\ env.overlap # "any"

OneManager == panelCM = mgrCM \/ svc = "ftpSync"

Alone == svc # "idle" => hreq.stage = "idle" /\ restarting = {}

Apart ==
  /\ hreq.todo \cap restarting = {}
  /\ env.overlap = "none" => /\ hreq.todo = {} \/ restarting = {}
                             /\ \A s, t \in restarting : s = t

Toggling ==
  /\ hreq.stage # "idle" => hreq.op \in {"enable", "disable"}
  /\ \A s \in hreq.todo : mem[mgrCM][s].st = IF hreq.op = "enable" THEN "on" ELSE "off"

SamePorts == \A s \in Sites : disk[s].port = mem[mgrCM][s].port

CalmInv == Calm => OneManager /\ Alone /\ Apart /\ Toggling /\ SamePorts

PortsKept == \A s \in Sites : mem'[mgrCM'][s].port = mem[mgrCM][s].port

CalmNext == Calm /\ OneManager /\ Alone /\ Apart /\ Toggling /\ SamePorts /\ DiskInv

CalmAfter == (OneManager /\ Alone /\ Apart /\ Toggling /\ SamePorts)' /\ PortsKept

\* In calm use a request touches only sites that no other is busy with.
LEMMA CalmTouch ==
  ASSUME CalmNext, NEW S \in SUBSET Sites, MayTouch(S)
  PROVE  /\ svc = "idle" /\ S \cap hreq.todo = {} /\ S \cap restarting = {}
         /\ env.overlap = "none" => hreq.todo = {} /\ restarting = {}
<1>1. hreq.todo \subseteq Sites /\ restarting \subseteq Sites
  BY DEF CalmNext, DiskInv, Inv, TypeOK
<1>2. svc = "idle" /\ Busy \cap (IF env.overlap = "sites" THEN S ELSE Sites) = {}
  BY DEF MayTouch, CalmNext, Calm
<1>3. env.overlap # "sites" => hreq.todo = {} /\ restarting = {}
  BY <1>1, <1>2 DEF Busy
<1>4. env.overlap = "sites" => S \cap hreq.todo = {} /\ S \cap restarting = {}
  BY <1>2 DEF Busy
<1> QED
  BY <1>2, <1>3, <1>4

LEMMA SiteStepCalm ==
  ASSUME CalmNext, NEW s \in Sites, NEW st \in SiteState, SiteStep(s, st),
         UNCHANGED <<panelCM, mgrCM, hreq, env, svc>>, s \notin hreq.todo
  PROVE  OneManager' /\ Toggling' /\ SamePorts' /\ PortsKept
<1>0. TypeOK /\ mem[mgrCM] \in SitesConfig /\ hreq.todo \subseteq Sites
  BY DEF CalmNext, DiskInv, Inv, TypeOK
<1>1. CASE UNCHANGED <<mem, disk>>
  BY <1>1 DEF CalmNext, OneManager, Toggling, SamePorts, PortsKept
<1>2. CASE SetState(s, st)
  <2>1. /\ mem'[mgrCM][s].port = mem[mgrCM][s].port
        /\ \A t \in Sites \ {s} : mem'[mgrCM][t] = mem[mgrCM][t]
        /\ disk' = mem'[mgrCM]
    <3>1. mem'[mgrCM][s] = [mem[mgrCM][s] EXCEPT !.st = st]
      BY <1>0, <1>2, SetStateEffect
    <3>2. mem[mgrCM][s] \in SiteConfig
      BY <1>0 DEF SitesConfig
    <3> QED
      BY <1>0, <1>2, <3>1, <3>2, SetStateEffect DEF CalmNext, Calm, SiteConfig
  <2> QED
    BY <1>0, <2>1 DEF CalmNext, OneManager, Toggling, SamePorts, PortsKept
<1> QED
  BY <1>1, <1>2 DEF SiteStep

LEMMA BeginCalm ==
  ASSUME CalmNext, NEW op \in {"create", "update", "delete", "enable", "disable"},
         NEW S \in (SUBSET Sites) \ {{}}, NEW cfg, BeginRequest(op, S, cfg)
  PROVE  /\ CalmAfter /\ op \in {"enable", "disable"}
         /\ svc = "idle" /\ UNCHANGED <<mgrCM, net, svc, sitesRunning>>
         /\ hreq.todo = {} /\ hreq'.todo = S /\ hreq'.op = op
         /\ \A s \in Sites \ S : mem'[mgrCM][s] = mem[mgrCM][s]
         /\ op = "enable" => \A s \in S : mem[mgrCM][s].st = "off"
<1>1. /\ UNCHANGED <<panelCM, mgrCM, net, sitesRunning, svc, restarting, env>>
      /\ hreq.stage = "idle" /\ S # {} /\ op \in env.requests /\ MayTouch(S)
      /\ mem' = [mem EXCEPT ![panelCM] = Mutated(mem[panelCM], op, S, cfg)]
  BY DEF BeginRequest, Asked, Panel
<1>2. op \in {"enable", "disable"}
  BY <1>1 DEF CalmNext, Calm, Lifecycle
<1>3. S \in SUBSET Sites
  OBVIOUS
<1>4. /\ svc = "idle" /\ S \cap restarting = {} /\ panelCM = mgrCM
      /\ env.overlap = "none" => restarting = {}
  BY <1>1, <1>3, CalmTouch DEF CalmNext, OneManager
<1>5. /\ hreq' = [stage |-> "save", op |-> op, todo |-> S,
                  copy |-> IF op = "create" THEN cfg ELSE Absent]
      /\ disk' = disk
  BY <1>2 DEF BeginRequest, SavesAtOnce
<1>6. /\ mem'[mgrCM] = Mutated(mem[mgrCM], op, S, cfg)
      /\ mem[mgrCM] \in SitesConfig
  BY <1>1, <1>4 DEF CalmNext, DiskInv, Inv, TypeOK
<1>7. \A s \in Sites : /\ s \notin S => mem'[mgrCM][s] = mem[mgrCM][s]
                       /\ mem'[mgrCM][s].port = mem[mgrCM][s].port
                       /\ s \in S => mem'[mgrCM][s].st = IF op = "enable" THEN "on" ELSE "off"
  BY <1>2, <1>6 DEF Mutated, SitesConfig, SiteConfig
<1>8. Toggling' /\ SamePorts' /\ PortsKept
  BY <1>1, <1>2, <1>3, <1>5, <1>7 DEF CalmNext, Toggling, SamePorts, PortsKept
<1>9. OneManager' /\ Alone' /\ Apart'
  BY <1>1, <1>4, <1>5 DEF OneManager, Alone, Apart, CalmNext
<1>10. op = "enable" => \A s \in S : mem[mgrCM][s].st = "off"
  BY <1>4 DEF BeginRequest, Panel, CalmNext, Calm
<1>11. hreq.todo = {}
  BY <1>1 DEF CalmNext, DiskInv, TodoInv
<1> QED
  BY <1>1, <1>2, <1>4, <1>5, <1>7, <1>8, <1>9, <1>10, <1>11 DEF CalmAfter

\* A request of SiteManager, from its guard.
LEMMA SiteRequestCalm ==
  ASSUME CalmNext, NEW s \in Sites, StartSite(s) \/ StopSite(s) \/ RestartSite(s)
  PROVE  /\ CalmAfter /\ svc = "idle" /\ s \notin hreq.todo
         /\ UNCHANGED <<panelCM, mgrCM, hreq, svc, sitesRunning>>
         /\ env.overlap = "none" => hreq.todo = {} /\ restarting = {}
<1>1. /\ UNCHANGED <<panelCM, mgrCM, hreq, env, svc, sitesRunning>>
      /\ restarting' = restarting \/ restarting' = restarting \cup {s}
      /\ StartSiteBody(s) \/ StopSiteBody(s)
      /\ MayTouch({s})
  BY Zenon DEF StartSite, StopSite, RestartSite
<1>2. {s} \in SUBSET Sites
  OBVIOUS
<1>3. /\ svc = "idle" /\ s \notin hreq.todo /\ s \notin restarting
      /\ env.overlap = "none" => hreq.todo = {} /\ restarting = {}
  BY <1>1, <1>2, CalmTouch
<1>4. OneManager' /\ Toggling' /\ SamePorts' /\ PortsKept
  BY <1>1, <1>3, SiteBodies, SiteStepCalm, ToggleStates
<1>5. Alone' /\ Apart'
  BY <1>1, <1>3 DEF CalmNext, Alone, Apart
<1> QED
  BY <1>1, <1>3, <1>4, <1>5 DEF CalmAfter

LEMMA FinishRestartCalm ==
  ASSUME CalmNext, NEW s \in Sites, FinishRestartSite(s)
  PROVE  /\ CalmAfter /\ svc = "idle" /\ s \notin hreq.todo /\ StartSiteBody(s)
         /\ UNCHANGED <<panelCM, mgrCM, hreq, svc, sitesRunning>>
         /\ env.overlap = "none" => hreq.todo = {}
<1>1. /\ UNCHANGED <<panelCM, mgrCM, hreq, env, svc, sitesRunning>>
      /\ restarting' = restarting \ {s} /\ s \in restarting
      /\ StartSiteBody(s)
  BY DEF FinishRestartSite
<1>2. /\ svc = "idle" /\ s \notin hreq.todo
      /\ env.overlap = "none" => hreq.todo = {}
  BY <1>1 DEF CalmNext, Alone, Apart
<1>3. OneManager' /\ Toggling' /\ SamePorts' /\ PortsKept
  BY <1>1, <1>2, SiteBodies, SiteStepCalm, ToggleStates
<1>4. Alone' /\ Apart'
  BY <1>1, <1>2 DEF CalmNext, Alone, Apart
<1> QED
  BY <1>1, <1>2, <1>3, <1>4 DEF CalmAfter

\* In calm use everybody waits for a reload.
LEMMA ReloadCalm ==
  ASSUME CalmNext, ReloadFTP
  PROVE  /\ CalmAfter /\ hreq.todo = {} /\ svc = "idle" /\ svc' = "ftpSync"
         /\ UNCHANGED <<hreq, sitesRunning>>
         /\ mem'[mgrCM'] = mem[mgrCM]
         /\ net' \in StartAll(net, mem[mgrCM])
<1>1. /\ UNCHANGED <<panelCM, disk, hreq, restarting, env, sitesRunning>>
      /\ svc' = "ftpSync" /\ MayTouch(Sites) /\ ReloadSites
  BY DEF ReloadFTP, MayTouchAll
<1>2. Sites \in SUBSET Sites /\ hreq.todo \subseteq Sites /\ restarting \subseteq Sites
  BY DEF CalmNext, DiskInv, Inv, TypeOK
<1>3. svc = "idle" /\ hreq.todo = {} /\ restarting = {}
  BY <1>1, <1>2, CalmTouch
<1>4. hreq.stage = "idle"
  BY <1>3 DEF CalmNext, DiskInv, TodoInv
<1>5. panelCM = mgrCM /\ disk = mem[mgrCM]
  BY <1>3, <1>4 DEF CalmNext, Calm, OneManager, DiskInv, SavedInv, ReloadOverlaps
<1>6. mem'[mgrCM'] = disk
  BY <1>1, ReloadEffect DEF CalmNext, DiskInv, Inv
<1>7. net' \in StartAll(net, disk)
  BY <1>1 DEF ReloadSites
<1>8. CalmAfter
  BY <1>1, <1>3, <1>4, <1>5, <1>6
  DEF CalmAfter, OneManager, Alone, Apart, Toggling, SamePorts, PortsKept
<1> QED
  BY <1>1, <1>3, <1>5, <1>6, <1>7, <1>8

LEMMA SyncCalm ==
  ASSUME CalmNext, SyncPanel
  PROVE  /\ CalmAfter /\ hreq.todo = {} /\ svc' = "idle"
         /\ UNCHANGED <<hreq, sitesRunning, net, mgrCM>>
         /\ mem'[mgrCM] = mem[mgrCM]
<1>1. /\ svc = "ftpSync" /\ svc' = "idle" /\ panelCM' = mgrCM
      /\ mem' = [i \in CMs |-> mem[mgrCM]] /\ mgrCM \in CMs
      /\ UNCHANGED <<mgrCM, disk, hreq, env, net, sitesRunning, restarting>>
  BY DEF SyncPanel, Manager, CalmNext, DiskInv, Inv, TypeOK
<1>2. hreq.stage = "idle" /\ hreq.todo = {}
  BY <1>1 DEF CalmNext, Alone, DiskInv, TodoInv
<1>3. CalmAfter
  BY <1>1, <1>2
  DEF CalmNext, CalmAfter, OneManager, Alone, Apart, Toggling, SamePorts, PortsKept
<1> QED
  BY <1>1, <1>2, <1>3

LEMMA ApplyCalm ==
  ASSUME CalmNext, NEW s \in Sites, ApplyRequest(s)
  PROVE  /\ CalmAfter /\ svc = "idle" /\ s \in hreq.todo
         /\ UNCHANGED <<mem, panelCM, mgrCM, svc, sitesRunning>>
         /\ panelCM = mgrCM /\ hreq'.todo = hreq.todo \ {s}
         /\ hreq.op \in {"enable", "disable"}
         /\ hreq'.todo # {} => hreq'.op = hreq.op
         /\ \/ hreq.op = "enable" /\ AddSiteRuntime(s, mem[mgrCM][s])
            \/ hreq.op = "disable" /\ DeleteSiteRuntime(s)
<1>0. hreq \in RequestRec
  BY DEF CalmNext, DiskInv, Inv, TypeOK, RequestRec
<1>1. /\ UNCHANGED <<mem, panelCM, mgrCM, disk, svc, env, restarting, sitesRunning>>
      /\ hreq.stage = "runtime" /\ s \in hreq.todo
      /\ hreq' = IF hreq.todo = {s} THEN Idle ELSE [hreq EXCEPT !.todo = @ \ {s}]
  BY DEF ApplyRequest, cfgVars
<1>2. /\ svc = "idle" /\ panelCM = mgrCM /\ hreq.op \in {"enable", "disable"}
  BY <1>1 DEF CalmNext, Alone, OneManager, Toggling
<1>3. hreq'.todo = hreq.todo \ {s} /\ (hreq'.todo # {} => hreq'.op = hreq.op)
  BY <1>0, <1>1 DEF RequestRec, Idle
<1>4. hreq'.stage # "idle" => hreq'.op = hreq.op
  BY <1>0, <1>1 DEF RequestRec, Idle
<1>5. CalmAfter
  BY <1>1, <1>2, <1>3, <1>4
  DEF CalmNext, CalmAfter, OneManager, Alone, Apart, Toggling, SamePorts, PortsKept
<1>6. \/ hreq.op = "enable" /\ AddSiteRuntime(s, mem[mgrCM][s])
      \/ hreq.op = "disable" /\ DeleteSiteRuntime(s)
  BY <1>2 DEF ApplyRequest, Panel
<1> QED
  BY <1>1, <1>2, <1>3, <1>5, <1>6

LEMMA SaveCalm ==
  ASSUME CalmNext, SaveRequest
  PROVE  /\ CalmAfter
         /\ UNCHANGED <<mem, mgrCM, svc, sitesRunning, net>>
         /\ hreq'.todo = hreq.todo /\ hreq'.op = hreq.op
<1>0. hreq \in RequestRec
  BY DEF CalmNext, DiskInv, Inv, TypeOK, RequestRec
<1>1. /\ UNCHANGED <<mem, panelCM, mgrCM, svc, env, net, sitesRunning, restarting>>
      /\ hreq.stage = "save"
      /\ hreq' = [hreq EXCEPT !.stage = "runtime"] /\ disk' = mem[panelCM]
  BY DEF SaveRequest, Written, Panel, SaveOutcomes, CalmNext, Calm
<1>2. svc = "idle" /\ panelCM = mgrCM
  BY <1>1 DEF CalmNext, Alone, OneManager
<1>3. hreq'.todo = hreq.todo /\ hreq'.op = hreq.op /\ hreq'.stage = "runtime"
  BY <1>0, <1>1 DEF RequestRec
<1>4. CalmAfter
  BY <1>1, <1>2, <1>3
  DEF CalmNext, CalmAfter, OneManager, Alone, Apart, Toggling, SamePorts, PortsKept
<1> QED
  BY <1>1, <1>3, <1>4

\* The whole service: nothing else is under way when it stops or restarts.
ServiceStep ==
  StartSitesServer \/ StopSitesServer \/ RestartSitesServer
    \/ CloseServices \/ ResetServices \/ FinishServiceRestart

LEMMA ServiceCalm ==
  ASSUME CalmNext, ServiceStep
  PROVE  /\ CalmAfter /\ hreq.todo = {}
         /\ UNCHANGED <<mem, mgrCM, hreq>>
<1>1. /\ UNCHANGED <<mem, panelCM, mgrCM, disk, hreq, restarting, env>>
      /\ MayTouch(Sites) \/ svc # "idle"
      /\ svc' = "ftpSync" => svc = "ftpSync"
      /\ svc = "ftpSync" => svc' = "ftpSync"
  BY DEF ServiceStep, StartSitesServer, StopSitesServer, RestartSitesServer, CloseServices,
         ResetServices, FinishServiceRestart, cfgVars, MayTouchAll
<1>2. Sites \in SUBSET Sites /\ hreq.todo \subseteq Sites /\ restarting \subseteq Sites
  BY DEF CalmNext, DiskInv, Inv, TypeOK
<1>3. hreq.todo = {} /\ hreq.stage = "idle" /\ restarting = {}
  BY <1>1, <1>2, CalmTouch DEF CalmNext, Alone, DiskInv, TodoInv
<1>4. CalmAfter
  BY <1>1, <1>3
  DEF CalmNext, CalmAfter, OneManager, Alone, Apart, Toggling, SamePorts, PortsKept
<1> QED
  BY <1>1, <1>3, <1>4

LEMMA OthersCalm ==
  ASSUME CalmNext, Goroutine \/ MapRace \/ UNCHANGED vars
  PROVE  CalmAfter /\ UNCHANGED <<mem, mgrCM, hreq, svc, sitesRunning>>
<1>1. UNCHANGED <<mem, panelCM, mgrCM, disk, hreq, restarting, env, svc, sitesRunning>>
  BY DEF MapRace, Goroutine, SharedListen, Listen, Serve, goroutineUnchanged, cfgVars, vars
<1> QED
  BY <1>1
  DEF CalmNext, CalmAfter, OneManager, Alone, Apart, Toggling, SamePorts, PortsKept

\* A site is edited, added or reloaded only where that is asked for.
LEMMA NotCalm ==
  ASSUME CalmNext
  PROVE  ~Edit /\ ~ReloadSitesConfig
BY DEF Edit, BeginRequest, ReloadSitesConfig, Asked, CalmNext, Calm, Lifecycle

LEMMA EnvKept == ASSUME [Next]_vars PROVE env' = env
BY DEF vars, Next, Request, ContinueRequest, ContinueService, Toggle, Edit, BeginRequest,
       StartSite, StopSite, RestartSite, StartSitesServer, StopSitesServer, RestartSitesServer,
       ReloadSitesConfig, ReloadFTP, SaveRequest, ApplyRequest, CloseServices, ResetServices,
       FinishServiceRestart, SyncPanel, FinishRestartSite, Goroutine, SharedListen, Listen,
       Serve, goroutineUnchanged, MapRace

LEMMA CalmStep == CalmNext /\ [Next]_vars => CalmAfter
<1> SUFFICES ASSUME CalmNext, [Next]_vars PROVE CalmAfter
  OBVIOUS
<1>1. CASE Toggle
  BY <1>1, BeginCalm DEF Toggle
<1>2. CASE \E s \in Sites : StartSite(s) \/ StopSite(s) \/ RestartSite(s)
  BY <1>2, SiteRequestCalm
<1>3. CASE \E s \in Sites : FinishRestartSite(s)
  BY <1>3, FinishRestartCalm
<1>4. CASE ReloadFTP \/ SyncPanel
  BY <1>4, ReloadCalm, SyncCalm
<1>5. CASE SaveRequest \/ \E s \in Sites : ApplyRequest(s)
  BY <1>5, SaveCalm, ApplyCalm
<1>6. CASE ServiceStep
  BY <1>6, ServiceCalm
<1>7. CASE Goroutine \/ MapRace \/ UNCHANGED vars
  BY <1>7, OthersCalm
<1> QED
  BY <1>1, <1>2, <1>3, <1>4, <1>5, <1>6, <1>7, NotCalm
  DEF Next, Request, ContinueRequest, ContinueService, ServiceStep

(***************************************************************************)
(* The listeners in orderly use.  A server that runs is on the books, and  *)
(* no server is started over an entry of portServers.                      *)
(***************************************************************************)
Lives(nt, n) == nt.srv[n].st \in {"starting", "binding", "serving"}

Registered(nt, n) == n = nt.shared \/ nt.ports[nt.srv[n].port] = n

AllKnown(nt) == \A n \in Servers : Lives(nt, n) => Registered(nt, n)

Empty(nt, p) == nt.ports[p] = NoServer

LEMMA ClosedIsDown ==
  ASSUME NEW srv \in [Servers -> ServerRec], NEW T, NEW n \in Servers, n \in T
  PROVE  CloseServers(srv, T)[n].st \notin {"starting", "binding", "serving"}
<1>1. srv[n] \in ServerRec
  OBVIOUS
<1> QED
  BY <1>1 DEF CloseServers, ServerRec

LEMMA StopSitePortKnown ==
  ASSUME NEW nt \in Net, AllKnown(nt), NEW p \in Ports
  PROVE  /\ AllKnown(StopSitePort(nt, p))
         /\ Empty(StopSitePort(nt, p), p)
         /\ \A q \in Ports \ {p} : StopSitePort(nt, p).ports[q] = nt.ports[q]
<1> DEFINE r == StopSitePort(nt, p)
<1>1. /\ r.srv = CloseServers(nt.srv, {nt.ports[p]})
      /\ r.ports = [nt.ports EXCEPT ![p] = NoServer]
      /\ r.shared = nt.shared
      /\ r \in Net
  BY StopSitePortFields
<1> HIDE DEF r
<1>2. nt.srv \in [Servers -> ServerRec] /\ nt.ports \in [Ports -> Servers \cup {NoServer}]
  BY NetFields
<1>3. Empty(r, p) /\ \A q \in Ports \ {p} : r.ports[q] = nt.ports[q]
  BY <1>1, <1>2 DEF Empty
<1>4. ASSUME NEW n \in Servers, Lives(r, n) PROVE Registered(r, n)
  <2>1. n # nt.ports[p]
    BY <1>1, <1>2, <1>4, ClosedIsDown DEF Lives
  <2>2. r.srv[n] = nt.srv[n] /\ nt.srv[n].port \in Ports
    <3>1. n \in Servers \ {nt.ports[p]}
      BY <2>1
    <3>2. CloseServers(nt.srv, {nt.ports[p]})[n] = nt.srv[n]
      BY <1>2, <3>1, Closing
    <3> QED
      BY <1>1, <1>2, <3>2 DEF ServerRec
  <2>3. Registered(nt, n)
    BY <1>4, <2>2 DEF Lives, AllKnown
  <2> QED
    BY <1>1, <1>3, <2>1, <2>2, <2>3 DEF Registered
<1> QED
  BY <1>3, <1>4 DEF AllKnown, r

LEMMA StopPortSitesKnown ==
  ASSUME NEW nt \in Net, AllKnown(nt)
  PROVE  AllKnown(StopPortSites(nt)) /\ \A p \in Ports : Empty(StopPortSites(nt), p)
<1> DEFINE r == StopPortSites(nt)
           srv == CloseServers(nt.srv, Range(nt.ports))
           ports == [p \in Ports |-> NoServer]
<1>1. srv \in [Servers -> ServerRec] /\ ports \in [Ports -> Servers \cup {NoServer}]
  BY NetFields, Closing
<1>2. r = WithSrvPorts(nt, srv, ports)
  BY Zenon DEF StopPortSites, WithSrvPorts
<1> HIDE DEF r, srv
<1>3. r \in Net /\ r.srv = srv /\ r.ports = ports /\ r.shared = nt.shared
  BY <1>1, <1>2, SetSrvPorts
<1>4. \A p \in Ports : Empty(r, p)
  BY <1>3 DEF Empty
<1>5. ASSUME NEW n \in Servers, Lives(r, n) PROVE Registered(r, n)
  <2>1. n \notin Range(nt.ports)
    BY <1>3, <1>5, NetFields, ClosedIsDown DEF Lives, srv
  <2>2. r.srv[n] = nt.srv[n] /\ nt.srv[n].port \in Ports
    BY <1>3, <2>1, NetFields, Closing DEF srv, ServerRec
  <2>3. Registered(nt, n)
    BY <1>5, <2>2 DEF Lives, AllKnown
  <2>4. nt.ports[nt.srv[n].port] # n
    BY <2>1, <2>2, NetFields DEF Range
  <2> QED
    BY <1>3, <2>3, <2>4 DEF Registered
<1> QED
  BY <1>4, <1>5 DEF AllKnown, r

LEMMA StopSharedPortFields ==
  ASSUME NEW nt \in Net
  PROVE  LET r == StopSharedPort(nt)
         IN /\ r \in Net /\ r.shared = NoServer /\ r.ports = nt.ports
            /\ r.srv = CloseServers(nt.srv, {nt.shared})
<1> DEFINE r == StopSharedPort(nt)
           srv == CloseServers(nt.srv, {nt.shared})
<1>1. srv \in [Servers -> ServerRec]
  BY NetFields, Closing
<1>2. r = WithSrvShared(nt, srv, NoServer)
  BY Zenon DEF StopSharedPort, WithSrvShared
<1> HIDE DEF r, srv
<1>3. r \in Net /\ r.srv = srv /\ r.shared = NoServer /\ r.ports = nt.ports
  BY <1>1, <1>2, SetSrvShared
<1> QED
  BY <1>3 DEF r, srv

LEMMA StopSharedPortKnown ==
  ASSUME NEW nt \in Net, AllKnown(nt)
  PROVE  /\ AllKnown(StopSharedPort(nt))
         /\ StopSharedPort(nt).ports = nt.ports
<1> DEFINE r == StopSharedPort(nt)
<1>1. /\ r \in Net /\ r.shared = NoServer /\ r.ports = nt.ports
      /\ r.srv = CloseServers(nt.srv, {nt.shared})
  BY StopSharedPortFields
<1> HIDE DEF r
<1>2. ASSUME NEW n \in Servers, Lives(r, n) PROVE Registered(r, n)
  <2>1. n # nt.shared
    BY <1>1, <1>2, NetFields, ClosedIsDown DEF Lives
  <2>2. r.srv[n] = nt.srv[n]
    BY <1>1, <2>1, NetFields, Closing
  <2> QED
    BY <1>1, <1>2, <2>1, <2>2 DEF Lives, AllKnown, Registered
<1> QED
  BY <1>1, <1>2 DEF AllKnown, r

LEMMA LaunchFields ==
  ASSUME NEW nt \in Net, NEW n \in Unused(nt), NEW p \in Ports
  PROVE  LET r == Launch(nt, n, p)
         IN /\ r \in Net /\ r.shared = nt.shared
            /\ r.srv = [nt.srv EXCEPT ![n] = Starting(p)]
            /\ r.ports = [nt.ports EXCEPT ![p] = n]
<1> DEFINE r == Launch(nt, n, p)
           srv == [nt.srv EXCEPT ![n] = Starting(p)]
           ports == [nt.ports EXCEPT ![p] = n]
<1>0. n \in Servers
  BY UnusedIsNew
<1>1. srv \in [Servers -> ServerRec] /\ ports \in [Ports -> Servers \cup {NoServer}]
  BY <1>0, NetFields, StartingOpen
<1>2. r = WithSrvPorts(nt, srv, ports)
  <2>1. [nt EXCEPT !.srv = srv].ports = nt.ports
    BY DEF Net
  <2> QED
    BY <2>1, Zenon DEF Launch, WithSrvPorts
<1> HIDE DEF r, srv, ports
<1>3. r \in Net /\ r.srv = srv /\ r.ports = ports /\ r.shared = nt.shared
  BY <1>1, <1>2, SetSrvPorts
<1> QED
  BY <1>3 DEF r, srv, ports

LEMMA LaunchKnown ==
  ASSUME NEW nt \in Net, AllKnown(nt), NEW n \in Unused(nt), NEW p \in Ports, Empty(nt, p)
  PROVE  /\ AllKnown(Launch(nt, n, p))
         /\ ~Empty(Launch(nt, n, p), p)
         /\ \A q \in Ports \ {p} : Launch(nt, n, p).ports[q] = nt.ports[q]
<1> DEFINE r == Launch(nt, n, p)
<1>0. n \in Servers /\ n # nt.shared /\ \A q \in Ports : nt.ports[q] # n
  BY UnusedIsNew
<1>1. /\ r \in Net /\ r.shared = nt.shared
      /\ r.srv = [nt.srv EXCEPT ![n] = Starting(p)]
      /\ r.ports = [nt.ports EXCEPT ![p] = n]
  BY LaunchFields
<1> HIDE DEF r
<1>2. /\ r.srv[n] = Starting(p) /\ r.ports[p] = n
      /\ \A m \in Servers \ {n} : r.srv[m] = nt.srv[m] /\ nt.srv[m].port \in Ports
      /\ \A q \in Ports \ {p} : r.ports[q] = nt.ports[q]
  BY <1>0, <1>1, NetFields DEF ServerRec
<1>3. ASSUME NEW m \in Servers, Lives(r, m) PROVE Registered(r, m)
  <2>1. CASE m = n
    BY <1>2, <2>1, StartingOpen DEF Registered
  <2>2. CASE m # n
    <3>1. Registered(nt, m) /\ nt.srv[m].port \in Ports /\ r.srv[m] = nt.srv[m]
      BY <1>2, <1>3, <2>2 DEF Lives, AllKnown
    <3>2. nt.srv[m].port = p => nt.ports[p] # m
      BY SiteServiceAssumption DEF Empty
    <3> QED
      BY <1>1, <1>2, <3>1, <3>2 DEF Registered
  <2> QED
    BY <2>1, <2>2
<1> QED
  BY <1>0, <1>2, <1>3, SiteServiceAssumption DEF AllKnown, Empty, r

(***************************************************************************)
(* GetSharedPort.  Where at most one port may be shared it has one answer, *)
(* and two enabled sites of one port are on it.                            *)
(***************************************************************************)
OnePort(c) == \A p, q \in SharedCandidates(c) : p = q

OwnPortIn(c, s) ==
  /\ c[s].port \notin {0, 80, 443, AdminPort}
  /\ \A t \in Sites \ {s} : c[t].port # c[s].port

LEMMA SharedIsOnly ==
  ASSUME NEW c, OnePort(c), NEW p \in SharedCandidates(c)
  PROVE  GetSharedPort(c) = {p}
BY DEF OnePort, GetSharedPort

LEMMA OwnIsNotShared ==
  ASSUME NEW c \in SitesConfig, NEW s \in Sites \ BadSites, OwnPortIn(c, s),
         NEW x \in GetSharedPort(c)
  PROVE  c[s].port # x /\ GetsOwnPort(s, c[s].port, x)
<1>1. c[s].port \notin SharedCandidates(c)
  BY DEF SharedCandidates, OwnPortIn, OnSites
<1>2. c[s].port # x
  BY <1>1 DEF GetSharedPort, OwnPortIn
<1>3. c[s].port \in Nat
  BY SiteServiceAssumption DEF SitesConfig, SiteConfig
<1> QED
  BY <1>2, <1>3 DEF GetsOwnPort, OwnPortIn

LEMMA TwoShare ==
  ASSUME NEW c \in SitesConfig, OnePort(c), NEW s \in OnSites(c), NEW t \in OnSites(c),
         s # t, c[s].port = c[t].port, NEW x \in GetSharedPort(c)
  PROVE  ~GetsOwnPort(s, c[s].port, x)
<1>1. s \in Sites /\ c[s].port \in Nat /\ c[s].port \in Ports
  BY SiteServiceAssumption DEF SitesConfig, SiteConfig, OnSites
<1>2. c[s].port # 0 => c[s].port \in SharedCandidates(c)
  BY <1>1 DEF SharedCandidates
<1>3. c[s].port # 0 => c[s].port = x
  BY <1>2, SharedIsOnly
<1> QED
  BY <1>1, <1>3 DEF GetsOwnPort

LEMMA LaunchAllKnown ==
  ASSUME NEW nt \in Net, AllKnown(nt), \A p \in Ports : Empty(nt, p),
         NEW c \in SitesConfig, NEW T \in SUBSET Sites,
         \A s, t \in T : c[s].port = c[t].port => s = t,
         NEW r \in LaunchAll(nt, c, T)
  PROVE  /\ r \in Net /\ AllKnown(r)
         /\ \A p \in Ports : ~Empty(r, p) <=> \E s \in T : c[s].port = p
<1>1. r \in Net /\ r.shared = nt.shared
  BY LaunchAllFields
<1>2. PICK a \in [T -> Unused(nt)] :
        /\ \A s \in T : r.srv[a[s]] = Starting(c[s].port)
        /\ \A n \in Servers : (\A s \in T : a[s] # n) => r.srv[n] = nt.srv[n]
        /\ \A p \in Ports :
             \/ r.ports[p] = nt.ports[p] /\ \A s \in T : c[s].port # p
             \/ \E w \in T : c[w].port = p /\ r.ports[p] = a[w]
  BY LaunchAllFields
<1>3. /\ \A s \in T : /\ a[s] \in Servers /\ a[s] # nt.shared
                      /\ \A p \in Ports : nt.ports[p] # a[s]
      /\ \A s \in T : c[s].port \in Ports
  BY UnusedIsNew DEF SitesConfig, SiteConfig
<1>4. \A p \in Ports : ~Empty(r, p) <=> \E s \in T : c[s].port = p
  BY <1>2, <1>3, SiteServiceAssumption DEF Empty
<1>5. ASSUME NEW n \in Servers, Lives(r, n) PROVE Registered(r, n)
  <2>1. CASE \E s \in T : a[s] = n
    <3>1. PICK s \in T : a[s] = n
      BY <2>1
    <3>2. r.ports[c[s].port] = n /\ r.srv[n].port = c[s].port
      BY <1>2, <1>3, <3>1, StartingOpen
    <3> QED
      BY <3>2 DEF Registered
  <2>2. CASE \A s \in T : a[s] # n
    <3>1. Registered(nt, n) /\ nt.srv[n].port \in Ports /\ r.srv[n] = nt.srv[n]
      BY <1>2, <1>5, <2>2, NetFields DEF Lives, AllKnown, ServerRec
    <3>2. n = nt.shared
      BY <3>1, SiteServiceAssumption DEF Registered, Empty
    <3> QED
      BY <1>1, <3>2 DEF Registered
  <2> QED
    BY <2>1, <2>2
<1> QED
  BY <1>1, <1>4, <1>5 DEF AllKnown

LEMMA StopPortSitesNet == ASSUME NEW nt \in Net PROVE StopPortSites(nt) \in Net
<1> DEFINE srv == CloseServers(nt.srv, Range(nt.ports))
           ports == [p \in Ports |-> NoServer]
<1>1. srv \in [Servers -> ServerRec] /\ ports \in [Ports -> Servers \cup {NoServer}]
  BY NetFields, Closing
<1>2. StopPortSites(nt) = WithSrvPorts(nt, srv, ports)
  BY Zenon DEF StopPortSites, WithSrvPorts
<1> HIDE DEF srv, ports
<1> QED
  BY <1>1, <1>2, SetSrvPorts

LEMMA StartPortSitesKnown ==
  ASSUME NEW nt \in Net, AllKnown(nt), NEW c \in SitesConfig, OnePort(c),
         NEW r \in StartPortSites(nt, c)
  PROVE  /\ r \in Net /\ AllKnown(r)
         /\ \A p \in Ports : ~Empty(r, p) => \E s \in OnSites(c) : c[s].port = p
         /\ \A s \in OnSites(c) \ BadSites : OwnPortIn(c, s) => ~Empty(r, c[s].port)
<1>1. PICK x \in GetSharedPort(c), answer \in [OnSites(c) -> GetSharedPort(c)] :
        r \in LaunchAll(StopPortSites(nt), c, OwnSites(c, x, answer))
  BY StartPortSitesLaunch
<1> DEFINE T == OwnSites(c, x, answer)
<1>2. T \in SUBSET Sites /\ T \subseteq OnSites(c)
  BY DEF OwnSites, OnSites
<1>3. \A s, t \in T : c[s].port = c[t].port => s = t
  BY <1>2, TwoShare DEF OwnSites
<1>4. \A s \in OnSites(c) \ BadSites : OwnPortIn(c, s) => s \in T
  <2> SUFFICES ASSUME NEW s \in OnSites(c) \ BadSites, OwnPortIn(c, s) PROVE s \in T
    OBVIOUS
  <2>1. s \in Sites \ BadSites /\ answer[s] \in GetSharedPort(c)
    BY DEF OnSites
  <2> QED
    BY <2>1, OwnIsNotShared DEF OwnSites
<1>5. \A s \in OnSites(c) : c[s].port \in Ports
  BY DEF OnSites, SitesConfig, SiteConfig
<1> HIDE DEF T
<1>6. /\ r \in Net /\ AllKnown(r)
      /\ \A p \in Ports : ~Empty(r, p) <=> \E s \in T : c[s].port = p
  BY <1>1, <1>2, <1>3, StopPortSitesKnown, StopPortSitesNet, LaunchAllKnown DEF T
<1> QED
  BY <1>2, <1>4, <1>5, <1>6

LEMMA StartSharedPortKnown ==
  ASSUME NEW nt \in Net, AllKnown(nt), NEW c, NEW r \in StartSharedPort(nt, c)
  PROVE  AllKnown(r) /\ r.ports = nt.ports
<1> DEFINE m == StopSharedPort(nt)
<1>0. m \in Net /\ AllKnown(m) /\ m.ports = nt.ports /\ m.shared = NoServer
  BY StopSharedPortFields, StopSharedPortKnown
<1>1. CASE r = m
  BY <1>0, <1>1
<1>2. CASE \E x \in GetSharedPort(c) \ {0}, n \in {k \in Unused(m) : m.go < MaxGo} :
             r = LaunchShared(m, n, x)
  <2>1. PICK x \in Ports, n \in Unused(m) : r = LaunchShared(m, n, x)
    BY <1>2, SharedPortTyped
  <2>2. n \in Servers
    BY <1>0, UnusedIsNew
  <2> HIDE DEF m
  <2>3. /\ r.ports = m.ports /\ r.shared = n
        /\ r.srv = [m.srv EXCEPT ![n] = Starting(x)]
    BY <1>0, <2>1 DEF LaunchShared, Net
  <2>4. \A j \in Servers \ {n} : r.srv[j] = m.srv[j]
    BY <1>0, <2>3, NetFields
  <2>5. ASSUME NEW j \in Servers, Lives(r, j) PROVE Registered(r, j)
    <3>1. CASE j = n
      BY <2>3, <3>1 DEF Registered
    <3>2. CASE j # n
      <4>1. Registered(m, j) /\ r.srv[j] = m.srv[j]
        BY <1>0, <2>4, <2>5, <3>2 DEF Lives, AllKnown
      <4>2. j # m.shared
        BY <1>0, SiteServiceAssumption
      <4> QED
        BY <2>3, <4>1, <4>2 DEF Registered
    <3> QED
      BY <3>1, <3>2
  <2> QED
    BY <1>0, <2>3, <2>5 DEF AllKnown
<1> QED
  BY <1>1, <1>2 DEF StartSharedPort

LEMMA StartAllKnown ==
  ASSUME NEW nt \in Net, AllKnown(nt), NEW c \in SitesConfig, OnePort(c),
         NEW r \in StartAll(nt, c)
  PROVE  /\ AllKnown(r)
         /\ \A p \in Ports : ~Empty(r, p) => \E s \in OnSites(c) : c[s].port = p
         /\ \A s \in OnSites(c) \ BadSites : OwnPortIn(c, s) => ~Empty(r, c[s].port)
<1>1. PICK k \in StartPortSites(nt, c) : r \in StartSharedPort(k, c)
  BY DEF StartAll
<1>2. /\ k \in Net /\ AllKnown(k)
      /\ \A p \in Ports : ~Empty(k, p) => \E s \in OnSites(c) : c[s].port = p
      /\ \A s \in OnSites(c) \ BadSites : OwnPortIn(c, s) => ~Empty(k, c[s].port)
  BY <1>1, StartPortSitesKnown
<1>3. AllKnown(r) /\ r.ports = k.ports
  BY <1>1, <1>2, StartSharedPortKnown
<1> QED
  BY <1>2, <1>3 DEF Empty

(***************************************************************************)
(* The inductive invariant of orderly use.  A request that enables a site  *)
(* has changed the configuration before it starts the listener, one that   *)
(* disables it before it stops it: an entry of portServers is that of a    *)
(* site that was enabled when the request began.                           *)
(***************************************************************************)
WasOn(s) == IF s \in hreq.todo THEN hreq.op = "disable" ELSE mem[mgrCM][s].st = "on"

Backed == \A p \in Ports : ~Empty(net, p) => \E s \in Sites : mem[mgrCM][s].port = p /\ WasOn(s)

Down == Halfway => \A p \in Ports : ~Empty(net, p) => ~Lives(net, net.ports[p])

Resting == svc \in {"idle", "ftpSync"}

Listening ==
  /\ ~Resting => ~sitesRunning
  /\ sitesRunning => \A s \in OnSites(mem[mgrCM]) \ (BadSites \cup hreq.todo) :
                       OwnPortIn(mem[mgrCM], s) => ~Empty(net, mem[mgrCM][s].port)

OrderInv == Orderly => AllKnown(net) /\ Backed /\ Down /\ Listening

OrderNext == CalmNext /\ Orderly /\ AllKnown(net) /\ Backed /\ Down /\ Listening

OrderAfter == AllKnown(net') /\ Backed' /\ Down' /\ Listening'

LEMMA OrderlyCalm == Orderly => Calm
BY DEF Orderly, Calm

LEMMA OrderlyPorts ==
  ASSUME Orderly, NEW c \in SitesConfig, \A s \in Sites : c[s].port = mem[mgrCM][s].port
  PROVE  OnePort(c)
<1>1. ASSUME NEW p \in SharedCandidates(c) PROVE p \in Ports /\ MightBeShared(p)
  BY <1>1 DEF SharedCandidates, MightBeShared, SamePort, Manager, OnSites
<1> QED
  BY <1>1 DEF Orderly, OnePort

LEMMA OrderlyApart ==
  ASSUME Orderly, NEW s \in Sites, NEW t \in Sites, s # t, mem[mgrCM][s].port = mem[mgrCM][t].port
  PROVE  env.overlap = "none"
BY DEF Orderly, SamePort, Manager

\* startSitePort for a site that is enabled.
LEMMA StartSitePortKnown ==
  ASSUME NEW nt \in Net, AllKnown(nt), NEW c \in SitesConfig, OnePort(c),
         NEW s \in OnSites(c),
         ~Empty(nt, c[s].port) => \E t \in OnSites(c) : t # s /\ c[t].port = c[s].port,
         NEW r \in StartSitePort(nt, c, s, c[s].port)
  PROVE  /\ AllKnown(r)
         /\ \A q \in Ports : q # c[s].port => r.ports[q] = nt.ports[q]
         /\ ~Empty(nt, c[s].port) => ~Empty(r, c[s].port)
         /\ s \notin BadSites /\ OwnPortIn(c, s) => ~Empty(r, c[s].port)
<1>0. c[s].port \in Ports /\ s \in Sites
  BY DEF OnSites, SitesConfig, SiteConfig
<1>1. CASE r = nt /\ \E y \in GetSharedPort(c) : ~GetsOwnPort(s, c[s].port, y)
  BY <1>0, <1>1, OwnIsNotShared
<1>2. CASE \E n \in Unused(nt), y \in GetSharedPort(c) :
             GetsOwnPort(s, c[s].port, y) /\ r = Launch(nt, n, c[s].port)
  <2>1. PICK n \in Unused(nt), y \in GetSharedPort(c) :
          GetsOwnPort(s, c[s].port, y) /\ r = Launch(nt, n, c[s].port)
    BY <1>2
  <2>2. Empty(nt, c[s].port)
    BY <2>1, TwoShare
  <2> QED
    BY <1>0, <2>1, <2>2, LaunchKnown
<1> QED
  BY <1>1, <1>2 DEF StartSitePort

\* The listeners that must be there, after a step that keeps every port.
LEMMA SameOwnPorts ==
  ASSUME PortsKept, NEW s \in Sites
  PROVE  OwnPortIn(mem'[mgrCM'], s) <=> OwnPortIn(mem[mgrCM], s)
BY DEF PortsKept, OwnPortIn

\* One site is started or stopped: the other sites are as they were.
Only(s) ==
  /\ svc = "idle" /\ UNCHANGED <<mgrCM, svc, sitesRunning>>
  /\ \A t \in Sites \ {s} : /\ mem'[mgrCM][t] = mem[mgrCM][t]
                            /\ t \in hreq'.todo <=> t \in hreq.todo
                            /\ t \in hreq.todo => hreq'.op = hreq.op

LEMMA StopKeepsOrder ==
  ASSUME OrderNext, CalmAfter, NEW s \in Sites, Only(s),
         net' = StopSitePort(net, mem[mgrCM][s].port),
         mem'[mgrCM][s].st # "on"
  PROVE  OrderAfter
<1> DEFINE p == mem[mgrCM][s].port
<1>0. net \in Net /\ p \in Ports /\ \A t \in Sites : mem[mgrCM][t].port \in Ports
  BY DEF OrderNext, CalmNext, DiskInv, Inv, TypeOK, SitesConfig, SiteConfig
<1>1. /\ AllKnown(net') /\ Empty(net', p)
      /\ \A q \in Ports \ {p} : net'.ports[q] = net.ports[q]
  BY <1>0, StopSitePortKnown DEF OrderNext
<1>2. \A q \in Ports \ {p} : Empty(net', q) <=> Empty(net, q)
  BY <1>1 DEF Empty
<1>3. \A t \in Sites \ {s} : WasOn(t) => WasOn(t)'
  BY DEF WasOn, Only
<1>4. ASSUME NEW q \in Ports, ~Empty(net', q)
      PROVE  \E t \in Sites : mem'[mgrCM'][t].port = q /\ WasOn(t)'
  <2>1. q # p /\ ~Empty(net, q)
    BY <1>1, <1>2, <1>4
  <2>2. PICK t \in Sites : mem[mgrCM][t].port = q /\ WasOn(t)
    BY <2>1 DEF OrderNext, Backed
  <2> QED
    BY <1>3, <2>1, <2>2 DEF CalmAfter, PortsKept
<1>5. Backed'
  BY <1>4 DEF Backed, Empty
<1>6. Down'
  BY DEF Down, Halfway, Only
<1>7. ASSUME sitesRunning', NEW t \in OnSites(mem'[mgrCM']) \ (BadSites \cup hreq'.todo),
             OwnPortIn(mem'[mgrCM'], t)
      PROVE  ~Empty(net', mem'[mgrCM'][t].port)
  <2>1. t # s /\ t \in Sites
    BY <1>7 DEF OnSites, Only
  <2>2. /\ t \in OnSites(mem[mgrCM]) \ (BadSites \cup hreq.todo)
        /\ OwnPortIn(mem[mgrCM], t) /\ sitesRunning
    BY <1>7, <2>1, SameOwnPorts DEF OnSites, Only, CalmAfter
  <2>3. mem[mgrCM][t].port # p /\ ~Empty(net, mem[mgrCM][t].port)
    BY <2>1, <2>2 DEF OwnPortIn, OrderNext, Listening
  <2> QED
    BY <1>0, <1>2, <2>1, <2>3 DEF CalmAfter, PortsKept
<1>8. Listening'
  BY <1>7 DEF Listening, Resting, Only, Empty
<1> QED
  BY <1>1, <1>5, <1>6, <1>8 DEF OrderAfter

\* No other enabled site has the entry of the port where a site is started.
LEMMA StartKeepsOrder ==
  ASSUME OrderNext, CalmAfter, TypeOK', NEW s \in Sites, Only(s), ~WasOn(s), s \notin hreq'.todo,
         \/ hreq.op = "enable"
         \/ s \notin hreq.todo /\ (env.overlap = "none" => hreq.todo = {}),
         net' \in StartSitePort(net, mem'[mgrCM], s, mem[mgrCM][s].port),
         mem'[mgrCM][s].st = "on"
  PROVE  OrderAfter
<1> DEFINE p == mem[mgrCM][s].port
           c == mem'[mgrCM]
<1>0. /\ net \in Net /\ p \in Ports /\ c[s].port = p /\ c \in SitesConfig
      /\ \A t \in Sites : mem[mgrCM][t].port \in Ports /\ c[t].port = mem[mgrCM][t].port
      /\ s \in OnSites(c)
  <2>1. TypeOK
    BY DEF OrderNext, CalmNext, DiskInv, Inv
  <2> QED
    BY <2>1 DEF TypeOK, SitesConfig, SiteConfig, CalmAfter, PortsKept, Only, OnSites
<1>1. OnePort(c)
  BY <1>0, OrderlyPorts DEF OrderNext
<1>2. ASSUME ~Empty(net, p) PROVE \E t \in OnSites(c) : t # s /\ c[t].port = p
  <2>1. PICK t \in Sites : mem[mgrCM][t].port = p /\ WasOn(t)
    BY <1>0, <1>2 DEF OrderNext, Backed
  <2>2. t # s /\ env.overlap = "none"
    BY <2>1, OrderlyApart DEF OrderNext
  <2>3. mem[mgrCM][t].st = "on"
    BY <2>1, <2>2 DEF WasOn
  <2> QED
    BY <1>0, <2>1, <2>2, <2>3 DEF OnSites, Only
<1> HIDE DEF c, p
<1>3. /\ AllKnown(net')
      /\ \A q \in Ports : q # p => net'.ports[q] = net.ports[q]
      /\ s \notin BadSites /\ OwnPortIn(c, s) => ~Empty(net', p)
  <2>1. net' \in StartSitePort(net, c, s, c[s].port)
    BY <1>0 DEF c, p
  <2>2. AllKnown(net)
    BY DEF OrderNext
  <2> QED
    BY <1>0, <1>1, <1>2, <2>1, <2>2, StartSitePortKnown
<1>4. \A q \in Ports \ {p} : Empty(net', q) <=> Empty(net, q)
  BY <1>3 DEF Empty
<1>5. /\ \A t \in Sites \ {s} : WasOn(t) => WasOn(t)'
      /\ WasOn(s)'
  BY DEF WasOn, Only
<1>6. ASSUME NEW q \in Ports, ~Empty(net', q)
      PROVE  \E t \in Sites : mem'[mgrCM'][t].port = q /\ WasOn(t)'
  <2>1. CASE q = p
    BY <1>0, <1>5, <2>1 DEF c, Only
  <2>2. CASE q # p
    <3>1. PICK t \in Sites : mem[mgrCM][t].port = q /\ WasOn(t)
      BY <1>4, <1>6, <2>2 DEF OrderNext, Backed
    <3>2. t # s
      BY <2>2, <3>1 DEF p
    <3> QED
      BY <1>5, <3>1, <3>2 DEF CalmAfter, PortsKept
  <2> QED
    BY <2>1, <2>2
<1>7. Backed'
  BY <1>6 DEF Backed, Empty
<1>8. Down'
  BY DEF Down, Halfway, Only
<1>9. ASSUME sitesRunning', NEW t \in OnSites(mem'[mgrCM']) \ (BadSites \cup hreq'.todo),
             OwnPortIn(mem'[mgrCM'], t)
      PROVE  ~Empty(net', mem'[mgrCM'][t].port)
  <2>0. t \in Sites /\ t \notin BadSites /\ mgrCM' = mgrCM
    BY DEF OnSites, Only
  <2>1. CASE t = s
    BY <1>0, <1>3, <1>9, <2>0, <2>1 DEF c
  <2>2. CASE t # s
    <3>1. /\ t \in OnSites(mem[mgrCM]) \ (BadSites \cup hreq.todo)
          /\ OwnPortIn(mem[mgrCM], t) /\ sitesRunning
      BY <1>9, <2>0, <2>2, SameOwnPorts DEF OnSites, Only, CalmAfter
    <3>2. mem[mgrCM][t].port # p /\ ~Empty(net, mem[mgrCM][t].port)
      BY <2>0, <2>2, <3>1 DEF OwnPortIn, OrderNext, Listening, p
    <3> QED
      BY <1>0, <1>4, <2>0, <3>2 DEF CalmAfter, PortsKept
  <2> QED
    BY <2>1, <2>2
<1>10. Listening'
  BY <1>9 DEF Listening, Resting, Only, Empty
<1> QED
  BY <1>3, <1>7, <1>8, <1>10 DEF OrderAfter

\* Nothing but the listeners and the stage of the service changes.
LEMMA SameKeepsOrder ==
  ASSUME OrderNext, CalmAfter, mem'[mgrCM'] = mem[mgrCM], hreq'.todo = hreq.todo,
         hreq.todo # {} => hreq'.op = hreq.op,
         UNCHANGED <<net, sitesRunning>>, Resting, Resting'
  PROVE  OrderAfter
<1>1. \A t \in Sites : WasOn(t)' <=> WasOn(t)
  BY DEF WasOn
<1>2. Backed'
  BY <1>1 DEF Backed, Empty, OrderNext
<1>3. AllKnown(net')
  BY DEF OrderNext
<1>4. Down'
  BY DEF Down, Resting, Halfway
<1>5. Listening'
  BY DEF Listening, Empty, OrderNext
<1> QED
  BY <1>2, <1>3, <1>4, <1>5 DEF OrderAfter

LEMMA BeginKeepsOrder ==
  ASSUME OrderNext, NEW op \in {"create", "update", "delete", "enable", "disable"},
         NEW S \in (SUBSET Sites) \ {{}}, NEW cfg, BeginRequest(op, S, cfg)
  PROVE  OrderAfter
<1>1. /\ CalmAfter /\ op \in {"enable", "disable"}
      /\ svc = "idle" /\ UNCHANGED <<mgrCM, net, svc, sitesRunning>>
      /\ hreq.todo = {} /\ hreq'.todo = S /\ hreq'.op = op
      /\ \A s \in Sites \ S : mem'[mgrCM][s] = mem[mgrCM][s]
      /\ op = "enable" => \A s \in S : mem[mgrCM][s].st = "off"
  BY BeginCalm DEF OrderNext
<1>2. \A s \in Sites : WasOn(s) => WasOn(s)'
  BY <1>1 DEF WasOn
<1>3. Backed'
  BY <1>1, <1>2 DEF OrderNext, Backed, Empty, CalmAfter, PortsKept
<1>4. AllKnown(net') /\ Down'
  BY <1>1 DEF OrderNext, Down, Halfway
<1>5. ASSUME sitesRunning', NEW t \in OnSites(mem'[mgrCM']) \ (BadSites \cup hreq'.todo),
             OwnPortIn(mem'[mgrCM'], t)
      PROVE  ~Empty(net', mem'[mgrCM'][t].port)
  <2>1. t \in Sites \ S
    BY <1>1, <1>5 DEF OnSites
  <2>2. OwnPortIn(mem[mgrCM], t)
    BY <1>1, <1>5, <2>1, SameOwnPorts DEF CalmAfter
  <2>3. t \in OnSites(mem[mgrCM]) \ (BadSites \cup hreq.todo)
    BY <1>1, <1>5, <2>1 DEF OnSites
  <2>4. ~Empty(net, mem[mgrCM][t].port)
    BY <1>1, <1>5, <2>2, <2>3 DEF OrderNext, Listening
  <2> QED
    BY <1>1, <2>1, <2>4
<1>6. Listening'
  BY <1>1, <1>5 DEF Listening, Resting, Empty
<1> QED
  BY <1>3, <1>4, <1>6 DEF OrderAfter

LEMMA ApplyKeepsOrder ==
  ASSUME OrderNext, TypeOK', NEW s \in Sites, ApplyRequest(s)
  PROVE  OrderAfter
<1>1. /\ CalmAfter /\ svc = "idle" /\ s \in hreq.todo
      /\ UNCHANGED <<mem, panelCM, mgrCM, svc, sitesRunning>>
      /\ hreq'.todo = hreq.todo \ {s}
      /\ hreq.op \in {"enable", "disable"}
      /\ hreq'.todo # {} => hreq'.op = hreq.op
      /\ \/ hreq.op = "enable" /\ AddSiteRuntime(s, mem[mgrCM][s])
         \/ hreq.op = "disable" /\ DeleteSiteRuntime(s)
  BY ApplyCalm DEF OrderNext
<1>2. Only(s)
  BY <1>1 DEF Only
<1>3. mem[mgrCM][s].st = IF hreq.op = "enable" THEN "on" ELSE "off"
  BY <1>1 DEF OrderNext, CalmNext, Toggling
<1>4. CASE hreq.op = "disable"
  <2>1. net' = StopSitePort(net, mem[mgrCM][s].port)
    BY <1>1, <1>3, <1>4 DEF DeleteSiteRuntime
  <2> QED
    BY <1>1, <1>2, <1>3, <1>4, <2>1, StopKeepsOrder
<1>5. CASE hreq.op = "enable" /\ s \notin BadSites
  <2>1. net' \in StartSitePort(net, mem'[mgrCM], s, mem[mgrCM][s].port)
    BY <1>1, <1>3, <1>5 DEF AddSiteRuntime
  <2>2. ~WasOn(s) /\ s \notin hreq'.todo /\ mem'[mgrCM][s].st = "on"
    BY <1>1, <1>3, <1>5 DEF WasOn
  <2> QED
    BY <1>1, <1>2, <1>5, <2>1, <2>2, StartKeepsOrder
<1>6. CASE hreq.op = "enable" /\ s \in BadSites
  <2>1. net' = net
    BY <1>1, <1>6 DEF AddSiteRuntime
  <2>2. \A t \in Sites : WasOn(t) => WasOn(t)'
    BY <1>1, <1>3, <1>6 DEF WasOn
  <2>3. Backed'
    BY <1>1, <2>1, <2>2 DEF OrderNext, Backed, Empty
  <2>4. AllKnown(net') /\ Down'
    BY <1>1, <2>1 DEF OrderNext, Down, Halfway
  <2>5. Listening'
    BY <1>1, <1>6, <2>1 DEF OrderNext, Listening, Resting, Empty, OnSites
  <2> QED
    BY <2>3, <2>4, <2>5 DEF OrderAfter
<1> QED
  BY <1>1, <1>4, <1>5, <1>6

\* StartSite, and the second half of RestartSite
LEMMA StartBodyKeepsOrder ==
  ASSUME OrderNext, CalmAfter, TypeOK', NEW s \in Sites, StartSiteBody(s), s \notin hreq.todo,
         UNCHANGED <<mgrCM, hreq, svc, sitesRunning>>, svc = "idle",
         env.overlap = "none" => hreq.todo = {}
  PROVE  OrderAfter
<1>1. CASE UNCHANGED <<mem, disk, net>>
  BY <1>1, SameKeepsOrder DEF Resting
<1>2. CASE /\ mem[mgrCM][s].st = "off" /\ SetState(s, "on")
           /\ net' \in StartSitePort(net, mem'[mgrCM], s, mem[mgrCM][s].port)
  <2>0. TypeOK /\ mem[mgrCM][s] \in SiteConfig
    BY DEF OrderNext, CalmNext, DiskInv, Inv, TypeOK, SitesConfig
  <2>1. /\ mem'[mgrCM][s] = [mem[mgrCM][s] EXCEPT !.st = "on"]
        /\ \A t \in Sites \ {s} : mem'[mgrCM][t] = mem[mgrCM][t]
    BY <1>2, <2>0, SetStateEffect, ToggleStates
  <2>2. Only(s) /\ mem'[mgrCM][s].st = "on" /\ ~WasOn(s)
    BY <1>2, <2>0, <2>1 DEF Only, SiteConfig, WasOn
  <2> QED
    BY <1>2, <2>2, StartKeepsOrder
<1> QED
  BY <1>1, <1>2 DEF StartSiteBody, Manager

LEMMA StopBodyKeepsOrder ==
  ASSUME OrderNext, CalmAfter, NEW s \in Sites, StopSiteBody(s),
         UNCHANGED <<mgrCM, hreq, svc, sitesRunning>>, svc = "idle"
  PROVE  OrderAfter
<1>1. CASE UNCHANGED <<mem, disk, net>>
  BY <1>1, SameKeepsOrder DEF Resting
<1>2. CASE SetState(s, "off") /\ net' = StopSitePort(net, mem[mgrCM][s].port)
  <2>0. TypeOK /\ mem[mgrCM][s] \in SiteConfig
    BY DEF OrderNext, CalmNext, DiskInv, Inv, TypeOK, SitesConfig
  <2>1. /\ mem'[mgrCM][s] = [mem[mgrCM][s] EXCEPT !.st = "off"]
        /\ \A t \in Sites \ {s} : mem'[mgrCM][t] = mem[mgrCM][t]
    BY <1>2, <2>0, SetStateEffect, ToggleStates
  <2>2. Only(s) /\ mem'[mgrCM][s].st # "on"
    BY <2>0, <2>1 DEF Only, SiteConfig
  <2> QED
    BY <1>2, <2>2, StopKeepsOrder
<1> QED
  BY <1>1, <1>2 DEF StopSiteBody, Manager

\* Every listener is started anew.
LEMMA StartAllKeepsOrder ==
  ASSUME OrderNext, CalmAfter, mem'[mgrCM'] = mem[mgrCM], UNCHANGED hreq, hreq.todo = {},
         net' \in StartAll(net, mem[mgrCM]), Resting'
  PROVE  OrderAfter
<1> DEFINE c == mem[mgrCM]
<1>0. net \in Net /\ c \in SitesConfig /\ AllKnown(net)
  BY DEF OrderNext, CalmNext, DiskInv, Inv, TypeOK
<1>1. OnePort(c)
  BY <1>0, OrderlyPorts DEF OrderNext
<1>2. /\ AllKnown(net')
      /\ \A p \in Ports : ~Empty(net', p) => \E s \in OnSites(c) : c[s].port = p
      /\ \A s \in OnSites(c) \ BadSites : OwnPortIn(c, s) => ~Empty(net', c[s].port)
  <2> HIDE DEF c
  <2> QED
    BY <1>0, <1>1, StartAllKnown DEF c
<1>3. \A s \in OnSites(c) : s \in Sites /\ WasOn(s)'
  BY DEF WasOn, OnSites
<1>4. Backed'
  BY <1>2, <1>3 DEF Backed, Empty
<1>5. Listening'
  BY <1>2 DEF Listening, Resting, Empty
<1>6. Down'
  BY DEF Down, Resting, Halfway
<1> QED
  BY <1>2, <1>4, <1>5, <1>6 DEF OrderAfter

LEMMA StartServiceKeepsOrder ==
  ASSUME OrderNext, CalmAfter, UNCHANGED <<mem, mgrCM, hreq>>, hreq.todo = {},
         StartSitesServerBody, Resting', Resting \/ svc = "restartSleep"
  PROVE  OrderAfter
<1>1. CASE net' \in StartAll(net, mem[mgrCM])
  BY <1>1, StartAllKeepsOrder
<1>2. CASE UNCHANGED <<net, sitesRunning>>
  <2>1. Backed'
    BY <1>2 DEF OrderNext, Backed, Empty, WasOn
  <2>2. Listening'
    BY <1>2 DEF OrderNext, Listening, Resting, Empty
  <2>3. Down' /\ AllKnown(net')
    BY <1>2 DEF OrderNext, Down, Resting, Halfway
  <2> QED
    BY <2>1, <2>2, <2>3 DEF OrderAfter
<1> QED
  BY <1>1, <1>2 DEF StartSitesServerBody, Manager

LEMMA ServiceKeepsOrder ==
  ASSUME OrderNext, ServiceStep
  PROVE  OrderAfter
<1>0. /\ CalmAfter /\ hreq.todo = {}
      /\ UNCHANGED <<mem, mgrCM, hreq>> /\ net \in Net
  BY ServiceCalm DEF OrderNext, CalmNext, DiskInv, Inv, TypeOK
<1>1. CASE StartSitesServer
  <2>1. svc = "idle" /\ svc' = svc /\ StartSitesServerBody
    <3>1. Sites \in SUBSET Sites
      OBVIOUS
    <3> QED
      BY <1>1, <3>1, CalmTouch DEF StartSitesServer, MayTouchAll, OrderNext
  <2> QED
    BY <1>0, <2>1, StartServiceKeepsOrder DEF Resting
<1>2. CASE FinishServiceRestart
  <2>1. svc = "restartSleep" /\ svc' = "idle" /\ StartSitesServerBody
    BY <1>2 DEF FinishServiceRestart
  <2> QED
    BY <1>0, <2>1, StartServiceKeepsOrder DEF Resting
<1>3. CASE StopSitesServer \/ RestartSitesServer
  <2>1. /\ svc' \in {"stopClose", "restartClose", "restartSleep"}
        /\ sitesRunning' = FALSE /\ UNCHANGED net
    BY <1>3 DEF StopSitesServer, RestartSitesServer
  <2>2. Backed' /\ Listening'
    BY <1>0, <2>1 DEF OrderNext, Backed, Empty, WasOn, Listening
  <2>3. Down' /\ AllKnown(net')
    BY <2>1 DEF OrderNext, Down, Halfway
  <2> QED
    BY <2>2, <2>3 DEF OrderAfter
<1>4. CASE CloseServices
  <2> DEFINE srv == CloseServers(net.srv, Range(net.ports))
  <2>1. /\ svc \in {"stopClose", "restartClose"} /\ UNCHANGED sitesRunning
        /\ net' = [net EXCEPT !.srv = srv]
    BY <1>4 DEF CloseServices
  <2>2. ~sitesRunning'
    BY <2>1 DEF OrderNext, Listening, Resting
  <2>3. srv \in [Servers -> ServerRec]
    BY <1>0, NetFields, Closing
  <2>4. net'.srv = srv /\ net'.ports = net.ports /\ net'.shared = net.shared
    <3> HIDE DEF srv
    <3> QED
      BY <1>0, <2>1, <2>3, SetSrv
  <2>5. ASSUME NEW n \in Servers, Lives(net', n) PROVE Registered(net', n)
    <3>1. n \notin Range(net.ports)
      BY <1>0, <2>4, <2>5, NetFields, ClosedIsDown DEF Lives
    <3>2. srv[n] = net.srv[n]
      BY <1>0, <3>1, NetFields, Closing
    <3> QED
      BY <2>4, <2>5, <3>2 DEF OrderNext, AllKnown, Registered, Lives
  <2>6. ASSUME NEW p \in Ports, ~Empty(net', p) PROVE ~Lives(net', net'.ports[p])
    <3>1. net.ports[p] \in Servers /\ net.ports[p] \in Range(net.ports)
      BY <1>0, <2>4, <2>6, NetFields DEF Empty, Range
    <3> QED
      BY <1>0, <2>4, <3>1, NetFields, ClosedIsDown DEF Lives
  <2> HIDE DEF srv
  <2>7. Down' /\ AllKnown(net')
    BY <2>5, <2>6 DEF Down, AllKnown, Empty, Lives
  <2>8. Backed' /\ Listening'
    BY <1>0, <2>2, <2>4 DEF OrderNext, Backed, Empty, WasOn, Listening
  <2> QED
    BY <2>7, <2>8 DEF OrderAfter
<1>5. CASE ResetServices
  <2> DEFINE ports == [p \in Ports |-> NoServer]
             m == [net EXCEPT !.ports = ports]
  <2>1. /\ svc \in {"stopReset", "restartReset"} /\ UNCHANGED sitesRunning
        /\ svc' \in {"idle", "restartSleep"}
        /\ net' = StopSharedPort(m)
    BY <1>5 DEF ResetServices
  <2>2. ~sitesRunning'
    BY <2>1 DEF OrderNext, Listening, Resting
  <2>3. /\ m \in Net /\ m.ports = ports /\ m.srv = net.srv /\ m.shared = net.shared
    BY <1>0, SetPorts
  <2>4. ASSUME NEW n \in Servers, Lives(m, n) PROVE Registered(m, n)
    <3>1. Lives(net, n) /\ net.srv[n].port \in Ports
      BY <1>0, <2>3, <2>4, NetFields DEF Lives, ServerRec
    <3>2. Registered(net, n)
      BY <3>1 DEF OrderNext, AllKnown
    <3>3. net.ports[net.srv[n].port] # n
      BY <2>1, <3>1, SiteServiceAssumption DEF OrderNext, Down, Halfway, Empty
    <3> QED
      BY <2>3, <3>2, <3>3 DEF Registered
  <2>5. \A p \in Ports : m.ports[p] = NoServer
    BY <2>3
  <2> HIDE DEF m
  <2>6. AllKnown(net') /\ net'.ports = m.ports
    BY <2>1, <2>3, <2>4, StopSharedPortKnown DEF AllKnown
  <2>7. \A p \in Ports : Empty(net', p)
    BY <2>5, <2>6 DEF Empty
  <2>8. Backed' /\ Down'
    BY <2>7 DEF Backed, Down, Empty
  <2>9. Listening'
    BY <2>1, <2>2 DEF Listening, Resting
  <2> QED
    BY <2>6, <2>8, <2>9 DEF OrderAfter
<1> QED
  BY <1>1, <1>2, <1>3, <1>4, <1>5 DEF ServiceStep

(***************************************************************************)
(* The goroutines.  None brings a server back to life.                     *)
(***************************************************************************)
Advanced(nt, r) ==
  /\ r.ports = nt.ports /\ r.shared = nt.shared
  /\ \A n \in Servers : /\ r.srv[n].port = nt.srv[n].port
                        /\ Lives(r, n) => Lives(nt, n)

LEMMA SetStateAdvances ==
  ASSUME NEW nt \in Net, NEW n \in Servers, NEW st \in ServerState,
         st \in {"starting", "binding", "serving"} => Lives(nt, n)
  PROVE  Advanced(nt, [nt EXCEPT !.srv[n].st = st])
<1> DEFINE srv == [nt.srv EXCEPT ![n] = [nt.srv[n] EXCEPT !.st = st]]
           r == [nt EXCEPT !.srv = srv]
<1>0. nt.srv \in [Servers -> ServerRec]
  BY NetFields
<1>1. srv \in [Servers -> ServerRec]
  BY <1>0 DEF ServerRec
<1>2. /\ \A m \in Servers \ {n} : srv[m] = nt.srv[m]
      /\ srv[n].st = st /\ srv[n].port = nt.srv[n].port
  BY <1>0 DEF ServerRec
<1> HIDE DEF srv
<1>3. r.srv = srv /\ r.ports = nt.ports /\ r.shared = nt.shared
  BY <1>1, SetSrv
<1> HIDE DEF r
<1>4. Advanced(nt, r)
  BY <1>2, <1>3 DEF Advanced, Lives
<1> QED
  BY <1>4 DEF r, srv

LEMMA ListenedAdvances ==
  ASSUME NEW nt \in Net, NEW n \in Servers, nt.srv[n].st = "starting"
  PROVE  Advanced(nt, Listened(nt, n))
<1> DEFINE st == IF PortTaken(nt, nt.srv[n].port) THEN "failed" ELSE "binding"
<1>1. st \in ServerState /\ Lives(nt, n)
  BY DEF ServerState, Lives
<1>2. Listened(nt, n) = [nt EXCEPT !.srv[n].st = st]
  BY Zenon DEF Listened
<1> HIDE DEF st
<1> QED
  BY <1>1, <1>2, SetStateAdvances

LEMMA AdvanceKeepsOrder ==
  ASSUME OrderNext, CalmAfter, UNCHANGED <<mem, mgrCM, hreq, svc, sitesRunning>>,
         Advanced(net, net')
  PROVE  OrderAfter
<1>0. net \in Net
  BY DEF OrderNext, CalmNext, DiskInv, Inv, TypeOK
<1>1. AllKnown(net')
  BY DEF OrderNext, Advanced, AllKnown, Registered
<1>2. \A p \in Ports : ~Empty(net', p) => net'.ports[p] \in Servers
  BY <1>0, NetFields DEF Advanced, Empty
<1>3. Down'
  BY <1>0, <1>2 DEF OrderNext, Advanced, Down, Halfway, Empty, Lives
<1>4. Backed' /\ Listening'
  BY DEF OrderNext, Advanced, Backed, Empty, WasOn, Listening, Resting
<1> QED
  BY <1>1, <1>3, <1>4 DEF OrderAfter

LEMMA GoroutineKeepsOrder ==
  ASSUME OrderNext, Goroutine \/ MapRace \/ UNCHANGED vars
  PROVE  OrderAfter
<1>0. CalmAfter /\ UNCHANGED <<mem, mgrCM, hreq, svc, sitesRunning>>
  BY OthersCalm DEF OrderNext
<1>1. net \in Net
  BY DEF OrderNext, CalmNext, DiskInv, Inv, TypeOK
<1>2. ASSUME NEW n \in Servers, Listen(n) PROVE Advanced(net, net')
  BY <1>1, <1>2, ListenedAdvances DEF Listen
<1>3. ASSUME NEW n \in Servers, Serve(n) PROVE Advanced(net, net')
  <2> DEFINE st == IF net.srv[n].st = "binding" THEN "serving" ELSE "free"
  <2>1. net' = [net EXCEPT !.srv[n].st = st] /\ net.srv[n].st \in {"binding", "closing"}
    BY <1>3 DEF Serve
  <2>2. st \in ServerState /\ (st \in {"starting", "binding", "serving"} => Lives(net, n))
    BY <2>1 DEF ServerState, Lives
  <2> HIDE DEF st
  <2> QED
    BY <1>1, <2>1, <2>2, SetStateAdvances
<1>4. ASSUME SharedListen PROVE Advanced(net, net')
  <2> DEFINE run == [net EXCEPT !.go = @ - 1]
  <2>1. /\ run \in Net /\ run.srv = net.srv /\ run.ports = net.ports
        /\ run.shared = net.shared
    <3>1. net.go > 0 /\ net.go - 1 \in 0..MaxGo
      BY <1>1, <1>4, NetFields, SiteServiceAssumption DEF SharedListen
    <3> QED
      BY <1>1, <3>1 DEF Net
  <2>2. \/ net' = run
        \/ net' = Listened(run, net.shared) /\ net.shared # NoServer
             /\ net.srv[net.shared].st = "starting"
    BY <1>4 DEF SharedListen
  <2>3. Advanced(net, run)
    BY <2>1 DEF Advanced, Lives
  <2> HIDE DEF run
  <2>4. ASSUME net' = Listened(run, net.shared), net.shared # NoServer,
               net.srv[net.shared].st = "starting"
        PROVE  Advanced(net, net')
    <3>1. net.shared \in Servers
      BY <1>1, <2>4, NetFields
    <3>2. Advanced(run, net')
      BY <2>1, <2>4, <3>1, ListenedAdvances
    <3> QED
      BY <2>3, <3>2 DEF Advanced
  <2> QED
    BY <2>2, <2>3, <2>4
<1>5. ASSUME MapRace \/ UNCHANGED vars PROVE Advanced(net, net')
  BY <1>5 DEF MapRace, vars, Advanced, Lives
<1>6. Advanced(net, net')
  BY <1>2, <1>3, <1>4, <1>5 DEF Goroutine
<1> QED
  BY <1>0, <1>6, AdvanceKeepsOrder

LEMMA OrderStep == OrderNext /\ TypeOK' /\ [Next]_vars => OrderAfter
<1> SUFFICES ASSUME OrderNext, TypeOK', [Next]_vars PROVE OrderAfter
  OBVIOUS
<1>0. CalmNext
  BY DEF OrderNext
<1>1. CASE Toggle
  BY <1>1, BeginKeepsOrder DEF Toggle
<1>2. ASSUME NEW s \in Sites, StartSite(s) \/ StopSite(s) \/ RestartSite(s)
      PROVE  OrderAfter
  <2>1. StartSiteBody(s) \/ StopSiteBody(s)
    BY <1>2 DEF StartSite, StopSite, RestartSite
  <2> QED
    BY <1>0, <1>2, <2>1, SiteRequestCalm, StartBodyKeepsOrder, StopBodyKeepsOrder
<1>3. ASSUME NEW s \in Sites, FinishRestartSite(s) PROVE OrderAfter
  BY <1>0, <1>3, FinishRestartCalm, StartBodyKeepsOrder
<1>4. CASE ReloadFTP
  BY <1>0, <1>4, ReloadCalm, StartAllKeepsOrder DEF Resting
<1>5. CASE SyncPanel
  <2>1. svc = "ftpSync"
    BY <1>5 DEF SyncPanel
  <2> QED
    BY <1>0, <1>5, <2>1, SyncCalm, SameKeepsOrder DEF Resting
<1>6. CASE SaveRequest
  <2>1. Resting /\ Resting'
    BY <1>0, <1>6, SaveCalm DEF SaveRequest, CalmNext, Alone, Resting
  <2> QED
    BY <1>0, <1>6, <2>1, SaveCalm, SameKeepsOrder
<1>7. CASE \E s \in Sites : ApplyRequest(s)
  BY <1>7, ApplyKeepsOrder
<1>8. CASE ServiceStep
  BY <1>8, ServiceKeepsOrder
<1>9. CASE Goroutine \/ MapRace \/ UNCHANGED vars
  BY <1>9, GoroutineKeepsOrder
<1> QED
  BY <1>0, <1>1, <1>2, <1>3, <1>4, <1>5, <1>6, <1>7, <1>8, <1>9, NotCalm
  DEF Next, Request, ContinueRequest, ContinueService, ServiceStep

\* Use that is orderly has been so from the start.
LEMMA OrderlyBefore ==
  ASSUME CalmInv, DiskInv, [Next]_vars
  PROVE  /\ Calm' => Calm
         /\ Orderly' => Orderly
<1>1. env' = env
  BY EnvKept
<1>2. Calm' => Calm
  BY <1>1 DEF Calm
<1>3. ASSUME Orderly' PROVE Orderly
  <2>1. Calm
    BY <1>1, <1>3 DEF Orderly, Calm
  <2>2. PortsKept
    BY <2>1, CalmStep DEF CalmInv, CalmNext, CalmAfter
  <2>3. \A s \in Sites : (Manager[s].port)' = Manager[s].port
    BY <2>2 DEF PortsKept, Manager
  <2>4. \A s, t \in Sites : SamePort(s, t)' <=> SamePort(s, t)
    BY <2>3 DEF SamePort
  <2>5. \A p \in Ports : MightBeShared(p)' <=> MightBeShared(p)
    BY <2>3, <2>4 DEF MightBeShared
  <2> QED
    BY <1>1, <1>3, <2>4, <2>5 DEF Orderly
<1> QED
  BY <1>2, <1>3

SiteInv == DiskInv /\ CalmInv /\ OrderInv

LEMMA SpecSiteInv == Spec => []SiteInv
<1>1. ASSUME Init PROVE CalmInv /\ OrderInv
  <2>1. /\ panelCM = 1 /\ mgrCM = 1 /\ mem[1] = disk /\ svc = "idle" /\ sitesRunning = FALSE
        /\ hreq = Idle /\ restarting = {}
        /\ net.shared = NoServer /\ \A p \in Ports : net.ports[p] = NoServer
        /\ \A n \in Servers : net.srv[n].st = "free"
    BY <1>1 DEF Init, CMs
  <2>2. CalmInv
    BY <2>1 DEF CalmInv, OneManager, Alone, Apart, Toggling, SamePorts, Idle
  <2>3. AllKnown(net) /\ Backed /\ Down /\ Listening
    BY <2>1 DEF AllKnown, Lives, Backed, Down, Empty, Listening, Resting
  <2> QED
    BY <2>2, <2>3 DEF OrderInv
<1>2. SiteInv /\ DiskInv' /\ [Next]_vars => SiteInv'
  <2> SUFFICES ASSUME SiteInv, DiskInv', [Next]_vars PROVE (CalmInv /\ OrderInv)'
    BY DEF SiteInv
  <2>1. /\ Calm' => Calm
        /\ Orderly' => Orderly
    BY OrderlyBefore DEF SiteInv
  <2>2. CalmInv'
    BY <2>1, CalmStep DEF SiteInv, CalmInv, CalmNext, CalmAfter
  <2>3. ASSUME Orderly' PROVE OrderAfter
    <3>1. OrderNext
      BY <2>1, <2>3, OrderlyCalm DEF SiteInv, CalmInv, OrderInv, OrderNext, CalmNext
    <3>2. TypeOK'
      BY DEF DiskInv, Inv
    <3> QED
      BY <3>1, <3>2, OrderStep
  <2>4. OrderInv'
    BY <2>3 DEF OrderInv, OrderAfter, AllKnown, Lives, Registered
  <2> QED
    BY <2>2, <2>4
<1>3. Init /\ DiskInv => SiteInv
  BY <1>1 DEF SiteInv
<1> QED
  BY <1>2, <1>3, SpecDiskInv, PTL DEF Spec

(***************************************************************************)
(* NoOrphanServer: in orderly use startSitePort never overwrites an entry  *)
(* of portServers whose server runs, and no stop forgets a server without  *)
(* closing it, for every number of sites, ports and servers.               *)
(***************************************************************************)
THEOREM NoServerIsOrphaned == Spec => []NoOrphanServer
<1>1. SiteInv => NoOrphanServer
  BY DEF SiteInv, OrderInv, AllKnown, Lives, Registered, NoOrphanServer, Alive
<1> QED
  BY <1>1, SpecSiteInv, PTL

(***************************************************************************)
(* ListenedPortHasSite: in orderly use a port in portServers is that of an *)
(* enabled site, or of a site some request is just disabling.              *)
(***************************************************************************)
THEOREM ListenedPortsHaveSites == Spec => []ListenedPortHasSite
<1>1. SiteInv => ListenedPortHasSite
  BY DEF SiteInv, OrderInv, Backed, Empty, WasOn, ListenedPortHasSite, Manager
<1> QED
  BY <1>1, SpecSiteInv, PTL

(***************************************************************************)
(* EnabledSiteListens: in orderly use, while the service runs, an enabled  *)
(* site with a port to itself has its entry in portServers, through every  *)
(* enable, start, restart, reload and restart of the whole service.        *)
(***************************************************************************)
THEOREM EnabledSitesListen == Spec => []EnabledSiteListens
<1>1. SiteInv => EnabledSiteListens
  BY DEF SiteInv, OrderInv, Listening, Empty, OwnPortIn, EnabledSiteListens, OwnPort, Manager
<1> QED
  BY <1>1, SpecSiteInv, PTL
=============================================================================
