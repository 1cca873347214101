---------------------------- MODULE Certificates ----------------------------
(***************************************************************************)
(* The certificates of ssl/manager.go, the orders of ssl/lego.go and the    *)
(* panel's requests about them (panel/api_ssl.go).                          *)
(*                                                                          *)
(* SSLManager keeps what it serves in a map, which it fills at the start of *)
(* the program from the sites' configurations and two files per domain.     *)
(* Its own configurations are pointers, at first to those of the sites.     *)
(* The handlers work in several steps: ask the certificate authority, write *)
(* the two files, load them under the lock, replace the configuration of    *)
(* the site and save it.                                                    *)
(***************************************************************************)
EXTENDS Integers, FiniteSets

CONSTANTS
  Domains,
  Sites,
  SiteOf,       \* the first site that names a domain
  Jobs,         \* the requests, callbacks and handshakes that take several steps
  MaxVersion,   \* how many certificates a domain gets (a bound)
  MaxRestarts,  \* how often the program restarts (a bound)
  NoDomain,
  Uses          \* what is done and what of it overlaps, see UseType

Ops == {"upload", "paste", "file", "dns", "api", "renew", "auto", "delete", "deploy"}

UseType ==
  [ops     : SUBSET Ops,
   domains : SUBSET Domains,  \* the domains it is done to
   overlap : BOOLEAN,  \* several jobs work on one domain
   faults  : BOOLEAN,  \* a file may fail to be written
   crash   : BOOLEAN]  \* a restart may interrupt a job

ASSUME CertificatesAssumption ==
  /\ SiteOf \in [Domains -> Sites]
  /\ Domains \cap Sites = {} /\ NoDomain \notin Domains
  /\ MaxVersion \in Nat /\ MaxRestarts \in Nat
  /\ Uses \subseteq UseType

VARIABLES
  certs,     \* SSLManager.certs
  cfg,       \* SSLManager.configs and the SSL configuration of each site
  same,      \* which of these pointers point to the same configuration
  hosts,     \* the domains autocert accepts, none before it is initialised
  acme,      \* the certificates autocert keeps
  pending,   \* SSLManager.pendingChallenges
  saved,     \* the sites' SSL configurations in sites.json
  crt, key,  \* the certificate each file of a domain belongs to, 0 for none
  job,
  made,      \* how many certificates were made for a domain
  now,       \* what was promised for a domain in this run of the program
  durable,   \* and what after a restart
  prepared,  \* a challenge was given to the user
  restarts,
  use

mgrVars  == <<certs, hosts, acme, pending>>
cfgVars  == <<cfg, same, saved>>
diskVars == <<crt, key>>
hist     == <<now, durable, prepared>>
certVars == <<mgrVars, cfgVars, diskVars, hist, job, made, restarts, use>>

(***************************************************************************)
(* A certificate is known by its domain and a version.  custom, lego and    *)
(* auto are the cases LoadSiteCertificates tells apart; of a promise, any   *)
(* and gone mean that nothing, and that the deletion of the certificate,    *)
(* was promised.                                                            *)
(***************************************************************************)
Cert    == [of : Domains \cup {NoDomain}, v : 0..MaxVersion]
NoCert  == [of |-> NoDomain, v |-> 0]
Cfg     == [mode : {"none", "off", "custom", "lego", "auto"}, file : Domains \cup {NoDomain}]
NoCfg   == [mode |-> "none", file |-> NoDomain]
Holders == Domains \cup Sites
Promise == [v : 0..MaxVersion, mode : {"any", "gone", "custom", "lego", "auto"}]
Job     == [op : Ops \cup {"none"}, dom : Domains \cup {NoDomain},
            at : {"idle", "asking", "crt", "key", "load", "site", "store"}, v : 0..MaxVersion]
NoJob   == [op |-> "none", dom |-> NoDomain, at |-> "idle", v |-> 0]

\* Every variable has a value of its type, and pointers that are the same see the same.
TypeOK ==
  /\ certs \in [Domains -> Cert]
  /\ cfg \in [Holders -> Cfg] /\ same \in [Holders -> SUBSET Holders]
  /\ \A x \in Holders : x \in same[x] /\ \A y \in same[x] : same[y] = same[x] /\ cfg[y] = cfg[x]
  /\ hosts \subseteq Domains /\ acme \in [Domains -> 0..MaxVersion]
  /\ pending \in [Domains -> {"none", "waiting", "expired"}]
  /\ saved \in [Sites -> Cfg]
  /\ crt \in [Domains -> 0..MaxVersion] /\ key \in [Domains -> 0..MaxVersion]
  /\ job \in [Jobs -> Job] /\ made \in [Domains -> 0..MaxVersion]
  /\ now \in [Domains -> Promise] /\ durable \in [Domains -> Promise]
  /\ prepared \subseteq Domains
  /\ restarts \in 0..MaxRestarts /\ use \in Uses

Does(op, d)   == op \in use.ops /\ d \in use.domains
Busy(d)       == \E j \in Jobs : job[j].dom = d
MayTouch(d)   == use.overlap \/ ~Busy(d)
Starts(j, d)  == job[j] = NoJob /\ MayTouch(d)
AutoHTTPS(c)  == c.mode \in {"lego", "auto"}

-----------------------------------------------------------------------------
(* The configurations.                                                      *)

\* Mutant: the holder x has a copy.
WriteCopy(x, c) == cfg' = [cfg EXCEPT ![x] = c]

\* The holder x writes to the configuration it points to.
Write(x, c) == cfg' = [y \in Holders |-> IF y \in same[x] THEN c ELSE cfg[y]]

\* What holders share when those of X have got configurations of their own.
Without(X) == [y \in Holders |-> IF y \in X THEN {y} ELSE same[y] \ X]

\* UpdateSiteSSLConfig and handleCertDeploy give the site a new configuration and save all.
NewSiteConfig(X, c) ==
  /\ cfg' = [y \in Holders |-> IF y \in X THEN c ELSE cfg[y]]
  /\ same' = Without(X)
  /\ saved' = [s \in Sites |-> cfg'[s]]

UpdateSiteSSLConfig(d, mode) ==
  NewSiteConfig({SiteOf[d]}, [mode |-> mode, file |-> IF mode = "custom" THEN d ELSE NoDomain])

-----------------------------------------------------------------------------
(* The start of the program.                                                *)

\* What tls.LoadX509KeyPair returns for the files of a domain.
LoadX509KeyPair(d) ==
  IF crt[d] # 0 /\ crt[d] = key[d] THEN [of |-> d, v |-> crt[d]] ELSE NoCert

\* LoadSiteCertificates, with the configurations in sites.json.
LoadSiteCertificates ==
  /\ LET On(d) == saved[SiteOf[d]].mode \in {"custom", "lego", "auto"}
     IN /\ cfg' = [x \in Holders |-> IF x \in Sites THEN saved[x]
                                     ELSE IF On(x) THEN saved[SiteOf[x]] ELSE NoCfg]
        /\ same' = [x \in Holders |->
                      LET s == IF x \in Sites THEN x ELSE SiteOf[x]
                          users == {d \in Domains : On(d) /\ SiteOf[d] = s}
                      IN IF x \in Sites \/ On(x) THEN {s} \cup users ELSE {x}]
        /\ certs' = [d \in Domains |->
                       LET c == saved[SiteOf[d]]
                       IN IF ~On(d) THEN NoCert
                          ELSE LoadX509KeyPair(IF c.mode = "custom" THEN c.file ELSE d)]
        /\ hosts' = {d \in Domains : saved[SiteOf[d]].mode = "auto"}

\* Everything in memory is lost, orders and challenges too.
Restart ==
  /\ restarts < MaxRestarts /\ (use.crash \/ \A j \in Jobs : job[j] = NoJob)
  /\ LoadSiteCertificates
  /\ pending' = [d \in Domains |-> "none"] /\ job' = [j \in Jobs |-> NoJob]
  /\ now' = durable /\ prepared' = {} /\ restarts' = restarts + 1
  /\ UNCHANGED <<acme, saved, diskVars, durable, made, use>>

-----------------------------------------------------------------------------
(* What asks for a certificate.                                             *)

\* handleCertUpload, and handleCertPaste for the editor of a site.
SaveCustomCertificate(j, d, op) ==
  /\ Starts(j, d) /\ Does(op, d) /\ op \in {"upload", "paste"}
  /\ made[d] < MaxVersion
  /\ made' = [made EXCEPT ![d] = @ + 1]
  /\ job' = [job EXCEPT ![j] = [op |-> op, dom |-> d, at |-> "crt", v |-> made[d] + 1]]
  /\ UNCHANGED <<mgrVars, cfgVars, diskVars, hist, restarts, use>>

\* PrepareFileChallenge, and PrepareDNSChallenge without the API of a DNS service.
PrepareChallenge(d) ==
  /\ MayTouch(d) /\ (Does("file", d) \/ Does("dns", d))
  /\ pending' = [pending EXCEPT ![d] = "waiting"]
  /\ prepared' = prepared \cup {d}
  /\ UNCHANGED <<certs, hosts, acme, cfgVars, diskVars, now, durable, job, made, restarts, use>>

\* Thirty minutes later.
Expire(d) ==
  /\ pending[d] = "waiting"
  /\ pending' = [pending EXCEPT ![d] = "expired"]
  /\ prepared' = prepared \ {d}
  /\ UNCHANGED <<certs, hosts, acme, cfgVars, diskVars, now, durable, job, made, restarts, use>>

\* Mutant: the challenge is taken off the list when the order begins.
CompleteAndForget(j, d, op) ==
  /\ Starts(j, d) /\ Does(op, d) /\ op \in {"file", "dns"} /\ pending[d] # "none"
  /\ pending' = [pending EXCEPT ![d] = "none"]
  /\ job' = IF pending[d] = "expired" THEN job
            ELSE [job EXCEPT ![j] = [op |-> op, dom |-> d, at |-> "asking", v |-> 0]]
  /\ UNCHANGED <<certs, hosts, acme, cfgVars, diskVars, hist, made, restarts, use>>

\* CompleteFileChallenge and CompleteDNSChallenge: an expired challenge is removed.
CompleteChallenge(j, d, op) ==
  /\ Starts(j, d) /\ Does(op, d) /\ op \in {"file", "dns"} /\ pending[d] # "none"
  /\ IF pending[d] = "expired"
     THEN pending' = [pending EXCEPT ![d] = "none"] /\ UNCHANGED job
     ELSE /\ job' = [job EXCEPT ![j] = [op |-> op, dom |-> d, at |-> "asking", v |-> 0]]
          /\ UNCHANGED pending
  /\ UNCHANGED <<certs, hosts, acme, cfgVars, diskVars, hist, made, restarts, use>>

\* PrepareDNSChallenge with the API of a DNS service orders at once.
OrderByAPI(j, d) ==
  /\ Starts(j, d) /\ Does("api", d)
  /\ job' = [job EXCEPT ![j] = [op |-> "api", dom |-> d, at |-> "asking", v |-> 0]]
  /\ UNCHANGED <<mgrVars, cfgVars, diskVars, hist, made, restarts, use>>

\* RenewCertificateLego, from handleCertRenew or the daily checkAndRenewCerts.
RenewCertificateLego(j, d) ==
  /\ Starts(j, d) /\ Does("renew", d)
  /\ cfg[d].mode = "lego" /\ crt[d] # 0 /\ key[d] # 0
  /\ job' = [job EXCEPT ![j] = [op |-> "renew", dom |-> d, at |-> "asking", v |-> 0]]
  /\ UNCHANGED <<mgrVars, cfgVars, diskVars, hist, made, restarts, use>>

\* The authority issues the certificate.
Issued(j) ==
  LET d == job[j].dom IN
    /\ job[j].at = "asking" /\ made[d] < MaxVersion
    /\ made' = [made EXCEPT ![d] = @ + 1]
    /\ job' = [job EXCEPT ![j] = [@ EXCEPT !.at = "crt", !.v = made[d] + 1]]
    /\ UNCHANGED <<mgrVars, cfgVars, diskVars, hist, restarts, use>>

\* It refuses, or five minutes have passed.
NotIssued(j) ==
  /\ job[j].at = "asking"
  /\ job' = [job EXCEPT ![j] = NoJob]
  /\ UNCHANGED <<mgrVars, cfgVars, diskVars, hist, made, restarts, use>>

-----------------------------------------------------------------------------
(* saveLegoCertResource and SaveCustomCertificate.                          *)

Failed(j) == job' = [job EXCEPT ![j] = NoJob]
Goes(j, at) == job' = [job EXCEPT ![j] = [@ EXCEPT !.at = at]]

WriteCrt(j) ==
  LET d == job[j].dom IN
    /\ job[j].at = "crt"
    /\ \/ crt' = [crt EXCEPT ![d] = job[j].v] /\ Goes(j, "key")
       \/ use.faults /\ crt' = [crt EXCEPT ![d] = 0] /\ Failed(j)
    /\ UNCHANGED <<mgrVars, cfgVars, key, hist, made, restarts, use>>

\* Mutant: when the key cannot be written, the certificate is left.
WriteKeyOnly(j) ==
  LET d == job[j].dom IN
    /\ job[j].at = "key"
    /\ \/ key' = [key EXCEPT ![d] = job[j].v] /\ Goes(j, "load") /\ UNCHANGED crt
       \/ use.faults /\ key' = [key EXCEPT ![d] = 0] /\ Failed(j) /\ UNCHANGED crt
    /\ UNCHANGED <<mgrVars, cfgVars, hist, made, restarts, use>>

WriteKey(j) ==
  LET d == job[j].dom IN
    /\ job[j].at = "key"
    /\ \/ key' = [key EXCEPT ![d] = job[j].v] /\ Goes(j, "load") /\ UNCHANGED crt
       \/ /\ use.faults /\ Failed(j)
          /\ key' = [key EXCEPT ![d] = 0] /\ crt' = [crt EXCEPT ![d] = 0]
    /\ UNCHANGED <<mgrVars, cfgVars, hist, made, restarts, use>>

\* Whatever is on the disk by now is loaded; a pair that does not match is an error.
CannotLoad(j) ==
  /\ job[j].at = "load" /\ LoadX509KeyPair(job[j].dom) = NoCert
  /\ Failed(j)
  /\ UNCHANGED <<mgrVars, cfgVars, diskVars, hist, made, restarts, use>>

ModeOf(op) == IF op \in {"upload", "paste"} THEN "custom" ELSE "lego"

\* Mutant: the renewed certificate is not put into the map.
LoadUnlessRenewed(j) ==
  LET d == job[j].dom
      op == job[j].op
      c == [mode |-> ModeOf(op), file |-> IF ModeOf(op) = "custom" THEN d ELSE cfg[d].file]
  IN /\ job[j].at = "load" /\ LoadX509KeyPair(d) # NoCert
     /\ certs' = IF op = "renew" THEN certs ELSE [certs EXCEPT ![d] = LoadX509KeyPair(d)]
     /\ IF op = "renew" THEN UNCHANGED cfg ELSE Write(d, c)
     /\ pending' = IF op \in {"file", "dns", "api"} THEN [pending EXCEPT ![d] = "none"] ELSE pending
     /\ prepared' = IF op \in {"file", "dns", "api"} THEN prepared \ {d} ELSE prepared
     /\ IF op \in {"renew", "paste"} THEN Failed(j) ELSE Goes(j, "site")
     /\ now' = [now EXCEPT ![d] = [v |-> job[j].v, mode |-> IF op = "renew" THEN @.mode ELSE c.mode]]
     /\ durable' = [durable EXCEPT ![d].mode = IF op = "renew" THEN @ ELSE "any"]
     /\ UNCHANGED <<hosts, acme, same, saved, diskVars, made, restarts, use>>

\* Into memory, under the lock; a domain without a configuration gets one of its own.
Load(j) ==
  LET d == job[j].dom
      op == job[j].op
      c == [mode |-> ModeOf(op), file |-> IF ModeOf(op) = "custom" THEN d ELSE cfg[d].file]
  IN /\ job[j].at = "load" /\ LoadX509KeyPair(d) # NoCert
     /\ certs' = [certs EXCEPT ![d] = LoadX509KeyPair(d)]
     /\ IF op = "renew" THEN UNCHANGED cfg ELSE Write(d, c)
     /\ pending' = IF op \in {"file", "dns", "api"} THEN [pending EXCEPT ![d] = "none"] ELSE pending
     /\ prepared' = IF op \in {"file", "dns", "api"} THEN prepared \ {d} ELSE prepared
     /\ IF op \in {"renew", "paste"} THEN Failed(j) ELSE Goes(j, "site")
     /\ now' = [now EXCEPT ![d] = [v |-> job[j].v, mode |-> IF op = "renew" THEN @.mode ELSE c.mode]]
     /\ durable' = [durable EXCEPT ![d].mode = IF op = "renew" THEN @ ELSE "any"]
     /\ UNCHANGED <<hosts, acme, same, saved, diskVars, made, restarts, use>>

\* The handler, or the callback of an order by API, tells the site.
TellSite(j) ==
  LET d == job[j].dom IN
    /\ job[j].at = "site"
    /\ UpdateSiteSSLConfig(d, ModeOf(job[j].op))
    /\ durable' = [durable EXCEPT ![d] = [v |-> job[j].v, mode |-> ModeOf(job[j].op)]]
    /\ Failed(j)
    /\ UNCHANGED <<mgrVars, diskVars, now, prepared, made, restarts, use>>

\* handleCertFileComplete and handleCertDNSComplete have stopped waiting for the order.
TooLateForSite(j) ==
  /\ job[j].at = "site" /\ job[j].op \in {"file", "dns"}
  /\ Failed(j)
  /\ UNCHANGED <<mgrVars, cfgVars, diskVars, hist, made, restarts, use>>

-----------------------------------------------------------------------------
(* autocert.                                                                *)

(***************************************************************************)
(* handleCertRequest.  AddAutoDomain makes a new autocert manager; an order *)
(* that needs two steps only changes the configuration of the site.         *)
(***************************************************************************)
RequestCertificate(d, mode) ==
  /\ MayTouch(d) /\ Does("auto", d)
  /\ hosts' = IF mode = "lego" THEN hosts
              ELSE {d} \cup (IF hosts = {} THEN {}
                             ELSE {e \in Domains : AutoHTTPS(cfg[e])})
  /\ UpdateSiteSSLConfig(d, mode)
  /\ now' = [now EXCEPT ![d] = IF @.mode = "gone" THEN [@ EXCEPT !.mode = "any"] ELSE @]
  /\ durable' = [durable EXCEPT ![d] = [@ EXCEPT !.mode = mode]]
  /\ UNCHANGED <<certs, acme, pending, diskVars, job, prepared, made, restarts, use>>

\* GetCertificate without a certificate in the map asks autocert, if there is one, with the
\* lock released.  autocert returns what it keeps, and orders for the domains it accepts.
Handshake(j, d) ==
  /\ Starts(j, d) /\ certs[d] = NoCert /\ hosts # {}
  /\ IF acme[d] # 0 THEN UNCHANGED <<acme, made>>
     ELSE /\ d \in hosts /\ made[d] < MaxVersion
          /\ made' = [made EXCEPT ![d] = @ + 1]
          /\ acme' = [acme EXCEPT ![d] = made[d] + 1]
  /\ job' = [job EXCEPT ![j] = [op |-> "auto", dom |-> d, at |-> "store", v |-> acme'[d]]]
  /\ UNCHANGED <<certs, hosts, pending, cfgVars, diskVars, hist, restarts, use>>

StoreHandshake(j) ==
  LET d == job[j].dom IN
    /\ job[j].at = "store"
    /\ certs' = [certs EXCEPT ![d] = [of |-> d, v |-> job[j].v]]
    /\ Failed(j)
    /\ UNCHANGED <<hosts, acme, pending, cfgVars, diskVars, hist, made, restarts, use>>

\* RenewCertificate: the next handshake asks autocert again.
RenewCertificate(d) ==
  /\ MayTouch(d) /\ Does("renew", d) /\ cfg[d].mode = "auto"
  /\ certs' = [certs EXCEPT ![d] = NoCert]
  /\ now' = [now EXCEPT ![d] = [@ EXCEPT !.v = 0]]
  /\ UNCHANGED <<hosts, acme, pending, cfgVars, diskVars, job, durable, prepared, made, restarts, use>>

-----------------------------------------------------------------------------
(* Deletion and deployment.                                                 *)

\* handleCertDelete
DeleteCertificate(d) ==
  /\ MayTouch(d) /\ Does("delete", d)
  /\ certs' = [certs EXCEPT ![d] = NoCert]
  /\ crt' = [crt EXCEPT ![d] = 0] /\ key' = [key EXCEPT ![d] = 0]
  /\ cfg' = [cfg EXCEPT ![d] = NoCfg, ![SiteOf[d]] = [mode |-> "off", file |-> NoDomain]]
  /\ same' = Without({d, SiteOf[d]})
  /\ saved' = [s \in Sites |-> cfg'[s]]
  /\ now' = [now EXCEPT ![d] = [v |-> 0, mode |-> "gone"]]
  /\ durable' = [durable EXCEPT ![d] = now'[d]]
  /\ UNCHANGED <<hosts, acme, pending, job, prepared, made, restarts, use>>

\* Mutant: the sites' configurations are written in place.
DeployInPlace(d, S) ==
  /\ Does("deploy", d) /\ S # {} /\ crt[d] # 0 /\ key[d] # 0
  /\ cfg' = [y \in Holders |-> IF \E s \in S : y \in same[s]
                               THEN [mode |-> "custom", file |-> d] ELSE cfg[y]]
  /\ saved' = [s \in Sites |-> cfg'[s]]
  /\ durable' = [e \in Domains |-> IF SiteOf[e] \in S THEN [v |-> 0, mode |-> "any"] ELSE durable[e]]
  /\ UNCHANGED <<mgrVars, same, diskVars, now, job, prepared, made, restarts, use>>

(***************************************************************************)
(* handleCertDeploy: the sites of S get the files of d.  Their servers are  *)
(* restarted, but SSLManager is not told.                                   *)
(***************************************************************************)
Deploy(d, S) ==
  /\ Does("deploy", d) /\ S # {} /\ crt[d] # 0 /\ key[d] # 0
  /\ NewSiteConfig(S, [mode |-> "custom", file |-> d])
  /\ durable' = [e \in Domains |-> IF SiteOf[e] \in S THEN [v |-> 0, mode |-> "any"] ELSE durable[e]]
  /\ UNCHANGED <<mgrVars, diskVars, now, job, prepared, made, restarts, use>>

\* Another request of the panel saves the configuration as it is.
Save ==
  /\ saved # [s \in Sites |-> cfg[s]]
  /\ saved' = [s \in Sites |-> cfg[s]]
  /\ UNCHANGED <<mgrVars, cfg, same, diskVars, hist, job, made, restarts, use>>

-----------------------------------------------------------------------------

Init ==
  /\ use \in Uses
  /\ certs = [d \in Domains |-> NoCert]
  /\ cfg = [x \in Holders |-> IF x \in Sites THEN [mode |-> "off", file |-> NoDomain] ELSE NoCfg]
  /\ same = [x \in Holders |-> {x}] /\ saved = [s \in Sites |-> cfg[s]]
  /\ hosts = {} /\ acme = [d \in Domains |-> 0] /\ pending = [d \in Domains |-> "none"]
  /\ crt = [d \in Domains |-> 0] /\ key = [d \in Domains |-> 0]
  /\ job = [j \in Jobs |-> NoJob] /\ made = [d \in Domains |-> 0]
  /\ now = [d \in Domains |-> [v |-> 0, mode |-> "any"]] /\ durable = now
  /\ prepared = {} /\ restarts = 0

JobStep(j) ==
  \/ Issued(j) \/ NotIssued(j) \/ WriteCrt(j) \/ WriteKey(j) \/ CannotLoad(j) \/ Load(j)
  \/ TellSite(j) \/ TooLateForSite(j) \/ StoreHandshake(j)
  \/ \E d \in Domains : OrderByAPI(j, d) \/ RenewCertificateLego(j, d) \/ Handshake(j, d)
  \/ \E d \in Domains, op \in Ops : SaveCustomCertificate(j, d, op) \/ CompleteChallenge(j, d, op)

Next ==
  \/ Restart \/ Save
  \/ \E j \in Jobs : JobStep(j)
  \/ \E d \in Domains :
       \/ PrepareChallenge(d) \/ Expire(d) \/ RenewCertificate(d) \/ DeleteCertificate(d)
       \/ \E mode \in {"auto", "lego"} : RequestCertificate(d, mode)
       \/ \E S \in SUBSET Sites : Deploy(d, S)

Spec == Init /\ [][Next]_certVars

-----------------------------------------------------------------------------

Shared == \E d, e \in Domains : d # e /\ {d, e} \subseteq use.domains /\ SiteOf[d] = SiteOf[e]

\* A restart finds what was promised unless it interrupted a job or a write had failed.
Undisturbed == ~use.overlap /\ (restarts > 0 => ~use.faults /\ ~use.crash)

(***************************************************************************)
(* The files of a domain are a certificate and its key, or the certificate  *)
(* is missing: jobs write the two without a lock, and one that fails        *)
(* between them removes the first.                                          *)
(***************************************************************************)
PairsOnDisk ==
  ~use.overlap /\ ~use.crash =>
    \A d \in Domains : ~Busy(d) => crt[d] \in {0, key[d]}

\* AddAutoDomain for another domain may take d off the list autocert has.
Elsewhere(d) == "auto" \in use.ops /\ \E e \in use.domains : e # d

(***************************************************************************)
(* The certificate that is served is the one installed last, also after a   *)
(* restart, which reads the site's configuration and the files the request  *)
(* has left; a deleted certificate is not served again: what its domain     *)
(* then has is from autocert, which accepts the domain, or did before it    *)
(* was set up anew for another.  Domains that share a site share the        *)
(* certificate a restart finds.                                             *)
(***************************************************************************)
ServedAsPromised ==
  Undisturbed /\ (restarts > 0 => ~Shared) =>
    \A d \in Domains :
      /\ now[d].v > 0 => certs[d].of = d /\ certs[d].v >= now[d].v
      /\ now[d].mode = "gone" /\ certs[d] # NoCert =>
           certs[d] = [of |-> d, v |-> acme[d]] /\ (d \in hosts \/ Elsewhere(d))

(***************************************************************************)
(* A certificate from an order is renewed and one that was uploaded is not: *)
(* SSLManager's configuration of a domain, which may be that of a site, is  *)
(* of the kind installed last, whatever else changes the sites.  Domains    *)
(* that share a site share its configuration.                               *)
(***************************************************************************)
ManagedAsPromised ==
  Undisturbed /\ ~Shared =>
    \A d \in Domains : now[d].mode \in {"custom", "lego"} => cfg[d].mode = now[d].mode

(***************************************************************************)
(* A challenge given to the user can be completed until it expires or its   *)
(* certificate is installed; an order that fails leaves it.                 *)
(***************************************************************************)
ChallengeKept == ~use.overlap => \A d \in prepared : pending[d] = "waiting"

=============================================================================
