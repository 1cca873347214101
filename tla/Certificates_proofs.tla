------------------------- MODULE Certificates_proofs -------------------------
(* Proofs about the certificates.                                           *)
EXTENDS Certificates, TLAPS

-----------------------------------------------------------------------------
(* Types.                                                                   *)

Versions == 0..MaxVersion

\* A configuration of the kind custom names the domain its files are of.
NamedCfg == {c \in Cfg : c.mode = "custom" => c.file \in Domains}

MgrTyped ==
  /\ certs \in [Domains -> Cert] /\ hosts \subseteq Domains /\ acme \in [Domains -> Versions]
  /\ pending \in [Domains -> {"none", "waiting", "expired"}]

\* Holders that point to the same configuration.
Agree == \A x \in Holders :
           x \in same[x] /\ \A y \in same[x] : same[y] = same[x] /\ cfg[y] = cfg[x]

CfgTyped ==
  /\ cfg \in [Holders -> NamedCfg] /\ same \in [Holders -> SUBSET Holders]
  /\ Agree /\ saved \in [Sites -> NamedCfg]

DiskTyped == crt \in [Domains -> Versions] /\ key \in [Domains -> Versions]
HistTyped == now \in [Domains -> Promise] /\ durable \in [Domains -> Promise]
             /\ prepared \subseteq Domains
JobTyped  == job \in [Jobs -> Job] /\ made \in [Domains -> Versions]
RunTyped  == restarts \in 0..MaxRestarts /\ use \in Uses

CertTyping == MgrTyped /\ CfgTyped /\ DiskTyped /\ HistTyped /\ JobTyped /\ RunTyped

LEMMA TypesOfParts == CertTyping => TypeOK
<1> SUFFICES ASSUME CertTyping PROVE TypeOK
  OBVIOUS
<1>1. NamedCfg \subseteq Cfg
  BY DEF NamedCfg
<1>2. cfg \in [Holders -> Cfg] /\ saved \in [Sites -> Cfg]
  BY <1>1 DEF CertTyping, CfgTyped
<1> QED
  BY <1>2 DEF CertTyping, TypeOK, MgrTyped, CfgTyped, Agree, DiskTyped, HistTyped, JobTyped,
              RunTyped, Versions

LEMMA Unchanging ==
  /\ MgrTyped /\ UNCHANGED mgrVars => MgrTyped'
  /\ CfgTyped /\ UNCHANGED cfgVars => CfgTyped'
  /\ DiskTyped /\ UNCHANGED diskVars => DiskTyped'
  /\ HistTyped /\ UNCHANGED hist => HistTyped'
  /\ JobTyped /\ UNCHANGED <<job, made>> => JobTyped'
  /\ RunTyped /\ UNCHANGED <<restarts, use>> => RunTyped'
BY DEF mgrVars, cfgVars, diskVars, hist, MgrTyped, CfgTyped, Agree, DiskTyped, HistTyped,
       JobTyped, RunTyped

LEMMA Givens ==
  /\ SiteOf \in [Domains -> Sites] /\ Domains \cap Sites = {} /\ NoDomain \notin Domains
  /\ MaxVersion \in Nat /\ 0 \in Versions /\ Holders = Domains \cup Sites
  /\ NoCert \in Cert /\ NoCfg \in NamedCfg /\ NoJob \in Job
BY CertificatesAssumption DEF Versions, Holders, NoCert, Cert, NoCfg, Cfg, NamedCfg, NoJob, Job

LEMMA UseFields ==
  ASSUME RunTyped
  PROVE  use.ops \subseteq Ops /\ use.domains \subseteq Domains
BY CertificatesAssumption DEF RunTyped, UseType

-----------------------------------------------------------------------------
(* The configurations.                                                      *)

LEMMA WriteKeeps ==
  ASSUME CfgTyped, NEW x \in Holders, NEW c \in NamedCfg, Write(x, c), UNCHANGED <<same, saved>>
  PROVE  CfgTyped'
<1>1. cfg' = [y \in Holders |-> IF y \in same[x] THEN c ELSE cfg[y]]
  BY DEF Write
<1>2. cfg' \in [Holders -> NamedCfg]
  BY <1>1 DEF CfgTyped
<1>3. ASSUME NEW z \in Holders, NEW y \in same[z] PROVE cfg'[y] = cfg'[z]
  <2>1. /\ y \in Holders /\ same[y] = same[z] /\ cfg[y] = cfg[z]
        /\ y \in same[y] /\ z \in same[z]
    BY <1>3 DEF CfgTyped, Agree
  <2>2. y \in same[x] <=> z \in same[x]
    BY <2>1 DEF CfgTyped, Agree
  <2> QED
    BY <1>1, <2>1, <2>2
<1> QED
  BY <1>2, <1>3 DEF CfgTyped, Agree

\* Holders with configurations of their own, and what the others still share.
LEMMA SeparateKeeps ==
  ASSUME CfgTyped, NEW X \in SUBSET Holders, same' = Without(X), cfg' \in [Holders -> NamedCfg],
         \A y \in Holders \ X : cfg'[y] = cfg[y], saved' \in [Sites -> NamedCfg]
  PROVE  CfgTyped'
<1>1. same' = [y \in Holders |-> IF y \in X THEN {y} ELSE same[y] \ X]
  BY DEF Without
<1>2. same' \in [Holders -> SUBSET Holders]
  BY <1>1 DEF CfgTyped
<1>3. ASSUME NEW x \in Holders
      PROVE  x \in same'[x] /\ \A y \in same'[x] : same'[y] = same'[x] /\ cfg'[y] = cfg'[x]
  <2>1. CASE x \in X
    BY <1>1, <2>1
  <2>2. CASE x \notin X
    <3>1. same'[x] = same[x] \ X
      BY <1>1, <2>2
    <3>2. \A y \in same'[x] : y \in Holders \ X /\ same[y] = same[x] /\ cfg[y] = cfg[x]
      BY <3>1 DEF CfgTyped, Agree
    <3>3. \A y \in same'[x] : same'[y] = same[y] \ X
      BY <1>1, <3>2
    <3>4. x \in same[x]
      BY DEF CfgTyped, Agree
    <3> QED
      BY <2>2, <3>1, <3>2, <3>3, <3>4
  <2> QED
    BY <2>1, <2>2
<1> QED
  BY <1>2, <1>3 DEF CfgTyped, Agree

LEMMA NewSiteKeeps ==
  ASSUME CfgTyped, NEW X \in SUBSET Sites, NEW c \in NamedCfg, NewSiteConfig(X, c)
  PROVE  CfgTyped'
<1>1. cfg' = [y \in Holders |-> IF y \in X THEN c ELSE cfg[y]]
  BY DEF NewSiteConfig
<1>2. cfg' \in [Holders -> NamedCfg] /\ \A y \in Holders \ X : cfg'[y] = cfg[y]
  BY <1>1 DEF CfgTyped
<1>3. saved' \in [Sites -> NamedCfg]
  BY <1>2, Givens DEF NewSiteConfig
<1>4. X \in SUBSET Holders /\ same' = Without(X)
  BY Givens DEF NewSiteConfig
<1> QED
  BY <1>2, <1>3, <1>4, SeparateKeeps

LEMMA TellKeeps ==
  ASSUME CfgTyped, NEW d \in Domains, NEW mode \in {"custom", "lego", "auto"},
         UpdateSiteSSLConfig(d, mode)
  PROVE  CfgTyped'
<1> DEFINE c == [mode |-> mode, file |-> IF mode = "custom" THEN d ELSE NoDomain]
<1>1. c \in NamedCfg /\ {SiteOf[d]} \in SUBSET Sites
  BY Givens DEF Cfg, NamedCfg
<1>2. NewSiteConfig({SiteOf[d]}, c)
  BY DEF UpdateSiteSSLConfig
<1> HIDE DEF c
<1> QED
  BY <1>1, <1>2, NewSiteKeeps

LEMMA DeleteKeeps ==
  ASSUME CfgTyped, NEW d \in Domains, DeleteCertificate(d)
  PROVE  CfgTyped'
<1> DEFINE off == [mode |-> "off", file |-> NoDomain]
           X == {d, SiteOf[d]}
<1>1. off \in NamedCfg /\ X \in SUBSET Holders
  BY Givens DEF Cfg, NamedCfg
<1>2. cfg' = [cfg EXCEPT ![d] = NoCfg, ![SiteOf[d]] = off]
  BY DEF DeleteCertificate
<1> HIDE DEF off
<1>3. cfg' \in [Holders -> NamedCfg] /\ \A y \in Holders \ X : cfg'[y] = cfg[y]
  BY <1>1, <1>2, Givens DEF Cfg, CfgTyped
<1>4. saved' \in [Sites -> NamedCfg] /\ same' = Without(X)
  BY <1>3, Givens DEF DeleteCertificate
<1> QED
  BY <1>1, <1>3, <1>4, SeparateKeeps

\* The sites whose configuration a start reads, and the holder of what x points to then.
On(d) == saved[SiteOf[d]].mode \in {"custom", "lego", "auto"}
HolderOf(x) == IF x \in Domains /\ On(x) THEN SiteOf[x] ELSE x

LEMMA LoadIsTyped ==
  ASSUME CfgTyped, DiskTyped, LoadSiteCertificates
  PROVE  /\ cfg' = [x \in Holders |-> IF x \in Sites THEN saved[x]
                                      ELSE IF On(x) THEN saved[SiteOf[x]] ELSE NoCfg]
         /\ \A x \in Holders : same'[x] = {y \in Holders : HolderOf(y) = HolderOf(x)}
         /\ certs' \in [Domains -> Cert]
         /\ \A d \in Domains :
              certs'[d] = LET c == saved[SiteOf[d]]
                          IN IF ~On(d) THEN NoCert
                             ELSE LoadX509KeyPair(IF c.mode = "custom" THEN c.file ELSE d)
         /\ hosts' = {d \in Domains : saved[SiteOf[d]].mode = "auto"}
         /\ (UNCHANGED saved => CfgTyped')
<1>1. cfg' = [x \in Holders |-> IF x \in Sites THEN saved[x]
                                ELSE IF On(x) THEN saved[SiteOf[x]] ELSE NoCfg]
  BY DEF LoadSiteCertificates, On
<1>2. same' = [x \in Holders |->
                 IF x \in Sites \/ On(x)
                 THEN {IF x \in Sites THEN x ELSE SiteOf[x]}
                      \cup {d \in Domains : On(d) /\ SiteOf[d] = IF x \in Sites THEN x ELSE SiteOf[x]}
                 ELSE {x}]
  BY DEF LoadSiteCertificates, On
<1>3. ASSUME NEW x \in Holders
      PROVE  same'[x] = {y \in Holders : HolderOf(y) = HolderOf(x)}
  <2>0. /\ \A y \in Holders : y \in Sites <=> y \notin Domains
        /\ \A d \in Domains : SiteOf[d] \in Sites /\ SiteOf[d] \in Holders
    BY Givens
  <2>1. CASE x \in Sites
    <3>1. same'[x] = {x} \cup {d \in Domains : On(d) /\ SiteOf[d] = x}
      BY <1>2, <2>1
    <3>2. HolderOf(x) = x
      BY <2>0, <2>1 DEF HolderOf
    <3>3. \A y \in Holders : HolderOf(y) = x <=> y = x \/ (y \in Domains /\ On(y) /\ SiteOf[y] = x)
      BY <2>0, <2>1 DEF HolderOf
    <3> QED
      BY <3>1, <3>2, <3>3, Givens
  <2>2. CASE x \notin Sites /\ On(x)
    <3>1. same'[x] = {SiteOf[x]} \cup {d \in Domains : On(d) /\ SiteOf[d] = SiteOf[x]}
      BY <1>2, <2>2
    <3>2. HolderOf(x) = SiteOf[x] /\ SiteOf[x] \in Sites
      BY <2>0, <2>2 DEF HolderOf
    <3>3. \A y \in Holders : HolderOf(y) = SiteOf[x] <=>
            y = SiteOf[x] \/ (y \in Domains /\ On(y) /\ SiteOf[y] = SiteOf[x])
      BY <2>0, <3>2 DEF HolderOf
    <3> QED
      BY <2>0, <3>1, <3>2, <3>3, Givens
  <2>3. CASE x \notin Sites /\ ~On(x)
    <3>1. same'[x] = {x} /\ HolderOf(x) = x
      BY <1>2, <2>3 DEF HolderOf
    <3>2. \A y \in Holders : HolderOf(y) = x <=> y = x
      BY <2>0, <2>3 DEF HolderOf
    <3> QED
      BY <3>1, <3>2
  <2> QED
    BY <2>1, <2>2, <2>3
<1>4. /\ certs' = [d \in Domains |->
                     LET c == saved[SiteOf[d]]
                     IN IF ~On(d) THEN NoCert
                        ELSE LoadX509KeyPair(IF c.mode = "custom" THEN c.file ELSE d)]
      /\ hosts' = {d \in Domains : saved[SiteOf[d]].mode = "auto"}
  BY DEF LoadSiteCertificates, On
<1>5. ASSUME NEW d \in Domains
      PROVE  certs'[d] \in Cert
  <2>1. ASSUME NEW e \in Domains PROVE LoadX509KeyPair(e) \in Cert
    BY Givens DEF LoadX509KeyPair, DiskTyped, Cert, Versions
  <2>2. saved[SiteOf[d]] \in NamedCfg
    BY Givens DEF CfgTyped
  <2>3. saved[SiteOf[d]].mode = "custom" => saved[SiteOf[d]].file \in Domains
    BY <2>2 DEF NamedCfg
  <2> QED
    BY <1>4, <2>1, <2>3, Givens
<1>6. certs' \in [Domains -> Cert]
  BY <1>4, <1>5
<1>7. ASSUME UNCHANGED saved PROVE CfgTyped'
  <2>1. cfg' \in [Holders -> NamedCfg]
    BY <1>1, Givens DEF CfgTyped
  <2>2. ASSUME NEW x \in Holders PROVE cfg'[x] = IF HolderOf(x) \in Sites THEN saved[HolderOf(x)] ELSE NoCfg
    BY <1>1, Givens DEF HolderOf
  <2>3. same' \in [Holders -> SUBSET Holders]
    <3>1. same' = [x \in Holders |-> same'[x]]
      BY <1>2
    <3> QED
      BY <3>1, <1>3
  <2>4. Agree'
    BY <2>2, <1>3 DEF Agree
  <2> QED
    BY <1>7, <2>1, <2>3, <2>4 DEF CfgTyped
<1> QED
  BY <1>1, <1>3, <1>4, <1>6, <1>7

-----------------------------------------------------------------------------
(* The jobs.                                                                *)

Ordered == {"file", "dns", "api", "renew"}
Installed == Ordered \cup {"upload", "paste"}

\* The stages the handler of each operation goes through.
Staged(r) ==
  /\ r.at = "idle" => r = NoJob
  /\ r.at # "idle" => r.dom \in Domains /\ r.op \in Ops
  /\ r.at = "asking" => r.op \in Ordered
  /\ r.at \in {"crt", "key", "load"} => r.op \in Installed
  /\ r.at = "site" => r.op \in Installed \ {"renew", "paste"}
  /\ r.at = "store" <=> r.op = "auto"

\* A job is about a domain something is done to and a certificate that was made.
Flows(j) ==
  /\ Staged(job[j])
  /\ job[j].at \notin {"idle", "store"} => job[j].dom \in use.domains
  /\ job[j].at = "store" => job[j].v = acme[job[j].dom]
  /\ job[j].at \in {"crt", "key", "load", "site", "store"} => job[j].v \in 1..made[job[j].dom]

FlowInv == \A j \in Jobs : Flows(j)

Others(j) == \A i \in Jobs \ {j} : job'[i] = job[i]

LEMMA JobBecomes ==
  ASSUME job \in [Jobs -> Job], NEW j \in Jobs, NEW r \in Job, job' = [job EXCEPT ![j] = r]
  PROVE  job' \in [Jobs -> Job] /\ Others(j) /\ job'[j] = r
BY DEF Others

LEMMA JobFails ==
  ASSUME job \in [Jobs -> Job], NEW j \in Jobs, Failed(j)
  PROVE  job' \in [Jobs -> Job] /\ Others(j) /\ job'[j] = NoJob
BY Givens, JobBecomes DEF Failed

LEMMA JobGoes ==
  ASSUME job \in [Jobs -> Job], NEW j \in Jobs, NEW at \in {"key", "load", "site"}, Goes(j, at)
  PROVE  /\ job' \in [Jobs -> Job] /\ Others(j)
         /\ job'[j].at = at /\ job'[j].op = job[j].op /\ job'[j].dom = job[j].dom
         /\ job'[j].v = job[j].v
<1> DEFINE r == [job[j] EXCEPT !.at = at]
<1>1. job[j] \in Job
  OBVIOUS
<1>2. r \in Job /\ r.at = at /\ r.op = job[j].op /\ r.dom = job[j].dom /\ r.v = job[j].v
  BY <1>1 DEF Job
<1>3. job' = [job EXCEPT ![j] = r]
  BY DEF Goes
<1> HIDE DEF r
<1> QED
  BY <1>2, <1>3, JobBecomes

\* A job that starts or is issued its certificate.
LEMMA Begins ==
  ASSUME job \in [Jobs -> Job], NEW j \in Jobs, NEW op \in Ops, NEW d \in Domains,
         NEW at \in {"asking", "crt", "store"}, NEW v \in Versions,
         job' = [job EXCEPT ![j] = [op |-> op, dom |-> d, at |-> at, v |-> v]]
  PROVE  /\ job' \in [Jobs -> Job] /\ Others(j)
         /\ job'[j].op = op /\ job'[j].dom = d /\ job'[j].at = at /\ job'[j].v = v
<1> DEFINE r == [op |-> op, dom |-> d, at |-> at, v |-> v]
<1>1. r \in Job /\ r.op = op /\ r.dom = d /\ r.at = at /\ r.v = v
  BY DEF Job, Versions
<1> HIDE DEF r
<1>2. job' = [job EXCEPT ![j] = r]
  BY DEF r
<1> QED
  BY <1>1, <1>2, JobBecomes

LEMMA OneMore ==
  ASSUME made \in [Domains -> Versions], NEW d \in Domains, made[d] < MaxVersion,
         made' = [made EXCEPT ![d] = @ + 1]
  PROVE  /\ made' \in [Domains -> Versions] /\ made'[d] = made[d] + 1 /\ made'[d] \in Versions
         /\ \A e \in Domains : made'[e] >= made[e] /\ (e # d => made'[e] = made[e])
         /\ made'[d] \in 1..made'[d]
<1>1. \A e \in Domains : made[e] \in 0..MaxVersion
  BY DEF Versions
<1>2. made[d] + 1 \in Versions
  BY <1>1, Givens DEF Versions
<1> QED
  BY <1>1, <1>2, Givens DEF Versions

LEMMA FlowKept ==
  ASSUME FlowInv, job \in [Jobs -> Job], NEW j \in Jobs, Others(j), Flows(j)',
         made \in [Domains -> Versions], made' \in [Domains -> Versions],
         \A d \in Domains : made'[d] >= made[d], UNCHANGED use,
         \A i \in Jobs \ {j} : job[i].at = "store" => acme'[job[i].dom] = acme[job[i].dom]
  PROVE  FlowInv'
<1> SUFFICES ASSUME NEW i \in Jobs \ {j} PROVE Flows(i)'
  BY DEF FlowInv
<1>1. job'[i] = job[i] /\ Flows(i)
  BY DEF Others, FlowInv
<1>2. job[i].at # "idle" => job[i].dom \in Domains
  BY <1>1 DEF Flows, Staged
<1>3. ASSUME job[i].at # "idle", job[i].v \in 1..made[job[i].dom]
      PROVE  job[i].v \in 1..made'[job[i].dom]
  <2>1. made'[job[i].dom] >= made[job[i].dom] /\ made[job[i].dom] \in Int /\ made'[job[i].dom] \in Int
    BY <1>2, <1>3, Givens DEF Versions
  <2> QED
    BY <1>3, <2>1
<1> QED
  BY <1>1, <1>2, <1>3 DEF Flows

-----------------------------------------------------------------------------
(* What a step does to the jobs.                                            *)

NewVersion(d) == made'[d] = made[d] + 1 /\ \A e \in Domains \ {d} : made'[e] = made[e]

Ends(j) == job[j] # NoJob /\ Others(j) /\ job'[j] = NoJob /\ UNCHANGED <<made, acme>>

Advances(j) ==
  /\ Others(j) /\ UNCHANGED <<made, acme>>
  /\ job'[j].dom = job[j].dom /\ job'[j].op = job[j].op /\ job'[j].v = job[j].v
  /\ \/ job[j].at = "crt" /\ job'[j].at = "key"
     \/ job[j].at = "key" /\ job'[j].at = "load"
     \/ job[j].at = "load" /\ job'[j].at = "site" /\ job[j].op \notin {"renew", "paste"}

Receives(j) ==
  /\ Others(j) /\ UNCHANGED acme
  /\ job[j].at = "asking" /\ job'[j].at = "crt"
  /\ job'[j].dom = job[j].dom /\ job'[j].op = job[j].op
  /\ job'[j].v = made'[job[j].dom] /\ NewVersion(job[j].dom)

Orders(j, d) ==
  /\ d \in use.domains /\ job'[j].at = "asking" /\ job'[j].op \in Ordered /\ job'[j].v = 0
  /\ job'[j].op = "renew" => cfg[d].mode = "lego"
  /\ UNCHANGED <<made, acme>>

Uploads(j, d) ==
  /\ d \in use.domains /\ job'[j].at = "crt" /\ job'[j].op \in {"upload", "paste"}
  /\ job'[j].v = made'[d] /\ NewVersion(d) /\ UNCHANGED acme

AsksAutocert(j, d) ==
  /\ certs[d] = NoCert /\ hosts # {}
  /\ job'[j].at = "store" /\ job'[j].op = "auto" /\ job'[j].v = acme'[d]
  /\ \/ acme[d] # 0 /\ UNCHANGED <<made, acme>>
     \/ /\ acme[d] = 0 /\ acme'[d] = made'[d] /\ NewVersion(d)
        /\ \A e \in Domains \ {d} : acme'[e] = acme[e]

Begun(j, d) ==
  /\ job[j] = NoJob /\ MayTouch(d) /\ Others(j) /\ job'[j].dom = d
  /\ Orders(j, d) \/ Uploads(j, d) \/ AsksAutocert(j, d)

Moved(j) == Ends(j) \/ Advances(j) \/ Receives(j) \/ \E d \in Domains : Begun(j, d)

LEMMA FailedEnds ==
  ASSUME JobTyped, NEW j \in Jobs, Failed(j), UNCHANGED <<made, acme>>, job[j] # NoJob
  PROVE  JobTyped' /\ Moved(j)
<1>1. job' \in [Jobs -> Job] /\ Others(j) /\ job'[j] = NoJob
  BY JobFails DEF JobTyped
<1> QED
  BY <1>1 DEF JobTyped, Moved, Ends

LEMMA GoesAdvances ==
  ASSUME JobTyped, NEW j \in Jobs, NEW at \in {"key", "load", "site"}, Goes(j, at),
         UNCHANGED <<made, acme>>,
         \/ at = "key" /\ job[j].at = "crt"
         \/ at = "load" /\ job[j].at = "key"
         \/ at = "site" /\ job[j].at = "load" /\ job[j].op \notin {"renew", "paste"}
  PROVE  JobTyped' /\ Moved(j)
<1>1. /\ job' \in [Jobs -> Job] /\ Others(j)
      /\ job'[j].at = at /\ job'[j].op = job[j].op /\ job'[j].dom = job[j].dom
      /\ job'[j].v = job[j].v
  BY JobGoes DEF JobTyped
<1> QED
  BY <1>1 DEF JobTyped, Moved, Advances

LEMMA Busily ==
  ASSUME NEW j \in Jobs, job[j].at # "idle"
  PROVE  job[j] # NoJob
BY DEF NoJob

LEMMA OrderBegins ==
  ASSUME JobTyped, NEW j \in Jobs, NEW d \in use.domains, NEW op \in Ordered, d \in Domains,
         Starts(j, d), UNCHANGED <<made, acme, use>>, op = "renew" => cfg[d].mode = "lego",
         job' = [job EXCEPT ![j] = [op |-> op, dom |-> d, at |-> "asking", v |-> 0]]
  PROVE  JobTyped' /\ Moved(j)
<1>1. op \in Ops /\ 0 \in Versions
  BY Givens DEF Ordered, Ops
<1>2. /\ job' \in [Jobs -> Job] /\ Others(j)
      /\ job'[j].op = op /\ job'[j].dom = d /\ job'[j].at = "asking" /\ job'[j].v = 0
  BY <1>1, Begins DEF JobTyped
<1> QED
  BY <1>2 DEF JobTyped, Moved, Begun, Orders, Starts

LEMMA IssuedMoves ==
  ASSUME JobTyped, FlowInv, NEW j \in Jobs, Issued(j)
  PROVE  JobTyped' /\ Moved(j)
<1> DEFINE d == job[j].dom
<1>1. d \in Domains /\ job[j].op \in Ops /\ job[j] \in Job
  BY DEF Issued, FlowInv, Flows, Staged, JobTyped
<1> HIDE DEF d
<1>2. made[d] < MaxVersion /\ made' = [made EXCEPT ![d] = @ + 1]
  BY DEF Issued, d
<1>3. /\ made' \in [Domains -> Versions] /\ made'[d] = made[d] + 1 /\ made'[d] \in Versions
      /\ \A e \in Domains : e # d => made'[e] = made[e]
  BY <1>1, <1>2, OneMore DEF JobTyped
<1> DEFINE r == [job[j] EXCEPT !.at = "crt", !.v = made'[d]]
<1>4. r \in Job /\ r.op = job[j].op /\ r.dom = d /\ r.at = "crt" /\ r.v = made'[d]
  BY <1>1, <1>3 DEF Job, Versions, d
<1>5. job' = [job EXCEPT ![j] = r]
  BY <1>1, <1>3 DEF Issued, d
<1> HIDE DEF r
<1>7. /\ job' \in [Jobs -> Job] /\ Others(j)
      /\ job'[j].op = job[j].op /\ job'[j].dom = d /\ job'[j].at = "crt" /\ job'[j].v = made'[d]
  BY <1>4, <1>5, JobBecomes DEF JobTyped
<1>6. job[j].at = "asking" /\ UNCHANGED acme
  BY DEF Issued, mgrVars
<1> QED
  BY <1>3, <1>6, <1>7 DEF JobTyped, Moved, Receives, NewVersion, d

LEMMA SaveMoves ==
  ASSUME JobTyped, NEW j \in Jobs, NEW d \in Domains, NEW op \in Ops,
         SaveCustomCertificate(j, d, op)
  PROVE  JobTyped' /\ Moved(j)
<1>1. /\ made' \in [Domains -> Versions] /\ made'[d] = made[d] + 1 /\ made'[d] \in Versions
      /\ \A e \in Domains : e # d => made'[e] = made[e]
  BY OneMore DEF JobTyped, SaveCustomCertificate
<1>2. job' = [job EXCEPT ![j] = [op |-> op, dom |-> d, at |-> "crt", v |-> made'[d]]]
  BY <1>1 DEF SaveCustomCertificate
<1>3. /\ job' \in [Jobs -> Job] /\ Others(j)
      /\ job'[j].op = op /\ job'[j].dom = d /\ job'[j].at = "crt" /\ job'[j].v = made'[d]
  BY <1>1, <1>2, Begins DEF JobTyped
<1>4. d \in use.domains /\ op \in {"upload", "paste"} /\ UNCHANGED acme
      /\ job[j] = NoJob /\ MayTouch(d)
  BY DEF SaveCustomCertificate, mgrVars, Does, Starts
<1> QED
  BY <1>1, <1>3, <1>4 DEF JobTyped, Moved, Begun, Uploads, NewVersion

LEMMA HandshakeMoves ==
  ASSUME JobTyped, MgrTyped, NEW j \in Jobs, NEW d \in Domains, Handshake(j, d)
  PROVE  JobTyped' /\ Moved(j) /\ acme' \in [Domains -> Versions]
<1>1. CASE acme[d] # 0
  <2>1. UNCHANGED <<acme, made>> /\ acme[d] \in Versions
    BY <1>1 DEF Handshake, MgrTyped
  <2>2. job' = [job EXCEPT ![j] = [op |-> "auto", dom |-> d, at |-> "store", v |-> acme[d]]]
    BY <2>1 DEF Handshake
  <2>3. /\ job' \in [Jobs -> Job] /\ Others(j)
        /\ job'[j].op = "auto" /\ job'[j].dom = d /\ job'[j].at = "store" /\ job'[j].v = acme[d]
    BY <2>1, <2>2, Begins DEF JobTyped, Ops
  <2> QED
    BY <1>1, <2>1, <2>3 DEF Handshake, Starts, JobTyped, Moved, Begun, AsksAutocert, MgrTyped
<1>2. CASE acme[d] = 0
  <2>1. made[d] < MaxVersion /\ made' = [made EXCEPT ![d] = @ + 1]
        /\ acme' = [acme EXCEPT ![d] = made[d] + 1]
    BY <1>2 DEF Handshake
  <2>2. /\ made' \in [Domains -> Versions] /\ made'[d] = made[d] + 1 /\ made'[d] \in Versions
        /\ \A e \in Domains : e # d => made'[e] = made[e]
    BY <2>1, OneMore DEF JobTyped
  <2>3. acme' \in [Domains -> Versions] /\ acme'[d] = made'[d]
        /\ \A e \in Domains : e # d => acme'[e] = acme[e]
    BY <2>1, <2>2 DEF MgrTyped
  <2>4. job' = [job EXCEPT ![j] = [op |-> "auto", dom |-> d, at |-> "store", v |-> acme'[d]]]
    BY DEF Handshake
  <2>5. /\ job' \in [Jobs -> Job] /\ Others(j)
        /\ job'[j].op = "auto" /\ job'[j].dom = d /\ job'[j].at = "store" /\ job'[j].v = acme'[d]
    BY <2>2, <2>3, <2>4, Begins DEF JobTyped, Ops
  <2> QED
    BY <1>2, <2>2, <2>3, <2>5
       DEF Handshake, Starts, JobTyped, Moved, Begun, AsksAutocert, NewVersion
<1> QED
  BY <1>1, <1>2

LEMMA CompleteMoves ==
  ASSUME JobTyped, RunTyped, NEW j \in Jobs, NEW d \in Domains, NEW op \in Ops,
         CompleteChallenge(j, d, op)
  PROVE  JobTyped' /\ (Moved(j) \/ UNCHANGED <<job, made, acme>>)
<1>1. /\ UNCHANGED <<made, acme, use>> /\ op \in Ordered /\ op # "renew"
      /\ d \in use.domains /\ Starts(j, d)
  BY DEF CompleteChallenge, Ordered, Does
<1>2. CASE pending[d] = "expired"
  BY <1>1, <1>2 DEF CompleteChallenge, JobTyped
<1>3. CASE pending[d] # "expired"
  <2>1. job' = [job EXCEPT ![j] = [op |-> op, dom |-> d, at |-> "asking", v |-> 0]]
    BY <1>3 DEF CompleteChallenge
  <2> QED
    BY <1>1, <2>1, OrderBegins
<1> QED
  BY <1>2, <1>3

LEMMA JobStepMoves ==
  ASSUME CertTyping, FlowInv, NEW j \in Jobs, JobStep(j)
  PROVE  JobTyped' /\ (Moved(j) \/ UNCHANGED <<job, made, acme>>)
<1> USE DEF CertTyping
<1>1. CASE Issued(j)
  BY <1>1, IssuedMoves
<1>2. CASE NotIssued(j)
  BY <1>2, Busily, FailedEnds DEF NotIssued, Failed, mgrVars
<1>3. CASE WriteCrt(j)
  <2>1. job[j].at = "crt" /\ UNCHANGED <<made, acme>> /\ (Goes(j, "key") \/ Failed(j))
    BY <1>3 DEF WriteCrt, mgrVars
  <2>2. job[j] # NoJob
    BY <2>1, Busily
  <2>3. ASSUME Goes(j, "key") PROVE JobTyped' /\ Moved(j)
    BY <2>1, <2>3, GoesAdvances
  <2> QED
    BY <2>1, <2>2, <2>3, FailedEnds
<1>4. CASE WriteKey(j)
  <2>1. job[j].at = "key" /\ UNCHANGED <<made, acme>> /\ (Goes(j, "load") \/ Failed(j))
    BY <1>4 DEF WriteKey, mgrVars
  <2> QED
    BY <2>1, Busily, FailedEnds, GoesAdvances
<1>5. CASE CannotLoad(j)
  BY <1>5, Busily, FailedEnds DEF CannotLoad, mgrVars
<1>6. CASE Load(j)
  <2>1. /\ job[j].at = "load" /\ UNCHANGED <<made, acme>>
        /\ \/ Failed(j)
           \/ Goes(j, "site") /\ job[j].op \notin {"renew", "paste"}
    BY <1>6 DEF Load
  <2> QED
    BY <2>1, Busily, FailedEnds, GoesAdvances
<1>7. CASE TellSite(j)
  BY <1>7, Busily, FailedEnds DEF TellSite, mgrVars
<1>8. CASE TooLateForSite(j)
  BY <1>8, Busily, FailedEnds DEF TooLateForSite, mgrVars
<1>9. CASE StoreHandshake(j)
  BY <1>9, Busily, FailedEnds DEF StoreHandshake
<1>10. ASSUME NEW d \in Domains, OrderByAPI(j, d) PROVE JobTyped' /\ Moved(j)
  BY <1>10, OrderBegins DEF OrderByAPI, mgrVars, Does, Ordered
<1>11. ASSUME NEW d \in Domains, RenewCertificateLego(j, d) PROVE JobTyped' /\ Moved(j)
  BY <1>11, OrderBegins DEF RenewCertificateLego, mgrVars, Does, Ordered
<1>12. ASSUME NEW d \in Domains, Handshake(j, d) PROVE JobTyped' /\ Moved(j)
  BY <1>12, HandshakeMoves
<1>13. ASSUME NEW d \in Domains, NEW op \in Ops,
              SaveCustomCertificate(j, d, op) \/ CompleteChallenge(j, d, op)
       PROVE  JobTyped' /\ (Moved(j) \/ UNCHANGED <<job, made, acme>>)
  BY <1>13, SaveMoves, CompleteMoves
<1> QED
  BY <1>1, <1>2, <1>3, <1>4, <1>5, <1>6, <1>7, <1>8, <1>9, <1>10, <1>11, <1>12, <1>13 DEF JobStep

AcmeInv == \A d \in Domains : acme[d] <= made[d]

LEMMA UseIsFixed ==
  ASSUME [Next]_certVars
  PROVE  UNCHANGED use
<1>1. ASSUME NEW j \in Jobs, JobStep(j) PROVE UNCHANGED use
  BY <1>1 DEF JobStep, Issued, NotIssued, WriteCrt, WriteKey, CannotLoad, Load, TellSite,
              TooLateForSite, StoreHandshake, OrderByAPI, RenewCertificateLego, Handshake,
              SaveCustomCertificate, CompleteChallenge
<1>2. ASSUME NEW d \in Domains, \/ PrepareChallenge(d) \/ Expire(d) \/ RenewCertificate(d)
                                \/ DeleteCertificate(d)
      PROVE  UNCHANGED use
  BY <1>2 DEF PrepareChallenge, Expire, RenewCertificate, DeleteCertificate
<1>3. ASSUME NEW d \in Domains, NEW mode, RequestCertificate(d, mode) PROVE UNCHANGED use
  BY <1>3 DEF RequestCertificate
<1>4. ASSUME NEW d \in Domains, NEW S, Deploy(d, S) PROVE UNCHANGED use
  BY <1>4 DEF Deploy
<1>5. Restart \/ Save \/ UNCHANGED certVars => UNCHANGED use
  BY DEF Restart, Save, certVars
<1> QED
  BY <1>1, <1>2, <1>3, <1>4, <1>5 DEF Next

LEMMA OnlyJobsMove ==
  ASSUME [Next]_certVars, ~ Restart, ~ \E j \in Jobs : JobStep(j)
  PROVE  UNCHANGED <<job, made, acme>>
<1>1. ASSUME NEW d \in Domains, \/ PrepareChallenge(d) \/ Expire(d) \/ RenewCertificate(d)
                                \/ DeleteCertificate(d)
      PROVE  UNCHANGED <<job, made, acme>>
  BY <1>1 DEF PrepareChallenge, Expire, RenewCertificate, DeleteCertificate
<1>2. ASSUME NEW d \in Domains, NEW mode, RequestCertificate(d, mode)
      PROVE  UNCHANGED <<job, made, acme>>
  BY <1>2 DEF RequestCertificate
<1>3. ASSUME NEW d \in Domains, NEW S, Deploy(d, S) PROVE UNCHANGED <<job, made, acme>>
  BY <1>3 DEF Deploy, mgrVars
<1>4. Save \/ UNCHANGED certVars => UNCHANGED <<job, made, acme>>
  BY DEF Save, certVars, mgrVars
<1> QED
  BY <1>1, <1>2, <1>3, <1>4 DEF Next

LEMMA RestartEnds ==
  ASSUME Restart
  PROVE  /\ \A j \in Jobs : job'[j] = NoJob
         /\ job' \in [Jobs -> {NoJob}] /\ UNCHANGED <<made, acme>>
BY DEF Restart

LEMMA MadeGrows ==
  ASSUME JobTyped, FlowInv, NEW j \in Jobs, Moved(j)
  PROVE  /\ \A d \in Domains : made'[d] >= made[d]
         /\ \A i \in Jobs : job[i].at = "store" => acme'[job[i].dom] = acme[job[i].dom]
<1>0. \A d \in Domains : made[d] \in Int
  BY Givens DEF JobTyped, Versions
<1>1. CASE Ends(j) \/ Advances(j)
  BY <1>0, <1>1 DEF Ends, Advances
<1>2. CASE Receives(j)
  <2>1. job[j].dom \in Domains
    BY <1>2 DEF Receives, FlowInv, Flows, Staged
  <2> QED
    BY <1>0, <1>2, <2>1 DEF Receives, NewVersion
<1>3. ASSUME NEW d \in Domains, Begun(j, d), Orders(j, d)
      PROVE  UNCHANGED <<made, acme>>
  BY <1>3 DEF Orders
<1>4. ASSUME NEW d \in Domains, Begun(j, d), Uploads(j, d)
      PROVE  UNCHANGED acme /\ \A e \in Domains : made'[e] >= made[e]
  BY <1>0, <1>4 DEF Uploads, NewVersion
<1>5. ASSUME NEW d \in Domains, Begun(j, d), AsksAutocert(j, d)
      PROVE  /\ \A e \in Domains : made'[e] >= made[e]
             /\ \A i \in Jobs : job[i].at = "store" => acme'[job[i].dom] = acme[job[i].dom]
  <2>1. \A e \in Domains : made'[e] >= made[e]
    BY <1>0, <1>5 DEF AsksAutocert, NewVersion
  <2>2. ASSUME NEW i \in Jobs, job[i].at = "store" PROVE acme'[job[i].dom] = acme[job[i].dom]
    <3>1. job[i].dom \in Domains /\ job[i].v = acme[job[i].dom] /\ job[i].v # 0
      BY <2>2, <1>0 DEF FlowInv, Flows, Staged
    <3> QED
      BY <1>5, <3>1 DEF AsksAutocert
  <2> QED
    BY <2>1, <2>2
<1> QED
  BY <1>0, <1>1, <1>2, <1>3, <1>4, <1>5 DEF Moved, Begun

LEMMA FlowStep ==
  ASSUME CertTyping, FlowInv, AcmeInv, [Next]_certVars
  PROVE  FlowInv' /\ AcmeInv' /\ JobTyped'
<1> USE DEF CertTyping
<1>0. UNCHANGED use
  BY UseIsFixed
<1>1. CASE Restart
  <2>1. \A j \in Jobs : job'[j] = NoJob
    BY <1>1, RestartEnds
  <2>2. FlowInv'
    BY <2>1 DEF FlowInv, Flows, Staged, NoJob
  <2>3. JobTyped' /\ AcmeInv'
    BY <1>1, RestartEnds, Givens DEF JobTyped, AcmeInv
  <2> QED
    BY <2>2, <2>3
<1>2. CASE ~ Restart /\ ~ \E j \in Jobs : JobStep(j)
  <2>1. UNCHANGED <<job, made, acme, use>>
    BY <1>0, <1>2, OnlyJobsMove
  <2> QED
    BY <2>1 DEF FlowInv, Flows, AcmeInv, JobTyped
<1>3. ASSUME NEW j \in Jobs, JobStep(j) PROVE FlowInv' /\ AcmeInv' /\ JobTyped'
  <2>1. JobTyped' /\ (Moved(j) \/ UNCHANGED <<job, made, acme>>)
    BY <1>3, JobStepMoves
  <2>2. CASE UNCHANGED <<job, made, acme>>
    BY <1>0, <2>1, <2>2 DEF FlowInv, Flows, AcmeInv
  <2>3. CASE Moved(j)
    <3>0. /\ \A d \in Domains : made'[d] >= made[d] /\ made[d] \in Int /\ made'[d] \in Int
                                /\ acme[d] \in Int /\ made[d] >= 0 /\ acme[d] >= 0
          /\ \A i \in Jobs : job[i].at = "store" => acme'[job[i].dom] = acme[job[i].dom]
      BY <2>1, <2>3, MadeGrows, Givens DEF JobTyped, MgrTyped, Versions
    <3>1. Flows(j)
      BY DEF FlowInv
    <3>2. Flows(j)' /\ Others(j) /\ AcmeInv'
      <4>1. CASE Ends(j)
        BY <4>1, <3>0 DEF Ends, Flows, Staged, NoJob, AcmeInv
      <4>2. CASE Advances(j)
        BY <4>2, <3>0, <3>1, <1>0 DEF Advances, Flows, Staged, Installed, AcmeInv
      <4>3. CASE Receives(j)
        <5>1. job[j].dom \in Domains /\ job[j].dom \in use.domains /\ job[j].op \in Ordered
          BY <3>1, <4>3 DEF Receives, Flows, Staged
        <5>2. job'[j].v \in 1..made'[job'[j].dom]
          BY <3>0, <4>3, <5>1 DEF Receives, NewVersion
        <5>3. AcmeInv'
          BY <3>0, <4>3, <5>1 DEF Receives, NewVersion, AcmeInv
        <5> QED
          BY <1>0, <3>1, <4>3, <5>1, <5>2, <5>3 DEF Receives, Flows, Staged, Installed, Ordered
      <4>4. ASSUME NEW d \in Domains, Begun(j, d) PROVE Flows(j)' /\ Others(j) /\ AcmeInv'
        <5>0. job'[j].dom = d /\ Others(j)
          BY <4>4 DEF Begun
        <5>1. CASE Orders(j, d)
          BY <5>0, <5>1, <1>0 DEF Orders, Flows, Staged, Ordered, Ops, AcmeInv
        <5>2. CASE Uploads(j, d)
          <6>1. job'[j].v \in 1..made'[d] /\ AcmeInv'
            BY <3>0, <5>2 DEF Uploads, NewVersion, AcmeInv
          <6> QED
            BY <5>0, <5>2, <6>1, <1>0 DEF Uploads, Flows, Staged, Installed, Ops
        <5>3. CASE AsksAutocert(j, d)
          <6>1. job'[j].v \in 1..made'[d] /\ AcmeInv'
            BY <3>0, <5>3 DEF AsksAutocert, NewVersion, AcmeInv
          <6> QED
            BY <5>0, <5>3, <6>1, <1>0 DEF AsksAutocert, Flows, Staged, Ops
        <5> QED
          BY <4>4, <5>1, <5>2, <5>3 DEF Begun
      <4> QED
        BY <2>3, <4>1, <4>2, <4>3, <4>4 DEF Moved
    <3>3. made \in [Domains -> Versions] /\ made' \in [Domains -> Versions] /\ job \in [Jobs -> Job]
      BY <2>1 DEF JobTyped
    <3> QED
      BY <1>0, <2>1, <3>0, <3>2, <3>3, FlowKept
  <2> QED
    BY <2>1, <2>2, <2>3
<1> QED
  BY <1>1, <1>2, <1>3

-----------------------------------------------------------------------------
(* What a step does to a domain: its certificate, files, promises.          *)

\* The other domains keep what they have.
Promises(d) ==
  /\ now' \in [Domains -> Promise] /\ durable' \in [Domains -> Promise]
  /\ \A e \in Domains \ {d} : now'[e] = now[e] /\ durable'[e] = durable[e]

Serves(d) ==
  /\ certs' \in [Domains -> Cert] /\ \A e \in Domains \ {d} : certs'[e] = certs[e]

LEMMA Repromised ==
  ASSUME HistTyped, NEW d \in Domains, NEW p \in Promise, NEW q \in Promise,
         now' = [now EXCEPT ![d] = p], durable' = [durable EXCEPT ![d] = q]
  PROVE  Promises(d) /\ now'[d] = p /\ durable'[d] = q
BY DEF HistTyped, Promises

LEMMA PairIsTyped ==
  ASSUME DiskTyped, NEW d \in Domains
  PROVE  /\ LoadX509KeyPair(d) \in Cert
         /\ LoadX509KeyPair(d) # NoCert => /\ crt[d] # 0 /\ crt[d] = key[d]
                                          /\ LoadX509KeyPair(d).of = d
                                          /\ LoadX509KeyPair(d).v = crt[d]
BY Givens DEF LoadX509KeyPair, DiskTyped, Cert, Versions, NoCert

Modes == {"any", "gone", "custom", "lego", "auto"}

LEMMA PromiseFields ==
  /\ \A p \in Promise : p.v \in Versions /\ p.mode \in Modes
  /\ \A v \in Versions, m \in Modes : [v |-> v, mode |-> m] \in Promise
  /\ \A p \in Promise, m \in Modes : /\ [p EXCEPT !.mode = m] \in Promise
                                    /\ [p EXCEPT !.mode = m].mode = m
                                    /\ [p EXCEPT !.mode = m].v = p.v
  /\ \A p \in Promise, v \in Versions : /\ [p EXCEPT !.v = v] \in Promise
                                       /\ [p EXCEPT !.v = v].v = v
                                       /\ [p EXCEPT !.v = v].mode = p.mode
BY DEF Promise, Modes, Versions

LEMMA LoadEffect ==
  ASSUME CertTyping, FlowInv, NEW j \in Jobs, Load(j)
  PROVE  LET d == job[j].dom
             op == job[j].op
         IN /\ d \in Domains /\ d \in use.domains /\ op \in Installed /\ job[j].v \in Versions
            /\ Serves(d) /\ certs'[d] = LoadX509KeyPair(d) /\ certs'[d] # NoCert
            /\ Promises(d)
            /\ now'[d].v = job[j].v /\ durable'[d].v = durable[d].v
            /\ op = "renew" => /\ now'[d].mode = now[d].mode
                              /\ durable'[d].mode = durable[d].mode /\ UNCHANGED cfg
            /\ op # "renew" =>
                 /\ now'[d].mode = ModeOf(op) /\ durable'[d].mode = "any"
                 /\ \E c \in NamedCfg : c.mode = ModeOf(op) /\ Write(d, c)
                                      /\ (c.mode = "custom" => c.file = d)
            /\ pending' \in [Domains -> {"none", "waiting", "expired"}]
            /\ prepared' = prepared \ (IF op \in {"file", "dns", "api"} THEN {d} ELSE {})
            /\ \A e \in Domains \ {d} : pending'[e] = pending[e]
            /\ op \notin {"file", "dns", "api"} => pending' = pending
<1> USE DEF CertTyping
<1> DEFINE d == job[j].dom
           op == job[j].op
           v == job[j].v
           c == [mode |-> ModeOf(op), file |-> IF ModeOf(op) = "custom" THEN d ELSE cfg[d].file]
<1>1. d \in Domains /\ d \in use.domains /\ op \in Installed /\ v \in Versions
      /\ job[j].at = "load"
  BY DEF Load, FlowInv, Flows, Staged, JobTyped, Job, Versions
<1>2. ModeOf(op) \in {"custom", "lego"}
  BY DEF ModeOf
<1>3. c \in NamedCfg /\ c.mode = ModeOf(op) /\ (c.mode = "custom" => c.file = d)
  <2>1. cfg[d] \in NamedCfg
    BY <1>1, Givens DEF CfgTyped
  <2>2. cfg[d].file \in Domains \cup {NoDomain}
    BY <2>1 DEF NamedCfg, Cfg
  <2> QED
    BY <1>1, <1>2, <2>2 DEF NamedCfg, Cfg
<1>4. /\ LoadX509KeyPair(d) # NoCert
      /\ certs' = [certs EXCEPT ![d] = LoadX509KeyPair(d)]
      /\ IF op = "renew" THEN UNCHANGED cfg ELSE Write(d, c)
      /\ pending' = IF op \in {"file", "dns", "api"} THEN [pending EXCEPT ![d] = "none"] ELSE pending
      /\ prepared' = IF op \in {"file", "dns", "api"} THEN prepared \ {d} ELSE prepared
      /\ now' = [now EXCEPT ![d] = [v |-> v, mode |-> IF op = "renew" THEN @.mode ELSE c.mode]]
      /\ durable' = [durable EXCEPT ![d].mode = IF op = "renew" THEN @ ELSE "any"]
  BY DEF Load
<1> DEFINE p == [v |-> v, mode |-> IF op = "renew" THEN now[d].mode ELSE c.mode]
           q == [durable[d] EXCEPT !.mode = IF op = "renew" THEN durable[d].mode ELSE "any"]
<1>5. now[d] \in Promise /\ durable[d] \in Promise
  BY <1>1 DEF HistTyped
<1>6. now[d].mode \in Modes /\ durable[d].mode \in Modes /\ c.mode \in Modes
  BY <1>2, <1>3, <1>5, PromiseFields DEF Modes
<1> HIDE DEF c
<1>7. p \in Promise /\ p.v = v /\ (op = "renew" => p.mode = now[d].mode)
      /\ (op # "renew" => p.mode = c.mode)
  BY <1>1, <1>6 DEF Promise, Modes, Versions
<1>8. q \in Promise /\ q.v = durable[d].v /\ (op = "renew" => q.mode = durable[d].mode)
      /\ (op # "renew" => q.mode = "any")
  BY <1>5, <1>6 DEF Promise, Modes
<1>9. now' = [now EXCEPT ![d] = p] /\ durable' = [durable EXCEPT ![d] = q]
  <2>1. now' = [now EXCEPT ![d] = p]
    BY <1>4, Zenon
  <2>2. durable' = [durable EXCEPT ![d] = q]
    BY <1>4, Zenon
  <2> QED
    BY <2>1, <2>2
<1> HIDE DEF p, q
<1>10. Promises(d) /\ now'[d] = p /\ durable'[d] = q
  BY <1>1, <1>7, <1>8, <1>9, Repromised
<1>11. Serves(d) /\ certs'[d] = LoadX509KeyPair(d)
  BY <1>1, <1>4, PairIsTyped DEF Serves, MgrTyped
<1>12. /\ pending' \in [Domains -> {"none", "waiting", "expired"}]
       /\ \A e \in Domains \ {d} : pending'[e] = pending[e]
       /\ op \notin {"file", "dns", "api"} => pending' = pending
       /\ prepared' = prepared \ (IF op \in {"file", "dns", "api"} THEN {d} ELSE {})
  BY <1>1, <1>4 DEF MgrTyped
<1>13. op # "renew" => Write(d, c)
  BY <1>4
<1>14. op = "renew" => UNCHANGED cfg
  BY <1>4
<1> HIDE DEF d, op, v
<1>15. /\ d \in Domains /\ d \in use.domains /\ op \in Installed /\ v \in Versions
       /\ Serves(d) /\ certs'[d] = LoadX509KeyPair(d) /\ certs'[d] # NoCert
       /\ Promises(d)
       /\ now'[d].v = v /\ durable'[d].v = durable[d].v
       /\ op = "renew" => /\ now'[d].mode = now[d].mode
                         /\ durable'[d].mode = durable[d].mode /\ UNCHANGED cfg
       /\ op # "renew" =>
            /\ now'[d].mode = ModeOf(op) /\ durable'[d].mode = "any"
            /\ \E b \in NamedCfg : b.mode = ModeOf(op) /\ Write(d, b)
                                 /\ (b.mode = "custom" => b.file = d)
  BY <1>1, <1>3, <1>4, <1>7, <1>8, <1>10, <1>11, <1>13, <1>14
<1> QED
  BY <1>12, <1>15 DEF d, op, v

LEMMA TellEffect ==
  ASSUME CertTyping, FlowInv, NEW j \in Jobs, TellSite(j)
  PROVE  LET d == job[j].dom
         IN /\ d \in Domains /\ d \in use.domains /\ job[j].v \in Versions /\ job[j].at = "site"
            /\ Promises(d) /\ UNCHANGED <<certs, hosts, acme, crt, key, now, prepared, pending, restarts>>
            /\ durable'[d].v = job[j].v /\ durable'[d].mode = ModeOf(job[j].op)
            /\ ModeOf(job[j].op) \in {"custom", "lego"}
            /\ UpdateSiteSSLConfig(d, ModeOf(job[j].op))
<1> USE DEF CertTyping
<1> DEFINE d == job[j].dom
           v == job[j].v
           m == ModeOf(job[j].op)
           q == [v |-> v, mode |-> m]
<1>1. d \in Domains /\ d \in use.domains /\ v \in Versions /\ job[j].at = "site"
  BY DEF TellSite, FlowInv, Flows, Staged, JobTyped, Job, Versions
<1>2. m \in {"custom", "lego"}
  BY DEF ModeOf
<1>3. q \in Promise /\ q.v = v /\ q.mode = m
  BY <1>1, <1>2, PromiseFields DEF Modes
<1>4. durable' = [durable EXCEPT ![d] = q] /\ UpdateSiteSSLConfig(d, m)
      /\ UNCHANGED <<certs, hosts, acme, crt, key, now, prepared, pending, restarts>>
  BY DEF TellSite, mgrVars, diskVars
<1> HIDE DEF d, v, m, q
<1>5. Promises(d) /\ durable'[d] = q
  BY <1>1, <1>3, <1>4 DEF HistTyped, Promises
<1>6. durable'[d].v = v /\ durable'[d].mode = m
  BY <1>3, <1>5
<1>7. /\ d \in Domains /\ d \in use.domains /\ v \in Versions
      /\ Promises(d) /\ UNCHANGED <<certs, hosts, acme, crt, key, now, prepared, pending, restarts>>
      /\ durable'[d].v = v /\ durable'[d].mode = m /\ m \in {"custom", "lego"}
      /\ UpdateSiteSSLConfig(d, m)
  BY <1>1, <1>2, <1>4, <1>5, <1>6
<1> QED
  BY <1>1, <1>7 DEF d, v, m

LEMMA RequestEffect ==
  ASSUME CertTyping, NEW d \in Domains, NEW mode \in {"auto", "lego"}, RequestCertificate(d, mode)
  PROVE  /\ d \in use.domains /\ "auto" \in use.ops /\ MayTouch(d)
         /\ Promises(d)
         /\ UNCHANGED <<certs, acme, crt, key, job, made, pending, prepared, restarts>>
         /\ now'[d].v = now[d].v /\ durable'[d].v = durable[d].v
         /\ now'[d].mode = IF now[d].mode = "gone" THEN "any" ELSE now[d].mode
         /\ durable'[d].mode = mode
         /\ hosts' \subseteq Domains
         /\ mode = "lego" => hosts' = hosts
         /\ mode = "auto" => d \in hosts'
         /\ UpdateSiteSSLConfig(d, mode)
<1> USE DEF CertTyping
<1> DEFINE p == IF now[d].mode = "gone" THEN [now[d] EXCEPT !.mode = "any"] ELSE now[d]
           q == [durable[d] EXCEPT !.mode = mode]
<1>1. d \in use.domains /\ "auto" \in use.ops /\ MayTouch(d)
      /\ UNCHANGED <<certs, acme, crt, key, job, made, pending, prepared, restarts>>
      /\ UpdateSiteSSLConfig(d, mode)
  BY DEF RequestCertificate, Does, diskVars
<1>2. now' = [now EXCEPT ![d] = p] /\ durable' = [durable EXCEPT ![d] = q]
  BY DEF RequestCertificate
<1>3. now[d] \in Promise /\ durable[d] \in Promise
  BY DEF HistTyped
<1>4. p \in Promise /\ p.v = now[d].v
      /\ p.mode = IF now[d].mode = "gone" THEN "any" ELSE now[d].mode
  BY <1>3 DEF Promise
<1>5. q \in Promise /\ q.v = durable[d].v /\ q.mode = mode
  BY <1>3 DEF Promise
<1> HIDE DEF p, q
<1>6. Promises(d) /\ now'[d] = p /\ durable'[d] = q
  BY <1>2, <1>4, <1>5, Repromised
<1>7. /\ hosts' \subseteq Domains /\ (mode = "lego" => hosts' = hosts)
      /\ (mode = "auto" => d \in hosts')
  BY DEF RequestCertificate, MgrTyped
<1> QED
  BY <1>1, <1>4, <1>5, <1>6, <1>7

LEMMA RenewEffect ==
  ASSUME CertTyping, NEW d \in Domains, RenewCertificate(d)
  PROVE  /\ d \in use.domains /\ MayTouch(d) /\ cfg[d].mode = "auto"
         /\ Serves(d) /\ certs'[d] = NoCert /\ Promises(d)
         /\ now'[d].v = 0 /\ now'[d].mode = now[d].mode
         /\ UNCHANGED <<hosts, acme, pending, cfgVars, crt, key, job, made, durable, prepared, restarts>>
<1> USE DEF CertTyping
<1> DEFINE p == [now[d] EXCEPT !.v = 0]
<1>1. now[d] \in Promise
  BY DEF HistTyped
<1>2. p \in Promise /\ p.v = 0 /\ p.mode = now[d].mode
  BY <1>1, PromiseFields, Givens
<1>3. now' = [now EXCEPT ![d] = p] /\ UNCHANGED durable
  BY DEF RenewCertificate
<1> HIDE DEF p
<1>4. Promises(d) /\ now'[d] = p
  BY <1>2, <1>3 DEF HistTyped, Promises
<1>5. Serves(d) /\ certs'[d] = NoCert
  BY Givens DEF RenewCertificate, Serves, MgrTyped
<1> QED
  BY <1>2, <1>4, <1>5 DEF RenewCertificate, Does, diskVars

LEMMA DeleteEffect ==
  ASSUME CertTyping, NEW d \in Domains, DeleteCertificate(d)
  PROVE  /\ d \in use.domains /\ MayTouch(d)
         /\ Serves(d) /\ certs'[d] = NoCert /\ Promises(d)
         /\ now'[d].v = 0 /\ now'[d].mode = "gone" /\ durable'[d].v = 0 /\ durable'[d].mode = "gone"
         /\ crt' = [crt EXCEPT ![d] = 0] /\ key' = [key EXCEPT ![d] = 0]
         /\ cfg' \in [Holders -> NamedCfg] /\ \A y \in Holders \ {d, SiteOf[d]} : cfg'[y] = cfg[y]
         /\ cfg'[d] = NoCfg /\ cfg'[SiteOf[d]].mode = "off"
         /\ same' = Without({d, SiteOf[d]}) /\ saved' = [s \in Sites |-> cfg'[s]]
         /\ UNCHANGED <<hosts, acme, pending, job, made, prepared, restarts>>
<1> USE DEF CertTyping
<1> DEFINE p == [v |-> 0, mode |-> "gone"]
           off == [mode |-> "off", file |-> NoDomain]
<1>1. p \in Promise /\ p.v = 0 /\ p.mode = "gone"
  BY PromiseFields, Givens DEF Modes
<1>2. now' = [now EXCEPT ![d] = p] /\ durable' = [durable EXCEPT ![d] = now'[d]]
  BY DEF DeleteCertificate
<1>3. off \in NamedCfg /\ off.mode = "off"
  BY DEF NamedCfg, Cfg
<1>4. cfg' = [cfg EXCEPT ![d] = NoCfg, ![SiteOf[d]] = off]
  BY DEF DeleteCertificate
<1>5. d \in Holders /\ SiteOf[d] \in Holders /\ SiteOf[d] # d
  BY Givens
<1> HIDE DEF p, off
<1>6. now'[d] = p
  BY <1>2 DEF HistTyped
<1>7. Promises(d) /\ durable'[d] = p
  BY <1>1, <1>2, <1>6, Repromised
<1>8. Serves(d) /\ certs'[d] = NoCert
  BY Givens DEF DeleteCertificate, Serves, MgrTyped
<1>9. /\ cfg' \in [Holders -> NamedCfg] /\ \A y \in Holders \ {d, SiteOf[d]} : cfg'[y] = cfg[y]
      /\ cfg'[d] = NoCfg /\ cfg'[SiteOf[d]].mode = "off"
  BY <1>3, <1>4, <1>5, Givens DEF CfgTyped
<1> QED
  BY <1>1, <1>6, <1>7, <1>8, <1>9 DEF DeleteCertificate, Does

LEMMA DeployEffect ==
  ASSUME CertTyping, NEW d \in Domains, NEW S \in SUBSET Sites, Deploy(d, S)
  PROVE  /\ NewSiteConfig(S, [mode |-> "custom", file |-> d])
         /\ [mode |-> "custom", file |-> d] \in NamedCfg
         /\ durable' \in [Domains -> Promise]
         /\ \A e \in Domains : durable'[e] = IF SiteOf[e] \in S THEN [v |-> 0, mode |-> "any"] ELSE durable[e]
         /\ UNCHANGED <<certs, hosts, acme, pending, crt, key, now, job, prepared, made, restarts>>
<1> USE DEF CertTyping
<1> DEFINE p == [v |-> 0, mode |-> "any"]
<1>1. p \in Promise
  BY PromiseFields, Givens DEF Modes
<1>2. durable' = [e \in Domains |-> IF SiteOf[e] \in S THEN p ELSE durable[e]]
  BY DEF Deploy
<1> HIDE DEF p
<1>3. durable' \in [Domains -> Promise]
  BY <1>1, <1>2 DEF HistTyped
<1>4. [mode |-> "custom", file |-> d] \in NamedCfg
  BY DEF NamedCfg, Cfg
<1>5. \A e \in Domains : durable'[e] = IF SiteOf[e] \in S THEN p ELSE durable[e]
  BY <1>2
<1> QED
  BY <1>3, <1>4, <1>5 DEF Deploy, mgrVars, diskVars, p

-----------------------------------------------------------------------------
(* Every step keeps the types.                                              *)

Rest == MgrTyped /\ CfgTyped /\ DiskTyped /\ HistTyped /\ RunTyped

LEMMA StoreEffect ==
  ASSUME CertTyping, FlowInv, NEW j \in Jobs, StoreHandshake(j)
  PROVE  LET d == job[j].dom
         IN /\ d \in Domains /\ job[j].at = "store" /\ job[j].v = acme[d] /\ acme[d] # 0
            /\ Serves(d) /\ certs'[d] = [of |-> d, v |-> acme[d]]
            /\ UNCHANGED <<hosts, acme, pending, cfgVars, diskVars, hist, made, restarts>>
<1> DEFINE d == job[j].dom
           v == job[j].v
           c == [of |-> d, v |-> v]
<1>1. d \in Domains /\ v = acme[d] /\ job[j].at = "store" /\ v \in 1..made[d] /\ v \in Versions
  BY DEF StoreHandshake, FlowInv, Flows, Staged, CertTyping, JobTyped, Job, Versions
<1>2. v # 0
  BY <1>1, Givens DEF CertTyping, JobTyped, Versions
<1>3. c \in Cert
  BY <1>1 DEF Cert, Versions
<1>4. certs' = [certs EXCEPT ![d] = c]
      /\ UNCHANGED <<hosts, acme, pending, cfgVars, diskVars, hist, made, restarts>>
  BY DEF StoreHandshake
<1> HIDE DEF c, d, v
<1>5. Serves(d) /\ certs'[d] = c
  BY <1>1, <1>3, <1>4 DEF Serves, CertTyping, MgrTyped
<1>6. certs'[d] = [of |-> d, v |-> acme[d]]
  BY <1>1, <1>5 DEF c
<1>7. /\ d \in Domains /\ job[j].at = "store" /\ v = acme[d] /\ acme[d] # 0
      /\ Serves(d) /\ certs'[d] = [of |-> d, v |-> acme[d]]
      /\ UNCHANGED <<hosts, acme, pending, cfgVars, diskVars, hist, made, restarts>>
  BY <1>1, <1>2, <1>4, <1>5, <1>6
<1> QED
  BY <1>7 DEF d, v

LEMMA RestartTypes ==
  ASSUME CertTyping, Restart
  PROVE  Rest'
<1> USE DEF CertTyping
<1>1. LoadSiteCertificates /\ UNCHANGED <<acme, saved, crt, key, durable, use>>
      /\ pending' = [d \in Domains |-> "none"] /\ now' = durable /\ prepared' = {}
      /\ restarts' = restarts + 1 /\ restarts < MaxRestarts
  BY DEF Restart, diskVars
<1>2. certs' \in [Domains -> Cert] /\ CfgTyped'
      /\ hosts' = {d \in Domains : saved[SiteOf[d]].mode = "auto"}
  BY <1>1, LoadIsTyped
<1>3. MgrTyped'
  BY <1>1, <1>2 DEF MgrTyped
<1>4. RunTyped'
  BY <1>1, CertificatesAssumption DEF RunTyped
<1>5. DiskTyped' /\ HistTyped'
  BY <1>1 DEF DiskTyped, HistTyped
<1> QED
  BY <1>2, <1>3, <1>4, <1>5 DEF Rest

LEMMA WriteTypes ==
  ASSUME CertTyping, FlowInv, NEW j \in Jobs, WriteCrt(j) \/ WriteKey(j)
  PROVE  Rest'
<1> USE DEF CertTyping
<1>1. job[j].dom \in Domains /\ job[j].v \in Versions /\ 0 \in Versions
  BY Givens DEF WriteCrt, WriteKey, FlowInv, Flows, Staged, JobTyped, Job, Versions
<1>2. DiskTyped'
  BY <1>1 DEF WriteCrt, WriteKey, DiskTyped
<1>3. UNCHANGED <<mgrVars, cfgVars, hist, restarts, use>>
  BY DEF WriteCrt, WriteKey
<1> QED
  BY <1>2, <1>3, Unchanging DEF Rest

LEMMA LoadTypes ==
  ASSUME CertTyping, FlowInv, NEW j \in Jobs, Load(j)
  PROVE  Rest'
<1> USE DEF CertTyping
<1> DEFINE d == job[j].dom
<1>1. /\ d \in Domains /\ Serves(d) /\ Promises(d)
      /\ pending' \in [Domains -> {"none", "waiting", "expired"}]
      /\ prepared' \subseteq prepared
      /\ job[j].op = "renew" => UNCHANGED cfg
      /\ job[j].op # "renew" => \E c \in NamedCfg : Write(d, c)
  BY LoadEffect
<1>2. UNCHANGED <<hosts, acme, same, saved, diskVars, restarts, use>>
  BY DEF Load
<1> HIDE DEF d
<1>3. CfgTyped'
  <2>1. CASE UNCHANGED cfg
    BY <1>2, <2>1, Unchanging DEF cfgVars
  <2>2. ASSUME NEW c \in NamedCfg, Write(d, c) PROVE CfgTyped'
    BY <1>1, <1>2, <2>2, WriteKeeps, Givens
  <2> QED
    BY <1>1, <2>1, <2>2
<1>4. MgrTyped' /\ HistTyped'
  BY <1>1, <1>2 DEF MgrTyped, HistTyped, Serves, Promises
<1> QED
  BY <1>2, <1>3, <1>4, Unchanging DEF Rest

LEMMA JobStepTypes ==
  ASSUME CertTyping, FlowInv, NEW j \in Jobs, JobStep(j)
  PROVE  Rest'
<1> USE DEF CertTyping
<1>1. CASE Issued(j) \/ NotIssued(j) \/ CannotLoad(j) \/ TooLateForSite(j)
  <2>1. UNCHANGED <<mgrVars, cfgVars, diskVars, hist, restarts, use>>
    BY <1>1 DEF Issued, NotIssued, CannotLoad, TooLateForSite
  <2> QED
    BY <2>1, Unchanging DEF Rest
<1>2. CASE TellSite(j)
  <2>1. /\ job[j].dom \in Domains /\ Promises(job[j].dom)
        /\ UNCHANGED <<mgrVars, diskVars, prepared, restarts>>
        /\ ModeOf(job[j].op) \in {"custom", "lego"}
        /\ UpdateSiteSSLConfig(job[j].dom, ModeOf(job[j].op))
    BY <1>2, TellEffect DEF mgrVars, diskVars
  <2>2. CfgTyped' /\ UNCHANGED use
    BY <1>2, <2>1, TellKeeps DEF TellSite
  <2> QED
    BY <2>1, <2>2, Unchanging DEF Rest, HistTyped, Promises
<1>3. CASE StoreHandshake(j)
  <2>1. /\ Serves(job[j].dom) /\ UNCHANGED <<hosts, acme, pending, cfgVars, diskVars, hist, restarts>>
    BY <1>3, StoreEffect
  <2>2. UNCHANGED use
    BY <1>3 DEF StoreHandshake
  <2> QED
    BY <2>1, <2>2, Unchanging DEF Rest, MgrTyped, Serves
<1>4. ASSUME NEW d \in Domains, OrderByAPI(j, d) \/ RenewCertificateLego(j, d) PROVE Rest'
  <2>1. UNCHANGED <<mgrVars, cfgVars, diskVars, hist, restarts, use>>
    BY <1>4 DEF OrderByAPI, RenewCertificateLego
  <2> QED
    BY <2>1, Unchanging DEF Rest
<1>5. ASSUME NEW d \in Domains, Handshake(j, d) PROVE Rest'
  <2>1. UNCHANGED <<certs, hosts, pending, cfgVars, diskVars, hist, restarts, use>>
    BY <1>5 DEF Handshake
  <2>2. acme' \in [Domains -> Versions]
    BY <1>5, HandshakeMoves
  <2> QED
    BY <2>1, <2>2, Unchanging DEF Rest, MgrTyped
<1>6. ASSUME NEW d \in Domains, NEW op \in Ops, SaveCustomCertificate(j, d, op) PROVE Rest'
  <2>1. UNCHANGED <<mgrVars, cfgVars, diskVars, hist, restarts, use>>
    BY <1>6 DEF SaveCustomCertificate
  <2> QED
    BY <2>1, Unchanging DEF Rest
<1>7. ASSUME NEW d \in Domains, NEW op \in Ops, CompleteChallenge(j, d, op) PROVE Rest'
  <2>1. UNCHANGED <<certs, hosts, acme, cfgVars, diskVars, hist, restarts, use>>
    BY <1>7 DEF CompleteChallenge
  <2>2. pending' \in [Domains -> {"none", "waiting", "expired"}]
    BY <1>7 DEF CompleteChallenge, MgrTyped
  <2> QED
    BY <2>1, <2>2, Unchanging DEF Rest, MgrTyped
<1> QED
  BY <1>1, <1>2, <1>3, <1>4, <1>5, <1>6, <1>7, WriteTypes, LoadTypes DEF JobStep

LEMMA RequestTypes ==
  ASSUME CertTyping, NEW d \in Domains, UNCHANGED use,
         \/ PrepareChallenge(d) \/ Expire(d) \/ RenewCertificate(d) \/ DeleteCertificate(d)
         \/ \E mode \in {"auto", "lego"} : RequestCertificate(d, mode)
         \/ \E S \in SUBSET Sites : Deploy(d, S)
  PROVE  Rest'
<1> USE DEF CertTyping
<1>1. CASE PrepareChallenge(d) \/ Expire(d)
  <2>1. UNCHANGED <<certs, hosts, acme, cfgVars, diskVars, now, durable, restarts>>
    BY <1>1 DEF PrepareChallenge, Expire
  <2>2. MgrTyped' /\ HistTyped'
    BY <1>1, <2>1 DEF PrepareChallenge, Expire, MgrTyped, HistTyped
  <2> QED
    BY <2>1, <2>2, Unchanging DEF Rest
<1>2. CASE RenewCertificate(d)
  <2>1. Serves(d) /\ Promises(d) /\ UNCHANGED <<hosts, acme, pending, cfgVars, crt, key, prepared, restarts>>
    BY <1>2, RenewEffect
  <2>2. MgrTyped' /\ HistTyped'
    BY <2>1 DEF MgrTyped, HistTyped, Serves, Promises
  <2> QED
    BY <2>1, <2>2, Unchanging DEF Rest, diskVars
<1>3. CASE DeleteCertificate(d)
  <2>1. /\ Serves(d) /\ Promises(d) /\ UNCHANGED <<hosts, acme, pending, prepared, restarts>>
        /\ crt' = [crt EXCEPT ![d] = 0] /\ key' = [key EXCEPT ![d] = 0]
    BY <1>3, DeleteEffect
  <2>2. MgrTyped' /\ HistTyped' /\ DiskTyped'
    BY <2>1, Givens DEF MgrTyped, HistTyped, DiskTyped, Serves, Promises
  <2> QED
    BY <1>3, <2>1, <2>2, DeleteKeeps, Unchanging DEF Rest
<1>4. ASSUME NEW mode \in {"auto", "lego"}, RequestCertificate(d, mode) PROVE Rest'
  <2>1. /\ Promises(d) /\ hosts' \subseteq Domains /\ UpdateSiteSSLConfig(d, mode)
        /\ UNCHANGED <<certs, acme, pending, crt, key, prepared, restarts>>
    BY <1>4, RequestEffect
  <2>2. MgrTyped' /\ HistTyped'
    BY <2>1 DEF MgrTyped, HistTyped, Promises
  <2> QED
    BY <2>1, <2>2, TellKeeps, Unchanging DEF Rest, diskVars
<1>5. ASSUME NEW S \in SUBSET Sites, Deploy(d, S) PROVE Rest'
  <2>1. /\ NewSiteConfig(S, [mode |-> "custom", file |-> d])
        /\ [mode |-> "custom", file |-> d] \in NamedCfg
        /\ durable' \in [Domains -> Promise]
        /\ UNCHANGED <<mgrVars, diskVars, now, prepared, restarts>>
    BY <1>5, DeployEffect DEF mgrVars, diskVars
  <2>2. CfgTyped' /\ HistTyped'
    BY <2>1, NewSiteKeeps DEF HistTyped
  <2> QED
    BY <2>1, <2>2, Unchanging DEF Rest
<1> QED
  BY <1>1, <1>2, <1>3, <1>4, <1>5

LEMMA TypingStep ==
  ASSUME CertTyping, FlowInv, AcmeInv, [Next]_certVars
  PROVE  CertTyping' /\ FlowInv' /\ AcmeInv'
<1>0. UNCHANGED use /\ FlowInv' /\ AcmeInv' /\ JobTyped'
  BY UseIsFixed, FlowStep
<1>1. CASE UNCHANGED certVars
  <2>1. UNCHANGED <<mgrVars, cfgVars, diskVars, hist, job, made, restarts, use>>
    BY <1>1 DEF certVars
  <2> QED
    BY <1>0, <2>1, Unchanging DEF CertTyping
<1>2. CASE Save
  <2>1. UNCHANGED <<mgrVars, cfg, same, diskVars, hist, restarts>> /\ saved' = [s \in Sites |-> cfg[s]]
    BY <1>2 DEF Save
  <2>2. CfgTyped'
    BY <2>1, Givens DEF CertTyping, CfgTyped, Agree
  <2> QED
    BY <1>0, <2>1, <2>2, Unchanging DEF CertTyping
<1> QED
  BY <1>0, <1>1, <1>2, RestartTypes, JobStepTypes, RequestTypes DEF Next, Rest, CertTyping

-----------------------------------------------------------------------------
(* Versions grow, and without overlaps a job is alone with its domain.      *)

LEMMA VersionsGrow ==
  ASSUME CertTyping, FlowInv, [Next]_certVars
  PROVE  \A d \in Domains : made'[d] >= made[d]
<1>0. \A d \in Domains : made[d] \in Int
  BY Givens DEF CertTyping, JobTyped, Versions
<1>1. CASE UNCHANGED made
  BY <1>0, <1>1
<1>2. ASSUME NEW j \in Jobs, JobStep(j) PROVE \A d \in Domains : made'[d] >= made[d]
  BY <1>1, <1>2, JobStepMoves, MadeGrows DEF CertTyping
<1> QED
  BY <1>1, <1>2, OnlyJobsMove, RestartEnds

LEMMA RestartsStay ==
  ASSUME [Next]_certVars, ~ Restart
  PROVE  UNCHANGED restarts
<1>1. ASSUME NEW j \in Jobs, JobStep(j) PROVE UNCHANGED restarts
  BY <1>1 DEF JobStep, Issued, NotIssued, WriteCrt, WriteKey, CannotLoad, Load, TellSite,
              TooLateForSite, StoreHandshake, OrderByAPI, RenewCertificateLego, Handshake,
              SaveCustomCertificate, CompleteChallenge
<1>2. ASSUME NEW d \in Domains, \/ PrepareChallenge(d) \/ Expire(d) \/ RenewCertificate(d)
                                 \/ DeleteCertificate(d)
      PROVE  UNCHANGED restarts
  BY <1>2 DEF PrepareChallenge, Expire, RenewCertificate, DeleteCertificate
<1>3. ASSUME NEW d \in Domains, NEW mode, RequestCertificate(d, mode) PROVE UNCHANGED restarts
  BY <1>3 DEF RequestCertificate
<1>4. ASSUME NEW d \in Domains, NEW S, Deploy(d, S) PROVE UNCHANGED restarts
  BY <1>4 DEF Deploy
<1>5. Save \/ UNCHANGED certVars => UNCHANGED restarts
  BY DEF Save, certVars
<1> QED
  BY <1>1, <1>2, <1>3, <1>4, <1>5 DEF Next

LEMMA FilesMove ==
  ASSUME [Next]_certVars, ~ \E j \in Jobs : WriteCrt(j) \/ WriteKey(j),
         ~ \E d \in Domains : DeleteCertificate(d)
  PROVE  UNCHANGED <<crt, key>>
<1>1. ASSUME NEW j \in Jobs, JobStep(j) PROVE UNCHANGED <<crt, key>>
  BY <1>1 DEF JobStep, Issued, NotIssued, CannotLoad, Load, TellSite, TooLateForSite,
              StoreHandshake, OrderByAPI, RenewCertificateLego, Handshake,
              SaveCustomCertificate, CompleteChallenge, diskVars
<1>2. ASSUME NEW d \in Domains, PrepareChallenge(d) \/ Expire(d) \/ RenewCertificate(d)
      PROVE  UNCHANGED <<crt, key>>
  BY <1>2 DEF PrepareChallenge, Expire, RenewCertificate, diskVars
<1>3. ASSUME NEW d \in Domains, NEW mode, RequestCertificate(d, mode) PROVE UNCHANGED <<crt, key>>
  BY <1>3 DEF RequestCertificate, diskVars
<1>4. ASSUME NEW d \in Domains, NEW S, Deploy(d, S) PROVE UNCHANGED <<crt, key>>
  BY <1>4 DEF Deploy, diskVars
<1>5. Restart \/ Save \/ UNCHANGED certVars => UNCHANGED <<crt, key>>
  BY DEF Restart, Save, certVars, diskVars
<1> QED
  BY <1>1, <1>2, <1>3, <1>4, <1>5 DEF Next

LEMMA PromisesMove ==
  ASSUME [Next]_certVars, ~ Restart, ~ \E j \in Jobs : Load(j) \/ TellSite(j),
         ~ \E d \in Domains :
             \/ RenewCertificate(d) \/ DeleteCertificate(d)
             \/ \E mode \in {"auto", "lego"} : RequestCertificate(d, mode)
             \/ \E S \in SUBSET Sites : Deploy(d, S)
  PROVE  UNCHANGED <<now, durable>>
<1>1. ASSUME NEW j \in Jobs, JobStep(j) PROVE UNCHANGED <<now, durable>>
  BY <1>1 DEF JobStep, Issued, NotIssued, WriteCrt, WriteKey, CannotLoad, TooLateForSite,
              StoreHandshake, OrderByAPI, RenewCertificateLego, Handshake,
              SaveCustomCertificate, CompleteChallenge, hist
<1>2. ASSUME NEW d \in Domains, PrepareChallenge(d) \/ Expire(d)
      PROVE  UNCHANGED <<now, durable>>
  BY <1>2 DEF PrepareChallenge, Expire
<1>3. Save \/ UNCHANGED certVars => UNCHANGED <<now, durable>>
  BY DEF Save, certVars, hist
<1> QED
  BY <1>1, <1>2, <1>3 DEF Next

VersionInv ==
  \A d \in Domains : /\ crt[d] <= made[d] /\ key[d] <= made[d]
                     /\ now[d].v <= made[d] /\ durable[d].v <= made[d]

\* What is not a certificate just written or promised is not newer than it was.
LEMMA VersionsStay ==
  ASSUME CertTyping, CertTyping', FlowInv, VersionInv, [Next]_certVars,
         \A d \in Domains :
           /\ crt'[d] <= crt[d] \/ crt'[d] <= made[d]
           /\ key'[d] <= key[d] \/ key'[d] <= made[d]
           /\ now'[d].v \in {now[d].v, durable[d].v} \/ now'[d].v <= made[d]
           /\ durable'[d].v = durable[d].v \/ durable'[d].v <= made[d]
  PROVE  VersionInv'
<1> SUFFICES ASSUME NEW d \in Domains
             PROVE  /\ crt'[d] <= made'[d] /\ key'[d] <= made'[d]
                    /\ now'[d].v <= made'[d] /\ durable'[d].v <= made'[d]
  BY DEF VersionInv
<1>1. \A p \in Promise : p.v \in Int
  BY PromiseFields, Givens DEF Versions
<1>2. /\ crt[d] \in Int /\ crt'[d] \in Int /\ key[d] \in Int /\ key'[d] \in Int
      /\ made[d] \in Int /\ made'[d] \in Int /\ made'[d] >= made[d]
  BY VersionsGrow, Givens DEF CertTyping, DiskTyped, JobTyped, Versions
<1>3. now[d].v \in Int /\ now'[d].v \in Int /\ durable[d].v \in Int /\ durable'[d].v \in Int
  BY <1>1 DEF CertTyping, HistTyped
<1> QED
  BY <1>2, <1>3 DEF VersionInv

LEMMA VersionsStep ==
  ASSUME CertTyping, FlowInv, AcmeInv, VersionInv, [Next]_certVars
  PROVE  VersionInv'
<1>0. CertTyping'
  BY TypingStep
<1>1. \A d \in Domains : /\ crt[d] \in Int /\ key[d] \in Int /\ now[d].v \in Int
                         /\ durable[d].v \in Int /\ made[d] \in Int /\ made[d] >= 0
  <2>1. \A p \in Promise : p.v \in Int
    BY PromiseFields, Givens DEF Versions
  <2> QED
    BY <2>1, Givens DEF CertTyping, DiskTyped, HistTyped, JobTyped, Versions
<1>2. ASSUME NEW j \in Jobs, job[j].at \in {"crt", "key", "load", "site"}
      PROVE  job[j].dom \in Domains /\ job[j].v <= made[job[j].dom]
  BY <1>2, <1>1 DEF FlowInv, Flows, Staged
<1>3. ASSUME NEW j \in Jobs, WriteCrt(j) \/ WriteKey(j) PROVE VersionInv'
  <2>1. \A d \in Domains : /\ crt'[d] <= crt[d] \/ crt'[d] <= made[d]
                           /\ key'[d] <= key[d] \/ key'[d] <= made[d]
    BY <1>1, <1>2, <1>3 DEF WriteCrt, WriteKey, CertTyping, DiskTyped
  <2>2. UNCHANGED <<now, durable>>
    BY <1>3 DEF WriteCrt, WriteKey, hist
  <2> QED
    BY <1>0, <2>1, <2>2, VersionsStay
<1>4. ASSUME NEW d \in Domains, DeleteCertificate(d) PROVE VersionInv'
  <2>1. /\ crt' = [crt EXCEPT ![d] = 0] /\ key' = [key EXCEPT ![d] = 0] /\ Promises(d)
        /\ now'[d].v = 0 /\ durable'[d].v = 0
    BY <1>4, DeleteEffect
  <2>2. \A e \in Domains : /\ crt'[e] <= crt[e] \/ crt'[e] <= made[e]
                           /\ key'[e] <= key[e] \/ key'[e] <= made[e]
    BY <1>1, <2>1 DEF CertTyping, DiskTyped
  <2>3. \A e \in Domains : /\ now'[e].v = now[e].v \/ now'[e].v <= made[e]
                           /\ durable'[e].v = durable[e].v \/ durable'[e].v <= made[e]
    BY <1>1, <2>1 DEF Promises
  <2> QED
    BY <1>0, <2>2, <2>3, VersionsStay
<1>5. CASE /\ ~ \E j \in Jobs : WriteCrt(j) \/ WriteKey(j)
           /\ ~ \E d \in Domains : DeleteCertificate(d)
  <2>0. UNCHANGED <<crt, key>>
    BY <1>5, FilesMove
  <2>1. \A d \in Domains : /\ now'[d].v \in {now[d].v, durable[d].v} \/ now'[d].v <= made[d]
                           /\ durable'[d].v = durable[d].v \/ durable'[d].v <= made[d]
    <3>1. CASE Restart
      BY <3>1 DEF Restart
    <3>2. ASSUME NEW j \in Jobs, Load(j)
          PROVE  \A d \in Domains : /\ now'[d].v = now[d].v \/ now'[d].v <= made[d]
                                    /\ durable'[d].v = durable[d].v
      <4>1. /\ job[j].dom \in Domains /\ Promises(job[j].dom)
            /\ now'[job[j].dom].v = job[j].v /\ durable'[job[j].dom].v = durable[job[j].dom].v
        BY <3>2, LoadEffect
      <4>2. job[j].v <= made[job[j].dom]
        BY <1>2, <3>2 DEF Load
      <4> QED
        BY <4>1, <4>2 DEF Promises
    <3>3. ASSUME NEW j \in Jobs, TellSite(j)
          PROVE  \A d \in Domains : /\ now'[d].v = now[d].v
                                    /\ durable'[d].v = durable[d].v \/ durable'[d].v <= made[d]
      <4>1. /\ job[j].dom \in Domains /\ Promises(job[j].dom)
            /\ durable'[job[j].dom].v = job[j].v /\ UNCHANGED now
        BY <3>3, TellEffect
      <4>2. job[j].v <= made[job[j].dom]
        BY <1>2, <3>3 DEF TellSite
      <4> QED
        BY <4>1, <4>2 DEF Promises
    <3>4. ASSUME NEW d \in Domains, RenewCertificate(d)
          PROVE  \A e \in Domains : /\ now'[e].v = now[e].v \/ now'[e].v <= made[e]
                                    /\ durable'[e].v = durable[e].v
      BY <1>1, <3>4, RenewEffect DEF Promises
    <3>5. ASSUME NEW d \in Domains, NEW mode \in {"auto", "lego"}, RequestCertificate(d, mode)
          PROVE  \A e \in Domains : now'[e].v = now[e].v /\ durable'[e].v = durable[e].v
      BY <3>5, RequestEffect DEF Promises
    <3>6. ASSUME NEW d \in Domains, NEW S \in SUBSET Sites, Deploy(d, S)
          PROVE  \A e \in Domains : /\ now'[e].v = now[e].v
                                    /\ durable'[e].v = durable[e].v \/ durable'[e].v <= made[e]
      <4>1. \A e \in Domains : durable'[e] = IF SiteOf[e] \in S THEN [v |-> 0, mode |-> "any"]
                                            ELSE durable[e]
        BY <3>6, DeployEffect
      <4>2. UNCHANGED now
        BY <3>6, DeployEffect
      <4> QED
        BY <1>1, <4>1, <4>2
    <3> QED
      BY <1>5, <3>1, <3>2, <3>3, <3>4, <3>5, <3>6, PromisesMove
  <2> QED
    BY <1>0, <1>1, <2>0, <2>1, VersionsStay
<1> QED
  BY <1>3, <1>4, <1>5

Installing == {"crt", "key", "load", "site"}

\* A job is alone with its domain and its certificate is the newest.
Sole ==
  \A j \in Jobs :
    /\ \A i \in Jobs : job[i].dom = job[j].dom /\ job[j].dom \in Domains => i = j
    /\ job[j].at \in Installing => job[j].v = made[job[j].dom]

SoleInv == ~ use.overlap => Sole

LEMMA SoleMoves ==
  ASSUME FlowInv, JobTyped, JobTyped', ~ use.overlap, Sole, NEW j \in Jobs, Moved(j)
  PROVE  Sole'
<1>1. ASSUME NEW i \in Jobs, job[i].at # "idle" PROVE job[i].dom \in Domains
  BY <1>1 DEF FlowInv, Flows, Staged
<1>2. NoJob.dom \notin Domains /\ NoJob.at = "idle"
  BY Givens DEF NoJob
<1>3. \A i \in Jobs : job[i].at = "idle" => job[i].dom \notin Domains
  BY <1>2 DEF FlowInv, Flows, Staged
<1>4. CASE Ends(j)
  BY <1>2, <1>4 DEF Ends, Others, Sole, Installing
<1>5. CASE Advances(j)
  BY <1>5 DEF Advances, Others, Sole, Installing
<1>6. CASE Receives(j)
  <2>1. job[j].dom \in Domains
    BY <1>1, <1>6 DEF Receives
  <2>2. ASSUME NEW i \in Jobs, i # j, job[i].at \in Installing
        PROVE  made'[job[i].dom] = made[job[i].dom]
    <3>1. job[i].dom \in Domains /\ job[i].dom # job[j].dom
      BY <1>1, <2>1, <2>2 DEF Sole, Installing
    <3> QED
      BY <1>6, <3>1 DEF Receives, NewVersion
  <2> QED
    BY <1>6, <2>1, <2>2 DEF Receives, Others, Sole
<1>7. ASSUME NEW d \in Domains, Begun(j, d) PROVE Sole'
  <2>1. /\ job[j] = NoJob /\ Others(j) /\ job'[j].dom = d
        /\ \A i \in Jobs : job[i].dom # d
    BY <1>7 DEF Begun, MayTouch, Busy
  <2>2. ASSUME NEW i \in Jobs, i # j, job[i].at \in Installing
        PROVE  made'[job[i].dom] = made[job[i].dom]
    <3>1. job[i].dom \in Domains \ {d}
      BY <1>1, <2>1, <2>2 DEF Installing
    <3> QED
      BY <1>7, <3>1 DEF Begun, Orders, Uploads, AsksAutocert, NewVersion
  <2>3. job'[j].at \in Installing => job'[j].v = made'[d]
    BY <1>7 DEF Begun, Orders, Uploads, AsksAutocert, Installing
  <2> QED
    BY <2>1, <2>2, <2>3 DEF Others, Sole
<1> QED
  BY <1>4, <1>5, <1>6, <1>7 DEF Moved

LEMMA SoleStep ==
  ASSUME CertTyping, FlowInv, AcmeInv, SoleInv, [Next]_certVars
  PROVE  SoleInv'
<1> SUFFICES ASSUME ~ use.overlap, Sole PROVE Sole'
  BY UseIsFixed DEF SoleInv
<1>0. JobTyped /\ JobTyped'
  BY TypingStep DEF CertTyping
<1>1. CASE Restart
  <2>1. \A j \in Jobs : job'[j] = NoJob
    BY <1>1, RestartEnds
  <2> QED
    BY <2>1, Givens DEF Sole, Installing, NoJob
<1>2. CASE UNCHANGED <<job, made>>
  BY <1>2 DEF Sole
<1>3. ASSUME NEW j \in Jobs, JobStep(j) PROVE Sole'
  BY <1>0, <1>2, <1>3, JobStepMoves, SoleMoves
<1> QED
  BY <1>1, <1>2, <1>3, OnlyJobsMove

-----------------------------------------------------------------------------
(* The files.                                                               *)

AtKey(d) == \E j \in Jobs : job[j].dom = d /\ job[j].at = "key"

\* A certificate without its key is one whose job has yet to write it.
Paired ==
  /\ \A d \in Domains : crt[d] \in {0, key[d]} \/ AtKey(d)
  /\ \A j \in Jobs :
       /\ job[j].at \in {"key", "load", "site"} => crt[job[j].dom] = job[j].v
       /\ job[j].at \in {"load", "site"} => key[job[j].dom] = job[j].v

Uninterrupted == ~ use.overlap /\ (restarts > 0 => ~ use.crash)

FilesInv == Uninterrupted => Paired

LEMMA OtherSteps ==
  ASSUME FlowInv, NEW j \in Jobs, JobStep(j), ~ WriteCrt(j), ~ WriteKey(j), Moved(j)
  PROVE  /\ job[j].at # "key" /\ job'[j].at # "key" /\ Others(j)
         /\ job'[j].at \in {"load", "site"} =>
              job[j].at = "load" /\ job'[j].dom = job[j].dom /\ job'[j].v = job[j].v
<1>1. job[j].at \notin {"crt", "key"}
  <2>1. ASSUME NEW d \in Domains, OrderByAPI(j, d) \/ RenewCertificateLego(j, d) \/ Handshake(j, d)
        PROVE  job[j].at = "idle"
    BY <2>1 DEF OrderByAPI, RenewCertificateLego, Handshake, Starts, NoJob
  <2>2. ASSUME NEW d \in Domains, NEW op \in Ops,
               SaveCustomCertificate(j, d, op) \/ CompleteChallenge(j, d, op)
        PROVE  job[j].at = "idle"
    BY <2>2 DEF SaveCustomCertificate, CompleteChallenge, Starts, NoJob
  <2>3. Issued(j) \/ NotIssued(j) => job[j].at = "asking"
    BY DEF Issued, NotIssued
  <2>4. CannotLoad(j) \/ Load(j) => job[j].at = "load"
    BY DEF CannotLoad, Load
  <2>5. TellSite(j) \/ TooLateForSite(j) => job[j].at = "site"
    BY DEF TellSite, TooLateForSite
  <2>6. StoreHandshake(j) => job[j].at = "store"
    BY DEF StoreHandshake
  <2> QED
    BY <2>1, <2>2, <2>3, <2>4, <2>5, <2>6 DEF JobStep
<1>2. CASE Ends(j)
  BY <1>1, <1>2 DEF Ends, NoJob
<1>3. CASE Advances(j)
  BY <1>1, <1>3 DEF Advances
<1>4. CASE Receives(j)
  BY <1>1, <1>4 DEF Receives
<1>5. ASSUME NEW d \in Domains, Begun(j, d)
      PROVE  Others(j) /\ job'[j].at \notin {"key", "load", "site"}
  BY <1>5 DEF Begun, Orders, Uploads, AsksAutocert
<1> QED
  BY <1>1, <1>2, <1>3, <1>4, <1>5 DEF Moved

\* Writing one file of d leaves those of the other domains and their jobs.
Wrote(j, d) ==
  /\ job[j].dom = d /\ Others(j)
  /\ \A e \in Domains \ {d} : crt'[e] = crt[e] /\ key'[e] = key[e]
  /\ crt'[d] \in {0, key'[d]} \/ (job'[j].dom = d /\ job'[j].at = "key")
  /\ job'[j].at \in {"key", "load", "site"} => job'[j].dom = d /\ crt'[d] = job'[j].v
  /\ job'[j].at \in {"load", "site"} => key'[d] = job'[j].v

LEMMA PairedElsewhere ==
  ASSUME Paired, Sole, FlowInv, NEW j \in Jobs, NEW d \in Domains, Wrote(j, d)
  PROVE  Paired'
<1> USE DEF Wrote
<1>1. ASSUME NEW i \in Jobs \ {j} PROVE job'[i] = job[i] /\ job[i].dom # d
  BY DEF Others, Sole
<1>2. \A i \in Jobs \ {j} : job[i].at # "idle" => job[i].dom \in Domains \ {d}
  BY <1>1 DEF FlowInv, Flows, Staged
<1>3. ASSUME NEW e \in Domains PROVE crt'[e] \in {0, key'[e]} \/ AtKey(e)'
  <2>1. CASE e = d
    BY <2>1 DEF AtKey
  <2>2. CASE e # d
    <3>1. crt[e] \in {0, key[e]} \/ AtKey(e)
      BY DEF Paired
    <3>2. AtKey(e) => AtKey(e)'
      BY <1>1, <2>2 DEF AtKey
    <3> QED
      BY <2>2, <3>1, <3>2
  <2> QED
    BY <2>1, <2>2
<1>4. ASSUME NEW i \in Jobs
      PROVE  /\ job'[i].at \in {"key", "load", "site"} => crt'[job'[i].dom] = job'[i].v
             /\ job'[i].at \in {"load", "site"} => key'[job'[i].dom] = job'[i].v
  <2>1. CASE i = j
    BY <2>1
  <2>2. CASE i # j
    BY <1>1, <1>2, <2>2 DEF Paired
  <2> QED
    BY <2>1, <2>2
<1> QED
  BY <1>3, <1>4 DEF Paired

LEMMA FilesStep ==
  ASSUME CertTyping, FlowInv, AcmeInv, SoleInv, FilesInv, [Next]_certVars
  PROVE  FilesInv'
<1> SUFFICES ASSUME Uninterrupted' PROVE Paired'
  BY DEF FilesInv
<1>0. UNCHANGED use /\ ~ use.overlap /\ Sole
  BY UseIsFixed DEF SoleInv, Uninterrupted
<1> USE DEF CertTyping
<1>00. CASE Restart
  <2>1. ~ use.crash /\ \A j \in Jobs : job[j] = NoJob
    BY <1>0, <1>00, CertificatesAssumption DEF Restart, Uninterrupted, RunTyped
  <2>2. Paired /\ UNCHANGED <<crt, key>> /\ \A j \in Jobs : job'[j] = NoJob
    BY <1>0, <1>00, <2>1, RestartEnds DEF FilesInv, Uninterrupted, Restart, diskVars
  <2> QED
    BY <2>1, <2>2 DEF Paired, AtKey, NoJob
<1>01. ASSUME ~ Restart PROVE UNCHANGED restarts
  BY <1>01, RestartsStay
<1>02. ~ Restart => Paired
  BY <1>0, <1>01 DEF FilesInv, Uninterrupted
<1>1. ASSUME NEW j \in Jobs, WriteCrt(j), Paired PROVE Paired'
  <2> DEFINE d == job[j].dom
  <2>1. d \in Domains /\ job[j].at = "crt" /\ job[j].v \in Versions
    BY <1>1 DEF WriteCrt, FlowInv, Flows, Staged, JobTyped, Job, Versions
  <2>2. UNCHANGED key
    BY <1>1 DEF WriteCrt
  <2>3. CASE crt' = [crt EXCEPT ![d] = job[j].v] /\ Goes(j, "key")
    <3>1. /\ Others(j) /\ job'[j].at = "key" /\ job'[j].dom = d /\ job'[j].v = job[j].v
      BY <2>3, JobGoes DEF JobTyped
    <3>2. crt'[d] = job[j].v /\ \A e \in Domains \ {d} : crt'[e] = crt[e]
      BY <2>1, <2>3 DEF DiskTyped
    <3>5. Wrote(j, d)
      BY <1>0, <1>1, <2>1, <2>2, <3>1, <3>2 DEF Wrote
    <3> QED
      BY <1>0, <1>1, <2>1, <3>5, PairedElsewhere
  <2>4. CASE crt' = [crt EXCEPT ![d] = 0] /\ Failed(j)
    <3>1. Others(j) /\ job'[j] = NoJob
      BY <2>4, JobFails DEF JobTyped
    <3>2. crt'[d] = 0 /\ \A e \in Domains \ {d} : crt'[e] = crt[e]
      BY <2>1, <2>4 DEF DiskTyped
    <3>3. job'[j].at = "idle"
      BY <3>1 DEF NoJob
    <3>4. /\ \A e \in Domains \ {d} : crt'[e] = crt[e] /\ key'[e] = key[e]
          /\ crt'[d] \in {0, key'[d]} /\ job'[j].at \notin {"key", "load", "site"}
      BY <2>2, <3>2, <3>3
    <3>5. Wrote(j, d)
      BY <3>1, <3>4 DEF Wrote
    <3> QED
      BY <1>0, <1>1, <2>1, <3>5, PairedElsewhere
  <2> QED
    BY <1>1, <2>3, <2>4 DEF WriteCrt
<1>2. ASSUME NEW j \in Jobs, WriteKey(j), Paired PROVE Paired'
  <2> DEFINE d == job[j].dom
  <2>1. d \in Domains /\ job[j].at = "key" /\ crt[d] = job[j].v
    BY <1>2 DEF WriteKey, FlowInv, Flows, Staged, Paired
  <2>2. job[j].dom = d
    OBVIOUS
  <2>3. CASE key' = [key EXCEPT ![d] = job[j].v] /\ Goes(j, "load") /\ UNCHANGED crt
    <3>1. /\ Others(j) /\ job'[j].at = "load" /\ job'[j].dom = d /\ job'[j].v = job[j].v
      BY <2>3, JobGoes DEF JobTyped
    <3>2. key'[d] = job[j].v /\ \A e \in Domains \ {d} : key'[e] = key[e]
      BY <2>1, <2>3 DEF DiskTyped
    <3>3. /\ \A e \in Domains \ {d} : crt'[e] = crt[e] /\ key'[e] = key[e]
          /\ crt'[d] \in {0, key'[d]} /\ crt'[d] = job'[j].v /\ key'[d] = job'[j].v
      BY <2>1, <2>3, <3>1, <3>2
    <3>5. Wrote(j, d)
      BY <3>1, <3>3 DEF Wrote
    <3> QED
      BY <1>0, <1>2, <2>1, <3>5, PairedElsewhere
  <2>4. CASE key' = [key EXCEPT ![d] = 0] /\ crt' = [crt EXCEPT ![d] = 0] /\ Failed(j)
    <3>1. Others(j) /\ job'[j] = NoJob
      BY <2>4, JobFails DEF JobTyped
    <3>2. /\ crt'[d] = 0 /\ \A e \in Domains \ {d} : crt'[e] = crt[e]
          /\ key'[d] = 0 /\ \A e \in Domains \ {d} : key'[e] = key[e]
      BY <2>1, <2>4 DEF DiskTyped
    <3>3. job'[j].at = "idle"
      BY <3>1 DEF NoJob
    <3>4. /\ \A e \in Domains \ {d} : crt'[e] = crt[e] /\ key'[e] = key[e]
          /\ crt'[d] \in {0, key'[d]} /\ job'[j].at \notin {"key", "load", "site"}
      BY <3>2, <3>3
    <3>5. Wrote(j, d)
      BY <3>1, <3>4 DEF Wrote
    <3> QED
      BY <1>0, <1>2, <2>1, <3>5, PairedElsewhere
  <2> QED
    BY <1>2, <2>3, <2>4 DEF WriteKey
<1>3. ASSUME NEW d \in Domains, DeleteCertificate(d), Paired PROVE Paired'
  <2>1. /\ crt' = [crt EXCEPT ![d] = 0] /\ key' = [key EXCEPT ![d] = 0] /\ UNCHANGED job
        /\ MayTouch(d)
    BY <1>3, DeleteEffect
  <2>2. crt'[d] = 0 /\ \A e \in Domains \ {d} : crt'[e] = crt[e] /\ key'[e] = key[e]
    BY <2>1 DEF DiskTyped
  <2>3. \A j \in Jobs : job[j].at # "idle" => job[j].dom \in Domains \ {d}
    BY <1>0, <2>1 DEF MayTouch, Busy, FlowInv, Flows, Staged
  <2>4. ASSUME NEW e \in Domains PROVE crt'[e] \in {0, key'[e]} \/ AtKey(e)'
    BY <1>3, <2>1, <2>2 DEF Paired, AtKey
  <2>5. ASSUME NEW j \in Jobs
        PROVE  /\ job'[j].at \in {"key", "load", "site"} => crt'[job'[j].dom] = job'[j].v
               /\ job'[j].at \in {"load", "site"} => key'[job'[j].dom] = job'[j].v
    BY <1>3, <2>1, <2>2, <2>3 DEF Paired
  <2> QED
    BY <2>4, <2>5 DEF Paired
<1>4. ASSUME ~ \E j \in Jobs : WriteCrt(j) \/ WriteKey(j),
             ~ \E d \in Domains : DeleteCertificate(d), ~ Restart, Paired
      PROVE  Paired'
  <2>1. UNCHANGED <<crt, key>>
    BY <1>4, FilesMove
  <2>2. CASE UNCHANGED job
    BY <1>4, <2>1, <2>2 DEF Paired, AtKey
  <2>3. ASSUME NEW j \in Jobs, JobStep(j), Moved(j) PROVE Paired'
    <3>1. /\ job[j].at # "key" /\ job'[j].at # "key" /\ Others(j)
          /\ job'[j].at \in {"load", "site"} =>
               job[j].at = "load" /\ job'[j].dom = job[j].dom /\ job'[j].v = job[j].v
      BY <1>4, <2>3, OtherSteps
    <3>2. ASSUME NEW e \in Domains PROVE crt'[e] \in {0, key'[e]} \/ AtKey(e)'
      <4>1. AtKey(e) => AtKey(e)'
        BY <3>1 DEF AtKey, Others
      <4> QED
        BY <1>4, <2>1, <4>1 DEF Paired
    <3>3. ASSUME NEW i \in Jobs
          PROVE  /\ job'[i].at \in {"key", "load", "site"} => crt'[job'[i].dom] = job'[i].v
                 /\ job'[i].at \in {"load", "site"} => key'[job'[i].dom] = job'[i].v
      BY <1>4, <2>1, <3>1 DEF Paired, Others
    <3> QED
      BY <3>2, <3>3 DEF Paired
  <2> QED
    BY <1>4, <2>2, <2>3, JobStepMoves, OnlyJobsMove
<1> QED
  BY <1>00, <1>02, <1>1, <1>2, <1>3, <1>4

-----------------------------------------------------------------------------
(* The configurations a step changes, and who shares them.                  *)

LEMMA ConfigsMove ==
  ASSUME [Next]_certVars, ~ Restart, ~ Save, ~ \E j \in Jobs : Load(j) \/ TellSite(j),
         ~ \E d \in Domains :
             \/ DeleteCertificate(d)
             \/ \E mode \in {"auto", "lego"} : RequestCertificate(d, mode)
             \/ \E S \in SUBSET Sites : Deploy(d, S)
  PROVE  UNCHANGED <<cfg, same, saved>>
<1>1. ASSUME NEW j \in Jobs, JobStep(j) PROVE UNCHANGED <<cfg, same, saved>>
  BY <1>1 DEF JobStep, Issued, NotIssued, WriteCrt, WriteKey, CannotLoad, TooLateForSite,
              StoreHandshake, OrderByAPI, RenewCertificateLego, Handshake,
              SaveCustomCertificate, CompleteChallenge, cfgVars
<1>2. ASSUME NEW d \in Domains, PrepareChallenge(d) \/ Expire(d) \/ RenewCertificate(d)
      PROVE  UNCHANGED <<cfg, same, saved>>
  BY <1>2 DEF PrepareChallenge, Expire, RenewCertificate, cfgVars
<1>3. UNCHANGED certVars => UNCHANGED <<cfg, same, saved>>
  BY DEF certVars, cfgVars
<1> QED
  BY <1>1, <1>2, <1>3 DEF Next

LEMMA SameMoves ==
  ASSUME [Next]_certVars, ~ Restart
  PROVE  UNCHANGED same \/ \E X : same' = Without(X)
<1>1. ASSUME NEW j \in Jobs, Load(j) PROVE UNCHANGED same
  BY <1>1 DEF Load
<1>2. ASSUME NEW j \in Jobs, TellSite(j) PROVE \E X : same' = Without(X)
  BY <1>2 DEF TellSite, UpdateSiteSSLConfig, NewSiteConfig
<1>3. ASSUME NEW d \in Domains, DeleteCertificate(d) PROVE \E X : same' = Without(X)
  BY <1>3 DEF DeleteCertificate
<1>4. ASSUME NEW d \in Domains, NEW mode, RequestCertificate(d, mode)
      PROVE  \E X : same' = Without(X)
  BY <1>4 DEF RequestCertificate, UpdateSiteSSLConfig, NewSiteConfig
<1>5. ASSUME NEW d \in Domains, NEW S, Deploy(d, S) PROVE \E X : same' = Without(X)
  BY <1>5 DEF Deploy, NewSiteConfig
<1>6. Save => UNCHANGED same
  BY DEF Save
<1> QED
  BY <1>1, <1>2, <1>3, <1>4, <1>5, <1>6, ConfigsMove

SiteFor(x) == IF x \in Sites THEN x ELSE SiteOf[x]

\* Only holders of one site share a configuration, and only after a restart.
SharingInv ==
  \A x \in Holders :
    /\ \A y \in same[x] : SiteFor(y) = SiteFor(x)
    /\ restarts = 0 => same[x] = {x}

LEMMA SharingStep ==
  ASSUME CertTyping, SharingInv, [Next]_certVars
  PROVE  SharingInv'
<1> USE DEF CertTyping
<1>1. CASE Restart
  <2>1. restarts' # 0
    BY <1>1, CertificatesAssumption DEF Restart, RunTyped
  <2>2. \A x \in Holders : same'[x] = {y \in Holders : HolderOf(y) = HolderOf(x)}
    BY <1>1, LoadIsTyped DEF Restart
  <2>3. \A x \in Holders : SiteFor(HolderOf(x)) = SiteFor(x)
    BY Givens DEF SiteFor, HolderOf
  <2> QED
    BY <2>1, <2>2, <2>3 DEF SharingInv
<1>2. CASE ~ Restart
  <2>1. UNCHANGED restarts
    BY <1>2, RestartsStay
  <2>2. CASE UNCHANGED same
    BY <2>1, <2>2 DEF SharingInv
  <2>3. ASSUME NEW X, same' = Without(X) PROVE SharingInv'
    <3> SUFFICES ASSUME NEW x \in Holders
                 PROVE  /\ \A y \in same'[x] : SiteFor(y) = SiteFor(x)
                        /\ restarts = 0 => same'[x] = {x}
      BY <2>1 DEF SharingInv
    <3>1. same'[x] = IF x \in X THEN {x} ELSE same[x] \ X
      BY <2>3 DEF Without
    <3>2. CASE x \in X
      BY <3>1, <3>2
    <3>3. CASE x \notin X
      BY <3>1, <3>3 DEF SharingInv
    <3> QED
      BY <3>2, <3>3
  <2> QED
    BY <1>2, <2>2, <2>3, SameMoves
<1> QED
  BY <1>1, <1>2

NotPromised == [v |-> 0, mode |-> "any"]

\* Nothing is promised for a domain that nothing is done to.
PromisedInv ==
  \A d \in Domains : now[d] # NotPromised \/ durable[d] # NotPromised => d \in use.domains

LEMMA PromisedStep ==
  ASSUME CertTyping, FlowInv, PromisedInv, [Next]_certVars
  PROVE  PromisedInv'
<1>0. UNCHANGED use
  BY UseIsFixed
<1>1. ASSUME NEW d \in Domains, Promises(d), d \in use.domains PROVE PromisedInv'
  BY <1>0, <1>1 DEF PromisedInv, Promises
<1>2. ASSUME NEW j \in Jobs, Load(j) \/ TellSite(j) PROVE PromisedInv'
  <2>1. job[j].dom \in Domains /\ job[j].dom \in use.domains /\ Promises(job[j].dom)
    BY <1>2, LoadEffect, TellEffect
  <2> QED
    BY <1>1, <2>1
<1>3. ASSUME NEW d \in Domains, \/ RenewCertificate(d) \/ DeleteCertificate(d)
                                \/ \E mode \in {"auto", "lego"} : RequestCertificate(d, mode)
      PROVE  PromisedInv'
  <2>1. RenewCertificate(d) => d \in use.domains /\ Promises(d)
    BY RenewEffect
  <2>2. DeleteCertificate(d) => d \in use.domains /\ Promises(d)
    BY DeleteEffect
  <2>3. ASSUME NEW mode \in {"auto", "lego"}, RequestCertificate(d, mode)
        PROVE  d \in use.domains /\ Promises(d)
    BY <2>3, RequestEffect
  <2> QED
    BY <1>1, <1>3, <2>1, <2>2, <2>3
<1>4. ASSUME NEW d \in Domains, NEW S \in SUBSET Sites, Deploy(d, S) PROVE PromisedInv'
  <2>1. UNCHANGED now /\ \A e \in Domains : durable'[e] \in {durable[e], NotPromised}
    BY <1>4, DeployEffect DEF NotPromised
  <2> QED
    BY <1>0, <2>1 DEF PromisedInv
<1>5. CASE Restart
  BY <1>0, <1>5 DEF Restart, PromisedInv
<1>6. CASE UNCHANGED <<now, durable>>
  BY <1>0, <1>6 DEF PromisedInv
<1> QED
  BY <1>2, <1>3, <1>4, <1>5, <1>6, PromisesMove

-----------------------------------------------------------------------------
(* What a restart will find.                                                *)

OnModes == {"custom", "lego", "auto"}

\* With a configuration c of its site and its files, d is found as p says.
Settled(p, d, v, w, c) ==
  /\ p.v > 0 => /\ v >= p.v /\ w >= p.v
                /\ c.mode \in OnModes /\ (c.mode = "custom" => c.file = d)
  /\ p.mode \in OnModes => c.mode = p.mode
  /\ p.mode = "gone" => c.mode = "off" /\ p.v = 0

Lasting ==
  \A d \in Domains : /\ Settled(durable[d], d, crt[d], key[d], saved[SiteOf[d]])
                     /\ Settled(durable[d], d, crt[d], key[d], cfg[SiteOf[d]])

Calm == ~ use.overlap /\ ~ use.faults /\ ~ use.crash /\ ~ Shared

DurableInv == Calm => Lasting

LEMMA NothingToSettle ==
  ASSUME NEW d, NEW v, NEW w, NEW c
  PROVE  Settled(NotPromised, d, v, w, c)
BY DEF Settled, NotPromised, OnModes

\* The certificate of a job, and what was promised before, is not newer than its files.
LEMMA FilesAreNewest ==
  ASSUME CertTyping, FlowInv, VersionInv, SoleInv, FilesInv, Uninterrupted,
         NEW j \in Jobs, job[j].at \in {"load", "site"}
  PROVE  LET d == job[j].dom
         IN /\ d \in Domains /\ crt[d] = job[j].v /\ key[d] = job[j].v /\ job[j].v > 0
            /\ durable[d].v <= job[j].v /\ now[d].v <= job[j].v /\ job[j].v \in Nat
<1> DEFINE d == job[j].dom
<1>1. d \in Domains /\ job[j].v \in 1..made[d] /\ made[d] \in Nat
  BY Givens DEF FlowInv, Flows, Staged, CertTyping, JobTyped, Versions
<1>2. crt[d] = job[j].v /\ key[d] = job[j].v
  BY DEF FilesInv, Paired
<1>3. job[j].v = made[d]
  BY DEF SoleInv, Sole, Installing, Uninterrupted
<1> HIDE DEF d
<1>4. durable[d].v <= made[d] /\ now[d].v <= made[d]
  BY <1>1 DEF VersionInv
<1> QED
  BY <1>1, <1>2, <1>3, <1>4 DEF d

LEMMA SiteAlone ==
  ASSUME RunTyped, ~ Shared, NEW d \in Domains, NEW e \in Domains, d \in use.domains,
         e \in use.domains, SiteOf[d] = SiteOf[e]
  PROVE  d = e
BY DEF Shared

\* A domain whose site and files a step leaves stays settled.
LEMMA StaysSettled ==
  ASSUME Lasting, NEW e \in Domains, durable'[e] \in {durable[e], NotPromised},
         crt'[e] = crt[e], key'[e] = key[e],
         durable'[e] = NotPromised \/ (/\ saved'[SiteOf[e]] \in {saved[SiteOf[e]], cfg[SiteOf[e]]}
                                      /\ cfg'[SiteOf[e]] \in {saved[SiteOf[e]], cfg[SiteOf[e]]})
  PROVE  /\ Settled(durable'[e], e, crt'[e], key'[e], saved'[SiteOf[e]])
         /\ Settled(durable'[e], e, crt'[e], key'[e], cfg'[SiteOf[e]])
<1>1. CASE durable'[e] = NotPromised
  BY <1>1, NothingToSettle
<1>2. CASE durable'[e] # NotPromised
  BY <1>2 DEF Lasting
<1> QED
  BY <1>1, <1>2

\* The promise of d and the configuration of its site are new, other domains keep theirs.
LEMMA SettledAnew ==
  ASSUME RunTyped, ~ Shared, Lasting, PromisedInv, NEW d \in Domains, d \in use.domains,
         Promises(d), \A e \in Domains \ {d} : crt'[e] = crt[e] /\ key'[e] = key[e],
         \A s \in Sites \ {SiteOf[d]} : cfg'[s] = cfg[s] /\ saved'[s] \in {cfg[s], saved[s]},
         Settled(durable'[d], d, crt'[d], key'[d], saved'[SiteOf[d]]),
         Settled(durable'[d], d, crt'[d], key'[d], cfg'[SiteOf[d]])
  PROVE  Lasting'
<1> SUFFICES ASSUME NEW e \in Domains \ {d}
             PROVE  /\ Settled(durable'[e], e, crt'[e], key'[e], saved'[SiteOf[e]])
                    /\ Settled(durable'[e], e, crt'[e], key'[e], cfg'[SiteOf[e]])
  BY DEF Lasting
<1>1. durable'[e] = durable[e]
  BY DEF Promises
<1>2. SiteOf[e] = SiteOf[d] => durable[e] = NotPromised
  BY SiteAlone DEF PromisedInv
<1>3. SiteOf[e] \in Sites
  BY Givens
<1> QED
  BY <1>1, <1>2, <1>3, StaysSettled

LEMMA TellConfig ==
  ASSUME CertTyping, NEW d \in Domains, NEW mode \in {"custom", "lego", "auto"},
         UpdateSiteSSLConfig(d, mode)
  PROVE  /\ cfg'[SiteOf[d]].mode = mode /\ (mode = "custom" => cfg'[SiteOf[d]].file = d)
         /\ saved'[SiteOf[d]] = cfg'[SiteOf[d]]
         /\ \A y \in Holders \ {SiteOf[d]} : cfg'[y] = cfg[y]
         /\ \A s \in Sites : saved'[s] = cfg'[s]
         /\ same' = Without({SiteOf[d]})
<1> DEFINE c == [mode |-> mode, file |-> IF mode = "custom" THEN d ELSE NoDomain]
<1>1. NewSiteConfig({SiteOf[d]}, c) /\ c.mode = mode /\ (mode = "custom" => c.file = d)
  BY DEF UpdateSiteSSLConfig
<1> HIDE DEF c
<1>2. /\ cfg' = [y \in Holders |-> IF y \in {SiteOf[d]} THEN c ELSE cfg[y]]
      /\ saved' = [s \in Sites |-> cfg'[s]] /\ same' = Without({SiteOf[d]})
  BY <1>1 DEF NewSiteConfig
<1>3. SiteOf[d] \in Sites /\ SiteOf[d] \in Holders
  BY Givens
<1> QED
  BY <1>1, <1>2, <1>3

LEMMA DurableStep ==
  ASSUME CertTyping, CertTyping', FlowInv, VersionInv, SoleInv, FilesInv, SharingInv, PromisedInv,
         DurableInv, [Next]_certVars
  PROVE  DurableInv'
<1>0. UNCHANGED use
  BY UseIsFixed
<1> SUFFICES ASSUME Calm PROVE Lasting'
  BY <1>0 DEF DurableInv, Calm, Shared
<1>01. Lasting /\ Uninterrupted /\ ~ Shared /\ ~ use.overlap /\ ~ use.faults
  BY DEF DurableInv, Calm, Uninterrupted
<1> USE DEF CertTyping
<1>02. /\ \A d \in Domains : SiteOf[d] \in Sites /\ SiteOf[d] \in Holders
       /\ \A d \in Domains : durable[d].v \in Int /\ crt[d] \in Int /\ key[d] \in Int
  <2>1. \A p \in Promise : p.v \in Int
    BY PromiseFields, Givens DEF Versions
  <2> QED
    BY <2>1, Givens DEF HistTyped, DiskTyped, Versions
<1>1. CASE Restart
  <2>1. UNCHANGED <<crt, key, saved, durable>>
    BY <1>1 DEF Restart, diskVars
  <2>2. \A d \in Domains : cfg'[SiteOf[d]] = saved[SiteOf[d]]
    BY <1>1, <1>02, LoadIsTyped DEF Restart
  <2> QED
    BY <1>01, <2>1, <2>2 DEF Lasting
<1>2. CASE Save
  <2>1. UNCHANGED <<crt, key, cfg, durable>> /\ saved' = [s \in Sites |-> cfg[s]]
    BY <1>2 DEF Save, diskVars, hist
  <2> QED
    BY <1>01, <1>02, <2>1 DEF Lasting
<1>3. ASSUME NEW j \in Jobs, WriteCrt(j) \/ WriteKey(j) PROVE Lasting'
  <2> DEFINE d == job[j].dom
  <2>1. d \in Domains /\ job[j].v = made[d] /\ job[j].v \in Int
    BY <1>3, <1>01, Givens DEF WriteCrt, WriteKey, FlowInv, Flows, Staged, SoleInv, Sole, Installing,
                        JobTyped, Versions
  <2>2. durable[d].v <= job[j].v
    BY <2>1 DEF VersionInv
  <2>3. /\ \A e \in Domains \ {d} : crt'[e] = crt[e] /\ key'[e] = key[e]
        /\ crt'[d] \in {crt[d], job[j].v} /\ key'[d] \in {key[d], job[j].v}
    BY <1>3, <1>01, <2>1 DEF WriteCrt, WriteKey, DiskTyped
  <2>4. UNCHANGED <<cfg, saved, durable>>
    BY <1>3 DEF WriteCrt, WriteKey, cfgVars, hist
  <2> HIDE DEF d
  <2>5. ASSUME NEW e \in Domains, NEW c, Settled(durable[e], e, crt[e], key[e], c)
        PROVE  Settled(durable[e], e, crt'[e], key'[e], c)
    <3>1. CASE e = d
      BY <1>02, <2>1, <2>2, <2>3, <2>5, <3>1 DEF Settled
    <3>2. CASE e # d
      BY <2>3, <2>5, <3>2
    <3> QED
      BY <3>1, <3>2
  <2> QED
    BY <1>01, <2>4, <2>5 DEF Lasting
<1>4. ASSUME NEW j \in Jobs, Load(j) PROVE Lasting'
  <2> DEFINE d == job[j].dom
             op == job[j].op
  <2>1. /\ d \in Domains /\ d \in use.domains /\ Promises(d) /\ durable'[d].v = durable[d].v
        /\ op = "renew" => durable'[d].mode = durable[d].mode /\ UNCHANGED cfg
        /\ op # "renew" =>
             /\ durable'[d].mode = "any"
             /\ \E c \in NamedCfg : /\ c.mode \in {"custom", "lego"} /\ Write(d, c)
                                  /\ (c.mode = "custom" => c.file = d)
    BY <1>4, LoadEffect DEF ModeOf
  <2>2. UNCHANGED <<crt, key, saved>> /\ job[j].at = "load"
    BY <1>4 DEF Load, diskVars
  <2>3. crt[d] >= durable[d].v /\ key[d] >= durable[d].v
    BY <1>01, <1>02, <2>1, <2>2, FilesAreNewest
  <2> HIDE DEF d, op
  <2>4. CASE op = "renew"
    <3>1. durable'[d] = durable[d]
      <4>1. durable[d] \in Promise /\ durable'[d] \in Promise
        BY <2>1 DEF Promises, HistTyped
      <4> QED
        BY <2>1, <2>4, <4>1 DEF Promise
    <3>2. \A e \in Domains : durable'[e] = durable[e]
      BY <2>1, <3>1 DEF Promises
    <3> QED
      BY <1>01, <2>1, <2>2, <2>4, <3>2 DEF Lasting
  <2>5. CASE op # "renew"
    <3>1. PICK c \in NamedCfg : /\ c.mode \in {"custom", "lego"} /\ Write(d, c)
                               /\ (c.mode = "custom" => c.file = d)
      BY <2>1, <2>5
    <3>2. cfg' = [y \in Holders |-> IF y \in same[d] THEN c ELSE cfg[y]]
      BY <3>1 DEF Write
    <3>3. \A s \in Sites : s \in same[d] => s = SiteOf[d]
      BY <2>1, Givens DEF SharingInv, SiteFor
    <3>4. \A s \in Sites \ {SiteOf[d]} : cfg'[s] = cfg[s] /\ saved'[s] \in {cfg[s], saved[s]}
      BY <2>2, <3>2, <3>3, Givens
    <3>5. cfg'[SiteOf[d]] \in {c, cfg[SiteOf[d]]} /\ saved'[SiteOf[d]] = saved[SiteOf[d]]
      BY <1>02, <2>1, <2>2, <3>2
    <3>6. ASSUME NEW b, b = c \/ Settled(durable[d], d, crt[d], key[d], b)
          PROVE  Settled(durable'[d], d, crt[d], key[d], b)
      BY <1>02, <2>1, <2>3, <2>5, <3>1, <3>6 DEF Settled, OnModes
    <3>7. /\ Settled(durable'[d], d, crt[d], key[d], saved'[SiteOf[d]])
          /\ Settled(durable'[d], d, crt[d], key[d], cfg'[SiteOf[d]])
      BY <1>01, <2>1, <3>5, <3>6 DEF Lasting
    <3>8. crt'[d] = crt[d] /\ key'[d] = key[d]
          /\ \A e \in Domains \ {d} : crt'[e] = crt[e] /\ key'[e] = key[e]
      BY <2>2
    <3> QED
      BY <1>01, <2>1, <3>4, <3>7, <3>8, SettledAnew
  <2> QED
    BY <2>4, <2>5
<1>5. ASSUME NEW j \in Jobs, TellSite(j) PROVE Lasting'
  <2> DEFINE d == job[j].dom
             mode == ModeOf(job[j].op)
  <2>1. /\ d \in Domains /\ d \in use.domains /\ Promises(d) /\ UNCHANGED <<crt, key>>
        /\ durable'[d].v = job[j].v /\ durable'[d].mode = mode /\ mode \in {"custom", "lego"}
        /\ UpdateSiteSSLConfig(d, mode) /\ job[j].at = "site"
    BY <1>5, TellEffect
  <2>2. crt[d] = job[j].v /\ key[d] = job[j].v /\ job[j].v \in Nat
    BY <1>01, <2>1, FilesAreNewest
  <2>3. /\ cfg'[SiteOf[d]].mode = mode /\ (mode = "custom" => cfg'[SiteOf[d]].file = d)
        /\ saved'[SiteOf[d]] = cfg'[SiteOf[d]]
        /\ \A y \in Holders \ {SiteOf[d]} : cfg'[y] = cfg[y]
        /\ \A s \in Sites : saved'[s] = cfg'[s]
    BY <2>1, TellConfig
  <2> HIDE DEF d, mode
  <2>4. Settled(durable'[d], d, crt'[d], key'[d], cfg'[SiteOf[d]])
    BY <2>1, <2>2, <2>3 DEF Settled, OnModes
  <2>5. \A s \in Sites \ {SiteOf[d]} : cfg'[s] = cfg[s] /\ saved'[s] \in {cfg[s], saved[s]}
    BY <2>3, Givens
  <2>6. \A e \in Domains \ {d} : crt'[e] = crt[e] /\ key'[e] = key[e]
    BY <2>1
  <2> QED
    BY <1>01, <2>1, <2>3, <2>4, <2>5, <2>6, SettledAnew
<1>6. ASSUME NEW d \in Domains, NEW mode \in {"auto", "lego"}, RequestCertificate(d, mode)
      PROVE  Lasting'
  <2>1. /\ d \in use.domains /\ Promises(d) /\ UNCHANGED <<crt, key>>
        /\ durable'[d].v = durable[d].v /\ durable'[d].mode = mode
        /\ UpdateSiteSSLConfig(d, mode)
    BY <1>6, RequestEffect
  <2>3. /\ cfg'[SiteOf[d]].mode = mode /\ saved'[SiteOf[d]] = cfg'[SiteOf[d]]
        /\ \A y \in Holders \ {SiteOf[d]} : cfg'[y] = cfg[y]
        /\ \A s \in Sites : saved'[s] = cfg'[s]
    BY <2>1, TellConfig
  <2>4. Settled(durable'[d], d, crt'[d], key'[d], cfg'[SiteOf[d]])
    BY <1>01, <2>1, <2>3 DEF Lasting, Settled, OnModes
  <2>5. \A s \in Sites \ {SiteOf[d]} : cfg'[s] = cfg[s] /\ saved'[s] \in {cfg[s], saved[s]}
    BY <2>3, Givens
  <2>6. \A e \in Domains \ {d} : crt'[e] = crt[e] /\ key'[e] = key[e]
    BY <2>1
  <2> QED
    BY <1>01, <2>1, <2>3, <2>4, <2>5, <2>6, SettledAnew
<1>7. ASSUME NEW d \in Domains, DeleteCertificate(d) PROVE Lasting'
  <2>1. /\ d \in use.domains /\ Promises(d)
        /\ crt' = [crt EXCEPT ![d] = 0] /\ key' = [key EXCEPT ![d] = 0]
        /\ durable'[d].v = 0 /\ durable'[d].mode = "gone"
        /\ \A y \in Holders \ {d, SiteOf[d]} : cfg'[y] = cfg[y]
        /\ cfg'[SiteOf[d]].mode = "off" /\ saved' = [s \in Sites |-> cfg'[s]]
    BY <1>7, DeleteEffect
  <2>4. Settled(durable'[d], d, crt'[d], key'[d], cfg'[SiteOf[d]])
    BY <2>1 DEF Settled, OnModes
  <2>5. \A s \in Sites \ {SiteOf[d]} : cfg'[s] = cfg[s] /\ saved'[s] \in {cfg[s], saved[s]}
    BY <2>1, Givens
  <2>6. saved'[SiteOf[d]] = cfg'[SiteOf[d]]
    BY <1>02, <2>1
  <2>7. \A e \in Domains \ {d} : crt'[e] = crt[e] /\ key'[e] = key[e]
    BY <2>1 DEF DiskTyped
  <2> QED
    BY <1>01, <2>1, <2>4, <2>5, <2>6, <2>7, SettledAnew
<1>8. ASSUME NEW d \in Domains, NEW S \in SUBSET Sites, Deploy(d, S) PROVE Lasting'
  <2>1. /\ \A e \in Domains : durable'[e] = IF SiteOf[e] \in S THEN NotPromised ELSE durable[e]
        /\ UNCHANGED <<crt, key>>
    BY <1>8, DeployEffect DEF NotPromised
  <2>2. \A s \in Sites \ S : cfg'[s] = cfg[s] /\ saved'[s] = cfg[s]
    BY <1>8, Givens DEF Deploy, NewSiteConfig
  <2> SUFFICES ASSUME NEW e \in Domains
               PROVE  /\ Settled(durable'[e], e, crt'[e], key'[e], saved'[SiteOf[e]])
                      /\ Settled(durable'[e], e, crt'[e], key'[e], cfg'[SiteOf[e]])
    BY DEF Lasting
  <2> QED
    BY <1>01, <1>02, <2>1, <2>2, StaysSettled
<1>9. CASE UNCHANGED <<crt, key, cfg, saved, durable>>
  BY <1>9, <1>01 DEF Lasting
<1>10. ASSUME ~ Restart, ~ Save, ~ \E j \in Jobs : WriteCrt(j) \/ WriteKey(j) \/ Load(j) \/ TellSite(j),
              ~ \E d \in Domains :
                  \/ DeleteCertificate(d)
                  \/ \E mode \in {"auto", "lego"} : RequestCertificate(d, mode)
                  \/ \E S \in SUBSET Sites : Deploy(d, S)
       PROVE  UNCHANGED <<crt, key, cfg, saved, durable>>
  <2>1. UNCHANGED <<crt, key>>
    BY <1>10, FilesMove
  <2>2. UNCHANGED <<cfg, saved>>
    BY <1>10, ConfigsMove
  <2>3. ASSUME NEW d \in Domains, RenewCertificate(d) PROVE UNCHANGED durable
    BY <2>3 DEF RenewCertificate
  <2>4. UNCHANGED durable
    BY <1>10, <2>3, PromisesMove
  <2> QED
    BY <2>1, <2>2, <2>4
<1> QED
  BY <1>1, <1>2, <1>3, <1>4, <1>5, <1>6, <1>7, <1>8, <1>9, <1>10

-----------------------------------------------------------------------------
(* What is served in this run of the program.                               *)

\* autocert accepts d, or did before it was set up anew for another domain.
Accepted(d) == d \in hosts \/ Elsewhere(d)

\* autocert is there because a domain that it accepts has asked for it.
AskedFor(s) == "auto" \in use.ops /\ \E e \in use.domains : SiteOf[e] = s
AutoSites == \A s \in Sites : "auto" \in {cfg[s].mode, saved[s].mode} => AskedFor(s)
AutoHosts == hosts # {} => "auto" \in use.ops /\ hosts \cap use.domains # {}

AutoInv == AutoSites /\ AutoHosts

LEMMA AutocertAccepts ==
  ASSUME AutoInv, hosts # {}, NEW d \in Domains
  PROVE  Accepted(d)
BY DEF AutoInv, AutoHosts, Accepted, Elsewhere

LEMMA HostsMove ==
  ASSUME [Next]_certVars, ~ Restart,
         ~ \E d \in Domains, mode \in {"auto", "lego"} : RequestCertificate(d, mode)
  PROVE  UNCHANGED hosts
<1>1. ASSUME NEW j \in Jobs, JobStep(j) PROVE UNCHANGED hosts
  BY <1>1 DEF JobStep, Issued, NotIssued, WriteCrt, WriteKey, CannotLoad, Load, TellSite,
              TooLateForSite, StoreHandshake, OrderByAPI, RenewCertificateLego, Handshake,
              SaveCustomCertificate, CompleteChallenge, mgrVars
<1>2. ASSUME NEW d \in Domains, \/ PrepareChallenge(d) \/ Expire(d) \/ RenewCertificate(d)
                                \/ DeleteCertificate(d) \/ \E S \in SUBSET Sites : Deploy(d, S)
      PROVE  UNCHANGED hosts
  BY <1>2 DEF PrepareChallenge, Expire, RenewCertificate, DeleteCertificate, Deploy, mgrVars
<1>3. Save \/ UNCHANGED certVars => UNCHANGED hosts
  BY DEF Save, certVars, mgrVars
<1> QED
  BY <1>1, <1>2, <1>3 DEF Next

LEMMA AutoStep ==
  ASSUME CertTyping, FlowInv, AutoInv, [Next]_certVars
  PROVE  AutoInv'
<1> USE DEF CertTyping
<1>0. UNCHANGED use
  BY UseIsFixed
<1>1. ASSUME \A s \in Sites : "auto" \in {cfg'[s].mode, saved'[s].mode}
                                => "auto" \in {cfg[s].mode, saved[s].mode} \/ AskedFor(s)
      PROVE  AutoSites'
  BY <1>0, <1>1 DEF AutoInv, AutoSites, AskedFor
<1>2. UNCHANGED hosts => AutoHosts'
  BY <1>0 DEF AutoInv, AutoHosts
<1>3. CASE Restart
  <2>1. UNCHANGED saved /\ LoadSiteCertificates
    BY <1>3 DEF Restart
  <2>2. /\ \A s \in Sites : cfg'[s] = saved[s]
        /\ hosts' = {d \in Domains : saved[SiteOf[d]].mode = "auto"}
    BY <2>1, LoadIsTyped, Givens
  <2>3. ASSUME NEW d \in hosts' PROVE "auto" \in use.ops /\ hosts' \cap use.domains # {}
    <3>1. SiteOf[d] \in Sites /\ saved[SiteOf[d]].mode = "auto"
      BY <2>2, <2>3, Givens
    <3>2. "auto" \in use.ops
      BY <3>1 DEF AutoInv, AutoSites, AskedFor
    <3>3. PICK e \in use.domains : SiteOf[e] = SiteOf[d]
      BY <3>1 DEF AutoInv, AutoSites, AskedFor
    <3>4. e \in hosts'
      BY <2>2, <3>1, <3>3, UseFields
    <3> QED
      BY <3>2, <3>3, <3>4
  <2> QED
    BY <1>0, <1>1, <2>1, <2>2, <2>3 DEF AutoInv, AutoHosts
<1>4. CASE Save
  <2>1. UNCHANGED <<hosts, cfg>> /\ \A s \in Sites : saved'[s] = cfg[s]
    BY <1>4 DEF Save, mgrVars
  <2> QED
    BY <1>1, <1>2, <2>1 DEF AutoInv
<1>5. ASSUME NEW j \in Jobs, Load(j) PROVE AutoInv'
  <2>1. UNCHANGED <<hosts, saved>>
    BY <1>5 DEF Load
  <2>2. \A s \in Sites : cfg'[s] = cfg[s] \/ cfg'[s].mode \in {"custom", "lego"}
    <3> DEFINE c == [mode |-> ModeOf(job[j].op),
                     file |-> IF ModeOf(job[j].op) = "custom" THEN job[j].dom ELSE cfg[job[j].dom].file]
    <3>1. UNCHANGED cfg \/ Write(job[j].dom, c)
      BY <1>5 DEF Load
    <3>2. c.mode \in {"custom", "lego"}
      BY DEF ModeOf
    <3> HIDE DEF c
    <3> QED
      BY <3>1, <3>2, Givens DEF Write
  <2> QED
    BY <1>1, <1>2, <2>1, <2>2 DEF AutoInv
<1>6. ASSUME NEW j \in Jobs, TellSite(j) PROVE AutoInv'
  <2>1. /\ job[j].dom \in Domains /\ UNCHANGED hosts
        /\ UpdateSiteSSLConfig(job[j].dom, ModeOf(job[j].op))
    BY <1>6, TellEffect
  <2>2. ModeOf(job[j].op) \in {"custom", "lego"}
    BY DEF ModeOf
  <2>3. \A s \in Sites : saved'[s] = cfg'[s] /\ (cfg'[s] = cfg[s] \/ cfg'[s].mode \in {"custom", "lego"})
    BY <2>1, <2>2, TellConfig, Givens
  <2> QED
    BY <1>1, <1>2, <2>1, <2>3 DEF AutoInv
<1>7. ASSUME NEW d \in Domains, DeleteCertificate(d) PROVE AutoInv'
  <2>1. UNCHANGED hosts
    BY <1>7 DEF DeleteCertificate
  <2>2. \A s \in Sites : saved'[s] = cfg'[s] /\ (cfg'[s] = cfg[s] \/ cfg'[s].mode = "off")
    BY <1>7, Givens DEF DeleteCertificate, CfgTyped
  <2> QED
    BY <1>1, <1>2, <2>1, <2>2 DEF AutoInv
<1>8. ASSUME NEW d \in Domains, NEW mode \in {"auto", "lego"}, RequestCertificate(d, mode)
      PROVE  AutoInv'
  <2>1. /\ d \in use.domains /\ "auto" \in use.ops /\ UpdateSiteSSLConfig(d, mode)
        /\ hosts' = hosts \/ d \in hosts'
    BY <1>8, RequestEffect
  <2>2. \A s \in Sites : saved'[s] = cfg'[s] /\ (cfg'[s] = cfg[s] \/ s = SiteOf[d])
    BY <2>1, TellConfig, Givens
  <2>3. AutoSites'
    BY <1>1, <2>1, <2>2 DEF AskedFor
  <2>4. AutoHosts'
    BY <1>0, <1>2, <2>1 DEF AutoHosts
  <2> QED
    BY <2>3, <2>4 DEF AutoInv
<1>9. ASSUME NEW d \in Domains, NEW S \in SUBSET Sites, Deploy(d, S) PROVE AutoInv'
  <2>1. UNCHANGED hosts /\ NewSiteConfig(S, [mode |-> "custom", file |-> d])
    BY <1>9, DeployEffect
  <2>2. \A s \in Sites : saved'[s] = cfg'[s] /\ (cfg'[s] = cfg[s] \/ cfg'[s].mode = "custom")
    BY <2>1, Givens DEF NewSiteConfig
  <2> QED
    BY <1>1, <1>2, <2>1, <2>2 DEF AutoInv
<1>10. CASE UNCHANGED <<cfg, saved>> /\ UNCHANGED hosts
  BY <1>1, <1>2, <1>10 DEF AutoInv
<1> QED
  BY <1>3, <1>4, <1>5, <1>6, <1>7, <1>8, <1>9, <1>10, ConfigsMove, HostsMove

\* The promise about d is kept, and after a deletion d has no configuration to share.
Kept(d) ==
  /\ now[d].v > 0 => certs[d].of = d /\ certs[d].v >= now[d].v
  /\ now[d].mode = "gone" =>
       /\ certs[d] = NoCert \/ (certs[d] = [of |-> d, v |-> acme[d]] /\ Accepted(d))
       /\ same[d] = {d} /\ cfg[d].mode = "none" /\ now[d].v = 0

\* A renewal is not of a deleted certificate, a handshake's comes after no other.
Awaited(j) ==
  /\ job[j].op = "renew" => now[job[j].dom].mode # "gone"
  /\ job[j].at = "store" => now[job[j].dom].v = 0 /\ Accepted(job[j].dom)

Serving == (\A d \in Domains : Kept(d)) /\ (\A j \in Jobs : Awaited(j))

NowInv == Undisturbed /\ (restarts > 0 => ~ Shared) => Serving

LEMMA AwaitedMoves ==
  ASSUME CertTyping, FlowInv, AutoInv, \A d \in Domains : Kept(d), NEW j \in Jobs, Moved(j), Awaited(j),
         UNCHANGED <<hosts, use>>, \A d \in Domains : now'[d].mode = "gone" => now[d].mode = "gone",
         \A d \in Domains : now'[d].v = 0 \/ now'[d].v = now[d].v \/ job[j].at = "load"
  PROVE  Awaited(j)'
<1> USE DEF CertTyping
<1>0. \A p \in Promise : p.v \in Int /\ p.v >= 0
  BY PromiseFields, Givens DEF Versions
<1>1. CASE Ends(j)
  BY <1>1 DEF Ends, Awaited, NoJob
<1>2. CASE Advances(j) \/ Receives(j)
  <2>1. job'[j].at # "store" /\ job'[j].op = job[j].op /\ job'[j].dom = job[j].dom
        /\ job[j].dom \in Domains
    BY <1>2 DEF Advances, Receives, FlowInv, Flows, Staged
  <2> QED
    BY <2>1 DEF Awaited
<1>3. ASSUME NEW d \in Domains, Begun(j, d) PROVE Awaited(j)'
  <2>0. job'[j].dom = d /\ job[j].at = "idle"
    BY <1>3 DEF Begun, NoJob
  <2>1. CASE Orders(j, d)
    BY <2>0, <2>1 DEF Orders, Awaited, Kept
  <2>2. CASE Uploads(j, d)
    BY <2>0, <2>2 DEF Uploads, Awaited
  <2>3. CASE AsksAutocert(j, d)
    <3>0. NoCert.of # d
      BY Givens DEF NoCert
    <3>1. ~ now[d].v > 0
      BY <2>3, <3>0 DEF AsksAutocert, Kept
    <3>2. now[d] \in Promise
      BY DEF HistTyped
    <3>3. now[d].v = 0
      BY <1>0, <3>1, <3>2
    <3> QED
      BY <2>0, <2>3, <3>3, AutocertAccepts DEF AsksAutocert, Awaited, Accepted, Elsewhere
  <2> QED
    BY <1>3, <2>1, <2>2, <2>3 DEF Begun
<1> QED
  BY <1>1, <1>2, <1>3 DEF Moved

\* A new configuration of a site is not one of a domain that shares none.
LEMMA GoneStays ==
  ASSUME CertTyping, NEW X \in SUBSET Sites, NEW c, NewSiteConfig(X, c), NEW d \in Domains, same[d] = {d}
  PROVE  same'[d] = {d} /\ cfg'[d] = cfg[d]
<1>1. d \notin X /\ d \in Holders
  BY Givens
<1> QED
  BY <1>1 DEF NewSiteConfig, Without

LEMMA TellStays ==
  ASSUME CertTyping, NEW e \in Domains, NEW mode, UpdateSiteSSLConfig(e, mode), NEW d \in Domains,
         same[d] = {d}
  PROVE  same'[d] = {d} /\ cfg'[d] = cfg[d]
<1>1. {SiteOf[e]} \in SUBSET Sites
  BY Givens
<1> QED
  BY <1>1, GoneStays DEF UpdateSiteSSLConfig

\* Domains that a step is not about keep what they have.
LEMMA KeptElsewhere ==
  ASSUME NEW d \in Domains, Kept(d), UNCHANGED use, now'[d] = now[d],
         certs'[d] = certs[d], acme'[d] = acme[d] \/ certs[d] = NoCert,
         Accepted(d) => Accepted(d)',
         now[d].mode = "gone" => same'[d] = {d} /\ cfg'[d].mode = "none"
  PROVE  Kept(d)'
BY DEF Kept

LEMMA RestartServes ==
  ASSUME CertTyping, FlowInv, SoleInv, FilesInv, DurableInv, Restart, Undisturbed', ~ Shared, UNCHANGED use
  PROVE  Serving'
<1> USE DEF CertTyping
<1>1. /\ ~ use.overlap /\ ~ use.faults /\ ~ use.crash
      /\ LoadSiteCertificates /\ \A j \in Jobs : job[j] = NoJob
      /\ now' = durable /\ \A j \in Jobs : job'[j] = NoJob
  BY CertificatesAssumption DEF Restart, Undisturbed, RunTyped
<1>2. Lasting /\ Paired
  BY <1>1 DEF DurableInv, Calm, FilesInv, Uninterrupted
<1>3. \A d \in Domains : crt[d] \in {0, key[d]}
  BY <1>1, <1>2 DEF Paired, AtKey, NoJob
<1>4. \A j \in Jobs : Awaited(j)'
  BY <1>1 DEF Awaited, NoJob
<1>5. ASSUME NEW d \in Domains PROVE Kept(d)'
  <2> DEFINE c == saved[SiteOf[d]]
  <2>0. /\ cfg' = [x \in Holders |-> IF x \in Sites THEN saved[x]
                                      ELSE IF On(x) THEN saved[SiteOf[x]] ELSE NoCfg]
        /\ \A x \in Holders : same'[x] = {y \in Holders : HolderOf(y) = HolderOf(x)}
        /\ certs'[d] = IF ~ On(d) THEN NoCert
                       ELSE LoadX509KeyPair(IF c.mode = "custom" THEN c.file ELSE d)
    BY <1>1, LoadIsTyped
  <2>1. Settled(durable[d], d, crt[d], key[d], c)
    BY <1>2 DEF Lasting
  <2>2. durable[d].v \in Int /\ crt[d] \in Int
    <3>1. \A p \in Promise : p.v \in Int
      BY PromiseFields, Givens DEF Versions
    <3> QED
      BY <3>1, Givens DEF HistTyped, DiskTyped, Versions
  <2>3. ASSUME durable[d].v > 0 PROVE certs'[d].of = d /\ certs'[d].v >= durable[d].v
    <3>1. On(d) /\ (c.mode = "custom" => c.file = d) /\ crt[d] >= durable[d].v
      BY <2>1, <2>3 DEF Settled, On, OnModes
    <3>2. certs'[d] = LoadX509KeyPair(d) /\ crt[d] # 0 /\ crt[d] = key[d]
      BY <1>3, <2>0, <2>2, <2>3, <3>1
    <3>3. LoadX509KeyPair(d) = [of |-> d, v |-> crt[d]]
      BY <3>2 DEF LoadX509KeyPair
    <3> QED
      BY <3>1, <3>2, <3>3
  <2>4. ASSUME durable[d].mode = "gone"
        PROVE  certs'[d] = NoCert /\ same'[d] = {d} /\ cfg'[d].mode = "none" /\ durable[d].v = 0
    <3>1. ~ On(d) /\ durable[d].v = 0
      BY <2>1, <2>4 DEF Settled, On
    <3>2. d \in Holders /\ d \notin Sites /\ HolderOf(d) = d
      BY <3>1, Givens DEF HolderOf
    <3>3. \A y \in Holders : HolderOf(y) = d => y = d
      BY <3>2, Givens DEF HolderOf
    <3> QED
      BY <2>0, <3>1, <3>2, <3>3 DEF NoCfg
  <2> QED
    BY <1>1, <2>3, <2>4 DEF Kept
<1> QED
  BY <1>4, <1>5 DEF Serving

LEMMA LoadServes ==
  ASSUME CertTyping, FlowInv, AcmeInv, AutoInv, VersionInv, SoleInv, FilesInv, Uninterrupted, Serving,
         NEW j \in Jobs, Load(j), Moved(j), UNCHANGED use
  PROVE  Serving'
<1> USE DEF CertTyping
<1> DEFINE d == job[j].dom
           op == job[j].op
           v == job[j].v
<1>1. /\ d \in Domains /\ Serves(d) /\ certs'[d] = LoadX509KeyPair(d) /\ certs'[d] # NoCert
      /\ Promises(d) /\ now'[d].v = v
      /\ op = "renew" => now'[d].mode = now[d].mode /\ UNCHANGED cfg
      /\ op # "renew" => /\ now'[d].mode \in {"custom", "lego"}
                        /\ \E c \in NamedCfg : Write(d, c)
  BY LoadEffect DEF ModeOf
<1>2. UNCHANGED <<hosts, acme, same>> /\ job[j].at = "load"
  BY DEF Load
<1>3. crt[d] = v /\ v > 0 /\ now[d].v <= v /\ v \in Nat
  BY <1>2, FilesAreNewest
<1>4. now[d].mode # "gone" \/ op # "renew"
  BY DEF Serving, Awaited
<1>5. now'[d].mode # "gone"
  BY <1>1, <1>4
<1> HIDE DEF op, v
<1>6. ASSUME NEW i \in Jobs \ {j} PROVE Awaited(i)'
  <2>1. job'[i] = job[i]
    BY DEF Moved, Ends, Advances, Receives, Begun, Others
  <2>2. job[i].at # "idle" => job[i].dom \in Domains \ {d}
    BY <1>1 DEF SoleInv, Sole, Uninterrupted, FlowInv, Flows, Staged
  <2>3. job[i].op = "renew" \/ job[i].at = "store" => job[i].at # "idle"
    BY DEF FlowInv, Flows, Staged, NoJob
  <2> QED
    BY <1>1, <1>2, <2>1, <2>2, <2>3 DEF Serving, Awaited, Promises, Accepted, Elsewhere
<1>7. Awaited(j)'
  <2>1. Awaited(j) /\ \A e \in Domains : Kept(e)
    BY DEF Serving
  <2>2. \A e \in Domains : now'[e].mode = "gone" => now[e].mode = "gone"
    BY <1>1, <1>5 DEF Promises
  <2> HIDE DEF d
  <2> QED
    BY <1>2, <2>1, <2>2, AwaitedMoves
<1>8. ASSUME NEW e \in Domains, e = d PROVE Kept(e)'
  <2>1. LoadX509KeyPair(e).of = e /\ LoadX509KeyPair(e).v = crt[e]
    BY <1>1, <1>8, PairIsTyped
  <2> HIDE DEF d
  <2> QED
    BY <1>1, <1>3, <1>5, <1>8, <2>1 DEF Kept
<1>9. ASSUME NEW e \in Domains, e # d PROVE Kept(e)'
  <2>1. now'[e] = now[e] /\ certs'[e] = certs[e] /\ Kept(e)
    BY <1>1, <1>9 DEF Promises, Serves, Serving
  <2>2. Accepted(e) => Accepted(e)'
    BY <1>2 DEF Accepted, Elsewhere
  <2>3. ASSUME now[e].mode = "gone" PROVE same'[e] = {e} /\ cfg'[e].mode = "none"
    <3>1. same[e] = {e} /\ cfg[e].mode = "none" /\ e \in Holders /\ d \in Holders
      BY <1>1, <2>1, <2>3, Givens DEF Kept
    <3>2. e \notin same[d]
      BY <1>9, <3>1 DEF CfgTyped, Agree
    <3>3. ASSUME NEW c, Write(d, c) PROVE cfg'[e] = cfg[e]
      BY <3>1, <3>2, <3>3 DEF Write
    <3> QED
      BY <1>1, <1>2, <3>1, <3>3
  <2> QED
    BY <1>2, <2>1, <2>2, <2>3, KeptElsewhere
<1>10. \A i \in Jobs : Awaited(i)'
  BY <1>6, <1>7
<1> QED
  BY <1>8, <1>9, <1>10 DEF Serving

\* A job other than the one that steps waits as it did.
LEMMA OthersAwait ==
  ASSUME Serving, NEW j \in Jobs, Others(j), UNCHANGED <<hosts, use, now>>, Awaited(j)'
  PROVE  \A i \in Jobs : Awaited(i)'
<1> SUFFICES ASSUME NEW i \in Jobs \ {j} PROVE Awaited(i)'
  OBVIOUS
<1>1. job'[i] = job[i] /\ Awaited(i)
  BY DEF Others, Serving
<1> QED
  BY <1>1 DEF Awaited, Accepted, Elsewhere

LEMMA JobServes ==
  ASSUME CertTyping, FlowInv, AcmeInv, AutoInv, Serving, NEW j \in Jobs, JobStep(j), ~ Load(j), UNCHANGED use
  PROVE  Serving'
<1> USE DEF CertTyping
<1>1. UNCHANGED <<hosts, now>>
  BY DEF JobStep, Issued, NotIssued, WriteCrt, WriteKey, CannotLoad, TellSite, TooLateForSite,
         StoreHandshake, OrderByAPI, RenewCertificateLego, Handshake, SaveCustomCertificate,
         CompleteChallenge, hist, mgrVars
<1>2. \A i \in Jobs : Awaited(i)'
  <2>1. CASE UNCHANGED job
    BY <1>1, <2>1 DEF Serving, Awaited, Accepted, Elsewhere
  <2>2. CASE Moved(j)
    <3>1. Awaited(j)'
      BY <1>1, <2>2, AwaitedMoves DEF Serving
    <3> QED
      BY <1>1, <2>2, <3>1, OthersAwait DEF Moved, Ends, Advances, Receives, Begun
  <2> QED
    BY <2>1, <2>2, JobStepMoves
<1>3. \A d \in Domains : Accepted(d) => Accepted(d)'
  BY <1>1 DEF Accepted, Elsewhere
<1>4. CASE StoreHandshake(j)
  <2>1. /\ job[j].at = "store" /\ Serves(job[j].dom) /\ job[j].dom \in Domains
        /\ certs'[job[j].dom] = [of |-> job[j].dom, v |-> acme[job[j].dom]]
        /\ UNCHANGED <<acme, cfg, same>>
    BY <1>4, StoreEffect DEF cfgVars
  <2>2. now[job[j].dom].v = 0 /\ Accepted(job[j].dom)
    BY <2>1 DEF Serving, Awaited
  <2>3. ASSUME NEW e \in Domains, e = job[j].dom PROVE Kept(e)'
    <3>1. certs'[e] = [of |-> e, v |-> acme[e]] /\ now[e].v = 0 /\ Accepted(e) /\ Kept(e)
      BY <2>1, <2>2, <2>3 DEF Serving
    <3> QED
      BY <1>1, <1>3, <2>1, <3>1 DEF Kept
  <2>4. ASSUME NEW e \in Domains, e # job[j].dom PROVE Kept(e)'
    <3>1. certs'[e] = certs[e] /\ Kept(e)
      BY <2>1, <2>4 DEF Serves, Serving
    <3>2. now[e].mode = "gone" => same'[e] = {e} /\ cfg'[e].mode = "none"
      BY <2>1, <3>1 DEF Kept
    <3> QED
      BY <1>1, <1>3, <2>1, <3>1, <3>2, KeptElsewhere
  <2> QED
    BY <1>2, <2>3, <2>4 DEF Serving
<1>5. CASE TellSite(j)
  <2>1. /\ job[j].dom \in Domains /\ UNCHANGED <<certs, acme>>
        /\ UpdateSiteSSLConfig(job[j].dom, ModeOf(job[j].op))
    BY <1>5, TellEffect
  <2>2. ASSUME NEW e \in Domains PROVE Kept(e)'
    <3>1. Kept(e)
      BY DEF Serving
    <3>2. now[e].mode = "gone" => same'[e] = {e} /\ cfg'[e].mode = "none"
      BY <2>1, <3>1, TellStays DEF Kept
    <3> QED
      BY <1>1, <1>3, <2>1, <3>1, <3>2, KeptElsewhere
  <2> QED
    BY <1>2, <2>2 DEF Serving
<1>6. ASSUME ~ StoreHandshake(j), ~ TellSite(j) PROVE Serving'
  <2>1. UNCHANGED <<certs, cfg, same>>
    BY <1>6 DEF JobStep, Issued, NotIssued, WriteCrt, WriteKey, CannotLoad, TooLateForSite,
           OrderByAPI, RenewCertificateLego, Handshake, SaveCustomCertificate,
           CompleteChallenge, cfgVars, mgrVars
  <2>2. \A d \in Domains : acme'[d] = acme[d] \/ certs[d] = NoCert
    <3>1. ASSUME NEW d \in Domains, Begun(j, d), AsksAutocert(j, d)
          PROVE  \A e \in Domains : acme'[e] = acme[e] \/ certs[e] = NoCert
      BY <3>1 DEF AsksAutocert
    <3> QED
      BY <3>1, JobStepMoves DEF Moved, Ends, Advances, Receives, Begun, Orders, Uploads
  <2>3. ASSUME NEW e \in Domains PROVE Kept(e)'
    <3>1. Kept(e)
      BY DEF Serving
    <3>2. now[e].mode = "gone" => same'[e] = {e} /\ cfg'[e].mode = "none"
      BY <2>1, <3>1 DEF Kept
    <3> QED
      BY <1>1, <1>3, <2>1, <2>2, <3>1, <3>2, KeptElsewhere
  <2> QED
    BY <1>2, <2>3 DEF Serving
<1> QED
  BY <1>4, <1>5, <1>6

LEMMA RequestServes ==
  ASSUME CertTyping, FlowInv, ~ use.overlap, Serving, NEW d \in Domains, UNCHANGED use,
         \/ PrepareChallenge(d) \/ Expire(d) \/ RenewCertificate(d) \/ DeleteCertificate(d)
         \/ \E mode \in {"auto", "lego"} : RequestCertificate(d, mode)
         \/ \E S \in SUBSET Sites : Deploy(d, S)
  PROVE  Serving'
<1> USE DEF CertTyping
<1>1. CASE PrepareChallenge(d) \/ Expire(d)
  <2>1. UNCHANGED <<certs, hosts, acme, cfg, same, now, job>>
    BY <1>1 DEF PrepareChallenge, Expire, cfgVars
  <2> QED
    BY <2>1 DEF Serving, Kept, Awaited, Accepted, Elsewhere
<1>2. ASSUME NEW S \in SUBSET Sites, Deploy(d, S) PROVE Serving'
  <2>1. UNCHANGED <<certs, hosts, acme, now, job>>
        /\ NewSiteConfig(S, [mode |-> "custom", file |-> d])
    BY <1>2, DeployEffect
  <2>2. ASSUME NEW e \in Domains PROVE Kept(e)'
    <3>1. Kept(e) /\ (Accepted(e) => Accepted(e)')
      BY <2>1 DEF Serving, Accepted, Elsewhere
    <3>2. now[e].mode = "gone" => same'[e] = {e} /\ cfg'[e].mode = "none"
      BY <2>1, <3>1, GoneStays DEF Kept
    <3> QED
      BY <2>1, <3>1, <3>2, KeptElsewhere
  <2> QED
    BY <2>1, <2>2 DEF Serving, Awaited, Accepted, Elsewhere
<1>3. \A j \in Jobs : MayTouch(d) /\ job[j].at # "idle" => job[j].dom \in Domains \ {d}
  BY DEF MayTouch, Busy, FlowInv, Flows, Staged
<1>4. \A j \in Jobs : job[j].op = "renew" \/ job[j].at = "store" => job[j].at # "idle"
  BY DEF FlowInv, Flows, Staged, NoJob
<1>5. CASE RenewCertificate(d)
  <2>1. /\ MayTouch(d) /\ cfg[d].mode = "auto" /\ Serves(d) /\ certs'[d] = NoCert /\ Promises(d)
        /\ now'[d].v = 0 /\ now'[d].mode = now[d].mode /\ UNCHANGED <<hosts, acme, cfg, same, job>>
    BY <1>5, RenewEffect DEF cfgVars
  <2>2. Kept(d)'
    <3>1. now'[d].mode # "gone"
      BY <2>1 DEF Kept, Serving
    <3> QED
      BY <2>1, <3>1 DEF Kept
  <2>3. ASSUME NEW e \in Domains \ {d} PROVE Kept(e)'
    <3>1. Kept(e) /\ (Accepted(e) => Accepted(e)') /\ now'[e] = now[e] /\ certs'[e] = certs[e]
      BY <2>1 DEF Serving, Accepted, Elsewhere, Promises, Serves
    <3> QED
      BY <2>1, <3>1, KeptElsewhere DEF Kept
  <2>4. ASSUME NEW j \in Jobs PROVE Awaited(j)'
    BY <1>3, <1>4, <2>1 DEF Serving, Awaited, Accepted, Elsewhere, Promises
  <2> QED
    BY <2>2, <2>3, <2>4 DEF Serving
<1>6. CASE DeleteCertificate(d)
  <2>1. /\ MayTouch(d) /\ Serves(d) /\ certs'[d] = NoCert /\ Promises(d)
        /\ now'[d].v = 0 /\ now'[d].mode = "gone" /\ UNCHANGED <<hosts, acme, job>>
        /\ \A y \in Holders \ {d, SiteOf[d]} : cfg'[y] = cfg[y]
        /\ cfg'[d] = NoCfg /\ same' = Without({d, SiteOf[d]})
    BY <1>6, DeleteEffect
  <2>2. Kept(d)'
    BY <2>1, Givens DEF Kept, Without, NoCfg
  <2>3. ASSUME NEW e \in Domains \ {d} PROVE Kept(e)'
    <3>1. Kept(e) /\ (Accepted(e) => Accepted(e)') /\ now'[e] = now[e] /\ certs'[e] = certs[e]
      BY <2>1 DEF Serving, Accepted, Elsewhere, Promises, Serves
    <3>2. e \in Holders \ {d, SiteOf[d]}
      BY Givens
    <3>3. same[e] = {e} => same'[e] = {e}
      BY <2>1, <3>2 DEF Without
    <3> QED
      BY <2>1, <3>1, <3>2, <3>3, KeptElsewhere DEF Kept
  <2>4. ASSUME NEW j \in Jobs PROVE Awaited(j)'
    BY <1>3, <1>4, <2>1 DEF Serving, Awaited, Accepted, Elsewhere, Promises
  <2> QED
    BY <2>2, <2>3, <2>4 DEF Serving
<1>7. ASSUME NEW mode \in {"auto", "lego"}, RequestCertificate(d, mode) PROVE Serving'
  <2>1. /\ d \in use.domains /\ "auto" \in use.ops /\ MayTouch(d) /\ Promises(d)
        /\ UNCHANGED <<certs, acme, job>> /\ now'[d].v = now[d].v
        /\ now'[d].mode = IF now[d].mode = "gone" THEN "any" ELSE now[d].mode
        /\ mode = "lego" => hosts' = hosts
        /\ mode = "auto" => d \in hosts'
        /\ UpdateSiteSSLConfig(d, mode)
    BY <1>7, RequestEffect
  <2>2. Kept(d)'
    <3>1. now'[d].mode # "gone" /\ Kept(d)
      BY <2>1 DEF Serving
    <3> QED
      BY <2>1, <3>1 DEF Kept
  <2>3. ASSUME NEW e \in Domains \ {d}, Accepted(e) PROVE Accepted(e)'
    <3>1. Elsewhere(e)
      BY <2>1 DEF Elsewhere
    <3> QED
      BY <3>1 DEF Accepted, Elsewhere
  <2>4. ASSUME NEW e \in Domains \ {d} PROVE Kept(e)'
    <3>1. Kept(e) /\ now'[e] = now[e]
      BY <2>1 DEF Serving, Promises
    <3>2. now[e].mode = "gone" => same'[e] = {e} /\ cfg'[e].mode = "none"
      BY <2>1, <3>1, TellStays DEF Kept
    <3> QED
      BY <2>1, <2>3, <3>1, <3>2, KeptElsewhere
  <2>5. ASSUME NEW j \in Jobs PROVE Awaited(j)'
    <3>1. CASE job[j].op = "renew" \/ job[j].at = "store"
      <4>1. job[j].dom \in Domains \ {d} /\ Awaited(j)
        BY <1>3, <1>4, <2>1, <3>1 DEF Serving
      <4> QED
        BY <2>1, <2>3, <4>1 DEF Awaited, Promises
    <3>2. CASE ~ (job[j].op = "renew" \/ job[j].at = "store")
      BY <2>1, <3>2 DEF Awaited
    <3> QED
      BY <3>1, <3>2
  <2> QED
    BY <2>2, <2>4, <2>5 DEF Serving
<1> QED
  BY <1>1, <1>2, <1>5, <1>6, <1>7

LEMMA NowStep ==
  ASSUME CertTyping, FlowInv, AcmeInv, AutoInv, VersionInv, SoleInv, FilesInv, DurableInv, NowInv,
         [Next]_certVars
  PROVE  NowInv'
<1>0. UNCHANGED use
  BY UseIsFixed
<1> SUFFICES ASSUME Undisturbed', restarts' > 0 => ~ Shared PROVE Serving'
  BY <1>0 DEF NowInv, Shared
<1>1. CASE Restart
  <2>1. restarts' > 0
    BY <1>1, CertificatesAssumption DEF Restart, CertTyping, RunTyped
  <2> QED
    BY <1>0, <1>1, <2>1, RestartServes
<1>2. CASE ~ Restart
  <2>1. Serving /\ Uninterrupted /\ ~ use.overlap
    BY <1>0, <1>2, RestartsStay DEF NowInv, Undisturbed, Uninterrupted
  <2>2. ASSUME NEW j \in Jobs, JobStep(j) PROVE Serving'
    <3>1. CASE Load(j)
      <4>1. Moved(j)
        <5>1. job' # job
          <6>1. job[j].at = "load" /\ (Failed(j) \/ Goes(j, "site"))
            BY <3>1 DEF Load
          <6>2. job'[j].at # "load"
            BY <6>1, JobFails, JobGoes DEF NoJob, CertTyping, JobTyped
          <6> QED
            BY <6>1, <6>2
        <5> QED
          BY <2>2, <5>1, JobStepMoves
      <4> QED
        BY <1>0, <2>1, <3>1, <4>1, LoadServes
    <3>2. CASE ~ Load(j)
      BY <1>0, <2>1, <2>2, <3>2, JobServes
    <3> QED
      BY <3>1, <3>2
  <2>3. CASE Save \/ UNCHANGED certVars
    <3>1. UNCHANGED <<certs, hosts, acme, cfg, same, now, job, use>>
      BY <2>3 DEF Save, certVars, mgrVars, cfgVars, hist
    <3> QED
      BY <2>1, <3>1 DEF Serving, Kept, Awaited, Accepted, Elsewhere
  <2> QED
    BY <1>0, <1>2, <2>1, <2>2, <2>3, RequestServes DEF Next
<1> QED
  BY <1>1, <1>2

-----------------------------------------------------------------------------
(* The kind of configuration, and the challenges.                           *)

LEMMA ManagedStep ==
  ASSUME CertTyping, FlowInv, SharingInv, PromisedInv, DurableInv, ManagedAsPromised,
         [Next]_certVars
  PROVE  ManagedAsPromised'
<1>0. UNCHANGED use
  BY UseIsFixed
<1> USE DEF CertTyping
<1> SUFFICES ASSUME Undisturbed', ~ Shared, NEW d \in Domains, now'[d].mode \in {"custom", "lego"}
             PROVE  cfg'[d].mode = now'[d].mode
  BY <1>0 DEF ManagedAsPromised, Shared
<1>1. CASE Restart
  <2>1. ~ use.overlap /\ ~ use.faults /\ ~ use.crash /\ now' = durable /\ LoadSiteCertificates
    BY <1>0, <1>1, CertificatesAssumption DEF Restart, Undisturbed, RunTyped
  <2>2. Settled(durable[d], d, crt[d], key[d], saved[SiteOf[d]])
    BY <2>1 DEF DurableInv, Calm, Lasting
  <2>3. saved[SiteOf[d]].mode = durable[d].mode
    BY <2>1, <2>2 DEF Settled, OnModes
  <2>4. cfg'[d] = saved[SiteOf[d]]
    BY <2>1, <2>3, LoadIsTyped, Givens DEF On
  <2> QED
    BY <2>1, <2>3, <2>4
<1>2. CASE ~ Restart
  <2>0. \A e \in Domains : now[e].mode \in {"custom", "lego"} => cfg[e].mode = now[e].mode
    BY <1>0, <1>2, RestartsStay DEF ManagedAsPromised, Undisturbed
  <2>00. d \in Holders /\ d \notin Sites
    BY Givens
  <2>1. ASSUME NEW j \in Jobs, Load(j) PROVE cfg'[d].mode = now'[d].mode
    <3> DEFINE e == job[j].dom
    <3>1. /\ e \in Domains /\ e \in use.domains /\ Promises(e)
          /\ job[j].op = "renew" => now'[e].mode = now[e].mode /\ UNCHANGED cfg
          /\ job[j].op # "renew" =>
               \E c \in NamedCfg : c.mode = now'[e].mode /\ Write(e, c)
      BY <2>1, LoadEffect
    <3> HIDE DEF e
    <3>2. CASE job[j].op = "renew"
      BY <2>0, <3>1, <3>2 DEF Promises
    <3>3. CASE job[j].op # "renew"
      <4>1. PICK c \in NamedCfg : c.mode = now'[e].mode /\ Write(e, c)
        BY <3>1, <3>3
      <4>2. cfg'[d] = IF d \in same[e] THEN c ELSE cfg[d]
        BY <2>00, <4>1 DEF Write
      <4>3. CASE d = e
        BY <3>1, <4>1, <4>2, <4>3, Givens DEF CfgTyped, Agree
      <4>4. CASE d # e
        <5>1. now'[d] = now[d]
          BY <3>1, <4>4 DEF Promises
        <5>2. d \in use.domains
          BY <5>1 DEF PromisedInv, NotPromised
        <5>3. SiteOf[d] # SiteOf[e]
          BY <3>1, <4>4, <5>2, SiteAlone
        <5>4. d \notin same[e]
          BY <3>1, <5>3, Givens DEF SharingInv, SiteFor
        <5> QED
          BY <2>0, <4>2, <5>1, <5>4
      <4> QED
        BY <4>3, <4>4
    <3> QED
      BY <3>2, <3>3
  <2>2. ASSUME NEW j \in Jobs, TellSite(j) PROVE cfg'[d].mode = now'[d].mode
    <3>1. /\ job[j].dom \in Domains /\ UNCHANGED now /\ ModeOf(job[j].op) \in {"custom", "lego"}
          /\ UpdateSiteSSLConfig(job[j].dom, ModeOf(job[j].op))
      BY <2>2, TellEffect
    <3>2. \A y \in Holders \ {SiteOf[job[j].dom]} : cfg'[y] = cfg[y]
      BY <3>1, TellConfig
    <3>3. cfg'[d] = cfg[d]
      BY <2>00, <3>1, <3>2, Givens
    <3> QED
      BY <2>0, <3>1, <3>3
  <2>3. ASSUME NEW e \in Domains, NEW mode \in {"auto", "lego"}, RequestCertificate(e, mode)
        PROVE  cfg'[d].mode = now'[d].mode
    <3>1. /\ UpdateSiteSSLConfig(e, mode) /\ Promises(e)
          /\ now'[e].mode = IF now[e].mode = "gone" THEN "any" ELSE now[e].mode
      BY <2>3, RequestEffect
    <3>4. \A y \in Holders \ {SiteOf[e]} : cfg'[y] = cfg[y]
      BY <3>1, TellConfig
    <3>2. cfg'[d] = cfg[d]
      BY <2>00, <3>4, Givens
    <3>3. now'[d].mode = now[d].mode
      BY <3>1 DEF Promises
    <3> QED
      BY <2>0, <3>2, <3>3
  <2>4. ASSUME NEW e \in Domains, DeleteCertificate(e) PROVE cfg'[d].mode = now'[d].mode
    <3>1. /\ Promises(e) /\ now'[e].mode = "gone"
          /\ \A y \in Holders \ {e, SiteOf[e]} : cfg'[y] = cfg[y]
      BY <2>4, DeleteEffect
    <3>2. d # e /\ d # SiteOf[e]
      BY <3>1, Givens
    <3> QED
      BY <2>0, <2>00, <3>1, <3>2 DEF Promises
  <2>5. ASSUME NEW e \in Domains, NEW S \in SUBSET Sites, Deploy(e, S)
        PROVE  cfg'[d].mode = now'[d].mode
    <3>1. NewSiteConfig(S, [mode |-> "custom", file |-> e]) /\ UNCHANGED now
      BY <2>5, DeployEffect
    <3>2. cfg'[d] = cfg[d]
      BY <2>00, <3>1 DEF NewSiteConfig
    <3> QED
      BY <2>0, <3>1, <3>2
  <2>6. ASSUME NEW e \in Domains, RenewCertificate(e) PROVE cfg'[d].mode = now'[d].mode
    <3>1. Promises(e) /\ now'[e].mode = now[e].mode /\ UNCHANGED cfg
      BY <2>6, RenewEffect DEF cfgVars
    <3> QED
      BY <2>0, <3>1 DEF Promises
  <2>7. CASE Save
    BY <2>0, <2>7 DEF Save, hist
  <2>8. CASE UNCHANGED <<cfg, now>>
    BY <2>0, <2>8
  <2> QED
    BY <1>2, <2>1, <2>2, <2>3, <2>4, <2>5, <2>6, <2>7, <2>8, ConfigsMove, PromisesMove
<1> QED
  BY <1>1, <1>2

LEMMA ChallengeStep ==
  ASSUME CertTyping, FlowInv, ChallengeKept, [Next]_certVars
  PROVE  ChallengeKept'
<1>0. UNCHANGED use
  BY UseIsFixed
<1> USE DEF CertTyping
<1>1. CASE Restart
  BY <1>1 DEF Restart, ChallengeKept
<1>2. CASE UNCHANGED <<pending, prepared>>
  BY <1>0, <1>2 DEF ChallengeKept
<1>3. ASSUME NEW j \in Jobs, Load(j) PROVE ChallengeKept'
  <2>1. /\ prepared' = prepared \ (IF job[j].op \in {"file", "dns", "api"} THEN {job[j].dom} ELSE {})
        /\ \A e \in Domains \ {job[j].dom} : pending'[e] = pending[e]
        /\ job[j].op \notin {"file", "dns", "api"} => pending' = pending
    BY <1>3, LoadEffect
  <2>2. prepared \subseteq Domains
    BY DEF HistTyped
  <2> QED
    BY <1>0, <2>1, <2>2 DEF ChallengeKept
<1>4. ASSUME NEW j \in Jobs, NEW d \in Domains, NEW op \in Ops, CompleteChallenge(j, d, op)
      PROVE  ChallengeKept'
  BY <1>0, <1>4 DEF CompleteChallenge, ChallengeKept, MgrTyped, HistTyped, hist
<1>5. ASSUME NEW d \in Domains, PrepareChallenge(d) \/ Expire(d) PROVE ChallengeKept'
  BY <1>0, <1>5 DEF PrepareChallenge, Expire, ChallengeKept, MgrTyped, HistTyped
<1>6. ASSUME NEW j \in Jobs, JobStep(j), ~ Load(j),
             ~ \E d \in Domains, op \in Ops : CompleteChallenge(j, d, op)
      PROVE  UNCHANGED <<pending, prepared>>
  BY <1>6 DEF JobStep, Issued, NotIssued, WriteCrt, WriteKey, CannotLoad, TellSite, TooLateForSite,
         StoreHandshake, OrderByAPI, RenewCertificateLego, Handshake, SaveCustomCertificate,
         hist, mgrVars
<1>7. ASSUME NEW d \in Domains, \/ RenewCertificate(d) \/ DeleteCertificate(d)
                                \/ \E mode \in {"auto", "lego"} : RequestCertificate(d, mode)
                                \/ \E S \in SUBSET Sites : Deploy(d, S)
      PROVE  UNCHANGED <<pending, prepared>>
  BY <1>7 DEF RenewCertificate, DeleteCertificate, RequestCertificate, Deploy, mgrVars
<1>8. Save \/ UNCHANGED certVars => UNCHANGED <<pending, prepared>>
  BY DEF Save, certVars, mgrVars, hist
<1> QED
  BY <1>1, <1>2, <1>3, <1>4, <1>5, <1>6, <1>7, <1>8 DEF Next

-----------------------------------------------------------------------------
(* The inductive invariant and the theorems.                                *)

CertInv ==
  /\ CertTyping /\ FlowInv /\ AcmeInv /\ VersionInv /\ SoleInv /\ FilesInv
  /\ SharingInv /\ PromisedInv /\ DurableInv /\ AutoInv /\ NowInv /\ ManagedAsPromised /\ ChallengeKept

LEMMA CertInit == Init => CertInv
<1> SUFFICES ASSUME Init PROVE CertInv
  OBVIOUS
<1>1. [mode |-> "off", file |-> NoDomain] \in NamedCfg
  BY DEF NamedCfg, Cfg
<1>2. NotPromised \in Promise
  BY Givens DEF NotPromised, Promise, Versions
<1>3. cfg \in [Holders -> NamedCfg] /\ (\A x \in Holders : same[x] = {x})
      /\ same \in [Holders -> SUBSET Holders]
  BY <1>1, Givens DEF Init
<1>4. CfgTyped
  BY <1>3, Givens DEF Init, CfgTyped, Agree
<1>5. now = [d \in Domains |-> NotPromised] /\ durable = now
  BY DEF Init, NotPromised
<1>6. CertTyping
  BY <1>2, <1>4, <1>5, Givens, CertificatesAssumption
     DEF Init, CertTyping, MgrTyped, DiskTyped, HistTyped, JobTyped, RunTyped
<1>7. \A d \in Domains : now[d].v = 0 /\ now[d].mode = "any" /\ durable[d] = NotPromised
                         /\ now[d] = NotPromised
  BY <1>5 DEF NotPromised
<1>8. FlowInv /\ SoleInv
  BY Givens DEF Init, FlowInv, Flows, Staged, NoJob, SoleInv, Sole, Installing
<1>9. AcmeInv /\ VersionInv /\ FilesInv
  BY <1>7 DEF Init, AcmeInv, VersionInv, FilesInv, Paired, NoJob, NotPromised
<1>10. SharingInv /\ PromisedInv
  BY <1>3, <1>7 DEF SharingInv, PromisedInv
<1>11. DurableInv
  BY <1>7, NothingToSettle DEF DurableInv, Lasting
<1>12. NowInv
  BY <1>7 DEF Init, NowInv, Serving, Kept, Awaited, NoJob
<1>13. AutoInv
  BY Givens DEF Init, AutoInv, AutoSites, AutoHosts
<1>14. ManagedAsPromised /\ ChallengeKept
  BY <1>7 DEF Init, ManagedAsPromised, ChallengeKept
<1> QED
  BY <1>6, <1>8, <1>9, <1>10, <1>11, <1>12, <1>13, <1>14 DEF CertInv

(* Between two steps: versions, files, configurations and promises agree.   *)
THEOREM CertificatesAgree == Spec => []CertInv
<1>1. CertInv /\ [Next]_certVars => CertInv'
  BY TypingStep, VersionsStep, SoleStep, FilesStep, SharingStep, PromisedStep, DurableStep,
     AutoStep, NowStep, ManagedStep, ChallengeStep DEF CertInv
<1> QED
  BY CertInit, <1>1, PTL DEF Spec

(* Every variable has a value of its type, and pointers to one configuration see the same. *)
THEOREM CertificatesTyping == Spec => []TypeOK
<1>1. CertInv => TypeOK
  BY TypesOfParts DEF CertInv
<1> QED
  BY CertificatesAgree, <1>1, PTL

(***************************************************************************)
(* saveLegoCertResource and SaveCustomCertificate leave a certificate and   *)
(* its key or no certificate, also when a write of theirs fails.            *)
(***************************************************************************)
THEOREM PairsStayOnDisk == Spec => []PairsOnDisk
<1>1. CertInv => PairsOnDisk
  BY DEF CertInv, PairsOnDisk, FilesInv, Uninterrupted, Paired, AtKey, Busy
<1> QED
  BY CertificatesAgree, <1>1, PTL

(***************************************************************************)
(* What was installed last is served, also after a restart, and what was    *)
(* deleted is not served again.                                             *)
(***************************************************************************)
THEOREM PromisesAreKept == Spec => []ServedAsPromised
<1>1. CertInv => ServedAsPromised
  BY DEF CertInv, ServedAsPromised, NowInv, Serving, Kept, Accepted
<1> QED
  BY CertificatesAgree, <1>1, PTL

(***************************************************************************)
(* SSLManager's configuration of a domain stays of the kind installed last, *)
(* which decides whether the daily check renews it.                         *)
(***************************************************************************)
THEOREM KindsStayAsInstalled == Spec => []ManagedAsPromised
<1>1. CertInv => ManagedAsPromised
  BY DEF CertInv
<1> QED
  BY CertificatesAgree, <1>1, PTL

(***************************************************************************)
(* A challenge that was given to the user and has not expired is on         *)
(* SSLManager's list until its certificate is installed.                    *)
(***************************************************************************)
THEOREM ChallengesStay == Spec => []ChallengeKept
<1>1. CertInv => ChallengeKept
  BY DEF CertInv
<1> QED
  BY CertificatesAgree, <1>1, PTL

=============================================================================
