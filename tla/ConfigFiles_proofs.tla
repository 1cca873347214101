-------------------------- MODULE ConfigFiles_proofs --------------------------
(* Proofs about the configuration files.                                    *)
EXTENDS ConfigFiles, SequenceTheorems, TLAPS

LEMMA FirstAndRest ==
  ASSUME NEW S, NEW s \in Seq(S), s # <<>>
  PROVE  /\ Len(s) \in Nat \ {0} /\ Head(s) = s[1] /\ Head(s) \in S
         /\ Tail(s) \in Seq(S) /\ Len(Tail(s)) = Len(s) - 1
         /\ \A i \in 1..Len(Tail(s)) : Tail(s)[i] = s[i + 1] /\ i + 1 \in 1..Len(s)
<1>1. Len(s) \in Nat \ {0}
  BY LenProperties, EmptySeq
<1>2. /\ Head(s) \in S /\ Tail(s) \in Seq(S) /\ Len(Tail(s)) = Len(s) - 1
      /\ \A i \in 1..Len(Tail(s)) : Tail(s)[i] = s[i + 1]
  BY HeadTailProperties
<1>3. Head(s) = s[1]
  OBVIOUS
<1> QED
  BY <1>1, <1>2, <1>3

LEMMA WriteIsTyped ==
  ASSUME NEW who, NEW todo
  PROVE  /\ Write(who, todo).who = who /\ Write(who, todo).todo = todo
         /\ Write(who, todo).open = FALSE /\ Write(who, todo).buf = 0
BY DEF Write

LEMMA UntouchedIsTyped ==
  Untouched \in [Files -> 0..MaxVersion] /\ \A f \in Files : Untouched[f] = 0
BY ConfigFilesAssumption DEF Untouched

LEMMA NewestIsNewest ==
  ASSUME NEW m \in 0..MaxVersion, NEW n \in 0..MaxVersion
  PROVE  Newest(m, n) \in {m, n} /\ Newest(m, n) >= m /\ Newest(m, n) >= n
BY ConfigFilesAssumption DEF Newest

LEMMA Orders ==
  /\ LoadOrder \in Seq(Files) /\ Len(LoadOrder) = 5
  /\ SaveOrder \in Seq(Files) /\ Len(SaveOrder) = 4 /\ SaveOrder # <<>>
  /\ \A f \in Files : \E i \in 1..Len(LoadOrder) : LoadOrder[i] = f
  /\ \A f \in Files \ {"quick"} : \E i \in 1..Len(SaveOrder) : SaveOrder[i] = f
  /\ \A i \in 1..Len(LoadOrder) : LoadOrder[i] = "server" => i = 1
BY DEF LoadOrder, SaveOrder, Files

-----------------------------------------------------------------------------
(* Typing.                                                                  *)

LEMMA JobIsTyped ==
  ASSUME NEW who \in Savers \cup {Nobody, "load", "defaults"}, NEW todo \in Seq(Files)
  PROVE  Write(who, todo) \in Job
BY ConfigFilesAssumption DEF Write, Job

LEMMA NoJobIsTyped ==
  /\ NoJob \in Job /\ NoJob.who = Nobody /\ NoJob.todo = <<>> /\ ~NoJob.open
  /\ NoJob.who \notin Savers \cup {"load", "defaults"}
BY ConfigFilesAssumption, EmptySeq, JobIsTyped DEF NoJob, Write

LEMMA ChangesAreTyped ==
  ASSUME ConfigTypeOK, NEW r \in Savers, NEW F \in SUBSET Files, Changes(r, F)
  PROVE  /\ mem' \in [Files -> 0..MaxVersion]
         /\ changed' \in [Savers -> [Files -> 0..MaxVersion]]
         /\ \A f \in Files : mem'[f] = IF f \in F THEN mem[f] + 1 ELSE mem[f]
         /\ \A f \in Files : changed'[r][f] = IF f \in F THEN mem[f] + 1 ELSE 0
         /\ \A q \in Savers : q # r => changed'[q] = changed[q]
<1>1. \A f \in F : mem[f] + 1 \in 0..MaxVersion
  BY ConfigFilesAssumption DEF Changes, ConfigTypeOK
<1> QED
  BY <1>1, ConfigFilesAssumption DEF Changes, ConfigTypeOK

(***************************************************************************)
(* Who holds the lock has something to write; a request does so only while  *)
(* the program is up, and load only before.                                 *)
(***************************************************************************)
JobInv ==
  /\ ~Free => job.todo # <<>> /\ proc \in {"loading", "up"}
  /\ job.who \in Savers => proc = "up"
  /\ job.who \in {"load", "defaults"} => proc = "loading"

\* What BeginWrite and EndWrite know of the file they are at.
LEMMA AtWork ==
  ASSUME ConfigTypeOK, JobInv, ~Free
  PROVE  /\ job.todo \in Seq(Files) /\ job.todo # <<>>
         /\ Head(job.todo) \in Files /\ Tail(job.todo) \in Seq(Files)
BY FirstAndRest DEF ConfigTypeOK, JobInv, Job

\* Every state of the store is well typed.
THEOREM Typing == ConfigSpec => [](ConfigTypeOK /\ JobInv)
<1> USE ConfigFilesAssumption
<1>1. ConfigInit => ConfigTypeOK /\ JobInv
  <2> SUFFICES ASSUME ConfigInit PROVE ConfigTypeOK /\ JobInv
    OBVIOUS
  <2>1. hist \in HistoryType
    BY DEF ConfigInit
  <2>2. ConfigTypeOK
    BY <2>1, EmptySeq, NoJobIsTyped DEF ConfigInit, ConfigTypeOK, HistoryType, Untouched, LoadOrder
  <2>3. JobInv
    BY NoJobIsTyped DEF ConfigInit, JobInv, Free
  <2> QED
    BY <2>2, <2>3
<1>2. ConfigTypeOK /\ JobInv /\ [ConfigNext]_configVars => ConfigTypeOK' /\ JobInv'
  <2> SUFFICES ASSUME ConfigTypeOK, JobInv, [ConfigNext]_configVars PROVE ConfigTypeOK' /\ JobInv'
    OBVIOUS
  <2>1. CASE Start
    BY <2>1, Orders DEF Start, ConfigTypeOK, JobInv, Free
  <2>2. CASE Loaded
    BY <2>2, NoJobIsTyped DEF Loaded, ConfigTypeOK, JobInv, Free
  <2>3. CASE BeginWrite
    <3>1. Head(job.todo) \in Files
      BY <2>3, AtWork DEF BeginWrite
    <3>2. mem[Head(job.todo)] \in 0..MaxVersion
      BY <3>1 DEF ConfigTypeOK
    <3>3. ConfigTypeOK'
      BY <2>3, <3>1, <3>2 DEF BeginWrite, ConfigTypeOK, Job
    <3>4. job'.todo = job.todo /\ job'.who = job.who /\ job.todo # <<>>
      BY <2>3, AtWork DEF BeginWrite, ConfigTypeOK, Job
    <3> QED
      BY <2>3, <3>3, <3>4 DEF BeginWrite, JobInv
  <2>4. CASE EndWrite
    <3> DEFINE f == Head(job.todo)
               rest == Tail(job.todo)
    <3>1. /\ f \in Files /\ rest \in Seq(Files) /\ job.buf \in 0..MaxVersion
          /\ job.who \in Savers \cup {Nobody, "load", "defaults"}
      BY <2>4, AtWork DEF EndWrite, ConfigTypeOK, Job
    <3>2. /\ job' = IF rest = <<>> THEN NoJob ELSE Write(job.who, rest)
          /\ file' = [file EXCEPT ![f] = "whole"] /\ last' = [last EXCEPT ![f] = job.buf]
          /\ field' = (field /\ f # "server") /\ lacks' = (lacks /\ f # "server")
          /\ UNCHANGED <<proc, toLoad, mem, crashes, hist>>
      BY <2>4 DEF EndWrite
    <3>3. \/ UNCHANGED <<acked, changed>>
          \/ /\ job.who \in Savers
             /\ acked' = [g \in Files |-> Newest(acked[g], changed[job.who][g])]
             /\ changed' = [changed EXCEPT ![job.who] = Untouched]
      BY <2>4 DEF EndWrite
    <3>4. proc \in {"loading", "up"}
      BY <2>4 DEF EndWrite, JobInv
    <3> HIDE DEF f, rest
    <3>5. job' \in Job /\ job'.who \in {job.who, Nobody} /\ (job' # NoJob => job'.todo # <<>>)
      <4>1. CASE rest = <<>>
        BY <3>2, <4>1, NoJobIsTyped
      <4>2. CASE rest # <<>>
        <5>1. job' = Write(job.who, rest)
          BY <3>2, <4>2
        <5>2. Write(job.who, rest) \in Job
          BY <3>1, JobIsTyped
        <5> QED
          BY <4>2, <5>1, <5>2 DEF Write
      <4> QED
        BY <4>1, <4>2
    <3>6. acked' \in [Files -> 0..MaxVersion]
      <4>1. ASSUME job.who \in Savers, NEW g \in Files
            PROVE  Newest(acked[g], changed[job.who][g]) \in 0..MaxVersion
        <5>1. acked[g] \in 0..MaxVersion /\ changed[job.who][g] \in 0..MaxVersion
          BY <4>1 DEF ConfigTypeOK
        <5> QED
          BY <5>1, NewestIsNewest
      <4> QED
        BY <3>3, <4>1 DEF ConfigTypeOK
    <3>7. changed' \in [Savers -> [Files -> 0..MaxVersion]]
      BY <3>3, UntouchedIsTyped DEF ConfigTypeOK
    <3>8. ConfigTypeOK'
      BY <3>1, <3>2, <3>5, <3>6, <3>7 DEF ConfigTypeOK
    <3>9. JobInv'
      BY <3>1, <3>2, <3>4, <3>5, NoJobIsTyped DEF JobInv, Free
    <3> QED
      BY <3>8, <3>9
  <2>5. CASE FailWrite
    <3>1. changed' \in [Savers -> [Files -> 0..MaxVersion]]
      BY <2>5, UntouchedIsTyped DEF FailWrite, ConfigTypeOK
    <3> QED
      BY <2>5, <3>1, NoJobIsTyped DEF FailWrite, ConfigTypeOK, JobInv, Free
  <2>6. CASE Crash
    BY <2>6, NoJobIsTyped, EmptySeq DEF Crash, ConfigTypeOK, JobInv, Free, Untouched
  <2>7. ASSUME NEW f \in Files, LoadFile(f) PROVE ConfigTypeOK' /\ JobInv'
    <3>1. Len(toLoad) \in Nat \ {0} /\ Tail(toLoad) \in Seq(Files) /\ Len(Tail(toLoad)) = Len(toLoad) - 1
      BY <2>7, FirstAndRest DEF LoadFile, ConfigTypeOK
    <3>2. CASE file[f] = "torn"
      BY <2>7, <3>2, NoJobIsTyped DEF LoadFile, ConfigTypeOK, JobInv, Free
    <3>3. CASE file[f] # "torn"
      <4>1. /\ toLoad' = Tail(toLoad) /\ proc' = proc /\ proc = "loading"
            /\ mem' = [mem EXCEPT ![f] = IF file[f] = "whole" THEN last[f]
                                         ELSE IF f = "dns" /\ field THEN 1 ELSE 0]
            /\ UNCHANGED <<file, last, field, lacks, changed, acked, crashes, hist>>
        BY <2>7, <3>3 DEF LoadFile
      <4>2. \/ job' = NoJob
            \/ job' = Write("load", <<"server", "dns">>) \/ job' = Write("load", <<f>>)
            \/ job' = Write("defaults", <<f>>)
        BY <2>7, <3>3 DEF LoadFile
      <4>3. mem' \in [Files -> 0..MaxVersion]
        BY <4>1 DEF ConfigTypeOK
      <4>4. /\ <<"server", "dns">> \in Seq(Files) /\ <<"server", "dns">> # <<>>
            /\ <<f>> \in Seq(Files) /\ <<f>> # <<>>
        BY DEF Files
      <4>5. /\ job' \in Job /\ job'.who \in {Nobody, "load", "defaults"}
            /\ job' = NoJob \/ job'.todo # <<>>
        <5>1. /\ Write("load", <<"server", "dns">>) \in Job /\ Write("load", <<f>>) \in Job
              /\ Write("defaults", <<f>>) \in Job
          BY <4>4, JobIsTyped
        <5>2. CASE job' = NoJob
          BY <5>2, NoJobIsTyped
        <5>3. CASE job' = Write("load", <<"server", "dns">>)
          BY <4>4, <5>1, <5>3 DEF Write
        <5>4. CASE job' = Write("load", <<f>>)
          BY <4>4, <5>1, <5>4 DEF Write
        <5>5. CASE job' = Write("defaults", <<f>>)
          BY <4>4, <5>1, <5>5 DEF Write
        <5> QED
          BY <4>2, <5>2, <5>3, <5>4, <5>5
      <4> QED
        BY <3>1, <4>1, <4>3, <4>5 DEF ConfigTypeOK, JobInv, Free
    <3> QED
      BY <3>2, <3>3
  <2>8. ASSUME NEW r \in Savers, Save(r) PROVE ConfigTypeOK' /\ JobInv'
    <3>1. SaveOrder \in Seq(Files) /\ SaveOrder # <<>>
      BY Orders
    <3>2. /\ Write(r, SaveOrder) \in Job /\ Write(r, SaveOrder).todo = SaveOrder
          /\ Write(r, SaveOrder).who = r
      BY <3>1, JobIsTyped, WriteIsTyped
    <3> QED
      BY <2>8, <3>1, <3>2 DEF Save, ConfigTypeOK, JobInv
  <2>9. ASSUME NEW r \in Savers, NEW F \in hist.inPlace, ChangeInPlace(r, F)
        PROVE  ConfigTypeOK' /\ JobInv'
    <3>1. F \in SUBSET Files
      BY DEF ConfigTypeOK, HistoryType
    <3> QED
      BY <2>9, <3>1, ChangesAreTyped DEF ChangeInPlace, ConfigTypeOK, JobInv, Free
  <2>10. ASSUME NEW r \in Savers, NEW f \in Files, ChangeAndSave(r, f)
         PROVE  ConfigTypeOK' /\ JobInv'
    <3>1. <<f>> \in Seq(Files) /\ <<f>> # <<>>
      OBVIOUS
    <3>2. /\ mem' \in [Files -> 0..MaxVersion]
          /\ changed' \in [Savers -> [Files -> 0..MaxVersion]]
      BY <2>10, ChangesAreTyped DEF ChangeAndSave
    <3>3. Write(r, <<f>>) \in Job /\ Write(r, <<f>>).todo = <<f>> /\ Write(r, <<f>>).who = r
      BY <3>1, JobIsTyped, WriteIsTyped
    <3> QED
      BY <2>10, <3>1, <3>2, <3>3 DEF ChangeAndSave, ConfigTypeOK, JobInv
  <2>11. CASE UNCHANGED configVars
    BY <2>11 DEF configVars, ConfigTypeOK, JobInv, Free
  <2> QED
    BY <2>1, <2>2, <2>3, <2>4, <2>5, <2>6, <2>7, <2>8, <2>9, <2>10, <2>11 DEF ConfigNext
<1> QED
  BY <1>1, <1>2, PTL DEF ConfigSpec

-----------------------------------------------------------------------------
(* The versions of the memory, of the files and of the answers.             *)

Elems(s) == {s[i] : i \in 1..Len(s)}

LEMMA ElemsOfRest ==
  ASSUME NEW S, NEW s \in Seq(S), s # <<>>
  PROVE  Head(s) \in Elems(s) /\ Elems(s) = {Head(s)} \cup Elems(Tail(s))
<1>1. /\ Len(s) \in Nat \ {0} /\ Head(s) = s[1] /\ Len(Tail(s)) = Len(s) - 1
      /\ \A i \in 1..Len(Tail(s)) : Tail(s)[i] = s[i + 1] /\ i + 1 \in 1..Len(s)
  BY FirstAndRest
<1>2. \A i \in 1..Len(s) : i = 1 \/ (i - 1 \in 1..Len(Tail(s)) /\ s[i] = Tail(s)[i - 1])
  BY <1>1
<1>3. Elems(s) \subseteq {Head(s)} \cup Elems(Tail(s))
  BY <1>1, <1>2 DEF Elems
<1>4. Elems(Tail(s)) \subseteq Elems(s)
  BY <1>1 DEF Elems
<1>5. Head(s) \in Elems(s)
  BY <1>1 DEF Elems
<1> QED
  BY <1>3, <1>4, <1>5

LEMMA ElemsOfNone == Elems(<<>>) = {}
BY EmptySeq DEF Elems

LEMMA ElemsOfOrders == Elems(LoadOrder) = Files /\ Files \ {"quick"} \subseteq Elems(SaveOrder)
                       /\ Elems(SaveOrder) \subseteq Files
<1>1. /\ \A i \in 1..Len(LoadOrder) : LoadOrder[i] \in Files
      /\ \A i \in 1..Len(SaveOrder) : SaveOrder[i] \in Files
  BY Orders, ElementOfSeq
<1>2. Elems(LoadOrder) \subseteq Files /\ Elems(SaveOrder) \subseteq Files
  BY <1>1 DEF Elems
<1>3. Files \subseteq Elems(LoadOrder) /\ Files \ {"quick"} \subseteq Elems(SaveOrder)
  BY Orders DEF Elems
<1> QED
  BY <1>2, <1>3

LEMMA ElemsOfFew ==
  ASSUME NEW f
  PROVE  Elems(<<f>>) = {f} /\ Elems(<<"server", "dns">>) = {"server", "dns"}
BY DEF Elems

(***************************************************************************)
(* A start that finds the DNS providers in server.json is safe when nothing *)
(* fills in a default before they are moved and nothing stops the move.     *)
(***************************************************************************)
Calm == \A h \in Histories : h.legacy => ~h.crashes /\ ~h.incomplete

LoadInv ==
  /\ \A i, j \in 1..Len(toLoad) : toLoad[i] = toLoad[j] => i = j
  /\ \A i \in 1..Len(toLoad) : toLoad[i] = "server" => i = 1

\* What is written is no older than the file and no newer than the memory.
ValueInv ==
  /\ proc = "up" => \A f \in Files : last[f] <= mem[f]
  /\ proc = "loading" => \A f \in Files : f \in Elems(toLoad) \/ last[f] <= mem[f]
  /\ \A f \in Elems(job.todo) : last[f] <= mem[f]
  /\ job.open => last[Head(job.todo)] <= job.buf /\ job.buf <= mem[Head(job.todo)]

\* What load takes for a file that is missing is what was kept.
MissingInv ==
  /\ \A f \in Files : file[f] = "missing" => last[f] = IF f = "dns" /\ hist.legacy THEN 1 ELSE 0
  /\ field => hist.legacy
  /\ lacks => hist.incomplete
  /\ hist.legacy /\ proc = "down" => field
  /\ hist.legacy /\ proc = "down" => file["server"] = "whole"
  /\ hist.legacy /\ proc = "loading" /\ "dns" \in Elems(toLoad)
       => field /\ file["server"] = "whole" /\ "server" \notin Elems(job.todo)

\* What a request that holds the lock changed is in its file or still to be written.
AckInv ==
  /\ \A f \in Files : acked[f] <= last[f]
  /\ \A r \in Savers : proc # "up" => changed[r] = Untouched
  /\ \A r \in Savers, f \in Files : proc = "up" => changed[r][f] <= mem[f]
  /\ \A r \in Savers : changed[r]["quick"] # 0 => job.who = r
  /\ job.who \in Savers => changed[job.who] # Untouched
  /\ job.who \in Savers => \A f \in Files : changed[job.who][f] <= last[f] \/ f \in Elems(job.todo)
  /\ job.who \in Savers /\ job.open => changed[job.who][Head(job.todo)] <= job.buf

StoreInv == LoadInv /\ ValueInv /\ MissingInv /\ AckInv

LEMMA StoreInit == ConfigInit => StoreInv
<1> SUFFICES ASSUME ConfigInit PROVE StoreInv
  OBVIOUS
<1>1. NoJob.todo = <<>> /\ NoJob.who = Nobody /\ ~NoJob.open /\ Nobody \notin Savers
  BY NoJobIsTyped, ConfigFilesAssumption
<1>2. LoadInv
  BY EmptySeq DEF ConfigInit, LoadInv
<1>3. ValueInv
  BY <1>1, ElemsOfNone DEF ConfigInit, ValueInv
<1>4. MissingInv
  BY DEF ConfigInit, MissingInv, Files
<1>5. AckInv
  BY <1>1, ElemsOfNone, ConfigFilesAssumption DEF ConfigInit, AckInv, Untouched, Files
<1> QED
  BY <1>2, <1>3, <1>4, <1>5 DEF StoreInv

\* The writing of a file, whoever holds the lock.
LEMMA BeginKeeps ==
  ASSUME ConfigTypeOK, JobInv, StoreInv, BeginWrite PROVE StoreInv'
<1> DEFINE f == Head(job.todo)
<1>1. f \in Files /\ f \in Elems(job.todo)
  BY AtWork, ElemsOfRest DEF BeginWrite
<1>2. /\ job'.todo = job.todo /\ job'.who = job.who /\ job'.open /\ job'.buf = mem[f]
      /\ file' = [file EXCEPT ![f] = "torn"]
      /\ UNCHANGED <<proc, toLoad, mem, last, field, lacks, changed, acked, crashes, hist>>
  BY DEF BeginWrite, ConfigTypeOK, Job
<1>3. mem \in [Files -> Int] /\ last \in [Files -> Int]
  BY ConfigFilesAssumption DEF ConfigTypeOK
<1> HIDE DEF f
<1>4. LoadInv'
  BY <1>2 DEF StoreInv, LoadInv
<1>5. ValueInv'
  BY <1>1, <1>2, <1>3 DEF StoreInv, ValueInv, f
<1>6. MissingInv'
  <2>1. \A g \in Files : file'[g] = IF g = f THEN "torn" ELSE file[g]
    BY <1>1, <1>2 DEF ConfigTypeOK
  <2>2. f = "server" => ~(hist.legacy /\ proc = "loading" /\ "dns" \in Elems(toLoad))
    BY <1>1 DEF StoreInv, MissingInv
  <2>3. proc # "down"
    BY DEF BeginWrite, JobInv
  <2>4. "server" \in Files
    BY DEF Files
  <2> QED
    BY <1>2, <2>1, <2>2, <2>3, <2>4 DEF StoreInv, MissingInv
<1>7. AckInv'
  <2>1. job.who \in Savers => changed[job.who][f] <= mem[f]
    BY <1>1 DEF StoreInv, AckInv, JobInv
  <2> QED
    BY <1>2, <2>1 DEF StoreInv, AckInv, f
<1> QED
  BY <1>4, <1>5, <1>6, <1>7 DEF StoreInv

LEMMA EndKeeps ==
  ASSUME ConfigTypeOK, JobInv, StoreInv, EndWrite PROVE StoreInv'
<1> DEFINE f == Head(job.todo)
           rest == Tail(job.todo)
           done == rest = <<>> /\ job.who \in Savers
<1>1. f \in Files /\ rest \in Seq(Files) /\ Elems(job.todo) = {f} \cup Elems(rest)
  BY AtWork, ElemsOfRest DEF EndWrite
<1>2. /\ job' = IF rest = <<>> THEN NoJob ELSE Write(job.who, rest)
      /\ file' = [file EXCEPT ![f] = "whole"] /\ last' = [last EXCEPT ![f] = job.buf]
      /\ field' = (field /\ f # "server") /\ lacks' = (lacks /\ f # "server")
      /\ UNCHANGED <<proc, toLoad, mem, crashes, hist>>
  BY DEF EndWrite
<1>3. /\ ~done => UNCHANGED <<acked, changed>>
      /\ done => /\ acked' = [g \in Files |-> Newest(acked[g], changed[job.who][g])]
                 /\ changed' = [changed EXCEPT ![job.who] = Untouched]
  BY DEF EndWrite
<1>4. proc \in {"loading", "up"} /\ last[f] <= job.buf /\ job.buf <= mem[f]
  BY DEF EndWrite, JobInv, StoreInv, ValueInv
<1>5. /\ ~job'.open /\ job'.todo = rest
      /\ job'.who = IF rest = <<>> THEN Nobody ELSE job.who
  <2>1. CASE rest = <<>>
    BY <1>2, <2>1, NoJobIsTyped
  <2>2. CASE rest # <<>>
    <3>1. job' = Write(job.who, rest)
      BY <1>2, <2>2
    <3> HIDE DEF rest
    <3>2. /\ Write(job.who, rest).who = job.who /\ Write(job.who, rest).todo = rest
          /\ ~Write(job.who, rest).open
      BY DEF Write
    <3> QED
      BY <2>2, <3>1, <3>2
  <2> QED
    BY <2>1, <2>2
<1>6. \A g \in Files : /\ last'[g] = IF g = f THEN job.buf ELSE last[g]
                       /\ file'[g] = IF g = f THEN "whole" ELSE file[g]
  BY <1>1, <1>2 DEF ConfigTypeOK
<1>7. /\ mem \in [Files -> Int] /\ last \in [Files -> Int] /\ job.buf \in Int
      /\ acked \in [Files -> Int] /\ changed \in [Savers -> [Files -> 0..MaxVersion]]
      /\ Nobody \notin Savers
  BY ConfigFilesAssumption DEF ConfigTypeOK, Job
<1>8. \A g \in Files : last[g] <= last'[g]
  BY <1>4, <1>6, <1>7
<1>9. Elems(rest) \subseteq Files
  BY <1>1, AtWork DEF EndWrite, Elems
<1> HIDE DEF f, rest, done
<1>10. LoadInv'
  BY <1>2 DEF StoreInv, LoadInv
<1>11. ValueInv'
  BY <1>1, <1>2, <1>4, <1>5, <1>6, <1>7, <1>9 DEF StoreInv, ValueInv
<1>12. MissingInv'
  <2>1. \A g \in Files : file'[g] = "missing" =>
          last'[g] = IF g = "dns" /\ hist'.legacy THEN 1 ELSE 0
    BY <1>1, <1>2, <1>6 DEF StoreInv, MissingInv
  <2>2. ASSUME hist'.legacy, proc' = "loading", "dns" \in Elems(toLoad')
        PROVE  field' /\ file'["server"] = "whole" /\ "server" \notin Elems(job'.todo)
    <3>1. field /\ file["server"] = "whole" /\ "server" \notin Elems(job.todo)
      BY <1>2, <2>2 DEF StoreInv, MissingInv
    <3>2. "server" \in Files
      BY DEF Files
    <3> QED
      BY <1>1, <1>2, <1>5, <1>6, <3>1, <3>2
  <2> QED
    BY <1>2, <1>4, <2>1, <2>2 DEF StoreInv, MissingInv
<1>13. AckInv'
  <2>1. ASSUME NEW r \in Savers, done, job.who = r PROVE \A g \in Files : changed[r][g] <= last'[g]
    <3>1. \A g \in Files : changed[r][g] <= last[g] \/ g = f
      BY <1>1, <2>1, ElemsOfNone DEF StoreInv, AckInv, done
    <3>2. changed[r][f] <= job.buf
      BY <2>1 DEF EndWrite, StoreInv, AckInv, f
    <3>3. \A g \in Files : changed[r][g] \in Int
      BY <1>7
    <3> QED
      BY <1>1, <1>6, <1>7, <1>8, <3>1, <3>2, <3>3
  <2>2. \A g \in Files : acked'[g] <= last'[g]
    <3>1. CASE done
      <4>1. \A g \in Files : acked'[g] \in {acked[g], changed[job.who][g]}
        BY <1>3, <3>1 DEF Newest
      <4>2. \A g \in Files : changed[job.who][g] <= last'[g]
        BY <2>1, <3>1 DEF done
      <4>3. \A g \in Files : last'[g] \in Int /\ acked[g] <= last'[g]
        BY <1>6, <1>7, <1>8 DEF StoreInv, AckInv
      <4> QED
        BY <4>1, <4>2, <4>3
    <3>2. CASE ~done
      BY <1>3, <1>6, <1>7, <1>8, <3>2 DEF StoreInv, AckInv
    <3> QED
      BY <3>1, <3>2
  <2>3. \A r \in Savers : changed'[r] = IF done /\ r = job.who THEN Untouched ELSE changed[r]
    BY <1>3, <1>7 DEF done
  <2>4. \A r \in Savers, g \in Files : proc' = "up" => changed'[r][g] <= mem'[g]
    <3>1. \A g \in Files : 0 <= mem[g]
      BY ConfigFilesAssumption DEF ConfigTypeOK
    <3> QED
      BY <1>2, <2>3, <3>1, UntouchedIsTyped DEF StoreInv, AckInv
  <2>5. \A r \in Savers : changed'[r]["quick"] # 0 => job'.who = r
    BY <1>5, <1>7, <2>3, UntouchedIsTyped DEF StoreInv, AckInv, done, Files
  <2>6. job'.who \in Savers => \A g \in Files : changed'[job'.who][g] <= last'[g] \/ g \in Elems(job'.todo)
    <3> SUFFICES ASSUME job'.who \in Savers, NEW g \in Files, g \notin Elems(rest)
                 PROVE  changed[job.who][g] <= last'[g]
      BY <1>5, <1>7, <2>3 DEF done
    <3>1. job.who \in Savers /\ job'.who = job.who
      BY <1>5, <1>7
    <3>2. changed[job.who][g] <= last[g] \/ g = f
      BY <1>1, <3>1 DEF StoreInv, AckInv
    <3>3. changed[job.who][f] <= job.buf
      BY <3>1 DEF EndWrite, StoreInv, AckInv, f
    <3>4. changed[job.who][g] \in Int
      BY <1>7, <3>1
    <3> QED
      BY <1>6, <1>7, <1>8, <3>2, <3>3, <3>4
  <2>7. \A r \in Savers : proc' # "up" => changed'[r] = Untouched
    BY <1>2, <2>3 DEF StoreInv, AckInv
  <2>8. job'.who \in Savers => changed'[job'.who] # Untouched
    BY <1>5, <1>7, <2>3 DEF StoreInv, AckInv, done
  <2> QED
    BY <1>5, <2>2, <2>4, <2>5, <2>6, <2>7, <2>8 DEF AckInv
<1> QED
  BY <1>10, <1>11, <1>12, <1>13 DEF StoreInv

\* What load knows of the file it takes: it is not taken again, and server.json is the first.
LEMMA TakingOne ==
  ASSUME ConfigTypeOK, LoadInv, toLoad # <<>>
  PROVE  /\ Elems(toLoad) = {Head(toLoad)} \cup Elems(Tail(toLoad))
         /\ Head(toLoad) \notin Elems(Tail(toLoad)) /\ "server" \notin Elems(Tail(toLoad))
         /\ \A i, j \in 1..Len(Tail(toLoad)) : Tail(toLoad)[i] = Tail(toLoad)[j] => i = j
<1>1. toLoad \in Seq(Files)
  BY DEF ConfigTypeOK
<1>2. /\ Len(toLoad) \in Nat \ {0} /\ Head(toLoad) = toLoad[1] /\ Len(Tail(toLoad)) = Len(toLoad) - 1
      /\ \A i \in 1..Len(Tail(toLoad)) : Tail(toLoad)[i] = toLoad[i + 1] /\ i + 1 \in 1..Len(toLoad)
  BY <1>1, FirstAndRest
<1>3. \A i, j \in 1..Len(toLoad) : toLoad[i] = toLoad[j] => i = j
  BY DEF LoadInv
<1>4. \A i \in 1..Len(Tail(toLoad)) : /\ i # 0 /\ i \in Int
                                      /\ Tail(toLoad)[i] = toLoad[i + 1] /\ i + 1 \in 1..Len(toLoad)
                                      /\ i + 1 # 1 /\ 1 \in 1..Len(toLoad)
  BY <1>2
<1>5. Head(toLoad) \notin Elems(Tail(toLoad))
  BY <1>2, <1>3, <1>4 DEF Elems
<1>6. "server" \notin Elems(Tail(toLoad))
  BY <1>4 DEF Elems, LoadInv
<1>7. ASSUME NEW i \in 1..Len(Tail(toLoad)), NEW j \in 1..Len(Tail(toLoad)),
             Tail(toLoad)[i] = Tail(toLoad)[j]
      PROVE  i = j
  <2>1. i + 1 = j + 1
    BY <1>3, <1>4, <1>7
  <2> QED
    BY <1>4, <2>1
<1>8. Elems(toLoad) = {Head(toLoad)} \cup Elems(Tail(toLoad))
  BY <1>1, ElemsOfRest
<1> QED
  BY <1>5, <1>6, <1>7, <1>8

\* A file that load does not take for lost has the version it had.
LEMMA LoadTakesWhatWasKept ==
  ASSUME ConfigTypeOK, StoreInv, NEW f \in Files, LoadFile(f), file[f] # "torn"
  PROVE  /\ mem' = [mem EXCEPT ![f] = last[f]]
         /\ toLoad' = Tail(toLoad) /\ toLoad # <<>> /\ f = Head(toLoad) /\ job = NoJob
         /\ UNCHANGED <<proc, file, last, field, lacks, changed, acked, crashes, hist>>
<1>1. /\ mem' = [mem EXCEPT ![f] = IF file[f] = "whole" THEN last[f]
                                   ELSE IF f = "dns" /\ field THEN 1 ELSE 0]
      /\ toLoad' = Tail(toLoad) /\ toLoad # <<>> /\ f = Head(toLoad) /\ job = NoJob
      /\ UNCHANGED <<proc, file, last, field, lacks, changed, acked, crashes, hist>>
  BY DEF LoadFile, Free
<1>2. file[f] \in {"whole", "missing"}
  BY DEF ConfigTypeOK
<1>3. CASE file[f] = "missing"
  <2>1. f = "dns" /\ hist.legacy => field
    BY <1>1, TakingOne DEF StoreInv, MissingInv, LoadFile
  <2>2. field => hist.legacy
    BY DEF StoreInv, MissingInv
  <2>3. last[f] = IF f = "dns" /\ field THEN 1 ELSE 0
    BY <1>3, <2>1, <2>2 DEF StoreInv, MissingInv
  <2> QED
    BY <1>1, <1>3, <2>3
<1> QED
  BY <1>1, <1>2, <1>3

LEMMA LoadKeeps ==
  ASSUME ConfigTypeOK, Calm, JobInv, StoreInv, NEW f \in Files, LoadFile(f) PROVE StoreInv'
<1>1. job = NoJob /\ proc = "loading" /\ Elems(job.todo) = {} /\ ~job.open /\ job.who \notin Savers
  BY NoJobIsTyped, ElemsOfNone, ConfigFilesAssumption DEF LoadFile, Free
<1>2. CASE file[f] = "torn"
  <2>1. /\ proc' = "refused"
        /\ UNCHANGED <<toLoad, mem, job, file, last, field, lacks, changed, acked, crashes, hist>>
    BY <1>2 DEF LoadFile
  <2> QED
    BY <1>1, <2>1 DEF StoreInv, LoadInv, ValueInv, MissingInv, AckInv
<1>3. CASE file[f] # "torn"
  <2>1. /\ mem' = [mem EXCEPT ![f] = last[f]]
        /\ toLoad' = Tail(toLoad) /\ toLoad # <<>> /\ f = Head(toLoad)
        /\ UNCHANGED <<proc, file, last, field, lacks, changed, acked, crashes, hist>>
    BY <1>3, LoadTakesWhatWasKept
  <2>2. /\ Elems(toLoad) = {f} \cup Elems(toLoad') /\ f \notin Elems(toLoad')
        /\ "server" \notin Elems(toLoad')
        /\ \A i, j \in 1..Len(toLoad') : toLoad'[i] = toLoad'[j] => i = j
    BY <2>1, TakingOne DEF StoreInv
  <2>3. \/ job' = NoJob /\ (f = "server" => ~lacks \/ file[f] = "missing")
        \/ job' = Write("load", <<"server", "dns">>) /\ f = "dns"
        \/ job' = Write("load", <<f>>) /\ file[f] = "missing"
        \/ job' = Write("defaults", <<f>>) /\ f = "server" /\ lacks
    BY <1>3 DEF LoadFile
  <2>4. /\ ~job'.open /\ job'.who \in {Nobody, "load", "defaults"}
        /\ \/ Elems(job'.todo) \subseteq {f} /\ ("server" \in Elems(job'.todo) => lacks \/ file["server"] = "missing")
           \/ Elems(job'.todo) = {"server", "dns"} /\ f = "dns"
    <3>1. CASE job' = NoJob
      BY <3>1, NoJobIsTyped, ElemsOfNone
    <3>2. CASE job' = Write("load", <<"server", "dns">>) /\ f = "dns"
      <4>1. ~job'.open /\ job'.who = "load" /\ job'.todo = <<"server", "dns">>
        BY <3>2, WriteIsTyped
      <4> QED
        BY <3>2, <4>1, ElemsOfFew
    <3>3. CASE job' = Write("load", <<f>>) /\ file[f] = "missing"
      <4>1. ~job'.open /\ job'.who = "load" /\ job'.todo = <<f>>
        BY <3>3, WriteIsTyped
      <4> QED
        BY <3>3, <4>1, ElemsOfFew
    <3>4. CASE job' = Write("defaults", <<f>>) /\ f = "server" /\ lacks
      <4>1. ~job'.open /\ job'.who = "defaults" /\ job'.todo = <<f>>
        BY <3>4, WriteIsTyped
      <4> QED
        BY <3>4, <4>1, ElemsOfFew
    <3> QED
      BY <2>3, <3>1, <3>2, <3>3, <3>4
  <2>5. \A g \in Files : mem'[g] = IF g = f THEN last[g] ELSE mem[g]
    BY <2>1 DEF ConfigTypeOK
  <2>6. \A g \in Files : last[g] \in Int
    BY DEF ConfigTypeOK
  <2>7. \A g \in Files : g \notin Elems(toLoad') => last[g] <= mem'[g]
    BY <1>1, <2>2, <2>5, <2>6 DEF StoreInv, ValueInv
  <2>8. LoadInv'
    <3>1. \A i \in 1..Len(toLoad') : toLoad'[i] # "server"
      BY <2>2 DEF Elems
    <3> QED
      BY <2>2, <3>1 DEF LoadInv
  <2>9. ValueInv'
    <3>1. Elems(job'.todo) \subseteq Files \ Elems(toLoad')
      BY <2>2, <2>4 DEF Files
    <3> QED
      BY <1>1, <2>1, <2>4, <2>7, <3>1 DEF ValueInv
  <2>10. MissingInv'
    <3>1. ASSUME hist'.legacy, "dns" \in Elems(toLoad')
          PROVE  field' /\ file'["server"] = "whole" /\ "server" \notin Elems(job'.todo)
      <4>1. hist.legacy /\ f # "dns" /\ "dns" \in Elems(toLoad)
        BY <2>1, <2>2, <3>1
      <4>2. field /\ file["server"] = "whole"
        BY <1>1, <4>1 DEF StoreInv, MissingInv
      <4>3. ~lacks
        BY <4>1 DEF StoreInv, MissingInv, Calm, ConfigTypeOK
      <4> QED
        BY <2>1, <2>4, <4>1, <4>2, <4>3
    <3> QED
      BY <1>1, <2>1, <3>1 DEF StoreInv, MissingInv
  <2>11. AckInv'
    <3>1. job'.who \notin Savers
      BY <2>4, ConfigFilesAssumption
    <3> QED
      BY <1>1, <2>1, <3>1 DEF StoreInv, AckInv
  <2> QED
    BY <2>8, <2>9, <2>10, <2>11 DEF StoreInv
<1> QED
  BY <1>2, <1>3

LEMMA SaveKeeps ==
  ASSUME ConfigTypeOK, JobInv, StoreInv, NEW r \in Savers, Save(r) PROVE StoreInv'
<1>1. /\ job = NoJob /\ proc = "up" /\ changed[r] # Untouched /\ job' = Write(r, SaveOrder)
      /\ UNCHANGED <<proc, toLoad, mem, file, last, field, lacks, changed, acked, crashes, hist>>
  BY DEF Save, Free
<1>2. job'.who = r /\ job'.todo = SaveOrder /\ ~job'.open
  BY <1>1, WriteIsTyped
<1>3. job.who \notin Savers
  BY <1>1, NoJobIsTyped, ConfigFilesAssumption
<1>4. LoadInv'
  BY <1>1 DEF StoreInv, LoadInv
<1>5. ValueInv'
  BY <1>1, <1>2, ElemsOfOrders DEF StoreInv, ValueInv
<1>6. MissingInv'
  BY <1>1 DEF StoreInv, MissingInv
<1>7. AckInv'
  <2>1. changed[r]["quick"] = 0 /\ "quick" \in Files
    BY <1>3 DEF StoreInv, AckInv, Files
  <2>2. \A f \in Files : last[f] \in Nat
    BY ConfigFilesAssumption DEF ConfigTypeOK
  <2>3. \A f \in Files : changed[r][f] <= last[f] \/ f \in Elems(SaveOrder)
    BY <2>1, <2>2, ElemsOfOrders
  <2>4. \A q \in Savers : changed[q]["quick"] = 0
    BY <1>3 DEF StoreInv, AckInv
  <2> QED
    BY <1>1, <1>2, <2>3, <2>4 DEF StoreInv, AckInv
<1> QED
  BY <1>4, <1>5, <1>6, <1>7 DEF StoreInv

LEMMA InPlaceKeeps ==
  ASSUME ConfigTypeOK, JobInv, StoreInv, NEW r \in Savers, NEW F \in hist.inPlace, ChangeInPlace(r, F)
  PROVE  StoreInv'
<1>1. F \in SUBSET Files /\ "quick" \notin F
  BY ConfigFilesAssumption DEF ConfigTypeOK, HistoryType
<1>2. /\ proc = "up" /\ changed[r] = Untouched /\ Changes(r, F)
      /\ UNCHANGED <<proc, toLoad, file, last, field, lacks, job, acked, crashes, hist>>
  BY DEF ChangeInPlace
<1>3. /\ \A f \in Files : mem'[f] = IF f \in F THEN mem[f] + 1 ELSE mem[f]
      /\ \A f \in Files : changed'[r][f] = IF f \in F THEN mem[f] + 1 ELSE 0
      /\ \A q \in Savers : q # r => changed'[q] = changed[q]
  BY <1>1, <1>2, ChangesAreTyped
<1>4. /\ \A f \in Files : mem[f] \in Nat /\ last[f] \in Nat /\ mem'[f] \in Nat /\ mem[f] <= mem'[f]
      /\ \A q \in Savers, f \in Files : changed[q][f] \in Nat
      /\ job.buf \in Int /\ Elems(job.todo) \subseteq Files
  <2>1. \A f \in Files : mem[f] \in Nat /\ last[f] \in Nat
    BY ConfigFilesAssumption DEF ConfigTypeOK
  <2>2. \A f \in Files : mem'[f] \in Nat /\ mem[f] <= mem'[f]
    BY <1>3, <2>1
  <2>3. job.todo \in Seq(Files) /\ job.buf \in Int
    BY ConfigFilesAssumption DEF ConfigTypeOK, Job
  <2>4. Elems(job.todo) \subseteq Files
    BY <2>3, ElementOfSeq DEF Elems
  <2> QED
    BY <2>1, <2>2, <2>3, <2>4, ConfigFilesAssumption DEF ConfigTypeOK
<1>5. LoadInv'
  BY <1>2 DEF StoreInv, LoadInv
<1>6. ValueInv'
  <2>1. job.open => Head(job.todo) \in Files
    BY AtWork, NoJobIsTyped DEF Free
  <2> QED
    BY <1>2, <1>4, <2>1 DEF StoreInv, ValueInv
<1>7. MissingInv'
  BY <1>2 DEF StoreInv, MissingInv
<1>8. AckInv'
  <2>1. job.who # r
    BY <1>2 DEF StoreInv, AckInv
  <2>2. \A q \in Savers, f \in Files : changed'[q][f] <= mem'[f]
    BY <1>2, <1>3, <1>4 DEF StoreInv, AckInv
  <2>3. \A q \in Savers : changed'[q]["quick"] # 0 => job'.who = q
    BY <1>1, <1>2, <1>3 DEF StoreInv, AckInv, Files
  <2> QED
    BY <1>2, <1>3, <2>1, <2>2, <2>3 DEF StoreInv, AckInv
<1> QED
  BY <1>5, <1>6, <1>7, <1>8 DEF StoreInv

LEMMA UnderLockKeeps ==
  ASSUME ConfigTypeOK, JobInv, StoreInv, NEW r \in Savers, NEW f \in Files, ChangeAndSave(r, f)
  PROVE  StoreInv'
<1>1. /\ proc = "up" /\ job = NoJob /\ changed[r] = Untouched /\ Changes(r, {f})
      /\ job' = Write(r, <<f>>)
      /\ UNCHANGED <<proc, toLoad, file, last, field, lacks, acked, crashes, hist>>
  BY DEF ChangeAndSave, Free
<1>2. /\ \A g \in Files : mem'[g] = IF g = f THEN mem[g] + 1 ELSE mem[g]
      /\ \A g \in Files : changed'[r][g] = IF g = f THEN mem[g] + 1 ELSE 0
      /\ \A q \in Savers : q # r => changed'[q] = changed[q]
  BY <1>1, ChangesAreTyped
<1>3. job'.who = r /\ job'.todo = <<f>> /\ ~job'.open /\ Elems(job'.todo) = {f}
  <2>1. job'.who = r /\ job'.todo = <<f>> /\ ~job'.open
    BY <1>1, WriteIsTyped
  <2> QED
    BY <2>1, ElemsOfFew
<1>4. job.who \notin Savers
  BY <1>1, NoJobIsTyped, ConfigFilesAssumption
<1>5. /\ \A g \in Files : mem[g] \in Nat /\ last[g] \in Nat
      /\ \A q \in Savers, g \in Files : changed[q][g] \in Nat
  BY ConfigFilesAssumption DEF ConfigTypeOK
<1>6. LoadInv'
  BY <1>1 DEF StoreInv, LoadInv
<1>7. ValueInv'
  BY <1>1, <1>2, <1>3, <1>5 DEF StoreInv, ValueInv
<1>8. MissingInv'
  BY <1>1 DEF StoreInv, MissingInv
<1>9. AckInv'
  <2>1. \A q \in Savers, g \in Files : changed'[q][g] <= mem'[g]
    BY <1>1, <1>2, <1>5 DEF StoreInv, AckInv
  <2>2. \A q \in Savers : q # r => changed'[q]["quick"] = 0
    BY <1>2, <1>4 DEF StoreInv, AckInv
  <2>3. changed'[r][f] # 0 /\ changed'[r] # Untouched
    BY <1>2, <1>5, UntouchedIsTyped
  <2>4. \A g \in Files : changed'[r][g] <= last[g] \/ g = f
    BY <1>2, <1>5
  <2> QED
    BY <1>1, <1>3, <2>1, <2>2, <2>3, <2>4 DEF StoreInv, AckInv
<1> QED
  BY <1>6, <1>7, <1>8, <1>9 DEF StoreInv

LEMMA FailKeeps ==
  ASSUME ConfigTypeOK, JobInv, StoreInv, FailWrite PROVE StoreInv'
<1>1. /\ job' = NoJob /\ (proc' = proc \/ (proc' = "refused" /\ proc \in {"loading", "up"} /\ job.who = "load"))
      /\ changed' = IF job.who \in Savers THEN [changed EXCEPT ![job.who] = Untouched] ELSE changed
      /\ UNCHANGED <<toLoad, mem, file, last, field, lacks, acked, crashes, hist>>
  BY DEF FailWrite, JobInv
<1>2. Elems(job'.todo) = {} /\ ~job'.open /\ job'.who \notin Savers
  BY <1>1, NoJobIsTyped, ElemsOfNone, ConfigFilesAssumption
<1>3. \A r \in Savers : changed'[r] = IF r = job.who THEN Untouched ELSE changed[r]
  BY <1>1 DEF ConfigTypeOK
<1>4. LoadInv' /\ ValueInv' /\ MissingInv'
  BY <1>1, <1>2 DEF StoreInv, LoadInv, ValueInv, MissingInv
<1>5. AckInv'
  <2>1. \A g \in Files : 0 <= mem[g]
    BY ConfigFilesAssumption DEF ConfigTypeOK
  <2>2. \A r \in Savers : changed'[r]["quick"] = 0
    BY <1>3, UntouchedIsTyped DEF StoreInv, AckInv, Files
  <2>3. proc' # "up" => \A r \in Savers : changed'[r] = Untouched
    BY <1>1, <1>3 DEF StoreInv, AckInv, JobInv
  <2> QED
    BY <1>1, <1>2, <1>3, <2>1, <2>2, <2>3, UntouchedIsTyped DEF StoreInv, AckInv
<1> QED
  BY <1>4, <1>5 DEF StoreInv

LEMMA CrashKeeps ==
  ASSUME ConfigTypeOK, Calm, JobInv, StoreInv, Crash PROVE StoreInv'
<1>1. /\ ~hist.legacy /\ proc' = "down" /\ toLoad' = <<>> /\ job' = NoJob
      /\ changed' = [r \in Savers |-> Untouched]
      /\ UNCHANGED <<mem, file, last, field, lacks, acked, hist>>
  BY DEF Crash, Calm, ConfigTypeOK
<1>2. Elems(job'.todo) = {} /\ ~job'.open /\ job'.who \notin Savers
  BY <1>1, NoJobIsTyped, ElemsOfNone, ConfigFilesAssumption
<1>3. LoadInv'
  BY <1>1, EmptySeq DEF LoadInv
<1>4. ValueInv' /\ MissingInv'
  BY <1>1, <1>2 DEF StoreInv, ValueInv, MissingInv
<1>5. AckInv'
  BY <1>1, <1>2, UntouchedIsTyped DEF StoreInv, AckInv, Files
<1> QED
  BY <1>3, <1>4, <1>5 DEF StoreInv

LEMMA StartKeeps ==
  ASSUME ConfigTypeOK, JobInv, StoreInv, Start PROVE StoreInv'
<1>1. /\ proc = "down" /\ proc' = "loading" /\ toLoad' = LoadOrder
      /\ UNCHANGED <<mem, file, last, field, lacks, changed, job, acked, crashes, hist>>
  BY DEF Start
<1>2. Elems(job.todo) = {} /\ ~job.open
  BY <1>1, NoJobIsTyped, ElemsOfNone DEF JobInv, Free
<1>3. LoadInv'
  BY <1>1 DEF LoadInv, LoadOrder
<1>4. ValueInv' /\ MissingInv'
  BY <1>1, <1>2, ElemsOfOrders DEF StoreInv, ValueInv, MissingInv
<1>5. AckInv'
  BY <1>1 DEF StoreInv, AckInv, JobInv
<1> QED
  BY <1>3, <1>4, <1>5 DEF StoreInv

LEMMA LoadedKeeps ==
  ASSUME ConfigTypeOK, JobInv, StoreInv, Loaded PROVE StoreInv'
<1>1. /\ proc = "loading" /\ proc' = "up" /\ toLoad = <<>> /\ Free
      /\ UNCHANGED <<toLoad, mem, file, last, field, lacks, changed, job, acked, crashes, hist>>
  BY DEF Loaded
<1>2. \A r \in Savers : changed[r] = Untouched
  BY <1>1 DEF StoreInv, AckInv
<1>3. \A f \in Files : mem[f] \in Nat
  BY ConfigFilesAssumption DEF ConfigTypeOK
<1>4. LoadInv' /\ ValueInv' /\ MissingInv'
  BY <1>1, ElemsOfNone DEF StoreInv, LoadInv, ValueInv, MissingInv
<1>5. AckInv'
  BY <1>1, <1>2, <1>3, UntouchedIsTyped DEF StoreInv, AckInv
<1> QED
  BY <1>4, <1>5 DEF StoreInv

LEMMA StoreStep ==
  ASSUME Calm, ConfigTypeOK, JobInv, StoreInv, [ConfigNext]_configVars PROVE StoreInv'
<1>1. CASE UNCHANGED configVars
  BY <1>1 DEF configVars, StoreInv, LoadInv, ValueInv, MissingInv, AckInv
<1> QED
  BY <1>1, BeginKeeps, EndKeeps, LoadKeeps, SaveKeeps, InPlaceKeeps, UnderLockKeeps, FailKeeps,
     CrashKeeps, StartKeeps, LoadedKeeps DEF ConfigNext

(***************************************************************************)
(* What is written is never older than the file nor newer than the memory,  *)
(* through load, defaults, saves, failed writes and crashes (config.go):    *)
(* the inductive invariant of the two theorems that follow.                 *)
(***************************************************************************)
THEOREM Versions == ASSUME Calm PROVE ConfigSpec => []StoreInv
<1>1. ConfigTypeOK /\ JobInv /\ StoreInv /\ [ConfigNext]_configVars => StoreInv'
  BY StoreStep
<1> QED
  BY <1>1, StoreInit, Typing, PTL DEF ConfigSpec

\* What a request was told is saved is on the disk, and in effect when the program is up.
THEOREM AckedStaysInEffect == ASSUME Calm PROVE ConfigSpec => []AckedInEffect
<1>1. ConfigTypeOK /\ StoreInv => AckedInEffect
  <2> SUFFICES ASSUME ConfigTypeOK, StoreInv, NEW f \in Files
               PROVE  last[f] >= acked[f] /\ (proc = "up" => mem[f] >= acked[f])
    BY DEF AckedInEffect
  <2>1. last[f] \in Int /\ acked[f] \in Int /\ mem[f] \in Int
    BY DEF ConfigTypeOK
  <2> QED
    BY <2>1 DEF StoreInv, ValueInv, AckInv
<1> QED
  BY <1>1, Typing, Versions, PTL

-----------------------------------------------------------------------------
(* The store implements its promise.                                        *)

\* A step of one file that leaves the others alone is a step of the promise.
LEMMA OneFile ==
  ASSUME ConfigTypeOK, NEW f \in Files,
         \A g \in Files \ {f} : mem'[g] = mem[g] /\ last'[g] = last[g] /\ file'[g] = file[g],
         \/ mem'[f] > mem[f] /\ last'[f] = last[f] /\ file'[f] = file[f]
         \/ last'[f] \in last[f]..mem[f] /\ file'[f] # "torn" /\ mem'[f] = mem[f]
         \/ file'[f] = "torn" /\ last'[f] = last[f] /\ mem'[f] = mem[f]
         \/ file[f] # "torn" /\ mem'[f] = last[f] /\ last'[f] = last[f] /\ file'[f] = file[f]
  PROVE  Promise!Next
<1>1. ASSUME NEW g \in Files, g # f PROVE Promise!Step(g)
  BY <1>1 DEF Promise!Step
<1>2. Promise!Step(f)
  <2>1. CASE mem'[f] > mem[f] /\ last'[f] = last[f] /\ file'[f] = file[f]
    BY <2>1 DEF Promise!Step, Promise!Change
  <2>2. CASE last'[f] \in last[f]..mem[f] /\ file'[f] # "torn" /\ mem'[f] = mem[f]
    BY <2>2 DEF Promise!Step, Promise!Keep
  <2>3. CASE file'[f] = "torn" /\ last'[f] = last[f] /\ mem'[f] = mem[f]
    BY <2>3 DEF Promise!Step, Promise!Lose
  <2>4. CASE file[f] # "torn" /\ mem'[f] = last[f] /\ last'[f] = last[f] /\ file'[f] = file[f]
    BY <2>4 DEF Promise!Step, Promise!Restart
  <2> QED
    BY <2>1, <2>2, <2>3, <2>4
<1> QED
  BY <1>1, <1>2 DEF Promise!Next

\* Changes of several files at once are changes of the promise.
LEMMA SomeFiles ==
  ASSUME ConfigTypeOK, NEW F \in SUBSET Files, NEW r \in Savers, Changes(r, F), UNCHANGED <<last, file>>
  PROVE  Promise!Next
<1>1. \A f \in Files : mem'[f] = IF f \in F THEN mem[f] + 1 ELSE mem[f]
  BY ChangesAreTyped
<1>2. \A f \in Files : mem[f] \in Int
  BY DEF ConfigTypeOK
<1> QED
  BY <1>1, <1>2 DEF Promise!Next, Promise!Step, Promise!Change

LEMMA PromiseStep ==
  ASSUME Calm, ConfigTypeOK, JobInv, StoreInv, [ConfigNext]_configVars
  PROVE  [Promise!Next]_<<mem, last, [f \in Files |-> file[f] = "torn"]>>
<1>1. CASE UNCHANGED <<mem, last, file>>
  BY <1>1
<1>2. CASE Start \/ Loaded \/ FailWrite \/ Crash \/ (\E r \in Savers : Save(r)) \/ UNCHANGED configVars
  BY <1>1, <1>2 DEF Start, Loaded, FailWrite, Crash, Save, configVars
<1>3. CASE BeginWrite
  <2> DEFINE f == Head(job.todo)
  <2>1. f \in Files
    BY <1>3, AtWork DEF BeginWrite
  <2>2. file' = [file EXCEPT ![f] = "torn"] /\ UNCHANGED <<mem, last>>
    BY <1>3 DEF BeginWrite
  <2> HIDE DEF f
  <2>3. \A g \in Files : file'[g] = IF g = f THEN "torn" ELSE file[g]
    BY <2>2 DEF ConfigTypeOK
  <2> QED
    BY <2>1, <2>2, <2>3, OneFile
<1>4. CASE EndWrite
  <2> DEFINE f == Head(job.todo)
  <2>1. f \in Files
    BY <1>4, AtWork DEF EndWrite
  <2>2. /\ file' = [file EXCEPT ![f] = "whole"] /\ last' = [last EXCEPT ![f] = job.buf]
        /\ UNCHANGED mem
    BY <1>4 DEF EndWrite
  <2>3. last[f] <= job.buf /\ job.buf <= mem[f] /\ job.buf \in Int
    BY <1>4 DEF EndWrite, StoreInv, ValueInv, ConfigTypeOK, Job
  <2> HIDE DEF f
  <2>4. \A g \in Files : /\ file'[g] = IF g = f THEN "whole" ELSE file[g]
                         /\ last'[g] = IF g = f THEN job.buf ELSE last[g]
    BY <2>2 DEF ConfigTypeOK
  <2>5. last'[f] \in last[f]..mem[f]
    BY <2>1, <2>3, <2>4 DEF ConfigTypeOK
  <2> QED
    BY <2>1, <2>2, <2>4, <2>5, OneFile
<1>5. ASSUME NEW f \in Files, LoadFile(f) PROVE Promise!Next \/ UNCHANGED <<mem, last, file>>
  <2>1. CASE file[f] = "torn"
    BY <1>5, <2>1 DEF LoadFile
  <2>2. CASE file[f] # "torn"
    <3>1. mem' = [mem EXCEPT ![f] = last[f]] /\ UNCHANGED <<file, last>>
      BY <1>5, <2>2, LoadTakesWhatWasKept
    <3>2. \A g \in Files : mem'[g] = IF g = f THEN last[g] ELSE mem[g]
      BY <3>1 DEF ConfigTypeOK
    <3> QED
      BY <2>2, <3>1, <3>2, OneFile
  <2> QED
    BY <2>1, <2>2
<1>6. ASSUME NEW r \in Savers, NEW F \in hist.inPlace, ChangeInPlace(r, F) PROVE Promise!Next
  <2>1. F \in SUBSET Files
    BY ConfigFilesAssumption DEF ConfigTypeOK, HistoryType
  <2> QED
    BY <1>6, <2>1, SomeFiles DEF ChangeInPlace
<1>7. ASSUME NEW r \in Savers, NEW f \in Files, ChangeAndSave(r, f) PROVE Promise!Next
  BY <1>7, SomeFiles DEF ChangeAndSave
<1> QED
  BY <1>1, <1>2, <1>3, <1>4, <1>5, <1>6, <1>7 DEF ConfigNext

LEMMA PromiseInit == ConfigInit => Promise!Init
<1> SUFFICES ASSUME ConfigInit PROVE Promise!Init
  OBVIOUS
<1>1. \A f \in Files : mem[f] = 0 /\ last[f] \in Nat /\ file[f] # "torn"
  BY DEF ConfigInit, Untouched
<1> QED
  BY <1>1 DEF Promise!Init

\* However requests, failed writes and crashes overlap, no file goes back to an older version.
THEOREM StoreKeepsPromise == ASSUME Calm PROVE ConfigSpec => KeepsPromise
<1>1. /\ ConfigTypeOK /\ JobInv /\ StoreInv /\ [ConfigNext]_configVars
       => [Promise!Next]_<<mem, last, [f \in Files |-> file[f] = "torn"]>>
  BY PromiseStep
<1> QED
  BY <1>1, PromiseInit, Typing, Versions, PTL DEF ConfigSpec, KeepsPromise, Promise!Spec

=============================================================================
