------------------------------ MODULE Accounts ------------------------------
(***************************************************************************)
(* Passwords and FTP users in memory (config/config.go) and the panel       *)
(* requests that change them (panel/api_ftp.go, panel/api_config.go,        *)
(* panel/api_system.go).                                                    *)
(*                                                                          *)
(* ConfigManager locks each of its methods, but the panel's handlers read   *)
(* and write its fields without the lock, between calls, and keep a pointer *)
(* into the slice of users; a login with a password in the old format       *)
(* leaves a goroutine that rewrites it later, at an index of that slice.    *)
(* What reaches the files is in ConfigFiles.                                *)
(***************************************************************************)
EXTENDS Integers, Sequences, FiniteSets

CONSTANTS
  Names,         \* user names
  FirstUsers,    \* the users at the start, with passwords in the old format
  Requests,      \* panel requests that take several steps
  MaxSets,       \* how often a password is set (a bound)
  MaxUsers,      \* the length of the slice (a bound)
  NoName,
  Uses           \* what is done and what of it overlaps, see UseType

Ops == {"update", "config", "add", "save", "status"}

UseType ==
  [ops         : SUBSET Ops,  \* the requests that are sent, besides deletions and logins
   lateDelete  : BOOLEAN,  \* users are deleted while a request or a migration is under way
   doubleAdd   : BOOLEAN,  \* two requests add users at the same time
   overlapSave : BOOLEAN]  \* the administrator's password changes during saveConfig

ASSUME AccountsAssumption ==
  /\ FirstUsers \in Seq(Names) /\ Len(FirstUsers) <= MaxUsers
  /\ \A i, j \in 1..Len(FirstUsers) : FirstUsers[i] = FirstUsers[j] => i = j
  /\ MaxSets \in Nat /\ MaxUsers \in Nat
  /\ Names # {} /\ NoName \notin Names
  /\ Uses \subseteq UseType

VARIABLES
  users,      \* FTP.Users
  spare,      \* what the array of the slice holds beyond its length
  jobs,       \* pending migrateFTPUserPasswordToBcrypt
  req,        \* the panel requests under way
  want,       \* the version of each user's password that was set last
  admin,      \* Server.Admin.Password
  adminJobs,  \* pending migrateAdminPasswordToBcrypt
  adminWant,  \* the version of the administrator's password that was set last
  use

ftpVars   == <<users, spare, jobs, want>>
adminVars == <<admin, adminJobs, adminWant>>
accVars   == <<ftpVars, adminVars, req, use>>

(***************************************************************************)
(* A password is known by the name it was set for and the number of times   *)
(* that was done.  root stands for the fields updateFtpUser sets, lim for   *)
(* those of updateFtpUserConfig, each known by the user they were set for.  *)
(***************************************************************************)
Password == [of : Names, v : 0..MaxSets]
User == [name : Names, pw : Password, fmt : {"aes", "bcrypt"},
         on : BOOLEAN, root : Names, lim : Names]

NewUser(u, v, fmt) ==
  [name |-> u, pw |-> [of |-> u, v |-> v], fmt |-> fmt, on |-> TRUE, root |-> u, lim |-> u]

NoUser == NewUser(CHOOSE u \in Names : TRUE, 0, "aes")

(***************************************************************************)
(* idx is the element of the slice the request points to, 0 once the slice  *)
(* has another array; val is that element, or the copy made of it.          *)
(***************************************************************************)
Request == [op   : {"none", "update", "config", "add", "save"},
            at   : {"idle", "got", "set", "copied", "adding", "saving"},
            user : Names \cup {NoName},
            idx  : 0..MaxUsers,
            val  : User,
            old  : [fmt : {"aes", "bcrypt"}, v : 0..MaxSets]]

IdleRequest == [op |-> "none", at |-> "idle", user |-> NoName, idx |-> 0, val |-> NoUser,
                old |-> [fmt |-> "aes", v |-> 0]]

AccTypeOK ==
  /\ users \in Seq(User) /\ spare \in Seq(User) /\ Len(users) + Len(spare) <= MaxUsers
  /\ jobs \subseteq [idx : 1..MaxUsers, pw : Password]
  /\ req \in [Requests -> Request]
  /\ want \in [Names -> 0..MaxSets]
  /\ admin \in [fmt : {"aes", "bcrypt"}, v : 0..MaxSets]
  /\ adminJobs \subseteq 0..MaxSets /\ adminWant \in 0..MaxSets
  /\ use \in Uses

Places(u) == {i \in 1..Len(users) : users[i].name = u}
Exists(u) == Places(u) # {}
First(u)  == CHOOSE i \in Places(u) : \A j \in Places(u) : i <= j
Idle(r)   == req[r].at = "idle"
Done(r)   == req' = [req EXCEPT ![r] = IdleRequest]

-----------------------------------------------------------------------------
(* Logins and the migration of passwords in the old format.                 *)

\* ValidateFTPUser with the right password.
ValidateFTPUser(u) ==
  \E i \in Places(u) :
    /\ users[i].on /\ users[i].fmt = "aes"
    /\ \A j \in Places(u) : j < i => ~users[j].on
    /\ jobs' = jobs \cup {[idx |-> i, pw |-> users[i].pw]}
    /\ UNCHANGED <<users, spare, want, adminVars, req, use>>

\* Mutant: the format is not looked at again.
MigrateUserBlindly(job) ==
  /\ jobs' = jobs \ {job}
  /\ users' = IF job.idx <= Len(users)
              THEN [users EXCEPT ![job.idx] = [@ EXCEPT !.pw = job.pw, !.fmt = "bcrypt"]]
              ELSE users
  /\ UNCHANGED <<spare, want, adminVars, req, use>>

migrateFTPUserPasswordToBcrypt(job) ==
  /\ jobs' = jobs \ {job}
  /\ users' = IF job.idx <= Len(users) /\ users[job.idx].fmt = "aes"
              THEN [users EXCEPT ![job.idx] = [@ EXCEPT !.pw = job.pw, !.fmt = "bcrypt"]]
              ELSE users
  /\ UNCHANGED <<spare, want, adminVars, req, use>>

\* ValidateAdmin with the right password.
ValidateAdmin ==
  /\ "save" \in use.ops /\ admin.fmt = "aes"
  /\ adminJobs' = adminJobs \cup {admin.v}
  /\ UNCHANGED <<ftpVars, admin, adminWant, req, use>>

\* Mutant: the format is not looked at again.
MigrateAdminBlindly(v) ==
  /\ adminJobs' = adminJobs \ {v}
  /\ admin' = [fmt |-> "bcrypt", v |-> v]
  /\ UNCHANGED <<ftpVars, adminWant, req, use>>

migrateAdminPasswordToBcrypt(v) ==
  /\ adminJobs' = adminJobs \ {v}
  /\ admin' = IF admin.fmt = "aes" THEN [fmt |-> "bcrypt", v |-> v] ELSE admin
  /\ UNCHANGED <<ftpVars, adminWant, req, use>>

-----------------------------------------------------------------------------
(* The administrator's password.                                            *)

Saving == \E r \in Requests : req[r].op = "save"

NewAdminPassword ==
  /\ adminWant < MaxSets
  /\ admin' = [fmt |-> "bcrypt", v |-> adminWant + 1]
  /\ adminWant' = adminWant + 1

\* handleChangePassword and resetConfig, which draws a new password.
SetAdminPassword ==
  /\ "save" \in use.ops
  /\ use.overlapSave \/ ~Saving
  /\ NewAdminPassword
  /\ UNCHANGED <<ftpVars, adminJobs, req, use>>

\* saveConfig first remembers the password.
SaveRemember(r) ==
  /\ Idle(r) /\ "save" \in use.ops /\ (use.overlapSave \/ ~Saving)
  /\ req' = [req EXCEPT ![r] = [@ EXCEPT !.op = "save", !.at = "saving", !.old = admin]]
  /\ UNCHANGED <<ftpVars, adminVars, use>>

\* The form holds a new password.
SaveSetPassword(r) ==
  /\ req[r].at = "saving"
  /\ NewAdminPassword
  /\ req' = [req EXCEPT ![r] = [@ EXCEPT !.old = admin']]
  /\ UNCHANGED <<ftpVars, adminJobs, use>>

\* The whole server configuration is replaced, the password put back.
SaveReplace(r) ==
  /\ req[r].at = "saving"
  /\ admin' = req[r].old
  /\ Done(r)
  /\ UNCHANGED <<ftpVars, adminJobs, adminWant, use>>

-----------------------------------------------------------------------------
(* updateFtpUser and updateFtpUserConfig.                                   *)

\* Mutant: the pointer is to the last user of the list.
GetLastUser(r, u, op) ==
  /\ Idle(r) /\ Exists(u) /\ op \in use.ops
  /\ req' = [req EXCEPT ![r] = [@ EXCEPT !.op = op, !.at = "got", !.user = u,
                                         !.idx = Len(users)]]
  /\ UNCHANGED <<ftpVars, adminVars, use>>

\* GetFTPUser returns a pointer to the first user of that name.
GetFTPUser(r, u, op) ==
  /\ Idle(r) /\ Exists(u) /\ op \in use.ops
  /\ req' = [req EXCEPT ![r] = [@ EXCEPT !.op = op, !.at = "got", !.user = u, !.idx = First(u)]]
  /\ UNCHANGED <<ftpVars, adminVars, use>>

\* A password in the form of updateFtpUser; without one this step is left out.
SetFTPUserPassword(r) ==
  /\ req[r].op = "update" /\ req[r].at = "got"
  /\ LET u == req[r].user IN
       IF Exists(u)
       THEN /\ want[u] < MaxSets
            /\ want' = [want EXCEPT ![u] = @ + 1]
            /\ users' = [users EXCEPT ![First(u)] =
                           [@ EXCEPT !.pw = [of |-> u, v |-> want[u] + 1], !.fmt = "bcrypt"]]
            /\ req' = [req EXCEPT ![r] = [@ EXCEPT !.at = "set"]]
       ELSE Done(r) /\ UNCHANGED <<users, want>>
  /\ UNCHANGED <<spare, jobs, adminVars, use>>

PointsTo(r) == IF req[r].idx = 0 THEN req[r].val ELSE (users \o spare)[req[r].idx]

\* updated := *user
CopyUser(r) ==
  /\ req[r].at \in {"got", "set"}
  /\ req' = [req EXCEPT ![r] = [@ EXCEPT !.at = "copied", !.idx = 0, !.val = PointsTo(r)]]
  /\ UNCHANGED <<ftpVars, adminVars, use>>

\* UpdateFTPUser keeps the name and the password the list has by now.
UpdateFTPUser(r) ==
  /\ req[r].at = "copied"
  /\ LET u == req[r].user IN
       \E on \in BOOLEAN :
         users' = IF ~Exists(u) THEN users
                  ELSE [users EXCEPT ![First(u)] =
                          IF req[r].op = "config"
                          THEN [@ EXCEPT !.on = req[r].val.on, !.root = req[r].val.root, !.lim = u]
                          ELSE [@ EXCEPT !.on = on, !.root = u, !.lim = req[r].val.lim]]
  /\ Done(r)
  /\ UNCHANGED <<spare, jobs, want, adminVars, use>>

-----------------------------------------------------------------------------
(* Users are added and removed.                                             *)

Adding == \E r \in Requests : req[r].op = "add"

\* Mutant: the name is not looked up.
AddUnchecked(r, u) ==
  /\ Idle(r) /\ "add" \in use.ops /\ (use.doubleAdd \/ ~Adding)
  /\ req' = [req EXCEPT ![r] = [@ EXCEPT !.op = "add", !.at = "adding", !.user = u]]
  /\ UNCHANGED <<ftpVars, adminVars, use>>

\* addFtpUser looks for the name, then makes a directory and hashes the password.
AddCheck(r, u) ==
  /\ Idle(r) /\ ~Exists(u) /\ "add" \in use.ops /\ (use.doubleAdd \/ ~Adding)
  /\ req' = [req EXCEPT ![r] = [@ EXCEPT !.op = "add", !.at = "adding", !.user = u]]
  /\ UNCHANGED <<ftpVars, adminVars, use>>

\* The requests other than r once the slice has a new array: their pointers keep the old one.
Detached(r) ==
  [q \in Requests |->
     IF q = r THEN IdleRequest
     ELSE IF req[q].idx = 0 THEN req[q]
     ELSE [req[q] EXCEPT !.idx = 0, !.val = PointsTo(q)]]

(***************************************************************************)
(* append writes over what the array holds beyond the slice; a full array   *)
(* may have been allocated with room, or is copied.                         *)
(***************************************************************************)
AddAppend(r) ==
  /\ req[r].at = "adding"
  /\ LET u == req[r].user IN
       /\ want[u] < MaxSets /\ Len(users) < MaxUsers
       /\ want' = [want EXCEPT ![u] = @ + 1]
       /\ \E on \in BOOLEAN :
            users' = Append(users, [NewUser(u, want[u] + 1, "bcrypt") EXCEPT !.on = on])
       /\ IF spare # <<>>
          THEN spare' = Tail(spare) /\ Done(r)
          ELSE spare' = spare /\ (Done(r) \/ req' = Detached(r))
  /\ UNCHANGED <<jobs, adminVars, use>>

Quiet == jobs = {} /\ \A r \in Requests : req[r].op \in {"none", "save", "add"}

Without(i) == SubSeq(users, 1, i - 1) \o SubSeq(users, i + 1, Len(users))

\* Mutant: the later users move down, but the slice keeps its length.
DeleteKeepingLength(u) ==
  /\ Exists(u) /\ (use.lateDelete \/ Quiet)
  /\ users' = Append(Without(First(u)), users[Len(users)])
  /\ spare' = <<users[Len(users)]>> \o spare
  /\ UNCHANGED <<jobs, want, req, adminVars, use>>

\* append(users[:i], users[i+1:]...): the later users move down in the same array.
deleteFtpUser(u) ==
  /\ Exists(u) /\ (use.lateDelete \/ Quiet)
  /\ users' = Without(First(u))
  /\ spare' = <<users[Len(users)]>> \o spare
  /\ UNCHANGED <<jobs, want, req, adminVars, use>>

\* The users without those of S, in the order they had.
Kept(S) ==
  LET left  == {i \in 1..Len(users) : users[i].name \notin S}
      order == {f \in [1..Cardinality(left) -> left] : \A i, j \in DOMAIN f : i < j => f[i] < f[j]}
  IN {[i \in DOMAIN f |-> users[f[i]]] : f \in order}

\* batchFtpUsers builds a new slice.
batchDelete(S) ==
  /\ use.lateDelete \/ Quiet
  /\ users' \in Kept(S)
  /\ spare' = <<>>
  /\ req' = [q \in Requests |-> IF req[q].idx = 0 THEN req[q]
                                ELSE [req[q] EXCEPT !.idx = 0, !.val = PointsTo(q)]]
  /\ UNCHANGED <<jobs, want, adminVars, use>>

\* toggleFtpUserStatus, and batchFtpUsers for several.
setStatus(S, on) ==
  /\ "status" \in use.ops
  /\ users' = [i \in 1..Len(users) |->
                 IF users[i].name \in S THEN [users[i] EXCEPT !.on = on] ELSE users[i]]
  /\ UNCHANGED <<spare, jobs, want, req, adminVars, use>>

-----------------------------------------------------------------------------

AccInit ==
  /\ users = [i \in 1..Len(FirstUsers) |-> NewUser(FirstUsers[i], 0, "aes")]
  /\ spare = <<>> /\ jobs = {} /\ want = [u \in Names |-> 0]
  /\ req = [r \in Requests |-> IdleRequest]
  /\ admin = [fmt |-> "aes", v |-> 0] /\ adminJobs = {} /\ adminWant = 0
  /\ use \in Uses

RequestStep(r) ==
  \/ SaveRemember(r) \/ SaveSetPassword(r) \/ SaveReplace(r)
  \/ SetFTPUserPassword(r) \/ CopyUser(r) \/ UpdateFTPUser(r) \/ AddAppend(r)
  \/ \E u \in Names : AddCheck(r, u) \/ \E op \in {"update", "config"} : GetFTPUser(r, u, op)

AccNext ==
  \/ ValidateAdmin \/ SetAdminPassword
  \/ \E v \in adminJobs : migrateAdminPasswordToBcrypt(v)
  \/ \E job \in jobs : migrateFTPUserPasswordToBcrypt(job)
  \/ \E u \in Names : ValidateFTPUser(u) \/ deleteFtpUser(u)
  \/ \E S \in SUBSET Names : batchDelete(S) \/ \E on \in BOOLEAN : setStatus(S, on)
  \/ \E r \in Requests : RequestStep(r)

AccSpec == AccInit /\ [][AccNext]_accVars

-----------------------------------------------------------------------------
(***************************************************************************)
(* A user logs in with the password that was set last for that user:        *)
(* neither the goroutine that rewrites an old password nor an update from   *)
(* an earlier copy brings another one back.  Users deleted in between move   *)
(* the indices these goroutines hold.                                       *)
(***************************************************************************)
PasswordIsLastSet ==
  ~use.lateDelete /\ ~use.doubleAdd =>
    \A i \in 1..Len(users) :
      users[i].pw = [of |-> users[i].name, v |-> want[users[i].name]]

(***************************************************************************)
(* No user has the directory or the limits of another: the pointers of      *)
(* updateFtpUser and updateFtpUserConfig still point to the user they were  *)
(* taken for, unless users were deleted in between.                         *)
(***************************************************************************)
SettingsAreOwn ==
  ~use.lateDelete =>
    \A i \in 1..Len(users) : users[i].root = users[i].name /\ users[i].lim = users[i].name

\* The list has a name once: addFtpUser tests it long before it appends.
NamesUnique == ~use.doubleAdd => \A u \in Names : Cardinality(Places(u)) <= 1

(***************************************************************************)
(* The administrator's password is the one set last, except during a        *)
(* saveConfig that overlaps the change: the goroutine that rewrites an old  *)
(* password does not undo a new one.                                        *)
(***************************************************************************)
AdminPasswordIsLastSet == ~use.overlapSave => admin.v = adminWant

=============================================================================
