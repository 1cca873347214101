---------------------------- MODULE Accounts_proofs ----------------------------
(* Proofs about the accounts.                                               *)
EXTENDS MCConfigStore, ConfigFiles_proofs, TLAPS, FiniteSetTheorems, SequenceTheorems, WellFoundedInduction

-----------------------------------------------------------------------------
(* The first place of a name.                                               *)

Before == OpToRel(<, Nat)

LEMMA BeforeIsLess == \A m, n \in Nat : m < n => <<m, n>> \in Before
BY DEF Before, OpToRel

LEMMA BeforeIsWellFounded == IsWellFoundedOn(Before, Nat)
BY NatLessThanWellFounded, Zenon DEF Before

LEMMA LeastOf ==
  ASSUME NEW T, T \subseteq Nat, T # {}
  PROVE  \E m \in T : \A n \in T : m <= n
<1>1. PICK m \in T : \A n \in T : ~(<<n, m>> \in Before)
  BY BeforeIsWellFounded, WFMin
<1>2. ASSUME NEW n \in T PROVE m <= n
  <2>1. m \in Nat /\ n \in Nat /\ ~(<<n, m>> \in Before)
    BY <1>1
  <2>2. ~(n < m)
    BY <2>1, BeforeIsLess
  <2> QED
    BY <2>1, <2>2
<1> QED
  BY <1>1, <1>2

LEMMA FirstIsAPlace ==
  ASSUME NEW u, Exists(u), users \in Seq(User)
  PROVE  First(u) \in 1..Len(users) /\ users[First(u)].name = u
<1>1. Places(u) \subseteq Nat /\ Places(u) # {}
  BY DEF Places, Exists
<1>2. \E i \in Places(u) : \A j \in Places(u) : i <= j
  BY <1>1, LeastOf
<1>3. First(u) \in Places(u)
  BY <1>2, Zenon DEF First
<1> QED
  BY <1>3 DEF Places

-----------------------------------------------------------------------------
(* Records.                                                                 *)

SetNumbers == 0..MaxSets
Formats  == {"aes", "bcrypt"}

LEMMA Bounds ==
  /\ MaxSets \in Nat /\ MaxUsers \in Nat /\ 0 \in 0..MaxUsers /\ 0 \in SetNumbers
  /\ Names # {} /\ NoName \notin Names
BY AccountsAssumption DEF SetNumbers

LEMMA NewUserIsTyped ==
  ASSUME NEW u \in Names, NEW v \in SetNumbers, NEW fmt \in Formats
  PROVE  /\ NewUser(u, v, fmt) \in User
         /\ NewUser(u, v, fmt).name = u /\ NewUser(u, v, fmt).root = u
         /\ NewUser(u, v, fmt).lim = u /\ NewUser(u, v, fmt).fmt = fmt
         /\ NewUser(u, v, fmt).pw = [of |-> u, v |-> v]
BY DEF NewUser, User, Password, SetNumbers, Formats

LEMMA AddedIsTyped ==
  ASSUME NEW e \in User, NEW on \in BOOLEAN
  PROVE  /\ [e EXCEPT !.on = on] \in User
         /\ [e EXCEPT !.on = on].name = e.name /\ [e EXCEPT !.on = on].root = e.root
         /\ [e EXCEPT !.on = on].lim = e.lim /\ [e EXCEPT !.on = on].pw = e.pw
         /\ [e EXCEPT !.on = on].fmt = e.fmt
BY DEF User

LEMMA PasswordIsTyped ==
  ASSUME NEW e \in User, NEW pw \in Password
  PROVE  LET f == [e EXCEPT !.pw = pw, !.fmt = "bcrypt"]
         IN /\ f \in User /\ f.name = e.name /\ f.root = e.root /\ f.lim = e.lim
            /\ f.pw = pw /\ f.fmt = "bcrypt"
BY DEF User

LEMMA UserFields ==
  ASSUME NEW e \in User
  PROVE  /\ e.name \in Names /\ e.root \in Names /\ e.lim \in Names
         /\ e.on \in BOOLEAN /\ e.fmt \in Formats /\ e.pw \in Password
BY DEF User, Formats

LEMMA IdleIsTyped ==
  /\ IdleRequest \in Request /\ IdleRequest.op = "none" /\ IdleRequest.at = "idle"
  /\ IdleRequest.idx = 0
<1>1. (CHOOSE u \in Names : TRUE) \in Names
  BY Bounds
<1>2. NoUser \in User
  BY <1>1, Bounds, NewUserIsTyped DEF NoUser, Formats
<1> QED
  BY <1>2, Bounds DEF IdleRequest, Request, SetNumbers

LEMMA RequestFields ==
  ASSUME NEW q \in Request
  PROVE  /\ q.op \in {"none", "update", "config", "add", "save"}
         /\ q.at \in {"idle", "got", "set", "copied", "adding", "saving"}
         /\ q.user \in Names \cup {NoName} /\ q.idx \in 0..MaxUsers /\ q.val \in User
         /\ q.old \in [fmt : Formats, v : SetNumbers]
BY DEF Request, Formats, SetNumbers

LEMMA DetachedIsTyped ==
  ASSUME NEW q \in Request, NEW e \in User
  PROVE  LET p == [q EXCEPT !.idx = 0, !.val = e]
         IN /\ p \in Request /\ p.at = q.at /\ p.op = q.op /\ p.old = q.old
            /\ p.idx = 0 /\ p.val = e /\ p.user = q.user
BY Bounds DEF Request

-----------------------------------------------------------------------------
(* What the actions do to the users.                                        *)

\* The list has the same names at the same places.
SameNames ==
  /\ users' \in Seq(User) /\ spare' = spare /\ Len(users') = Len(users)
  /\ \A i \in 1..Len(users) : users'[i].name = users[i].name

\* The list is what was left of it, in its order.
SomeAreGone ==
  /\ users' \in Seq(User) /\ Len(users') <= Len(users)
  /\ \E g \in [1..Len(users') -> 1..Len(users)] :
       /\ \A i, j \in 1..Len(users') : g[i] = g[j] => i = j
       /\ \A i \in 1..Len(users') : users'[i] = users[g[i]]

LEMMA UsersFields ==
  ASSUME AccTypeOK
  PROVE  /\ users \in Seq(User) /\ spare \in Seq(User)
         /\ Len(users) \in Nat /\ Len(spare) \in Nat /\ Len(users) + Len(spare) <= MaxUsers
         /\ users \in [1..Len(users) -> User] /\ spare \in [1..Len(spare) -> User]
BY LenProperties DEF AccTypeOK

LEMMA NobodyChanges ==
  ASSUME AccTypeOK, UNCHANGED <<users, spare>>
  PROVE  SameNames
BY DEF AccTypeOK, SameNames

LEMMA OneChanges ==
  ASSUME AccTypeOK, NEW i \in 1..Len(users), NEW e \in User, e.name = users[i].name,
         users' = [users EXCEPT ![i] = e], spare' = spare
  PROVE  /\ SameNames /\ users'[i] = e
         /\ \A j \in 1..Len(users) : j # i => users'[j] = users[j]
<1>1. users \in Seq(User)
  BY UsersFields
<1>2. /\ users' \in Seq(User) /\ Len(users') = Len(users)
      /\ \A j \in 1..Len(users) : users'[j] = IF j = i THEN e ELSE users[j]
  BY <1>1, ExceptSeq
<1> QED
  BY <1>2 DEF SameNames

\* A migration changes a password in the old format, or nothing.
LEMMA MigrationChanges ==
  ASSUME AccTypeOK, NEW late \in jobs, migrateFTPUserPasswordToBcrypt(late)
  PROVE  /\ SameNames /\ late.idx \in 1..MaxUsers /\ late.pw \in Password
         /\ \A i \in 1..Len(users) :
              \/ users'[i] = users[i]
              \/ /\ i = late.idx /\ users[i].fmt = "aes"
                 /\ users'[i].fmt = "bcrypt" /\ users'[i].pw = late.pw
                 /\ users'[i].root = users[i].root /\ users'[i].lim = users[i].lim
<1>1. late.idx \in 1..MaxUsers /\ late.pw \in Password /\ spare' = spare
  BY DEF AccTypeOK, migrateFTPUserPasswordToBcrypt
<1>2. CASE late.idx <= Len(users) /\ users[late.idx].fmt = "aes"
  <2> DEFINE e == [users[late.idx] EXCEPT !.pw = late.pw, !.fmt = "bcrypt"]
  <2>1. late.idx \in 1..Len(users) /\ users[late.idx] \in User
    BY <1>1, <1>2, Bounds, UsersFields
  <2>2. /\ e \in User /\ e.name = users[late.idx].name /\ e.pw = late.pw /\ e.fmt = "bcrypt"
        /\ e.root = users[late.idx].root /\ e.lim = users[late.idx].lim
    BY <1>1, <2>1, PasswordIsTyped
  <2>3. users' = [users EXCEPT ![late.idx] = e]
    BY <1>2, Zenon DEF migrateFTPUserPasswordToBcrypt
  <2> HIDE DEF e
  <2>4. SameNames /\ users'[late.idx] = e
        /\ \A j \in 1..Len(users) : j # late.idx => users'[j] = users[j]
    BY <1>1, <2>1, <2>2, <2>3, OneChanges
  <2> QED
    BY <1>1, <1>2, <2>1, <2>2, <2>4
<1>3. CASE ~(late.idx <= Len(users) /\ users[late.idx].fmt = "aes")
  <2>1. users' = users
    BY <1>3 DEF migrateFTPUserPasswordToBcrypt
  <2> QED
    BY <1>1, <2>1, NobodyChanges
<1> QED
  BY <1>2, <1>3

\* A new password goes to the first user of the name.
LEMMA PasswordChanges ==
  ASSUME AccTypeOK, NEW r \in Requests, SetFTPUserPassword(r), Exists(req[r].user),
         req[r].user \in Names
  PROVE  LET u == req[r].user
             i == First(u)
         IN /\ SameNames /\ i \in 1..Len(users) /\ users[i].name = u
            /\ want[u] + 1 \in SetNumbers /\ want' = [want EXCEPT ![u] = want[u] + 1]
            /\ users'[i].pw = [of |-> u, v |-> want[u] + 1] /\ users'[i].fmt = "bcrypt"
            /\ users'[i].root = users[i].root /\ users'[i].lim = users[i].lim
            /\ \A j \in 1..Len(users) : j # i => users'[j] = users[j]
<1> DEFINE u == req[r].user
           i == First(u)
           pw == [of |-> u, v |-> want[u] + 1]
           e == [users[i] EXCEPT !.pw = pw, !.fmt = "bcrypt"]
<1>1. i \in 1..Len(users) /\ users[i].name = u
  BY UsersFields, FirstIsAPlace
<1>2. want[u] \in 0..MaxSets /\ want[u] < MaxSets /\ want' = [want EXCEPT ![u] = want[u] + 1]
  BY DEF SetFTPUserPassword, AccTypeOK
<1>3. want[u] + 1 \in SetNumbers
  BY <1>2, Bounds DEF SetNumbers
<1>4. pw \in Password
  BY <1>3 DEF Password, SetNumbers
<1>5. users[i] \in User
  BY <1>1, UsersFields
<1>6. users' = [users EXCEPT ![i] = e] /\ spare' = spare
  BY DEF SetFTPUserPassword
<1> HIDE DEF u, i, pw
<1>7. /\ e \in User /\ e.name = users[i].name /\ e.root = users[i].root /\ e.lim = users[i].lim
      /\ e.pw = pw /\ e.fmt = "bcrypt"
  BY <1>4, <1>5, PasswordIsTyped
<1> HIDE DEF e
<1>8. SameNames /\ users'[i] = e /\ \A j \in 1..Len(users) : j # i => users'[j] = users[j]
  BY <1>1, <1>6, <1>7, OneChanges
<1> QED
  BY <1>1, <1>2, <1>3, <1>7, <1>8 DEF u, i, pw

\* Settings go to the first user of the name; the password stays.
LEMMA SettingsChange ==
  ASSUME AccTypeOK, NEW r \in Requests, UpdateFTPUser(r), req[r].user \in Names
  PROVE  /\ SameNames
         /\ \A i \in 1..Len(users) :
              /\ users'[i].pw = users[i].pw /\ users'[i].fmt = users[i].fmt
              /\ \/ users'[i] = users[i]
                 \/ /\ users[i].name = req[r].user
                    /\ users'[i].root \in {req[r].val.root, req[r].user}
                    /\ users'[i].lim \in {req[r].val.lim, req[r].user}
<1> DEFINE u == req[r].user
           i == First(u)
           val == req[r].val
<1>0. u \in Names /\ val.on \in BOOLEAN /\ val.root \in Names /\ val.lim \in Names /\ spare' = spare
  BY RequestFields, UserFields DEF AccTypeOK, UpdateFTPUser
<1>1. CASE ~Exists(u)
  <2>1. users' = users
    BY <1>1 DEF UpdateFTPUser
  <2> QED
    BY <1>0, <2>1, NobodyChanges
<1>2. CASE Exists(u)
  <2>1. i \in 1..Len(users) /\ users[i].name = u /\ users[i] \in User
    BY <1>2, UsersFields, FirstIsAPlace
  <2>2. PICK on \in BOOLEAN :
          users' = [users EXCEPT ![i] =
                      IF req[r].op = "config"
                      THEN [users[i] EXCEPT !.on = val.on, !.root = val.root, !.lim = u]
                      ELSE [users[i] EXCEPT !.on = on, !.root = u, !.lim = val.lim]]
    BY <1>2, Zenon DEF UpdateFTPUser
  <2> DEFINE e == IF req[r].op = "config"
                  THEN [users[i] EXCEPT !.on = val.on, !.root = val.root, !.lim = u]
                  ELSE [users[i] EXCEPT !.on = on, !.root = u, !.lim = val.lim]
  <2> DEFINE a == users[i]
  <2>4. users' = [users EXCEPT ![i] = e]
    BY <2>2
  <2> HIDE DEF i, u, val, a
  <2>3. /\ e \in User /\ e.name = a.name /\ e.pw = a.pw /\ e.fmt = a.fmt
        /\ e.root \in {val.root, u} /\ e.lim \in {val.lim, u}
    <3>0. a \in User
      BY <2>1 DEF a
    <3>1. CASE req[r].op = "config"
      <4>1. e = [a EXCEPT !.on = val.on, !.root = val.root, !.lim = u]
        BY <3>1, Zenon DEF a
      <4> HIDE DEF e
      <4> QED
        BY <1>0, <3>0, <4>1 DEF User
    <3>2. CASE req[r].op # "config"
      <4>1. e = [a EXCEPT !.on = on, !.root = u, !.lim = val.lim]
        BY <3>2, Zenon DEF a
      <4> HIDE DEF e
      <4> QED
        BY <1>0, <3>0, <4>1 DEF User
    <3> QED
      BY <3>1, <3>2
  <2> HIDE DEF e
  <2>5. SameNames /\ users'[i] = e /\ \A j \in 1..Len(users) : j # i => users'[j] = users[j]
    BY <1>0, <2>1, <2>3, <2>4, OneChanges DEF a
  <2> QED
    BY <2>1, <2>3, <2>5 DEF u, val, a
<1> QED
  BY <1>1, <1>2


\* append puts the new user behind the others.
LEMMA UserIsAppended ==
  ASSUME AccTypeOK, NEW r \in Requests, AddAppend(r), req[r].user \in Names
  PROVE  LET u == req[r].user
             n == Len(users)
         IN /\ users' \in Seq(User) /\ Len(users') = n + 1
            /\ \A i \in 1..n : users'[i] = users[i]
            /\ users'[n + 1].name = u /\ users'[n + 1].root = u /\ users'[n + 1].lim = u
            /\ users'[n + 1].fmt = "bcrypt"
            /\ users'[n + 1].pw = [of |-> u, v |-> want[u] + 1]
            /\ want[u] + 1 \in SetNumbers /\ want' = [want EXCEPT ![u] = want[u] + 1]
            /\ spare' \in Seq(User) /\ Len(users') + Len(spare') <= MaxUsers
            /\ Len(users) + Len(spare) <= Len(users') + Len(spare')
<1> DEFINE u == req[r].user
           n == Len(users)
<1>1. want[u] \in 0..MaxSets /\ want[u] < MaxSets /\ want' = [want EXCEPT ![u] = want[u] + 1]
  BY DEF AddAppend, AccTypeOK
<1>2. want[u] + 1 \in SetNumbers
  BY <1>1, Bounds DEF SetNumbers
<1>3. PICK on \in BOOLEAN :
        users' = Append(users, [NewUser(u, want[u] + 1, "bcrypt") EXCEPT !.on = on])
  BY DEF AddAppend
<1> DEFINE new == NewUser(u, want[u] + 1, "bcrypt")
           e == [new EXCEPT !.on = on]
<1>4. /\ new \in User /\ new.name = u /\ new.root = u /\ new.lim = u /\ new.fmt = "bcrypt"
      /\ new.pw = [of |-> u, v |-> want[u] + 1]
  BY <1>2, NewUserIsTyped DEF Formats
<1>5. users' = Append(users, e)
  BY <1>3
<1> HIDE DEF new, u
<1>6. /\ e \in User /\ e.name = u /\ e.root = u /\ e.lim = u /\ e.fmt = "bcrypt"
      /\ e.pw = [of |-> u, v |-> want[u] + 1]
  BY <1>4 DEF User
<1> HIDE DEF e
<1>7. /\ users' \in Seq(User) /\ Len(users') = n + 1 /\ users'[n + 1] = e
      /\ \A i \in 1..n : users'[i] = users[i]
  BY <1>5, <1>6, UsersFields, AppendProperties
<1>8. /\ spare' \in Seq(User) /\ n + 1 + Len(spare') <= MaxUsers
      /\ n + Len(spare) <= n + 1 + Len(spare')
  <2>1. CASE spare # <<>>
    <3>1. spare' = Tail(spare)
      BY <2>1 DEF AddAppend
    <3>2. spare' \in Seq(User) /\ Len(spare') = Len(spare) - 1
      BY <2>1, <3>1, UsersFields, HeadTailProperties
    <3> QED
      BY <3>2, Bounds, UsersFields
  <2>2. CASE spare = <<>>
    <3>1. spare' = spare /\ n < MaxUsers
      BY <2>2 DEF AddAppend
    <3>2. Len(spare) = 0
      BY <2>2
    <3> QED
      BY <3>1, <3>2, Bounds, UsersFields
  <2> QED
    BY <2>1, <2>2
<1> QED
  BY <1>1, <1>2, <1>6, <1>7, <1>8 DEF u

\* Without one user the later ones are a place further down.
LEMMA OneIsGone ==
  ASSUME AccTypeOK, NEW u, deleteFtpUser(u)
  PROVE  /\ SomeAreGone /\ spare' \in Seq(User)
         /\ Len(users') + Len(spare') = Len(users) + Len(spare)
<1> DEFINE i == First(u)
           n == Len(users)
           s1 == SubSeq(users, 1, i - 1)
           s2 == SubSeq(users, i + 1, n)
<1>1. i \in 1..n /\ n \in Nat /\ \A k \in 1..n : users[k] \in User
  BY UsersFields, FirstIsAPlace DEF deleteFtpUser
<1> HIDE DEF i
<1>2. s1 \in Seq(User) /\ Len(s1) = i - 1 /\ \A k \in 1..(i - 1) : s1[k] = users[k]
  <2>1. 1 \in Int /\ i - 1 \in Int /\ \A k \in 1..(i - 1) : users[k] \in User
    BY <1>1
  <2>2. /\ s1 \in Seq(User) /\ Len(s1) = IF 1 <= i - 1 THEN i - 1 - 1 + 1 ELSE 0
        /\ \A k \in 1..(i - 1 - 1 + 1) : s1[k] = users[1 + k - 1]
    BY <2>1, SubSeqProperties
  <2> QED
    BY <1>1, <2>2
<1>3. s2 \in Seq(User) /\ Len(s2) = n - i /\ \A k \in 1..(n - i) : s2[k] = users[i + k]
  <2>1. i + 1 \in Int /\ n \in Int /\ \A k \in (i + 1)..n : users[k] \in User
    BY <1>1
  <2>2. /\ s2 \in Seq(User) /\ Len(s2) = IF i + 1 <= n THEN n - (i + 1) + 1 ELSE 0
        /\ \A k \in 1..(n - (i + 1) + 1) : s2[k] = users[i + 1 + k - 1]
    BY <2>1, SubSeqProperties
  <2> QED
    BY <1>1, <2>2
<1>4. users' = s1 \o s2
  BY DEF deleteFtpUser, Without, i
<1> HIDE DEF s1, s2
<1>5. /\ users' \in Seq(User) /\ Len(users') = Len(s1) + Len(s2)
      /\ \A k \in 1..(Len(s1) + Len(s2)) :
           users'[k] = IF k <= Len(s1) THEN s1[k] ELSE s2[k - Len(s1)]
  BY <1>2, <1>3, <1>4, ConcatProperties
<1> DEFINE g == [k \in 1..(n - 1) |-> IF k < i THEN k ELSE k + 1]
<1>6. Len(users') = n - 1
  BY <1>1, <1>2, <1>3, <1>5
<1>7. ASSUME NEW k \in 1..(n - 1) PROVE users'[k] = users[g[k]]
  <2>1. users'[k] = IF k <= i - 1 THEN s1[k] ELSE s2[k - (i - 1)]
    BY <1>1, <1>2, <1>3, <1>5
  <2>2. CASE k < i
    <3>1. k \in 1..(i - 1) /\ k <= i - 1 /\ g[k] = k
      BY <1>1, <2>2
    <3> QED
      BY <1>2, <2>1, <3>1
  <2>3. CASE ~(k < i)
    <3>1. /\ k - (i - 1) \in 1..(n - i) /\ ~(k <= i - 1) /\ g[k] = k + 1
          /\ i + (k - (i - 1)) = k + 1
      BY <1>1, <2>3
    <3>2. s2[k - (i - 1)] = users[i + (k - (i - 1))]
      BY <1>3, <3>1
    <3> QED
      BY <2>1, <3>1, <3>2
  <2> QED
    BY <2>2, <2>3
<1>8. g \in [1..(n - 1) -> 1..n] /\ \A j, k \in 1..(n - 1) : g[j] = g[k] => j = k
  BY <1>1
<1> HIDE DEF g
<1>9. SomeAreGone
  <2>1. users' \in Seq(User) /\ Len(users') <= Len(users)
    BY <1>1, <1>5, <1>6
  <2>2. /\ g \in [1..Len(users') -> 1..Len(users)]
        /\ \A h, j \in 1..Len(users') : g[h] = g[j] => h = j
        /\ \A h \in 1..Len(users') : users'[h] = users[g[h]]
    BY <1>6, <1>7, <1>8
  <2> QED
    BY <2>1, <2>2, Zenon DEF SomeAreGone
<1>10. spare' \in Seq(User) /\ Len(spare') = Len(spare) + 1
  <2>1. spare' = <<users[n]>> \o spare /\ users[n] \in User
    BY <1>1 DEF deleteFtpUser
  <2>2. <<users[n]>> \in Seq(User) /\ Len(<<users[n]>>) = 1
    BY <2>1
  <2> QED
    BY <2>1, <2>2, UsersFields, ConcatProperties
<1> QED
  BY <1>1, <1>6, <1>9, <1>10, UsersFields

\* A slice of the users that are kept has no user twice.
LEMMA SeveralAreGone ==
  ASSUME AccTypeOK, NEW S, users' \in Kept(S)
  PROVE  SomeAreGone
<1> DEFINE n == Len(users)
           left == {i \in 1..n : users[i].name \notin S}
           m == Cardinality(left)
<1>1. n \in Nat /\ \A k \in 1..n : users[k] \in User
  BY UsersFields
<1>2. m \in Nat /\ m <= n
  <2>1. IsFiniteSet(1..n) /\ Cardinality(1..n) = n
    BY <1>1, FS_Interval
  <2>2. left \in SUBSET (1..n)
    OBVIOUS
  <2> HIDE DEF left
  <2>3. IsFiniteSet(left) /\ m <= n
    BY <2>1, <2>2, FS_Subset
  <2> QED
    BY <2>3, FS_CardinalityType
<1>3. PICK f \in [1..m -> left] :
        /\ \A i, j \in DOMAIN f : i < j => f[i] < f[j]
        /\ users' = [i \in DOMAIN f |-> users[f[i]]]
  BY DEF Kept
<1>4. left \subseteq 1..n
  OBVIOUS
<1> HIDE DEF m, left
<1>5. f \in [1..m -> 1..n] /\ DOMAIN f = 1..m
  BY <1>3, <1>4
<1>6. /\ users' = [i \in 1..m |-> users[f[i]]]
      /\ \A i \in 1..m : users[f[i]] \in User
  BY <1>1, <1>3, <1>5
<1>7. users' \in Seq(User) /\ Len(users') = m /\ \A i \in 1..m : users'[i] = users[f[i]]
  BY <1>2, <1>6
<1>8. ASSUME NEW i \in 1..m, NEW j \in 1..m, f[i] = f[j] PROVE i = j
  <2>1. f[i] \in Int /\ i \in Int /\ j \in Int
    BY <1>1, <1>2, <1>5
  <2>2. (i < j => f[i] < f[j]) /\ (j < i => f[j] < f[i])
    BY <1>3, <1>5
  <2> QED
    BY <1>8, <2>1, <2>2
<1> QED
  BY <1>2, <1>5, <1>7, <1>8 DEF SomeAreGone

\* Whether users are enabled says nothing of the rest.
LEMMA StatusChanges ==
  ASSUME AccTypeOK, NEW S, NEW on \in BOOLEAN, setStatus(S, on)
  PROVE  /\ SameNames
         /\ \A i \in 1..Len(users) :
              /\ users'[i].pw = users[i].pw /\ users'[i].fmt = users[i].fmt
              /\ users'[i].root = users[i].root /\ users'[i].lim = users[i].lim
<1> DEFINE n == Len(users)
           e(i) == IF users[i].name \in S THEN [users[i] EXCEPT !.on = on] ELSE users[i]
<1>1. n \in Nat
  BY UsersFields
<1>2. users' = [i \in 1..n |-> e(i)] /\ spare' = spare
  BY DEF setStatus
<1>3. ASSUME NEW i \in 1..n
      PROVE  /\ e(i) \in User /\ e(i).name = users[i].name
             /\ e(i).pw = users[i].pw /\ e(i).fmt = users[i].fmt
             /\ e(i).root = users[i].root /\ e(i).lim = users[i].lim
  BY UsersFields, AddedIsTyped
<1> HIDE DEF e
<1>4. users' \in Seq(User) /\ Len(users') = n /\ \A i \in 1..n : users'[i] = e(i)
  BY <1>1, <1>2, <1>3
<1> QED
  BY <1>2, <1>3, <1>4 DEF SameNames

\* The pointer of a request.
LEMMA PointsToAUser ==
  ASSUME AccTypeOK, NEW r \in Requests, req[r].idx <= Len(users) + Len(spare)
  PROVE  /\ PointsTo(r) \in User
         /\ req[r].idx = 0 => PointsTo(r) = req[r].val
         /\ req[r].idx \in 1..Len(users) => PointsTo(r) = users[req[r].idx]
<1> DEFINE i == req[r].idx
           all == users \o spare
<1>1. i \in Nat /\ req[r].val \in User
  BY RequestFields, Bounds DEF AccTypeOK
<1>2. \A k \in 1..(Len(users) + Len(spare)) :
        all[k] = IF k <= Len(users) THEN users[k] ELSE spare[k - Len(users)]
  BY UsersFields, ConcatProperties
<1>3. PointsTo(r) = IF i = 0 THEN req[r].val ELSE all[i]
  BY DEF PointsTo
<1> HIDE DEF all
<1>4. CASE i # 0
  <2>1. i \in 1..(Len(users) + Len(spare))
    BY <1>1, <1>4
  <2>2. i <= Len(users) \/ i - Len(users) \in 1..Len(spare)
    BY <2>1, UsersFields
  <2> QED
    BY <1>2, <1>3, <1>4, <2>1, <2>2, UsersFields
<1> QED
  BY <1>1, <1>3, <1>4


-----------------------------------------------------------------------------
(* What the actions do to the request that takes them.                      *)

\* Only request r moves.
Moves(r) ==
  /\ req' \in [Requests -> Request]
  /\ \A q \in Requests : q # r => req'[q] = req[q]

LEMMA RequestMoves ==
  ASSUME AccTypeOK, NEW r \in Requests, NEW p \in Request, req' = [req EXCEPT ![r] = p]
  PROVE  Moves(r) /\ req'[r] = p
BY DEF AccTypeOK, Moves

LEMMA RequestEnds ==
  ASSUME AccTypeOK, NEW r \in Requests, Done(r)
  PROVE  Moves(r) /\ req'[r] = IdleRequest
BY IdleIsTyped, RequestMoves DEF Done

LEMMA RequestSaves ==
  ASSUME AccTypeOK, NEW r \in Requests, SaveRemember(r)
  PROVE  /\ Moves(r) /\ req'[r].op = "save" /\ req'[r].at = "saving" /\ req'[r].old = admin
         /\ req'[r].idx = req[r].idx /\ req'[r].val = req[r].val
<1> DEFINE p == [req[r] EXCEPT !.op = "save", !.at = "saving", !.old = admin]
<1>1. /\ p \in Request /\ p.op = "save" /\ p.at = "saving" /\ p.old = admin
      /\ p.idx = req[r].idx /\ p.val = req[r].val
  BY DEF AccTypeOK, Request
<1>2. req' = [req EXCEPT ![r] = p]
  BY DEF SaveRemember
<1> HIDE DEF p
<1> QED
  BY <1>1, <1>2, RequestMoves

LEMMA RequestRemembers ==
  ASSUME AccTypeOK, NEW r \in Requests, SaveSetPassword(r),
         admin' \in [fmt : {"aes", "bcrypt"}, v : 0..MaxSets]
  PROVE  /\ Moves(r) /\ req'[r].op = req[r].op /\ req'[r].at = req[r].at
         /\ req'[r].user = req[r].user /\ req'[r].old = admin'
         /\ req'[r].idx = req[r].idx /\ req'[r].val = req[r].val
<1> DEFINE p == [req[r] EXCEPT !.old = admin']
<1>1. /\ p \in Request /\ p.op = req[r].op /\ p.at = req[r].at /\ p.user = req[r].user
      /\ p.old = admin' /\ p.idx = req[r].idx /\ p.val = req[r].val
  BY DEF AccTypeOK, Request
<1>2. req' = [req EXCEPT ![r] = p]
  BY DEF SaveSetPassword
<1> HIDE DEF p
<1> QED
  BY <1>1, <1>2, RequestMoves

LEMMA RequestHasSet ==
  ASSUME AccTypeOK, NEW r \in Requests, SetFTPUserPassword(r), Exists(req[r].user)
  PROVE  /\ Moves(r) /\ req'[r].op = req[r].op /\ req'[r].at = "set"
         /\ req'[r].user = req[r].user /\ req'[r].old = req[r].old
         /\ req'[r].idx = req[r].idx /\ req'[r].val = req[r].val
<1> DEFINE p == [req[r] EXCEPT !.at = "set"]
<1>1. /\ p \in Request /\ p.op = req[r].op /\ p.at = "set" /\ p.user = req[r].user
      /\ p.old = req[r].old /\ p.idx = req[r].idx /\ p.val = req[r].val
  BY DEF AccTypeOK, Request
<1>2. req' = [req EXCEPT ![r] = p]
  BY DEF SetFTPUserPassword
<1> HIDE DEF p
<1> QED
  BY <1>1, <1>2, RequestMoves

LEMMA RequestCopies ==
  ASSUME AccTypeOK, NEW r \in Requests, CopyUser(r), PointsTo(r) \in User
  PROVE  /\ Moves(r) /\ req'[r].op = req[r].op /\ req'[r].at = "copied"
         /\ req'[r].user = req[r].user /\ req'[r].old = req[r].old
         /\ req'[r].idx = 0 /\ req'[r].val = PointsTo(r)
<1> DEFINE e == PointsTo(r)
           p == [req[r] EXCEPT !.at = "copied", !.idx = 0, !.val = e]
<1>1. req' = [req EXCEPT ![r] = p]
  BY DEF CopyUser
<1> HIDE DEF e
<1>2. /\ p \in Request /\ p.op = req[r].op /\ p.at = "copied" /\ p.user = req[r].user
      /\ p.old = req[r].old /\ p.idx = 0 /\ p.val = e
  BY Bounds DEF AccTypeOK, Request, e
<1> HIDE DEF p
<1> QED
  BY <1>1, <1>2, RequestMoves DEF e

LEMMA RequestAdds ==
  ASSUME AccTypeOK, NEW r \in Requests, NEW u \in Names, AddCheck(r, u)
  PROVE  /\ Moves(r) /\ req'[r].op = "add" /\ req'[r].at = "adding" /\ req'[r].user = u
         /\ req'[r].idx = req[r].idx /\ req'[r].val = req[r].val /\ req'[r].old = req[r].old
<1> DEFINE p == [req[r] EXCEPT !.op = "add", !.at = "adding", !.user = u]
<1>1. /\ p \in Request /\ p.op = "add" /\ p.at = "adding" /\ p.user = u /\ p.old = req[r].old
      /\ p.idx = req[r].idx /\ p.val = req[r].val
  BY DEF AccTypeOK, Request
<1>2. req' = [req EXCEPT ![r] = p]
  BY DEF AddCheck
<1> HIDE DEF p
<1> QED
  BY <1>1, <1>2, RequestMoves

LEMMA RequestGets ==
  ASSUME AccTypeOK, NEW r \in Requests, NEW u \in Names, NEW op \in {"update", "config"},
         GetFTPUser(r, u, op)
  PROVE  /\ First(u) \in 1..Len(users) /\ users[First(u)].name = u
         /\ Moves(r) /\ req'[r].op = op /\ req'[r].at = "got" /\ req'[r].user = u
         /\ req'[r].idx = First(u) /\ req'[r].old = req[r].old
<1>1. First(u) \in 1..Len(users) /\ users[First(u)].name = u
  BY UsersFields, FirstIsAPlace DEF GetFTPUser
<1> DEFINE i == First(u)
           p == [req[r] EXCEPT !.op = op, !.at = "got", !.user = u, !.idx = i]
<1>2. req' = [req EXCEPT ![r] = p]
  BY DEF GetFTPUser
<1> HIDE DEF i
<1>3. i \in 0..MaxUsers
  BY <1>1, Bounds, UsersFields DEF i
<1>4. p \in Request /\ p.op = op /\ p.at = "got" /\ p.user = u /\ p.idx = i /\ p.old = req[r].old
  BY <1>3 DEF AccTypeOK, Request
<1> HIDE DEF p
<1> QED
  BY <1>1, <1>2, <1>4, RequestMoves DEF i

-----------------------------------------------------------------------------
(* Types, the places requests point to, and the stages of a request.        *)

Room == Len(users) + Len(spare)

\* What a request does tells its stage.
Flow(q) ==
  /\ q.at = "idle" <=> q.op = "none"
  /\ q.at = "saving" <=> q.op = "save"
  /\ q.at = "adding" <=> q.op = "add"
  /\ q.op \in {"update", "config", "add"} => q.user \in Names
  /\ q.at = "copied" => q.idx = 0

RequestsInv == \A r \in Requests : Flow(req[r]) /\ req[r].idx <= Room

AccTyping == AccTypeOK /\ RequestsInv

UsersTyped == users \in Seq(User) /\ spare \in Seq(User) /\ Room <= MaxUsers
PasswordsTyped == want \in [Names -> SetNumbers] /\ jobs \subseteq [idx : 1..MaxUsers, pw : Password]
AdminTyped ==
  /\ admin \in [fmt : Formats, v : SetNumbers]
  /\ adminJobs \subseteq SetNumbers /\ adminWant \in SetNumbers

LEMMA TypeParts ==
  AccTypeOK <=> /\ UsersTyped /\ PasswordsTyped /\ AdminTyped
                /\ req \in [Requests -> Request] /\ use \in Uses
BY DEF AccTypeOK, UsersTyped, PasswordsTyped, AdminTyped, SetNumbers, Formats, Room

LEMMA TypePartsNext ==
  AccTypeOK' <=> /\ UsersTyped' /\ PasswordsTyped' /\ AdminTyped'
                 /\ req' \in [Requests -> Request] /\ use' \in Uses
BY DEF AccTypeOK, UsersTyped, PasswordsTyped, AdminTyped, SetNumbers, Formats, Room

LEMMA SameNamesTyped ==
  ASSUME AccTypeOK, SameNames
  PROVE  UsersTyped' /\ Room' = Room
BY UsersFields DEF SameNames, UsersTyped, Room, AccTypeOK

LEMMA IdleFlows == Flow(IdleRequest) /\ (AccTypeOK => IdleRequest.idx <= Room)
BY IdleIsTyped, UsersFields DEF Flow, Room

\* All requests stay where they are.
LEMMA RequestsStay ==
  ASSUME AccTyping, req' = req, Room <= Room', Room \in Nat, Room' \in Nat
  PROVE  req' \in [Requests -> Request] /\ RequestsInv'
<1>1. req \in [Requests -> Request] /\ RequestsInv
  BY DEF AccTyping, AccTypeOK
<1>2. ASSUME NEW r \in Requests PROVE Flow(req'[r]) /\ req'[r].idx <= Room'
  <2>1. req'[r] = req[r] /\ req[r].idx \in 0..MaxUsers /\ Flow(req[r]) /\ req[r].idx <= Room
    BY <1>1, RequestFields DEF RequestsInv
  <2> QED
    BY <2>1, Bounds
<1> QED
  BY <1>1, <1>2, Zenon DEF RequestsInv

\* One request moves.
LEMMA OneRequestMoves ==
  ASSUME AccTyping, NEW r \in Requests, req' \in [Requests -> Request],
         Flow(req'[r]), req'[r].idx <= Room',
         \A q \in Requests : q # r => req'[q] = req[q],
         Room <= Room', Room \in Nat, Room' \in Nat
  PROVE  RequestsInv'
<1>1. req \in [Requests -> Request] /\ RequestsInv
  BY DEF AccTyping, AccTypeOK
<1>2. ASSUME NEW q \in Requests PROVE Flow(req'[q]) /\ req'[q].idx <= Room'
  <2>1. CASE q # r
    <3>1. req'[q] = req[q] /\ req[q].idx \in 0..MaxUsers /\ Flow(req[q]) /\ req[q].idx <= Room
      BY <1>1, <2>1, RequestFields DEF RequestsInv
    <3> QED
      BY <3>1, Bounds
  <2> QED
    BY <2>1
<1> QED
  BY <1>2, Zenon DEF RequestsInv

LEMMA RoomIsANumber ==
  /\ UsersTyped => Room \in Nat
  /\ UsersTyped' => Room' \in Nat
BY LenProperties DEF UsersTyped, Room

\* The rest is left alone.
LEMMA OthersStay ==
  /\ AdminTyped /\ UNCHANGED adminVars => AdminTyped'
  /\ PasswordsTyped /\ UNCHANGED <<jobs, want>> => PasswordsTyped'
  /\ UsersTyped /\ UNCHANGED <<users, spare>> => UsersTyped' /\ Room' = Room
BY DEF adminVars, AdminTyped, PasswordsTyped, UsersTyped, Room

LEMMA LetGoIsTyped ==
  ASSUME AccTyping, NEW r \in Requests
  PROVE  LET p == [req[r] EXCEPT !.idx = 0, !.val = PointsTo(r)]
         IN /\ p \in Request /\ Flow(p) /\ p.idx = 0
            /\ p.at = req[r].at /\ p.op = req[r].op /\ p.user = req[r].user
            /\ p.old = req[r].old /\ p.val = PointsTo(r)
<1> DEFINE p == [req[r] EXCEPT !.idx = 0, !.val = PointsTo(r)]
<1>1. req[r] \in Request /\ req[r].idx <= Len(users) + Len(spare) /\ Flow(req[r])
  BY DEF AccTyping, AccTypeOK, RequestsInv, Room
<1>2. PointsTo(r) \in User
  BY <1>1, PointsToAUser DEF AccTyping
<1>3. /\ p \in Request /\ p.idx = 0 /\ p.at = req[r].at /\ p.op = req[r].op
      /\ p.user = req[r].user /\ p.old = req[r].old /\ p.val = PointsTo(r)
  BY <1>1, <1>2, DetachedIsTyped
<1> HIDE DEF p
<1>4. Flow(p)
  BY <1>1, <1>3 DEF Flow
<1> QED
  BY <1>3, <1>4 DEF p

\* Requests let go of the slice's array, but for one that is done.
LetGo(S) ==
  /\ req' \in [Requests -> Request]
  /\ \A q \in Requests \ S :
       \/ req[q].idx = 0 /\ req'[q] = req[q]
       \/ /\ req[q].idx # 0 /\ req'[q].idx = 0 /\ req'[q].val = PointsTo(q)
          /\ req'[q].at = req[q].at /\ req'[q].op = req[q].op /\ req'[q].user = req[q].user
          /\ req'[q].old = req[q].old /\ Flow(req'[q])
  /\ \A q \in S : req'[q] = IdleRequest

LEMMA DetachedLetsGo ==
  ASSUME AccTyping, NEW r \in Requests, req' = Detached(r)
  PROVE  LetGo({r})
<1>1. req' = [q \in Requests |->
               IF q = r THEN IdleRequest
               ELSE IF req[q].idx = 0 THEN req[q]
               ELSE [req[q] EXCEPT !.idx = 0, !.val = PointsTo(q)]]
  BY Zenon DEF Detached
<1>2. \A q \in Requests : req[q] \in Request
  BY DEF AccTyping, AccTypeOK
<1>3. ASSUME NEW q \in Requests, q # r, req[q].idx # 0
      PROVE  /\ req'[q] \in Request
             /\ req'[q].idx = 0 /\ req'[q].val = PointsTo(q)
             /\ req'[q].at = req[q].at /\ req'[q].op = req[q].op /\ req'[q].user = req[q].user
             /\ req'[q].old = req[q].old /\ Flow(req'[q])
  <2>1. req'[q] = [req[q] EXCEPT !.idx = 0, !.val = PointsTo(q)]
    BY <1>1, <1>3
  <2> QED
    BY <2>1, LetGoIsTyped
<1>4. ASSUME NEW q \in Requests, q # r, req[q].idx = 0 PROVE req'[q] = req[q]
  BY <1>1, <1>4
<1>5. req'[r] = IdleRequest
  BY <1>1
<1>6. \A q \in Requests : req'[q] \in Request
  BY <1>2, <1>3, <1>4, <1>5, IdleIsTyped
<1>7. req' \in [Requests -> Request]
  BY <1>1, <1>6
<1> QED
  BY <1>3, <1>4, <1>5, <1>7, Zenon DEF LetGo

LEMMA BatchLetsGo ==
  ASSUME AccTyping,
         req' = [q \in Requests |-> IF req[q].idx = 0 THEN req[q]
                                    ELSE [req[q] EXCEPT !.idx = 0, !.val = PointsTo(q)]]
  PROVE  LetGo({})
<1>2. \A q \in Requests : req[q] \in Request
  BY DEF AccTyping, AccTypeOK
<1>3. ASSUME NEW q \in Requests, req[q].idx # 0
      PROVE  /\ req'[q] \in Request
             /\ req'[q].idx = 0 /\ req'[q].val = PointsTo(q)
             /\ req'[q].at = req[q].at /\ req'[q].op = req[q].op /\ req'[q].user = req[q].user
             /\ req'[q].old = req[q].old /\ Flow(req'[q])
  <2>1. req'[q] = [req[q] EXCEPT !.idx = 0, !.val = PointsTo(q)]
    BY <1>3
  <2> QED
    BY <2>1, LetGoIsTyped
<1>4. ASSUME NEW q \in Requests, req[q].idx = 0 PROVE req'[q] = req[q]
  BY <1>4
<1>6. \A q \in Requests : req'[q] \in Request
  BY <1>2, <1>3, <1>4
<1>7. req' \in [Requests -> Request]
  BY <1>6
<1> QED
  BY <1>3, <1>4, <1>7, Zenon DEF LetGo

LEMMA LetGoFlows ==
  ASSUME AccTyping, NEW S, LetGo(S), Room' \in Nat
  PROVE  req' \in [Requests -> Request] /\ RequestsInv'
<1>1. \A q \in Requests : Flow(req[q])
  BY DEF AccTyping, RequestsInv
<1>2. ASSUME NEW q \in Requests PROVE Flow(req'[q]) /\ req'[q].idx = 0
  <2>1. CASE q \in S
    BY <2>1, IdleIsTyped, IdleFlows DEF LetGo
  <2>2. CASE q \notin S
    BY <1>1, <2>2, Zenon DEF LetGo
  <2> QED
    BY <2>1, <2>2
<1>3. ASSUME NEW q \in Requests PROVE Flow(req'[q]) /\ req'[q].idx <= Room'
  BY <1>2
<1> QED
  BY <1>3, Zenon DEF LetGo, RequestsInv


LEMMA InitTyping == AccInit => AccTyping
<1> SUFFICES ASSUME AccInit PROVE AccTyping
  OBVIOUS
<1>1. FirstUsers \in Seq(Names) /\ Len(FirstUsers) <= MaxUsers /\ Len(FirstUsers) \in Nat
  BY AccountsAssumption, LenProperties
<1>2. \A i \in 1..Len(FirstUsers) : NewUser(FirstUsers[i], 0, "aes") \in User
  <2> TAKE i \in 1..Len(FirstUsers)
  <2>1. FirstUsers[i] \in Names
    BY <1>1
  <2> QED
    BY <2>1, Bounds, NewUserIsTyped DEF Formats
<1>3. users = [i \in 1..Len(FirstUsers) |-> NewUser(FirstUsers[i], 0, "aes")]
  BY DEF AccInit
<1>4. users \in Seq(User) /\ Len(users) = Len(FirstUsers)
  BY <1>1, <1>2, <1>3
<1>5. spare \in Seq(User) /\ Len(spare) = 0
  BY DEF AccInit
<1>6. UsersTyped /\ 0 <= Room
  BY <1>1, <1>4, <1>5, Bounds DEF UsersTyped, Room
<1>7. PasswordsTyped /\ AdminTyped /\ use \in Uses
  BY Bounds DEF AccInit, PasswordsTyped, AdminTyped, Formats
<1>8. req = [r \in Requests |-> IdleRequest]
  BY DEF AccInit
<1>9. req \in [Requests -> Request] /\ \A r \in Requests : Flow(req[r]) /\ req[r].idx <= Room
  BY <1>6, <1>8, IdleIsTyped, IdleFlows
<1> QED
  BY <1>6, <1>7, <1>9, TypeParts DEF AccTyping, RequestsInv

\* Nothing but the administrator's password and its migrations changes.
LEMMA AdminKeepsTyping ==
  ASSUME AccTyping, UNCHANGED <<ftpVars, req, use>>, AdminTyped'
  PROVE  AccTyping'
<1>1. UsersTyped /\ PasswordsTyped /\ use \in Uses
  BY TypeParts DEF AccTyping
<1>2. UsersTyped' /\ PasswordsTyped' /\ Room' = Room /\ req' = req /\ use' \in Uses
  BY <1>1, OthersStay DEF ftpVars
<1>3. Room \in Nat /\ Room' \in Nat /\ Room <= Room'
  BY <1>1, <1>2, RoomIsANumber
<1>4. req' \in [Requests -> Request] /\ RequestsInv'
  BY <1>2, <1>3, RequestsStay, Zenon
<1> QED
  BY <1>2, <1>4, TypePartsNext DEF AccTyping

\* Nothing but the users, their passwords and migrations changes.
LEMMA UsersKeepTyping ==
  ASSUME AccTyping, UNCHANGED <<adminVars, req, use>>, UsersTyped', PasswordsTyped', Room <= Room'
  PROVE  AccTyping'
<1>1. UsersTyped /\ AdminTyped /\ use \in Uses
  BY TypeParts DEF AccTyping
<1>2. AdminTyped' /\ req' = req /\ use' \in Uses
  BY <1>1, OthersStay
<1>3. Room \in Nat /\ Room' \in Nat
  BY <1>1, RoomIsANumber
<1>4. req' \in [Requests -> Request] /\ RequestsInv'
  BY <1>2, <1>3, RequestsStay, Zenon
<1> QED
  BY <1>2, <1>4, TypePartsNext DEF AccTyping

\* A request moves, whatever else does.
LEMMA RequestKeepsTyping ==
  ASSUME AccTyping, NEW r \in Requests, Moves(r),
         Flow(req'[r]), req'[r].idx <= Room', Room <= Room',
         UsersTyped', PasswordsTyped', AdminTyped', use' = use
  PROVE  AccTyping'
<1>1. Room \in Nat /\ Room' \in Nat /\ use' \in Uses
  BY TypeParts, RoomIsANumber DEF AccTyping
<1>2. RequestsInv'
  BY <1>1, OneRequestMoves, Zenon DEF Moves
<1> QED
  BY <1>1, <1>2, TypePartsNext DEF AccTyping, Moves

LEMMA EndKeepsTyping ==
  ASSUME AccTyping, NEW r \in Requests, Done(r), Room <= Room',
         UsersTyped', PasswordsTyped', AdminTyped', use' = use
  PROVE  AccTyping'
<1>1. Moves(r) /\ req'[r] = IdleRequest /\ Room' \in Nat
  BY RequestEnds, RoomIsANumber DEF AccTyping
<1>2. Flow(req'[r]) /\ req'[r].idx <= Room'
  BY <1>1, IdleFlows, IdleIsTyped
<1> QED
  BY <1>1, <1>2, RequestKeepsTyping

LEMMA NewAdminTyped ==
  ASSUME AdminTyped, NewAdminPassword, adminJobs' = adminJobs
  PROVE  AdminTyped'
BY Bounds DEF AdminTyped, NewAdminPassword, Formats, SetNumbers

LEMMA TypingStep == AccTyping /\ [AccNext]_accVars => AccTyping'
<1> SUFFICES ASSUME AccTyping, [AccNext]_accVars PROVE AccTyping'
  OBVIOUS
<1>p. /\ AccTypeOK /\ UsersTyped /\ PasswordsTyped /\ AdminTyped /\ use \in Uses
      /\ \A r \in Requests : req[r] \in Request /\ Flow(req[r]) /\ req[r].idx <= Room
      /\ Room \in Nat
  BY TypeParts, RoomIsANumber DEF AccTyping, RequestsInv
<1>1. CASE ValidateAdmin
  <2>1. AdminTyped'
    BY <1>1, <1>p DEF ValidateAdmin, AdminTyped
  <2> QED
    BY <1>1, <2>1, AdminKeepsTyping DEF ValidateAdmin
<1>2. CASE SetAdminPassword
  <2>1. AdminTyped'
    BY <1>2, <1>p, NewAdminTyped DEF SetAdminPassword
  <2> QED
    BY <1>2, <2>1, AdminKeepsTyping DEF SetAdminPassword
<1>3. ASSUME NEW v \in adminJobs, migrateAdminPasswordToBcrypt(v) PROVE AccTyping'
  <2>1. AdminTyped'
    BY <1>3, <1>p DEF migrateAdminPasswordToBcrypt, AdminTyped, Formats
  <2> QED
    BY <1>3, <2>1, AdminKeepsTyping DEF migrateAdminPasswordToBcrypt
<1>4. ASSUME NEW late \in jobs, migrateFTPUserPasswordToBcrypt(late) PROVE AccTyping'
  <2>1. UsersTyped' /\ Room' = Room
    BY <1>4, <1>p, MigrationChanges, SameNamesTyped
  <2>2. PasswordsTyped'
    BY <1>4, <1>p DEF migrateFTPUserPasswordToBcrypt, PasswordsTyped
  <2> QED
    BY <1>4, <1>p, <2>1, <2>2, UsersKeepTyping DEF migrateFTPUserPasswordToBcrypt
<1>5. ASSUME NEW u \in Names, ValidateFTPUser(u) PROVE AccTyping'
  <2>1. UsersTyped' /\ Room' = Room
    BY <1>5, <1>p, OthersStay DEF ValidateFTPUser
  <2>2. PICK i \in 1..Len(users) : jobs' = jobs \cup {[idx |-> i, pw |-> users[i].pw]}
    BY <1>5 DEF ValidateFTPUser, Places
  <2>3. users[i].pw \in Password /\ i \in 1..MaxUsers
    BY <1>p, Bounds, UsersFields, UserFields
  <2>4. PasswordsTyped'
    BY <1>5, <1>p, <2>2, <2>3 DEF ValidateFTPUser, PasswordsTyped
  <2> QED
    BY <1>5, <1>p, <2>1, <2>4, UsersKeepTyping DEF ValidateFTPUser
<1>6. ASSUME NEW u \in Names, deleteFtpUser(u) PROVE AccTyping'
  <2>1. SomeAreGone /\ spare' \in Seq(User) /\ Room' = Room
    BY <1>6, <1>p, OneIsGone DEF Room
  <2>2. UsersTyped'
    BY <1>p, <2>1 DEF UsersTyped, SomeAreGone
  <2>3. PasswordsTyped'
    BY <1>6, <1>p, OthersStay DEF deleteFtpUser
  <2> QED
    BY <1>6, <1>p, <2>1, <2>2, <2>3, UsersKeepTyping DEF deleteFtpUser
<1>7. ASSUME NEW S \in SUBSET Names, batchDelete(S) PROVE AccTyping'
  <2>1. SomeAreGone /\ spare' = <<>>
    BY <1>7, <1>p, SeveralAreGone DEF batchDelete
  <2>2. spare' \in Seq(User) /\ Len(spare') = 0
    BY <2>1
  <2>3. UsersTyped' /\ Room' \in Nat
    <3>1. users' \in Seq(User) /\ Len(users') <= Len(users) /\ Len(users') \in Nat
      BY <2>1, LenProperties DEF SomeAreGone
    <3> QED
      BY <1>p, <2>2, <3>1, Bounds, UsersFields DEF UsersTyped, Room
  <2>4. PasswordsTyped' /\ AdminTyped' /\ use' \in Uses
    BY <1>7, <1>p, OthersStay DEF batchDelete
  <2>5. LetGo({})
    BY <1>7, BatchLetsGo DEF batchDelete
  <2>6. req' \in [Requests -> Request] /\ RequestsInv'
    BY <2>3, <2>5, LetGoFlows, Zenon
  <2> QED
    BY <2>3, <2>4, <2>6, TypePartsNext DEF AccTyping
<1>8. ASSUME NEW S \in SUBSET Names, NEW on \in BOOLEAN, setStatus(S, on) PROVE AccTyping'
  <2>1. UsersTyped' /\ Room' = Room
    BY <1>8, <1>p, StatusChanges, SameNamesTyped
  <2>2. PasswordsTyped'
    BY <1>8, <1>p, OthersStay DEF setStatus
  <2> QED
    BY <1>8, <1>p, <2>1, <2>2, UsersKeepTyping DEF setStatus
<1>9. ASSUME NEW r \in Requests, RequestStep(r) PROVE AccTyping'
  <2>0. req[r] \in Request /\ Flow(req[r]) /\ req[r].idx <= Room
    BY <1>p
  <2>1. CASE SaveRemember(r)
    <3>1. /\ Moves(r) /\ req'[r].op = "save" /\ req'[r].at = "saving" /\ req'[r].idx = req[r].idx
      BY <1>p, <2>1, RequestSaves
    <3>2. UsersTyped' /\ PasswordsTyped' /\ AdminTyped' /\ use' = use /\ Room' = Room
      BY <1>p, <2>1, OthersStay DEF SaveRemember, ftpVars
    <3>3. Flow(req'[r])
      BY <3>1 DEF Flow
    <3> QED
      BY <1>p, <2>0, <3>1, <3>2, <3>3, RequestKeepsTyping
  <2>2. CASE SaveSetPassword(r)
    <3>1. AdminTyped'
      BY <1>p, <2>2, NewAdminTyped DEF SaveSetPassword
    <3>2. admin' \in [fmt : {"aes", "bcrypt"}, v : 0..MaxSets]
      BY <3>1 DEF AdminTyped, Formats, SetNumbers
    <3>3. /\ Moves(r) /\ req'[r].op = req[r].op /\ req'[r].at = req[r].at
          /\ req'[r].idx = req[r].idx /\ req'[r].user = req[r].user
      BY <1>p, <2>2, <3>2, RequestRemembers
    <3>4. Flow(req'[r])
      BY <2>0, <3>3 DEF Flow
    <3>5. UsersTyped' /\ PasswordsTyped' /\ use' = use /\ Room' = Room
      BY <1>p, <2>2, OthersStay DEF SaveSetPassword, ftpVars
    <3> QED
      BY <1>p, <2>0, <3>1, <3>3, <3>4, <3>5, RequestKeepsTyping
  <2>3. CASE SaveReplace(r)
    <3>1. req[r].old \in [fmt : Formats, v : SetNumbers]
      BY <2>0, RequestFields
    <3>2. AdminTyped'
      BY <1>p, <2>3, <3>1 DEF SaveReplace, AdminTyped
    <3>3. UsersTyped' /\ PasswordsTyped' /\ use' = use /\ Room' = Room
      BY <1>p, <2>3, OthersStay DEF SaveReplace, ftpVars
    <3> QED
      BY <1>p, <2>3, <3>2, <3>3, EndKeepsTyping DEF SaveReplace
  <2>4. CASE SetFTPUserPassword(r)
    <3>0. req[r].user \in Names
      BY <2>0, <2>4 DEF SetFTPUserPassword, Flow
    <3>1. CASE Exists(req[r].user)
      <4>1. /\ SameNames /\ want[req[r].user] + 1 \in SetNumbers
            /\ want' = [want EXCEPT ![req[r].user] = want[req[r].user] + 1]
        BY <1>p, <2>4, <3>0, <3>1, PasswordChanges
      <4>2. UsersTyped' /\ Room' = Room
        BY <1>p, <4>1, SameNamesTyped
      <4>3. PasswordsTyped' /\ AdminTyped' /\ use' = use
        BY <1>p, <2>4, <4>1, OthersStay DEF SetFTPUserPassword, PasswordsTyped
      <4>4. /\ Moves(r) /\ req'[r].at = "set" /\ req'[r].op = req[r].op /\ req'[r].idx = req[r].idx
            /\ req'[r].user = req[r].user
        BY <1>p, <2>4, <3>1, RequestHasSet
      <4>5. Flow(req'[r])
        BY <2>0, <2>4, <4>4 DEF Flow, SetFTPUserPassword
      <4> QED
        BY <1>p, <2>0, <4>2, <4>3, <4>4, <4>5, RequestKeepsTyping
    <3>2. CASE ~Exists(req[r].user)
      <4>1. Done(r) /\ UNCHANGED <<users, want, spare, jobs, adminVars, use>>
        BY <2>4, <3>2 DEF SetFTPUserPassword
      <4>2. UsersTyped' /\ PasswordsTyped' /\ AdminTyped' /\ use' = use /\ Room' = Room
        BY <1>p, <4>1, OthersStay
      <4> QED
        BY <1>p, <4>1, <4>2, EndKeepsTyping
    <3> QED
      BY <3>1, <3>2
  <2>5. CASE CopyUser(r)
    <3>1. PointsTo(r) \in User
      BY <1>p, <2>0, PointsToAUser DEF Room
    <3>2. /\ Moves(r) /\ req'[r].at = "copied" /\ req'[r].op = req[r].op /\ req'[r].idx = 0
          /\ req'[r].user = req[r].user
      BY <1>p, <2>5, <3>1, RequestCopies
    <3>3. Flow(req'[r])
      BY <2>0, <2>5, <3>2 DEF Flow, CopyUser
    <3>4. UsersTyped' /\ PasswordsTyped' /\ AdminTyped' /\ use' = use /\ Room' = Room
      BY <1>p, <2>5, OthersStay DEF CopyUser, ftpVars
    <3> QED
      BY <1>p, <2>0, <3>2, <3>3, <3>4, RequestKeepsTyping
  <2>6. CASE UpdateFTPUser(r)
    <3>0. req[r].user \in Names
      BY <2>0, <2>6, RequestFields DEF UpdateFTPUser, Flow
    <3>1. UsersTyped' /\ Room' = Room
      BY <1>p, <2>6, <3>0, SettingsChange, SameNamesTyped
    <3>2. PasswordsTyped' /\ AdminTyped' /\ use' = use
      BY <1>p, <2>6, OthersStay DEF UpdateFTPUser
    <3> QED
      BY <1>p, <2>6, <3>1, <3>2, EndKeepsTyping DEF UpdateFTPUser
  <2>7. CASE AddAppend(r)
    <3>0. req[r].user \in Names
      BY <2>0, <2>7, RequestFields DEF AddAppend, Flow
    <3> DEFINE u == req[r].user
    <3>1. /\ users' \in Seq(User) /\ want[u] + 1 \in SetNumbers
          /\ want' = [want EXCEPT ![u] = want[u] + 1]
          /\ spare' \in Seq(User) /\ Room' <= MaxUsers /\ Room <= Room'
      BY <1>p, <2>7, <3>0, UserIsAppended DEF Room
    <3>2. UsersTyped' /\ Room' \in Nat
      BY <3>1, RoomIsANumber DEF UsersTyped
    <3>3. PasswordsTyped' /\ AdminTyped' /\ use' = use /\ use' \in Uses
      BY <1>p, <2>7, <3>0, <3>1, OthersStay DEF AddAppend, PasswordsTyped
    <3>4. CASE Done(r)
      BY <3>1, <3>2, <3>3, <3>4, EndKeepsTyping
    <3>5. CASE req' = Detached(r)
      <4>1. LetGo({r})
        BY <3>5, DetachedLetsGo
      <4>2. req' \in [Requests -> Request] /\ RequestsInv'
        BY <3>2, <4>1, LetGoFlows, Zenon
      <4> QED
        BY <3>2, <3>3, <4>2, TypePartsNext DEF AccTyping
    <3> QED
      BY <2>7, <3>4, <3>5 DEF AddAppend
  <2>8. ASSUME NEW u \in Names, AddCheck(r, u) PROVE AccTyping'
    <3>1. /\ Moves(r) /\ req'[r].op = "add" /\ req'[r].at = "adding" /\ req'[r].user = u
          /\ req'[r].idx = req[r].idx
      BY <1>p, <2>8, RequestAdds
    <3>2. Flow(req'[r])
      BY <3>1 DEF Flow
    <3>3. UsersTyped' /\ PasswordsTyped' /\ AdminTyped' /\ use' = use /\ Room' = Room
      BY <1>p, <2>8, OthersStay DEF AddCheck, ftpVars
    <3> QED
      BY <1>p, <2>0, <3>1, <3>2, <3>3, RequestKeepsTyping
  <2>9. ASSUME NEW u \in Names, NEW op \in {"update", "config"}, GetFTPUser(r, u, op)
        PROVE  AccTyping'
    <3>1. /\ First(u) \in 1..Len(users)
          /\ Moves(r) /\ req'[r].op = op /\ req'[r].at = "got" /\ req'[r].user = u
          /\ req'[r].idx = First(u)
      BY <1>p, <2>9, RequestGets
    <3>2. First(u) <= Room
      BY <1>p, <3>1, UsersFields DEF Room
    <3>3. Flow(req'[r])
      BY <3>1 DEF Flow
    <3>4. UsersTyped' /\ PasswordsTyped' /\ AdminTyped' /\ use' = use /\ Room' = Room
      BY <1>p, <2>9, OthersStay DEF GetFTPUser, ftpVars
    <3> QED
      BY <1>p, <3>1, <3>2, <3>3, <3>4, RequestKeepsTyping
  <2> QED
    BY <1>9, <2>1, <2>2, <2>3, <2>4, <2>5, <2>6, <2>7, <2>8, <2>9 DEF RequestStep
<1>10. CASE UNCHANGED accVars
  <2>1. AdminTyped' /\ UNCHANGED <<ftpVars, req, use>>
    BY <1>p, <1>10, OthersStay DEF accVars
  <2> QED
    BY <2>1, AdminKeepsTyping
<1> QED
  BY <1>1, <1>2, <1>3, <1>4, <1>5, <1>6, <1>7, <1>8, <1>9, <1>10 DEF AccNext


-----------------------------------------------------------------------------
(* The names of the list.                                                   *)

Distinct == \A i, j \in 1..Len(users) : users[i].name = users[j].name => i = j

\* Only one request adds a user, and the name it looked up is still free.
OneAdder ==
  /\ \A r, q \in Requests : req[r].op = "add" /\ req[q].op = "add" => r = q
  /\ \A r \in Requests : req[r].op = "add" =>
       \A i \in 1..Len(users) : users[i].name # req[r].user

NamesInv == ~use.doubleAdd => Distinct /\ OneAdder

NoNewAdder ==
  \A q \in Requests : req'[q].op = "add" => req[q].op = "add" /\ req'[q].user = req[q].user

LEMMA NamesStay ==
  ASSUME NamesInv, SameNames \/ SomeAreGone, NoNewAdder, use' = use
  PROVE  NamesInv'
<1> SUFFICES ASSUME ~use.doubleAdd PROVE Distinct' /\ OneAdder'
  BY DEF NamesInv
<1>0. Distinct /\ OneAdder
  BY DEF NamesInv
<1>1. CASE SameNames
  BY <1>0, <1>1 DEF SameNames, Distinct, OneAdder, NoNewAdder
<1>2. CASE SomeAreGone
  <2>1. PICK g \in [1..Len(users') -> 1..Len(users)] :
          /\ \A i, j \in 1..Len(users') : g[i] = g[j] => i = j
          /\ \A i \in 1..Len(users') : users'[i] = users[g[i]]
    BY <1>2 DEF SomeAreGone
  <2>2. \A i \in 1..Len(users') : g[i] \in 1..Len(users) /\ users'[i].name = users[g[i]].name
    BY <2>1
  <2>3. Distinct'
    <3> SUFFICES ASSUME NEW i \in 1..Len(users'), NEW j \in 1..Len(users'),
                        users'[i].name = users'[j].name
                 PROVE  i = j
      BY Zenon DEF Distinct
    <3>1. g[i] \in 1..Len(users) /\ g[j] \in 1..Len(users) /\ users[g[i]].name = users[g[j]].name
      BY <2>2
    <3>2. g[i] = g[j]
      BY <1>0, <3>1, Zenon DEF Distinct
    <3> QED
      BY <2>1, <3>2, Zenon
  <2>4. OneAdder'
    <3>1. ASSUME NEW r \in Requests, req'[r].op = "add", NEW i \in 1..Len(users')
          PROVE  users'[i].name # req'[r].user
      <4>1. req[r].op = "add" /\ req'[r].user = req[r].user
        BY <3>1, Zenon DEF NoNewAdder
      <4>2. users[g[i]].name # req[r].user
        BY <1>0, <2>2, <4>1, Zenon DEF OneAdder
      <4> QED
        BY <2>2, <4>1, <4>2
    <3>2. \A r, q \in Requests : req'[r].op = "add" /\ req'[q].op = "add" => r = q
      BY <1>0, Zenon DEF OneAdder, NoNewAdder
    <3> QED
      BY <3>1, <3>2, Zenon DEF OneAdder
  <2> QED
    BY <2>3, <2>4
<1> QED
  BY <1>1, <1>2

LEMMA MovesNoAdder ==
  ASSUME NEW r \in Requests, Moves(r),
         req'[r].op = "add" => req[r].op = "add" /\ req'[r].user = req[r].user
  PROVE  NoNewAdder
BY Zenon DEF Moves, NoNewAdder

LEMMA EndsNoAdder ==
  ASSUME AccTypeOK, NEW r \in Requests, Done(r)
  PROVE  NoNewAdder
<1>1. Moves(r) /\ req'[r].op = "none"
  BY RequestEnds, IdleIsTyped
<1> QED
  BY <1>1, MovesNoAdder

LEMMA StayNoAdder ==
  ASSUME req' = req
  PROVE  NoNewAdder
BY DEF NoNewAdder

LEMMA LetGoNoAdder ==
  ASSUME NEW S, LetGo(S)
  PROVE  NoNewAdder
<1> SUFFICES ASSUME NEW q \in Requests, req'[q].op = "add"
             PROVE  req[q].op = "add" /\ req'[q].user = req[q].user
  BY Zenon DEF NoNewAdder
<1>1. q \notin S
  BY IdleIsTyped DEF LetGo
<1> QED
  BY <1>1, Zenon DEF LetGo

(***************************************************************************)
(* What a step does to the list of names, with the request that adds one.   *)
(***************************************************************************)
LEMMA NamesChange ==
  ASSUME AccTyping, [AccNext]_accVars
  PROVE  /\ use' = use
         /\ \/ (SameNames \/ SomeAreGone) /\ NoNewAdder
            \/ \E r \in Requests : AddAppend(r)
            \/ \E r \in Requests, u \in Names : AddCheck(r, u)
<1>p. AccTypeOK /\ \A r \in Requests : req[r] \in Request /\ Flow(req[r])
  BY DEF AccTyping, AccTypeOK, RequestsInv
<1>s. UNCHANGED ftpVars => SameNames
  BY <1>p, NobodyChanges DEF ftpVars
<1>1. CASE ValidateAdmin \/ SetAdminPassword \/ UNCHANGED accVars
  BY <1>1, <1>s, StayNoAdder DEF ValidateAdmin, SetAdminPassword, accVars
<1>2. ASSUME NEW v \in adminJobs, migrateAdminPasswordToBcrypt(v)
      PROVE  SameNames /\ NoNewAdder /\ use' = use
  BY <1>2, <1>s, StayNoAdder DEF migrateAdminPasswordToBcrypt
<1>3. ASSUME NEW late \in jobs, migrateFTPUserPasswordToBcrypt(late)
      PROVE  SameNames /\ NoNewAdder /\ use' = use
  <2>1. req' = req /\ use' = use
    BY <1>3 DEF migrateFTPUserPasswordToBcrypt
  <2> QED
    BY <1>3, <1>p, <2>1, MigrationChanges, StayNoAdder
<1>4. ASSUME NEW u \in Names, ValidateFTPUser(u) \/ deleteFtpUser(u)
      PROVE  (SameNames \/ SomeAreGone) /\ NoNewAdder /\ use' = use
  <2>1. CASE ValidateFTPUser(u)
    BY <1>p, <2>1, NobodyChanges, StayNoAdder DEF ValidateFTPUser
  <2>2. CASE deleteFtpUser(u)
    <3>1. req' = req /\ use' = use
      BY <2>2 DEF deleteFtpUser
    <3> QED
      BY <1>p, <2>2, <3>1, OneIsGone, StayNoAdder
  <2> QED
    BY <1>4, <2>1, <2>2
<1>5. ASSUME NEW S \in SUBSET Names, batchDelete(S) PROVE SomeAreGone /\ NoNewAdder /\ use' = use
  <2>1. SomeAreGone
    BY <1>5, <1>p, SeveralAreGone DEF batchDelete
  <2>2. LetGo({}) /\ use' = use
    BY <1>5, BatchLetsGo DEF batchDelete
  <2> QED
    BY <2>1, <2>2, LetGoNoAdder
<1>6. ASSUME NEW S \in SUBSET Names, NEW on \in BOOLEAN, setStatus(S, on)
      PROVE  SameNames /\ NoNewAdder /\ use' = use
  <2>1. req' = req /\ use' = use
    BY <1>6 DEF setStatus
  <2> QED
    BY <1>6, <1>p, <2>1, StatusChanges, StayNoAdder
<1>7. ASSUME NEW r \in Requests, SaveRemember(r) \/ SaveSetPassword(r) \/ SaveReplace(r)
      PROVE  SameNames /\ NoNewAdder /\ use' = use
  <2>0. SameNames /\ use' = use
    BY <1>7, <1>s DEF SaveRemember, SaveSetPassword, SaveReplace
  <2>1. CASE SaveRemember(r)
    <3>1. Moves(r) /\ req'[r].op = "save"
      BY <1>p, <2>1, RequestSaves
    <3> QED
      BY <2>0, <3>1, MovesNoAdder
  <2>2. CASE SaveSetPassword(r)
    <3>1. AccTyping'
      BY <2>2, TypingStep DEF AccNext, RequestStep
    <3>2. admin' \in [fmt : {"aes", "bcrypt"}, v : 0..MaxSets]
      BY <3>1, TypePartsNext DEF AccTyping, AdminTyped, Formats, SetNumbers
    <3>3. Moves(r) /\ req'[r].op = req[r].op /\ req'[r].user = req[r].user
      BY <1>p, <2>2, <3>2, RequestRemembers
    <3> QED
      BY <2>0, <3>3, MovesNoAdder
  <2>3. CASE SaveReplace(r)
    BY <1>p, <2>0, <2>3, EndsNoAdder DEF SaveReplace
  <2> QED
    BY <1>7, <2>1, <2>2, <2>3
<1>8. ASSUME NEW r \in Requests, SetFTPUserPassword(r) PROVE SameNames /\ NoNewAdder /\ use' = use
  <2>0. req[r].user \in Names /\ use' = use
    BY <1>p, <1>8 DEF SetFTPUserPassword, Flow
  <2>1. CASE Exists(req[r].user)
    <3>1. SameNames
      BY <1>p, <1>8, <2>0, <2>1, PasswordChanges
    <3>2. Moves(r) /\ req'[r].op = req[r].op /\ req'[r].user = req[r].user
      BY <1>p, <1>8, <2>1, RequestHasSet
    <3> QED
      BY <2>0, <3>1, <3>2, MovesNoAdder
  <2>2. CASE ~Exists(req[r].user)
    <3>1. UNCHANGED <<users, spare>> /\ Done(r)
      BY <1>8, <2>2 DEF SetFTPUserPassword
    <3> QED
      BY <1>p, <2>0, <3>1, NobodyChanges, EndsNoAdder
  <2> QED
    BY <2>1, <2>2
<1>9. ASSUME NEW r \in Requests, CopyUser(r) PROVE SameNames /\ NoNewAdder /\ use' = use
  <2>1. PointsTo(r) \in User
    BY <1>p, PointsToAUser DEF AccTyping, RequestsInv, Room
  <2>2. Moves(r) /\ req'[r].op = req[r].op /\ req'[r].user = req[r].user
    BY <1>p, <1>9, <2>1, RequestCopies
  <2> QED
    BY <1>9, <1>s, <2>2, MovesNoAdder DEF CopyUser
<1>10. ASSUME NEW r \in Requests, UpdateFTPUser(r) PROVE SameNames /\ NoNewAdder /\ use' = use
  <2>1. req[r].user \in Names
    BY <1>p, <1>10, RequestFields DEF UpdateFTPUser, Flow
  <2>2. Done(r) /\ use' = use
    BY <1>10 DEF UpdateFTPUser
  <2> QED
    BY <1>p, <1>10, <2>1, <2>2, SettingsChange, EndsNoAdder
<1>11. ASSUME NEW r \in Requests, NEW u \in Names, NEW op \in {"update", "config"},
              GetFTPUser(r, u, op)
       PROVE  SameNames /\ NoNewAdder /\ use' = use
  <2>1. Moves(r) /\ req'[r].op = op
    BY <1>p, <1>11, RequestGets
  <2> QED
    BY <1>11, <1>s, <2>1, MovesNoAdder DEF GetFTPUser
<1>12. ASSUME NEW r \in Requests, AddAppend(r) PROVE use' = use
  BY <1>12 DEF AddAppend
<1>13. ASSUME NEW r \in Requests, NEW u \in Names, AddCheck(r, u) PROVE use' = use
  BY <1>13 DEF AddCheck
<1> QED
  BY <1>1, <1>2, <1>3, <1>4, <1>5, <1>6, <1>7, <1>8, <1>9, <1>10, <1>11, <1>12, <1>13
     DEF AccNext, RequestStep

LEMMA NotExists ==
  ASSUME NEW u, ~Exists(u)
  PROVE  \A i \in 1..Len(users) : users[i].name # u
BY DEF Exists, Places

LEMMA NamesInit == AccInit => NamesInv
<1> SUFFICES ASSUME AccInit PROVE Distinct /\ OneAdder
  BY DEF NamesInv
<1>1. /\ users = [i \in 1..Len(FirstUsers) |-> NewUser(FirstUsers[i], 0, "aes")]
      /\ req = [r \in Requests |-> IdleRequest]
  BY DEF AccInit
<1>2. Len(FirstUsers) \in Nat /\ \A i \in 1..Len(FirstUsers) : FirstUsers[i] \in Names
  BY AccountsAssumption, LenProperties
<1>3. Len(users) = Len(FirstUsers)
  BY <1>1, <1>2
<1>4. \A i \in 1..Len(users) : users[i].name = FirstUsers[i]
  <2> TAKE i \in 1..Len(users)
  <2>1. users[i] = NewUser(FirstUsers[i], 0, "aes") /\ FirstUsers[i] \in Names
    BY <1>1, <1>2, <1>3
  <2>2. NewUser(FirstUsers[i], 0, "aes").name = FirstUsers[i]
    BY DEF NewUser
  <2> QED
    BY <2>1, <2>2
<1>5. \A i, j \in 1..Len(FirstUsers) : FirstUsers[i] = FirstUsers[j] => i = j
  BY AccountsAssumption
<1>6. Distinct
  BY <1>3, <1>4, <1>5 DEF Distinct
<1>7. \A r \in Requests : req[r].op = "none"
  BY <1>1, IdleIsTyped
<1> QED
  BY <1>6, <1>7 DEF OneAdder

LEMMA NamesStep == AccTyping /\ NamesInv /\ [AccNext]_accVars => NamesInv'
<1> SUFFICES ASSUME AccTyping, NamesInv, [AccNext]_accVars PROVE NamesInv'
  OBVIOUS
<1>0. use' = use
  BY NamesChange
<1>p. AccTypeOK /\ \A r \in Requests : req[r] \in Request /\ Flow(req[r])
  BY DEF AccTyping, AccTypeOK, RequestsInv
<1>1. CASE (SameNames \/ SomeAreGone) /\ NoNewAdder
  BY <1>0, <1>1, NamesStay
<1>2. ASSUME NEW r \in Requests, AddAppend(r) PROVE NamesInv'
  <2> SUFFICES ASSUME ~use.doubleAdd PROVE Distinct' /\ OneAdder'
    BY <1>0 DEF NamesInv
  <2> DEFINE u == req[r].user
             n == Len(users)
  <2>1. Distinct /\ OneAdder /\ req[r].op = "add" /\ u \in Names /\ n \in Nat
    BY <1>2, <1>p, UsersFields DEF NamesInv, AddAppend, Flow
  <2>2. /\ Len(users') = n + 1 /\ users'[n + 1].name = u
        /\ \A i \in 1..n : users'[i] = users[i]
    BY <1>2, <1>p, <2>1, UserIsAppended
  <2>3. \A i \in 1..n : users[i].name # u
    BY <2>1 DEF OneAdder
  <2> HIDE DEF u, n
  <2>4. ASSUME NEW i \in 1..(n + 1), NEW j \in 1..(n + 1), users'[i].name = users'[j].name
        PROVE  i = j
    <3>1. (i \in 1..n \/ i = n + 1) /\ (j \in 1..n \/ j = n + 1)
      BY <2>1
    <3> QED
      BY <2>1, <2>2, <2>3, <2>4, <3>1 DEF Distinct, n
  <2>5. Distinct'
    BY <2>2, <2>4 DEF Distinct
  <2>6. \A q \in Requests : req'[q].op # "add"
    <3>1. req'[r].op = "none" /\ NoNewAdder
      <4>1. CASE Done(r)
        BY <1>p, <4>1, RequestEnds, EndsNoAdder, IdleIsTyped
      <4>2. CASE req' = Detached(r)
        <5>1. LetGo({r})
          BY <4>2, DetachedLetsGo
        <5>2. req'[r] = IdleRequest
          BY <5>1 DEF LetGo
        <5> QED
          BY <5>1, <5>2, LetGoNoAdder, IdleIsTyped
      <4> QED
        BY <1>2, <4>1, <4>2 DEF AddAppend
    <3> QED
      BY <2>1, <3>1 DEF NoNewAdder, OneAdder
  <2> QED
    BY <2>5, <2>6 DEF OneAdder
<1>3. ASSUME NEW r \in Requests, NEW u \in Names, AddCheck(r, u) PROVE NamesInv'
  <2> SUFFICES ASSUME ~use.doubleAdd PROVE Distinct' /\ OneAdder'
    BY <1>0 DEF NamesInv
  <2>1. /\ users' = users /\ ~Exists(u) /\ \A q \in Requests : req[q].op # "add"
    BY <1>3 DEF AddCheck, Adding, ftpVars
  <2>2. \A i \in 1..Len(users) : users[i].name # u
    BY <2>1, NotExists
  <2>3. Moves(r) /\ req'[r].op = "add" /\ req'[r].user = u
    BY <1>3, <1>p, RequestAdds
  <2>4. \A q \in Requests : req'[q].op = "add" => q = r
    BY <2>1, <2>3 DEF Moves
  <2> QED
    BY <2>1, <2>2, <2>3, <2>4 DEF NamesInv, Distinct, OneAdder
<1> QED
  BY <1>1, <1>2, <1>3, NamesChange


-----------------------------------------------------------------------------
(* The passwords.                                                           *)

Right == \A i \in 1..Len(users) :
           users[i].pw = [of |-> users[i].name, v |-> want[users[i].name]]

\* A pending migration has the password its place still has, unless that has a new one.
JobsFit == \A late \in jobs :
             /\ late.idx <= Len(users)
             /\ users[late.idx].fmt = "aes" => late.pw = users[late.idx].pw

PasswordsInv == ~use.lateDelete /\ ~use.doubleAdd => Right /\ JobsFit

LEMMA PasswordsStay ==
  ASSUME AccTypeOK, PasswordsInv, SameNames, want' = want, jobs' \subseteq jobs, use' = use,
         \A i \in 1..Len(users) : users'[i].pw = users[i].pw /\ users'[i].fmt = users[i].fmt
  PROVE  PasswordsInv'
<1> SUFFICES ASSUME ~use.lateDelete, ~use.doubleAdd PROVE Right' /\ JobsFit'
  BY DEF PasswordsInv
<1>0. Right /\ JobsFit
  BY DEF PasswordsInv
<1>1. Right'
  BY <1>0 DEF Right, SameNames
<1>2. ASSUME NEW late \in jobs'
      PROVE  /\ late.idx <= Len(users')
             /\ users'[late.idx].fmt = "aes" => late.pw = users'[late.idx].pw
  <2>1. late \in jobs /\ late.idx \in 1..MaxUsers
    BY <1>2 DEF AccTypeOK
  <2>2. late.idx \in 1..Len(users)
    BY <1>0, <2>1, Bounds, UsersFields DEF JobsFit
  <2> QED
    BY <1>0, <2>1, <2>2 DEF JobsFit, SameNames
<1> QED
  BY <1>1, <1>2, Zenon DEF JobsFit

LEMMA PasswordsUntouched ==
  ASSUME AccTypeOK, PasswordsInv, UNCHANGED ftpVars, use' = use
  PROVE  PasswordsInv'
BY PasswordsStay, NobodyChanges DEF ftpVars

LEMMA PasswordsInit == AccInit => PasswordsInv
<1> SUFFICES ASSUME AccInit PROVE Right /\ JobsFit
  BY DEF PasswordsInv
<1>1. Len(FirstUsers) \in Nat /\ \A i \in 1..Len(FirstUsers) : FirstUsers[i] \in Names
  BY AccountsAssumption, LenProperties
<1>2. users = [i \in 1..Len(FirstUsers) |-> NewUser(FirstUsers[i], 0, "aes")]
  BY DEF AccInit
<1>3. want = [u \in Names |-> 0] /\ jobs = {}
  BY DEF AccInit
<1>4. Len(users) = Len(FirstUsers)
  BY <1>1, <1>2
<1>5. Right
  <2> SUFFICES ASSUME NEW i \in 1..Len(users)
               PROVE  users[i].pw = [of |-> users[i].name, v |-> want[users[i].name]]
    BY DEF Right
  <2>1. users[i] = NewUser(FirstUsers[i], 0, "aes") /\ FirstUsers[i] \in Names
    BY <1>1, <1>2, <1>4
  <2>2. /\ NewUser(FirstUsers[i], 0, "aes").name = FirstUsers[i]
        /\ NewUser(FirstUsers[i], 0, "aes").pw = [of |-> FirstUsers[i], v |-> 0]
    BY DEF NewUser
  <2> QED
    BY <1>3, <2>1, <2>2
<1> QED
  BY <1>3, <1>5 DEF JobsFit

LEMMA PasswordsStep ==
  AccTyping /\ NamesInv /\ PasswordsInv /\ [AccNext]_accVars => PasswordsInv'
<1> SUFFICES ASSUME AccTyping, NamesInv, PasswordsInv, [AccNext]_accVars PROVE PasswordsInv'
  OBVIOUS
<1>p. AccTypeOK /\ \A r \in Requests : req[r] \in Request /\ Flow(req[r])
  BY DEF AccTyping, AccTypeOK, RequestsInv
<1>u. use' = use
  BY NamesChange
<1>1. CASE \/ ValidateAdmin \/ SetAdminPassword \/ UNCHANGED accVars
           \/ \E v \in adminJobs : migrateAdminPasswordToBcrypt(v)
  BY <1>1, <1>p, PasswordsUntouched
     DEF ValidateAdmin, SetAdminPassword, accVars, migrateAdminPasswordToBcrypt
<1>2. ASSUME NEW late \in jobs, migrateFTPUserPasswordToBcrypt(late) PROVE PasswordsInv'
  <2> SUFFICES ASSUME ~use.lateDelete, ~use.doubleAdd PROVE Right' /\ JobsFit'
    BY <1>u DEF PasswordsInv
  <2>0. Right /\ JobsFit
    BY DEF PasswordsInv
  <2>1. /\ SameNames
        /\ \A i \in 1..Len(users) :
             \/ users'[i] = users[i]
             \/ /\ i = late.idx /\ users[i].fmt = "aes"
                /\ users'[i].fmt = "bcrypt" /\ users'[i].pw = late.pw
    BY <1>p, <1>2, MigrationChanges
  <2>2. want' = want /\ jobs' \subseteq jobs
    BY <1>2 DEF migrateFTPUserPasswordToBcrypt
  <2>3. ASSUME NEW i \in 1..Len(users)
        PROVE  users'[i].pw = users[i].pw /\ users'[i].fmt \in {users[i].fmt, "bcrypt"}
    BY <2>0, <2>1 DEF JobsFit
  <2>4. Right'
    BY <2>0, <2>1, <2>2, <2>3 DEF Right, SameNames
  <2>5. ASSUME NEW j \in jobs'
        PROVE  /\ j.idx <= Len(users')
               /\ users'[j.idx].fmt = "aes" => j.pw = users'[j.idx].pw
    <3>1. j \in jobs /\ j.idx \in 1..MaxUsers
      BY <1>p, <2>2 DEF AccTypeOK
    <3>2. j.idx \in 1..Len(users)
      BY <1>p, <2>0, <3>1, Bounds, UsersFields DEF JobsFit
    <3> QED
      BY <2>0, <2>1, <2>3, <3>1, <3>2 DEF JobsFit, SameNames
  <2> QED
    BY <2>4, <2>5, Zenon DEF JobsFit
<1>3. ASSUME NEW u \in Names, ValidateFTPUser(u) PROVE PasswordsInv'
  <2> SUFFICES ASSUME ~use.lateDelete, ~use.doubleAdd PROVE Right' /\ JobsFit'
    BY <1>u DEF PasswordsInv
  <2>1. PICK i \in 1..Len(users) : jobs' = jobs \cup {[idx |-> i, pw |-> users[i].pw]}
    BY <1>3 DEF ValidateFTPUser, Places
  <2>2. users' = users /\ want' = want
    BY <1>3 DEF ValidateFTPUser
  <2>3. Right' /\ JobsFit
    BY <2>2 DEF PasswordsInv, Right
  <2>4. ASSUME NEW late \in jobs'
        PROVE  /\ late.idx <= Len(users)
               /\ users[late.idx].fmt = "aes" => late.pw = users[late.idx].pw
    <3>1. CASE late \in jobs
      BY <2>3, <3>1 DEF JobsFit
    <3>2. CASE late = [idx |-> i, pw |-> users[i].pw]
      BY <1>p, <3>2, UsersFields
    <3> QED
      BY <2>1, <2>4, <3>1, <3>2
  <2> QED
    BY <2>2, <2>3, <2>4, Zenon DEF JobsFit
<1>4. ASSUME SomeAreGone, Quiet \/ use.lateDelete, UNCHANGED <<jobs, want>> PROVE PasswordsInv'
  <2> SUFFICES ASSUME ~use.lateDelete, ~use.doubleAdd PROVE Right' /\ JobsFit'
    BY <1>u DEF PasswordsInv
  <2>1. PICK g \in [1..Len(users') -> 1..Len(users)] :
          \A i \in 1..Len(users') : users'[i] = users[g[i]]
    BY <1>4 DEF SomeAreGone
  <2>2. Right'
    <3> SUFFICES ASSUME NEW i \in 1..Len(users')
                 PROVE  users'[i].pw = [of |-> users'[i].name, v |-> want'[users'[i].name]]
      BY Zenon DEF Right
    <3>1. g[i] \in 1..Len(users) /\ users'[i] = users[g[i]] /\ want' = want
      BY <1>4, <2>1
    <3> QED
      BY <3>1 DEF PasswordsInv, Right
  <2>3. jobs' = {}
    BY <1>4 DEF Quiet
  <2> QED
    BY <2>2, <2>3 DEF JobsFit
<1>5. ASSUME NEW S \in SUBSET Names, NEW on \in BOOLEAN, setStatus(S, on) PROVE PasswordsInv'
  <2>1. /\ SameNames
        /\ \A i \in 1..Len(users) : users'[i].pw = users[i].pw /\ users'[i].fmt = users[i].fmt
    BY <1>5, <1>p, StatusChanges
  <2> QED
    BY <1>5, <1>p, <2>1, PasswordsStay DEF setStatus
<1>6. ASSUME NEW r \in Requests, RequestStep(r) PROVE PasswordsInv'
  <2>1. CASE \/ SaveRemember(r) \/ SaveSetPassword(r) \/ SaveReplace(r) \/ CopyUser(r)
             \/ \E u \in Names : AddCheck(r, u) \/ \E op \in {"update", "config"} : GetFTPUser(r, u, op)
    <3>1. UNCHANGED ftpVars
      BY <2>1 DEF SaveRemember, SaveSetPassword, SaveReplace, CopyUser, AddCheck, GetFTPUser
    <3> QED
      BY <1>p, <1>u, <3>1, PasswordsUntouched
  <2>2. CASE SetFTPUserPassword(r)
    <3> DEFINE u == req[r].user
               i == First(u)
    <3>0. u \in Names /\ jobs' = jobs
      BY <1>p, <2>2 DEF SetFTPUserPassword, Flow
    <3>1. CASE Exists(u)
      <4> SUFFICES ASSUME ~use.lateDelete, ~use.doubleAdd PROVE Right' /\ JobsFit'
        BY <1>u DEF PasswordsInv
      <4>0. Right /\ JobsFit /\ Distinct
        BY DEF PasswordsInv, NamesInv
      <4>1. /\ SameNames /\ i \in 1..Len(users) /\ users[i].name = u
            /\ want' = [want EXCEPT ![u] = want[u] + 1]
            /\ users'[i].pw = [of |-> u, v |-> want[u] + 1] /\ users'[i].fmt = "bcrypt"
            /\ \A j \in 1..Len(users) : j # i => users'[j] = users[j]
        BY <1>p, <2>2, <3>0, <3>1, PasswordChanges
      <4> HIDE DEF u, i
      <4>2. want \in [Names -> 0..MaxSets]
        BY <1>p DEF AccTypeOK
      <4>3. want'[u] = want[u] + 1 /\ \A v \in Names : v # u => want'[v] = want[v]
        BY <3>0, <4>1, <4>2
      <4>4. \A j \in 1..Len(users) : users'[j].name = users[j].name /\ users[j].name \in Names
        BY <1>p, <4>1, UsersFields, UserFields DEF SameNames
      <4>5. ASSUME NEW j \in 1..Len(users)
            PROVE  users'[j].pw = [of |-> users'[j].name, v |-> want'[users'[j].name]]
        <5>1. CASE j = i
          BY <4>1, <4>3, <4>4, <5>1
        <5>2. CASE j # i
          <6>1. users[j].name # u
            BY <4>0, <4>1, <5>2 DEF Distinct
          <6> QED
            BY <4>0, <4>1, <4>3, <4>4, <5>2, <6>1 DEF Right
        <5> QED
          BY <5>1, <5>2
      <4>6. Right'
        BY <4>1, <4>5 DEF Right, SameNames
      <4>7. ASSUME NEW late \in jobs'
            PROVE  /\ late.idx <= Len(users')
                   /\ users'[late.idx].fmt = "aes" => late.pw = users'[late.idx].pw
        <5>1. late \in jobs /\ late.idx \in 1..MaxUsers
          BY <1>p, <3>0 DEF AccTypeOK
        <5>2. late.idx \in 1..Len(users)
          BY <1>p, <4>0, <5>1, Bounds, UsersFields DEF JobsFit
        <5> QED
          BY <4>0, <4>1, <5>1, <5>2 DEF JobsFit, SameNames
      <4> QED
        BY <4>6, <4>7, Zenon DEF JobsFit
    <3>2. CASE ~Exists(u)
      <4>1. UNCHANGED ftpVars
        BY <2>2, <3>2 DEF SetFTPUserPassword, ftpVars
      <4> QED
        BY <1>p, <1>u, <4>1, PasswordsUntouched
    <3> QED
      BY <3>1, <3>2
  <2>3. CASE UpdateFTPUser(r)
    <3>1. req[r].user \in Names /\ want' = want /\ jobs' = jobs
      BY <1>p, <2>3, RequestFields DEF UpdateFTPUser, Flow
    <3>2. /\ SameNames
          /\ \A i \in 1..Len(users) : users'[i].pw = users[i].pw /\ users'[i].fmt = users[i].fmt
      BY <1>p, <2>3, <3>1, SettingsChange
    <3> QED
      BY <1>p, <1>u, <3>1, <3>2, PasswordsStay
  <2>4. CASE AddAppend(r)
    <3> SUFFICES ASSUME ~use.lateDelete, ~use.doubleAdd PROVE Right' /\ JobsFit'
      BY <1>u DEF PasswordsInv
    <3> DEFINE u == req[r].user
               n == Len(users)
    <3>0. /\ Right /\ JobsFit /\ OneAdder /\ req[r].op = "add" /\ u \in Names
          /\ n \in Nat /\ jobs' = jobs
      BY <1>p, <2>4, UsersFields DEF PasswordsInv, NamesInv, AddAppend, Flow
    <3>1. /\ Len(users') = n + 1 /\ users'[n + 1].name = u
          /\ users'[n + 1].pw = [of |-> u, v |-> want[u] + 1]
          /\ want' = [want EXCEPT ![u] = want[u] + 1]
          /\ \A i \in 1..n : users'[i] = users[i]
      BY <1>p, <2>4, <3>0, UserIsAppended
    <3>2. \A i \in 1..n : users[i].name # u /\ users[i].name \in Names
      BY <1>p, <3>0, UsersFields, UserFields DEF OneAdder
    <3>3. want \in [Names -> 0..MaxSets]
      BY <1>p DEF AccTypeOK
    <3> HIDE DEF u, n
    <3>4. want'[u] = want[u] + 1 /\ \A v \in Names : v # u => want'[v] = want[v]
      BY <3>0, <3>1, <3>3
    <3>5. ASSUME NEW i \in 1..(n + 1)
          PROVE  users'[i].pw = [of |-> users'[i].name, v |-> want'[users'[i].name]]
      <4>1. CASE i = n + 1
        BY <3>1, <3>4, <4>1
      <4>2. CASE i \in 1..n
        BY <3>0, <3>1, <3>2, <3>4, <4>2 DEF Right, n
      <4> QED
        BY <3>0, <4>1, <4>2
    <3>6. ASSUME NEW late \in jobs'
          PROVE  /\ late.idx <= Len(users')
                 /\ users'[late.idx].fmt = "aes" => late.pw = users'[late.idx].pw
      <4>1. late \in jobs /\ late.idx \in 1..MaxUsers
        BY <1>p, <3>0 DEF AccTypeOK
      <4>2. late.idx \in 1..n
        BY <3>0, <4>1, Bounds DEF JobsFit, n
      <4> QED
        BY <3>0, <3>1, <4>1, <4>2 DEF JobsFit
    <3> QED
      BY <3>1, <3>5, <3>6, Zenon DEF Right, JobsFit
  <2> QED
    BY <1>6, <2>1, <2>2, <2>3, <2>4 DEF RequestStep
<1>7. ASSUME NEW u \in Names, deleteFtpUser(u) PROVE PasswordsInv'
  BY <1>p, <1>4, <1>7, OneIsGone DEF deleteFtpUser
<1>8. ASSUME NEW S \in SUBSET Names, batchDelete(S) PROVE PasswordsInv'
  BY <1>p, <1>4, <1>8, SeveralAreGone DEF batchDelete
<1> QED
  BY <1>1, <1>2, <1>3, <1>5, <1>6, <1>7, <1>8 DEF AccNext


-----------------------------------------------------------------------------
(* The settings.                                                            *)

Own == \A i \in 1..Len(users) : users[i].root = users[i].name /\ users[i].lim = users[i].name

\* A request points to its user, or has a copy of it.
Points(r) ==
  req[r].op \in {"update", "config"} =>
    IF req[r].idx = 0
    THEN req[r].val.root = req[r].user /\ req[r].val.lim = req[r].user
    ELSE req[r].idx <= Len(users) /\ users[req[r].idx].name = req[r].user

SettingsInv == ~use.lateDelete => Own /\ \A r \in Requests : Points(r)

LEMMA SettingsInit == AccInit => SettingsInv
<1> SUFFICES ASSUME AccInit PROVE Own /\ \A r \in Requests : Points(r)
  BY DEF SettingsInv
<1>1. Len(FirstUsers) \in Nat /\ \A i \in 1..Len(FirstUsers) : FirstUsers[i] \in Names
  BY AccountsAssumption, LenProperties
<1>2. /\ users = [i \in 1..Len(FirstUsers) |-> NewUser(FirstUsers[i], 0, "aes")]
      /\ req = [r \in Requests |-> IdleRequest]
  BY DEF AccInit
<1>3. Own
  <2> SUFFICES ASSUME NEW i \in 1..Len(users)
               PROVE  users[i].root = users[i].name /\ users[i].lim = users[i].name
    BY DEF Own
  <2>1. users[i] = NewUser(FirstUsers[i], 0, "aes")
    BY <1>1, <1>2
  <2> QED
    BY <2>1 DEF NewUser
<1>4. \A r \in Requests : req[r].op = "none"
  BY <1>2, IdleIsTyped
<1> QED
  BY <1>3, <1>4 DEF Points

\* The settings of the list are the same, or those of their own users.
OwnStays ==
  /\ SameNames
  /\ \A i \in 1..Len(users) : /\ users'[i].root \in {users[i].root, users[i].name}
                              /\ users'[i].lim \in {users[i].lim, users[i].name}

LEMMA OwnIsKept ==
  ASSUME Own, OwnStays
  PROVE  Own'
BY DEF Own, OwnStays, SameNames

\* The users at the places requests point to keep their names.
PlacesStay ==
  /\ Len(users) <= Len(users')
  /\ \A i \in 1..Len(users) : users'[i].name = users[i].name

LEMMA PointStays ==
  ASSUME AccTypeOK, NEW q \in Requests, Points(q), PlacesStay, Len(users') \in Nat,
         req'[q].idx = req[q].idx, req'[q].val = req[q].val, req'[q].op = req[q].op,
         req'[q].user = req[q].user
  PROVE  Points(q)'
<1>1. req[q].idx \in 0..MaxUsers
  BY RequestFields DEF AccTypeOK
<1> QED
  BY <1>1, Bounds, UsersFields DEF Points, PlacesStay

LEMMA PointsStay ==
  ASSUME AccTypeOK, NEW r \in Requests, Moves(r), Points(r)', PlacesStay, Len(users') \in Nat,
         \A q \in Requests : Points(q)
  PROVE  \A q \in Requests : Points(q)'
<1> TAKE q \in Requests
<1>1. CASE q # r
  <2>1. req'[q] = req[q]
    BY <1>1 DEF Moves
  <2> QED
    BY <2>1, PointStays
<1> QED
  BY <1>1

LEMMA EndPoints ==
  ASSUME NEW r, req'[r].op \notin {"update", "config"}
  PROVE  Points(r)'
BY DEF Points

\* What points into the list can be let go.
LEMMA LetGoPoints ==
  ASSUME AccTyping, Own, NEW q \in Requests, Points(q), NEW S, LetGo(S)
  PROVE  Points(q)'
<1>1. CASE q \in S
  BY <1>1, IdleIsTyped, EndPoints DEF LetGo
<1>2. CASE q \notin S /\ req[q].idx = 0
  <2>1. req'[q] = req[q]
    BY <1>2, Zenon DEF LetGo
  <2> QED
    BY <1>2, <2>1 DEF Points
<1>3. CASE q \notin S /\ req[q].idx # 0
  <2>1. /\ req'[q].idx = 0 /\ req'[q].val = PointsTo(q)
        /\ req'[q].op = req[q].op /\ req'[q].user = req[q].user
    BY <1>3, Zenon DEF LetGo
  <2>2. ASSUME req[q].op \in {"update", "config"}
        PROVE  PointsTo(q).root = req[q].user /\ PointsTo(q).lim = req[q].user
    <3>1. /\ AccTypeOK /\ req[q].idx <= Len(users) + Len(spare) /\ req[q].idx \in 0..MaxUsers
          /\ req[q].idx <= Len(users) /\ users[req[q].idx].name = req[q].user
      BY <1>3, <2>2, RequestFields DEF AccTyping, AccTypeOK, RequestsInv, Room, Points
    <3>2. req[q].idx \in 1..Len(users)
      BY <1>3, <3>1, Bounds, UsersFields
    <3>3. PointsTo(q) = users[req[q].idx]
      BY <3>1, <3>2, PointsToAUser
    <3> QED
      BY <3>1, <3>2, <3>3 DEF Own
  <2> QED
    BY <2>1, <2>2 DEF Points
<1> QED
  BY <1>1, <1>2, <1>3

LEMMA SettingsStep == AccTyping /\ SettingsInv /\ [AccNext]_accVars => SettingsInv'
<1> SUFFICES ASSUME AccTyping, SettingsInv, [AccNext]_accVars, ~use.lateDelete
             PROVE  Own' /\ \A q \in Requests : Points(q)'
  BY NamesChange DEF SettingsInv
<1>p. AccTypeOK /\ \A r \in Requests : req[r] \in Request /\ Flow(req[r])
  BY DEF AccTyping, AccTypeOK, RequestsInv
<1>q. Own /\ \A q \in Requests : Points(q)
  BY DEF SettingsInv
<1>n. Len(users) \in Nat /\ Len(users') \in Nat
  BY <1>p, TypingStep, UsersFields, LenProperties DEF AccTyping, AccTypeOK
<1>o. ASSUME OwnStays PROVE Own' /\ PlacesStay
  BY <1>n, <1>o, <1>q, OwnIsKept DEF OwnStays, SameNames, PlacesStay
<1>s. UNCHANGED <<users, spare>> => OwnStays
  BY <1>p, NobodyChanges DEF OwnStays
<1>r. ASSUME OwnStays, req' = req PROVE Own' /\ \A q \in Requests : Points(q)'
  BY <1>p, <1>q, <1>n, <1>o, <1>r, PointStays
<1>m. ASSUME OwnStays, NEW r \in Requests, Moves(r), Points(r)'
      PROVE  Own' /\ \A q \in Requests : Points(q)'
  BY <1>p, <1>q, <1>n, <1>o, <1>m, PointsStay
<1>e. ASSUME OwnStays, NEW r \in Requests, Done(r)
      PROVE  Own' /\ \A q \in Requests : Points(q)'
  <2>1. Moves(r) /\ req'[r].op = "none"
    BY <1>p, <1>e, RequestEnds, IdleIsTyped
  <2>2. Points(r)'
    BY <2>1, EndPoints
  <2> QED
    BY <1>e, <1>m, <2>1, <2>2
<1>1. CASE \/ ValidateAdmin \/ SetAdminPassword \/ UNCHANGED accVars
           \/ \E v \in adminJobs : migrateAdminPasswordToBcrypt(v)
           \/ \E u \in Names : ValidateFTPUser(u)
  <2>1. UNCHANGED <<users, spare>> /\ req' = req
    BY <1>1 DEF ValidateAdmin, SetAdminPassword, accVars, ftpVars, migrateAdminPasswordToBcrypt,
                ValidateFTPUser
  <2> QED
    BY <1>r, <1>s, <2>1
<1>2. ASSUME NEW late \in jobs, migrateFTPUserPasswordToBcrypt(late)
      PROVE  Own' /\ \A q \in Requests : Points(q)'
  <2>1. OwnStays
    BY <1>p, <1>2, MigrationChanges DEF OwnStays
  <2> QED
    BY <1>2, <1>r, <2>1 DEF migrateFTPUserPasswordToBcrypt
<1>3. ASSUME SomeAreGone, \A q \in Requests : req[q].op \in {"none", "save", "add"},
             req' = req \/ LetGo({})
      PROVE  Own' /\ \A q \in Requests : Points(q)'
  <2>1. PICK g \in [1..Len(users') -> 1..Len(users)] :
          \A i \in 1..Len(users') : users'[i] = users[g[i]]
    BY <1>3 DEF SomeAreGone
  <2>2. Own'
    BY <1>q, <2>1 DEF Own
  <2>3. ASSUME NEW q \in Requests PROVE req'[q].op = req[q].op
    BY <1>3, Zenon DEF LetGo
  <2> QED
    BY <1>3, <2>2, <2>3 DEF Points
<1>4. ASSUME NEW u \in Names, deleteFtpUser(u) PROVE Own' /\ \A q \in Requests : Points(q)'
  <2>1. req' = req /\ \A q \in Requests : req[q].op \in {"none", "save", "add"}
    BY <1>4 DEF deleteFtpUser, Quiet
  <2> QED
    BY <1>p, <1>3, <1>4, <2>1, OneIsGone
<1>5. ASSUME NEW S \in SUBSET Names, batchDelete(S) PROVE Own' /\ \A q \in Requests : Points(q)'
  <2>1. LetGo({}) /\ \A q \in Requests : req[q].op \in {"none", "save", "add"}
    BY <1>5, BatchLetsGo DEF batchDelete, Quiet
  <2>2. SomeAreGone
    BY <1>p, <1>5, SeveralAreGone DEF batchDelete
  <2> QED
    BY <1>3, <2>1, <2>2
<1>6. ASSUME NEW S \in SUBSET Names, NEW on \in BOOLEAN, setStatus(S, on)
      PROVE  Own' /\ \A q \in Requests : Points(q)'
  <2>1. OwnStays
    BY <1>p, <1>6, StatusChanges DEF OwnStays
  <2> QED
    BY <1>6, <1>r, <2>1 DEF setStatus
<1>7. ASSUME NEW r \in Requests, RequestStep(r) PROVE Own' /\ \A q \in Requests : Points(q)'
  <2>0. req[r] \in Request /\ Flow(req[r]) /\ Points(r)
    BY <1>p, <1>q
  <2>1. CASE SaveRemember(r)
    <3>1. OwnStays
      BY <1>s, <2>1 DEF SaveRemember, ftpVars
    <3>2. Moves(r) /\ req'[r].op = "save"
      BY <1>p, <2>1, RequestSaves
    <3> QED
      BY <1>m, <3>1, <3>2, EndPoints
  <2>2. CASE SaveSetPassword(r)
    <3>1. OwnStays
      BY <1>s, <2>2 DEF SaveSetPassword, ftpVars
    <3>2. admin' \in [fmt : {"aes", "bcrypt"}, v : 0..MaxSets]
      BY TypingStep, TypePartsNext DEF AccTyping, AdminTyped, Formats, SetNumbers
    <3>3. Moves(r) /\ req'[r].op = "save"
      BY <1>p, <2>0, <2>2, <3>2, RequestRemembers DEF SaveSetPassword, Flow
    <3> QED
      BY <1>m, <3>1, <3>3, EndPoints
  <2>3. CASE SaveReplace(r)
    BY <1>e, <1>s, <2>3 DEF SaveReplace, ftpVars
  <2>4. CASE SetFTPUserPassword(r)
    <3>0. req[r].user \in Names
      BY <2>0, <2>4 DEF SetFTPUserPassword, Flow
    <3>1. CASE Exists(req[r].user)
      <4>1. OwnStays
        BY <1>p, <2>4, <3>0, <3>1, PasswordChanges DEF OwnStays
      <4>2. /\ Moves(r) /\ req'[r].op = req[r].op /\ req'[r].user = req[r].user
            /\ req'[r].idx = req[r].idx /\ req'[r].val = req[r].val
        BY <1>p, <2>4, <3>1, RequestHasSet
      <4>3. Points(r)'
        BY <1>p, <1>n, <1>o, <2>0, <4>1, <4>2, PointStays
      <4> QED
        BY <1>m, <4>1, <4>2, <4>3
    <3>2. CASE ~Exists(req[r].user)
      BY <1>e, <1>s, <2>4, <3>2 DEF SetFTPUserPassword
    <3> QED
      BY <3>1, <3>2
  <2>5. CASE CopyUser(r)
    <3>1. OwnStays
      BY <1>s, <2>5 DEF CopyUser, ftpVars
    <3>2. req[r].idx \in 0..MaxUsers /\ req[r].idx <= Len(users) + Len(spare)
      BY RequestFields DEF AccTyping, AccTypeOK, RequestsInv, Room
    <3>3. /\ PointsTo(r) \in User
          /\ req[r].idx = 0 => PointsTo(r) = req[r].val
          /\ req[r].idx \in 1..Len(users) => PointsTo(r) = users[req[r].idx]
      BY <1>p, <3>2, PointsToAUser
    <3>4. /\ Moves(r) /\ req'[r].op = req[r].op /\ req'[r].user = req[r].user
          /\ req'[r].idx = 0 /\ req'[r].val = PointsTo(r)
      BY <1>p, <2>5, <3>3, RequestCopies
    <3>5. Points(r)'
      <4> SUFFICES ASSUME req[r].op \in {"update", "config"}
                   PROVE  PointsTo(r).root = req[r].user /\ PointsTo(r).lim = req[r].user
        BY <3>4 DEF Points
      <4>1. CASE req[r].idx = 0
        BY <2>0, <3>3, <4>1 DEF Points
      <4>2. CASE req[r].idx # 0
        <5>1. req[r].idx \in 1..Len(users) /\ users[req[r].idx].name = req[r].user
          BY <1>n, <2>0, <3>2, <4>2, Bounds DEF Points
        <5> QED
          BY <1>q, <3>3, <5>1 DEF Own
      <4> QED
        BY <4>1, <4>2
    <3> QED
      BY <1>m, <3>1, <3>4, <3>5
  <2>6. CASE UpdateFTPUser(r)
    <3>1. req[r].user \in Names /\ Done(r) /\ req[r].idx = 0 /\ req[r].op \in {"update", "config"}
      BY <2>0, <2>6, RequestFields DEF UpdateFTPUser, Flow
    <3>2. req[r].val.root = req[r].user /\ req[r].val.lim = req[r].user
      BY <2>0, <3>1 DEF Points
    <3>3. /\ SameNames
          /\ \A i \in 1..Len(users) :
               \/ users'[i] = users[i]
               \/ /\ users[i].name = req[r].user
                  /\ users'[i].root \in {req[r].val.root, req[r].user}
                  /\ users'[i].lim \in {req[r].val.lim, req[r].user}
      BY <1>p, <2>6, <3>1, SettingsChange
    <3>4. OwnStays
      BY <3>2, <3>3 DEF OwnStays
    <3> QED
      BY <1>e, <3>1, <3>4
  <2>7. CASE AddAppend(r)
    <3> DEFINE n == Len(users)
               u == req[r].user
    <3>0. u \in Names
      BY <2>0, <2>7 DEF AddAppend, Flow
    <3>1. /\ Len(users') = n + 1 /\ \A i \in 1..n : users'[i] = users[i]
          /\ users'[n + 1].name = u /\ users'[n + 1].root = u /\ users'[n + 1].lim = u
      BY <1>p, <2>7, <3>0, UserIsAppended
    <3>2. \A i \in 1..(n + 1) : i \in 1..n \/ i = n + 1
      BY <1>n
    <3>3. Own'
      BY <1>q, <3>1, <3>2 DEF Own
    <3>4. PlacesStay
      BY <1>n, <3>1 DEF PlacesStay
    <3>5. CASE Done(r)
      <4>1. Moves(r) /\ req'[r].op = "none"
        BY <1>p, <3>5, RequestEnds, IdleIsTyped
      <4>2. Points(r)'
        BY <4>1, EndPoints
      <4> QED
        BY <1>p, <1>q, <1>n, <3>3, <3>4, <4>1, <4>2, PointsStay
    <3>6. CASE req' = Detached(r)
      BY <1>q, <3>3, <3>6, DetachedLetsGo, LetGoPoints
    <3> QED
      BY <2>7, <3>5, <3>6 DEF AddAppend
  <2>8. ASSUME NEW u \in Names, AddCheck(r, u) PROVE Own' /\ \A q \in Requests : Points(q)'
    <3>1. OwnStays
      BY <1>s, <2>8 DEF AddCheck, ftpVars
    <3>2. Moves(r) /\ req'[r].op = "add"
      BY <1>p, <2>8, RequestAdds
    <3> QED
      BY <1>m, <3>1, <3>2, EndPoints
  <2>9. ASSUME NEW u \in Names, NEW op \in {"update", "config"}, GetFTPUser(r, u, op)
        PROVE  Own' /\ \A q \in Requests : Points(q)'
    <3>1. OwnStays /\ users' = users
      BY <1>s, <2>9 DEF GetFTPUser, ftpVars
    <3>2. /\ First(u) \in 1..Len(users) /\ users[First(u)].name = u
          /\ Moves(r) /\ req'[r].op = op /\ req'[r].user = u /\ req'[r].idx = First(u)
      BY <1>p, <2>9, RequestGets
    <3>3. Points(r)'
      BY <1>n, <3>1, <3>2 DEF Points
    <3> QED
      BY <1>m, <3>1, <3>2, <3>3
  <2> QED
    BY <1>7, <2>1, <2>2, <2>3, <2>4, <2>5, <2>6, <2>7, <2>8, <2>9 DEF RequestStep
<1> QED
  BY <1>1, <1>2, <1>4, <1>5, <1>6, <1>7 DEF AccNext


-----------------------------------------------------------------------------
(* The administrator's password.                                            *)

\* A password in the old format is the first one.
FirstIsOld(a) == a.fmt = "aes" => a.v = 0

AdminFits ==
  /\ FirstIsOld(admin) /\ \A r \in Requests : FirstIsOld(req[r].old)
  /\ \A v \in adminJobs : v = 0

OneSaver ==
  \A r \in Requests : req[r].op = "save" =>
    /\ req[r].old.v = adminWant
    /\ \A q \in Requests : req[q].op = "save" => q = r

AdminInv == AdminFits /\ (~use.overlapSave => admin.v = adminWant /\ OneSaver)

LEMMA AdminInit == AccInit => AdminInv
<1> SUFFICES ASSUME AccInit PROVE AdminInv
  OBVIOUS
<1>1. /\ admin = [fmt |-> "aes", v |-> 0] /\ adminJobs = {} /\ adminWant = 0
      /\ \A r \in Requests : req[r] = IdleRequest
  BY DEF AccInit
<1>2. FirstIsOld(IdleRequest.old) /\ IdleRequest.op = "none"
  BY DEF IdleRequest, FirstIsOld
<1> QED
  BY <1>1, <1>2 DEF AdminInv, AdminFits, OneSaver, FirstIsOld

\* What requests remember of the administrator's password.
OldStays ==
  \A q \in Requests :
    \/ req'[q].old = req[q].old /\ (req'[q].op = "save" => req[q].op = "save")
    \/ req'[q] = IdleRequest

LEMMA AdminStays ==
  ASSUME AdminInv, UNCHANGED <<admin, adminWant, use>>, adminJobs' \subseteq adminJobs \cup {0},
         OldStays
  PROVE  AdminInv'
<1>1. FirstIsOld(IdleRequest.old) /\ IdleRequest.op = "none"
  BY DEF IdleRequest, FirstIsOld
<1>2. ASSUME NEW q \in Requests
      PROVE  /\ FirstIsOld(req'[q].old)
             /\ req'[q].op = "save" => req'[q].old = req[q].old /\ req[q].op = "save"
  BY <1>1 DEF OldStays, AdminInv, AdminFits
<1>3. AdminFits'
  BY <1>2 DEF AdminInv, AdminFits, FirstIsOld
<1>4. OneSaver => OneSaver'
  BY <1>2 DEF OneSaver
<1> QED
  BY <1>3, <1>4 DEF AdminInv

LEMMA AdminStep == AccTyping /\ AdminInv /\ [AccNext]_accVars => AdminInv'
<1> SUFFICES ASSUME AccTyping, AdminInv, [AccNext]_accVars PROVE AdminInv'
  OBVIOUS
<1>p. AccTypeOK /\ \A r \in Requests : req[r] \in Request /\ Flow(req[r])
  BY DEF AccTyping, AccTypeOK, RequestsInv
<1>u. use' = use
  BY NamesChange
<1>t. /\ admin' \in [fmt : {"aes", "bcrypt"}, v : 0..MaxSets] /\ adminWant \in 0..MaxSets
  BY TypingStep, TypePartsNext, TypeParts DEF AccTyping, AdminTyped, Formats, SetNumbers
<1>s. ASSUME UNCHANGED <<adminVars, req>> PROVE AdminInv'
  BY <1>s, <1>u, AdminStays DEF adminVars, OldStays
<1>m. ASSUME UNCHANGED adminVars, NEW r \in Requests, Moves(r), req'[r].old = req[r].old,
             req'[r].op = "save" => req[r].op = "save"
      PROVE  AdminInv'
  <2>1. OldStays
    BY <1>m DEF Moves, OldStays
  <2> QED
    BY <1>m, <1>u, <2>1, AdminStays DEF adminVars
<1>e. ASSUME UNCHANGED adminVars, NEW r \in Requests, Done(r)
      PROVE  AdminInv'
  <2>1. OldStays
    BY <1>p, <1>e, RequestEnds DEF Moves, OldStays
  <2> QED
    BY <1>e, <1>u, <2>1, AdminStays DEF adminVars
<1>l. ASSUME UNCHANGED adminVars, NEW S, LetGo(S) PROVE AdminInv'
  <2>1. ASSUME NEW q \in Requests
        PROVE  \/ req'[q].old = req[q].old /\ (req'[q].op = "save" => req[q].op = "save")
               \/ req'[q] = IdleRequest
    BY <1>l, Zenon DEF LetGo
  <2> QED
    BY <1>l, <1>u, <2>1, AdminStays DEF adminVars, OldStays
<1>1. CASE ValidateAdmin
  <2>1. adminJobs' = adminJobs \cup {0} /\ UNCHANGED <<admin, adminWant, req>>
    BY <1>1 DEF ValidateAdmin, AdminInv, AdminFits, FirstIsOld
  <2> QED
    BY <1>u, <2>1, AdminStays DEF OldStays
<1>2. CASE SetAdminPassword
  <2>1. /\ admin' = [fmt |-> "bcrypt", v |-> adminWant + 1] /\ adminWant' = adminWant + 1
        /\ adminJobs' = adminJobs /\ req' = req
        /\ use.overlapSave \/ \A r \in Requests : req[r].op # "save"
    BY <1>2 DEF SetAdminPassword, NewAdminPassword, Saving
  <2> QED
    BY <1>u, <2>1 DEF AdminInv, AdminFits, FirstIsOld, OneSaver
<1>3. ASSUME NEW v \in adminJobs, migrateAdminPasswordToBcrypt(v) PROVE AdminInv'
  <2>1. v = 0
    BY DEF AdminInv, AdminFits
  <2>2. admin'.v = admin.v /\ FirstIsOld(admin')
    BY <1>3, <2>1 DEF migrateAdminPasswordToBcrypt, AdminInv, AdminFits, FirstIsOld
  <2>3. UNCHANGED <<adminWant, req>> /\ adminJobs' \subseteq adminJobs
    BY <1>3 DEF migrateAdminPasswordToBcrypt
  <2> QED
    BY <1>u, <2>2, <2>3 DEF AdminInv, AdminFits, OneSaver, FirstIsOld
<1>4. ASSUME NEW r \in Requests, SaveRemember(r) PROVE AdminInv'
  <2>1. Moves(r) /\ req'[r].op = "save" /\ req'[r].old = admin
    BY <1>4, <1>p, RequestSaves
  <2>2. /\ UNCHANGED adminVars
        /\ use.overlapSave \/ \A q \in Requests : req[q].op # "save"
    BY <1>4 DEF SaveRemember, Saving
  <2>3. AdminFits'
    BY <2>1, <2>2 DEF Moves, AdminInv, AdminFits, FirstIsOld, adminVars
  <2>4. ~use.overlapSave => OneSaver'
    BY <2>1, <2>2 DEF Moves, AdminInv, OneSaver, adminVars
  <2> QED
    BY <1>u, <2>2, <2>3, <2>4 DEF AdminInv, adminVars
<1>5. ASSUME NEW r \in Requests, SaveSetPassword(r) PROVE AdminInv'
  <2>1. Moves(r) /\ req'[r].op = "save" /\ req[r].op = "save" /\ req'[r].old = admin'
    BY <1>5, <1>p, <1>t, RequestRemembers DEF SaveSetPassword, Flow
  <2>2. /\ admin' = [fmt |-> "bcrypt", v |-> adminWant + 1] /\ adminWant' = adminWant + 1
        /\ adminJobs' = adminJobs
    BY <1>5 DEF SaveSetPassword, NewAdminPassword
  <2>3. AdminFits'
    BY <2>1, <2>2 DEF Moves, AdminInv, AdminFits, FirstIsOld
  <2>4. OneSaver => OneSaver'
    BY <2>1, <2>2 DEF Moves, OneSaver
  <2> QED
    BY <1>u, <2>2, <2>3, <2>4 DEF AdminInv
<1>6. ASSUME NEW r \in Requests, SaveReplace(r) PROVE AdminInv'
  <2>1. /\ admin' = req[r].old /\ UNCHANGED <<adminJobs, adminWant>> /\ req[r].op = "save"
        /\ Moves(r) /\ req'[r] = IdleRequest
    BY <1>6, <1>p, RequestEnds DEF SaveReplace, Flow
  <2>2. FirstIsOld(IdleRequest.old) /\ IdleRequest.op = "none"
    BY DEF IdleRequest, FirstIsOld
  <2>3. AdminFits'
    BY <2>1, <2>2 DEF Moves, AdminInv, AdminFits, FirstIsOld
  <2>4. OneSaver => OneSaver' /\ admin'.v = adminWant
    BY <2>1, <2>2 DEF Moves, OneSaver
  <2> QED
    BY <1>u, <2>1, <2>3, <2>4 DEF AdminInv
<1>7. ASSUME NEW r \in Requests, SetFTPUserPassword(r) PROVE AdminInv'
  <2>1. CASE Exists(req[r].user)
    <3>1. Moves(r) /\ req'[r].op = req[r].op /\ req'[r].old = req[r].old
      BY <1>7, <1>p, <2>1, RequestHasSet
    <3> QED
      BY <1>7, <1>m, <3>1 DEF SetFTPUserPassword
  <2>2. CASE ~Exists(req[r].user)
    BY <1>7, <1>e, <2>2 DEF SetFTPUserPassword
  <2> QED
    BY <2>1, <2>2
<1>8. ASSUME NEW r \in Requests, CopyUser(r) PROVE AdminInv'
  <2>1. PointsTo(r) \in User
    BY <1>p, PointsToAUser DEF AccTyping, RequestsInv, Room
  <2>2. Moves(r) /\ req'[r].op = req[r].op /\ req'[r].old = req[r].old
    BY <1>8, <1>p, <2>1, RequestCopies
  <2> QED
    BY <1>8, <1>m, <2>2 DEF CopyUser
<1>9. ASSUME NEW r \in Requests, UpdateFTPUser(r) PROVE AdminInv'
  BY <1>9, <1>e DEF UpdateFTPUser
<1>10. ASSUME NEW r \in Requests, AddAppend(r) PROVE AdminInv'
  <2>1. UNCHANGED adminVars /\ (Done(r) \/ req' = Detached(r))
    BY <1>10 DEF AddAppend
  <2>2. CASE Done(r)
    BY <1>e, <2>1, <2>2
  <2>3. CASE req' = Detached(r)
    BY <1>l, <2>1, <2>3, DetachedLetsGo
  <2> QED
    BY <2>1, <2>2, <2>3
<1>11. ASSUME NEW r \in Requests, NEW u \in Names, AddCheck(r, u) PROVE AdminInv'
  <2>1. Moves(r) /\ req'[r].op = "add" /\ req'[r].old = req[r].old
    BY <1>11, <1>p, RequestAdds
  <2> QED
    BY <1>11, <1>m, <2>1 DEF AddCheck
<1>12. ASSUME NEW r \in Requests, NEW u \in Names, NEW op \in {"update", "config"},
              GetFTPUser(r, u, op)
       PROVE  AdminInv'
  <2>1. Moves(r) /\ req'[r].op = op /\ req'[r].old = req[r].old
    BY <1>12, <1>p, RequestGets
  <2> QED
    BY <1>12, <1>m, <2>1 DEF GetFTPUser
<1>13. ASSUME NEW S \in SUBSET Names, batchDelete(S) PROVE AdminInv'
  BY <1>13, <1>l, BatchLetsGo DEF batchDelete
<1>14. CASE \/ \E late \in jobs : migrateFTPUserPasswordToBcrypt(late)
            \/ \E u \in Names : ValidateFTPUser(u) \/ deleteFtpUser(u)
            \/ \E S \in SUBSET Names, on \in BOOLEAN : setStatus(S, on)
            \/ UNCHANGED accVars
  BY <1>14, <1>s DEF migrateFTPUserPasswordToBcrypt, ValidateFTPUser, deleteFtpUser, setStatus,
                     accVars
<1> QED
  BY <1>1, <1>2, <1>3, <1>4, <1>5, <1>6, <1>7, <1>8, <1>9, <1>10, <1>11, <1>12, <1>13, <1>14
     DEF AccNext, RequestStep

-----------------------------------------------------------------------------
(* The theorems.                                                            *)

(***************************************************************************)
(* The variables have their types whatever the requests and the pending     *)
(* migrations do, a pointer of a request stays within the array it points   *)
(* into, and a request is in a stage of what it does (panel/api_ftp.go).    *)
(***************************************************************************)
THEOREM AccountsTyping == AccSpec => [](AccTypeOK /\ RequestsInv)
<1>1. AccSpec => []AccTyping
  BY InitTyping, TypingStep, PTL DEF AccSpec
<1> QED
  BY <1>1, PTL DEF AccTyping

(***************************************************************************)
(* The list has a name once as long as requests that add users do not       *)
(* overlap, though the name is looked up long before it is appended         *)
(* (addFtpUser).                                                            *)
(***************************************************************************)
THEOREM NamesStayUnique == AccSpec => []NamesUnique
<1>1. ASSUME AccTyping, NamesInv PROVE NamesUnique
  <2> SUFFICES ASSUME ~use.doubleAdd, NEW u \in Names PROVE Cardinality(Places(u)) <= 1
    BY DEF NamesUnique
  <2>1. \A i, j \in Places(u) : i = j
    BY <1>1 DEF NamesInv, Distinct, Places
  <2>2. Places(u) = {} \/ \E i : Places(u) = {i}
    BY <2>1
  <2>3. CASE Places(u) = {}
    BY <2>3, FS_EmptySet
  <2>4. ASSUME NEW i, Places(u) = {i} PROVE Cardinality(Places(u)) <= 1
    <3>1. Cardinality({i}) = 1
      BY FS_Singleton, Zenon
    <3> QED
      BY <2>4, <3>1
  <2> QED
    BY <2>2, <2>3, <2>4
<1>2. AccSpec => [](AccTyping /\ NamesInv)
  BY InitTyping, TypingStep, NamesInit, NamesStep, PTL DEF AccSpec
<1> QED
  BY <1>1, <1>2, PTL

(***************************************************************************)
(* The password of a user is the one set last: neither a pending migration  *)
(* (migrateFTPUserPasswordToBcrypt) nor an update from a copy made earlier  *)
(* (UpdateFTPUser) brings another back, as long as no user is deleted       *)
(* meanwhile.                                                               *)
(***************************************************************************)
THEOREM PasswordStaysTheLastSet == AccSpec => []PasswordIsLastSet
<1>1. PasswordsInv => PasswordIsLastSet
  BY DEF PasswordsInv, Right, PasswordIsLastSet
<1>2. AccSpec => [](AccTyping /\ NamesInv /\ PasswordsInv)
  BY InitTyping, TypingStep, NamesInit, NamesStep, PasswordsInit, PasswordsStep, PTL DEF AccSpec
<1> QED
  BY <1>1, <1>2, PTL

(***************************************************************************)
(* A user keeps the directory and the limits set for that user: a pointer   *)
(* or a copy an update holds is of the user it is for, also once append has *)
(* moved the list to another array.                                         *)
(***************************************************************************)
THEOREM SettingsStayOwn == AccSpec => []SettingsAreOwn
<1>1. SettingsInv => SettingsAreOwn
  BY DEF SettingsInv, Own, SettingsAreOwn
<1>2. AccSpec => [](AccTyping /\ SettingsInv)
  BY InitTyping, TypingStep, SettingsInit, SettingsStep, PTL DEF AccSpec
<1> QED
  BY <1>1, <1>2, PTL

(***************************************************************************)
(* The administrator's password is the one set last, except during a        *)
(* saveConfig that overlaps the change: the goroutine that rewrites an old  *)
(* password does not undo a new one (migrateAdminPasswordToBcrypt).         *)
(***************************************************************************)
THEOREM AdminPasswordStaysTheLastSet == AccSpec => []AdminPasswordIsLastSet
<1>1. AdminInv => AdminPasswordIsLastSet
  BY DEF AdminInv, AdminPasswordIsLastSet
<1>2. AccSpec => [](AccTyping /\ AdminInv)
  BY InitTyping, TypingStep, AdminInit, AdminStep, PTL DEF AccSpec
<1> QED
  BY <1>1, <1>2, PTL


-----------------------------------------------------------------------------
(* The configuration store: the accounts in memory beside the files.        *)

(* A step of the store is one of the accounts or one of the files, which    *)
(* the other part does not see.                                             *)
THEOREM StoreIsItsParts == Spec => AccSpec /\ ConfigSpec
<1>1. Init => AccInit /\ ConfigInit
  BY DEF Init
<1>2. [Next]_<<accVars, configVars, part>> => [AccNext]_accVars /\ [ConfigNext]_configVars
  BY DEF Next
<1> QED
  BY <1>1, <1>2, PTL DEF Spec, AccSpec, ConfigSpec

\* Every state of the configuration store is well typed, in memory and on the disk.
THEOREM StoreStaysTyped == Spec => []TypeOK
<1>1. AccTypeOK /\ ConfigTypeOK => TypeOK
  BY DEF TypeOK
<1> QED
  BY <1>1, StoreIsItsParts, AccountsTyping, Typing, PTL
==============================================================================
