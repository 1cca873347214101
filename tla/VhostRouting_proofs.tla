------------------------- MODULE VhostRouting_proofs --------------------------
(* Proofs about the routing of domains.                                     *)
EXTENDS VhostRouting, FiniteSetTheorems, TLAPS

\* A set of positions that is not empty has a first and a last one.
LEMMA LeastIsThere ==
  ASSUME NEW S \in SUBSET Nat, S # {}
  PROVE  Least(S) \in S /\ \A j \in S : Least(S) <= j
<1> DEFINE T == {1..k : k \in S}
<1>1. T \subseteq FiniteSubsetsOf(Nat)
  <2>1. ASSUME NEW k \in S PROVE IsFiniteSet(1..k) /\ 1..k \in SUBSET Nat
    BY FS_Interval
  <2> QED
    BY <2>1 DEF FiniteSubsetsOf
<1>2. T # {}
  OBVIOUS
<1>3. PICK x \in T : \A y \in T : ~ (<<y, x>> \in StrictSubsetOrdering(Nat))
  BY <1>1, <1>2, FS_StrictSubsetOrderingWellFounded, WFMin
<1>4. PICK i \in S : x = 1..i
  BY <1>3
<1>5. ASSUME NEW j \in S, j < i PROVE FALSE
  <2>1. 1..j \subseteq 1..i /\ i \in 1..i /\ i \notin 1..j
    BY <1>5
  <2>2. 1..j \in SUBSET Nat /\ 1..i \in SUBSET Nat /\ 1..j \in T
    OBVIOUS
  <2>3. <<1..j, 1..i>> \in StrictSubsetOrdering(Nat)
    BY <2>1, <2>2 DEF StrictSubsetOrdering
  <2> QED
    BY <1>3, <1>4, <2>2, <2>3
<1>6. \A j \in S : i <= j
  BY <1>5
<1> QED
  BY <1>6 DEF Least

LEMMA GreatestIsThere ==
  ASSUME NEW n \in Nat, NEW S \in SUBSET (1..n), S # {}
  PROVE  Greatest(S) \in S /\ \A j \in S : j <= Greatest(S)
<1> DEFINE T == {k \in 0..n : n - k \in S}
<1>1. PICK s \in S : TRUE
  OBVIOUS
<1>2. s \in 1..n /\ n - s \in 0..n /\ n - (n - s) = s
  OBVIOUS
<1>3. T \in SUBSET Nat /\ T # {}
  <2>1. n - s \in T
    BY <1>2
  <2>2. T \subseteq 0..n /\ 0..n \subseteq Nat
    OBVIOUS
  <2> HIDE DEF T
  <2> QED
    BY <2>1, <2>2
<1> HIDE DEF T
<1>4. Least(T) \in T /\ \A j \in T : Least(T) <= j
  BY <1>3, LeastIsThere
<1> DEFINE m == Least(T)
<1>5. m \in 0..n /\ n - m \in S /\ \A j \in T : m <= j
  BY <1>4 DEF T
<1> HIDE DEF m
<1>6. ASSUME NEW j \in S PROVE j <= n - m
  <2>1. j \in 1..n /\ n - j \in 0..n /\ n - (n - j) = j
    OBVIOUS
  <2>2. n - j \in T
    BY <2>1 DEF T
  <2> QED
    BY <1>5, <2>1, <2>2
<1> QED
  BY <1>5, <1>6 DEF Greatest

-----------------------------------------------------------------------------
(* Cells and pointers.                                                      *)

LEMMA CellIn ==
  ASSUME NEW k \in Arrays, NEW i \in 1..Capacity[k]
  PROVE  <<k, i>> \in Cells
BY DEF Cells

LEMMA CellIs ==
  ASSUME NEW c \in Cells
  PROVE  /\ c[1] \in Arrays /\ c[2] \in 1..Capacity[c[1]] /\ c = <<c[1], c[2]>>
         /\ Capacity[c[1]] \in Nat /\ c # Nil
<1>1. PICK k \in Arrays : c \in {k} \X (1..Capacity[k])
  BY DEF Cells
<1>2. Capacity[k] \in Nat /\ Nil \notin Cells
  BY VhostRoutingAssumption DEF Arrays
<1> QED
  BY <1>1, <1>2

LEMMA ArraysAre ==
  /\ Arrays \subseteq Nat \ {0} /\ 1 \in Arrays
  /\ \A k \in Arrays : Capacity[k] \in Nat /\ (k + 1 \in Arrays => Capacity[k] < Capacity[k + 1])
<1>1. Capacity \in Seq(Nat) /\ Capacity # <<>> /\ Arrays = 1..Len(Capacity) /\ Len(Capacity) \in Nat
  BY VhostRoutingAssumption DEF Arrays
<1>2. Len(Capacity) # 0
  BY <1>1
<1>3. \A k \in Arrays : k > 1 => Capacity[k - 1] < Capacity[k]
  BY VhostRoutingAssumption
<1>4. ASSUME NEW k \in Arrays, k + 1 \in Arrays PROVE Capacity[k] < Capacity[k + 1]
  <2>1. k \in Nat /\ k + 1 > 1 /\ (k + 1) - 1 = k
    BY <1>1
  <2>2. Capacity[(k + 1) - 1] < Capacity[k + 1]
    BY <1>3, <1>4, <2>1
  <2> QED
    BY <2>1, <2>2
<1> QED
  BY <1>1, <1>2, <1>4

LEMMA ListedAreCells ==
  ASSUME NEW hp, NEW sl \in [arr : Arrays, len : Nat], sl.len <= Capacity[sl.arr]
  PROVE  /\ Listed(hp, sl) \subseteq Cells
         /\ \A c \in Listed(hp, sl) : c[1] = sl.arr /\ c[2] \in 1..sl.len /\ c = <<sl.arr, c[2]>>
<1>1. ASSUME NEW i \in 1..sl.len PROVE <<sl.arr, i>> \in Cells
  <2>1. sl.arr \in Arrays /\ sl.len \in Nat /\ Capacity[sl.arr] \in Nat
    BY ArraysAre
  <2>2. i \in 1..Capacity[sl.arr]
    BY <2>1
  <2> QED
    BY <2>1, <2>2, CellIn
<1> QED
  BY <1>1 DEF Listed

LEMMA PointsTo ==
  ASSUME NEW c \in Cells
  PROVE  /\ AtCell(c) \in Pointer /\ AtCell(c).cell = c /\ AtCell(c).copy = Nil /\ AtCell(c) # Nil
         /\ \A hp : Deref(hp, AtCell(c)) = hp[c]
<1>1. c # Nil
  BY CellIs
<1>2. AtCell(c) \in Pointer
  BY DEF AtCell, Pointer
<1> QED
  BY <1>1, <1>2, VhostRoutingAssumption DEF AtCell, Deref

LEMMA CopyIs ==
  ASSUME NEW cfg \in SiteConfig
  PROVE  /\ AtCopy(cfg) \in Pointer /\ AtCopy(cfg).cell = Nil
         /\ \A hp : Deref(hp, AtCopy(cfg)) = cfg
BY DEF AtCopy, Pointer, Deref

LEMMA HostIs ==
  ASSUME NEW ptr \in Pointer, NEW s \in Sites
  PROVE  /\ [config |-> ptr, handler |-> s] \in VirtualHost
         /\ [config |-> ptr, handler |-> s] # Nil
<1>1. [config |-> ptr, handler |-> s] \in VirtualHost
  BY DEF VirtualHost
<1> QED
  BY <1>1, VhostRoutingAssumption

LEMMA TheCell ==
  ASSUME NEW L, NEW hp, NEW s, NEW c \in L, hp[c].id = s, \A e \in L : hp[e].id = s => e = c
  PROVE  (CHOOSE e \in L : hp[e].id = s) = c
OBVIOUS

-----------------------------------------------------------------------------
\* The slice has one cell for each configured site.
ShapeInv ==
  /\ \A c \in Listed(heap, slice) : heap[c] \in SiteConfig
  /\ \A c, e \in Listed(heap, slice) : heap[c].id = heap[e].id => c = e

\* What the request and the action in flight refer to.
RequestInv ==
  /\ hreq.op = "none" => hreq = NoRequest
  /\ hreq.op # "none" => hreq.site \in Sites
  /\ hreq.op \in {"update", "enable"} => hreq.site \in Configured
  /\ hreq.op = "create" => hreq.arg \in SiteConfig

ActionInv ==
  /\ action.op = "none" => action = NoAction
  /\ action.op # "none" =>
       /\ action.site \in Sites
       /\ \E c \in Cells : action.config = AtCell(c) /\ c[1] <= slice.arr /\ heap[c] \in SiteConfig

TypeInv == TypeOK /\ ShapeInv /\ RequestInv /\ ActionInv

LEMMA CellOfIs ==
  ASSUME TypeOK, ShapeInv, NEW s \in Configured
  PROVE  /\ CellOf(s) \in Listed(heap, slice) /\ CellOf(s) \in Cells /\ heap[CellOf(s)].id = s
         /\ heap[CellOf(s)] \in SiteConfig /\ s \in Sites /\ Config(s) = heap[CellOf(s)]
         /\ \A c \in Listed(heap, slice) : heap[c].id = s => CellOf(s) = c
<1>1. \E c \in Listed(heap, slice) : heap[c].id = s
  BY DEF Configured
<1>2. CellOf(s) \in Listed(heap, slice) /\ heap[CellOf(s)].id = s
  BY <1>1 DEF CellOf
<1>3. Listed(heap, slice) \subseteq Cells
  BY ListedAreCells DEF TypeOK
<1>4. heap[CellOf(s)] \in SiteConfig
  BY <1>2 DEF ShapeInv
<1>5. s \in Sites
  BY <1>2, <1>4 DEF SiteConfig
<1> QED
  BY <1>2, <1>3, <1>4, <1>5 DEF ShapeInv, Config

\* A cell of a configured site is written: the site stays what and where it is.
Writes(s, x) ==
  /\ s \in Configured /\ x \in SiteConfig /\ x.id = s
  /\ heap' = [heap EXCEPT ![CellOf(s)] = x] /\ UNCHANGED slice

LEMMA WrittenIs ==
  ASSUME TypeOK, ShapeInv, NEW s, NEW x, Writes(s, x)
  PROVE  /\ heap' \in [Cells -> SiteConfig \cup {Nil}] /\ ShapeInv'
         /\ Listed(heap, slice)' = Listed(heap, slice)
         /\ \A c \in Cells : heap'[c] = IF c = CellOf(s) THEN x ELSE heap[c]
         /\ Configured' = Configured
         /\ \A t \in Configured : /\ CellOf(t)' = CellOf(t)
                                  /\ Config(t)' = IF t = s THEN x ELSE Config(t)
<1>1. /\ s \in Configured /\ x \in SiteConfig /\ x.id = s /\ slice' = slice
      /\ heap' = [heap EXCEPT ![CellOf(s)] = x]
  BY DEF Writes
<1>2. /\ CellOf(s) \in Listed(heap, slice) /\ CellOf(s) \in Cells /\ heap[CellOf(s)].id = s
      /\ \A c \in Listed(heap, slice) : heap[c].id = s => CellOf(s) = c
  BY <1>1, CellOfIs
<1> DEFINE L == Listed(heap, slice)
           k == CellOf(s)
<1>3. L \subseteq Cells
  BY ListedAreCells DEF TypeOK
<1>4. Listed(heap, slice)' = L
  BY <1>1 DEF Listed
<1>5. /\ heap' \in [Cells -> SiteConfig \cup {Nil}]
      /\ \A c \in Cells : heap'[c] = IF c = k THEN x ELSE heap[c]
  BY <1>1, <1>2 DEF TypeOK
<1>6. \A c \in L : heap'[c].id = heap[c].id /\ heap'[c] \in SiteConfig
  BY <1>1, <1>2, <1>3, <1>5 DEF ShapeInv
<1>7. ShapeInv'
  BY <1>4, <1>6 DEF ShapeInv
<1>8. Configured' = Configured
  BY <1>4, <1>6 DEF Configured
<1>9. ASSUME NEW t \in Configured
      PROVE  CellOf(t)' = CellOf(t) /\ Config(t)' = IF t = s THEN x ELSE Config(t)
  <2>1. /\ CellOf(t) \in L /\ heap[CellOf(t)].id = t /\ Config(t) = heap[CellOf(t)]
        /\ \A c \in L : heap[c].id = t => CellOf(t) = c
    BY <1>9, CellOfIs
  <2> DEFINE e == CellOf(t)
  <2>2. heap'[e].id = t /\ \A c \in L : heap'[c].id = t => c = e
    BY <1>6, <2>1
  <2>3. CellOf(t)' = CHOOSE c \in L : heap'[c].id = t
    BY <1>4 DEF CellOf
  <2>4. CellOf(t)' = CellOf(t)
    <3> HIDE DEF L
    <3>1. e \in L
      BY <2>1
    <3> HIDE DEF e
    <3>2. (CHOOSE c \in L : heap'[c].id = t) = e
      BY <2>2, <3>1, TheCell
    <3> QED
      BY <2>3, <3>2 DEF e
  <2>5. Config(t)' = heap'[CellOf(t)]
    BY <2>4 DEF Config
  <2>6. t = s <=> CellOf(t) = k
    BY <1>2, <2>1
  <2> QED
    BY <1>3, <1>5, <2>1, <2>4, <2>5, <2>6
<1> QED
  BY <1>4, <1>5, <1>7, <1>8, <1>9

\* What append makes of the slice, whether or not the array has room.
LEMMA AppendedIs ==
  ASSUME TypeOK, ShapeInv, HasRoom(slice), NEW cfg \in SiteConfig, NEW g,
         g = Appended(heap, slice, cfg)
  PROVE  /\ g.heap \in [Cells -> SiteConfig \cup {Nil}]
         /\ g.slice \in [arr : Arrays, len : Nat] /\ g.slice.len <= Capacity[g.slice.arr]
         /\ g.slice.arr \in {slice.arr, slice.arr + 1} /\ g.slice.len = slice.len + 1
         /\ g.heap[<<g.slice.arr, g.slice.len>>] = cfg
         /\ \A i \in 1..slice.len : g.heap[<<g.slice.arr, i>>] = heap[<<slice.arr, i>>]
         /\ \A c \in Cells : c[1] <= slice.arr /\ heap[c] \in SiteConfig => g.heap[c] \in SiteConfig
<1> DEFINE a == slice.arr
           n == slice.len
<1>1. /\ a \in Arrays /\ n \in Nat /\ n <= Capacity[a] /\ slice = [arr |-> a, len |-> n]
      /\ heap \in [Cells -> SiteConfig \cup {Nil}]
  BY DEF TypeOK
<1>2. /\ a \in Nat /\ Capacity[a] \in Nat
      /\ a + 1 \in Arrays => Capacity[a + 1] \in Nat /\ Capacity[a] < Capacity[a + 1]
  BY <1>1, ArraysAre
<1>3. ASSUME NEW i \in 1..n PROVE <<a, i>> \in Cells /\ heap[<<a, i>>] \in SiteConfig
  <2>1. <<a, i>> \in Listed(heap, slice)
    BY DEF Listed
  <2>2. i \in 1..Capacity[a]
    BY <1>1, <1>2
  <2> QED
    BY <1>1, <2>1, <2>2, CellIn DEF ShapeInv
<1>4. CASE n < Capacity[a]
  <2>1. /\ g = [heap  |-> [heap EXCEPT ![<<a, n + 1>>] = cfg], slice |-> [slice EXCEPT !.len = @ + 1]]
    BY <1>4 DEF Appended
  <2>2. n + 1 \in 1..Capacity[a]
    BY <1>1, <1>2, <1>4
  <2>3. <<a, n + 1>> \in Cells
    BY <1>1, <2>2, CellIn
  <2>4. g.slice.arr = a /\ g.slice.len = n + 1 /\ g.slice \in [arr : Arrays, len : Nat]
    BY <1>1, <2>1
  <2>5. /\ g.heap \in [Cells -> SiteConfig \cup {Nil}]
        /\ \A c \in Cells : g.heap[c] = IF c = <<a, n + 1>> THEN cfg ELSE heap[c]
    BY <1>1, <2>1, <2>3
  <2>6. \A i \in 1..n : <<a, i>> # <<a, n + 1>>
    BY <1>1
  <2>7. \A i \in 1..n : g.heap[<<a, i>>] = heap[<<a, i>>]
    BY <1>3, <2>5, <2>6
  <2>8. \A c \in Cells : heap[c] \in SiteConfig => g.heap[c] \in SiteConfig
    BY <2>5
  <2>9. g.slice.len <= Capacity[g.slice.arr]
    BY <2>2, <2>4
  <2> QED
    BY <2>3, <2>4, <2>5, <2>7, <2>8, <2>9
<1>5. CASE ~ (n < Capacity[a])
  <2>1. a + 1 \in Arrays /\ n = Capacity[a]
    BY <1>1, <1>2, <1>5 DEF HasRoom
  <2>2. g = [heap  |-> [c \in Cells |->
                          IF c[1] # a + 1 THEN heap[c]
                          ELSE IF c[2] <= n THEN heap[<<a, c[2]>>]
                          ELSE IF c[2] = n + 1 THEN cfg ELSE Nil],
             slice |-> [arr |-> a + 1, len |-> n + 1]]
    BY <1>5 DEF Appended
  <2>3. /\ g.slice.arr = a + 1 /\ g.slice.len = n + 1 /\ g.slice \in [arr : Arrays, len : Nat]
        /\ n + 1 \in 1..Capacity[a + 1]
    BY <1>1, <1>2, <2>1, <2>2
  <2>4. <<a + 1, n + 1>> \in Cells
    BY <2>1, <2>3, CellIn
  <2>5. ASSUME NEW c \in Cells
        PROVE  g.heap[c] = IF c[1] # a + 1 THEN heap[c]
                           ELSE IF c[2] <= n THEN heap[<<a, c[2]>>]
                           ELSE IF c[2] = n + 1 THEN cfg ELSE Nil
    BY <2>2
  <2>6. ASSUME NEW c \in Cells PROVE g.heap[c] \in SiteConfig \cup {Nil}
    <3>1. CASE c[1] # a + 1
      BY <1>1, <2>5, <3>1
    <3>2. CASE c[1] = a + 1 /\ c[2] <= n
      <4>1. c[2] \in 1..n
        BY <1>1, <3>2, CellIs
      <4> QED
        BY <1>3, <2>5, <3>2, <4>1
    <3>3. CASE c[1] = a + 1 /\ ~ (c[2] <= n)
      BY <2>5, <3>3
    <3> QED
      BY <3>1, <3>2, <3>3
  <2>7. g.heap \in [Cells -> SiteConfig \cup {Nil}]
    BY <2>2, <2>6
  <2>8. g.heap[<<a + 1, n + 1>>] = cfg
    <3>1. ~ (n + 1 <= n)
      BY <1>1
    <3> DEFINE c == <<a + 1, n + 1>>
    <3>2. c[1] = a + 1 /\ c[2] = n + 1
      OBVIOUS
    <3> HIDE DEF c
    <3>3. g.heap[c] = cfg
      BY <2>4, <2>5, <3>1, <3>2 DEF c
    <3> QED
      BY <3>3 DEF c
  <2>9. ASSUME NEW i \in 1..n PROVE g.heap[<<a + 1, i>>] = heap[<<a, i>>]
    <3>1. i \in 1..Capacity[a + 1] /\ i <= n
      BY <1>1, <1>2, <2>1
    <3>2. <<a + 1, i>> \in Cells
      BY <2>1, <3>1, CellIn
    <3> QED
      BY <2>5, <3>1, <3>2
  <2>10. ASSUME NEW c \in Cells, c[1] <= a PROVE g.heap[c] = heap[c]
    <3>1. c[1] # a + 1
      BY <1>2, <2>10, CellIs, ArraysAre
    <3> QED
      BY <2>5, <3>1
  <2> QED
    BY <2>3, <2>7, <2>8, <2>9, <2>10
<1> QED
  BY <1>4, <1>5

\* The cells of the arrays there were, but the one the slice grows into.
LEMMA AppendKeeps ==
  ASSUME TypeOK, NEW cfg, NEW g, g = Appended(heap, slice, cfg), NEW c \in Cells,
         c[1] < slice.arr \/ (c[1] <= slice.arr /\ c[2] # slice.len + 1)
  PROVE  g.heap[c] = heap[c]
<1>1. c[1] \in Nat /\ slice.arr \in Nat /\ heap \in [Cells -> SiteConfig \cup {Nil}]
  BY CellIs, ArraysAre DEF TypeOK
<1>2. CASE slice.len < Capacity[slice.arr]
  <2>1. g.heap = [heap EXCEPT ![<<slice.arr, slice.len + 1>>] = cfg]
    BY <1>2 DEF Appended
  <2>2. c # <<slice.arr, slice.len + 1>>
    BY <1>1
  <2> QED
    BY <1>1, <2>1, <2>2
<1>3. CASE ~ (slice.len < Capacity[slice.arr])
  <2>1. g.heap = [d \in Cells |->
                    IF d[1] # slice.arr + 1 THEN heap[d]
                    ELSE IF d[2] <= slice.len THEN heap[<<slice.arr, d[2]>>]
                    ELSE IF d[2] = slice.len + 1 THEN cfg ELSE Nil]
    BY <1>3 DEF Appended
  <2>2. c[1] # slice.arr + 1
    BY <1>1
  <2> QED
    BY <2>1, <2>2
<1> QED
  BY <1>2, <1>3

\* What deleteFromSlice makes of the slice.
LEMMA DeletedIs ==
  ASSUME TypeOK, ShapeInv, NEW i \in 1..slice.len, NEW g, g = Deleted(heap, slice, i)
  PROVE  /\ g.heap \in [Cells -> SiteConfig \cup {Nil}]
         /\ g.slice \in [arr : Arrays, len : Nat] /\ g.slice.len <= Capacity[g.slice.arr]
         /\ g.slice.arr = slice.arr /\ g.slice.len = slice.len - 1
         /\ \A j \in 1..g.slice.len :
              g.heap[<<slice.arr, j>>] = heap[<<slice.arr, IF j < i THEN j ELSE j + 1>>]
         /\ \A c \in Cells : heap[c] \in SiteConfig => g.heap[c] \in SiteConfig
<1> DEFINE a == slice.arr
           n == slice.len
<1>1. /\ a \in Arrays /\ n \in Nat /\ n <= Capacity[a] /\ slice = [arr |-> a, len |-> n]
      /\ heap \in [Cells -> SiteConfig \cup {Nil}] /\ Capacity[a] \in Nat
  BY ArraysAre DEF TypeOK
<1>2. ASSUME NEW j \in 1..n PROVE <<a, j>> \in Cells /\ heap[<<a, j>>] \in SiteConfig
  <2>1. <<a, j>> \in Listed(heap, slice)
    BY DEF Listed
  <2>2. j \in 1..Capacity[a]
    BY <1>1
  <2> QED
    BY <1>1, <2>1, <2>2, CellIn DEF ShapeInv
<1>3. g = [heap  |-> [c \in Cells |->
                        IF c[1] = a /\ c[2] \in i..(n - 1) THEN heap[<<c[1], c[2] + 1>>] ELSE heap[c]],
           slice |-> [slice EXCEPT !.len = @ - 1]]
  BY DEF Deleted
<1>4. g.slice.arr = a /\ g.slice.len = n - 1 /\ n - 1 \in Nat /\ g.slice \in [arr : Arrays, len : Nat]
      /\ n - 1 <= Capacity[a]
  BY <1>1, <1>3
<1>5. ASSUME NEW c \in Cells
      PROVE  g.heap[c] = IF c[1] = a /\ c[2] \in i..(n - 1) THEN heap[<<a, c[2] + 1>>] ELSE heap[c]
  BY <1>3
<1>6. ASSUME NEW c \in Cells
      PROVE  /\ g.heap[c] \in SiteConfig \cup {Nil}
             /\ heap[c] \in SiteConfig => g.heap[c] \in SiteConfig
  <2>1. CASE c[1] = a /\ c[2] \in i..(n - 1)
    <3>1. c[2] + 1 \in 1..n
      BY <1>1, <2>1
    <3> QED
      BY <1>2, <1>5, <2>1, <3>1
  <2>2. CASE ~ (c[1] = a /\ c[2] \in i..(n - 1))
    BY <1>1, <1>5, <2>2
  <2> QED
    BY <2>1, <2>2
<1>7. g.heap \in [Cells -> SiteConfig \cup {Nil}]
  BY <1>3, <1>6
<1>8. ASSUME NEW j \in 1..(n - 1)
      PROVE  g.heap[<<a, j>>] = heap[<<a, IF j < i THEN j ELSE j + 1>>]
  <2>1. <<a, j>> \in Cells
    BY <1>1, <1>2
  <2>2. j \in i..(n - 1) <=> ~ (j < i)
    BY <1>1
  <2> QED
    BY <1>5, <2>1, <2>2
<1> QED
  BY <1>4, <1>6, <1>7, <1>8

-----------------------------------------------------------------------------
(* The router.                                                              *)

RouterType == [hosts : [Domains -> VirtualHost \cup {Nil}], default : VirtualHost \cup {Nil}]

LEMMA RouterIs ==
  ASSUME TypeOK
  PROVE  Router \in RouterType /\ Router.hosts = hosts /\ Router.default = defaultHost
BY DEF TypeOK, RouterType, Router

LEMMA RouterSet ==
  ASSUME NEW r \in RouterType, SetRouter(r)
  PROVE  /\ hosts' = r.hosts /\ defaultHost' = r.default
         /\ hosts' \in [Domains -> VirtualHost \cup {Nil}] /\ defaultHost' \in VirtualHost \cup {Nil}
BY DEF SetRouter, RouterType

LEMMA AddHostIs ==
  ASSUME NEW r \in RouterType, NEW hp, NEW ptr \in Pointer, Deref(hp, ptr) \in SiteConfig
  PROVE  LET vh == [config |-> ptr, handler |-> Deref(hp, ptr).id]
         IN /\ AddHost(r, hp, ptr) \in RouterType /\ vh \in VirtualHost /\ vh # Nil
            /\ vh.config = ptr /\ vh.handler = Deref(hp, ptr).id
            /\ \A d \in Domains :
                 AddHost(r, hp, ptr).hosts[d] =
                   IF d \in Deref(hp, ptr).domains THEN vh ELSE r.hosts[d]
            /\ AddHost(r, hp, ptr).default =
                 IF r.default = Nil /\ Deref(hp, ptr).on THEN vh ELSE r.default
<1> DEFINE cfg == Deref(hp, ptr)
           vh  == [config |-> ptr, handler |-> cfg.id]
           new == AddHost(r, hp, ptr)
<1>1. cfg.id \in Sites
  BY DEF SiteConfig
<1>2. vh \in VirtualHost /\ vh # Nil
  BY <1>1, HostIs
<1>3. new = [hosts   |-> [d \in Domains |-> IF d \in cfg.domains THEN vh ELSE r.hosts[d]],
             default |-> IF r.default = Nil /\ cfg.on THEN vh ELSE r.default]
  BY DEF AddHost
<1>4. vh.config = ptr /\ vh.handler = cfg.id
  OBVIOUS
<1> HIDE DEF vh, cfg, new
<1>5. new \in RouterType
  BY <1>2, <1>3 DEF RouterType
<1>6. /\ \A d \in Domains : new.hosts[d] = IF d \in cfg.domains THEN vh ELSE r.hosts[d]
      /\ new.default = IF r.default = Nil /\ cfg.on THEN vh ELSE r.default
  BY <1>3
<1> QED
  BY <1>2, <1>4, <1>5, <1>6 DEF vh, cfg, new

\* What is removed, what is kept, and what becomes the default host.
LEMMA RemoveHostIs ==
  ASSUME NEW r \in RouterType, NEW hp, NEW s, NEW q \in RemoveHost(r, hp, s)
  PROVE  /\ q \in RouterType
         /\ \A d \in Domains : q.hosts[d] = IF Is(r.hosts[d], hp, s) THEN Nil ELSE r.hosts[d]
         /\ ~ Is(r.default, hp, s) => q.default = r.default
         /\ Is(r.default, hp, s) =>
              \/ q.default = Nil /\ \A d \in Domains : ~ IsOn(q.hosts[d], hp)
              \/ \E d \in Domains : q.default = q.hosts[d] /\ IsOn(q.hosts[d], hp)
<1> DEFINE kept   == [d \in Domains |-> IF Is(r.hosts[d], hp, s) THEN Nil ELSE r.hosts[d]]
           others == {kept[d] : d \in {e \in Domains : IsOn(kept[e], hp)}}
<1>1. PICK x \in (IF ~ Is(r.default, hp, s) THEN {r.default}
                  ELSE IF others = {} THEN {Nil} ELSE others) :
        q = [hosts |-> kept, default |-> x]
  BY DEF RemoveHost
<1>2. q.hosts = kept /\ q.default = x
  BY <1>1
<1>3. kept \in [Domains -> VirtualHost \cup {Nil}]
  BY DEF RouterType
<1>4. \A d \in Domains : kept[d] = IF Is(r.hosts[d], hp, s) THEN Nil ELSE r.hosts[d]
  OBVIOUS
<1> HIDE DEF kept
<1>5. CASE ~ Is(r.default, hp, s)
  BY <1>1, <1>2, <1>3, <1>4, <1>5 DEF RouterType
<1>6. CASE Is(r.default, hp, s) /\ others = {}
  <2>1. x = Nil /\ \A d \in Domains : ~ IsOn(kept[d], hp)
    BY <1>1, <1>6
  <2> QED
    BY <1>1, <1>2, <1>3, <1>4, <1>6, <2>1 DEF RouterType
<1>7. CASE Is(r.default, hp, s) /\ others # {}
  <2>1. PICK d \in Domains : x = kept[d] /\ IsOn(kept[d], hp)
    BY <1>1, <1>7
  <2> QED
    BY <1>1, <1>2, <1>3, <1>4, <1>7, <2>1 DEF RouterType
<1> QED
  BY <1>5, <1>6, <1>7

\* The hosts the start of the service adds are those of enabled sites of the slice.
LEMMA AddEnabledIs ==
  ASSUME NEW r \in RouterType, NEW hp, NEW sl \in [arr : Arrays, len : Nat],
         sl.len <= Capacity[sl.arr],
         \A c \in Listed(hp, sl) : hp[c] \in SiteConfig
  PROVE  /\ AddEnabled(r, hp, sl) \in RouterType
         /\ \A d \in Domains :
              LET old == r.hosts[d]
                  new == AddEnabled(r, hp, sl).hosts[d]
              IN \/ /\ new = old
                    /\ \A c \in Listed(hp, sl) : ~ (hp[c].on /\ d \in hp[c].domains)
                 \/ \E c \in Listed(hp, sl) : hp[c].on /\ d \in hp[c].domains /\ new = HostOf(hp, c)
         /\ \/ /\ AddEnabled(r, hp, sl).default = r.default
               /\ r.default # Nil \/ \A c \in Listed(hp, sl) : ~ hp[c].on
            \/ \E c \in Listed(hp, sl) : hp[c].on /\ AddEnabled(r, hp, sl).default = HostOf(hp, c)
<1> DEFINE L == Listed(hp, sl)
           on == Enabled(hp, sl)
           claims(d) == {i \in on : d \in hp[<<sl.arr, i>>].domains}
           new == AddEnabled(r, hp, sl)
<1>1. sl.len \in Nat /\ on \in SUBSET (1..sl.len) /\ on \in SUBSET Nat
  BY DEF Enabled
<1>2. ASSUME NEW c \in L PROVE c[2] \in 1..sl.len /\ c = <<sl.arr, c[2]>>
  BY ListedAreCells
<1>3. \A i \in 1..sl.len : <<sl.arr, i>> \in L
  BY DEF Listed
<1>4. \A i \in on : <<sl.arr, i>> \in L /\ hp[<<sl.arr, i>>].on
  BY <1>1, <1>3 DEF Enabled
<1>5. ASSUME NEW c \in L PROVE HostOf(hp, c) \in VirtualHost
  <2>1. c \in Cells /\ hp[c].id \in Sites
    BY ListedAreCells DEF SiteConfig
  <2> QED
    BY <2>1, PointsTo, HostIs DEF HostOf
<1>6. new = [hosts   |-> [d \in Domains |-> IF claims(d) = {} THEN r.hosts[d]
                                            ELSE HostOf(hp, <<sl.arr, Greatest(claims(d))>>)],
             default |-> IF r.default = Nil /\ on # {}
                         THEN HostOf(hp, <<sl.arr, Least(on)>>) ELSE r.default]
  BY DEF AddEnabled
<1>7. ASSUME NEW d \in Domains
      PROVE  \/ /\ new.hosts[d] = r.hosts[d]
                /\ \A c \in L : ~ (hp[c].on /\ d \in hp[c].domains)
             \/ \E c \in L : hp[c].on /\ d \in hp[c].domains /\ new.hosts[d] = HostOf(hp, c)
  <2>1. CASE claims(d) = {}
    <3>1. new.hosts[d] = r.hosts[d]
      BY <1>6, <2>1
    <3>2. ASSUME NEW c \in L, hp[c].on, d \in hp[c].domains PROVE FALSE
      <4>1. c[2] \in claims(d)
        BY <1>2, <3>2 DEF Enabled
      <4> QED
        BY <2>1, <4>1
    <3> QED
      BY <3>1, <3>2
  <2>2. CASE claims(d) # {}
    <3> DEFINE C == claims(d)
               g == Greatest(C)
    <3>1. C \in SUBSET (1..sl.len)
      BY <1>1
    <3>2. g \in C
      <4> HIDE DEF C
      <4> QED
        BY <1>1, <2>2, <3>1, GreatestIsThere DEF C
    <3>3. new.hosts[d] = HostOf(hp, <<sl.arr, g>>)
      <4> HIDE DEF HostOf
      <4>1. new.hosts = [e \in Domains |-> IF claims(e) = {} THEN r.hosts[e]
                                           ELSE HostOf(hp, <<sl.arr, Greatest(claims(e))>>)]
        BY <1>6
      <4>2. new.hosts[d] = IF claims(d) = {} THEN r.hosts[d]
                           ELSE HostOf(hp, <<sl.arr, Greatest(claims(d))>>)
        BY <4>1, Zenon
      <4> QED
        BY <2>2, <4>2, Zenon
    <3>4. g \in on /\ d \in hp[<<sl.arr, g>>].domains
      BY <3>2
    <3> HIDE DEF g
    <3> QED
      BY <1>4, <3>3, <3>4
  <2> QED
    BY <2>1, <2>2
<1>8. \/ /\ new.default = r.default
         /\ r.default # Nil \/ \A c \in L : ~ hp[c].on
      \/ \E c \in L : hp[c].on /\ new.default = HostOf(hp, c)
  <2>1. CASE r.default = Nil /\ on # {}
    <3>1. new.default = HostOf(hp, <<sl.arr, Least(on)>>)
      BY <1>6, <2>1
    <3>2. Least(on) \in on
      BY <1>1, <2>1, LeastIsThere
    <3> QED
      BY <1>4, <3>1, <3>2
  <2>2. CASE r.default = Nil /\ on = {}
    <3>1. new.default = r.default
      BY <1>6, <2>2
    <3>2. ASSUME NEW c \in L, hp[c].on PROVE FALSE
      <4>1. c[2] \in on
        BY <1>2, <3>2 DEF Enabled
      <4> QED
        BY <2>2, <4>1
    <3> QED
      BY <3>1, <3>2
  <2>3. CASE r.default # Nil
    BY <1>6, <2>3
  <2> QED
    BY <2>1, <2>2, <2>3
<1>9. new \in RouterType
  <2>1. new.hosts \in [Domains -> VirtualHost \cup {Nil}]
    <3>1. ASSUME NEW d \in Domains PROVE new.hosts[d] \in VirtualHost \cup {Nil}
      BY <1>5, <1>7 DEF RouterType
    <3>2. new.hosts = [d \in Domains |-> new.hosts[d]]
      BY <1>6
    <3> HIDE DEF new
    <3> QED
      BY <3>1, <3>2
  <2>2. new.default \in VirtualHost \cup {Nil}
    BY <1>5, <1>8 DEF RouterType
  <2>3. new = [hosts |-> new.hosts, default |-> new.default]
    BY <1>6
  <2> HIDE DEF new
  <2> QED
    BY <2>1, <2>2, <2>3 DEF RouterType
<1> QED
  BY <1>7, <1>8, <1>9

-----------------------------------------------------------------------------
(* How the slice changes.                                                   *)

LEMMA GrownIs ==
  ASSUME TypeOK, ShapeInv, HasRoom(slice), NEW cfg \in SiteConfig, cfg.id \notin Configured,
         heap' = Appended(heap, slice, cfg).heap, slice' = Appended(heap, slice, cfg).slice
  PROVE  /\ heap' \in [Cells -> SiteConfig \cup {Nil}]
         /\ slice' \in [arr : Arrays, len : Nat] /\ slice'.len <= Capacity[slice'.arr]
         /\ ShapeInv'
         /\ Configured' = Configured \cup {cfg.id}
         /\ Config(cfg.id)' = cfg /\ \A s \in Configured : Config(s)' = Config(s)
         /\ \A c \in Listed(heap, slice)' : heap'[c] = cfg \/ \E e \in Listed(heap, slice) : heap'[c] = heap[e]
         /\ \A c \in Cells : c[1] <= slice.arr /\ heap[c] \in SiteConfig =>
                               c[1] <= slice'.arr /\ heap'[c] \in SiteConfig
         /\ \A c \in Cells : c[1] < slice.arr \/ c \in Listed(heap, slice) =>
                               /\ heap'[c] = heap[c]
                               /\ c[1] < slice'.arr \/ c \in Listed(heap, slice)'
<1> DEFINE a == slice.arr
           n == slice.len
           b == slice'.arr
           L == Listed(heap, slice)
           M == Listed(heap, slice)'
<1>1. /\ heap' \in [Cells -> SiteConfig \cup {Nil}]
      /\ slice' \in [arr : Arrays, len : Nat] /\ slice'.len <= Capacity[slice'.arr]
      /\ b \in {a, a + 1} /\ slice'.len = n + 1
      /\ heap'[<<b, n + 1>>] = cfg
      /\ \A i \in 1..n : heap'[<<b, i>>] = heap[<<a, i>>]
      /\ \A c \in Cells : c[1] <= a /\ c[2] # n + 1 => heap'[c] = heap[c]
      /\ \A c \in Cells : c[1] < a => heap'[c] = heap[c]
      /\ \A c \in Cells : c[1] <= a /\ heap[c] \in SiteConfig => heap'[c] \in SiteConfig
  <2> DEFINE g == Appended(heap, slice, cfg)
  <2>1. g.heap = heap' /\ g.slice = slice'
    OBVIOUS
  <2>2. g = Appended(heap, slice, cfg)
    OBVIOUS
  <2> HIDE DEF g
  <2>3. g.slice.len = n + 1 /\ g.slice.arr \in {a, a + 1}
    BY <2>2, AppendedIs
  <2>4. /\ g.heap \in [Cells -> SiteConfig \cup {Nil}]
        /\ g.slice \in [arr : Arrays, len : Nat] /\ g.slice.len <= Capacity[g.slice.arr]
        /\ g.heap[<<g.slice.arr, g.slice.len>>] = cfg
        /\ \A i \in 1..n : g.heap[<<g.slice.arr, i>>] = heap[<<a, i>>]
    BY <2>2, AppendedIs
  <2>5. \A c \in Cells : c[1] < a => g.heap[c] = heap[c]
    BY <2>2, AppendKeeps
  <2>7. \A c \in Cells : c[1] <= a /\ c[2] # n + 1 => g.heap[c] = heap[c]
    BY <2>2, AppendKeeps
  <2>6. \A c \in Cells : c[1] <= a /\ heap[c] \in SiteConfig => g.heap[c] \in SiteConfig
    BY <2>2, AppendedIs
  <2> QED
    BY <2>1, <2>3, <2>4, <2>5, <2>6, <2>7
<1>2. a \in Arrays /\ n \in Nat /\ a \in Nat /\ b \in Nat /\ n <= Capacity[a]
  BY <1>1, ArraysAre DEF TypeOK
<1>3. L = {<<a, i>> : i \in 1..n} /\ M = {<<b, i>> : i \in 1..(n + 1)}
  BY <1>1 DEF Listed
<1>4. /\ \A i \in 1..n : <<a, i>> \in L /\ heap[<<a, i>>] \in SiteConfig
      /\ \A i, j \in 1..n : heap[<<a, i>>].id = heap[<<a, j>>].id => i = j
      /\ \A i \in 1..n : heap[<<a, i>>].id \in Configured
  <2>1. \A i \in 1..n : <<a, i>> \in L
    BY <1>3
  <2>2. ASSUME NEW i \in 1..n, NEW j \in 1..n, heap[<<a, i>>].id = heap[<<a, j>>].id PROVE i = j
    <3>1. <<a, i>> = <<a, j>>
      BY <2>1, <2>2 DEF ShapeInv
    <3> QED
      BY <3>1
  <2> QED
    BY <2>1, <2>2 DEF ShapeInv, Configured
<1>5. /\ \A i \in 1..n : heap'[<<b, i>>] = heap[<<a, i>>]
      /\ heap'[<<b, n + 1>>] = cfg
      /\ \A i \in 1..(n + 1) : i \in 1..n \/ i = n + 1
      /\ n + 1 \in 1..(n + 1) /\ 1..n \subseteq 1..(n + 1)
  BY <1>1, <1>2
<1>6. ASSUME NEW i \in 1..(n + 1), NEW j \in 1..(n + 1), heap'[<<b, i>>].id = heap'[<<b, j>>].id
      PROVE  i = j
  <2>1. cfg.id \notin Configured
    OBVIOUS
  <2>2. CASE i \in 1..n /\ j \in 1..n
    BY <1>4, <1>5, <1>6, <2>2
  <2>3. CASE i \in 1..n /\ j = n + 1
    BY <1>4, <1>5, <1>6, <2>1, <2>3
  <2>4. CASE i = n + 1 /\ j \in 1..n
    BY <1>4, <1>5, <1>6, <2>1, <2>4
  <2>5. CASE i = n + 1 /\ j = n + 1
    BY <2>5
  <2> QED
    BY <1>5, <2>2, <2>3, <2>4, <2>5
<1>8. ShapeInv'
  <2>1. ASSUME NEW c \in M PROVE heap'[c] \in SiteConfig
    <3>1. PICK i \in 1..(n + 1) : c = <<b, i>>
      BY <1>3
    <3> QED
      BY <1>4, <1>5, <3>1
  <2>2. ASSUME NEW c \in M, NEW e \in M, heap'[c].id = heap'[e].id PROVE c = e
    <3>1. PICK i \in 1..(n + 1) : c = <<b, i>>
      BY <1>3
    <3>2. PICK j \in 1..(n + 1) : e = <<b, j>>
      BY <1>3
    <3>3. i = j
      BY <1>6, <2>2, <3>1, <3>2
    <3> QED
      BY <3>1, <3>2, <3>3
  <2> QED
    BY <2>1, <2>2 DEF ShapeInv
<1>9. Configured' = Configured \cup {cfg.id}
  <2>1. Configured' = {heap'[c].id : c \in M}
    BY DEF Configured
  <2>2. Configured = {heap[c].id : c \in L}
    BY DEF Configured
  <2>3. ASSUME NEW s \in Configured' PROVE s \in Configured \cup {cfg.id}
    <3>1. PICK c \in M : s = heap'[c].id
      BY <2>1, <2>3
    <3>2. PICK i \in 1..(n + 1) : c = <<b, i>>
      BY <1>3
    <3> QED
      BY <1>4, <1>5, <3>1, <3>2
  <2>4. ASSUME NEW i \in 1..(n + 1) PROVE heap'[<<b, i>>].id \in Configured'
    BY <1>3, <2>1
  <2>5. ASSUME NEW s \in Configured PROVE s \in Configured'
    <3>1. PICK i \in 1..n : s = heap[<<a, i>>].id
      BY <1>3, <2>2, <2>5
    <3> QED
      BY <1>5, <2>4, <3>1
  <2> QED
    BY <1>5, <2>3, <2>4, <2>5
<1>10. ASSUME NEW s, NEW i \in 1..(n + 1), heap'[<<b, i>>].id = s
       PROVE  Config(s)' = heap'[<<b, i>>]
  <2> DEFINE c == <<b, i>>
  <2>1. c \in M /\ heap'[c].id = s
    BY <1>3, <1>10
  <2>2. ASSUME NEW e \in M, heap'[e].id = s PROVE e = c
    <3>1. PICK j \in 1..(n + 1) : e = <<b, j>>
      BY <1>3
    <3>2. i = j
      BY <1>6, <1>10, <2>2, <3>1
    <3> QED
      BY <3>1, <3>2
  <2>3. CellOf(s)' = CHOOSE e \in M : heap'[e].id = s
    BY DEF CellOf
  <2> HIDE DEF c, M
  <2>4. (CHOOSE e \in M : heap'[e].id = s) = c
    BY <2>1, <2>2, TheCell
  <2> QED
    BY <2>3, <2>4 DEF Config, c
<1>11. Config(cfg.id)' = cfg
  <2>1. heap'[<<b, n + 1>>].id = cfg.id /\ n + 1 \in 1..(n + 1)
    BY <1>5
  <2> QED
    BY <1>5, <1>10, <2>1
<1>12. ASSUME NEW s \in Configured PROVE Config(s)' = Config(s)
  <2>1. CellOf(s) \in L /\ heap[CellOf(s)].id = s /\ Config(s) = heap[CellOf(s)]
    BY CellOfIs
  <2>2. PICK i \in 1..n : CellOf(s) = <<a, i>>
    BY <1>3, <2>1
  <2>3. heap'[<<b, i>>] = Config(s) /\ heap'[<<b, i>>].id = s /\ i \in 1..(n + 1)
    BY <1>5, <2>1, <2>2
  <2> QED
    BY <1>10, <2>3
<1>13. ASSUME NEW c \in M PROVE heap'[c] = cfg \/ \E e \in L : heap'[c] = heap[e]
  <2>1. PICK i \in 1..(n + 1) : c = <<b, i>>
    BY <1>3
  <2>2. CASE i = n + 1
    BY <1>5, <2>1, <2>2
  <2>3. CASE i \in 1..n
    BY <1>4, <1>5, <2>1, <2>3
  <2> QED
    BY <1>5, <2>2, <2>3
<1>14. \A c \in Cells : c[1] <= a /\ heap[c] \in SiteConfig => c[1] <= b /\ heap'[c] \in SiteConfig
  BY <1>1, <1>2, CellIs, ArraysAre
<1>15. ASSUME NEW c \in Cells, c[1] < a \/ c \in L
       PROVE  heap'[c] = heap[c] /\ (c[1] < b \/ c \in M)
  <2>1. c[1] \in Nat
    BY CellIs, ArraysAre
  <2>2. CASE c[1] < a
    BY <1>1, <1>2, <2>1, <2>2
  <2>3. CASE c \in L
    <3>1. c[1] = a /\ c[2] # n + 1 /\ (b = a => c \in M)
      BY <1>2, <1>3, <2>3
    <3> QED
      BY <1>1, <1>2, <2>1, <3>1
  <2> QED
    BY <1>15, <2>2, <2>3
<1> QED
  BY <1>1, <1>8, <1>9, <1>11, <1>12, <1>13, <1>14, <1>15

LEMMA ShrunkIs ==
  ASSUME TypeOK, ShapeInv, NEW i \in 1..slice.len,
         heap' = Deleted(heap, slice, i).heap, slice' = Deleted(heap, slice, i).slice
  PROVE  /\ heap' \in [Cells -> SiteConfig \cup {Nil}]
         /\ slice' \in [arr : Arrays, len : Nat] /\ slice'.len <= Capacity[slice'.arr]
         /\ slice'.arr = slice.arr /\ ShapeInv'
         /\ \A c \in Cells : heap[c] \in SiteConfig => heap'[c] \in SiteConfig
<1> DEFINE a == slice.arr
           n == slice.len
           M == Listed(heap, slice)'
           at(j) == IF j < i THEN j ELSE j + 1
<1>1. /\ heap' \in [Cells -> SiteConfig \cup {Nil}]
      /\ slice' \in [arr : Arrays, len : Nat] /\ slice'.len <= Capacity[slice'.arr]
      /\ slice'.arr = a /\ slice'.len = n - 1
      /\ \A j \in 1..slice'.len : heap'[<<a, j>>] = heap[<<a, at(j)>>]
      /\ \A c \in Cells : heap[c] \in SiteConfig => heap'[c] \in SiteConfig
  <2> DEFINE g == Deleted(heap, slice, i)
  <2>1. g.heap = heap' /\ g.slice = slice' /\ g = Deleted(heap, slice, i)
    OBVIOUS
  <2> HIDE DEF g
  <2> QED
    BY <2>1, DeletedIs
<1>2. n \in Nat /\ \A j \in 1..(n - 1) : at(j) \in 1..n
  BY DEF TypeOK
<1>3. \A j, k \in 1..(n - 1) : at(j) = at(k) => j = k
  BY <1>2
<1>4. ASSUME NEW j \in 1..n PROVE <<a, j>> \in Listed(heap, slice)
  BY DEF Listed
<1> HIDE DEF at
<1>5. M = {<<a, j>> : j \in 1..(n - 1)}
  BY <1>1 DEF Listed
<1>6. \A c \in M : c = <<a, c[2]>> /\ c[2] \in 1..(n - 1)
  BY <1>5
<1>7. \A c \in M : heap'[c] = heap[<<a, at(c[2])>>] /\ <<a, at(c[2])>> \in Listed(heap, slice)
  BY <1>1, <1>2, <1>4, <1>6
<1>8. ShapeInv'
  <2>1. \A c \in M : heap'[c] \in SiteConfig
    BY <1>7 DEF ShapeInv
  <2>2. ASSUME NEW c \in M, NEW e \in M, heap'[c].id = heap'[e].id PROVE c = e
    <3> DEFINE p == <<a, at(c[2])>>
               q == <<a, at(e[2])>>
    <3>0. p \in Listed(heap, slice) /\ q \in Listed(heap, slice) /\ heap[p].id = heap[q].id
      BY <1>7, <2>2
    <3> HIDE DEF p, q
    <3>4. p = q
      BY <3>0 DEF ShapeInv
    <3>1. <<a, at(c[2])>> = <<a, at(e[2])>>
      BY <3>4 DEF p, q
    <3>2. at(c[2]) = at(e[2])
      BY <3>1
    <3>3. c[2] = e[2]
      BY <1>3, <1>6, <3>2
    <3> QED
      BY <1>6, <3>3
  <2> QED
    BY <2>1, <2>2 DEF ShapeInv
<1> QED
  BY <1>1, <1>8

-----------------------------------------------------------------------------
(* The types.                                                               *)

\* A cell gets another configuration of the same site, wherever the cell is.
LEMMA RewrittenIs ==
  ASSUME TypeOK, ShapeInv, NEW c \in Cells, heap[c] \in SiteConfig, NEW x \in SiteConfig,
         x.id = heap[c].id, heap' = [heap EXCEPT ![c] = x], slice' = slice
  PROVE  /\ heap' \in [Cells -> SiteConfig \cup {Nil}] /\ ShapeInv'
         /\ Configured' = Configured
         /\ \A e \in Cells : e[1] <= slice.arr /\ heap[e] \in SiteConfig =>
                               e[1] <= slice'.arr /\ heap'[e] \in SiteConfig
<1>1. /\ heap' \in [Cells -> SiteConfig \cup {Nil}]
      /\ \A e \in Cells : heap'[e] = IF e = c THEN x ELSE heap[e]
  BY DEF TypeOK
<1> DEFINE L == Listed(heap, slice)
<1>2. Listed(heap, slice)' = L /\ L \subseteq Cells
  BY ListedAreCells DEF Listed, TypeOK
<1>3. \A e \in L : heap'[e].id = heap[e].id /\ heap'[e] \in SiteConfig
  BY <1>1, <1>2 DEF ShapeInv
<1>4. ShapeInv'
  <2>1. \A d, e \in L : heap[d].id = heap[e].id => d = e
    BY DEF ShapeInv
  <2>2. \A d, e \in L : heap'[d].id = heap'[e].id => d = e
    BY <1>3, <2>1
  <2> HIDE DEF L
  <2> QED
    BY <1>2, <1>3, <2>2 DEF ShapeInv
<1>5. Configured' = Configured
  BY <1>2, <1>3 DEF Configured
<1> QED
  BY <1>1, <1>4, <1>5

LEMMA Turned ==
  ASSUME NEW x \in SiteConfig, NEW v \in BOOLEAN
  PROVE  /\ [x EXCEPT !.on = v] \in SiteConfig /\ [x EXCEPT !.on = v].id = x.id
         /\ [x EXCEPT !.on = v].on = v /\ [x EXCEPT !.on = v].domains = x.domains
BY DEF SiteConfig

LEMMA BeginIs ==
  ASSUME NEW op \in {"create", "update", "enable", "disable", "delete"}, NEW s \in Sites,
         NEW arg \in SiteConfig \cup {Nil}, Begin(op, s, arg)
  PROVE  /\ hreq' \in [op   : {"none", "create", "update", "enable", "disable", "delete"},
                       site : Sites \cup {Nil}, arg  : SiteConfig \cup {Nil}]
         /\ hreq'.op = op /\ hreq'.site = s /\ hreq'.arg = arg /\ hreq.op = "none"
         /\ hosts' = hosts /\ defaultHost' = defaultHost /\ action' = action /\ env' = env
BY DEF Begin, router, NoRequest

LEMMA ActionKept ==
  ASSUME ActionInv, action' = action,
         \A c \in Cells : c[1] <= slice.arr /\ heap[c] \in SiteConfig =>
                            c[1] <= slice'.arr /\ heap'[c] \in SiteConfig
  PROVE  ActionInv'
BY DEF ActionInv

\* What a request that has begun has changed keeps the types.
LEMMA BegunTyped ==
  ASSUME TypeInv, NEW op \in {"create", "update", "enable", "disable", "delete"}, NEW s \in Sites,
         NEW arg \in SiteConfig \cup {Nil}, Begin(op, s, arg),
         heap' \in [Cells -> SiteConfig \cup {Nil}],
         slice' \in [arr : Arrays, len : Nat], slice'.len <= Capacity[slice'.arr], ShapeInv',
         op \in {"update", "enable"} => s \in Configured',
         op = "create" => arg \in SiteConfig,
         \A c \in Cells : c[1] <= slice.arr /\ heap[c] \in SiteConfig =>
                            c[1] <= slice'.arr /\ heap'[c] \in SiteConfig
  PROVE  TypeInv'
<1>1. /\ hreq' \in [op   : {"none", "create", "update", "enable", "disable", "delete"},
                    site : Sites \cup {Nil}, arg  : SiteConfig \cup {Nil}]
      /\ hreq'.op = op /\ hreq'.site = s /\ hreq'.arg = arg
      /\ hosts' = hosts /\ defaultHost' = defaultHost /\ action' = action /\ env' = env
  BY BeginIs
<1>2. TypeOK'
  BY <1>1 DEF TypeOK, TypeInv
<1>3. RequestInv'
  BY <1>1 DEF RequestInv
<1>4. ActionInv'
  BY <1>1, ActionKept DEF TypeInv
<1> QED
  BY <1>2, <1>3, <1>4 DEF TypeInv

LEMMA CreateSiteTyped ==
  ASSUME TypeInv, NEW cfg \in Inputs, CreateSite(cfg)
  PROVE  TypeInv'
<1>1. /\ cfg \in SiteConfig /\ cfg.id \in Sites /\ cfg.id \notin Configured /\ HasRoom(slice)
      /\ heap' = Appended(heap, slice, cfg).heap /\ slice' = Appended(heap, slice, cfg).slice
      /\ Begin("create", cfg.id, cfg)
  BY VhostRoutingAssumption DEF CreateSite, SiteConfig
<1>2. /\ heap' \in [Cells -> SiteConfig \cup {Nil}]
      /\ slice' \in [arr : Arrays, len : Nat] /\ slice'.len <= Capacity[slice'.arr]
      /\ ShapeInv'
      /\ \A c \in Cells : c[1] <= slice.arr /\ heap[c] \in SiteConfig =>
                            c[1] <= slice'.arr /\ heap'[c] \in SiteConfig
  BY <1>1, GrownIs DEF TypeInv
<1> QED
  BY <1>1, <1>2, BegunTyped

LEMMA UpdateSiteTyped ==
  ASSUME TypeInv, NEW cfg \in Inputs, UpdateSite(cfg)
  PROVE  TypeInv'
<1>1. /\ cfg \in SiteConfig /\ cfg.id \in Sites /\ cfg.id \in Configured
      /\ heap' = [heap EXCEPT ![CellOf(cfg.id)] = cfg] /\ slice' = slice
      /\ Begin("update", cfg.id, Nil)
  BY VhostRoutingAssumption DEF UpdateSite, SiteConfig
<1>2. /\ CellOf(cfg.id) \in Cells /\ heap[CellOf(cfg.id)].id = cfg.id
      /\ heap[CellOf(cfg.id)] \in SiteConfig
  BY <1>1, CellOfIs DEF TypeInv
<1>3. /\ heap' \in [Cells -> SiteConfig \cup {Nil}] /\ ShapeInv' /\ Configured' = Configured
      /\ \A e \in Cells : e[1] <= slice.arr /\ heap[e] \in SiteConfig =>
                            e[1] <= slice'.arr /\ heap'[e] \in SiteConfig
  BY <1>1, <1>2, RewrittenIs DEF TypeInv
<1>4. slice' \in [arr : Arrays, len : Nat] /\ slice'.len <= Capacity[slice'.arr]
  BY <1>1 DEF TypeInv, TypeOK
<1> QED
  BY <1>1, <1>3, <1>4, BegunTyped

LEMMA ToggleTyped ==
  ASSUME TypeInv, NEW op \in {"enable", "disable"}, NEW s \in Sites, Toggle(op, s)
  PROVE  TypeInv'
<1>1. /\ s \in Configured /\ slice' = slice /\ Begin(op, s, Nil)
      /\ heap' = [heap EXCEPT ![CellOf(s)].on = (op = "enable")]
  BY DEF Toggle
<1>2. CellOf(s) \in Cells /\ heap[CellOf(s)].id = s /\ heap[CellOf(s)] \in SiteConfig
  BY <1>1, CellOfIs DEF TypeInv
<1> DEFINE c == CellOf(s)
           x == [heap[c] EXCEPT !.on = (op = "enable")]
<1>3. x \in SiteConfig /\ x.id = heap[c].id
  BY <1>2, Turned
<1>4. heap' = [heap EXCEPT ![c] = x]
  BY <1>1, <1>2 DEF TypeInv, TypeOK
<1> HIDE DEF c, x
<1>5. /\ heap' \in [Cells -> SiteConfig \cup {Nil}] /\ ShapeInv' /\ Configured' = Configured
      /\ \A e \in Cells : e[1] <= slice.arr /\ heap[e] \in SiteConfig =>
                            e[1] <= slice'.arr /\ heap'[e] \in SiteConfig
  <2>1. c \in Cells /\ heap[c] \in SiteConfig
    BY <1>2 DEF c
  <2> QED
    BY <1>1, <1>3, <1>4, <2>1, RewrittenIs DEF TypeInv
<1>6. slice' \in [arr : Arrays, len : Nat] /\ slice'.len <= Capacity[slice'.arr]
  BY <1>1 DEF TypeInv, TypeOK
<1> QED
  BY <1>1, <1>5, <1>6, BegunTyped

LEMMA DeleteSiteTyped ==
  ASSUME TypeInv, NEW s \in Sites, DeleteSite(s)
  PROVE  TypeInv'
<1> DEFINE i == CellOf(s)[2]
<1>1. /\ s \in Configured /\ Begin("delete", s, Nil)
      /\ heap' = Deleted(heap, slice, i).heap /\ slice' = Deleted(heap, slice, i).slice
  BY DEF DeleteSite
<1>2. CellOf(s) \in Listed(heap, slice)
  BY <1>1, CellOfIs DEF TypeInv
<1>3. i \in 1..slice.len
  BY <1>2, ListedAreCells DEF TypeInv, TypeOK
<1> HIDE DEF i
<1>4. /\ heap' \in [Cells -> SiteConfig \cup {Nil}]
      /\ slice' \in [arr : Arrays, len : Nat] /\ slice'.len <= Capacity[slice'.arr]
      /\ slice'.arr = slice.arr /\ ShapeInv'
      /\ \A c \in Cells : heap[c] \in SiteConfig => heap'[c] \in SiteConfig
  BY <1>1, <1>3, ShrunkIs DEF TypeInv
<1> QED
  BY <1>1, <1>4, BegunTyped

\* The other steps leave the slice where it is.
LEMMA LocateTyped ==
  ASSUME TypeInv, NEW op \in {"start", "stop"}, NEW s \in Sites, Locate(op, s)
  PROVE  TypeInv'
<1>1. /\ s \in Configured /\ action' = [op |-> op, site |-> s, config |-> AtCell(CellOf(s))]
      /\ heap' = heap /\ slice' = slice /\ hosts' = hosts /\ defaultHost' = defaultHost
      /\ hreq' = hreq /\ env' = env
  BY DEF Locate, router
<1>2. CellOf(s) \in Listed(heap, slice) /\ CellOf(s) \in Cells /\ heap[CellOf(s)] \in SiteConfig
  BY <1>1, CellOfIs DEF TypeInv
<1>3. CellOf(s)[1] = slice.arr /\ slice.arr <= slice.arr
  <2>1. slice \in [arr : Arrays, len : Nat] /\ slice.len <= Capacity[slice.arr]
    BY DEF TypeInv, TypeOK
  <2>2. slice.arr \in Nat
    BY <2>1, ArraysAre
  <2>3. CellOf(s)[1] = slice.arr
    BY <1>2, <2>1, ListedAreCells
  <2> QED
    BY <2>2, <2>3
<1>4. AtCell(CellOf(s)) \in Pointer
  BY <1>2, PointsTo
<1> DEFINE c == CellOf(s)
<1>5. /\ action'.op = op /\ action'.site = s /\ action'.config = AtCell(c)
      /\ action' \in [op : {"none", "start", "stop"}, site : Sites \cup {Nil}, config : Pointer \cup {Nil}]
  BY <1>1, <1>4
<1>6. TypeOK' /\ ShapeInv' /\ RequestInv'
  BY <1>1, <1>5 DEF TypeInv, TypeOK, ShapeInv, RequestInv, Listed, Configured
<1>7. ActionInv'
  <2>1. c \in Cells /\ c[1] <= slice'.arr /\ heap'[c] \in SiteConfig
    BY <1>1, <1>2, <1>3
  <2> HIDE DEF c
  <2> QED
    BY <1>5, <2>1 DEF ActionInv
<1> QED
  BY <1>6, <1>7 DEF TypeInv

\* The router after a request, whatever is chosen for the default host.
LEMMA RemovedTyped ==
  ASSUME TypeOK, NEW s, NEW r \in RemoveHost(Router, heap, s)
  PROVE  r \in RouterType
BY RouterIs, RemoveHostIs

LEMMA ApplyRequestTyped ==
  ASSUME TypeInv, ApplyRequest
  PROVE  TypeInv'
<1>1. /\ hreq # NoRequest /\ hreq' = NoRequest /\ heap' = heap /\ slice' = slice
      /\ action' = action /\ env' = env
  BY DEF ApplyRequest
<1>2. \/ hreq.op = "create" /\ AddSiteRuntime(AtCopy(hreq.arg))
      \/ hreq.op = "enable" /\ AddSiteRuntime(AtCell(CellOf(hreq.site)))
      \/ hreq.op = "update" /\ UpdateSiteRuntime(hreq.site)
      \/ hreq.op \in {"disable", "delete"} /\ DeleteSiteRuntime(hreq.site)
  BY <1>1 DEF ApplyRequest, TypeInv, TypeOK, RequestInv
<1>3. ASSUME NEW ptr \in Pointer, Deref(heap, ptr) \in SiteConfig, NEW r \in RouterType
      PROVE  AddHost(r, heap, ptr) \in RouterType
  BY <1>3, AddHostIs
<1> DEFINE Typed == /\ hosts' \in [Domains -> VirtualHost \cup {Nil}]
                    /\ defaultHost' \in VirtualHost \cup {Nil}
<1>4. ASSUME NEW ptr \in Pointer, Deref(heap, ptr) \in SiteConfig, AddSiteRuntime(ptr) PROVE Typed
  <2>1. CASE Deref(heap, ptr).on
    BY <1>3, <1>4, <2>1, RouterIs, RouterSet DEF AddSiteRuntime, TypeInv
  <2>2. CASE ~ Deref(heap, ptr).on
    BY <1>4, <2>2 DEF AddSiteRuntime, router, TypeInv, TypeOK
  <2> QED
    BY <2>1, <2>2
<1>5. ASSUME NEW s \in Configured
      PROVE  AtCell(CellOf(s)) \in Pointer /\ Deref(heap, AtCell(CellOf(s))) \in SiteConfig
  BY CellOfIs, PointsTo DEF TypeInv
<1>6. ASSUME hreq.op = "create" /\ AddSiteRuntime(AtCopy(hreq.arg))
      PROVE  Typed
  <2>1. hreq.arg \in SiteConfig
    BY <1>6 DEF TypeInv, RequestInv
  <2>2. AtCopy(hreq.arg) \in Pointer /\ Deref(heap, AtCopy(hreq.arg)) \in SiteConfig
    BY <2>1, CopyIs
  <2> QED
    BY <1>4, <1>6, <2>2
<1>7. ASSUME hreq.op = "enable" /\ AddSiteRuntime(AtCell(CellOf(hreq.site)))
      PROVE  Typed
  BY <1>4, <1>5, <1>7 DEF TypeInv, RequestInv
<1>8. ASSUME hreq.op = "update" /\ UpdateSiteRuntime(hreq.site)
      PROVE  Typed
  <2>1. hreq.site \in Configured
    BY <1>8 DEF TypeInv, RequestInv
  <2>2. PICK r \in RemoveHost(Router, heap, hreq.site) :
          SetRouter(IF Config(hreq.site).on THEN AddHost(r, heap, AtCell(CellOf(hreq.site))) ELSE r)
    BY <1>8 DEF UpdateSiteRuntime
  <2>3. r \in RouterType
    BY RemovedTyped DEF TypeInv
  <2>4. AddHost(r, heap, AtCell(CellOf(hreq.site))) \in RouterType
    BY <1>3, <1>5, <2>1, <2>3
  <2> QED
    BY <2>2, <2>3, <2>4, RouterSet
<1>9. ASSUME hreq.op \in {"disable", "delete"} /\ DeleteSiteRuntime(hreq.site)
      PROVE  Typed
  BY <1>9, RemovedTyped, RouterSet DEF DeleteSiteRuntime, TypeInv
<1>10. Typed
  BY <1>2, <1>6, <1>7, <1>8, <1>9
<1>11. TypeOK' /\ ShapeInv' /\ RequestInv' /\ ActionInv'
  BY <1>1, <1>10 DEF TypeInv, TypeOK, ShapeInv, RequestInv, ActionInv, Listed, NoRequest
<1> QED
  BY <1>11 DEF TypeInv

LEMMA SaveFailsTyped ==
  ASSUME TypeInv, SaveFails
  PROVE  TypeInv'
BY DEF SaveFails, router, TypeInv, TypeOK, ShapeInv, RequestInv, ActionInv, Listed, NoRequest

LEMMA StartSiteTyped ==
  ASSUME TypeInv, StartSite
  PROVE  TypeInv'
<1>1. action.op = "start" /\ action' = NoAction /\ slice' = slice /\ hreq' = hreq /\ env' = env
  BY DEF StartSite
<1>2. PICK c \in Cells : action.config = AtCell(c) /\ heap[c] \in SiteConfig
  BY <1>1 DEF TypeInv, ActionInv
<1>3. Located = c /\ AtCell(c) \in Pointer /\ \A hp : Deref(hp, AtCell(c)) = hp[c]
  BY <1>2, PointsTo DEF Located
<1>4. ActionInv' /\ action' \in [op : {"none", "start", "stop"}, site : Sites \cup {Nil}, config : Pointer \cup {Nil}]
  BY <1>1 DEF ActionInv, NoAction
<1>5. CASE heap[c].on
  <2>1. heap' = heap /\ hosts' = hosts /\ defaultHost' = defaultHost
    BY <1>3, <1>5 DEF StartSite, router
  <2> QED
    BY <1>1, <1>4, <2>1 DEF TypeInv, TypeOK, ShapeInv, RequestInv, Listed, Configured
<1>6. CASE ~ heap[c].on
  <2> DEFINE x == [heap[c] EXCEPT !.on = TRUE]
  <2>1. heap' = [heap EXCEPT ![c].on = TRUE] /\ SetRouter(AddHost(Router, heap', AtCell(c)))
    BY <1>2, <1>3, <1>6 DEF StartSite
  <2>2. x \in SiteConfig /\ x.id = heap[c].id
    BY <1>2, Turned
  <2>3. heap' = [heap EXCEPT ![c] = x]
    BY <2>1 DEF TypeInv, TypeOK
  <2>4. heap'[c] = x
    BY <2>3 DEF TypeInv, TypeOK
  <2> HIDE DEF x
  <2>5. heap' \in [Cells -> SiteConfig \cup {Nil}] /\ ShapeInv' /\ Configured' = Configured
    BY <1>1, <1>2, <2>2, <2>3, RewrittenIs DEF TypeInv
  <2>6. AddHost(Router, heap', AtCell(c)) \in RouterType
    <3>1. Deref(heap', AtCell(c)) \in SiteConfig
      BY <1>3, <2>2, <2>4
    <3> QED
      BY <1>3, <3>1, AddHostIs, RouterIs DEF TypeInv
  <2>7. hosts' \in [Domains -> VirtualHost \cup {Nil}] /\ defaultHost' \in VirtualHost \cup {Nil}
    BY <2>1, <2>6, RouterSet
  <2>8. TypeOK' /\ RequestInv'
    BY <1>1, <1>4, <2>5, <2>7 DEF TypeInv, TypeOK, RequestInv
  <2> QED
    BY <1>4, <2>5, <2>8 DEF TypeInv
<1> QED
  BY <1>5, <1>6

LEMMA StopSiteTyped ==
  ASSUME TypeInv, StopSite
  PROVE  TypeInv'
<1>1. action.op = "stop" /\ action' = NoAction /\ slice' = slice /\ hreq' = hreq /\ env' = env
  BY DEF StopSite
<1>2. PICK c \in Cells : action.config = AtCell(c) /\ heap[c] \in SiteConfig
  BY <1>1 DEF TypeInv, ActionInv
<1>3. Located = c
  BY <1>2, PointsTo DEF Located
<1>4. ActionInv' /\ action' \in [op : {"none", "start", "stop"}, site : Sites \cup {Nil}, config : Pointer \cup {Nil}]
  BY <1>1 DEF ActionInv, NoAction
<1>5. CASE ~ heap[c].on
  <2>1. heap' = heap /\ hosts' = hosts /\ defaultHost' = defaultHost
    BY <1>3, <1>5 DEF StopSite, router
  <2> QED
    BY <1>1, <1>4, <2>1 DEF TypeInv, TypeOK, ShapeInv, RequestInv, Listed, Configured
<1>6. CASE heap[c].on
  <2> DEFINE x == [heap[c] EXCEPT !.on = FALSE]
  <2>1. PICK r \in RemoveHost(Router, heap, action.site) :
          heap' = [heap EXCEPT ![c].on = FALSE] /\ SetRouter(r)
    BY <1>3, <1>6 DEF StopSite
  <2>2. x \in SiteConfig /\ x.id = heap[c].id
    BY <1>2, Turned
  <2>3. heap' = [heap EXCEPT ![c] = x]
    BY <2>1 DEF TypeInv, TypeOK
  <2> HIDE DEF x
  <2>5. heap' \in [Cells -> SiteConfig \cup {Nil}] /\ ShapeInv' /\ Configured' = Configured
    BY <1>1, <1>2, <2>2, <2>3, RewrittenIs DEF TypeInv
  <2>6. hosts' \in [Domains -> VirtualHost \cup {Nil}] /\ defaultHost' \in VirtualHost \cup {Nil}
    BY <2>1, RemovedTyped, RouterSet DEF TypeInv
  <2>7. TypeOK' /\ RequestInv'
    BY <1>1, <1>4, <2>5, <2>6 DEF TypeInv, TypeOK, RequestInv
  <2> QED
    BY <1>4, <2>5, <2>7 DEF TypeInv
<1> QED
  BY <1>5, <1>6

LEMMA RestartTyped ==
  ASSUME TypeInv, RestartSitesServer
  PROVE  TypeInv'
<1>1. /\ SetRouter(AddEnabled(Router, heap, slice)) /\ heap' = heap /\ slice' = slice
      /\ hreq' = hreq /\ action' = action /\ env' = env
  BY DEF RestartSitesServer
<1>2. AddEnabled(Router, heap, slice) \in RouterType
  BY RouterIs, AddEnabledIs DEF TypeInv, TypeOK, ShapeInv
<1>3. hosts' \in [Domains -> VirtualHost \cup {Nil}] /\ defaultHost' \in VirtualHost \cup {Nil}
  BY <1>1, <1>2, RouterSet
<1> QED
  BY <1>1, <1>3 DEF TypeInv, TypeOK, ShapeInv, RequestInv, ActionInv, Listed, Configured

\* The process starts with the sites of its configuration in the first array.
LEMMA InitIs ==
  ASSUME Init
  PROVE  \E init \in InitialSites :
           /\ Len(init) \in Nat /\ Len(init) <= Capacity[1]
           /\ slice = [arr |-> 1, len |-> Len(init)]
           /\ slice \in [arr : Arrays, len : Nat] /\ slice.len <= Capacity[slice.arr]
           /\ heap \in [Cells -> SiteConfig \cup {Nil}]
           /\ \A i \in 1..Len(init) : heap[<<1, i>>] = init[i] /\ init[i] \in SiteConfig /\ i \in DOMAIN init
           /\ Listed(heap, slice) = {<<1, i>> : i \in 1..Len(init)}
           /\ ShapeInv
<1>1. PICK init \in InitialSites :
        /\ heap = [c \in Cells |-> IF c[1] = 1 /\ c[2] <= Len(init) THEN init[c[2]] ELSE Nil]
        /\ slice = [arr |-> 1, len |-> Len(init)]
  BY DEF Init
<1> DEFINE n == Len(init)
<1>2. /\ init \in Seq(SiteConfig) /\ n \in Nat /\ n <= Capacity[1]
      /\ \A i, j \in 1..n : init[i].id = init[j].id => i = j
  BY VhostRoutingAssumption
<1>3. \A i \in 1..n : init[i] \in SiteConfig /\ i \in DOMAIN init
  BY <1>2
<1>4. 1 \in Arrays /\ Capacity[1] \in Nat
  BY ArraysAre
<1> HIDE DEF n
<1>5. slice \in [arr : Arrays, len : Nat] /\ slice.len <= Capacity[slice.arr] /\ slice.arr = 1 /\ slice.len = n
  BY <1>1, <1>2, <1>4 DEF n
<1>6. ASSUME NEW i \in 1..n PROVE <<1, i>> \in Cells /\ heap[<<1, i>>] = init[i]
  <2>1. i \in 1..Capacity[1] /\ i <= n
    BY <1>2, <1>4
  <2>2. <<1, i>> \in Cells
    BY <1>4, <2>1, CellIn
  <2> QED
    BY <1>1, <2>1, <2>2 DEF n
<1>7. ASSUME NEW c \in Cells PROVE heap[c] \in SiteConfig \cup {Nil}
  <2>1. CASE c[1] = 1 /\ c[2] <= n
    <3>1. c[2] \in 1..n
      BY <1>2, <2>1, CellIs
    <3> QED
      BY <1>1, <1>3, <2>1, <3>1 DEF n
  <2>2. CASE ~ (c[1] = 1 /\ c[2] <= n)
    BY <1>1, <2>2 DEF n
  <2> QED
    BY <2>1, <2>2
<1>8. heap \in [Cells -> SiteConfig \cup {Nil}]
  BY <1>1, <1>7
<1>9. Listed(heap, slice) = {<<1, i>> : i \in 1..n}
  BY <1>5 DEF Listed
<1>10. ShapeInv
  <2>1. ASSUME NEW c \in Listed(heap, slice) PROVE heap[c] \in SiteConfig
    <3>1. PICK i \in 1..n : c = <<1, i>>
      BY <1>9
    <3> QED
      BY <1>3, <1>6, <3>1
  <2>2. ASSUME NEW c \in Listed(heap, slice), NEW e \in Listed(heap, slice), heap[c].id = heap[e].id
        PROVE  c = e
    <3>1. PICK i \in 1..n : c = <<1, i>>
      BY <1>9
    <3>2. PICK j \in 1..n : e = <<1, j>>
      BY <1>9
    <3>3. heap[c] = init[i] /\ heap[e] = init[j]
      BY <1>6, <3>1, <3>2
    <3>4. i = j
      BY <1>2, <2>2, <3>3
    <3> QED
      BY <3>1, <3>2, <3>4
  <2> QED
    BY <2>1, <2>2 DEF ShapeInv
<1> QED
  BY <1>1, <1>2, <1>3, <1>5, <1>6, <1>8, <1>9, <1>10 DEF n

\* Before anything is added there is no virtual host.
LEMMA EmptyRouter ==
  /\ [hosts |-> [d \in Domains |-> Nil], default |-> Nil] \in RouterType
  /\ \A d \in Domains : [hosts |-> [e \in Domains |-> Nil], default |-> Nil].hosts[d] = Nil
BY DEF RouterType

LEMMA InitTyped ==
  ASSUME Init
  PROVE  TypeInv
<1>1. /\ slice \in [arr : Arrays, len : Nat] /\ slice.len <= Capacity[slice.arr]
      /\ heap \in [Cells -> SiteConfig \cup {Nil}] /\ ShapeInv
  BY InitIs
<1> DEFINE empty == [hosts |-> [d \in Domains |-> Nil], default |-> Nil]
<1>2. /\ hosts = AddEnabled(empty, heap, slice).hosts /\ defaultHost = AddEnabled(empty, heap, slice).default
      /\ hreq = NoRequest /\ action = NoAction /\ env \in Environments
  BY DEF Init
<1>3. empty \in RouterType
  BY EmptyRouter
<1> HIDE DEF empty
<1>4. AddEnabled(empty, heap, slice) \in RouterType
  BY <1>1, <1>3, AddEnabledIs DEF ShapeInv
<1>5. hosts \in [Domains -> VirtualHost \cup {Nil}] /\ defaultHost \in VirtualHost \cup {Nil}
  BY <1>2, <1>4 DEF RouterType
<1>6. TypeOK
  BY <1>1, <1>2, <1>5 DEF TypeOK, NoRequest, NoAction
<1> QED
  BY <1>1, <1>2, <1>6 DEF TypeInv, RequestInv, ActionInv, NoRequest, NoAction

LEMMA NextTyped ==
  ASSUME TypeInv, [Next]_vars
  PROVE  TypeInv'
<1>1. ASSUME NEW cfg \in Inputs, CreateSite(cfg) PROVE TypeInv'
  BY <1>1, CreateSiteTyped
<1>2. ASSUME NEW cfg \in Inputs, UpdateSite(cfg) PROVE TypeInv'
  BY <1>2, UpdateSiteTyped
<1>3. ASSUME NEW s \in Sites, DeleteSite(s) PROVE TypeInv'
  BY <1>3, DeleteSiteTyped
<1>4. ASSUME NEW s \in Sites, Toggle("enable", s) \/ Toggle("disable", s) PROVE TypeInv'
  BY <1>4, ToggleTyped
<1>5. ASSUME NEW s \in Sites, Locate("start", s) \/ Locate("stop", s) PROVE TypeInv'
  BY <1>5, LocateTyped
<1>6. CASE UNCHANGED vars
  BY <1>6 DEF vars, TypeInv, TypeOK, ShapeInv, RequestInv, ActionInv, Listed, Configured
<1> QED
  BY <1>1, <1>2, <1>3, <1>4, <1>5, <1>6, ApplyRequestTyped, SaveFailsTyped, StartSiteTyped,
     StopSiteTyped, RestartTyped DEF Next

(***************************************************************************)
(* Type correctness, with the shape of the slice: one cell for each site,  *)
(* whatever array append, the update and the deletion leave it in.         *)
(***************************************************************************)
THEOREM Typing == Spec => []TypeOK
<1>1. Init => TypeInv
  BY InitTyped
<1>2. TypeInv /\ [Next]_vars => TypeInv'
  BY NextTyped
<1>3. TypeInv => TypeOK
  BY DEF TypeInv
<1> QED
  BY <1>1, <1>2, <1>3, PTL DEF Spec

-----------------------------------------------------------------------------
(* Orderly use.                                                             *)

\* The request in flight is about to take the site's virtual hosts away.
Ending(s) == hreq.site = s /\ hreq.op \in {"disable", "update"}

(***************************************************************************)
(* A virtual host is of the site it was made for, whatever has become of   *)
(* the cell it points to: a cell that is left behind keeps its content, so *)
(* an old cell stays enabled and is right only because a site that is      *)
(* disabled loses its virtual hosts.                                       *)
(***************************************************************************)
HostOK(vh) ==
  /\ vh.handler \in Configured
  /\ Deref(heap, vh.config) \in SiteConfig /\ Deref(heap, vh.config).id = vh.handler
  /\ vh.config.cell # Nil => vh.config.cell[1] < slice.arr \/ vh.config.cell \in Listed(heap, slice)
  /\ Ending(vh.handler) \/ (Deref(heap, vh.config).on /\ Config(vh.handler).on)

Uses(r) == {r.default} \cup {r.hosts[d] : d \in Domains}
Serves(r, s, d) == r.hosts[d] # Nil /\ r.hosts[d].handler = s

\* A configuration that respects the domains that are one site's own.
Own(cfg) == \A d \in cfg.domains : \A s \in Sites : OwnDomain(s, d) => cfg.id = s

VhostsInv == \A vh \in Uses(Router) : vh # Nil => HostOK(vh)

ServedInv ==
  \A s \in Configured : Config(s).on /\ hreq.site # s =>
    \A d \in Config(s).domains : OwnDomain(s, d) => Serves(Router, s, d)

DefaultInv == defaultHost = Nil => \A d \in Domains : hosts[d] # Nil => Ending(hosts[d].handler)

OwnInv == \A c \in Listed(heap, slice) : Own(heap[c])

\* What the request and the action in flight know of their sites stays true.
FlowInv ==
  /\ hreq.op # "none" => hreq.op # "delete" /\ hreq.site \in Configured
  /\ hreq.op = "create" => hreq.arg = Config(hreq.site)
  /\ hreq.op = "disable" => ~ Config(hreq.site).on
  /\ action.op # "none" =>
       action.site \in Configured /\ action.config = AtCell(CellOf(action.site))
  /\ hreq.op # "none" /\ action.op # "none" => hreq.site # action.site

KeptInv  == VhostsInv /\ ServedInv /\ DefaultInv /\ OwnInv /\ FlowInv
OrderInv == Orderly => KeptInv

-----------------------------------------------------------------------------
(* Virtual hosts.                                                           *)

LEMMA RouterUses ==
  ASSUME TypeOK, NEW vh \in Uses(Router), vh # Nil
  PROVE  vh \in VirtualHost
BY RouterIs DEF Uses, RouterType

\* The pointer of a virtual host: a cell that is listed or left behind, or a copy.
LEMMA ConfigIs ==
  ASSUME NEW vh \in VirtualHost, NEW hp
  PROVE  /\ vh.config \in Pointer /\ vh.config.cell \in Cells \cup {Nil}
         /\ vh.config.cell = Nil => Deref(hp, vh.config) = vh.config.copy
         /\ vh.config.cell # Nil => Deref(hp, vh.config) = hp[vh.config.cell]
BY DEF VirtualHost, Pointer, Deref

LEMMA HostWritten ==
  ASSUME TypeInv, NEW vh \in VirtualHost, HostOK(vh), NEW s, NEW x, Writes(s, x),
         Ending(vh.handler) => Ending(vh.handler)',
         vh.handler = s => x.on \/ Ending(s)'
  PROVE  HostOK(vh)'
<1>1. /\ \A c \in Cells : heap'[c] = IF c = CellOf(s) THEN x ELSE heap[c]
      /\ Listed(heap, slice)' = Listed(heap, slice) /\ Configured' = Configured
      /\ \A t \in Configured : Config(t)' = IF t = s THEN x ELSE Config(t)
  BY WrittenIs DEF TypeInv
<1>2. s \in Configured /\ x \in SiteConfig /\ x.id = s /\ slice' = slice
  BY DEF Writes
<1>3. heap[CellOf(s)].id = s
  BY <1>2, CellOfIs DEF TypeInv
<1> DEFINE p == vh.config
           k == vh.config.cell
<1>4. /\ vh.handler \in Configured /\ Deref(heap, p) \in SiteConfig /\ Deref(heap, p).id = vh.handler
      /\ k # Nil => k[1] < slice.arr \/ k \in Listed(heap, slice)
      /\ Ending(vh.handler) \/ (Deref(heap, p).on /\ Config(vh.handler).on)
  BY DEF HostOK
<1>5. Deref(heap', p) = IF k # Nil /\ k = CellOf(s) THEN x ELSE Deref(heap, p)
  BY <1>1, ConfigIs
<1>6. k # Nil /\ k = CellOf(s) => vh.handler = s
  BY <1>3, <1>4, ConfigIs
<1> HIDE DEF p, k
<1>7. Deref(heap', p) \in SiteConfig /\ Deref(heap', p).id = vh.handler
  BY <1>2, <1>4, <1>5, <1>6
<1>8. Ending(vh.handler)' \/ (Deref(heap', p).on /\ Config(vh.handler)'.on)
  <2>1. CASE vh.handler = s
    <3>1. Config(vh.handler)' = x
      BY <1>1, <1>2, <2>1
    <3> QED
      BY <1>4, <1>5, <2>1, <3>1
  <2>2. CASE vh.handler # s
    <3>1. Config(vh.handler)' = Config(vh.handler)
      BY <1>1, <1>4, <2>2
    <3> QED
      BY <1>4, <1>5, <1>6, <2>2, <3>1
  <2> QED
    BY <2>1, <2>2
<1>9. k # Nil => k[1] < slice'.arr \/ k \in Listed(heap, slice)'
  BY <1>1, <1>2, <1>4
<1> QED
  BY <1>1, <1>4, <1>7, <1>8, <1>9 DEF HostOK, p, k

LEMMA HostGrown ==
  ASSUME TypeInv, HasRoom(slice), NEW cfg \in SiteConfig, cfg.id \notin Configured,
         heap' = Appended(heap, slice, cfg).heap, slice' = Appended(heap, slice, cfg).slice,
         NEW vh \in VirtualHost, HostOK(vh), ~ Ending(vh.handler)
  PROVE  HostOK(vh)'
<1>1. /\ Configured' = Configured \cup {cfg.id} /\ \A t \in Configured : Config(t)' = Config(t)
      /\ \A c \in Cells : c[1] < slice.arr \/ c \in Listed(heap, slice) =>
                            /\ heap'[c] = heap[c]
                            /\ c[1] < slice'.arr \/ c \in Listed(heap, slice)'
  BY GrownIs DEF TypeInv
<1> DEFINE p == vh.config
           k == vh.config.cell
<1>2. /\ vh.handler \in Configured /\ Deref(heap, p) \in SiteConfig /\ Deref(heap, p).id = vh.handler
      /\ k # Nil => k[1] < slice.arr \/ k \in Listed(heap, slice)
      /\ Deref(heap, p).on /\ Config(vh.handler).on
  BY DEF HostOK
<1>3. Deref(heap', p) = Deref(heap, p) /\ (k # Nil => k[1] < slice'.arr \/ k \in Listed(heap, slice)')
  <2>1. CASE k = Nil
    BY <2>1, ConfigIs
  <2>2. CASE k # Nil
    <3>1. k \in Cells /\ Deref(heap', p) = heap'[k] /\ Deref(heap, p) = heap[k]
      BY <2>2, ConfigIs
    <3> QED
      BY <1>1, <1>2, <2>2, <3>1
  <2> QED
    BY <2>1, <2>2
<1>4. vh.handler \in Configured' /\ Config(vh.handler)' = Config(vh.handler)
  BY <1>1, <1>2
<1> HIDE DEF p, k
<1> QED
  BY <1>2, <1>3, <1>4 DEF HostOK, p, k

\* The slice does not change, and the site is not one whose request has ended.
LEMMA HostStays ==
  ASSUME NEW vh, HostOK(vh), heap' = heap, slice' = slice,
         Ending(vh.handler) => Ending(vh.handler)'
  PROVE  HostOK(vh)'
BY DEF HostOK, Config, CellOf, Configured, Listed

LEMMA FreshHost ==
  ASSUME TypeInv, NEW c \in Listed(heap, slice), heap[c].on
  PROVE  /\ HostOK(HostOf(heap, c)) /\ HostOf(heap, c) \in VirtualHost /\ HostOf(heap, c) # Nil
         /\ HostOf(heap, c).handler = heap[c].id /\ heap[c].id \in Configured
         /\ CellOf(heap[c].id) = c
<1>1. c \in Cells /\ heap[c] \in SiteConfig /\ heap[c].id \in Sites
  BY ListedAreCells DEF TypeInv, TypeOK, ShapeInv, SiteConfig
<1>2. heap[c].id \in Configured
  BY DEF Configured
<1>3. CellOf(heap[c].id) = c
  BY <1>2, CellOfIs DEF TypeInv
<1> DEFINE vh == HostOf(heap, c)
<1>4. vh.config = AtCell(c) /\ vh.handler = heap[c].id /\ vh \in VirtualHost /\ vh # Nil
  BY <1>1, HostIs, PointsTo DEF HostOf
<1>5. Config(vh.handler) = heap[c]
  BY <1>3, <1>4 DEF Config
<1>6. Deref(heap, vh.config) = heap[c] /\ vh.config.cell = c
  BY <1>1, <1>4, PointsTo
<1> HIDE DEF vh
<1>7. HostOK(vh)
  BY <1>1, <1>2, <1>4, <1>5, <1>6 DEF HostOK
<1> QED
  BY <1>2, <1>3, <1>4, <1>7 DEF vh

\* After RemoveHost only virtual hosts that were there and are not the site's remain.
LEMMA RemovedUses ==
  ASSUME TypeOK, VhostsInv, NEW s, NEW q \in RemoveHost(Router, heap, s)
  PROVE  /\ q \in RouterType
         /\ \A vh \in Uses(q) : vh # Nil => vh \in Uses(Router) /\ vh.handler # s
         /\ \A d \in Domains : q.hosts[d] = hosts[d] \/ q.hosts[d] = Nil
         /\ \A t : \A d \in Domains : Serves(Router, t, d) /\ t # s => Serves(q, t, d)
<1>1. Router \in RouterType /\ Router.hosts = hosts /\ Router.default = defaultHost
  BY RouterIs
<1>2. /\ q \in RouterType
      /\ \A d \in Domains : q.hosts[d] = IF Is(hosts[d], heap, s) THEN Nil ELSE hosts[d]
      /\ ~ Is(defaultHost, heap, s) => q.default = defaultHost
      /\ Is(defaultHost, heap, s) =>
           \/ q.default = Nil
           \/ \E d \in Domains : q.default = q.hosts[d]
  BY <1>1, RemoveHostIs
<1>3. ASSUME NEW vh \in Uses(Router), vh # Nil PROVE Is(vh, heap, s) <=> vh.handler = s
  BY <1>3 DEF VhostsInv, HostOK, Is
<1>4. defaultHost \in Uses(Router) /\ \A d \in Domains : hosts[d] \in Uses(Router)
  BY <1>1 DEF Uses
<1>5. ASSUME NEW d \in Domains, q.hosts[d] # Nil
      PROVE  q.hosts[d] \in Uses(Router) /\ q.hosts[d].handler # s
  BY <1>2, <1>3, <1>4, <1>5
<1>6. ASSUME q.default # Nil PROVE q.default \in Uses(Router) /\ q.default.handler # s
  <2>1. CASE Is(defaultHost, heap, s)
    BY <1>2, <1>5, <1>6, <2>1
  <2>2. CASE ~ Is(defaultHost, heap, s)
    BY <1>2, <1>3, <1>4, <1>6, <2>2
  <2> QED
    BY <2>1, <2>2
<1>7. ASSUME NEW d \in Domains, NEW t, Serves(Router, t, d), t # s PROVE Serves(q, t, d)
  <2>1. hosts[d] # Nil /\ hosts[d].handler = t
    BY <1>1, <1>7 DEF Serves
  <2>2. ~ Is(hosts[d], heap, s)
    BY <1>3, <1>4, <1>7, <2>1
  <2> QED
    BY <1>2, <2>1, <2>2 DEF Serves
<1>8. ASSUME NEW vh \in Uses(q), vh # Nil PROVE vh \in Uses(Router) /\ vh.handler # s
  BY <1>5, <1>6, <1>8 DEF Uses
<1> QED
  BY <1>2, <1>7, <1>8

\* If RemoveHost leaves no default host, what it leaves is of a request that ends it.
LEMMA RemovedDefault ==
  ASSUME TypeOK, VhostsInv, DefaultInv, NEW s, NEW q \in RemoveHost(Router, heap, s),
         q.default = Nil, NEW d \in Domains, q.hosts[d] # Nil
  PROVE  Ending(q.hosts[d].handler) /\ q.hosts[d].handler # s
<1>1. Router \in RouterType /\ Router.hosts = hosts /\ Router.default = defaultHost
  BY RouterIs
<1>2. /\ q.hosts[d] = hosts[d] /\ q.hosts[d] \in Uses(Router) /\ q.hosts[d].handler # s
  BY RemovedUses DEF Uses
<1>3. CASE Is(defaultHost, heap, s)
  <2>1. ~ IsOn(q.hosts[d], heap)
    <3>1. \/ q.default = Nil /\ \A e \in Domains : ~ IsOn(q.hosts[e], heap)
          \/ \E e \in Domains : q.default = q.hosts[e] /\ IsOn(q.hosts[e], heap)
      BY <1>1, <1>3, RemoveHostIs
    <3> QED
      BY <3>1 DEF IsOn
  <2>2. HostOK(q.hosts[d])
    BY <1>2 DEF VhostsInv
  <2> QED
    BY <1>2, <2>1, <2>2 DEF HostOK, IsOn
<1>4. CASE ~ Is(defaultHost, heap, s)
  <2>1. defaultHost = Nil
    BY <1>1, <1>4, RemoveHostIs
  <2> QED
    BY <1>2, <2>1 DEF DefaultInv
<1> QED
  BY <1>3, <1>4

\* AddHost adds one virtual host, and leaves its domains to it.
LEMMA AddedUses ==
  ASSUME NEW r \in RouterType, NEW hp, NEW ptr \in Pointer, Deref(hp, ptr) \in SiteConfig
  PROVE  LET new == [config |-> ptr, handler |-> Deref(hp, ptr).id]
             q   == AddHost(r, hp, ptr)
         IN /\ q \in RouterType /\ new \in VirtualHost
            /\ \A vh \in Uses(q) : vh \in Uses(r) \/ vh = new
            /\ \A d \in Deref(hp, ptr).domains : Serves(q, Deref(hp, ptr).id, d)
            /\ \A t : \A d \in Domains : Serves(r, t, d) /\ d \notin Deref(hp, ptr).domains => Serves(q, t, d)
            /\ Deref(hp, ptr).on => q.default # Nil
<1> DEFINE new == [config |-> ptr, handler |-> Deref(hp, ptr).id]
           q   == AddHost(r, hp, ptr)
           cfg == Deref(hp, ptr)
<1>1. /\ q \in RouterType /\ new \in VirtualHost /\ new # Nil /\ new.handler = cfg.id
      /\ \A d \in Domains : q.hosts[d] = IF d \in cfg.domains THEN new ELSE r.hosts[d]
      /\ q.default = IF r.default = Nil /\ cfg.on THEN new ELSE r.default
  BY AddHostIs
<1>2. cfg.domains \subseteq Domains
  BY DEF SiteConfig
<1> HIDE DEF new, q, cfg
<1>3. ASSUME NEW vh \in Uses(q) PROVE vh \in Uses(r) \/ vh = new
  BY <1>1 DEF Uses
<1>4. \A d \in cfg.domains : Serves(q, cfg.id, d)
  BY <1>1, <1>2 DEF Serves
<1>5. \A t : \A d \in Domains : Serves(r, t, d) /\ d \notin cfg.domains => Serves(q, t, d)
  BY <1>1 DEF Serves
<1>6. cfg.on => q.default # Nil
  BY <1>1
<1> QED
  BY <1>1, <1>3, <1>4, <1>5, <1>6 DEF new, q, cfg

\* The invariants about the router, from what it is set to.
LEMMA VhostsSet ==
  ASSUME NEW r \in RouterType, SetRouter(r), \A vh \in Uses(r) : vh # Nil => HostOK(vh)'
  PROVE  VhostsInv'
<1>1. hosts' = r.hosts /\ defaultHost' = r.default
  BY RouterSet
<1>2. Uses(Router)' = Uses(r)
  BY <1>1 DEF Uses, Router
<1> QED
  BY <1>2 DEF VhostsInv

LEMMA DefaultSet ==
  ASSUME NEW r \in RouterType, SetRouter(r),
         r.default = Nil => \A d \in Domains : r.hosts[d] # Nil => Ending(r.hosts[d].handler)'
  PROVE  DefaultInv'
<1>1. hosts' = r.hosts /\ defaultHost' = r.default
  BY RouterSet
<1> QED
  BY <1>1 DEF DefaultInv, Ending

LEMMA ServesSet ==
  ASSUME NEW r \in RouterType, SetRouter(r), NEW s, NEW d, Serves(r, s, d)
  PROVE  Serves(Router, s, d)'
BY RouterSet DEF Serves, Router

-----------------------------------------------------------------------------
(* The steps that begin a request.                                          *)

\* When nothing is in flight there is no site it is about.
LEMMA NothingBegun ==
  ASSUME TypeInv, hreq.op = "none"
  PROVE  hreq.site = Nil /\ hreq.site \notin Sites /\ \A s : ~ Ending(s)
<1>1. hreq.site = Nil /\ Nil \notin Sites
  BY VhostRoutingAssumption DEF TypeInv, RequestInv, NoRequest
<1> QED
  BY <1>1 DEF Ending

\* Requests that do not overlap.
LEMMA AskedIs ==
  ASSUME TypeInv, Orderly, NEW kind, NEW s, Asked(kind, s)
  PROVE  /\ hreq.op # "none" => hreq.site # s
         /\ action.op # "none" => action.site # s
         /\ kind = "create" => action.op = "none"
         /\ kind # "delete"
<1>1. /\ kind \in env.requests
      /\ \/ env.overlap = "none" /\ Busy = {}
         \/ env.overlap = "sites" /\ s \notin Busy /\ kind # "create"
      /\ kind # "delete"
  BY DEF Asked, Orderly
<1>2. /\ hreq.op # "none" => hreq.site \in Sites
      /\ action.op # "none" => action.site \in Sites
      /\ Nil \notin Sites
  BY VhostRoutingAssumption DEF TypeInv, RequestInv, ActionInv
<1>3. /\ hreq.op # "none" => hreq.site \in Busy
      /\ action.op # "none" => action.site \in Busy
  BY <1>2 DEF Busy
<1> QED
  BY <1>1, <1>3

LEMMA BegunKept ==
  ASSUME TypeInv, KeptInv, NEW op \in {"update", "enable", "disable"}, NEW s \in Sites, NEW x,
         Writes(s, x), Begin(op, s, Nil), op = "enable" => x.on, op = "disable" => ~ x.on,
         Own(x), action.op # "none" => action.site # s
  PROVE  KeptInv'
<1>1. /\ hreq'.op = op /\ hreq'.site = s /\ hreq.op = "none"
      /\ hosts' = hosts /\ defaultHost' = defaultHost /\ action' = action
  BY BeginIs
<1>2. hreq.site \notin Sites /\ \A t : ~ Ending(t)
  BY <1>1, NothingBegun
<1>3. /\ Listed(heap, slice)' = Listed(heap, slice)
      /\ \A c \in Cells : heap'[c] = IF c = CellOf(s) THEN x ELSE heap[c]
      /\ Configured' = Configured
      /\ \A t \in Configured : CellOf(t)' = CellOf(t) /\ Config(t)' = IF t = s THEN x ELSE Config(t)
  BY WrittenIs DEF TypeInv
<1>4. s \in Configured
  BY DEF Writes
<1>5. Router' = Router
  BY <1>1 DEF Router
<1>6. VhostsInv'
  <2>1. Uses(Router)' = Uses(Router)
    BY <1>5 DEF Uses
  <2>2. x.on \/ Ending(s)'
    BY <1>1 DEF Ending
  <2>3. ASSUME NEW vh \in Uses(Router), vh # Nil PROVE HostOK(vh)'
    <3>1. vh \in VirtualHost /\ HostOK(vh)
      BY <2>3, RouterUses DEF KeptInv, VhostsInv, TypeInv
    <3> QED
      BY <1>2, <2>2, <3>1, HostWritten
  <2> QED
    BY <2>1, <2>3 DEF VhostsInv
<1>7. ServedInv'
  <2>1. ASSUME NEW t \in Configured, Config(t)'.on, t # s,
               NEW d \in Config(t)'.domains, OwnDomain(t, d)
        PROVE  Serves(Router, t, d)
    <3>1. Config(t)' = Config(t) /\ t \in Sites
      BY <1>3, <2>1, CellOfIs DEF TypeInv
    <3>2. hreq.site # t
      BY <1>2, <3>1
    <3> QED
      BY <2>1, <3>1, <3>2 DEF KeptInv, ServedInv
  <2>2. \A t, d : Serves(Router, t, d)' <=> Serves(Router, t, d)
    BY <1>5 DEF Serves
  <2> QED
    BY <1>1, <1>3, <2>1, <2>2 DEF ServedInv, OwnDomain
<1>8. DefaultInv'
  BY <1>1, <1>2 DEF KeptInv, DefaultInv
<1>9. OwnInv'
  <2>1. Listed(heap, slice) \subseteq Cells
    BY ListedAreCells DEF TypeInv, TypeOK
  <2>2. \A c \in Listed(heap, slice) : Own(heap[c])
    BY DEF KeptInv, OwnInv
  <2>3. \A c \in Listed(heap, slice) : heap'[c] = x \/ heap'[c] = heap[c]
    BY <1>3, <2>1
  <2>4. \A c \in Listed(heap, slice) : Own(heap'[c])
    BY <2>2, <2>3
  <2> QED
    BY <1>3, <2>4 DEF OwnInv, Own, OwnDomain
<1>10. FlowInv'
  <2>1. Config(s)' = x /\ s \in Configured'
    BY <1>3, <1>4
  <2>2. action.op # "none" =>
          /\ action.site \in Configured /\ action.config = AtCell(CellOf(action.site))
          /\ CellOf(action.site)' = CellOf(action.site)
    BY <1>1, <1>3 DEF KeptInv, FlowInv
  <2>3. action.op # "none" =>
          action.site \in Configured' /\ action.config = AtCell(CellOf(action.site)')
    BY <1>3, <2>2
  <2>4. hreq'.op = "disable" => ~ x.on
    BY <1>1
  <2> QED
    BY <1>1, <2>1, <2>3, <2>4 DEF FlowInv, AtCell
<1> QED
  BY <1>6, <1>7, <1>8, <1>9, <1>10 DEF KeptInv

LEMMA InputsOwn ==
  ASSUME NEW cfg \in Inputs
  PROVE  Own(cfg)
BY DEF Own, OwnDomain

LEMMA UpdateSiteKept ==
  ASSUME TypeInv, KeptInv, Orderly, NEW cfg \in Inputs, UpdateSite(cfg)
  PROVE  KeptInv'
<1>1. /\ cfg \in SiteConfig /\ cfg.id \in Sites /\ cfg.id \in Configured /\ Asked("update", cfg.id)
      /\ heap' = [heap EXCEPT ![CellOf(cfg.id)] = cfg] /\ slice' = slice
      /\ Begin("update", cfg.id, Nil)
  BY VhostRoutingAssumption DEF UpdateSite, SiteConfig
<1>2. Writes(cfg.id, cfg)
  BY <1>1 DEF Writes
<1>3. Own(cfg) /\ (action.op # "none" => action.site # cfg.id)
  BY <1>1, InputsOwn, AskedIs
<1> QED
  BY <1>1, <1>2, <1>3, BegunKept

LEMMA ToggleKept ==
  ASSUME TypeInv, KeptInv, Orderly, NEW op \in {"enable", "disable"}, NEW s \in Sites, Toggle(op, s)
  PROVE  KeptInv'
<1>1. /\ s \in Configured /\ slice' = slice /\ Begin(op, s, Nil) /\ Asked(op, s)
      /\ heap' = [heap EXCEPT ![CellOf(s)].on = (op = "enable")]
  BY DEF Toggle
<1>2. /\ CellOf(s) \in Cells /\ heap[CellOf(s)].id = s /\ heap[CellOf(s)] \in SiteConfig
      /\ CellOf(s) \in Listed(heap, slice)
  BY <1>1, CellOfIs DEF TypeInv
<1> DEFINE c == CellOf(s)
           x == [heap[c] EXCEPT !.on = (op = "enable")]
<1>3. x \in SiteConfig /\ x.id = heap[c].id /\ x.on = (op = "enable") /\ x.domains = heap[c].domains
  BY <1>2, Turned
<1>4. heap' = [heap EXCEPT ![c] = x]
  BY <1>1, <1>2 DEF TypeInv, TypeOK
<1> HIDE DEF x
<1>5. Own(heap[c])
  BY <1>2 DEF KeptInv, OwnInv
<1>6. Own(x)
  BY <1>3, <1>5 DEF Own
<1>7. Writes(s, x)
  BY <1>1, <1>2, <1>3, <1>4 DEF Writes
<1>8. action.op # "none" => action.site # s
  BY <1>1, AskedIs
<1>9. (op = "enable" => x.on) /\ (op = "disable" => ~ x.on)
  BY <1>3
<1> HIDE DEF c
<1> QED
  BY <1>1, <1>6, <1>7, <1>8, <1>9, BegunKept

LEMMA CreateSiteKept ==
  ASSUME TypeInv, KeptInv, Orderly, NEW cfg \in Inputs, CreateSite(cfg)
  PROVE  KeptInv'
<1>1. /\ cfg \in SiteConfig /\ cfg.id \in Sites /\ cfg.id \notin Configured /\ HasRoom(slice)
      /\ heap' = Appended(heap, slice, cfg).heap /\ slice' = Appended(heap, slice, cfg).slice
      /\ Begin("create", cfg.id, cfg) /\ Asked("create", cfg.id)
  BY VhostRoutingAssumption DEF CreateSite, SiteConfig
<1>2. /\ hreq'.op = "create" /\ hreq'.site = cfg.id /\ hreq'.arg = cfg /\ hreq.op = "none"
      /\ hosts' = hosts /\ defaultHost' = defaultHost /\ action' = action
  BY <1>1, BeginIs
<1>3. /\ Configured' = Configured \cup {cfg.id}
      /\ Config(cfg.id)' = cfg /\ \A t \in Configured : Config(t)' = Config(t)
      /\ \A c \in Listed(heap, slice)' :
           heap'[c] = cfg \/ \E e \in Listed(heap, slice) : heap'[c] = heap[e]
  BY <1>1, GrownIs DEF TypeInv
<1>4. hreq.site \notin Sites /\ \A t : ~ Ending(t)
  BY <1>2, NothingBegun
<1>5. action.op = "none"
  BY <1>1, AskedIs
<1>6. Router' = Router
  BY <1>2 DEF Router
<1>7. VhostsInv'
  <2>1. Uses(Router)' = Uses(Router)
    BY <1>6 DEF Uses
  <2>2. ASSUME NEW vh \in Uses(Router), vh # Nil PROVE HostOK(vh)'
    <3>1. vh \in VirtualHost /\ HostOK(vh)
      BY <2>2, RouterUses DEF KeptInv, VhostsInv, TypeInv
    <3> QED
      BY <1>1, <1>4, <3>1, HostGrown
  <2> QED
    BY <2>1, <2>2 DEF VhostsInv
<1>8. ServedInv'
  <2>1. ASSUME NEW t \in Configured', Config(t)'.on, t # cfg.id,
               NEW d \in Config(t)'.domains, OwnDomain(t, d)
        PROVE  Serves(Router, t, d)
    <3>1. t \in Configured /\ Config(t)' = Config(t)
      BY <1>3, <2>1
    <3>2. hreq.site # t
      BY <1>4, <3>1, CellOfIs DEF TypeInv
    <3> QED
      BY <2>1, <3>1, <3>2 DEF KeptInv, ServedInv
  <2>2. \A t, d : Serves(Router, t, d)' <=> Serves(Router, t, d)
    BY <1>6 DEF Serves
  <2> QED
    BY <1>2, <2>1, <2>2 DEF ServedInv, OwnDomain
<1>9. DefaultInv'
  BY <1>2, <1>4 DEF KeptInv, DefaultInv
<1>10. OwnInv'
  <2>1. Own(cfg) /\ \A c \in Listed(heap, slice) : Own(heap[c])
    BY InputsOwn DEF KeptInv, OwnInv
  <2>2. \A c \in Listed(heap, slice)' : Own(heap'[c])
    BY <1>3, <2>1
  <2> QED
    BY <2>2 DEF OwnInv, Own, OwnDomain
<1>11. FlowInv'
  BY <1>2, <1>3, <1>5 DEF FlowInv
<1> QED
  BY <1>7, <1>8, <1>9, <1>10, <1>11 DEF KeptInv

LEMMA LocateKept ==
  ASSUME TypeInv, KeptInv, Orderly, NEW op \in {"start", "stop"}, NEW s \in Sites, Locate(op, s)
  PROVE  KeptInv'
<1>1. /\ s \in Configured /\ action' = [op |-> op, site |-> s, config |-> AtCell(CellOf(s))]
      /\ heap' = heap /\ slice' = slice /\ hosts' = hosts /\ defaultHost' = defaultHost
      /\ hreq' = hreq /\ Asked(op, s)
  BY DEF Locate, router
<1>2. hreq.op # "none" => hreq.site # s
  BY <1>1, AskedIs
<1>3. action'.site = s /\ action'.config = AtCell(CellOf(s))
  BY <1>1
<1>4. /\ VhostsInv' <=> VhostsInv
      /\ ServedInv' <=> ServedInv
      /\ DefaultInv' <=> DefaultInv
      /\ OwnInv' <=> OwnInv
  BY <1>1 DEF VhostsInv, ServedInv, DefaultInv, OwnInv, Uses, Router, HostOK, Serves, Ending,
              Configured, Config, CellOf, Listed, Own, OwnDomain
<1>5. FlowInv'
  <2>1. Configured' = Configured /\ \A t : CellOf(t)' = CellOf(t) /\ Config(t)' = Config(t)
    BY <1>1 DEF Configured, Config, CellOf, Listed
  <2> QED
    BY <1>1, <1>2, <1>3, <2>1 DEF KeptInv, FlowInv, AtCell
<1> QED
  BY <1>4, <1>5 DEF KeptInv

-----------------------------------------------------------------------------
(* The steps that carry a request out.                                      *)

\* The router after a request: q is what it takes away, ptr what it may add.
LEMMA AppliedKept ==
  ASSUME TypeInv, KeptInv, NEW s \in Configured, s = hreq.site,
         heap' = heap, slice' = slice, hreq' = NoRequest,
         NEW q \in RouterType,
         \A vh \in Uses(q) : vh # Nil => vh \in Uses(Router) /\ ~ Ending(vh.handler),
         \A t : \A d \in Domains : Serves(Router, t, d) /\ t # s => Serves(q, t, d),
         q.default = Nil => \A d \in Domains : q.hosts[d] = Nil,
         NEW ptr \in Pointer, Deref(heap, ptr) = Config(s), ptr.cell \in {Nil, CellOf(s)},
         SetRouter(IF Config(s).on THEN AddHost(q, heap, ptr) ELSE q)
  PROVE  VhostsInv' /\ ServedInv' /\ DefaultInv'
<1>1. /\ CellOf(s) \in Listed(heap, slice) /\ Config(s) = heap[CellOf(s)]
      /\ Config(s) \in SiteConfig /\ Config(s).id = s /\ s \in Sites
  BY CellOfIs DEF TypeInv
<1>2. Configured' = Configured /\ \A t : Config(t)' = Config(t)
  BY DEF Configured, Config, CellOf, Listed
<1>3. ASSUME NEW vh \in Uses(q), vh # Nil PROVE HostOK(vh)'
  BY <1>3, HostStays DEF KeptInv, VhostsInv
<1>4. Own(Config(s))
  BY <1>1 DEF KeptInv, OwnInv
<1>5. ASSUME NEW t \in Configured', Config(t)'.on, t # s, NEW d \in Config(t)'.domains, OwnDomain(t, d)
      PROVE  d \in Domains /\ d \notin Config(s).domains /\ Serves(q, t, d)
  <2>1. t \in Sites /\ d \in Domains
    BY <1>2, <1>5, CellOfIs DEF TypeInv, SiteConfig
  <2>2. Serves(Router, t, d)
    BY <1>2, <1>5 DEF KeptInv, ServedInv
  <2>3. d \notin Config(s).domains
    BY <1>1, <1>4, <1>5, <2>1 DEF Own
  <2> QED
    BY <1>5, <2>1, <2>2, <2>3
<1>6. CASE Config(s).on
  <2> DEFINE r   == AddHost(q, heap, ptr)
             new == [config |-> ptr, handler |-> s]
  <2>1. SetRouter(r)
    BY <1>6
  <2>2. /\ r \in RouterType /\ new \in VirtualHost
        /\ \A vh \in Uses(r) : vh \in Uses(q) \/ vh = new
        /\ \A d \in Config(s).domains : Serves(r, s, d)
        /\ \A t : \A d \in Domains : Serves(q, t, d) /\ d \notin Config(s).domains => Serves(r, t, d)
        /\ r.default # Nil
    BY <1>1, <1>6, AddedUses
  <2>3. HostOK(new)
    <3>1. new.config = ptr /\ new.handler = s
      OBVIOUS
    <3> HIDE DEF new
    <3> QED
      BY <1>1, <1>6, <3>1 DEF HostOK
  <2>4. ~ Ending(s)'
    BY DEF Ending, NoRequest
  <2>5. HostOK(new)'
    <3>1. new.config = ptr /\ new.handler = s
      OBVIOUS
    <3>2. Listed(heap, slice)' = Listed(heap, slice)
      BY DEF Listed
    <3> HIDE DEF new
    <3> QED
      BY <1>1, <1>2, <1>6, <3>1, <3>2 DEF HostOK, Deref
  <2> HIDE DEF r, new
  <2>6. VhostsInv'
    BY <1>3, <2>1, <2>2, <2>5, VhostsSet
  <2>7. DefaultInv'
    BY <2>1, <2>2, DefaultSet
  <2>8. ServedInv'
    <3>1. ASSUME NEW t \in Configured', Config(t)'.on, NEW d \in Config(t)'.domains, OwnDomain(t, d)
          PROVE  Serves(Router, t, d)'
      <4>1. Serves(r, t, d)
        BY <1>2, <1>5, <2>2, <3>1
      <4> QED
        BY <2>1, <2>2, <4>1, ServesSet
    <3> QED
      BY <3>1 DEF ServedInv, OwnDomain
  <2> QED
    BY <2>6, <2>7, <2>8
<1>7. CASE ~ Config(s).on
  <2>1. SetRouter(q)
    BY <1>7
  <2>2. VhostsInv'
    BY <1>3, <2>1, VhostsSet
  <2>3. DefaultInv'
    BY <2>1, DefaultSet
  <2>4. ServedInv'
    <3>1. ASSUME NEW t \in Configured', Config(t)'.on, NEW d \in Config(t)'.domains, OwnDomain(t, d)
          PROVE  Serves(Router, t, d)'
      <4>1. Serves(q, t, d)
        BY <1>2, <1>5, <1>7, <3>1
      <4> QED
        BY <2>1, <4>1, ServesSet
    <3> QED
      BY <3>1 DEF ServedInv, OwnDomain
  <2> QED
    BY <2>2, <2>3, <2>4
<1> QED
  BY <1>6, <1>7

LEMMA ApplyRequestKept ==
  ASSUME TypeInv, KeptInv, ApplyRequest
  PROVE  KeptInv'
<1> DEFINE s == hreq.site
           Routed == VhostsInv' /\ ServedInv' /\ DefaultInv'
<1>1. /\ hreq # NoRequest /\ hreq' = NoRequest /\ heap' = heap /\ slice' = slice
      /\ action = NoAction /\ action' = NoAction
  BY DEF ApplyRequest
<1>2. hreq.op # "none" /\ hreq.op # "delete" /\ s \in Configured
  BY <1>1 DEF TypeInv, RequestInv, KeptInv, FlowInv
<1>3. \/ hreq.op = "create" /\ AddSiteRuntime(AtCopy(hreq.arg))
      \/ hreq.op = "enable" /\ AddSiteRuntime(AtCell(CellOf(s)))
      \/ hreq.op = "update" /\ UpdateSiteRuntime(s)
      \/ hreq.op = "disable" /\ DeleteSiteRuntime(s)
  BY <1>1, <1>2 DEF ApplyRequest, TypeInv, TypeOK
<1>4. Router \in RouterType /\ Router.hosts = hosts /\ Router.default = defaultHost
  BY RouterIs DEF TypeInv
<1>5. /\ AtCell(CellOf(s)) \in Pointer /\ Deref(heap, AtCell(CellOf(s))) = Config(s)
      /\ AtCell(CellOf(s)).cell = CellOf(s)
  BY <1>2, CellOfIs, PointsTo DEF TypeInv
<1>6. ASSUME NEW ptr \in Pointer, Deref(heap, ptr) = Config(s), ptr.cell \in {Nil, CellOf(s)},
             AddSiteRuntime(ptr), hreq.op \in {"create", "enable"}
      PROVE  Routed
  <2>1. \A t : ~ Ending(t)
    BY <1>6 DEF Ending
  <2>2. SetRouter(IF Config(s).on THEN AddHost(Router, heap, ptr) ELSE Router)
    BY <1>4, <1>6 DEF AddSiteRuntime, SetRouter, router
  <2>3. Router.default = Nil => \A d \in Domains : Router.hosts[d] = Nil
    BY <1>4, <2>1 DEF KeptInv, DefaultInv
  <2> HIDE DEF s
  <2> QED
    BY <1>1, <1>2, <1>4, <1>6, <2>1, <2>2, <2>3, AppliedKept DEF s
<1>7. ASSUME NEW q \in RemoveHost(Router, heap, s), hreq.op \in {"update", "disable"},
             SetRouter(IF Config(s).on THEN AddHost(q, heap, AtCell(CellOf(s))) ELSE q)
      PROVE  Routed
  <2>1. /\ q \in RouterType
        /\ \A vh \in Uses(q) : vh # Nil => vh \in Uses(Router) /\ vh.handler # s
        /\ \A t : \A d \in Domains : Serves(Router, t, d) /\ t # s => Serves(q, t, d)
    BY RemovedUses DEF TypeInv, KeptInv
  <2>2. q.default = Nil => \A d \in Domains : q.hosts[d] = Nil
    <3>1. ASSUME q.default = Nil, NEW d \in Domains, q.hosts[d] # Nil PROVE FALSE
      BY <3>1, RemovedDefault DEF TypeInv, KeptInv, Ending
    <3> QED
      BY <3>1
  <2>3. \A vh \in Uses(q) : vh # Nil => vh \in Uses(Router) /\ ~ Ending(vh.handler)
    BY <2>1 DEF Ending
  <2> HIDE DEF s
  <2>4. s = hreq.site
    BY DEF s
  <2> QED
    BY <1>1, <1>2, <1>5, <1>7, <2>1, <2>2, <2>3, <2>4, AppliedKept
<1>8. Routed
  <2>1. CASE hreq.op = "create" /\ AddSiteRuntime(AtCopy(hreq.arg))
    <3>1. hreq.arg = Config(s) /\ hreq.arg \in SiteConfig
      BY <2>1 DEF KeptInv, FlowInv, TypeInv, RequestInv
    <3>2. /\ AtCopy(hreq.arg) \in Pointer /\ Deref(heap, AtCopy(hreq.arg)) = Config(s)
          /\ AtCopy(hreq.arg).cell = Nil
      BY <3>1, CopyIs
    <3> QED
      BY <1>6, <2>1, <3>2
  <2>2. CASE hreq.op = "enable" /\ AddSiteRuntime(AtCell(CellOf(s)))
    BY <1>5, <1>6, <2>2
  <2>3. CASE hreq.op = "update" /\ UpdateSiteRuntime(s)
    BY <1>7, <2>3 DEF UpdateSiteRuntime
  <2>4. CASE hreq.op = "disable" /\ DeleteSiteRuntime(s)
    <3>1. ~ Config(s).on
      BY <2>4 DEF KeptInv, FlowInv
    <3>2. PICK q \in RemoveHost(Router, heap, s) : SetRouter(q)
      BY <2>4 DEF DeleteSiteRuntime
    <3> QED
      BY <1>7, <2>4, <3>1, <3>2
  <2> QED
    BY <1>3, <2>1, <2>2, <2>3, <2>4
<1>9. OwnInv'
  BY <1>1 DEF KeptInv, OwnInv, Own, OwnDomain, Listed
<1>10. FlowInv'
  BY <1>1 DEF FlowInv, NoRequest, NoAction
<1> QED
  BY <1>8, <1>9, <1>10 DEF KeptInv

-----------------------------------------------------------------------------
(* The steps of StartSite, StopSite and the start of the service.           *)

\* Nothing but the action, or the request, is over.
LEMMA RestKept ==
  ASSUME KeptInv, heap' = heap, slice' = slice, hosts' = hosts, defaultHost' = defaultHost,
         hreq' = hreq, action' \in {action, NoAction}
  PROVE  KeptInv'
<1>1. /\ VhostsInv' <=> VhostsInv
      /\ ServedInv' <=> ServedInv
      /\ DefaultInv' <=> DefaultInv
      /\ OwnInv' <=> OwnInv
  BY DEF VhostsInv, ServedInv, DefaultInv, OwnInv, Uses, Router, HostOK, Serves, Ending,
         Configured, Config, CellOf, Listed, Own, OwnDomain
<1>2. Configured' = Configured /\ \A t : CellOf(t)' = CellOf(t) /\ Config(t)' = Config(t)
  BY DEF Configured, Config, CellOf, Listed
<1>3. FlowInv'
  BY <1>2 DEF KeptInv, FlowInv, AtCell, NoAction
<1> QED
  BY <1>1, <1>3 DEF KeptInv

\* The site the action has found, which no other request is about.
LEMMA ActionIs ==
  ASSUME TypeInv, KeptInv, action.op # "none", NEW v \in BOOLEAN
  PROVE  LET s == action.site
             c == CellOf(s)
             x == [heap[c] EXCEPT !.on = v]
         IN /\ s \in Configured /\ s \in Sites /\ Located = c /\ action.config = AtCell(c)
            /\ AtCell(c) \in Pointer /\ c \in Cells /\ c \in Listed(heap, slice)
            /\ \A hp : Deref(hp, AtCell(c)) = hp[c]
            /\ x \in SiteConfig /\ x.id = s /\ x.on = v /\ x.domains = Config(s).domains
            /\ [heap EXCEPT ![c].on = v] = [heap EXCEPT ![c] = x]
            /\ Own(x) /\ hreq.site # s /\ ~ Ending(s)
<1> DEFINE s == action.site
           c == CellOf(s)
           x == [heap[c] EXCEPT !.on = v]
<1>1. s \in Configured /\ action.config = AtCell(c)
  BY DEF KeptInv, FlowInv
<1>2. /\ c \in Listed(heap, slice) /\ c \in Cells /\ heap[c] \in SiteConfig /\ s \in Sites
      /\ heap[c].id = s /\ Config(s) = heap[c]
  BY <1>1, CellOfIs DEF TypeInv
<1>3. AtCell(c) \in Pointer /\ AtCell(c).cell = c /\ \A hp : Deref(hp, AtCell(c)) = hp[c]
  BY <1>2, PointsTo
<1>4. x \in SiteConfig /\ x.id = s /\ x.on = v /\ x.domains = heap[c].domains
  BY <1>2, Turned
<1>5. [heap EXCEPT ![c].on = v] = [heap EXCEPT ![c] = x]
  BY <1>2 DEF TypeInv, TypeOK
<1>6. Own(heap[c])
  BY <1>2 DEF KeptInv, OwnInv
<1> HIDE DEF x
<1>7. Own(x)
  BY <1>2, <1>4, <1>6 DEF Own
<1>8. hreq.site # s /\ ~ Ending(s)
  <2>1. CASE hreq.op = "none"
    BY <1>2, <2>1, NothingBegun
  <2>2. CASE hreq.op # "none"
    BY <2>2 DEF KeptInv, FlowInv, Ending
  <2> QED
    BY <2>1, <2>2
<1>9. Located = c
  BY <1>1, <1>3 DEF Located
<1> HIDE DEF c
<1> QED
  BY <1>1, <1>2, <1>3, <1>4, <1>5, <1>7, <1>8, <1>9 DEF x, c

\* The slice and the requests after the cell of the action's site is written.
LEMMA ActedKept ==
  ASSUME TypeInv, KeptInv, NEW s, NEW x, Writes(s, x), s \in Sites, hreq' = hreq, action' = NoAction,
         hreq.site # s, Own(x)
  PROVE  OwnInv' /\ FlowInv'
<1>1. /\ Listed(heap, slice)' = Listed(heap, slice)
      /\ \A c \in Cells : heap'[c] = IF c = CellOf(s) THEN x ELSE heap[c]
      /\ Configured' = Configured
      /\ \A t \in Configured : Config(t)' = IF t = s THEN x ELSE Config(t)
  BY WrittenIs DEF TypeInv
<1>2. OwnInv'
  <2>1. Listed(heap, slice) \subseteq Cells
    BY ListedAreCells DEF TypeInv, TypeOK
  <2>2. \A c \in Listed(heap, slice) : Own(heap[c])
    BY DEF KeptInv, OwnInv
  <2>3. \A c \in Listed(heap, slice) : heap'[c] = x \/ heap'[c] = heap[c]
    BY <1>1, <2>1
  <2>4. \A c \in Listed(heap, slice) : Own(heap'[c])
    BY <2>2, <2>3
  <2> QED
    BY <1>1, <2>4 DEF OwnInv, Own, OwnDomain
<1>3. FlowInv'
  <2>1. hreq.op # "none" => hreq.site \in Configured /\ Config(hreq.site)' = Config(hreq.site)
    BY <1>1 DEF KeptInv, FlowInv
  <2> QED
    BY <1>1, <2>1 DEF KeptInv, FlowInv, NoAction
<1> QED
  BY <1>2, <1>3

\* The cell the action has found is enabled, and its virtual host is added.
LEMMA StartedKept ==
  ASSUME TypeInv, KeptInv, NEW s \in Configured, NEW c, NEW x, c = CellOf(s), Writes(s, x),
         x.on, x.domains = Config(s).domains, Own(x), hreq.site # s,
         hreq' = hreq, action' = NoAction, SetRouter(AddHost(Router, heap', AtCell(c)))
  PROVE  KeptInv'
<1>1. /\ s \in Sites /\ c \in Cells /\ c \in Listed(heap, slice)
      /\ AtCell(c) \in Pointer /\ AtCell(c).cell = c /\ \A hp : Deref(hp, AtCell(c)) = hp[c]
      /\ x \in SiteConfig /\ x.id = s
  BY CellOfIs, PointsTo DEF TypeInv, Writes
<1> DEFINE q == AddHost(Router, heap', AtCell(c))
           new == [config |-> AtCell(c), handler |-> s]
<1>2. SetRouter(q)
  OBVIOUS
<1>3. /\ Listed(heap, slice)' = Listed(heap, slice)
      /\ \A e \in Cells : heap'[e] = IF e = c THEN x ELSE heap[e]
      /\ Configured' = Configured
      /\ \A t \in Configured : Config(t)' = IF t = s THEN x ELSE Config(t)
  BY WrittenIs DEF TypeInv
<1>4. Deref(heap', AtCell(c)) = x /\ heap'[c] = x
  BY <1>1, <1>3
<1>5. Router \in RouterType
  BY RouterIs DEF TypeInv
<1>6. /\ q \in RouterType
      /\ \A vh \in Uses(q) : vh \in Uses(Router) \/ vh = new
      /\ \A d \in x.domains : Serves(q, s, d)
      /\ \A t : \A d \in Domains : Serves(Router, t, d) /\ d \notin x.domains => Serves(q, t, d)
      /\ q.default # Nil
  <2> DEFINE hp  == heap'
             ptr == AtCell(c)
  <2>1. /\ Deref(hp, ptr) = x /\ ptr \in Pointer
        /\ q = AddHost(Router, hp, ptr) /\ new = [config |-> ptr, handler |-> x.id]
    BY <1>1, <1>4
  <2> HIDE DEF hp, ptr, q, new
  <2>2. /\ q \in RouterType
        /\ \A vh \in Uses(q) : vh \in Uses(Router) \/ vh = new
        /\ x.on => q.default # Nil
    BY <1>1, <1>5, <2>1, AddedUses
  <2>3. \A d \in x.domains : Serves(q, s, d)
    BY <1>1, <1>5, <2>1, AddedUses
  <2>4. \A t : \A d \in Domains : Serves(Router, t, d) /\ d \notin x.domains => Serves(q, t, d)
    BY <1>1, <1>5, <2>1, AddedUses
  <2> QED
    BY <2>2, <2>3, <2>4
<1>7. HostOK(new)'
  <2>1. new.config = AtCell(c) /\ new.handler = s /\ AtCell(c).cell = c
    BY <1>1, PointsTo
  <2>2. Config(s)' = x
    BY <1>1, <1>3
  <2> HIDE DEF new
  <2>3. Deref(heap, new.config)' = x
    BY <1>4, <2>1 DEF Deref
  <2>4. /\ new.handler \in Configured'
        /\ new.config.cell \in Listed(heap, slice)'
        /\ Config(new.handler)' = x
    BY <1>1, <1>3, <2>1, <2>2
  <2> QED
    BY <1>1, <2>1, <2>3, <2>4 DEF HostOK
<1>8. ASSUME NEW vh \in Uses(Router), vh # Nil PROVE HostOK(vh)'
  <2>1. vh \in VirtualHost /\ HostOK(vh)
    BY <1>8, RouterUses DEF KeptInv, VhostsInv, TypeInv
  <2>2. Ending(vh.handler) => Ending(vh.handler)'
    BY <1>1 DEF Ending
  <2> QED
    BY <1>1, <2>1, <2>2, HostWritten
<1> HIDE DEF q, new
<1>9. VhostsInv'
  BY <1>2, <1>6, <1>7, <1>8, VhostsSet
<1>10. DefaultInv'
  BY <1>2, <1>6, DefaultSet
<1>11. ServedInv'
  <2>1. ASSUME NEW t \in Configured', Config(t)'.on, hreq.site # t,
               NEW d \in Config(t)'.domains, OwnDomain(t, d)
        PROVE  Serves(Router, t, d)'
    <3>1. t \in Configured /\ t \in Sites /\ d \in Domains
      <4>1. t \in Configured
        BY <1>3
      <4>2. t \in Sites /\ Config(t) \in SiteConfig
        BY <4>1, CellOfIs DEF TypeInv
      <4>3. Config(t)' \in SiteConfig
        BY <1>1, <1>3, <4>1, <4>2
      <4> QED
        BY <2>1, <4>1, <4>2, <4>3 DEF SiteConfig
    <3>2. Serves(q, t, d)
      <4>1. CASE t = s
        BY <1>1, <1>3, <1>6, <2>1, <3>1, <4>1
      <4>2. CASE t # s
        <5>1. Config(t)' = Config(t)
          BY <1>3, <3>1, <4>2
        <5>2. Serves(Router, t, d)
          BY <2>1, <3>1, <5>1 DEF KeptInv, ServedInv
        <5>3. d \notin x.domains
          BY <1>1, <2>1, <3>1, <4>2 DEF Own
        <5> QED
          BY <1>6, <3>1, <5>2, <5>3
      <4> QED
        BY <4>1, <4>2
    <3> QED
      BY <1>2, <1>6, <3>2, ServesSet
  <2> QED
    BY <1>1, <2>1 DEF ServedInv, OwnDomain
<1>12. OwnInv' /\ FlowInv'
  BY <1>1, ActedKept
<1> QED
  BY <1>9, <1>10, <1>11, <1>12 DEF KeptInv

LEMMA StartSiteKept ==
  ASSUME TypeInv, KeptInv, StartSite
  PROVE  KeptInv'
<1> DEFINE s == action.site
           c == CellOf(s)
           x == [heap[c] EXCEPT !.on = TRUE]
<1>1. action.op = "start" /\ action' = NoAction /\ slice' = slice /\ hreq' = hreq
  BY DEF StartSite
<1>2. /\ s \in Configured /\ s \in Sites /\ Located = c /\ action.config = AtCell(c)
      /\ AtCell(c) \in Pointer /\ c \in Cells /\ c \in Listed(heap, slice)
      /\ \A hp : Deref(hp, AtCell(c)) = hp[c]
      /\ x \in SiteConfig /\ x.id = s /\ x.on = TRUE /\ x.domains = Config(s).domains
      /\ [heap EXCEPT ![c].on = TRUE] = [heap EXCEPT ![c] = x]
      /\ Own(x) /\ hreq.site # s /\ ~ Ending(s)
  BY <1>1, ActionIs
<1> HIDE DEF x
<1>3. CASE heap[c].on
  <2>1. heap' = heap /\ hosts' = hosts /\ defaultHost' = defaultHost
    BY <1>2, <1>3 DEF StartSite, router
  <2> QED
    BY <1>1, <2>1, RestKept
<1>4. CASE ~ heap[c].on
  <2>1. heap' = [heap EXCEPT ![c] = x] /\ SetRouter(AddHost(Router, heap', AtCell(c)))
    BY <1>2, <1>4 DEF StartSite
  <2>2. Writes(s, x)
    BY <1>1, <1>2, <2>1 DEF Writes
  <2> HIDE DEF s
  <2> QED
    BY <1>1, <1>2, <2>1, <2>2, StartedKept
<1> QED
  BY <1>3, <1>4

LEMMA StopSiteKept ==
  ASSUME TypeInv, KeptInv, StopSite
  PROVE  KeptInv'
<1> DEFINE s == action.site
           c == CellOf(s)
           x == [heap[c] EXCEPT !.on = FALSE]
<1>1. action.op = "stop" /\ action' = NoAction /\ slice' = slice /\ hreq' = hreq
  BY DEF StopSite
<1>2. /\ s \in Configured /\ s \in Sites /\ Located = c
      /\ c \in Cells /\ c \in Listed(heap, slice)
      /\ x \in SiteConfig /\ x.id = s /\ x.on = FALSE
      /\ [heap EXCEPT ![c].on = FALSE] = [heap EXCEPT ![c] = x]
      /\ Own(x) /\ hreq.site # s /\ ~ Ending(s)
  BY <1>1, ActionIs
<1> HIDE DEF x
<1>3. CASE ~ heap[c].on
  <2>1. heap' = heap /\ hosts' = hosts /\ defaultHost' = defaultHost
    BY <1>2, <1>3 DEF StopSite, router
  <2> QED
    BY <1>1, <2>1, RestKept
<1>4. CASE heap[c].on
  <2>1. PICK q \in RemoveHost(Router, heap, s) : heap' = [heap EXCEPT ![c] = x] /\ SetRouter(q)
    BY <1>2, <1>4 DEF StopSite
  <2>2. Writes(s, x)
    BY <1>1, <1>2, <2>1 DEF Writes
  <2>3. /\ Configured' = Configured
        /\ \A t \in Configured : Config(t)' = IF t = s THEN x ELSE Config(t)
    BY <2>2, WrittenIs DEF TypeInv
  <2>4. /\ q \in RouterType
        /\ \A vh \in Uses(q) : vh # Nil => vh \in Uses(Router) /\ vh.handler # s
        /\ \A t : \A d \in Domains : Serves(Router, t, d) /\ t # s => Serves(q, t, d)
    BY RemovedUses DEF TypeInv, KeptInv
  <2>5. ASSUME NEW vh \in Uses(q), vh # Nil PROVE HostOK(vh)'
    <3>1. vh \in VirtualHost /\ HostOK(vh) /\ vh.handler # s
      BY <2>4, <2>5, RouterUses DEF KeptInv, VhostsInv, TypeInv
    <3>2. Ending(vh.handler) => Ending(vh.handler)'
      BY <1>1 DEF Ending
    <3> QED
      BY <2>2, <3>1, <3>2, HostWritten
  <2>6. VhostsInv'
    BY <2>1, <2>4, <2>5, VhostsSet
  <2>7. DefaultInv'
    <3>1. ASSUME q.default = Nil, NEW d \in Domains, q.hosts[d] # Nil PROVE Ending(q.hosts[d].handler)'
      <4>1. Ending(q.hosts[d].handler)
        BY <3>1, RemovedDefault DEF TypeInv, KeptInv
      <4> QED
        BY <1>1, <4>1 DEF Ending
    <3> QED
      BY <2>1, <2>4, <3>1, DefaultSet
  <2>8. ServedInv'
    <3>1. ASSUME NEW t \in Configured', Config(t)'.on, hreq.site # t,
                 NEW d \in Config(t)'.domains, OwnDomain(t, d)
          PROVE  Serves(Router, t, d)'
      <4>1. t \in Configured /\ t # s /\ Config(t)' = Config(t)
        BY <1>2, <2>3, <3>1
      <4>2. d \in Domains
        BY <3>1, <4>1, CellOfIs DEF TypeInv, SiteConfig
      <4>3. Serves(Router, t, d)
        BY <3>1, <4>1 DEF KeptInv, ServedInv
      <4> QED
        BY <2>1, <2>4, <4>1, <4>2, <4>3, ServesSet
    <3> QED
      BY <1>1, <3>1 DEF ServedInv, OwnDomain
  <2>9. OwnInv' /\ FlowInv'
    BY <1>1, <1>2, <2>2, ActedKept
  <2> QED
    BY <2>6, <2>7, <2>8, <2>9 DEF KeptInv
<1> QED
  BY <1>3, <1>4

\* Whatever the router was, every enabled site gets the domains that are its own.
LEMMA EnabledAdded ==
  ASSUME TypeInv, OwnInv, NEW r \in RouterType, NEW q, q = AddEnabled(r, heap, slice),
         \A vh \in Uses(r) : vh # Nil => HostOK(vh),
         r.default = Nil => \A d \in Domains : r.hosts[d] = Nil
  PROVE  /\ q \in RouterType
         /\ \A vh \in Uses(q) : vh # Nil => HostOK(vh)
         /\ \A s \in Configured : Config(s).on =>
              \A d \in Config(s).domains : OwnDomain(s, d) => Serves(q, s, d)
         /\ q.default = Nil => \A d \in Domains : q.hosts[d] = Nil
<1> DEFINE L == Listed(heap, slice)
<1>1. /\ slice \in [arr : Arrays, len : Nat] /\ slice.len <= Capacity[slice.arr]
      /\ \A c \in L : heap[c] \in SiteConfig
  BY DEF TypeInv, TypeOK, ShapeInv
<1>2. /\ q \in RouterType
      /\ \A d \in Domains :
           \/ q.hosts[d] = r.hosts[d] /\ \A c \in L : ~ (heap[c].on /\ d \in heap[c].domains)
           \/ \E c \in L : heap[c].on /\ d \in heap[c].domains /\ q.hosts[d] = HostOf(heap, c)
      /\ \/ q.default = r.default /\ (r.default # Nil \/ \A c \in L : ~ heap[c].on)
         \/ \E c \in L : heap[c].on /\ q.default = HostOf(heap, c)
  BY <1>1, AddEnabledIs
<1>3. ASSUME NEW c \in L, heap[c].on
      PROVE  HostOK(HostOf(heap, c)) /\ HostOf(heap, c) # Nil /\ HostOf(heap, c).handler = heap[c].id
  BY <1>3, FreshHost
<1>4. ASSUME NEW vh \in Uses(q), vh # Nil PROVE HostOK(vh)
  <2>1. CASE vh \in Uses(r)
    BY <1>4, <2>1
  <2>2. CASE \E c \in L : heap[c].on /\ vh = HostOf(heap, c)
    BY <1>3, <2>2
  <2>3. vh = q.default \/ \E d \in Domains : vh = q.hosts[d]
    BY DEF Uses
  <2> QED
    BY <1>2, <2>1, <2>2, <2>3 DEF Uses
<1>5. ASSUME NEW s \in Configured, Config(s).on, NEW d \in Config(s).domains, OwnDomain(s, d)
      PROVE  Serves(q, s, d)
  <2>1. /\ CellOf(s) \in L /\ heap[CellOf(s)].on /\ d \in heap[CellOf(s)].domains
        /\ d \in Domains /\ s \in Sites
    BY <1>5, CellOfIs DEF TypeInv, SiteConfig
  <2>2. PICK c \in L : heap[c].on /\ d \in heap[c].domains /\ q.hosts[d] = HostOf(heap, c)
    BY <1>2, <2>1
  <2>3. heap[c].id = s
    BY <1>5, <2>1, <2>2 DEF OwnInv, Own
  <2> QED
    BY <1>3, <2>2, <2>3 DEF Serves
<1>6. ASSUME q.default = Nil, NEW d \in Domains PROVE q.hosts[d] = Nil
  <2>1. q.default = r.default /\ \A c \in L : ~ heap[c].on
    BY <1>2, <1>3, <1>6
  <2> QED
    BY <1>2, <1>6, <2>1
<1> QED
  BY <1>2, <1>4, <1>5, <1>6

LEMMA RestartKept ==
  ASSUME TypeInv, KeptInv, Orderly, RestartSitesServer
  PROVE  KeptInv'
<1>1. /\ SetRouter(AddEnabled(Router, heap, slice)) /\ heap' = heap /\ slice' = slice
      /\ hreq' = hreq /\ action' = action /\ Busy = {}
  BY DEF RestartSitesServer, Orderly
<1>2. \A t : ~ Ending(t)
  <2>1. hreq.op # "none" => hreq.site \in Busy
    BY VhostRoutingAssumption DEF Busy, TypeInv, RequestInv
  <2> QED
    BY <1>1, <2>1, NothingBegun
<1>3. Router \in RouterType /\ Router.hosts = hosts /\ Router.default = defaultHost
  BY RouterIs DEF TypeInv
<1> DEFINE q == AddEnabled(Router, heap, slice)
<1>4. /\ \A vh \in Uses(Router) : vh # Nil => HostOK(vh)
      /\ Router.default = Nil => \A d \in Domains : Router.hosts[d] = Nil
      /\ OwnInv
  BY <1>2, <1>3 DEF KeptInv, VhostsInv, DefaultInv
<1>5. /\ q \in RouterType
      /\ \A vh \in Uses(q) : vh # Nil => HostOK(vh)
      /\ \A s \in Configured : Config(s).on =>
           \A d \in Config(s).domains : OwnDomain(s, d) => Serves(q, s, d)
      /\ q.default = Nil => \A d \in Domains : q.hosts[d] = Nil
  BY <1>3, <1>4, EnabledAdded
<1>6. SetRouter(q)
  BY <1>1
<1> HIDE DEF q
<1>7. VhostsInv'
  <2>1. ASSUME NEW vh \in Uses(q), vh # Nil PROVE HostOK(vh)'
    BY <1>1, <1>2, <1>5, <2>1, HostStays
  <2> QED
    BY <1>5, <1>6, <2>1, VhostsSet
<1>8. DefaultInv'
  BY <1>5, <1>6, DefaultSet
<1>9. ServedInv'
  <2>1. Configured' = Configured /\ \A t : Config(t)' = Config(t)
    BY <1>1 DEF Configured, Config, CellOf, Listed
  <2>2. ASSUME NEW s \in Configured, Config(s).on, NEW d \in Config(s).domains, OwnDomain(s, d)
        PROVE  Serves(Router, s, d)'
    BY <1>5, <1>6, <2>2, ServesSet
  <2> QED
    BY <2>1, <2>2 DEF ServedInv, OwnDomain
<1>10. OwnInv'
  BY <1>1 DEF KeptInv, OwnInv, Own, OwnDomain, Listed
<1>11. FlowInv'
  BY <1>1 DEF KeptInv, FlowInv, AtCell, Configured, Config, CellOf, Listed
<1> QED
  BY <1>7, <1>8, <1>9, <1>10, <1>11 DEF KeptInv

LEMMA InitKept ==
  ASSUME Init
  PROVE  KeptInv
<1>1. TypeInv
  BY InitTyped
<1>2. hreq.op = "none" /\ action.op = "none"
  BY DEF Init, NoRequest, NoAction
<1>3. OwnInv
  <2>1. PICK init \in InitialSites :
          /\ \A i \in 1..Len(init) : heap[<<1, i>>] = init[i] /\ i \in DOMAIN init
          /\ Listed(heap, slice) = {<<1, i>> : i \in 1..Len(init)}
    BY InitIs
  <2>2. ASSUME NEW i \in 1..Len(init) PROVE Own(init[i])
    <3>1. init[i] \in {init[j] : j \in DOMAIN init}
      BY <2>1
    <3>2. init[i] \in UNION {{ini[j] : j \in DOMAIN ini} : ini \in InitialSites}
      BY <3>1
    <3> QED
      BY <3>2 DEF Own, OwnDomain
  <2> QED
    BY <2>1, <2>2 DEF OwnInv
<1> DEFINE empty == [hosts |-> [d \in Domains |-> Nil], default |-> Nil]
           q     == AddEnabled(empty, heap, slice)
<1>4. empty \in RouterType /\ empty.default = Nil /\ \A d \in Domains : empty.hosts[d] = Nil
  BY EmptyRouter
<1>5. hosts = q.hosts /\ defaultHost = q.default
  BY DEF Init
<1> HIDE DEF empty
<1>6. /\ \A vh \in Uses(q) : vh # Nil => HostOK(vh)
      /\ \A s \in Configured : Config(s).on =>
           \A d \in Config(s).domains : OwnDomain(s, d) => Serves(q, s, d)
      /\ q.default = Nil => \A d \in Domains : q.hosts[d] = Nil
  <2>1. \A vh \in Uses(empty) : vh # Nil => HostOK(vh)
    BY <1>4 DEF Uses
  <2> HIDE DEF q
  <2>2. q = AddEnabled(empty, heap, slice)
    BY DEF q
  <2> QED
    BY <1>1, <1>3, <1>4, <2>1, <2>2, EnabledAdded
<1> HIDE DEF q
<1>7. VhostsInv /\ ServedInv /\ DefaultInv
  <2>1. Uses(Router) = Uses(q) /\ \A s, d : Serves(Router, s, d) <=> Serves(q, s, d)
    BY <1>5 DEF Router, Uses, Serves
  <2> QED
    BY <1>5, <1>6, <2>1 DEF VhostsInv, ServedInv, DefaultInv
<1>8. FlowInv
  BY <1>2 DEF FlowInv
<1> QED
  BY <1>3, <1>7, <1>8 DEF KeptInv

LEMMA NextKept ==
  ASSUME TypeInv, OrderInv, [Next]_vars
  PROVE  OrderInv'
<1>1. Orderly' => Orderly
  BY DEF Next, vars, CreateSite, UpdateSite, DeleteSite, Toggle, Begin, Locate, ApplyRequest,
         SaveFails, StartSite, StopSite, RestartSitesServer, Orderly
<1> SUFFICES ASSUME Orderly PROVE KeptInv'
  BY <1>1 DEF OrderInv
<1>2. KeptInv
  BY DEF OrderInv
<1>3. ASSUME NEW cfg \in Inputs, CreateSite(cfg) \/ UpdateSite(cfg) PROVE KeptInv'
  BY <1>2, <1>3, CreateSiteKept, UpdateSiteKept
<1>4. ASSUME NEW s \in Sites, DeleteSite(s) PROVE FALSE
  BY <1>4 DEF DeleteSite, Asked, Orderly
<1>5. ASSUME NEW s \in Sites, Toggle("enable", s) \/ Toggle("disable", s) PROVE KeptInv'
  BY <1>2, <1>5, ToggleKept
<1>6. ASSUME NEW s \in Sites, Locate("start", s) \/ Locate("stop", s) PROVE KeptInv'
  BY <1>2, <1>6, LocateKept
<1>7. ASSUME SaveFails PROVE FALSE
  BY <1>7 DEF SaveFails, Orderly
<1>8. CASE UNCHANGED vars
  BY <1>2, <1>8, RestKept DEF vars
<1> QED
  BY <1>2, <1>3, <1>4, <1>5, <1>6, <1>7, <1>8, ApplyRequestKept, StartSiteKept, StopSiteKept,
     RestartKept DEF Next

LEMMA OrderStays == Spec => [](TypeInv /\ OrderInv)
<1>1. Init => TypeInv /\ OrderInv
  BY InitTyped, InitKept DEF OrderInv
<1>2. TypeInv /\ OrderInv /\ [Next]_vars => (TypeInv /\ OrderInv)'
  BY NextTyped, NextKept
<1> QED
  BY <1>1, <1>2, PTL DEF Spec

-----------------------------------------------------------------------------
(* What is served.                                                          *)

LEMMA ServedUses ==
  ASSUME TypeInv, KeptInv, NEW d \in Domains, NEW s \in ServedBy(d)
  PROVE  s \in Sites /\ (Config(s).on \/ s \in Busy)
<1>1. Wildcards \subseteq Domains /\ Nil \notin Sites
  BY VhostRoutingAssumption
<1>2. PICK vh \in Uses(Router) : vh # Nil /\ vh.handler = s
  <2> DEFINE wild == {w \in Wildcards : d \in Covers[w] /\ IsOn(hosts[w], heap)}
  <2>1. \/ IsOn(hosts[d], heap) /\ s = hosts[d].handler
        \/ \E w \in wild : s = hosts[w].handler
        \/ IsOn(defaultHost, heap) /\ s = defaultHost.handler
    BY DEF ServedBy
  <2>2. defaultHost \in Uses(Router) /\ \A e \in Domains : hosts[e] \in Uses(Router)
    BY DEF Uses, Router
  <2> QED
    BY <1>1, <2>1, <2>2 DEF IsOn
<1>3. HostOK(vh)
  BY <1>2 DEF KeptInv, VhostsInv
<1>4. s \in Sites
  BY <1>2, <1>3, CellOfIs DEF HostOK, TypeInv
<1> QED
  BY <1>1, <1>2, <1>3, <1>4 DEF HostOK, Ending, Busy

(***************************************************************************)
(* A disabled site is not served: its virtual hosts may point to a cell    *)
(* that still says it is enabled, but none of them is left in the router.  *)
(***************************************************************************)
THEOREM DisabledStaysUnserved == Spec => []DisabledSiteNotServed
<1>1. TypeInv /\ OrderInv => DisabledSiteNotServed
  BY ServedUses DEF OrderInv, DisabledSiteNotServed
<1> QED
  BY <1>1, OrderStays, PTL

(***************************************************************************)
(* An enabled site answers for the domains that are its own: the requests  *)
(* of other sites leave its virtual hosts alone, and each of its own makes *)
(* new ones of the cell it is in.                                          *)
(***************************************************************************)
THEOREM EnabledStaysServed == Spec => []EnabledSiteServed
<1>1. ASSUME TypeInv, KeptInv, NEW s \in Configured, Config(s).on, s \notin Busy,
             NEW d \in Config(s).domains, OwnDomain(s, d)
      PROVE  ServedBy(d) = {s}
  <2>1. s \in Sites /\ s # Nil /\ d \in Domains
    BY <1>1, CellOfIs, VhostRoutingAssumption DEF TypeInv, SiteConfig
  <2>2. hreq.site # s
    BY <1>1, <2>1 DEF Busy
  <2>3. hosts[d] # Nil /\ hosts[d].handler = s
    BY <1>1, <2>2 DEF KeptInv, ServedInv, Serves, Router
  <2>4. HostOK(hosts[d])
    BY <1>1, <2>1, <2>3 DEF KeptInv, VhostsInv, Uses, Router
  <2>5. IsOn(hosts[d], heap)
    BY <2>2, <2>3, <2>4 DEF HostOK, Ending, IsOn
  <2> QED
    BY <2>3, <2>5 DEF ServedBy
<1>2. TypeInv /\ OrderInv => EnabledSiteServed
  BY <1>1 DEF OrderInv, EnabledSiteServed
<1> QED
  BY <1>2, OrderStays, PTL

(***************************************************************************)
(* There is a default host as long as an enabled site has a domain of its  *)
(* own: RemoveHost picks another one when it takes the default host away.  *)
(***************************************************************************)
THEOREM DefaultStaysPicked == Spec => []DefaultHostPicked
<1>1. ASSUME TypeInv, KeptInv, Busy = {},
             NEW s \in Configured, Config(s).on, NEW d \in Config(s).domains, OwnDomain(s, d),
             NEW e \in Domains
      PROVE  ServedBy(e) # {}
  <2>1. s \in Sites /\ d \in Domains /\ Nil \notin Sites
    BY <1>1, CellOfIs, VhostRoutingAssumption DEF TypeInv, SiteConfig
  <2>2. \A t \in Sites : hreq.site # t
    BY <1>1, <2>1 DEF Busy
  <2>3. hosts[d] # Nil
    BY <1>1, <2>1, <2>2 DEF KeptInv, ServedInv, Serves, Router
  <2>4. ASSUME NEW vh \in Uses(Router), vh # Nil PROVE HostOK(vh) /\ ~ Ending(vh.handler)
    <3>1. HostOK(vh)
      BY <1>1, <2>4 DEF KeptInv, VhostsInv
    <3>2. vh.handler \in Sites
      BY <1>1, <3>1, CellOfIs DEF HostOK, TypeInv
    <3> QED
      BY <2>2, <3>1, <3>2 DEF Ending
  <2>5. defaultHost # Nil
    BY <1>1, <2>1, <2>3, <2>4 DEF KeptInv, DefaultInv, Uses, Router
  <2>6. IsOn(defaultHost, heap)
    BY <2>4, <2>5 DEF HostOK, IsOn, Uses, Router
  <2> DEFINE wild == {w \in Wildcards : e \in Covers[w] /\ IsOn(hosts[w], heap)}
  <2>7. wild # {} => {hosts[w].handler : w \in wild} # {}
    OBVIOUS
  <2> QED
    BY <2>6, <2>7 DEF ServedBy
<1>2. TypeInv /\ OrderInv => DefaultHostPicked
  BY <1>1 DEF OrderInv, DefaultHostPicked
<1> QED
  BY <1>2, OrderStays, PTL

-----------------------------------------------------------------------------
(* The loop of StartSitesServer.                                            *)

\* A set of positions that gets a later one.
LEMMA OneMore ==
  ASSUME NEW n \in Nat, NEW S \in SUBSET (1..n)
  PROVE  /\ Greatest(S \cup {n + 1}) = n + 1
         /\ Least(S \cup {n + 1}) = IF S = {} THEN n + 1 ELSE Least(S)
<1> DEFINE T == S \cup {n + 1}
<1>1. T \in SUBSET (1..(n + 1)) /\ T \in SUBSET Nat /\ T # {} /\ n + 1 \in T /\ n + 1 \in Nat
  OBVIOUS
<1>2. S \in SUBSET Nat /\ \A i \in S : i < n + 1
  OBVIOUS
<1>3. \A i \in T : i \in S \/ i = n + 1
  OBVIOUS
<1>4. S \subseteq T
  OBVIOUS
<1> HIDE DEF T
<1>5. Greatest(T) \in T /\ \A j \in T : j <= Greatest(T)
  BY <1>1, GreatestIsThere
<1>6. Greatest(T) = n + 1
  <2> DEFINE m == Greatest(T)
  <2>1. m \in T /\ n + 1 <= m
    BY <1>1, <1>5
  <2> HIDE DEF m
  <2>2. m \in S => m \in Nat /\ m < n + 1
    BY <1>2
  <2>3. m = n + 1
    BY <1>1, <1>3, <2>1, <2>2
  <2> QED
    BY <2>3 DEF m
<1>7. Least(T) \in T /\ \A j \in T : Least(T) <= j
  BY <1>1, LeastIsThere
<1>8. CASE S = {}
  BY <1>3, <1>6, <1>7, <1>8 DEF T
<1>9. CASE S # {}
  <2>1. Least(S) \in S /\ \A j \in S : Least(S) <= j
    BY <1>2, <1>9, LeastIsThere
  <2>2. Least(T) \in S
    <3>1. Least(S) < n + 1 /\ Least(S) \in T /\ Least(S) \in Nat
      BY <1>2, <1>4, <2>1
    <3>2. Least(T) <= Least(S)
      BY <1>7, <3>1
    <3>3. Least(T) # n + 1
      BY <3>1, <3>2
    <3> QED
      BY <1>3, <1>7, <3>3
  <2>3. Least(T) <= Least(S) /\ Least(S) <= Least(T) /\ Least(T) \in Nat /\ Least(S) \in Nat
    BY <1>2, <1>4, <1>7, <2>1, <2>2
  <2>4. Least(T) = Least(S)
    BY <2>3
  <2> QED
    BY <1>6, <1>9, <2>4 DEF T
<1> QED
  BY <1>8, <1>9

\* The slice of the first i sites.
Upto(sl, i) == [sl EXCEPT !.len = i]

LEMMA NoneAdded ==
  ASSUME NEW r \in RouterType, NEW hp, NEW sl \in [arr : Arrays, len : Nat]
  PROVE  AddEnabled(r, hp, Upto(sl, 0)) = r
<1> DEFINE z == Upto(sl, 0)
<1>1. z.len = 0 /\ z.arr = sl.arr
  BY DEF Upto
<1>2. Enabled(hp, z) = {}
  BY <1>1 DEF Enabled
<1> HIDE DEF z
<1>3. AddEnabled(r, hp, z) = [hosts |-> [d \in Domains |-> r.hosts[d]], default |-> r.default]
  BY <1>2 DEF AddEnabled
<1>4. r = [hosts |-> [d \in Domains |-> r.hosts[d]], default |-> r.default]
  BY DEF RouterType
<1> QED
  BY <1>3, <1>4 DEF z

LEMMA OneAdded ==
  ASSUME NEW r \in RouterType, NEW hp, NEW sl \in [arr : Arrays, len : Nat],
         sl.len <= Capacity[sl.arr], \A c \in Listed(hp, sl) : hp[c] \in SiteConfig,
         NEW n \in Nat, n + 1 <= sl.len
  PROVE  AddEnabled(r, hp, Upto(sl, n + 1)) =
           IF hp[<<sl.arr, n + 1>>].on
           THEN AddHost(AddEnabled(r, hp, Upto(sl, n)), hp, AtCell(<<sl.arr, n + 1>>))
           ELSE AddEnabled(r, hp, Upto(sl, n))
<1> DEFINE y  == Upto(sl, n)
           z  == Upto(sl, n + 1)
           c  == <<sl.arr, n + 1>>
           on == Enabled(hp, y)
           cl(d) == {i \in on : d \in hp[<<sl.arr, i>>].domains}
           more == Enabled(hp, z)
           ml(d) == {i \in more : d \in hp[<<sl.arr, i>>].domains}
           old == AddEnabled(r, hp, y)
<1>1. y.len = n /\ y.arr = sl.arr /\ z.len = n + 1 /\ z.arr = sl.arr
  BY DEF Upto
<1>2. c \in Listed(hp, sl) /\ hp[c] \in SiteConfig
  BY DEF Listed
<1>3. c \in Cells /\ \A hq : Deref(hq, AtCell(c)) = hq[c]
  BY <1>2, ListedAreCells, PointsTo
<1>4. on \in SUBSET (1..n) /\ \A d : cl(d) \in SUBSET (1..n)
  BY <1>1 DEF Enabled
<1>5. /\ on = {i \in 1..n : hp[<<sl.arr, i>>].on}
      /\ more = {i \in 1..(n + 1) : hp[<<sl.arr, i>>].on}
  BY <1>1 DEF Enabled
<1>6. old = [hosts   |-> [d \in Domains |-> IF cl(d) = {} THEN r.hosts[d]
                                            ELSE HostOf(hp, <<sl.arr, Greatest(cl(d))>>)],
             default |-> IF r.default = Nil /\ on # {}
                         THEN HostOf(hp, <<sl.arr, Least(on)>>) ELSE r.default]
  BY <1>1 DEF AddEnabled
<1>7. AddEnabled(r, hp, z) =
        [hosts   |-> [d \in Domains |-> IF ml(d) = {} THEN r.hosts[d]
                                        ELSE HostOf(hp, <<sl.arr, Greatest(ml(d))>>)],
         default |-> IF r.default = Nil /\ more # {}
                     THEN HostOf(hp, <<sl.arr, Least(more)>>) ELSE r.default]
  BY <1>1 DEF AddEnabled
<1>8. CASE ~ hp[c].on
  <2>1. more = on
    BY <1>5, <1>8
  <2> HIDE DEF on, more
  <2>2. AddEnabled(r, hp, z) = old
    BY <1>6, <1>7, <2>1
  <2> QED
    BY <1>8, <2>2
<1>9. CASE hp[c].on
  <2>1. more = on \cup {n + 1}
    BY <1>5, <1>9
  <2>2. \A d : ml(d) = IF d \in hp[c].domains THEN cl(d) \cup {n + 1} ELSE cl(d)
    <3> HIDE DEF on, more
    <3> QED
      BY <2>1
  <2>3. \A d : Greatest(cl(d) \cup {n + 1}) = n + 1
    BY <1>4, OneMore
  <2>4. Least(on \cup {n + 1}) = IF on = {} THEN n + 1 ELSE Least(on)
    BY <1>4, OneMore
  <2> DEFINE new == AddHost(old, hp, AtCell(c))
  <2>5. new = [hosts   |-> [d \in Domains |-> IF d \in hp[c].domains THEN HostOf(hp, c) ELSE old.hosts[d]],
               default |-> IF old.default = Nil THEN HostOf(hp, c) ELSE old.default]
    BY <1>3, <1>9 DEF AddHost, HostOf
  <2>6. \A i \in on : HostOf(hp, <<sl.arr, i>>) # Nil
    <3>1. ASSUME NEW i \in on PROVE HostOf(hp, <<sl.arr, i>>) # Nil
      <4>1. i \in 1..sl.len
        BY <1>4
      <4>2. <<sl.arr, i>> \in Listed(hp, sl)
        BY <4>1 DEF Listed
      <4>3. <<sl.arr, i>> \in Cells /\ hp[<<sl.arr, i>>].id \in Sites
        BY <4>2, ListedAreCells DEF SiteConfig
      <4> QED
        BY <4>3, PointsTo, HostIs DEF HostOf
    <3> QED
      BY <3>1
  <2>7. on # {} => Least(on) \in on
    BY <1>4, LeastIsThere
  <2> HIDE DEF on, more
  <2>8. AddEnabled(r, hp, z).default = new.default
    <3>1. AddEnabled(r, hp, z).default =
            IF r.default = Nil
            THEN HostOf(hp, <<sl.arr, IF on = {} THEN n + 1 ELSE Least(on)>>) ELSE r.default
      BY <1>7, <2>1, <2>4
    <3>2. old.default = IF r.default = Nil /\ on # {}
                        THEN HostOf(hp, <<sl.arr, Least(on)>>) ELSE r.default
      BY <1>6
    <3>3. new.default = IF old.default = Nil THEN HostOf(hp, c) ELSE old.default
      BY <2>5
    <3>4. on # {} => HostOf(hp, <<sl.arr, Least(on)>>) # Nil
      BY <2>6, <2>7
    <3> HIDE DEF old, new
    <3> QED
      BY <3>1, <3>2, <3>3, <3>4
  <2>9. ASSUME NEW d \in Domains
        PROVE  (IF ml(d) = {} THEN r.hosts[d] ELSE HostOf(hp, <<sl.arr, Greatest(ml(d))>>))
                 = IF d \in hp[c].domains THEN HostOf(hp, c) ELSE old.hosts[d]
    <3>1. old.hosts[d] = IF cl(d) = {} THEN r.hosts[d]
                         ELSE HostOf(hp, <<sl.arr, Greatest(cl(d))>>)
      BY <1>6
    <3> DEFINE A == cl(d)
               B == ml(d)
    <3>2. /\ d \in hp[c].domains => B = A \cup {n + 1} /\ Greatest(A \cup {n + 1}) = n + 1
          /\ d \notin hp[c].domains => B = A
      BY <2>2, <2>3
    <3>3. old.hosts[d] = IF A = {} THEN r.hosts[d] ELSE HostOf(hp, <<sl.arr, Greatest(A)>>)
      BY <3>1
    <3> HIDE DEF A, B, old
    <3>4. (IF B = {} THEN r.hosts[d] ELSE HostOf(hp, <<sl.arr, Greatest(B)>>))
            = IF d \in hp[c].domains THEN HostOf(hp, c) ELSE old.hosts[d]
      BY <3>2, <3>3
    <3> QED
      BY <3>4 DEF B, A
  <2>10. AddEnabled(r, hp, z).hosts = new.hosts
    <3> DEFINE all == [d \in Domains |-> IF ml(d) = {} THEN r.hosts[d]
                                         ELSE HostOf(hp, <<sl.arr, Greatest(ml(d))>>)]
               def == IF r.default = Nil /\ more # {}
                      THEN HostOf(hp, <<sl.arr, Least(more)>>) ELSE r.default
    <3>1. AddEnabled(r, hp, z).hosts = all
      <4>1. AddEnabled(r, hp, z) = [hosts |-> all, default |-> def]
        BY <1>7, Zenon
      <4> HIDE DEF all, def
      <4> QED
        BY <4>1
    <3>2. new.hosts = [d \in Domains |-> IF d \in hp[c].domains THEN HostOf(hp, c) ELSE old.hosts[d]]
      BY <2>5
    <3> HIDE DEF ml, old, new, c
    <3> QED
      BY <2>9, <3>1, <3>2, Zenon
  <2>11. AddEnabled(r, hp, z) = new
    BY <1>7, <2>5, <2>8, <2>10
  <2> QED
    BY <1>9, <2>11
<1> QED
  BY <1>8, <1>9

\* The loop and its result agree after every site: by the first one where they would not.
LEMMA AddsInTurn ==
  ASSUME NEW r \in RouterType, NEW hp, NEW sl \in [arr : Arrays, len : Nat],
         sl.len <= Capacity[sl.arr], \A c \in Listed(hp, sl) : hp[c] \in SiteConfig
  PROVE  AddEnabled(r, hp, sl) = AddInTurn(r, hp, sl)
<1> DEFINE N == sl.len
           Step(f) == [i \in 0..N |->
                         IF i = 0 THEN r
                         ELSE IF hp[<<sl.arr, i>>].on
                              THEN AddHost(f[i - 1], hp, AtCell(<<sl.arr, i>>))
                              ELSE f[i - 1]]
           add == CHOOSE f : f = Step(f)
           g   == [i \in 0..N |-> AddEnabled(r, hp, Upto(sl, i))]
<1>1. N \in Nat /\ N \in 0..N
  OBVIOUS
<1>2. AddInTurn(r, hp, sl) = add[N]
  BY DEF AddInTurn
<1>3. g[0] = r
  BY NoneAdded
<1>4. ASSUME NEW i \in 0..N, i # 0
      PROVE  /\ i - 1 \in 0..N
             /\ g[i] = IF hp[<<sl.arr, i>>].on
                       THEN AddHost(g[i - 1], hp, AtCell(<<sl.arr, i>>)) ELSE g[i - 1]
  <2> DEFINE n == i - 1
  <2>1. n \in Nat /\ n + 1 = i /\ n \in 0..N /\ n + 1 <= sl.len
    BY <1>4
  <2> HIDE DEF n
  <2>2. g[i] = AddEnabled(r, hp, Upto(sl, n + 1)) /\ g[n] = AddEnabled(r, hp, Upto(sl, n))
    BY <2>1
  <2>3. AddEnabled(r, hp, Upto(sl, n + 1)) =
           IF hp[<<sl.arr, n + 1>>].on
           THEN AddHost(AddEnabled(r, hp, Upto(sl, n)), hp, AtCell(<<sl.arr, n + 1>>))
           ELSE AddEnabled(r, hp, Upto(sl, n))
    BY <2>1, OneAdded
  <2> QED
    BY <2>1, <2>2, <2>3 DEF n
<1>5. g = Step(g)
  <2> DEFINE E(i) == IF i = 0 THEN r
                     ELSE IF hp[<<sl.arr, i>>].on
                          THEN AddHost(g[i - 1], hp, AtCell(<<sl.arr, i>>)) ELSE g[i - 1]
  <2>1. \A i \in 0..N : g[i] = E(i)
    BY <1>3, <1>4
  <2>2. g = [i \in 0..N |-> g[i]]
    OBVIOUS
  <2>3. Step(g) = [i \in 0..N |-> E(i)]
    OBVIOUS
  <2> HIDE DEF g, E, Step
  <2> QED
    BY <2>1, <2>2, <2>3
<1>6. add = Step(add)
  BY <1>5
<1> HIDE DEF g, add
<1>7. ASSUME NEW i \in 0..N
      PROVE  add[i] = IF i = 0 THEN r
                      ELSE IF hp[<<sl.arr, i>>].on
                           THEN AddHost(add[i - 1], hp, AtCell(<<sl.arr, i>>)) ELSE add[i - 1]
  BY <1>6
<1> DEFINE Bad == {i \in 0..N : add[i] # g[i]}
<1>8. Bad = {}
  <2> SUFFICES ASSUME Bad # {} PROVE FALSE
    OBVIOUS
  <2> DEFINE m == Least(Bad)
  <2>1. Bad \in SUBSET Nat
    OBVIOUS
  <2>2. m \in Bad /\ \A j \in Bad : m <= j
    <3> HIDE DEF Bad
    <3> QED
      BY <2>1, LeastIsThere
  <2> HIDE DEF m
  <2>3. m \in 0..N /\ add[m] # g[m] /\ m # 0
    BY <1>3, <1>7, <2>2
  <2>4. m - 1 \in 0..N /\ m - 1 \notin Bad
    BY <2>2, <2>3
  <2>5. add[m - 1] = g[m - 1]
    BY <2>4
  <2> QED
    BY <1>4, <1>7, <2>3, <2>5
<1>9. add[N] = g[N]
  BY <1>1, <1>8
<1>10. g[N] = AddEnabled(r, hp, sl)
  <2>1. Upto(sl, N) = sl
    BY DEF Upto
  <2> QED
    BY <1>1, <2>1 DEF g
<1> QED
  BY <1>2, <1>9, <1>10

(***************************************************************************)
(* The start of the service gives a domain that several enabled sites      *)
(* claim to the last of them, and the default host to the first site, from *)
(* every router and slice the process can have.                            *)
(***************************************************************************)
THEOREM StartStaysInTurn == Spec => []StartAddsInTurn
<1>1. Init => TypeInv
  BY InitTyped
<1>2. TypeInv /\ [Next]_vars => TypeInv'
  BY NextTyped
<1>3. TypeInv => StartAddsInTurn
  BY RouterIs, AddsInTurn DEF TypeInv, TypeOK, ShapeInv, StartAddsInTurn
<1> QED
  BY <1>1, <1>2, <1>3, PTL DEF Spec
=============================================================================
