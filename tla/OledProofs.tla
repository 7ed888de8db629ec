----------------------------- MODULE OledProofs -----------------------------
(***************************************************************************)
(* Proofs about OLED: what it shows is a terminal, and nothing old comes   *)
(* into view, on a display of any size and with line counters of any       *)
(* width.                                                                  *)
(***************************************************************************)
EXTENDS OLED, SequenceTheorems, WellFoundedInduction, TLAPS

-----------------------------------------------------------------------------
(* Numbers.  Lines are counted modulo H, pages modulo twice as many.       *)

LEMMA Sizes ==
  /\ H \in Nat \ {0} /\ W \in Nat \ {0} /\ Tab \in Nat \ {0} /\ W % Tab = 0
  /\ Width \in Nat /\ Width % H = 0 /\ Width > H /\ Width > W /\ Blank \notin Letters
  /\ PagesOf = 2 * H /\ PagesOf \in Nat \ {0}
  BY OledAssumption, SMT DEF PagesOf

\* A number is what \div and % make of it.
LEMMA DivMod ==
  ASSUME NEW h \in Nat \ {0}, NEW a \in Nat
  PROVE  a = h * (a \div h) + (a % h) /\ a % h \in 0 .. h - 1 /\ a \div h \in Nat
  BY SMT

\* And they make it of nothing else.
LEMMA DivIs ==
  ASSUME NEW h \in Nat \ {0}, NEW q \in Nat, NEW r \in 0 .. h - 1
  PROVE  (h * q + r) \div h = q /\ (h * q + r) % h = r
  BY SMT

LEMMA Small ==
  ASSUME NEW h \in Nat \ {0}, NEW r \in 0 .. h - 1
  PROVE  r % h = r /\ r \div h = 0
  <1>1. (h * 0 + r) \div h = 0 /\ (h * 0 + r) % h = r
    BY DivIs
  <1>2. h * 0 + r = r
    BY SMT
  <1>3. QED
    BY <1>1, <1>2

\* What is added to the rest is added to the number.
LEMMA ModAdd ==
  ASSUME NEW h \in Nat \ {0}, NEW a \in Nat, NEW b \in Nat
  PROVE  ((a % h) + b) % h = (a + b) % h
  <1>1. PICK q \in Nat, r \in 0 .. h - 1 : a = h * q + r /\ r = a % h
    BY DivMod
  <1>2. PICK p \in Nat, s \in 0 .. h - 1 : r + b = h * p + s /\ s = (r + b) % h
    <2>1. r + b \in Nat
      BY SMT
    <2>2. QED
      BY <2>1, DivMod
  <1>3. PICK u \in Nat : u = q + p
    BY SMT
  <1>4. a + b = h * u + s
    <2>1. PICK x \in Nat, y \in Nat : x = h * q /\ y = h * p
      BY SMT
    <2>2. h * u = x + y
      BY <1>3, <2>1, SMT
    <2>3. a = x + r /\ r + b = y + s
      BY <1>1, <1>2, <2>1
    <2>4. QED
      BY <2>2, <2>3, SMT
  <1>5. (h * u + s) % h = s
    BY DivIs
  <1>6. QED
    BY <1>1, <1>2, <1>4, <1>5

LEMMA Lap ==
  ASSUME NEW h \in Nat \ {0}, NEW a \in Nat
  PROVE  (a + h) % h = a % h
  <1>1. PICK q \in Nat, r \in 0 .. h - 1 : a = h * q + r /\ r = a % h
    BY DivMod
  <1>2. PICK u \in Nat : u = q + 1
    BY SMT
  <1>3. a + h = h * u + r
    <2>1. h * u = h * q + h
      BY <1>2, SMT
    <2>2. QED
      BY <1>1, <2>1, SMT
  <1>4. (h * u + r) % h = r
    BY DivIs
  <1>5. QED
    BY <1>1, <1>3, <1>4

\* Numbers less than h apart have different rests.
LEMMA SameMod ==
  ASSUME NEW h \in Nat \ {0}, NEW a \in Nat, NEW b \in Nat, a < b + h, b < a + h, a % h = b % h
  PROVE  a = b
  <1>1. PICK q \in Nat, r \in 0 .. h - 1 : a = h * q + r /\ r = a % h
    BY DivMod
  <1>2. PICK p \in Nat : b = h * p + r
    BY <1>1, DivMod
  <1>3. CASE q < p
    <2>1. h * (q + 1) <= h * p
      BY <1>3, SMT
    <2>2. h * (q + 1) = h * q + h
      BY SMT
    <2>3. QED
      BY <1>1, <1>2, <2>1, <2>2, SMT
  <1>4. CASE p < q
    <2>1. h * (p + 1) <= h * q
      BY <1>4, SMT
    <2>2. h * (p + 1) = h * p + h
      BY SMT
    <2>3. QED
      BY <1>1, <1>2, <2>1, <2>2, SMT
  <1>5. QED
    BY <1>1, <1>2, <1>3, <1>4, SMT

\* The two pages of a line.
LEMMA Pages ==
  ASSUME NEW a \in Nat
  PROVE  /\ (2 * a) % PagesOf = 2 * (a % H) /\ (2 * a + 1) % PagesOf = 2 * (a % H) + 1
         /\ 2 * (a % H) \in 0 .. PagesOf - 1 /\ 2 * (a % H) + 1 \in 0 .. PagesOf - 1
         /\ a % H \in 0 .. H - 1
  <1>1. PICK h \in Nat \ {0} : h = H /\ PagesOf = 2 * h /\ PagesOf \in Nat \ {0}
    BY Sizes
  <1>2. PICK q \in Nat, r \in 0 .. h - 1 : a = h * q + r /\ r = a % h
    BY DivMod
  <1>3. PICK z \in Nat \ {0} : z = 2 * h
    BY SMT
  <1>4. 2 * r \in 0 .. z - 1 /\ 2 * r + 1 \in 0 .. z - 1
    BY <1>3, SMT
  <1>5. 2 * a = z * q + 2 * r /\ 2 * a + 1 = z * q + (2 * r + 1)
    <2>1. z * q = 2 * (h * q)
      BY <1>3, SMT
    <2>2. QED
      BY <1>2, <2>1, SMT
  <1>6. (z * q + 2 * r) % z = 2 * r /\ (z * q + (2 * r + 1)) % z = 2 * r + 1
    BY <1>4, DivIs
  <1>7. QED
    BY <1>1, <1>2, <1>3, <1>4, <1>5, <1>6

\* The line y below the first line f is line a exactly when y is a's.
LEMMA LineAt ==
  ASSUME NEW f \in 0 .. H - 1, NEW y \in 0 .. H - 1, NEW a \in Nat
  PROVE  /\ (f + y) % H = a % H <=> y = (a + H - f) % H
         /\ (a + H - f) % H \in 0 .. H - 1
  <1>1. PICK h \in Nat \ {0} : h = H
    BY Sizes
  <1>2. f \in Nat /\ y \in Nat /\ f < h /\ y < h
    BY <1>1, SMT
  <1>3. PICK b \in Nat : b = a + h - f
    BY <1>2, SMT
  <1>4. PICK d \in 0 .. h - 1 : d = b % h
    BY DivMod
  <1>5. (a + h - f) % h = d
    BY <1>3, <1>4
  <1>6. (f + d) % h = a % h
    <2>1. ((b % h) + f) % h = (b + f) % h
      BY <1>2, ModAdd
    <2>2. b + f = a + h /\ d + f = f + d
      BY <1>2, <1>3, SMT
    <2>3. QED
      BY <1>4, <2>1, <2>2, Lap
  <1>7. ASSUME (f + y) % h = (f + d) % h PROVE y = d
    <2>1. PICK u \in Nat, v \in Nat : u = f + y /\ v = f + d
      BY <1>2, SMT
    <2>2. u < v + h /\ v < u + h
      BY <1>2, <2>1, SMT
    <2>3. u = v
      BY <1>7, <2>1, <2>2, SameMod
    <2>4. QED
      BY <1>2, <2>1, <2>3, SMT
  <1>8. QED
    BY <1>1, <1>4, <1>5, <1>6, <1>7

-----------------------------------------------------------------------------
(* What a sequence of transfers leaves.                                    *)

\* A set of numbers up to n has a latest.
LEMMA LatestIn ==
  ASSUME NEW n \in Nat, NEW k \in SUBSET (1 .. n), k # {}
  PROVE  Latest(k) \in k /\ \A j \in k : j <= Latest(k)
  <1> DEFINE up == {n - j : j \in k}
  <1>1. up \in SUBSET Nat /\ up # {}
    <2>1. \A j \in k : n - j \in Nat
      BY SMT
    <2>2. PICK j \in k : TRUE
      OBVIOUS
    <2>3. n - j \in up
      OBVIOUS
    <2>4. QED
      BY <2>1, <2>3
  <1>2. PICK u \in up : \A v \in up : ~ (v < u)
    <2>1. \A i, j \in Nat : i < j => <<i, j>> \in OpToRel(<, Nat)
      BY DEF OpToRel
    <2>2. \E u \in up : \A v \in up : <<v, u>> \notin OpToRel(<, Nat)
      BY <1>1, NatLessThanWellFounded, WFMin, Zenon
    <2>3. QED
      BY <1>1, <2>1, <2>2, Zenon
  <1>3. PICK m \in k : u = n - m
    BY <1>2
  <1>4. \A j \in k : j <= m
    <2>1. ASSUME NEW j \in k PROVE j <= m
      <3>1. n - j \in up
        BY Zenon
      <3>2. ~ (n - j < n - m)
        BY <1>2, <1>3, <3>1
      <3>3. j \in Nat /\ m \in Nat /\ n \in Nat
        BY SMT
      <3>4. QED
        BY <3>2, <3>3, SMT
    <2>2. QED
      BY <2>1
  <1>5. QED
    BY <1>4 DEF Latest

LEMMA LatestIs ==
  ASSUME NEW k \in SUBSET Int, NEW m \in k, \A j \in k : j <= m
  PROVE  Latest(k) = m
  <1>1. Latest(k) \in k /\ \A j \in k : j <= Latest(k)
    BY DEF Latest
  <1>2. Latest(k) <= m /\ m <= Latest(k)
    BY <1>1
  <1>3. Latest(k) \in Int /\ m \in Int
    BY <1>1
  <1>4. QED
    BY <1>2, <1>3

Front(k, m) == {i \in 1 .. m : i \in k}
Back(k, m, n) == {i \in 1 .. n : m + i \in k}

\* Of the transfers of a kind, the latest of two calls is the second's, if
\* it has one.
LEMMA LatestOfTwo ==
  ASSUME NEW m \in Nat, NEW n \in Nat, NEW k \in SUBSET (1 .. m + n)
  PROVE  /\ k = {} <=> Front(k, m) = {} /\ Back(k, m, n) = {}
         /\ Back(k, m, n) = {} => k = Front(k, m)
         /\ Back(k, m, n) # {} => Latest(k) = m + Latest(Back(k, m, n)) /\ Latest(Back(k, m, n)) \in Back(k, m, n)
         /\ Front(k, m) # {} => Latest(Front(k, m)) \in Front(k, m)
  <1> DEFINE ks == Front(k, m)
             kt == Back(k, m, n)
  <1>0. ks = {i \in 1 .. m : i \in k} /\ kt = {i \in 1 .. n : m + i \in k}
    BY DEF Front, Back
  <1> HIDE DEF ks, kt
  <1>1. \A i \in k : i \in ks \/ \E j \in kt : i = m + j
    <2>1. ASSUME NEW i \in k, i \notin ks PROVE \E j \in kt : i = m + j
      <3>1. i \in 1 .. m + n /\ ~ (i \in 1 .. m)
        BY <1>0, <2>1
      <3>2. PICK j \in 1 .. n : i = m + j
        <4>1. i - m \in 1 .. n /\ i = m + (i - m)
          BY <3>1, SMT
        <4>2. QED
          BY <4>1
      <3>3. QED
        BY <1>0, <3>2
    <2>2. QED
      BY <2>1
  <1>2. ks \subseteq k /\ \A j \in kt : m + j \in k
    BY <1>0
  <1>3. kt = {} => k = ks
    BY <1>1, <1>2
  <1>4. ks # {} => Latest(ks) \in ks
    <2>1. ks \in SUBSET (1 .. m)
      BY <1>0
    <2>2. QED
      BY <2>1, LatestIn
  <1>5. ASSUME kt # {} PROVE Latest(k) = m + Latest(kt) /\ Latest(kt) \in kt
    <2>1. kt \in SUBSET (1 .. n)
      BY <1>0
    <2>2. PICK l \in kt : l = Latest(kt) /\ \A j \in kt : j <= l
      BY <1>5, <2>1, LatestIn
    <2>3. m + l \in k /\ l \in 1 .. n
      BY <1>2, <2>1
    <2>4. ASSUME NEW i \in k PROVE i <= m + l
      <3>1. CASE i \in ks
        BY <1>0, <2>3, <3>1, SMT
      <3>2. CASE \E j \in kt : i = m + j
        <4>1. PICK j \in kt : i = m + j
          BY <3>2
        <4>2. j <= l /\ j \in 1 .. n
          BY <2>1, <2>2
        <4>3. QED
          BY <2>3, <4>1, <4>2, SMT
      <3>3. QED
        BY <1>1, <3>1, <3>2
    <2>5. k \in SUBSET Int
      OBVIOUS
    <2>6. Latest(k) = m + l
      BY <2>3, <2>4, <2>5, LatestIs
    <2>7. QED
      BY <2>2, <2>6
  <1>6. QED
    BY <1>1, <1>2, <1>3, <1>4, <1>5 DEF ks, kt

\* Where a byte comes to lie.
Hits(ts, p, x) == {i \in DOMAIN ts : Bytes(ts[i], p, x) # {}}
LEMMA AfterAt ==
  ASSUME NEW mem, NEW ts, NEW p \in 0 .. PagesOf - 1, NEW x \in 0 .. W - 1
  PROVE  After(mem, ts)[p][x] = IF Hits(ts, p, x) = {} THEN mem[p][x] ELSE Put(ts[Latest(Hits(ts, p, x))], p, x)
  BY DEF After, Hits

IsMemory(mem) == mem = [p \in 0 .. PagesOf - 1 |-> [x \in 0 .. W - 1 |-> mem[p][x]]]

LEMMA SameMemory ==
  ASSUME NEW a, NEW b, IsMemory(a), IsMemory(b),
         \A p \in 0 .. PagesOf - 1, x \in 0 .. W - 1 : a[p][x] = b[p][x]
  PROVE  a = b
  <1>1. [p \in 0 .. PagesOf - 1 |-> [x \in 0 .. W - 1 |-> a[p][x]]] = [p \in 0 .. PagesOf - 1 |-> [x \in 0 .. W - 1 |-> b[p][x]]]
    <2>1. ASSUME NEW p \in 0 .. PagesOf - 1
          PROVE  [x \in 0 .. W - 1 |-> a[p][x]] = [x \in 0 .. W - 1 |-> b[p][x]]
      OBVIOUS
    <2>2. QED
      BY <2>1
  <1>2. QED
    BY <1>1, Zenon DEF IsMemory

LEMMA AfterIsMemory == ASSUME NEW mem, NEW ts PROVE IsMemory(After(mem, ts))
  <1> DEFINE c(p, x) == LET k == {i \in DOMAIN ts : Bytes(ts[i], p, x) # {}}
                        IN  IF k = {} THEN mem[p][x] ELSE Put(ts[Latest(k)], p, x)
  <1>1. After(mem, ts) = [p \in 0 .. PagesOf - 1 |-> [x \in 0 .. W - 1 |-> c(p, x)]]
    BY Zenon DEF After
  <1> HIDE DEF c
  <1>2. QED
    BY <1>1 DEF IsMemory

LEMMA LandedIsMemory == ASSUME NEW mem, NEW t PROVE IsMemory(Landed(mem, t))
  <1> DEFINE c(p, x) == IF Bytes(t, p, x) = {} THEN mem[p][x] ELSE Put(t, p, x)
  <1>1. Landed(mem, t) = [p \in 0 .. PagesOf - 1 |-> [x \in 0 .. W - 1 |-> c(p, x)]]
    BY Zenon DEF Landed
  <1> HIDE DEF c
  <1>2. QED
    BY <1>1 DEF IsMemory

\* Transfers one after the other.
LEMMA AfterBoth ==
  ASSUME NEW S, NEW s \in Seq(S), NEW t \in Seq(S), NEW mem
  PROVE  After(mem, s \o t) = After(After(mem, s), t)
  <1>1. PICK m \in Nat, n \in Nat : m = Len(s) /\ n = Len(t) /\ DOMAIN (s \o t) = 1 .. m + n
                                   /\ DOMAIN s = 1 .. m /\ DOMAIN t = 1 .. n
    <2>1. s \o t \in Seq(S) /\ Len(s \o t) = Len(s) + Len(t)
      OBVIOUS
    <2>2. QED
      BY <2>1
  <1>2. /\ \A i \in 1 .. m : (s \o t)[i] = s[i]
        /\ \A i \in 1 .. n : (s \o t)[m + i] = t[i]
    BY <1>1, SMT
  <1> DEFINE st == s \o t
  <1> HIDE DEF st
  <1>3. ASSUME NEW p \in 0 .. PagesOf - 1, NEW x \in 0 .. W - 1
        PROVE  After(mem, st)[p][x] = After(After(mem, s), t)[p][x]
    <2> DEFINE k == Hits(st, p, x)
               ks == Hits(s, p, x)
               kt == Hits(t, p, x)
    <2>1. /\ k = {i \in 1 .. m + n : Bytes(st[i], p, x) # {}}
          /\ ks = {i \in 1 .. m : Bytes(s[i], p, x) # {}}
          /\ kt = {i \in 1 .. n : Bytes(t[i], p, x) # {}}
      <3>1. DOMAIN st = 1 .. m + n
        BY <1>1 DEF st
      <3>2. QED
        BY <1>1, <3>1 DEF Hits
    <2>2. ks = Front(k, m) /\ kt = Back(k, m, n)
      <3>1. \A i \in 1 .. m : i \in 1 .. m + n
        BY SMT
      <3>2. \A i \in 1 .. n : m + i \in 1 .. m + n
        BY SMT
      <3> HIDE DEF k, ks, kt
      <3>3. QED
        BY <1>2, <2>1, <3>1, <3>2, Zenon DEF st, Front, Back
    <2>3. /\ After(mem, st)[p][x] = IF k = {} THEN mem[p][x] ELSE Put(st[Latest(k)], p, x)
          /\ After(mem, s)[p][x] = IF ks = {} THEN mem[p][x] ELSE Put(s[Latest(ks)], p, x)
          /\ After(After(mem, s), t)[p][x] = IF kt = {} THEN After(mem, s)[p][x] ELSE Put(t[Latest(kt)], p, x)
      BY AfterAt
    <2> HIDE DEF k, ks, kt
    <2>4. /\ k = {} <=> ks = {} /\ kt = {}
          /\ kt = {} => k = ks
          /\ kt # {} => Latest(k) = m + Latest(kt) /\ Latest(kt) \in kt
          /\ ks # {} => Latest(ks) \in ks
      <3>1. k \in SUBSET (1 .. m + n)
        BY <2>1
      <3>2. QED
        BY <2>2, <3>1, LatestOfTwo
    <2>5. CASE kt = {}
      <3>1. ks # {} => st[Latest(k)] = s[Latest(ks)]
        BY <1>2, <2>1, <2>4, <2>5 DEF st
      <3>2. QED
        BY <2>3, <2>4, <2>5, <3>1
    <2>6. CASE kt # {}
      <3>1. st[Latest(k)] = t[Latest(kt)]
        BY <1>2, <2>1, <2>4, <2>6 DEF st
      <3>2. QED
        BY <2>3, <2>4, <2>6, <3>1
    <2>7. QED
      BY <2>5, <2>6
  <1>4. IsMemory(After(mem, st)) /\ IsMemory(After(After(mem, s), t))
    BY AfterIsMemory
  <1>5. QED
    BY <1>3, <1>4, SameMemory DEF st

LEMMA BaseAfterBoth ==
  ASSUME NEW S, NEW s \in Seq(S), NEW t \in Seq(S), NEW b
  PROVE  BaseAfter(b, s \o t) = BaseAfter(BaseAfter(b, s), t)
  <1>1. PICK m \in Nat, n \in Nat : m = Len(s) /\ n = Len(t) /\ DOMAIN (s \o t) = 1 .. m + n
                                   /\ DOMAIN s = 1 .. m /\ DOMAIN t = 1 .. n
    <2>1. s \o t \in Seq(S) /\ Len(s \o t) = Len(s) + Len(t)
      OBVIOUS
    <2>2. QED
      BY <2>1
  <1>2. /\ \A i \in 1 .. m : (s \o t)[i] = s[i]
        /\ \A i \in 1 .. n : (s \o t)[m + i] = t[i]
    BY <1>1, SMT
  <1> DEFINE st == s \o t
             k == {i \in 1 .. m + n : st[i].op = "shift"}
             ks == {i \in 1 .. m : s[i].op = "shift"}
             kt == {i \in 1 .. n : t[i].op = "shift"}
  <1> HIDE DEF st
  <1>3. ks = Front(k, m) /\ kt = Back(k, m, n)
    <2>1. \A i \in 1 .. m : i \in 1 .. m + n
      BY SMT
    <2>2. \A i \in 1 .. n : m + i \in 1 .. m + n
      BY SMT
    <2>3. QED
      BY <1>2, <2>1, <2>2, Zenon DEF st, Front, Back
  <1>4. k \in SUBSET (1 .. m + n)
    OBVIOUS
  <1>5. /\ BaseAfter(b, st) = IF k = {} THEN b ELSE st[Latest(k)].to
        /\ BaseAfter(b, s) = IF ks = {} THEN b ELSE s[Latest(ks)].to
        /\ BaseAfter(BaseAfter(b, s), t) = IF kt = {} THEN BaseAfter(b, s) ELSE t[Latest(kt)].to
    <2>1. DOMAIN st = 1 .. m + n
      BY <1>1 DEF st
    <2>2. QED
      BY <1>1, <2>1 DEF BaseAfter
  <1> HIDE DEF k, ks, kt
  <1>6. /\ k = {} <=> ks = {} /\ kt = {}
        /\ kt = {} => k = ks
        /\ kt # {} => Latest(k) = m + Latest(kt) /\ Latest(kt) \in kt
        /\ ks # {} => Latest(ks) \in ks
    BY <1>3, <1>4, LatestOfTwo
  <1>7. CASE kt = {}
    <2>1. ks # {} => st[Latest(k)] = s[Latest(ks)]
      BY <1>2, <1>6, <1>7 DEF st, ks
    <2>2. QED
      BY <1>5, <1>6, <1>7, <2>1 DEF st
  <1>8. CASE kt # {}
    <2>1. st[Latest(k)] = t[Latest(kt)]
      BY <1>2, <1>6, <1>8 DEF st, kt
    <2>2. QED
      BY <1>5, <1>6, <1>8, <2>1 DEF st
  <1>9. QED
    BY <1>7, <1>8

LEMMA AfterNone ==
  ASSUME NEW mem, IsMemory(mem), NEW b
  PROVE  After(mem, <<>>) = mem /\ BaseAfter(b, <<>>) = b
  <1>1. ASSUME NEW p \in 0 .. PagesOf - 1, NEW x \in 0 .. W - 1 PROVE After(mem, <<>>)[p][x] = mem[p][x]
    <2>1. Hits(<<>>, p, x) = {}
      BY DEF Hits
    <2>2. QED
      BY <2>1, AfterAt
  <1>2. After(mem, <<>>) = mem
    BY <1>1, AfterIsMemory, SameMemory
  <1>3. BaseAfter(b, <<>>) = b
    BY DEF BaseAfter
  <1>4. QED
    BY <1>2, <1>3

LEMMA AfterOne ==
  ASSUME NEW mem, NEW t, NEW b
  PROVE  After(mem, <<t>>) = Landed(mem, t) /\ BaseAfter(b, <<t>>) = IF t.op = "shift" THEN t.to ELSE b
  <1>1. DOMAIN <<t>> = {1} /\ <<t>>[1] = t
    OBVIOUS
  <1>2. Latest({1}) = 1
    <2>1. {1} \in SUBSET Int /\ 1 \in {1} /\ \A j \in {1} : j <= 1
      BY SMT
    <2>2. QED
      BY <2>1, LatestIs
  <1>3. ASSUME NEW p \in 0 .. PagesOf - 1, NEW x \in 0 .. W - 1 PROVE After(mem, <<t>>)[p][x] = Landed(mem, t)[p][x]
    <2>1. Hits(<<t>>, p, x) = IF Bytes(t, p, x) = {} THEN {} ELSE {1}
      BY <1>1 DEF Hits
    <2>2. After(mem, <<t>>)[p][x] = IF Hits(<<t>>, p, x) = {} THEN mem[p][x] ELSE Put(<<t>>[Latest(Hits(<<t>>, p, x))], p, x)
      BY AfterAt
    <2>3. Landed(mem, t)[p][x] = IF Bytes(t, p, x) = {} THEN mem[p][x] ELSE Put(t, p, x)
      BY DEF Landed
    <2>4. QED
      BY <1>1, <1>2, <2>1, <2>2, <2>3
  <1>4. After(mem, <<t>>) = Landed(mem, t)
    BY <1>3, AfterIsMemory, LandedIsMemory, SameMemory
  <1>5. BaseAfter(b, <<t>>) = IF t.op = "shift" THEN t.to ELSE b
    <2> DEFINE k == {i \in DOMAIN <<t>> : <<t>>[i].op = "shift"}
    <2>1. k = IF t.op = "shift" THEN {1} ELSE {}
      BY <1>1
    <2>2. BaseAfter(b, <<t>>) = IF k = {} THEN b ELSE <<t>>[Latest(k)].to
      BY Zenon DEF BaseAfter
    <2> HIDE DEF k
    <2>3. QED
      BY <1>1, <1>2, <2>1, <2>2
  <1>6. QED
    BY <1>4, <1>5

Cells == (Letters \cup {Blank}) \X {"none", "upper", "lower"}
Kinds ==
  [op : {"data"}, c0 : Int, n : Int, p0 : Int, rows : Int, cells : Seq(Cells)]
  \cup [op : {"shift"}, to : 0 .. PagesOf - 1] \cup {Off, On}

\* The first transfer, and then the others.
LEMMA AfterFirst ==
  ASSUME NEW mem, NEW b, NEW ts \in Seq(Kinds), ts # <<>>
  PROVE  /\ After(mem, ts) = After(Landed(mem, Head(ts)), Tail(ts))
         /\ BaseAfter(b, ts) = BaseAfter(IF Head(ts).op = "shift" THEN Head(ts).to ELSE b, Tail(ts))
         /\ Tail(ts) \in Seq(Kinds) /\ Head(ts) \in Kinds
  <1>1. /\ Head(ts) \in Kinds /\ Tail(ts) \in Seq(Kinds) /\ <<Head(ts)>> \in Seq(Kinds)
        /\ ts = <<Head(ts)>> \o Tail(ts)
    OBVIOUS
  <1>2. PICK h \in Kinds, r \in Seq(Kinds) : h = Head(ts) /\ r = Tail(ts) /\ <<h>> \in Seq(Kinds) /\ ts = <<h>> \o r
    BY <1>1
  <1>3. After(mem, <<h>> \o r) = After(After(mem, <<h>>), r)
    BY <1>2, AfterBoth, Zenon
  <1>4. BaseAfter(b, <<h>> \o r) = BaseAfter(BaseAfter(b, <<h>>), r)
    BY <1>2, BaseAfterBoth, Zenon
  <1>5. QED
    BY <1>2, <1>3, <1>4, AfterOne

-----------------------------------------------------------------------------
(* The transfers of the calls.                                             *)

Blanked(mem, q) == [p \in 0 .. PagesOf - 1 |-> [x \in 0 .. W - 1 |-> IF p = q THEN Dark ELSE mem[p][x]]]

\* A row of blanks, however high the window is.
BlankRow(a, r) == [op |-> "data", c0 |-> 0, n |-> W, p0 |-> a, rows |-> r, cells |-> Blanks(W)]

LEMMA BlankRowAt ==
  ASSUME NEW a \in Nat, NEW r \in Nat \ {0}, NEW p \in 0 .. PagesOf - 1, NEW x \in 0 .. W - 1
  PROVE  /\ Bytes(BlankRow(a, r), p, x) = IF p = a % PagesOf THEN {x + 1} ELSE {}
         /\ Bytes(BlankRow(a, r), p, x) # {} => Put(BlankRow(a, r), p, x) = Dark
  <1> DEFINE t == BlankRow(a, r)
  <1>1. t.op = "data" /\ t.c0 = 0 /\ t.n = W /\ t.p0 = a /\ t.rows = r /\ t.cells = Blanks(W)
    BY DEF BlankRow
  <1>2. DOMAIN Blanks(W) = 1 .. W /\ \A i \in 1 .. W : Blanks(W)[i] = Dark
    BY DEF Blanks
  <1>3. W \in Nat \ {0}
    BY Sizes
  <1>4. \A i \in 1 .. W : (i - 1) % W = i - 1 /\ (i - 1) \div W = 0
    <2>1. ASSUME NEW i \in 1 .. W PROVE (i - 1) % W = i - 1 /\ (i - 1) \div W = 0
      <3>1. i - 1 \in 0 .. W - 1
        BY <1>3, SMT
      <3>2. QED
        BY <1>3, <3>1, Small
    <2>2. QED
      BY <2>1
  <1>5. 0 % r = 0
    <2>1. 0 \in 0 .. r - 1
      BY SMT
    <2>2. QED
      BY <2>1, Small
  <1>6. \A i \in 1 .. W : /\ t.c0 + ((i - 1) % t.n) = i - 1
                          /\ (t.p0 + (((i - 1) \div t.n) % t.rows)) % PagesOf = a % PagesOf
    <2>1. ASSUME NEW i \in 1 .. W
          PROVE  /\ t.c0 + ((i - 1) % t.n) = i - 1
                 /\ (t.p0 + (((i - 1) \div t.n) % t.rows)) % PagesOf = a % PagesOf
      <3>1. 0 + (i - 1) = i - 1 /\ a + 0 = a
        BY <1>3, SMT
      <3>2. QED
        BY <1>1, <1>4, <1>5, <3>1
    <2>2. QED
      BY <2>1
  <1> HIDE DEF t
  <1>7. Bytes(t, p, x) = {i \in 1 .. W : i - 1 = x /\ a % PagesOf = p}
    <2>1. Bytes(t, p, x) = {i \in 1 .. W : /\ t.c0 + ((i - 1) % t.n) = x
                               /\ (t.p0 + (((i - 1) \div t.n) % t.rows)) % PagesOf = p}
      BY <1>1, <1>2, Zenon DEF Bytes
    <2>2. QED
      BY <1>6, <2>1, Zenon
  <1>8. Bytes(t, p, x) = IF p = a % PagesOf THEN {x + 1} ELSE {}
    <2>1. x + 1 \in 1 .. W /\ \A i \in 1 .. W : i - 1 = x <=> i = x + 1
      BY <1>3, SMT
    <2>2. QED
      BY <1>7, <2>1, Zenon
  <1>9. Bytes(t, p, x) # {} => Put(t, p, x) = Dark
    <2>1. Latest({x + 1}) = x + 1
      <3>1. x + 1 \in Int /\ x + 1 <= x + 1
        BY SMT
      <3>2. {x + 1} \in SUBSET Int /\ x + 1 \in {x + 1} /\ \A j \in {x + 1} : j <= x + 1
        BY <3>1
      <3>3. QED
        BY <3>2, LatestIs
    <2>2. x + 1 \in 1 .. W
      BY <1>3, SMT
    <2>3. QED
      BY <1>1, <1>2, <1>8, <2>1, <2>2 DEF Put
  <1>10. QED
    BY <1>8, <1>9 DEF t

LEMMA BlankRowLands ==
  ASSUME NEW a \in Nat, NEW r \in Nat \ {0}, NEW mem
  PROVE  Landed(mem, BlankRow(a, r)) = Blanked(mem, a % PagesOf)
  <1>1. ASSUME NEW p \in 0 .. PagesOf - 1, NEW x \in 0 .. W - 1
        PROVE  (IF Bytes(BlankRow(a, r), p, x) = {} THEN mem[p][x] ELSE Put(BlankRow(a, r), p, x))
                 = IF p = a % PagesOf THEN Dark ELSE mem[p][x]
    <2>1. CASE p = a % PagesOf
      <3>1. Bytes(BlankRow(a, r), p, x) = {x + 1}
        BY <2>1, BlankRowAt, Zenon
      <3>2. QED
        BY <2>1, <3>1, BlankRowAt
    <2>2. CASE p # a % PagesOf
      <3>1. Bytes(BlankRow(a, r), p, x) = {}
        BY <2>2, BlankRowAt, Zenon
      <3>2. QED
        BY <2>2, <3>1
    <2>3. QED
      BY <2>1, <2>2
  <1>2. ASSUME NEW p \in 0 .. PagesOf - 1
        PROVE  [x \in 0 .. W - 1 |-> IF Bytes(BlankRow(a, r), p, x) = {} THEN mem[p][x] ELSE Put(BlankRow(a, r), p, x)]
                 = [x \in 0 .. W - 1 |-> IF p = a % PagesOf THEN Dark ELSE mem[p][x]]
    BY <1>1, Zenon
  <1>3. QED
    BY <1>2, Zenon DEF Landed, Blanked

LEMMA BlankRowKind == ASSUME NEW a \in Nat, NEW r \in Nat PROVE BlankRow(a, r) \in Kinds
  <1>1. Dark \in Cells
    BY DEF Dark, Cells
  <1>2. Blanks(W) \in Seq(Cells)
    BY <1>1, Sizes DEF Blanks
  <1>3. 0 \in Int /\ W \in Int /\ a \in Int /\ r \in Int
    BY Sizes
  <1>4. QED
    BY <1>2, <1>3 DEF BlankRow, Kinds

\* What newLine erases on either display.
LEMMA Erased ==
  ASSUME NEW ay \in Nat, NEW d \in {1, 2}
  PROVE  /\ Erase1106(ay, d) = BlankRow((2 * ay + 2 - d) % PagesOf, 1)
         /\ Erase1306(ay, d) = BlankRow(2 * ay + 2 - d, 2)
         /\ 2 * ay + 2 - d \in Nat /\ (2 * ay + 2 - d) % PagesOf \in Nat
         /\ ((2 * ay + 2 - d) % PagesOf) % PagesOf = (2 * ay + 2 - d) % PagesOf
  <1>1. PICK q \in Nat : q = 2 * ay + 2 - d
    BY SMT
  <1>2. PICK z \in Nat \ {0} : z = PagesOf
    BY Sizes
  <1>3. q % z \in 0 .. z - 1 /\ (q % z) % z = q % z /\ q % z \in Nat
    <2>1. PICK s \in 0 .. z - 1 : s = q % z
      BY DivMod
    <2>2. s % z = s /\ s \in Nat
      BY <2>1, Small
    <2>3. QED
      BY <2>1, <2>2
  <1>4. W - 1 - 0 + 1 = W
    BY Sizes
  <1>5. \A s \in Nat : s - s + 1 = 1
    BY SMT
  <1>6. 2 * ay + 3 - d - (2 * ay + 2 - d) + 1 = 2
    BY SMT
  <1>7. Erase1106(ay, d) = BlankRow(q % z, 1)
    BY <1>1, <1>2, <1>3, <1>4, <1>5, Zenon DEF Erase1106, Page, Window, BlankRow
  <1>8. Erase1306(ay, d) = BlankRow(2 * ay + 2 - d, 2)
    BY <1>4, <1>6, SMT DEF Erase1306, Window, BlankRow
  <1>9. QED
    BY <1>1, <1>2, <1>3, <1>7, <1>8

LEMMA ShiftTo ==
  ASSUME NEW p \in Nat
  PROVE  /\ Shift(p) \in Kinds /\ Shift(p).op = "shift" /\ Shift(p).to = p % PagesOf
         /\ p % PagesOf \in 0 .. PagesOf - 1
  <1>1. p % PagesOf \in 0 .. PagesOf - 1
    BY Sizes, DivMod
  <1>2. QED
    BY <1>1 DEF Shift, Kinds

\* A transfer that is not of data changes no memory.
LEMMA NoBytes ==
  ASSUME NEW t, t.op # "data", NEW mem, IsMemory(mem)
  PROVE  Landed(mem, t) = mem
  <1>1. \A p \in 0 .. PagesOf - 1, x \in 0 .. W - 1 : Bytes(t, p, x) = {}
    BY DEF Bytes
  <1>2. \A p \in 0 .. PagesOf - 1, x \in 0 .. W - 1 : Landed(mem, t)[p][x] = mem[p][x]
    BY <1>1 DEF Landed
  <1>3. QED
    BY <1>2, LandedIsMemory, SameMemory

LEMMA BlankedIsMemory == ASSUME NEW mem, NEW q PROVE IsMemory(Blanked(mem, q))
  BY DEF IsMemory, Blanked

\* One round of newLine.
LEMMA RoundAfter ==
  ASSUME NEW ay \in Nat, NEW d \in {1, 2}, NEW scroll \in BOOLEAN,
         NEW erase \in {Erase1106(ay, d), Erase1306(ay, d)}, NEW mem, NEW b,
         NEW ts, ts = Round(erase, ay, d, scroll)
  PROVE  /\ ts \in Seq(Kinds)
         /\ After(mem, ts) = Blanked(mem, (2 * ay + 2 - d) % PagesOf)
         /\ BaseAfter(b, ts) = IF scroll THEN ScrollTo(ay, d) % PagesOf ELSE b
  <1>1. PICK a \in Nat, r \in Nat \ {0} : erase = BlankRow(a, r) /\ a % PagesOf = (2 * ay + 2 - d) % PagesOf
    <2>1. 1 \in Nat \ {0} /\ 2 \in Nat \ {0}
      BY SMT
    <2>2. QED
      BY <2>1, Erased, Zenon
  <1>2. erase \in Kinds /\ erase.op = "data" /\ Landed(mem, erase) = Blanked(mem, (2 * ay + 2 - d) % PagesOf)
    <2>1. erase.op = "data"
      BY <1>1 DEF BlankRow
    <2>2. QED
      BY <1>1, <2>1, BlankRowKind, BlankRowLands
  <1>3. After(mem, <<erase>>) = Blanked(mem, (2 * ay + 2 - d) % PagesOf) /\ BaseAfter(b, <<erase>>) = b
    BY <1>2, AfterOne
  <1>4. <<erase>> \in Seq(Kinds)
    BY <1>2
  <1>5. CASE ~ scroll
    <2>1. ts = <<erase>> \o <<>>
      BY <1>5, Zenon DEF Round
    <2>2. <<erase>> \o <<>> = <<erase>>
      BY <1>4
    <2>3. QED
      BY <1>3, <1>4, <1>5, <2>1, <2>2
  <1>6. CASE scroll
    <2> DEFINE s == Shift(ScrollTo(ay, d))
    <2>1. ScrollTo(ay, d) \in Nat
      BY Sizes DEF ScrollTo
    <2>2. s \in Kinds /\ s.op = "shift" /\ s.to = ScrollTo(ay, d) % PagesOf
      BY <2>1, ShiftTo
    <2>3. ts = <<erase>> \o <<s>>
      BY <1>6, Zenon DEF Round
    <2> HIDE DEF s
    <2>4. <<s>> \in Seq(Kinds)
      BY <2>2
    <2>5. ts \in Seq(Kinds)
      BY <1>4, <2>3, <2>4
    <2>6. /\ After(mem, ts) = After(After(mem, <<erase>>), <<s>>)
          /\ BaseAfter(b, ts) = BaseAfter(BaseAfter(b, <<erase>>), <<s>>)
      <3>1. After(mem, <<erase>> \o <<s>>) = After(After(mem, <<erase>>), <<s>>)
        BY <1>4, <2>4, AfterBoth, Zenon
      <3>2. BaseAfter(b, <<erase>> \o <<s>>) = BaseAfter(BaseAfter(b, <<erase>>), <<s>>)
        BY <1>4, <2>4, BaseAfterBoth, Zenon
      <3>3. QED
        BY <2>3, <3>1, <3>2
    <2>7. After(mem, ts) = Landed(Blanked(mem, (2 * ay + 2 - d) % PagesOf), s)
      BY <1>3, <2>6, AfterOne
    <2>8. After(mem, ts) = Blanked(mem, (2 * ay + 2 - d) % PagesOf)
      BY <2>2, <2>7, NoBytes, BlankedIsMemory
    <2>9. BaseAfter(b, ts) = ScrollTo(ay, d) % PagesOf
      BY <2>2, <2>6, AfterOne
    <2>10. QED
      BY <1>6, <2>5, <2>8, <2>9
  <1>7. QED
    BY <1>5, <1>6

\* A line without letters.
Wiped(mem, l) == Blanked(Blanked(mem, 2 * l), 2 * l + 1)

\* A new line leaves its two pages blank; what comes after them is then the
\* first line shown, if it scrolls.
LEMMA NewLineAfter ==
  ASSUME NEW ay \in Nat, NEW scroll \in BOOLEAN, NEW mem, NEW b, NEW ts, ts = newLine(ay, scroll)
  PROVE  /\ ts \in Seq(Kinds)
         /\ After(mem, ts) = Wiped(mem, ay % H)
         /\ BaseAfter(b, ts) = IF scroll THEN 2 * ((ay + 1) % H) ELSE b
  <1>1. PICK e2 \in {Erase1106(ay, 2), Erase1306(ay, 2)}, e1 \in {Erase1106(ay, 1), Erase1306(ay, 1)} :
          ts = Round(e2, ay, 2, scroll) \o Round(e1, ay, 1, scroll)
    <2>1. ts = newLine1106(ay, scroll) \/ ts = newLine1306(ay, scroll)
      BY DEF newLine
    <2>2. QED
      BY <2>1, Zenon DEF newLine1106, newLine1306
  <1> DEFINE r2 == Round(e2, ay, 2, scroll)
             r1 == Round(e1, ay, 1, scroll)
  <1>2. 2 * ay + 2 - 2 = 2 * ay /\ 2 * ay + 2 - 1 = 2 * ay + 1 /\ 1 \in {1, 2} /\ 2 \in {1, 2}
    BY SMT
  <1>3. \A m, c : /\ r2 \in Seq(Kinds) /\ r1 \in Seq(Kinds)
                  /\ After(m, r2) = Blanked(m, (2 * ay) % PagesOf)
                  /\ After(m, r1) = Blanked(m, (2 * ay + 1) % PagesOf)
                  /\ BaseAfter(c, r2) = IF scroll THEN ScrollTo(ay, 2) % PagesOf ELSE c
                  /\ BaseAfter(c, r1) = IF scroll THEN ScrollTo(ay, 1) % PagesOf ELSE c
    <2>1. TAKE m, c
    <2>2. /\ r2 \in Seq(Kinds) /\ After(m, r2) = Blanked(m, (2 * ay + 2 - 2) % PagesOf)
          /\ BaseAfter(c, r2) = IF scroll THEN ScrollTo(ay, 2) % PagesOf ELSE c
      BY <1>2, RoundAfter
    <2>3. /\ r1 \in Seq(Kinds) /\ After(m, r1) = Blanked(m, (2 * ay + 2 - 1) % PagesOf)
          /\ BaseAfter(c, r1) = IF scroll THEN ScrollTo(ay, 1) % PagesOf ELSE c
      BY <1>2, RoundAfter
    <2>4. QED
      BY <1>2, <2>2, <2>3
  <1>4. ts = r2 \o r1
    BY <1>1
  <1> HIDE DEF r2, r1
  <1>5. ts \in Seq(Kinds)
    BY <1>3, <1>4
  <1>6. /\ After(mem, ts) = After(After(mem, r2), r1)
        /\ BaseAfter(b, ts) = BaseAfter(BaseAfter(b, r2), r1)
    <2>1. r2 \in Seq(Kinds) /\ r1 \in Seq(Kinds)
      BY <1>3
    <2>2. After(mem, r2 \o r1) = After(After(mem, r2), r1)
      BY <2>1, AfterBoth, Zenon
    <2>3. BaseAfter(b, r2 \o r1) = BaseAfter(BaseAfter(b, r2), r1)
      BY <2>1, BaseAfterBoth, Zenon
    <2>4. QED
      BY <1>4, <2>2, <2>3
  <1>7. After(mem, ts) = Blanked(Blanked(mem, (2 * ay) % PagesOf), (2 * ay + 1) % PagesOf)
    BY <1>3, <1>6
  <1>8. ScrollTo(ay, 1) % PagesOf = 2 * ((ay + 1) % H)
    <2>1. PICK h \in Nat \ {0} : h = H
      BY Sizes
    <2>2. PICK u \in Nat : u = ay + 1 /\ u + h = ay + h + 1 /\ u + h \in Nat
      BY SMT
    <2>3. ScrollTo(ay, 1) = 2 * (u + h)
      BY <2>1, <2>2, SMT DEF ScrollTo
    <2>4. (2 * (u + h)) % PagesOf = 2 * ((u + h) % H)
      BY <2>2, Pages
    <2>5. (u + h) % h = u % h
      BY Lap
    <2>6. QED
      BY <2>1, <2>2, <2>3, <2>4, <2>5
  <1>9. QED
    BY <1>3, <1>5, <1>6, <1>7, <1>8, Pages DEF Wiped

\* A letter.
Drawn(mem, l, x, c) ==
  [p \in 0 .. PagesOf - 1 |-> [z \in 0 .. W - 1 |->
     IF p = 2 * l /\ z = x THEN Upper(c) ELSE IF p = 2 * l + 1 /\ z = x THEN Lower(c) ELSE mem[p][z]]]

\* The two bytes of a letter, one in each of two transfers.
LEMMA ByteLands ==
  ASSUME NEW a \in Nat, NEW x \in 0 .. W - 1, NEW u, NEW mem, NEW t, t = Page(a, x, <<u>>),
         NEW p \in 0 .. PagesOf - 1, NEW z \in 0 .. W - 1
  PROVE  Landed(mem, t)[p][z] = IF p = a % PagesOf /\ z = x THEN u ELSE mem[p][z]
  <1>1. PICK w \in Nat \ {0} : w = W - 1 - x + 1
    BY Sizes, SMT
  <1>2. PICK q \in Nat : q = a % PagesOf /\ q \in 0 .. PagesOf - 1
    <2>1. a % PagesOf \in 0 .. PagesOf - 1
      BY Sizes, DivMod
    <2>2. QED
      BY <2>1
  <1>3. q % PagesOf = q
    BY <1>2, Sizes, Small
  <1>4. q - q + 1 = 1
    BY SMT
  <1>5. t = [op |-> "data", c0 |-> x, n |-> w, p0 |-> q, rows |-> 1, cells |-> <<u>>]
    BY <1>1, <1>2, <1>4, Zenon DEF Page, Window
  <1>6. (1 - 1) % w = 0 /\ (1 - 1) \div w = 0 /\ 0 % 1 = 0
    <2>1. 1 - 1 = 0 /\ 0 \in 0 .. w - 1 /\ 0 \in 0 .. 1 - 1 /\ 1 \in Nat \ {0}
      BY SMT
    <2>2. QED
      BY <2>1, Small
  <1>7. x + 0 = x /\ q + 0 = q
    BY Sizes
  <1>8. Bytes(t, p, z) = {i \in {1} : t.c0 + ((i - 1) % t.n) = z
                                      /\ (t.p0 + (((i - 1) \div t.n) % t.rows)) % PagesOf = p}
    BY <1>5 DEF Bytes
  <1>9. t.c0 + ((1 - 1) % t.n) = x /\ (t.p0 + (((1 - 1) \div t.n) % t.rows)) % PagesOf = q
    BY <1>3, <1>5, <1>6, <1>7
  <1>10. Bytes(t, p, z) = IF p = q /\ z = x THEN {1} ELSE {}
    BY <1>8, <1>9
  <1>11. Latest({1}) = 1
    <2>1. {1} \in SUBSET Int /\ 1 \in {1} /\ \A j \in {1} : j <= 1
      BY SMT
    <2>2. QED
      BY <2>1, LatestIs
  <1>12. t.cells[1] = u
    BY <1>5
  <1>13. Landed(mem, t)[p][z] = IF Bytes(t, p, z) = {} THEN mem[p][z] ELSE Put(t, p, z)
    BY DEF Landed
  <1>14. QED
    BY <1>2, <1>10, <1>11, <1>12, <1>13 DEF Put

LEMMA PairLands ==
  ASSUME NEW t, t.op = "data", t.n = 1, t.rows = 2, DOMAIN t.cells = {1, 2}, t.c0 \in Nat, t.p0 \in Nat,
         t.p0 % PagesOf # (t.p0 + 1) % PagesOf,
         NEW mem, NEW p \in 0 .. PagesOf - 1, NEW z \in 0 .. W - 1
  PROVE  /\ p = t.p0 % PagesOf /\ z = t.c0 => Landed(mem, t)[p][z] = t.cells[1]
         /\ p = (t.p0 + 1) % PagesOf /\ z = t.c0 => Landed(mem, t)[p][z] = t.cells[2]
         /\ z # t.c0 \/ p \notin {t.p0 % PagesOf, (t.p0 + 1) % PagesOf} => Landed(mem, t)[p][z] = mem[p][z]
  <1>1. (1 - 1) % 1 = 0 /\ ((1 - 1) \div 1) % 2 = 0 /\ (2 - 1) % 1 = 0 /\ ((2 - 1) \div 1) % 2 = 1
    BY SMT
  <1>2. t.c0 + 0 = t.c0 /\ t.p0 + 0 = t.p0
    OBVIOUS
  <1>3. Bytes(t, p, z) = {i \in {1, 2} : t.c0 + ((i - 1) % t.n) = z
                                      /\ (t.p0 + (((i - 1) \div t.n) % t.rows)) % PagesOf = p}
    BY Zenon DEF Bytes
  <1>4. /\ t.c0 + ((1 - 1) % t.n) = t.c0 /\ t.p0 + (((1 - 1) \div t.n) % t.rows) = t.p0
        /\ t.c0 + ((2 - 1) % t.n) = t.c0 /\ t.p0 + (((2 - 1) \div t.n) % t.rows) = t.p0 + 1
    BY <1>1, <1>2
  <1>5. /\ 1 \in Bytes(t, p, z) <=> z = t.c0 /\ p = t.p0 % PagesOf
        /\ 2 \in Bytes(t, p, z) <=> z = t.c0 /\ p = (t.p0 + 1) % PagesOf
        /\ Bytes(t, p, z) \subseteq {1, 2}
    BY <1>3, <1>4, Zenon
  <1>6. Latest({1}) = 1 /\ Latest({2}) = 2
    <2>1. {1} \in SUBSET Int /\ 1 \in {1} /\ \A j \in {1} : j <= 1
      BY SMT
    <2>2. {2} \in SUBSET Int /\ 2 \in {2} /\ \A j \in {2} : j <= 2
      BY SMT
    <2>3. QED
      BY <2>1, <2>2, LatestIs
  <1>7. Landed(mem, t)[p][z] = IF Bytes(t, p, z) = {} THEN mem[p][z] ELSE Put(t, p, z)
    BY DEF Landed
  <1>8. CASE z = t.c0 /\ p = t.p0 % PagesOf
    <2>1. Bytes(t, p, z) = {1}
      BY <1>5, <1>8
    <2>2. QED
      BY <1>6, <1>7, <1>8, <2>1 DEF Put
  <1>9. CASE z = t.c0 /\ p = (t.p0 + 1) % PagesOf
    <2>1. Bytes(t, p, z) = {2}
      BY <1>5, <1>9
    <2>2. QED
      BY <1>6, <1>7, <1>9, <2>1 DEF Put
  <1>10. CASE z # t.c0 \/ p \notin {t.p0 % PagesOf, (t.p0 + 1) % PagesOf}
    <2>1. Bytes(t, p, z) = {}
      BY <1>5, <1>10
    <2>2. QED
      BY <1>7, <1>10, <2>1
  <1>11. QED
    BY <1>8, <1>9, <1>10

LEMMA DataKind ==
  ASSUME NEW c0 \in Int, NEW c1 \in Int, NEW p0 \in Int, NEW p1 \in Int, NEW cells \in Seq(Cells)
  PROVE  Window(c0, c1, p0, p1, cells) \in Kinds /\ Window(c0, c1, p0, p1, cells).op = "data"
  <1>1. c1 - c0 + 1 \in Int /\ p1 - p0 + 1 \in Int
    OBVIOUS
  <1>2. QED
    BY <1>1 DEF Window, Kinds

LEMMA DrawnIsMemory == ASSUME NEW mem, NEW l, NEW x, NEW c PROVE IsMemory(Drawn(mem, l, x, c))
  BY DEF IsMemory, Drawn

LEMMA DrawAfter ==
  ASSUME NEW ay \in Nat, NEW ax \in 0 .. W - 1, NEW c \in Letters, NEW mem, NEW b,
         NEW ts, ts = drawChar(ax, ay, c)
  PROVE  ts \in Seq(Kinds) /\ After(mem, ts) = Drawn(mem, ay % H, ax, c) /\ BaseAfter(b, ts) = b
         /\ \A i \in DOMAIN ts : ts[i].op = "data"
  <1>1. Upper(c) \in Cells /\ Lower(c) \in Cells
    BY DEF Upper, Lower, Cells
  <1>2. <<Upper(c)>> \in Seq(Cells) /\ <<Lower(c)>> \in Seq(Cells) /\ <<Upper(c), Lower(c)>> \in Seq(Cells)
    BY <1>1
  <1>3. 2 * ay \in Nat /\ 2 * ay + 1 \in Nat /\ ax \in Int /\ W - 1 \in Int
    BY Sizes
  <1>4. CASE chip = "SH1106"
    <2> DEFINE t == Page(2 * ay, ax, <<Upper(c)>>)
               u == Page(2 * ay + 1, ax, <<Lower(c)>>)
    <2>1. t \in Kinds /\ u \in Kinds /\ t.op = "data" /\ u.op = "data"
      <3>1. (2 * ay) % PagesOf \in Int /\ (2 * ay + 1) % PagesOf \in Int
        BY <1>3, Pages
      <3>2. QED
        BY <1>2, <1>3, <3>1, DataKind DEF Page
    <2>2. ts = <<t>> \o <<u>> /\ ts = <<t, u>>
      BY <1>4 DEF drawChar, drawChar1106
    <2>3. \A p \in 0 .. PagesOf - 1, z \in 0 .. W - 1 :
            /\ Landed(mem, t)[p][z] = IF p = 2 * (ay % H) /\ z = ax THEN Upper(c) ELSE mem[p][z]
            /\ Landed(Landed(mem, t), u)[p][z] = IF p = 2 * (ay % H) + 1 /\ z = ax THEN Lower(c) ELSE Landed(mem, t)[p][z]
      <3>1. TAKE p \in 0 .. PagesOf - 1, z \in 0 .. W - 1
      <3>2. Landed(mem, t)[p][z] = IF p = (2 * ay) % PagesOf /\ z = ax THEN Upper(c) ELSE mem[p][z]
        BY <1>3, ByteLands
      <3>3. Landed(Landed(mem, t), u)[p][z] = IF p = (2 * ay + 1) % PagesOf /\ z = ax THEN Lower(c) ELSE Landed(mem, t)[p][z]
        BY <1>3, ByteLands
      <3>4. QED
        BY <3>2, <3>3, Pages
    <2> HIDE DEF t, u
    <2>4. <<t>> \in Seq(Kinds) /\ <<u>> \in Seq(Kinds)
      BY <2>1
    <2>5. After(mem, ts) = Landed(Landed(mem, t), u) /\ BaseAfter(b, ts) = b
      <3>1. After(mem, <<t>> \o <<u>>) = After(After(mem, <<t>>), <<u>>)
        BY <2>4, AfterBoth, Zenon
      <3>2. BaseAfter(b, <<t>> \o <<u>>) = BaseAfter(BaseAfter(b, <<t>>), <<u>>)
        BY <2>4, BaseAfterBoth, Zenon
      <3>3. QED
        BY <2>1, <2>2, <3>1, <3>2, AfterOne
    <2>6. \A p \in 0 .. PagesOf - 1, z \in 0 .. W - 1 :
            Landed(Landed(mem, t), u)[p][z] = Drawn(mem, ay % H, ax, c)[p][z]
      <3>1. 2 * (ay % H) # 2 * (ay % H) + 1
        BY Pages
      <3>2. QED
        BY <2>3, <3>1 DEF Drawn
    <2>7. After(mem, ts) = Drawn(mem, ay % H, ax, c)
      BY <2>5, <2>6, LandedIsMemory, DrawnIsMemory, SameMemory
    <2>8. QED
      BY <2>1, <2>2, <2>5, <2>7
  <1>5. CASE chip # "SH1106"
    <2> DEFINE t == Window(ax, ax, 2 * ay, 2 * ay + 1, <<Upper(c), Lower(c)>>)
    <2>1. t \in Kinds /\ t.op = "data"
      <3>1. \A a \in Int, p \in Int, q \in Int : Window(a, a, p, q, <<Upper(c), Lower(c)>>) \in Kinds
                                              /\ Window(a, a, p, q, <<Upper(c), Lower(c)>>).op = "data"
        BY <1>2, DataKind
      <3>2. 2 * ay \in Int /\ 2 * ay + 1 \in Int
        BY SMT
      <3>3. QED
        BY <1>3, <3>1, <3>2
    <2>2. ts = <<t>>
      BY <1>5 DEF drawChar, drawChar1306
    <2>3. \A p \in 0 .. PagesOf - 1, z \in 0 .. W - 1 : Landed(mem, t)[p][z] = Drawn(mem, ay % H, ax, c)[p][z]
      <3>1. TAKE p \in 0 .. PagesOf - 1, z \in 0 .. W - 1
      <3>2. /\ p = 2 * (ay % H) /\ z = ax => Landed(mem, t)[p][z] = Upper(c)
            /\ p = 2 * (ay % H) + 1 /\ z = ax => Landed(mem, t)[p][z] = Lower(c)
            /\ z # ax \/ p \notin {2 * (ay % H), 2 * (ay % H) + 1} => Landed(mem, t)[p][z] = mem[p][z]
        <4>1. ax - ax + 1 = 1 /\ 2 * ay + 1 - 2 * ay + 1 = 2
          BY Sizes, SMT
        <4>2. /\ t.op = "data" /\ t.c0 = ax /\ t.n = 1 /\ t.p0 = 2 * ay /\ t.rows = 2
              /\ t.cells = <<Upper(c), Lower(c)>>
          BY <4>1 DEF Window
        <4>3. DOMAIN t.cells = {1, 2} /\ t.cells[1] = Upper(c) /\ t.cells[2] = Lower(c)
          BY <4>2
        <4> HIDE DEF t
        <4>4. t.p0 % PagesOf = 2 * (ay % H) /\ (t.p0 + 1) % PagesOf = 2 * (ay % H) + 1
          BY <4>2, Pages
        <4>5. 2 * (ay % H) # 2 * (ay % H) + 1 /\ t.c0 \in Nat /\ t.p0 \in Nat
          BY <4>2, Pages
        <4>6. QED
          BY <4>2, <4>3, <4>4, <4>5, PairLands
      <3>3. QED
        BY <3>2 DEF Drawn
    <2> HIDE DEF t
    <2>4. After(mem, ts) = Drawn(mem, ay % H, ax, c)
      BY <2>2, <2>3, AfterOne, LandedIsMemory, DrawnIsMemory, SameMemory
    <2>5. BaseAfter(b, ts) = b
      BY <2>1, <2>2, AfterOne
    <2>6. QED
      BY <2>1, <2>2, <2>4, <2>5
  <1>6. QED
    BY <1>4, <1>5

-----------------------------------------------------------------------------
(* The order of the transfers: a page is blank before it comes into view.  *)

Before(p) == (p + PagesOf - 1) % PagesOf
Covers(t, p) == \A x \in 0 .. W - 1 : Bytes(t, p, x) # {} /\ Put(t, p, x) = Dark

Orderly(ts) ==
  \A i \in DOMAIN ts :
    /\ ts[i].op = "shift" => i > 1 /\ (ts[i - 1].op = "off" \/ Covers(ts[i - 1], Before(ts[i].to)))
    /\ ts[i].op = "on" => i = Len(ts)
Plain(ts) == Orderly(ts) /\ \A i \in DOMAIN ts : ts[i].op # "on"

LEMMA OrderlyBoth ==
  ASSUME NEW S, NEW s \in Seq(S), NEW t \in Seq(S), Plain(s), Orderly(t)
  PROVE  Orderly(s \o t) /\ (Plain(t) => Plain(s \o t))
  <1>1. PICK m \in Nat, n \in Nat : /\ m = Len(s) /\ n = Len(t) /\ DOMAIN (s \o t) = 1 .. m + n
                                    /\ DOMAIN s = 1 .. m /\ DOMAIN t = 1 .. n /\ Len(s \o t) = m + n
    <2>1. s \o t \in Seq(S) /\ Len(s \o t) = Len(s) + Len(t)
      OBVIOUS
    <2>2. QED
      BY <2>1
  <1> DEFINE st == s \o t
  <1>2. /\ \A i \in 1 .. m : st[i] = s[i]
        /\ \A i \in 1 .. n : st[m + i] = t[i]
    BY <1>1, SMT
  <1>3. DOMAIN st = 1 .. m + n /\ Len(st) = m + n
    BY <1>1
  <1> HIDE DEF st
  <1>4. ASSUME NEW i \in 1 .. m + n
        PROVE  /\ st[i].op = "shift" => i > 1 /\ (st[i - 1].op = "off" \/ Covers(st[i - 1], Before(st[i].to)))
               /\ st[i].op = "on" => i = m + n
               /\ Plain(t) => st[i].op # "on"
    <2>1. CASE i <= m
      <3>1. i \in 1 .. m /\ st[i] = s[i]
        BY <1>2, <2>1
      <3>2. i > 1 => st[i - 1] = s[i - 1]
        <4>1. i > 1 => i - 1 \in 1 .. m
          BY <3>1, SMT
        <4>2. QED
          BY <1>2, <4>1
      <3>3. s[i].op # "on" /\ (s[i].op = "shift" => i > 1 /\ (s[i - 1].op = "off" \/ Covers(s[i - 1], Before(s[i].to))))
        BY <1>1, <3>1 DEF Plain, Orderly
      <3>4. QED
        BY <3>1, <3>2, <3>3
    <2>2. CASE ~ i <= m
      <3>1. PICK j \in 1 .. n : i = m + j
        <4>1. i - m \in 1 .. n /\ i = m + (i - m)
          BY <2>2, SMT
        <4>2. QED
          BY <4>1
      <3>2. st[i] = t[j]
        BY <1>2, <3>1
      <3>3. j > 1 => i > 1 /\ st[i - 1] = t[j - 1]
        <4>1. j > 1 => j - 1 \in 1 .. n /\ i - 1 = m + (j - 1) /\ i > 1
          BY <3>1, SMT
        <4>2. QED
          BY <1>2, <4>1
      <3>4. /\ t[j].op = "shift" => j > 1 /\ (t[j - 1].op = "off" \/ Covers(t[j - 1], Before(t[j].to)))
            /\ t[j].op = "on" => j = n
            /\ Plain(t) => t[j].op # "on"
        BY <1>1, <3>1 DEF Plain, Orderly
      <3>5. QED
        BY <3>1, <3>2, <3>3, <3>4
    <2>3. QED
      BY <2>1, <2>2
  <1>5. QED
    BY <1>3, <1>4 DEF st, Plain, Orderly

LEMMA OrderlyOne ==
  ASSUME NEW t, t.op # "shift"
  PROVE  Orderly(<<t>>) /\ (t.op # "on" => Plain(<<t>>))
  BY DEF Orderly, Plain

\* Transfers of data are in order however they come.
LEMMA OrderlyData ==
  ASSUME NEW ts, \A i \in DOMAIN ts : ts[i].op = "data"
  PROVE  Plain(ts)
  BY DEF Orderly, Plain

LEMMA RoundOrderly ==
  ASSUME NEW ay \in Nat, NEW d \in {1, 2}, NEW scroll \in BOOLEAN,
         NEW erase \in {Erase1106(ay, d), Erase1306(ay, d)}, NEW ts, ts = Round(erase, ay, d, scroll)
  PROVE  Plain(ts)
  <1>1. PICK a \in Nat, r \in Nat \ {0} : erase = BlankRow(a, r) /\ a % PagesOf = (2 * ay + 2 - d) % PagesOf
    <2>1. 1 \in Nat \ {0} /\ 2 \in Nat \ {0}
      BY SMT
    <2>2. QED
      BY <2>1, Erased, Zenon
  <1>2. erase.op = "data"
    BY <1>1 DEF BlankRow
  <1>3. CASE ~ scroll
    <2>1. ts = <<erase>>
      <3>1. ts = <<erase>> \o <<>>
        BY <1>3, Zenon DEF Round
      <3>2. <<erase>> \in Seq({erase})
        OBVIOUS
      <3>3. QED
        BY <3>1, <3>2
    <2>2. QED
      BY <1>2, <2>1, OrderlyOne
  <1>4. CASE scroll
    <2> DEFINE s == Shift(ScrollTo(ay, d))
    <2>1. ScrollTo(ay, d) \in Nat /\ ScrollTo(ay, d) = 2 * ay + 2 - d + PagesOf + 1
      BY Sizes DEF ScrollTo
    <2>2. s.op = "shift" /\ s.to = ScrollTo(ay, d) % PagesOf
      BY <2>1, ShiftTo
    <2>3. ts = <<erase>> \o <<s>>
      BY <1>4, Zenon DEF Round
    <2>4. Before(s.to) = a % PagesOf
      <3>1. PICK z \in Nat \ {0} : z = PagesOf
        BY Sizes
      <3>2. PICK q \in Nat, e \in Nat : q = 2 * ay + 2 - d /\ e = z - 1
        BY SMT
      <3>3. PICK u \in Nat, v \in Nat : u = q + z + 1 /\ v = q + z
        BY SMT
      <3>4. ((u % z) + e) % z = (u + e) % z
        BY ModAdd
      <3>5. u + e = v + z
        BY <3>2, <3>3, SMT
      <3>6. (v + z) % z = v % z /\ v % z = q % z
        BY <3>3, Lap
      <3>7. Before(s.to) = ((u % z) + e) % z
        <4>1. s.to = u % z
          BY <2>1, <2>2, <3>1, <3>2, <3>3
        <4>2. u % z \in 0 .. z - 1
          BY DivMod
        <4>3. s.to + z - 1 = (u % z) + e
          BY <3>2, <4>1, <4>2, SMT
        <4>4. QED
          BY <3>1, <4>3 DEF Before
      <3>8. QED
        BY <1>1, <3>1, <3>2, <3>4, <3>5, <3>6, <3>7
    <2> HIDE DEF s
    <2>5. Covers(erase, a % PagesOf)
      <3>1. a % PagesOf \in 0 .. PagesOf - 1
        BY Sizes, DivMod
      <3>2. \A x \in 0 .. W - 1 : Bytes(erase, a % PagesOf, x) = {x + 1}
        BY <1>1, <3>1, BlankRowAt, Zenon
      <3>3. \A x \in 0 .. W - 1 : Bytes(erase, a % PagesOf, x) # {}
        BY <3>2
      <3>4. \A x \in 0 .. W - 1 : Put(erase, a % PagesOf, x) = Dark
        <4>1. TAKE x \in 0 .. W - 1
        <4>2. Bytes(BlankRow(a, r), a % PagesOf, x) # {} => Put(BlankRow(a, r), a % PagesOf, x) = Dark
          BY <3>1, BlankRowAt
        <4>3. QED
          BY <1>1, <3>3, <4>2
      <3>5. QED
        BY <3>3, <3>4 DEF Covers
    <2>6. /\ DOMAIN ts = {1, 2} /\ ts[1] = erase /\ ts[2] = s /\ 2 > 1 /\ 2 - 1 = 1
      <3>1. <<erase>> \in Seq({erase, s}) /\ <<s>> \in Seq({erase, s})
        OBVIOUS
      <3>2. Len(<<erase>>) = 1 /\ Len(<<s>>) = 1 /\ <<erase>>[1] = erase /\ <<s>>[1] = s
        OBVIOUS
      <3>3. ts \in Seq({erase, s}) /\ Len(ts) = 2 /\ ts[1] = erase /\ ts[2] = s
        BY <2>3, <3>1, <3>2
      <3>4. DOMAIN ts = 1 .. 2 /\ 1 .. 2 = {1, 2}
        BY <3>3
      <3>5. QED
        BY <3>3, <3>4, SMT
    <2>7. \A i \in {1, 2} :
            /\ ts[i].op = "shift" => i > 1 /\ (ts[i - 1].op = "off" \/ Covers(ts[i - 1], Before(ts[i].to)))
            /\ ts[i].op # "on"
      BY <1>2, <2>2, <2>4, <2>5, <2>6
    <2>8. QED
      BY <2>6, <2>7, Zenon DEF Orderly, Plain
  <1>5. QED
    BY <1>3, <1>4

LEMMA NewLineOrderly ==
  ASSUME NEW ay \in Nat, NEW scroll \in BOOLEAN, NEW ts, ts = newLine(ay, scroll)
  PROVE  Plain(ts)
  <1>1. PICK e2 \in {Erase1106(ay, 2), Erase1306(ay, 2)}, e1 \in {Erase1106(ay, 1), Erase1306(ay, 1)} :
          ts = Round(e2, ay, 2, scroll) \o Round(e1, ay, 1, scroll)
    <2>1. ts = newLine1106(ay, scroll) \/ ts = newLine1306(ay, scroll)
      BY DEF newLine
    <2>2. QED
      BY <2>1, Zenon DEF newLine1106, newLine1306
  <1>2. 1 \in {1, 2} /\ 2 \in {1, 2}
    BY SMT
  <1>3. PICK r2, r1 : r2 = Round(e2, ay, 2, scroll) /\ r1 = Round(e1, ay, 1, scroll)
    OBVIOUS
  <1>4. r2 \in Seq(Kinds) /\ r1 \in Seq(Kinds)
    BY <1>2, <1>3, RoundAfter
  <1>5. Plain(r2) /\ Plain(r1)
    BY <1>2, <1>3, RoundOrderly
  <1>6. Plain(r2 \o r1)
    BY <1>4, <1>5, OrderlyBoth, Zenon DEF Plain
  <1>7. QED
    BY <1>1, <1>3, <1>6

-----------------------------------------------------------------------------
(* Clearing the display.                                                   *)

AllDark == [p \in 0 .. PagesOf - 1 |-> BlankPage]

LEMMA AllDarkAt ==
  /\ IsMemory(AllDark)
  /\ \A p \in 0 .. PagesOf - 1, x \in 0 .. W - 1 : AllDark[p][x] = Dark
  BY DEF AllDark, BlankPage, IsMemory

LEMMA DarkKinds == \A n \in Nat : Blanks(n) \in Seq(Cells)
  <1>1. Dark \in Cells
    BY DEF Dark, Cells
  <1>2. QED
    BY <1>1 DEF Blanks

\* One transfer for each page.
Pages1106 == [i \in 1 .. PagesOf |-> Page(PagesOf - i, 0, Blanks(W))]
LEMMA PagesDark ==
  ASSUME NEW mem, NEW b
  PROVE  /\ Pages1106 \in Seq(Kinds) /\ Plain(Pages1106)
         /\ After(mem, Pages1106) = AllDark /\ BaseAfter(b, Pages1106) = b
  <1>1. PICK z \in Nat \ {0} : z = PagesOf
    BY Sizes
  <1>2. ASSUME NEW i \in 1 .. z
        PROVE  Pages1106[i] = BlankRow(z - i, 1) /\ z - i \in 0 .. z - 1 /\ z - i \in Nat
    <2>1. PICK q \in Nat : q = z - i /\ q \in 0 .. z - 1
      <3>1. z - i \in 0 .. z - 1 /\ z - i \in Nat
        BY SMT
      <3>2. QED
        BY <3>1
    <2>2. q % z = q
      BY <2>1, Small
    <2>3. W - 1 - 0 + 1 = W /\ q - q + 1 = 1
      BY Sizes, SMT
    <2>4. Page(q, 0, Blanks(W)) = BlankRow(q, 1)
      BY <1>1, <2>2, <2>3, Zenon DEF Page, Window, BlankRow
    <2>5. QED
      BY <1>1, <2>1, <2>4 DEF Pages1106
  <1>3. 1 \in Nat \ {0}
    BY SMT
  <1>4. \A i \in 1 .. z : Pages1106[i] \in Kinds /\ Pages1106[i].op = "data"
    <2>1. TAKE i \in 1 .. z
    <2>2. BlankRow(z - i, 1) \in Kinds
      BY <1>2, <1>3, BlankRowKind
    <2>3. BlankRow(z - i, 1).op = "data"
      BY DEF BlankRow
    <2>4. QED
      BY <1>2, <2>2, <2>3
  <1>5. DOMAIN Pages1106 = 1 .. z /\ Pages1106 = [i \in 1 .. z |-> Pages1106[i]]
    BY <1>1 DEF Pages1106
  <1>6. Pages1106 \in Seq(Kinds)
    BY <1>4, <1>5
  <1>7. Plain(Pages1106)
    BY <1>4, <1>5, OrderlyData
  <1>8. BaseAfter(b, Pages1106) = b
    <2>1. {i \in DOMAIN Pages1106 : Pages1106[i].op = "shift"} = {}
      BY <1>4, <1>5
    <2>2. QED
      BY <2>1, Zenon DEF BaseAfter
  <1>9. ASSUME NEW p \in 0 .. PagesOf - 1, NEW x \in 0 .. W - 1
        PROVE  After(mem, Pages1106)[p][x] = AllDark[p][x]
    <2>1. \A i \in 1 .. z : Bytes(Pages1106[i], p, x) # {} => Put(Pages1106[i], p, x) = Dark
      <3>1. TAKE i \in 1 .. z
      <3>2. Bytes(BlankRow(z - i, 1), p, x) # {} => Put(BlankRow(z - i, 1), p, x) = Dark
        BY <1>2, <1>3, BlankRowAt
      <3>3. QED
        BY <1>2, <3>2
    <2>2. PICK j \in 1 .. z : j = z - p /\ z - j = p
      <3>1. z - p \in 1 .. z /\ z - (z - p) = p
        BY <1>1, SMT
      <3>2. QED
        BY <3>1
    <2>3. Bytes(Pages1106[j], p, x) # {}
      <3>1. p % z = p /\ p \in Nat
        BY <1>1, Small
      <3>2. Bytes(BlankRow(p, 1), p, x) = {x + 1}
        BY <1>1, <1>3, <3>1, BlankRowAt
      <3>3. QED
        BY <1>2, <2>2, <3>2
    <2> DEFINE k == Hits(Pages1106, p, x)
    <2>4. j \in k /\ k \in SUBSET (1 .. z) /\ \A i \in k : Bytes(Pages1106[i], p, x) # {}
      BY <1>5, <2>3 DEF Hits
    <2>5. After(mem, Pages1106)[p][x] = IF k = {} THEN mem[p][x] ELSE Put(Pages1106[Latest(k)], p, x)
      BY AfterAt
    <2> HIDE DEF k
    <2>6. Latest(k) \in k
      BY <2>4, LatestIn
    <2>7. Latest(k) \in 1 .. z /\ Bytes(Pages1106[Latest(k)], p, x) # {}
      BY <2>4, <2>6
    <2>8. After(mem, Pages1106)[p][x] = Dark
      BY <2>1, <2>4, <2>5, <2>7
    <2>9. QED
      BY <2>8, AllDarkAt
  <1>10. After(mem, Pages1106) = AllDark
    BY <1>9, AfterIsMemory, AllDarkAt, SameMemory
  <1>11. QED
    BY <1>6, <1>7, <1>8, <1>10

\* One transfer for all of them.
Whole1306 == Window(0, W - 1, 0, PagesOf - 1, Blanks(W * PagesOf))
LEMMA WholeDark ==
  ASSUME NEW mem
  PROVE  Whole1306 \in Kinds /\ Whole1306.op = "data" /\ Landed(mem, Whole1306) = AllDark
  <1>1. PICK z \in Nat \ {0}, w \in Nat \ {0} : z = PagesOf /\ w = W
    BY Sizes
  <1>2. PICK n \in Nat : n = w * z
    BY SMT
  <1>3. w - 1 - 0 + 1 = w /\ z - 1 - 0 + 1 = z
    BY SMT
  <1> DEFINE t == Whole1306
  <1>4. t = [op |-> "data", c0 |-> 0, n |-> w, p0 |-> 0, rows |-> z, cells |-> Blanks(n)]
    <2>1. t = [op |-> "data", c0 |-> 0, n |-> w - 1 - 0 + 1, p0 |-> 0, rows |-> z - 1 - 0 + 1, cells |-> Blanks(n)]
      BY <1>1, <1>2 DEF Whole1306, Window
    <2>2. QED
      BY <1>3, <2>1
  <1>5. t \in Kinds /\ t.op = "data"
    BY <1>2, <1>4, DarkKinds DEF Kinds
  <1>6. t.c0 = 0 /\ t.n = w /\ t.p0 = 0 /\ t.rows = z /\ DOMAIN t.cells = 1 .. n /\ \A i \in 1 .. n : t.cells[i] = Dark
    BY <1>4 DEF Blanks
  <1> HIDE DEF t
  <1>7. ASSUME NEW p \in 0 .. PagesOf - 1, NEW x \in 0 .. W - 1
        PROVE  Landed(mem, t)[p][x] = AllDark[p][x]
    <2>1. p \in 0 .. z - 1 /\ x \in 0 .. w - 1 /\ p \in Nat
      BY <1>1
    <2> DEFINE k == Bytes(t, p, x)
    <2>2. k = {i \in 1 .. n : t.c0 + ((i - 1) % t.n) = x
                              /\ (t.p0 + (((i - 1) \div t.n) % t.rows)) % PagesOf = p}
      BY <1>5, <1>6, Zenon DEF Bytes
    <2>3. PICK j \in 1 .. n : j - 1 = w * p + x
      <3>1. w * p + w <= w * z
        <4>1. p + 1 <= z
          BY <2>1, SMT
        <4>2. w * (p + 1) <= w * z
          BY <2>1, <4>1, SMT
        <4>3. w * (p + 1) = w * p + w
          BY <2>1, SMT
        <4>4. QED
          BY <4>2, <4>3
      <3>2. PICK e \in Nat : e = w * p
        BY <2>1, SMT
      <3>3. e + x + 1 \in 1 .. n /\ e + x + 1 - 1 = e + x
        BY <1>2, <2>1, <3>1, <3>2, SMT
      <3>4. QED
        BY <3>2, <3>3
    <2>4. (j - 1) % w = x /\ (j - 1) \div w = p
      <3>1. (w * p + x) % w = x /\ (w * p + x) \div w = p
        BY <2>1, DivIs
      <3>2. QED
        BY <2>3, <3>1
    <2>5. p % z = p /\ 0 + p = p /\ 0 + x = x
      BY <2>1, Small
    <2>6. j \in k
      BY <1>1, <1>6, <2>2, <2>4, <2>5
    <2>7. k \in SUBSET (1 .. n)
      BY <2>2
    <2>8. Landed(mem, t)[p][x] = IF k = {} THEN mem[p][x] ELSE t.cells[Latest(k)]
      BY DEF Landed, Put
    <2> HIDE DEF k
    <2>9. Latest(k) \in 1 .. n
      BY <2>6, <2>7, LatestIn
    <2>10. QED
      BY <1>6, <2>6, <2>8, <2>9, AllDarkAt
  <1>8. Landed(mem, t) = AllDark
    BY <1>7, LandedIsMemory, AllDarkAt, SameMemory
  <1>9. QED
    BY <1>5, <1>8 DEF t

\* One more at the end.
LEMMA Longer ==
  ASSUME NEW s \in Seq(Kinds), NEW t \in Kinds, NEW n \in Nat, Len(s) = n
  PROVE  /\ s \o <<t>> \in Seq(Kinds) /\ Len(s \o <<t>>) = n + 1 /\ (s \o <<t>>)[n + 1] = t
         /\ \A i \in 1 .. n : (s \o <<t>>)[i] = s[i]
  <1>1. <<t>> \in Seq(Kinds) /\ Len(<<t>>) = 1 /\ <<t>>[1] = t
    OBVIOUS
  <1>2. PICK r \in Seq(Kinds) : r = <<t>> /\ Len(r) = 1 /\ r[1] = t
    BY <1>1
  <1>3. s \o r \in Seq(Kinds) /\ Len(s \o r) = n + 1 /\ (s \o r)[n + 1] = t /\ \A i \in 1 .. n : (s \o r)[i] = s[i]
    BY <1>2, SMT
  <1>4. QED
    BY <1>2, <1>3

Cleared == IF chip = "SH1106" THEN clear1106 ELSE clear1306

LEMMA ClearAfter ==
  ASSUME NEW mem, NEW b, NEW ts, ts = Cleared
  PROVE  ts \in Seq(Kinds) /\ Orderly(ts) /\ After(mem, ts) = AllDark /\ BaseAfter(b, ts) = 0
  <1> DEFINE h == <<Off, Shift(0)>>
             o == <<On>>
  <1>1. Shift(0) \in Kinds /\ Shift(0).op = "shift" /\ Shift(0).to = 0
    <2>1. 0 % PagesOf = 0 /\ 0 \in Nat
      <3>1. 0 \in 0 .. PagesOf - 1
        BY Sizes
      <3>2. QED
        BY <3>1, Sizes, Small
    <2>2. QED
      BY <2>1, ShiftTo
  <1>2. Off \in Kinds /\ Off.op = "off" /\ On \in Kinds /\ On.op = "on"
    BY DEF Kinds, Off, On
  <1>3. /\ h \in Seq(Kinds) /\ o \in Seq(Kinds) /\ DOMAIN h = {1, 2} /\ h[1] = Off /\ h[2] = Shift(0)
    BY <1>1, <1>2
  <1>4. Plain(h)
    <2>1. 2 > 1 /\ 2 - 1 = 1
      BY SMT
    <2>2. \A i \in {1, 2} :
            /\ h[i].op = "shift" => i > 1 /\ (h[i - 1].op = "off" \/ Covers(h[i - 1], Before(h[i].to)))
            /\ h[i].op # "on"
      BY <1>1, <1>2, <1>3, <2>1
    <2>3. QED
      BY <1>3, <2>2, Zenon DEF Plain, Orderly
  <1>5. Orderly(o)
    BY <1>2, OrderlyOne
  <1>6. BaseAfter(b, h) = 0
    <2> DEFINE k == {i \in DOMAIN h : h[i].op = "shift"}
    <2>1. k = {2}
      BY <1>1, <1>2, <1>3
    <2>2. Latest({2}) = 2
      <3>1. {2} \in SUBSET Int /\ 2 \in {2} /\ \A j \in {2} : j <= 2
        BY SMT
      <3>2. QED
        BY <3>1, LatestIs
    <2>3. BaseAfter(b, h) = IF k = {} THEN b ELSE h[Latest(k)].to
      BY Zenon DEF BaseAfter
    <2> HIDE DEF k, h
    <2>4. QED
      BY <1>1, <1>3, <2>1, <2>2, <2>3
  <1>7. \E m \in Seq(Kinds) : /\ ts = (h \o m) \o o /\ Plain(m)
                              /\ \A r, c : After(r, m) = AllDark /\ BaseAfter(c, m) = c
    <2>1. CASE chip = "SH1106"
      <3>1. ts = (h \o Pages1106) \o o
        BY <2>1, Zenon DEF Cleared, clear1106, Pages1106
      <3>2. QED
        BY <3>1, PagesDark
    <2>2. CASE chip # "SH1106"
      <3> DEFINE m == <<Whole1306>>
      <3>1. ts = <<Off, Shift(0), Whole1306, On>>
        BY <2>2, Zenon DEF Cleared, clear1306, Whole1306
      <3>2. Whole1306 \in Kinds /\ Whole1306.op = "data" /\ \A r : Landed(r, Whole1306) = AllDark
        BY WholeDark
      <3>3. m \in Seq(Kinds) /\ Len(m) = 1 /\ m[1] = Whole1306
        BY <3>2
      <3>4. Plain(m)
        BY <3>2, OrderlyOne
      <3>5. \A r, c : After(r, m) = AllDark /\ BaseAfter(c, m) = c
        BY <3>2, AfterOne
      <3>6. ts = (h \o m) \o o
        <4>1. ts \in Seq(Kinds) /\ Len(ts) = 4 /\ ts[1] = Off /\ ts[2] = Shift(0) /\ ts[3] = Whole1306 /\ ts[4] = On
          BY <1>1, <1>2, <3>1, <3>2
        <4>2. Len(h) = 2 /\ Len(o) = 1 /\ o[1] = On
          OBVIOUS
        <4> HIDE DEF h, m, o
        <4>3. h \o m \in Seq(Kinds) /\ Len(h \o m) = 3 /\ (h \o m)[1] = Off /\ (h \o m)[2] = Shift(0) /\ (h \o m)[3] = Whole1306
          <5>1. 2 + 1 = 3 /\ 1 \in 1 .. 2 /\ 2 \in 1 .. 2 /\ 2 \in Nat
            BY SMT
          <5>2. m = <<Whole1306>>
            BY DEF m
          <5>3. /\ h \o <<Whole1306>> \in Seq(Kinds) /\ Len(h \o <<Whole1306>>) = 2 + 1
                /\ (h \o <<Whole1306>>)[2 + 1] = Whole1306
                /\ \A i \in 1 .. 2 : (h \o <<Whole1306>>)[i] = h[i]
            <6>1. h \in Seq(Kinds) /\ Whole1306 \in Kinds
              BY <1>3, <3>2
            <6>2. QED
              BY <4>2, <5>1, <6>1, Longer, Zenon
          <5>4. h[1] = Off /\ h[2] = Shift(0)
            BY <1>3
          <5>5. QED
            BY <5>1, <5>2, <5>3, <5>4, Zenon
        <4>4. PICK u \in Seq(Kinds) : u = h \o m /\ Len(u) = 3 /\ u[1] = Off /\ u[2] = Shift(0) /\ u[3] = Whole1306
          BY <4>3
        <4>5. /\ u \o o \in Seq(Kinds) /\ Len(u \o o) = 4
              /\ (u \o o)[1] = Off /\ (u \o o)[2] = Shift(0) /\ (u \o o)[3] = Whole1306 /\ (u \o o)[4] = On
          <5>1. 3 + 1 = 4 /\ 1 \in 1 .. 3 /\ 2 \in 1 .. 3 /\ 3 \in 1 .. 3 /\ 3 \in Nat
            BY SMT
          <5>2. o = <<On>>
            BY DEF o
          <5>3. QED
            BY <1>2, <4>4, <5>1, <5>2, Longer
        <4>6. \A i \in 1 .. 4 : ts[i] = (u \o o)[i]
          <5>1. 1 .. 4 = {1, 2, 3, 4}
            BY SMT
          <5>2. QED
            BY <4>1, <4>5, <5>1
        <4>7. QED
          <5>1. PICK v \in Seq(Kinds) : v = u \o o /\ Len(v) = 4
            BY <4>5
          <5>2. PICK w \in Seq(Kinds) : w = ts /\ Len(w) = 4
            BY <4>1
          <5>3. \A i \in 1 .. 4 : v[i] = w[i]
            BY <4>6, <5>1, <5>2
          <5>4. v = w
            <6>1. Len(v) = Len(w) /\ \A i \in 1 .. Len(v) : v[i] = w[i]
              BY <5>1, <5>2, <5>3
            <6>2. QED
              BY <6>1, SeqEqual
          <5>5. QED
            BY <4>4, <5>1, <5>2, <5>4
      <3> HIDE DEF m
      <3>7. QED
        BY <3>3, <3>4, <3>5, <3>6
    <2>3. QED
      BY <2>1, <2>2
  <1>8. PICK m \in Seq(Kinds) : /\ ts = (h \o m) \o o /\ Plain(m)
                                /\ \A r, c : After(r, m) = AllDark /\ BaseAfter(c, m) = c
    BY <1>7
  <1> HIDE DEF h
  <1>9. PICK u \in Seq(Kinds) : u = h \o m
    <2>1. h \o m \in Seq(Kinds)
      BY <1>3
    <2>2. QED
      BY <2>1
  <1>10. Plain(u)
    BY <1>3, <1>4, <1>8, <1>9, OrderlyBoth, Zenon DEF Plain
  <1>11. After(mem, u) = AllDark /\ BaseAfter(b, u) = 0
    <2>1. After(mem, h \o m) = After(After(mem, h), m)
      BY <1>3, AfterBoth, Zenon
    <2>2. BaseAfter(b, h \o m) = BaseAfter(BaseAfter(b, h), m)
      BY <1>3, BaseAfterBoth, Zenon
    <2>3. QED
      BY <1>6, <1>8, <1>9, <2>1, <2>2
  <1>12. Orderly(u \o o) /\ u \o o \in Seq(Kinds)
    <2>1. Orderly(u \o o)
      BY <1>3, <1>5, <1>10, OrderlyBoth, Zenon
    <2>2. QED
      BY <1>3, <2>1
  <1>13. After(mem, u \o o) = AllDark /\ BaseAfter(b, u \o o) = 0
    <2>1. After(mem, u \o o) = After(After(mem, u), o)
      BY <1>3, AfterBoth, Zenon
    <2>2. BaseAfter(b, u \o o) = BaseAfter(BaseAfter(b, u), o)
      BY <1>3, BaseAfterBoth, Zenon
    <2>3. After(AllDark, o) = AllDark
      BY <1>2, AfterOne, NoBytes, AllDarkAt
    <2>4. BaseAfter(0, o) = 0
      BY <1>2, AfterOne
    <2>5. QED
      BY <1>11, <2>1, <2>2, <2>3, <2>4
  <1>14. QED
    BY <1>8, <1>9, <1>12, <1>13

-----------------------------------------------------------------------------
(* The memory as text.                                                     *)

Line(mem, l) == [x \in 0 .. W - 1 |-> Letter(mem[2 * l][x], mem[2 * l + 1][x])]
TextOf(mem, f) == [y \in 0 .. H - 1 |-> Line(mem, (f + y) % H)]

LEMMA ReadIs ==
  ASSUME NEW f \in 0 .. H - 1, NEW mem
  PROVE  Read(Shown(mem, 2 * f)) = TextOf(mem, f) /\ (2 * f) \div 2 = f
  <1>1. \A y \in 0 .. H - 1 : Shown(mem, 2 * f)[2 * y] = mem[2 * ((f + y) % H)]
                              /\ Shown(mem, 2 * f)[2 * y + 1] = mem[2 * ((f + y) % H) + 1]
    <2>1. TAKE y \in 0 .. H - 1
    <2>2. PICK a \in Nat : a = f + y /\ 2 * a = 2 * f + 2 * y /\ 2 * a + 1 = 2 * f + (2 * y + 1)
      BY Sizes
    <2>3. 2 * y \in 0 .. PagesOf - 1 /\ 2 * y + 1 \in 0 .. PagesOf - 1
      BY Sizes
    <2>4. Shown(mem, 2 * f)[2 * y] = mem[(2 * a) % PagesOf] /\ Shown(mem, 2 * f)[2 * y + 1] = mem[(2 * a + 1) % PagesOf]
      BY <2>2, <2>3 DEF Shown
    <2>5. QED
      BY <2>2, <2>4, Pages
  <1>2. (2 * f) \div 2 = f
    BY Sizes
  <1>3. \A y \in 0 .. H - 1 :
          [x \in 0 .. W - 1 |-> Letter(Shown(mem, 2 * f)[2 * y][x], Shown(mem, 2 * f)[2 * y + 1][x])]
            = Line(mem, (f + y) % H)
    <2>1. TAKE y \in 0 .. H - 1
    <2>2. QED
      BY <1>1, Zenon DEF Line
  <1>4. Read(Shown(mem, 2 * f)) = TextOf(mem, f)
    BY <1>3, Zenon DEF Read, TextOf
  <1>5. QED
    BY <1>2, <1>4

LEMMA LineDark ==
  ASSUME NEW l \in 0 .. H - 1
  PROVE  Line(AllDark, l) = T!BlankLine
  <1>1. 2 * l \in 0 .. PagesOf - 1 /\ 2 * l + 1 \in 0 .. PagesOf - 1
    BY Sizes
  <1>2. \A x \in 0 .. W - 1 : Letter(AllDark[2 * l][x], AllDark[2 * l + 1][x]) = Blank
    BY <1>1, AllDarkAt DEF Letter
  <1>3. QED
    BY <1>2, Zenon DEF Line, T!BlankLine

LEMMA LineWiped ==
  ASSUME NEW l \in 0 .. H - 1, NEW k \in 0 .. H - 1, NEW mem
  PROVE  Line(Wiped(mem, k), l) = IF l = k THEN T!BlankLine ELSE Line(mem, l)
  <1>1. /\ 2 * l \in 0 .. PagesOf - 1 /\ 2 * l + 1 \in 0 .. PagesOf - 1
        /\ 2 * l # 2 * k + 1 /\ 2 * l + 1 # 2 * k /\ (2 * l = 2 * k <=> l = k) /\ (2 * l + 1 = 2 * k + 1 <=> l = k)
    BY Sizes
  <1>2. \A x \in 0 .. W - 1 :
          /\ Wiped(mem, k)[2 * l][x] = IF l = k THEN Dark ELSE mem[2 * l][x]
          /\ Wiped(mem, k)[2 * l + 1][x] = IF l = k THEN Dark ELSE mem[2 * l + 1][x]
    BY <1>1 DEF Wiped, Blanked
  <1>3. CASE l = k
    <2>1. \A x \in 0 .. W - 1 : Letter(Wiped(mem, k)[2 * l][x], Wiped(mem, k)[2 * l + 1][x]) = Blank
      BY <1>2, <1>3 DEF Letter
    <2>2. Line(Wiped(mem, k), l) = T!BlankLine
      BY <2>1, Zenon DEF Line, T!BlankLine
    <2>3. QED
      BY <1>3, <2>2
  <1>4. CASE l # k
    <2>1. \A x \in 0 .. W - 1 : Wiped(mem, k)[2 * l][x] = mem[2 * l][x] /\ Wiped(mem, k)[2 * l + 1][x] = mem[2 * l + 1][x]
      BY <1>2, <1>4
    <2>2. Line(Wiped(mem, k), l) = Line(mem, l)
      BY <2>1, Zenon DEF Line
    <2>3. QED
      BY <1>4, <2>2
  <1>5. QED
    BY <1>3, <1>4

LEMMA LineDrawn ==
  ASSUME NEW l \in 0 .. H - 1, NEW k \in 0 .. H - 1, NEW mem, NEW x \in 0 .. W - 1, NEW c \in Letters
  PROVE  Line(Drawn(mem, k, x, c), l) = IF l = k THEN [Line(mem, l) EXCEPT ![x] = c] ELSE Line(mem, l)
  <1>1. /\ 2 * l \in 0 .. PagesOf - 1 /\ 2 * l + 1 \in 0 .. PagesOf - 1
        /\ 2 * l # 2 * k + 1 /\ 2 * l + 1 # 2 * k /\ (2 * l = 2 * k <=> l = k) /\ (2 * l + 1 = 2 * k + 1 <=> l = k)
    BY Sizes
  <1>2. \A z \in 0 .. W - 1 :
          /\ Drawn(mem, k, x, c)[2 * l][z] = IF l = k /\ z = x THEN Upper(c) ELSE mem[2 * l][z]
          /\ Drawn(mem, k, x, c)[2 * l + 1][z] = IF l = k /\ z = x THEN Lower(c) ELSE mem[2 * l + 1][z]
    BY <1>1 DEF Drawn
  <1>3. Letter(Upper(c), Lower(c)) = c
    BY DEF Letter, Upper, Lower, Dark
  <1>4. \A z \in 0 .. W - 1 :
          Letter(Drawn(mem, k, x, c)[2 * l][z], Drawn(mem, k, x, c)[2 * l + 1][z])
            = IF l = k /\ z = x THEN c ELSE Letter(mem[2 * l][z], mem[2 * l + 1][z])
    BY <1>2, <1>3
  <1>5. Line(Drawn(mem, k, x, c), l) = [z \in 0 .. W - 1 |-> IF l = k /\ z = x THEN c ELSE Letter(mem[2 * l][z], mem[2 * l + 1][z])]
    BY <1>4, Zenon DEF Line
  <1>6. QED
    BY <1>5 DEF Line

LEMMA LineOf ==
  ASSUME NEW a \in Nat
  PROVE  a % H \in 0 .. H - 1
  BY Pages

LEMMA LinesAt ==
  \A f \in 0 .. H - 1, v \in 0 .. H - 1 : \A a \in Nat : (f + v) % H = a % H <=> v = (a + H - f) % H
  BY LineAt

LEMMA TextDark == ASSUME NEW f \in 0 .. H - 1 PROVE TextOf(AllDark, f) = T!BlankText
  <1>1. \A y \in 0 .. H - 1 : Line(AllDark, (f + y) % H) = T!BlankLine
    <2>1. TAKE y \in 0 .. H - 1
    <2>2. f + y \in Nat
      BY Sizes
    <2>3. QED
      BY <2>2, LineOf, LineDark
  <1>2. QED
    BY <1>1, Zenon DEF TextOf, T!BlankText

\* A line that is erased where it is shown.
LEMMA TextWiped ==
  ASSUME NEW f \in 0 .. H - 1, NEW a \in Nat, NEW mem
  PROVE  TextOf(Wiped(mem, a % H), f) = [TextOf(mem, f) EXCEPT ![(a + H - f) % H] = T!BlankLine]
  <1> DEFINE r == (a + H - f) % H
  <1>1. \A y \in 0 .. H - 1 : Line(Wiped(mem, a % H), (f + y) % H) = IF y = r THEN T!BlankLine ELSE Line(mem, (f + y) % H)
    <2>1. TAKE y \in 0 .. H - 1
    <2>2. f + y \in Nat
      BY Sizes
    <2>3. (f + y) % H \in 0 .. H - 1 /\ a % H \in 0 .. H - 1
      BY <2>2, LineOf
    <2>4. (f + y) % H = a % H <=> y = r
      BY LineAt
    <2>5. QED
      BY <2>3, <2>4, LineWiped
  <1>2. TextOf(Wiped(mem, a % H), f) = [y \in 0 .. H - 1 |-> IF y = r THEN T!BlankLine ELSE Line(mem, (f + y) % H)]
    BY <1>1, Zenon DEF TextOf
  <1> HIDE DEF r
  <1>3. [TextOf(mem, f) EXCEPT ![r] = T!BlankLine] = [y \in 0 .. H - 1 |-> IF y = r THEN T!BlankLine ELSE Line(mem, (f + y) % H)]
    BY DEF TextOf
  <1>4. QED
    BY <1>2, <1>3 DEF r

\* A letter that is drawn there.
LEMMA TextDrawn ==
  ASSUME NEW f \in 0 .. H - 1, NEW a \in Nat, NEW mem, NEW x \in 0 .. W - 1, NEW c \in Letters
  PROVE  TextOf(Drawn(mem, a % H, x, c), f) = [TextOf(mem, f) EXCEPT ![(a + H - f) % H][x] = c]
  <1> DEFINE r == (a + H - f) % H
  <1>1. \A y \in 0 .. H - 1 : Line(Drawn(mem, a % H, x, c), (f + y) % H)
                                = IF y = r THEN [Line(mem, (f + y) % H) EXCEPT ![x] = c] ELSE Line(mem, (f + y) % H)
    <2>1. TAKE y \in 0 .. H - 1
    <2>2. f + y \in Nat
      BY Sizes
    <2>3. (f + y) % H \in 0 .. H - 1 /\ a % H \in 0 .. H - 1
      BY <2>2, LineOf
    <2>4. (f + y) % H = a % H <=> y = r
      BY LineAt
    <2>5. QED
      BY <2>3, <2>4, LineDrawn
  <1>2. TextOf(Drawn(mem, a % H, x, c), f)
          = [y \in 0 .. H - 1 |-> IF y = r THEN [Line(mem, (f + y) % H) EXCEPT ![x] = c] ELSE Line(mem, (f + y) % H)]
    BY <1>1, Zenon DEF TextOf
  <1> HIDE DEF r
  <1>3. [TextOf(mem, f) EXCEPT ![r][x] = c]
          = [y \in 0 .. H - 1 |-> IF y = r THEN [Line(mem, (f + y) % H) EXCEPT ![x] = c] ELSE Line(mem, (f + y) % H)]
    BY DEF TextOf
  <1>4. QED
    BY <1>2, <1>3 DEF r

\* The first line is erased and becomes the last.
LEMMA TextUp ==
  ASSUME NEW f \in 0 .. H - 1, NEW a \in Nat, a % H = f, NEW mem
  PROVE  /\ (a + 1) % H \in 0 .. H - 1
         /\ TextOf(Wiped(mem, a % H), (a + 1) % H)
              = [y \in 0 .. H - 1 |-> IF y = H - 1 THEN T!BlankLine ELSE TextOf(mem, f)[y + 1]]
  <1>1. PICK h \in Nat \ {0} : h = H
    BY Sizes
  <1>2. PICK b \in Nat, g \in Nat : b = a + 1 /\ g = b % H
    BY LineOf
  <1>3. g \in 0 .. H - 1
    BY <1>2, LineOf
  <1>4. ASSUME NEW y \in 0 .. H - 1
        PROVE  Line(Wiped(mem, f), (g + y) % H) = IF y = H - 1 THEN T!BlankLine ELSE TextOf(mem, f)[y + 1]
    <2>1. PICK z \in Nat : z = y + 1 /\ y \in Nat /\ f \in Nat /\ z <= h
      BY <1>1, SMT
    <2>2. (g + y) % h = (f + z) % h
      <3>1. ((b % h) + y) % h = (b + y) % h
        BY <2>1, ModAdd
      <3>2. b + y = a + z
        BY <1>2, <2>1, SMT
      <3>3. ((a % h) + z) % h = (a + z) % h
        BY ModAdd
      <3>4. QED
        BY <1>1, <1>2, <3>1, <3>2, <3>3
    <2>3. (f + z) % H \in 0 .. H - 1
      <3>1. f + z \in Nat
        BY <2>1
      <3>2. QED
        BY <3>1, LineOf
    <2>4. CASE y = H - 1
      <3>1. z = h /\ f \in 0 .. h - 1
        BY <1>1, <2>1, <2>4, SMT
      <3>2. (f + h) % h = f % h /\ f % h = f
        BY <2>1, <3>1, Lap, Small
      <3>3. (g + y) % H = f
        BY <1>1, <2>2, <3>1, <3>2
      <3>4. QED
        BY <2>4, <3>3, LineWiped
    <2>5. CASE y # H - 1
      <3>1. z \in 0 .. H - 1 /\ z # 0 /\ 0 \in 0 .. H - 1 /\ f + 0 = f /\ f \in 0 .. h - 1
        BY <1>1, <2>1, <2>5, SMT
      <3>2. (f + 0) % H = a % H
        <4>1. f % h = f
          BY <3>1, Small
        <4>2. QED
          BY <1>1, <3>1, <4>1
      <3>3. \A v \in 0 .. H - 1 : (f + v) % H = a % H <=> v = (a + H - f) % H
        BY LinesAt
      <3>4. 0 = (a + H - f) % H
        BY <3>1, <3>2, <3>3, Zenon
      <3>5. (f + z) % H # f
        <4>1. (f + z) % H = a % H <=> z = (a + H - f) % H
          BY <3>1, <3>3, Zenon
        <4>2. QED
          BY <3>1, <3>4, <4>1
      <3>6. Line(Wiped(mem, f), (f + z) % H) = Line(mem, (f + z) % H)
        BY <2>3, <3>5, LineWiped
      <3>7. TextOf(mem, f)[z] = Line(mem, (f + z) % H)
        BY <3>1 DEF TextOf
      <3>8. QED
        BY <1>1, <2>1, <2>2, <2>5, <3>6, <3>7
    <2>6. QED
      BY <2>4, <2>5
  <1>5. TextOf(Wiped(mem, f), g) = [y \in 0 .. H - 1 |-> IF y = H - 1 THEN T!BlankLine ELSE TextOf(mem, f)[y + 1]]
    BY <1>4, Zenon DEF TextOf
  <1>6. QED
    BY <1>2, <1>3, <1>5

-----------------------------------------------------------------------------
(* The line counters.                                                      *)

Distance(y, z) == IF z > y THEN z - y ELSE z - y + Width

\* As far as the lines go, the counters never overflow.
LEMMA Overflow ==
  ASSUME NEW y \in 0 .. Width - 1
  PROVE  LET n == (y + 1) % Width
         IN  n \in 0 .. Width - 1 /\ n = (IF y + 1 = Width THEN 0 ELSE y + 1) /\ n % H = (y + 1) % H
  <1>1. PICK h \in Nat \ {0}, w \in Nat \ {0} : h = H /\ w = Width /\ w % h = 0
    BY Sizes
  <1>2. PICK a \in Nat : a = y + 1 /\ a <= w
    BY <1>1, SMT
  <1>3. CASE a = w
    <2>1. a = w * 1 + 0 /\ 0 \in 0 .. w - 1 /\ 1 \in Nat /\ 0 \in 0 .. h - 1
      BY <1>3, SMT
    <2>2. (w * 1 + 0) % w = 0
      BY <2>1, DivIs
    <2>3. 0 % h = 0
      BY <2>1, Small
    <2>4. a % w = 0
      BY <2>1, <2>2
    <2>5. QED
      BY <1>1, <1>2, <1>3, <2>1, <2>3, <2>4
  <1>4. CASE a # w
    <2>1. a \in 0 .. w - 1
      BY <1>2, <1>4, SMT
    <2>2. a % w = a
      BY <2>1, Small
    <2>3. QED
      BY <1>1, <1>2, <1>4, <2>1, <2>2
  <1>5. QED
    BY <1>3, <1>4

\* The row of the cursor on a console.
LEMMA RowIs ==
  ASSUME NEW y \in 0 .. Width - 1, NEW z \in 0 .. Width - 1, Distance(y, z) \in 1 .. H
  PROVE  (y + H - (z % H)) % H = H - Distance(y, z)
  <1>1. PICK h \in Nat \ {0}, w \in Nat \ {0} : h = H /\ w = Width /\ w % h = 0
    BY Sizes
  <1>2. PICK d \in Nat : d = Distance(y, z) /\ d >= 1 /\ d <= h
    BY <1>1, SMT
  <1>3. PICK r \in Nat : r = h - d /\ r \in 0 .. H - 1
    <2>1. h - d \in Nat /\ h - d \in 0 .. H - 1
      BY <1>1, <1>2, SMT
    <2>2. QED
      BY <2>1
  <1>4. y \in Nat /\ z \in Nat
    BY SMT
  <1>5. ((z % h) + r) % h = (z + r) % h
    BY <1>4, ModAdd
  <1>6. (z + r) % h = y % h
    <2>1. CASE z > y
      <3>1. z + r = y + h
        BY <1>2, <1>3, <1>4, <2>1, SMT DEF Distance
      <3>2. QED
        BY <1>4, <3>1, Lap
    <2>2. CASE ~ z > y
      <3>1. PICK v \in Nat : v = z + r /\ w + v = y + h
        <4>1. w + (z + r) = y + h /\ z + r \in Nat
          BY <1>1, <1>2, <1>3, <1>4, <2>2, SMT DEF Distance
        <4>2. QED
          BY <4>1
      <3>2. ((w % h) + v) % h = (w + v) % h
        BY ModAdd
      <3>3. 0 + v = v
        BY SMT
      <3>4. QED
        BY <1>1, <1>4, <3>1, <3>2, <3>3, Lap
    <2>3. QED
      BY <2>1, <2>2
  <1>7. PICK f \in 0 .. H - 1 : f = z % H
    BY <1>4, LineOf
  <1>8. (f + r) % H = y % H <=> r = (y + H - f) % H
    BY <1>3, <1>4, LineAt
  <1>9. QED
    BY <1>1, <1>2, <1>3, <1>5, <1>6, <1>7, <1>8

\* What a new line makes of the counters, and of the row.
LEMMA Onward ==
  ASSUME NEW y \in 0 .. Width - 1, NEW z \in 0 .. Width - 1, _console_mode \in BOOLEAN,
         _console_mode => Distance(y, z) \in 1 .. H,
         NEW n, n = (y + 1) % Width,
         NEW u, n = z => u = (z + 1) % Width, n # z => u = z % Width,
         NEW f, _console_mode => f = z % H, ~ _console_mode => f = 0,
         NEW g, _console_mode => g = u % H, ~ _console_mode => g = 0,
         NEW row, row = (y + H - f) % H
  PROVE  /\ n \in 0 .. Width - 1 /\ u \in 0 .. Width - 1
         /\ _console_mode => Distance(n, u) \in 1 .. H
         /\ f \in 0 .. H - 1 /\ g \in 0 .. H - 1 /\ row \in 0 .. H - 1
         /\ _console_mode => (n = z <=> row = H - 1)
         /\ _console_mode /\ n = z => n % H = f /\ g = (n + 1) % H /\ (n + H - g) % H = row
         /\ ~ (_console_mode /\ n = z) => g = f /\ (n + H - f) % H = (row + 1) % H
  <1>1. PICK h \in Nat \ {0}, w \in Nat \ {0} : h = H /\ w = Width /\ w > h
    BY Sizes
  <1>2. /\ n \in 0 .. w - 1 /\ n = (IF y + 1 = w THEN 0 ELSE y + 1) /\ n % h = (y + 1) % h
    BY <1>1, Overflow
  <1>3. /\ u \in 0 .. w - 1
        /\ n = z => u = (IF z + 1 = w THEN 0 ELSE z + 1) /\ u % h = (z + 1) % h
        /\ n # z => u = z
    <2>1. CASE n = z
      BY <1>1, <2>1, Overflow
    <2>2. CASE n # z
      <3>1. z + 0 = z /\ z \in 0 .. w - 1
        BY <1>1, SMT
      <3>2. z % w = z
        BY <3>1, Small
      <3>3. QED
        BY <1>1, <2>2, <3>1, <3>2
    <2>3. QED
      BY <2>1, <2>2
  <1>4. y \in Nat /\ z \in Nat /\ u \in Nat /\ n \in Nat
    BY <1>2, <1>3, SMT
  <1>5. /\ f \in 0 .. H - 1 /\ g \in 0 .. H - 1
    <2>1. 0 \in 0 .. H - 1 /\ z % H \in 0 .. H - 1 /\ u % H \in 0 .. H - 1
      BY <1>1, <1>4, LineOf
    <2>2. QED
      BY <2>1
  <1>6. row \in 0 .. H - 1
    <2>1. 0 \in 0 .. H - 1
      BY <1>1
    <2>2. QED
      BY <1>4, <1>5, <2>1, LineAt
  <1>7. CASE _console_mode
    <2> DEFINE d == Distance(y, z)
               e == Distance(n, u)
    <2>1. d \in 1 .. h /\ d = (IF z > y THEN z - y ELSE z - y + w)
      BY <1>1, <1>7 DEF Distance
    <2>2. e = (IF u > n THEN u - n ELSE u - n + w)
      BY <1>1 DEF Distance
    <2> HIDE DEF d, e
    <2>3. n = z <=> d = 1
      BY <1>1, <1>2, <2>1, SMT
    <2>4. n = z => e = 1
      BY <1>1, <1>2, <1>3, <2>2, SMT
    <2>5. n # z => e = d - 1
      BY <1>1, <1>2, <1>3, <2>1, <2>2, SMT
    <2>6. e \in 1 .. h
      BY <1>1, <2>1, <2>3, <2>4, <2>5, SMT
    <2>7. row = h - d
      BY <1>1, <1>7, <2>1, RowIs DEF d
    <2>8. (n + h - g) % h = h - e
      BY <1>1, <1>2, <1>3, <1>7, <2>6, RowIs DEF e
    <2>9. n = z <=> row = h - 1
      BY <2>1, <2>3, <2>7, SMT
    <2>10. n # z => g = f /\ row + 1 = h - e /\ row + 1 \in 0 .. h - 1
      BY <1>1, <1>3, <1>7, <2>1, <2>5, <2>6, <2>7, SMT
    <2>11. n # z => (row + 1) % h = row + 1
      BY <2>10, Small
    <2>12. n = z => n % h = f /\ g = (n + 1) % h
      BY <1>1, <1>3, <1>7
    <2>13. n = z => (n + h - g) % h = row
      BY <2>3, <2>4, <2>7, <2>8
    <2>14. n # z => g = f /\ (n + h - f) % h = (row + 1) % h
      BY <2>8, <2>10, <2>11
    <2>15. QED
      BY <1>1, <1>2, <1>3, <1>5, <1>6, <1>7, <2>6, <2>9, <2>12, <2>13, <2>14 DEF e
  <1>8. CASE ~ _console_mode
    <2>1. f = 0 /\ g = 0 /\ y + h - 0 = y + h /\ n + h - 0 = n + h
      BY <1>4, <1>8
    <2>2. (y + h) % h = y % h /\ (n + h) % h = n % h
      BY <1>1, <1>4, Lap
    <2>3. ((y % h) + 1) % h = (y + 1) % h
      BY <1>4, ModAdd
    <2>4. QED
      <3>1. row = y % h /\ (n + h - f) % h = n % h
        BY <1>1, <2>1, <2>2
      <3>2. QED
        BY <1>1, <1>2, <1>3, <1>5, <1>6, <1>8, <2>1, <2>3, <3>1
  <1>9. QED
    BY <1>7, <1>8

-----------------------------------------------------------------------------
(* The invariant.                                                          *)

OTypes ==
  /\ IsMemory(ram) /\ lit \in BOOLEAN /\ wire \in Seq(Kinds)
  /\ _cx \in 0 .. W /\ _cy \in 0 .. Width - 1 /\ _cz \in 0 .. Width - 1 /\ _console_mode \in BOOLEAN

\* The first line of the memory that is shown when the transfers have been made.
First == IF _console_mode THEN _cz % H ELSE 0
OBase == BaseAfter(base, wire) = 2 * First

OScreen == screen = ScreenAfter(wire)

\* On a console the lines from the cursor to the last one are those that are shown.
Ahead == IF _cz > _cy THEN _cz - _cy ELSE _cz - _cy + Width
OCursor == _console_mode => Ahead \in 1 .. H

\* No line comes into view that has not been erased, and the display is turned
\* on when all is done.
OOrder ==
  \A i \in DOMAIN wire :
    /\ wire[i].op = "shift" =>
         IF i = 1 THEN ~ lit \/ ram[Before(wire[i].to)] = BlankPage
         ELSE wire[i - 1].op = "off" \/ Covers(wire[i - 1], Before(wire[i].to))
    /\ wire[i].op = "on" => i = Len(wire)

OInv == OTypes /\ OBase /\ OScreen /\ OCursor /\ OOrder

LEMMA FirstIs == ASSUME _cz \in 0 .. Width - 1 PROVE First \in 0 .. H - 1
  <1>1. _cz \in Nat /\ 0 \in 0 .. H - 1
    BY Sizes, SMT
  <1>2. _cz % H \in 0 .. H - 1
    BY <1>1, LineOf
  <1>3. QED
    BY <1>1, <1>2 DEF First

LEMMA ScreenIs ==
  ASSUME NEW ts, NEW f \in 0 .. H - 1, BaseAfter(base, ts) = 2 * f
  PROVE  ScreenAfter(ts) = [text |-> TextOf(After(ram, ts), f), first |-> f]
  <1>1. Read(Shown(After(ram, ts), 2 * f)) = TextOf(After(ram, ts), f) /\ (2 * f) \div 2 = f
    BY ReadIs
  <1>2. QED
    BY <1>1 DEF ScreenAfter

\* Between the calls the screen is what the display shows.
LEMMA Between ==
  ASSUME OInv, wire = <<>>
  PROVE  /\ First \in 0 .. H - 1 /\ base = 2 * First
         /\ screen = [text |-> TextOf(ram, First), first |-> First]
  <1>1. First \in 0 .. H - 1
    BY FirstIs DEF OInv, OTypes
  <1>2. After(ram, <<>>) = ram /\ BaseAfter(base, <<>>) = base
    BY AfterNone DEF OInv, OTypes
  <1>3. BaseAfter(base, <<>>) = 2 * First
    BY DEF OInv, OBase
  <1>4. ScreenAfter(<<>>) = [text |-> TextOf(After(ram, <<>>), First), first |-> First]
    BY <1>1, <1>3, ScreenIs
  <1>5. screen = ScreenAfter(<<>>)
    BY DEF OInv, OScreen
  <1>6. QED
    BY <1>1, <1>2, <1>3, <1>4, <1>5

\* What a call that makes transfers leaves.
LEMMA SentKeeps ==
  ASSUME OInv, Called, NEW ts \in Seq(Kinds), Orderly(ts), Sends(ts), NEW f, f = First',
         BaseAfter(base, ts) = 2 * f,
         _cx' \in 0 .. W, _cy' \in 0 .. Width - 1, _cz' \in 0 .. Width - 1, _console_mode' \in BOOLEAN, OCursor'
  PROVE  OInv' /\ f \in 0 .. H - 1 /\ screen' = [text |-> TextOf(After(ram, ts), f), first |-> f]
  <1>1. /\ wire' = ts /\ screen' = ScreenAfter(ts)
        /\ wire = <<>> /\ chip' = chip /\ ram' = ram /\ base' = base /\ lit' = lit
    BY DEF Sends, Called
  <1>2. First' \in 0 .. H - 1
    <2>1. _cz' \in Nat /\ 0 \in 0 .. H - 1
      BY Sizes, SMT
    <2>2. _cz' % H \in 0 .. H - 1
      BY <2>1, LineOf
    <2>3. QED
      BY <2>1, <2>2 DEF First
  <1>3. screen' = [text |-> TextOf(After(ram, ts), f), first |-> f]
    <2>1. f \in 0 .. H - 1
      BY <1>2
    <2>2. QED
      BY <1>1, <2>1, ScreenIs
  <1>4. OTypes'
    BY <1>1 DEF OInv, OTypes, IsMemory
  <1>5. OBase'
    BY <1>1 DEF OBase
  <1>6. OScreen'
    BY <1>1 DEF OScreen, ScreenAfter
  <1>7. OOrder'
    <2>1. \A i \in DOMAIN ts :
            /\ ts[i].op = "shift" => i # 1 /\ (ts[i - 1].op = "off" \/ Covers(ts[i - 1], Before(ts[i].to)))
            /\ ts[i].op = "on" => i = Len(ts)
      BY DEF Orderly
    <2>2. QED
      BY <1>1, <2>1 DEF OOrder
  <1>8. QED
    BY <1>2, <1>3, <1>4, <1>5, <1>6, <1>7 DEF OInv

-----------------------------------------------------------------------------
(* The steps.                                                              *)

\* A line feed, seen on the display and by the counters.
LEMMA FeedDoes ==
  ASSUME OInv, wire = <<>>, FedTo, _console_mode' = _console_mode
  PROVE  /\ Feed \in Seq(Kinds) /\ Plain(Feed) /\ BaseAfter(base, Feed) = 2 * First' /\ First' \in 0 .. H - 1
         /\ _cy' \in 0 .. Width - 1 /\ _cz' \in 0 .. Width - 1 /\ OCursor'
         /\ TextOf(After(ram, Feed), First') = T!Fed
         /\ (_cy' + H - First') % H = T!Down
  <1>1. PICK f : f = First
    OBVIOUS
  <1>2. PICK g : g = First'
    OBVIOUS
  <1>3. PICK row : row = (_cy + H - f) % H
    OBVIOUS
  <1>4. PICK n : n = NextLine
    OBVIOUS
  <1>5. PICK u : u = _cz'
    OBVIOUS
  <1>6. /\ _cy \in 0 .. Width - 1 /\ _cz \in 0 .. Width - 1 /\ _console_mode \in BOOLEAN
        /\ _console_mode => Distance(_cy, _cz) \in 1 .. H
    BY DEF OInv, OTypes, OCursor, Ahead, Distance
  <1>7. /\ n = (_cy + 1) % Width /\ _cy' = n
        /\ n = _cz => u = (_cz + 1) % Width
        /\ n # _cz => u = _cz % Width
        /\ _console_mode => f = _cz % H /\ g = u % H
        /\ ~ _console_mode => f = 0 /\ g = 0
    <2>1. n = (_cy + 1) % Width /\ _cy' = n
      BY <1>4 DEF FedTo, NextLine
    <2>2. n = _cz => u = (_cz + 1) % Width
      BY <1>4, <1>5 DEF FedTo, AtEnd
    <2>3. n # _cz => u = _cz % Width
      <3>1. _cz + 0 = _cz
        BY <1>6
      <3>2. QED
        BY <1>4, <1>5, <3>1 DEF FedTo, AtEnd
    <2>4. QED
      BY <1>1, <1>2, <1>5, <2>1, <2>2, <2>3 DEF First
  <1>8. /\ n \in 0 .. Width - 1 /\ u \in 0 .. Width - 1
        /\ _console_mode => Distance(n, u) \in 1 .. H
        /\ f \in 0 .. H - 1 /\ g \in 0 .. H - 1 /\ row \in 0 .. H - 1
        /\ _console_mode => (n = _cz <=> row = H - 1)
        /\ _console_mode /\ n = _cz => n % H = f /\ g = (n + 1) % H /\ (n + H - g) % H = row
        /\ ~ (_console_mode /\ n = _cz) => g = f /\ (n + H - f) % H = (row + 1) % H
    BY <1>3, <1>6, <1>7, Onward
  <1>9. PICK scroll \in BOOLEAN : /\ Feed = newLine(n, scroll)
                                  /\ scroll <=> _console_mode /\ n = _cz
    <2>1. (AtEnd /\ _console_mode) \in BOOLEAN /\ Feed = newLine(n, AtEnd /\ _console_mode)
      BY <1>4 DEF Feed
    <2>2. AtEnd <=> n = _cz
      BY <1>4 DEF AtEnd
    <2>3. QED
      BY <2>1, <2>2
  <1>10. /\ Feed \in Seq(Kinds) /\ After(ram, Feed) = Wiped(ram, n % H)
         /\ scroll => BaseAfter(base, Feed) = 2 * ((n + 1) % H)
         /\ ~ scroll => BaseAfter(base, Feed) = base
         /\ Plain(Feed) /\ n \in Nat
    <2>0. n \in Nat
      BY <1>8, Sizes, SMT
    <2>1. PICK ts : ts = Feed
      OBVIOUS
    <2>2. ts = newLine(n, scroll)
      BY <1>9, <2>1
    <2>3. /\ ts \in Seq(Kinds) /\ After(ram, ts) = Wiped(ram, n % H)
          /\ BaseAfter(base, ts) = IF scroll THEN 2 * ((n + 1) % H) ELSE base
      BY <2>0, <2>2, NewLineAfter
    <2>4. Plain(ts)
      BY <2>0, <2>2, NewLineOrderly
    <2>5. QED
      BY <2>0, <2>1, <2>3, <2>4
  <1>11. base = 2 * f /\ screen.text = TextOf(ram, f) /\ screen.first = f
    BY <1>1, Between
  <1>12. T!Fed = (IF _console_mode /\ row = H - 1 THEN T!Up ELSE [TextOf(ram, f) EXCEPT ![(row + 1) % H] = T!BlankLine])
    BY <1>3, <1>11 DEF T!Fed
  <1>13. T!Down = (IF _console_mode /\ row = H - 1 THEN row ELSE (row + 1) % H)
    BY <1>3, <1>11 DEF T!Down
  <1>14. T!Up = [y \in 0 .. H - 1 |-> IF y = H - 1 THEN T!BlankLine ELSE TextOf(ram, f)[y + 1]]
    BY <1>11 DEF T!Up
  <1>15. CASE scroll
    <2>1. n % H = f /\ g = (n + 1) % H /\ (n + H - g) % H = row /\ _console_mode /\ row = H - 1
      BY <1>8, <1>9, <1>15
    <2>2. BaseAfter(base, Feed) = 2 * g
      BY <1>10, <1>15, <2>1
    <2>3. TextOf(Wiped(ram, n % H), (n + 1) % H)
            = [y \in 0 .. H - 1 |-> IF y = H - 1 THEN T!BlankLine ELSE TextOf(ram, f)[y + 1]]
      BY <1>8, <1>10, <2>1, TextUp
    <2>4. TextOf(After(ram, Feed), g) = T!Fed
      BY <1>10, <1>12, <1>14, <2>1, <2>3, Zenon
    <2>5. (n + H - g) % H = T!Down
      BY <1>13, <2>1
    <2>6. QED
      BY <2>2, <2>4, <2>5, <1>2, <1>5, <1>7, <1>8, <1>10 DEF OCursor, Ahead, Distance
  <1>16. CASE ~ scroll
    <2>1. ~ (_console_mode /\ row = H - 1) /\ g = f /\ (n + H - f) % H = (row + 1) % H
      BY <1>8, <1>9, <1>16
    <2>2. BaseAfter(base, Feed) = 2 * g
      BY <1>10, <1>11, <1>16, <2>1
    <2>3. TextOf(Wiped(ram, n % H), f) = [TextOf(ram, f) EXCEPT ![(n + H - f) % H] = T!BlankLine]
      BY <1>8, <1>10, TextWiped
    <2>4. TextOf(After(ram, Feed), g) = T!Fed
      BY <1>10, <1>12, <2>1, <2>3
    <2>5. (n + H - g) % H = T!Down
      BY <1>13, <2>1
    <2>6. QED
      BY <2>2, <2>4, <2>5, <1>2, <1>5, <1>7, <1>8, <1>10 DEF OCursor, Ahead, Distance
  <1>17. QED
    BY <1>15, <1>16

TNext == T!LineFeed \/ T!Type \/ T!TabStop \/ T!Back \/ T!Return \/ T!Clear \/ T!Place \/ T!EraseLine
TStep == TNext \/ UNCHANGED T!tvars

LEMMA FeedKeeps ==
  ASSUME OInv, Called, Sends(Feed), FedTo, UNCHANGED <<_cx, _console_mode>>
  PROVE  OInv' /\ T!LineFeed
  <1>1. wire = <<>> /\ _cx' = _cx /\ _console_mode' = _console_mode
    BY DEF Called
  <1>2. /\ Feed \in Seq(Kinds) /\ Plain(Feed) /\ BaseAfter(base, Feed) = 2 * First' /\ First' \in 0 .. H - 1
        /\ _cy' \in 0 .. Width - 1 /\ _cz' \in 0 .. Width - 1 /\ OCursor'
        /\ TextOf(After(ram, Feed), First') = T!Fed
        /\ (_cy' + H - First') % H = T!Down
    BY <1>1, FeedDoes
  <1>3. _cx' \in 0 .. W /\ _console_mode' \in BOOLEAN /\ Orderly(Feed)
    BY <1>1, <1>2 DEF OInv, OTypes, Plain
  <1>4. OInv' /\ screen' = [text |-> TextOf(After(ram, Feed), First'), first |-> First']
    BY <1>2, <1>3, SentKeeps
  <1>5. screen'.text = T!Fed /\ screen'.first = First'
    BY <1>2, <1>4
  <1>6. QED
    BY <1>1, <1>2, <1>4, <1>5 DEF T!LineFeed

\* Where the next letter goes, with a line feed before it when the line is full.
Wrap == IF _cx >= W THEN Feed ELSE <<>>
AtX  == IF _cx >= W THEN 0 ELSE _cx
AtY  == IF _cx >= W THEN NextLine ELSE _cy
Moves == IF _cx >= W THEN FedTo ELSE UNCHANGED <<_cy, _cz>>

LEMMA WrapDoes ==
  ASSUME OInv, wire = <<>>, Moves, _console_mode' = _console_mode
  PROVE  /\ Wrap \in Seq(Kinds) /\ Plain(Wrap) /\ BaseAfter(base, Wrap) = 2 * First' /\ First' \in 0 .. H - 1
         /\ _cy' \in 0 .. Width - 1 /\ _cz' \in 0 .. Width - 1 /\ OCursor'
         /\ TextOf(After(ram, Wrap), First') = T!AtText
         /\ (_cy' + H - First') % H = T!AtRow
         /\ AtX = T!AtCol /\ AtX \in 0 .. W - 1 /\ AtY = _cy'
  <1>1. _cx \in 0 .. W /\ W \in Nat \ {0} /\ (_cx >= W <=> _cx = W)
    <2>1. _cx \in 0 .. W /\ W \in Nat \ {0}
      BY Sizes DEF OInv, OTypes
    <2>2. QED
      BY <2>1, SMT
  <1>2. CASE _cx = W
    <2>1. FedTo /\ Wrap = Feed /\ AtX = 0 /\ AtY = NextLine
      BY <1>1, <1>2 DEF Moves, Wrap, AtX, AtY
    <2>2. /\ Feed \in Seq(Kinds) /\ Plain(Feed) /\ BaseAfter(base, Feed) = 2 * First' /\ First' \in 0 .. H - 1
          /\ _cy' \in 0 .. Width - 1 /\ _cz' \in 0 .. Width - 1 /\ OCursor'
          /\ TextOf(After(ram, Feed), First') = T!Fed
          /\ (_cy' + H - First') % H = T!Down
      BY <2>1, FeedDoes
    <2>3. T!AtText = T!Fed /\ T!AtRow = T!Down /\ T!AtCol = 0
      BY <1>2 DEF T!AtText, T!AtRow, T!AtCol, T!Wraps
    <2>4. AtX = T!AtCol /\ AtX \in 0 .. W - 1 /\ AtY = _cy'
      BY <1>1, <2>1, <2>3 DEF FedTo
    <2>5. QED
      BY <2>1, <2>2, <2>3, <2>4
  <1>3. CASE _cx # W
    <2>1. _cy' = _cy /\ _cz' = _cz /\ Wrap = <<>> /\ AtX = _cx /\ AtY = _cy
      BY <1>1, <1>3 DEF Moves, Wrap, AtX, AtY
    <2>2. First' = First /\ First \in 0 .. H - 1 /\ base = 2 * First
          /\ screen = [text |-> TextOf(ram, First), first |-> First]
      BY <2>1, Between DEF First
    <2>3. T!AtText = screen.text /\ T!AtRow = (_cy + H - screen.first) % H /\ T!AtCol = _cx
      BY <1>3 DEF T!AtText, T!AtRow, T!AtCol, T!Wraps
    <2>4. After(ram, <<>>) = ram /\ BaseAfter(base, <<>>) = base
      BY AfterNone DEF OInv, OTypes
    <2>5. screen.text = TextOf(ram, First) /\ screen.first = First
      BY <2>2
    <2>6. <<>> \in Seq(Kinds) /\ Plain(<<>>)
      BY DEF Plain, Orderly
    <2>7. _cy' \in 0 .. Width - 1 /\ _cz' \in 0 .. Width - 1 /\ OCursor'
      BY <2>1 DEF OInv, OTypes, OCursor, Ahead
    <2>8. AtX = T!AtCol /\ AtX \in 0 .. W - 1 /\ AtY = _cy'
      BY <1>1, <1>3, <2>1, <2>3
    <2>9. QED
      BY <2>1, <2>2, <2>3, <2>4, <2>5, <2>6, <2>7, <2>8
  <1>4. QED
    BY <1>2, <1>3

LEMMA TypeKeeps ==
  ASSUME OInv, Called, Moves, _console_mode' = _console_mode,
         NEW c \in Letters, Sends(Wrap \o drawChar(AtX, AtY, c)), _cx' = AtX + 1
  PROVE  OInv' /\ T!Type
  <1>1. PICK g : g = First'
    OBVIOUS
  <1>2. PICK y : y = _cy'
    OBVIOUS
  <1>3. PICK x : x = AtX
    OBVIOUS
  <1>4. /\ Wrap \in Seq(Kinds) /\ Plain(Wrap) /\ BaseAfter(base, Wrap) = 2 * g /\ g \in 0 .. H - 1
        /\ y \in 0 .. Width - 1 /\ _cz' \in 0 .. Width - 1 /\ OCursor'
        /\ TextOf(After(ram, Wrap), g) = T!AtText
        /\ (y + H - g) % H = T!AtRow
        /\ x = T!AtCol /\ x \in 0 .. W - 1 /\ AtY = y
    BY <1>1, <1>2, <1>3, WrapDoes DEF Called
  <1>5. y \in Nat /\ x + 1 \in 0 .. W
    BY <1>4, Sizes, SMT
  <1>6. PICK d : d = drawChar(x, y, c)
    OBVIOUS
  <1>7. PICK mem : mem = After(ram, Wrap)
    OBVIOUS
  <1>8. /\ d \in Seq(Kinds) /\ After(mem, d) = Drawn(mem, y % H, x, c) /\ BaseAfter(2 * g, d) = 2 * g
        /\ \A i \in DOMAIN d : d[i].op = "data"
    <2>1. y \in Nat /\ x \in 0 .. W - 1 /\ d = drawChar(x, y, c)
      BY <1>4, <1>5, <1>6
    <2>2. QED
      BY <2>1, DrawAfter
  <1>9. PICK ts : ts = Wrap \o d
    OBVIOUS
  <1>10. After(ram, ts) = Drawn(mem, y % H, x, c)
    BY <1>4, <1>7, <1>8, <1>9, AfterBoth
  <1>11. BaseAfter(base, ts) = 2 * g
    BY <1>4, <1>8, <1>9, BaseAfterBoth
  <1>12. Orderly(ts)
    <2>1. Plain(d)
      BY <1>8, OrderlyData
    <2>2. Orderly(d)
      BY <2>1 DEF Plain
    <2>3. QED
      BY <1>4, <1>8, <1>9, <2>2, OrderlyBoth
  <1>13. ts \in Seq(Kinds) /\ Sends(ts)
    BY <1>3, <1>4, <1>6, <1>8, <1>9
  <1>14. _cx' \in 0 .. W /\ _cy' \in 0 .. Width - 1 /\ _console_mode' \in BOOLEAN
    BY <1>2, <1>3, <1>4, <1>5 DEF OInv, OTypes
  <1>15. OInv' /\ screen' = [text |-> TextOf(After(ram, ts), g), first |-> g]
    BY <1>1, <1>4, <1>11, <1>12, <1>13, <1>14, SentKeeps
  <1>16. TextOf(Drawn(mem, y % H, x, c), g) = [TextOf(mem, g) EXCEPT ![(y + H - g) % H][x] = c]
    BY <1>4, <1>5, TextDrawn
  <1>17. screen'.text = [T!AtText EXCEPT ![T!AtRow][T!AtCol] = c] /\ screen'.first = g
    BY <1>4, <1>7, <1>10, <1>15, <1>16
  <1>18. QED
    BY <1>2, <1>3, <1>4, <1>15, <1>17 DEF T!Type

LEMMA TabKeeps ==
  ASSUME OInv, Called, Moves, _console_mode' = _console_mode,
         Sends(Wrap), _cx' = AtX - (AtX % Tab) + Tab
  PROVE  OInv' /\ T!TabStop
  <1>1. /\ Wrap \in Seq(Kinds) /\ Plain(Wrap) /\ BaseAfter(base, Wrap) = 2 * First' /\ First' \in 0 .. H - 1
        /\ _cy' \in 0 .. Width - 1 /\ _cz' \in 0 .. Width - 1 /\ OCursor'
        /\ TextOf(After(ram, Wrap), First') = T!AtText
        /\ (_cy' + H - First') % H = T!AtRow
        /\ AtX = T!AtCol /\ AtX \in 0 .. W - 1
    BY WrapDoes DEF Called
  <1>2. _cx' = Tab * (AtX \div Tab + 1) /\ _cx' \in 0 .. W
    <2>1. PICK t \in Nat \ {0}, w \in Nat \ {0} : t = Tab /\ w = W /\ w % t = 0
      BY Sizes
    <2>2. PICK x \in Nat : x = AtX /\ x < w
      BY <1>1, <2>1, SMT
    <2>3. PICK q \in Nat, r \in 0 .. t - 1 : q = x \div t /\ r = x % t /\ x = t * q + r
      BY DivMod
    <2>4. PICK m \in Nat : w = t * m
      <3>1. w = t * (w \div t) + (w % t) /\ w \div t \in Nat
        BY DivMod
      <3>2. QED
        BY <2>1, <3>1, SMT
    <2>5. _cx' = x - r + t
      BY <2>1, <2>2, <2>3
    <2>6. _cx' = t * (q + 1)
      BY <2>3, <2>5, SMT
    <2>7. q + 1 <= m
      <3>1. t * q < t * m
        BY <2>2, <2>3, <2>4, SMT
      <3>2. QED
        BY <3>1, SMT
    <2>8. t * (q + 1) <= t * m /\ t * (q + 1) \in Nat
      BY <2>7, SMT
    <2>9. QED
      BY <2>1, <2>2, <2>3, <2>4, <2>6, <2>8
  <1>3. _console_mode' \in BOOLEAN /\ Orderly(Wrap)
    BY <1>1 DEF OInv, OTypes, Plain
  <1>4. OInv' /\ screen' = [text |-> TextOf(After(ram, Wrap), First'), first |-> First']
    BY <1>1, <1>2, <1>3, SentKeeps
  <1>5. screen'.text = T!AtText /\ screen'.first = First'
    BY <1>1, <1>4
  <1>6. QED
    BY <1>1, <1>2, <1>4, <1>5 DEF T!TabStop

LEMMA TextKeeps == ASSUME OInv, Text PROVE OInv' /\ TStep
  <1>1. PICK c \in Letters \cup {"HT"} : Called /\ writeText(c)
    BY DEF Text
  <1>2. Moves /\ _console_mode' = _console_mode
    BY <1>1 DEF writeText, Moves
  <1>3. CASE c = "HT"
    <2>1. Sends(Wrap) /\ _cx' = AtX - (AtX % Tab) + Tab
      BY <1>1, <1>3 DEF writeText, Wrap, AtX
    <2>2. QED
      BY <1>1, <1>2, <2>1, TabKeeps DEF TStep, TNext
  <1>4. CASE c # "HT"
    <2>1. Sends(Wrap \o drawChar(AtX, AtY, c)) /\ _cx' = AtX + 1
      BY <1>1, <1>4 DEF writeText, Wrap, AtX, AtY
    <2>2. OInv' /\ T!Type
      BY <1>1, <1>2, <1>4, <2>1, TypeKeeps
    <2>3. QED
      BY <2>2 DEF TStep, TNext
  <1>5. QED
    BY <1>3, <1>4

LEMMA ClearKeeps ==
  ASSUME OInv, Called, NEW mode \in BOOLEAN, clear(mode)
  PROVE  OInv' /\ T!Clear
  <1>1. PICK ts : ts = Cleared
    OBVIOUS
  <1>2. ts \in Seq(Kinds) /\ Orderly(ts) /\ After(ram, ts) = AllDark /\ BaseAfter(base, ts) = 0
    BY <1>1, ClearAfter
  <1>3. Sends(ts) /\ _cx' = 0 /\ _cy' = 0 /\ _cz' = H /\ _console_mode' = mode
    BY <1>1 DEF clear, Cleared
  <1>4. PICK h \in Nat \ {0} : h = H /\ Width \in Nat /\ Width > h /\ W \in Nat /\ 0 \in 0 .. h - 1 /\ h % h = 0
    <2>1. PICK h \in Nat \ {0} : h = H /\ Width \in Nat /\ Width > h /\ W \in Nat /\ 0 \in 0 .. h - 1
      <3>1. H \in Nat \ {0} /\ Width \in Nat /\ Width > H /\ W \in Nat
        BY Sizes
      <3>2. 0 \in 0 .. H - 1
        BY <3>1, SMT
      <3>3. QED
        BY <3>1, <3>2
    <2>2. h = h * 1 + 0 /\ (h * 1 + 0) % h = 0
      BY <2>1, DivIs
    <2>3. QED
      BY <2>1, <2>2
  <1>5. First' = 0 /\ 2 * 0 = 0
    BY <1>3, <1>4 DEF First
  <1>6. _cx' \in 0 .. W /\ _cy' \in 0 .. Width - 1 /\ _cz' \in 0 .. Width - 1 /\ _console_mode' \in BOOLEAN
    BY <1>3, <1>4, SMT
  <1>7. OCursor'
    <2>1. Ahead' = H /\ H \in 1 .. H
      BY <1>3, <1>4, SMT DEF Ahead
    <2>2. QED
      BY <2>1 DEF OCursor
  <1>8. OInv' /\ screen' = [text |-> TextOf(After(ram, ts), 0), first |-> 0]
    BY <1>2, <1>3, <1>5, <1>6, <1>7, SentKeeps
  <1>9. TextOf(AllDark, 0) = T!BlankText
    BY <1>4, TextDark
  <1>10. screen'.text = T!BlankText /\ screen'.first = 0
    BY <1>2, <1>8, <1>9
  <1>11. (_cy' + H - screen'.first) % H = 0
    BY <1>3, <1>4, <1>10
  <1>12. QED
    BY <1>3, <1>8, <1>10, <1>11 DEF T!Clear

\* A call that only moves the cursor.
LEMMA SilentKeeps ==
  ASSUME OInv, Called, Silent, _cx' \in 0 .. W, _cy' \in 0 .. Width - 1, OCursor', UNCHANGED <<_cz, _console_mode>>
  PROVE  OInv'
  <1>1. First' = First
    BY DEF First
  <1>2. OTypes'
    BY DEF OInv, OTypes, Called, Silent, IsMemory
  <1>3. OBase'
    BY <1>1 DEF OInv, OBase, Called, Silent
  <1>4. OScreen' /\ OOrder'
    BY DEF OInv, OScreen, ScreenAfter, OOrder, Called, Silent
  <1>5. QED
    BY <1>2, <1>3, <1>4 DEF OInv

LEMMA ControlKeeps == ASSUME OInv, Control PROVE OInv' /\ TStep
  <1>1. PICK c \in {"BS", "CR", "FF", "LF"} : Called /\ writeControl(c)
    BY DEF Control
  <1>2. _cx \in 0 .. W /\ W \in Nat \ {0} /\ _cy \in 0 .. Width - 1 /\ _console_mode \in BOOLEAN
    BY Sizes DEF OInv, OTypes
  <1>3. CASE Backspace /\ Silent /\ UNCHANGED <<_cy, _cz, _console_mode>>
    <2>1. _cx' \in 0 .. W /\ (_cx > 0 => _cx' = _cx - 1) /\ (~ _cx > 0 => _cx' = _cx)
      BY <1>2, <1>3, SMT DEF Backspace
    <2>2. _cy' \in 0 .. Width - 1 /\ OCursor'
      BY <1>2, <1>3 DEF OInv, OCursor, Ahead
    <2>3. OInv'
      BY <1>1, <1>3, <2>1, <2>2, SilentKeeps
    <2>4. CASE _cx > 0
      BY <1>3, <2>1, <2>3, <2>4 DEF TStep, TNext, T!Back, Silent
    <2>5. CASE ~ _cx > 0
      BY <1>3, <2>1, <2>3, <2>5 DEF TStep, T!tvars, Silent
    <2>6. QED
      BY <2>4, <2>5
  <1>4. CASE _cx' = 0 /\ Silent /\ UNCHANGED <<_cy, _cz, _console_mode>>
    <2>1. _cx' \in 0 .. W /\ _cy' \in 0 .. Width - 1 /\ OCursor'
      BY <1>2, <1>4 DEF OInv, OCursor, Ahead
    <2>2. OInv'
      BY <1>1, <1>4, <2>1, SilentKeeps
    <2>3. QED
      BY <1>4, <2>2 DEF TStep, TNext, T!Return, Silent
  <1>5. CASE clear(_console_mode)
    <2>1. OInv' /\ T!Clear
      BY <1>1, <1>2, <1>5, ClearKeeps
    <2>2. QED
      BY <2>1 DEF TStep, TNext
  <1>6. CASE Sends(Feed) /\ FedTo /\ UNCHANGED <<_cx, _console_mode>>
    <2>1. OInv' /\ T!LineFeed
      BY <1>1, <1>6, FeedKeeps
    <2>2. QED
      BY <2>1 DEF TStep, TNext
  <1>7. QED
    BY <1>1, <1>3, <1>4, <1>5, <1>6 DEF writeControl

LEMMA PlaceKeeps == ASSUME OInv, Place PROVE OInv' /\ TStep
  <1>1. PICK x \in 0 .. W - 1, y \in 0 .. H - 1 : Called /\ setPosition(x, y) /\ (_console_mode => _cz = H)
    BY DEF Place
  <1>2. /\ _cx' = x /\ _cy' = (IF _console_mode THEN (_cz + y) % H ELSE y)
        /\ Silent /\ _cz' = _cz /\ _console_mode' = _console_mode
    BY <1>1 DEF setPosition
  <1>3. PICK h \in Nat \ {0} : h = H /\ W \in Nat /\ Width \in Nat /\ Width > h
    BY Sizes
  <1>4. y \in Nat /\ y \in 0 .. h - 1 /\ x \in 0 .. W /\ y \in 0 .. Width - 1 /\ H + y = y + h
    BY <1>3, SMT
  <1>5. (y + h) % h = y % h /\ y % h = y
    BY <1>4, Lap, Small
  <1>6. _cy' = y
    BY <1>1, <1>2, <1>3, <1>4, <1>5
  <1>7. OCursor'
    <2>1. _console_mode' => Ahead' = H - y /\ H - y \in 1 .. H
      BY <1>1, <1>2, <1>3, <1>4, <1>6, SMT DEF Ahead
    <2>2. QED
      BY <2>1 DEF OCursor
  <1>8. OInv'
    BY <1>1, <1>2, <1>4, <1>6, <1>7, SilentKeeps
  <1>9. screen.first \in 0 .. H - 1 /\ screen' = screen
    <2>1. wire = <<>>
      BY <1>1 DEF Called
    <2>2. QED
      BY <1>2, <2>1, Between DEF Silent
  <1>10. (_cy' + H - screen'.first) % H \in 0 .. H - 1
    <2>1. PICK f \in 0 .. H - 1 : f = screen.first
      BY <1>9
    <2>2. 0 \in 0 .. H - 1
      BY <1>3, SMT
    <2>3. (y + H - f) % H \in 0 .. H - 1
      BY <1>4, <2>2, LineAt
    <2>4. QED
      BY <1>6, <1>9, <2>1, <2>3
  <1>11. T!Place
    BY <1>2, <1>9, <1>10 DEF T!Place
  <1>12. QED
    BY <1>8, <1>11 DEF TStep, TNext

LEMMA EraseKeeps == ASSUME OInv, EraseLine PROVE OInv' /\ TStep
  <1>1. PICK y \in 0 .. H - 1 : Called /\ Sends(newLine(y, FALSE)) /\ UNCHANGED <<cursor, _console_mode>> /\ ~ _console_mode
    BY DEF EraseLine
  <1>2. _cx' = _cx /\ _cy' = _cy /\ _cz' = _cz /\ _console_mode' = _console_mode /\ wire = <<>>
    BY <1>1 DEF cursor, Called
  <1>3. y \in Nat /\ 0 \in 0 .. H - 1
    BY Sizes, SMT
  <1>4. PICK ts : ts = newLine(y, FALSE)
    OBVIOUS
  <1>5. ts \in Seq(Kinds) /\ After(ram, ts) = Wiped(ram, y % H) /\ BaseAfter(base, ts) = base
    BY <1>3, <1>4, NewLineAfter
  <1>6. Plain(ts)
    BY <1>3, <1>4, NewLineOrderly
  <1>7. First = 0 /\ First' = 0 /\ base = 2 * 0 /\ screen.text = TextOf(ram, 0) /\ screen.first = 0
    BY <1>1, <1>2, Between DEF First
  <1>8. _cx' \in 0 .. W /\ _cy' \in 0 .. Width - 1 /\ _cz' \in 0 .. Width - 1 /\ _console_mode' \in BOOLEAN /\ OCursor'
    BY <1>2 DEF OInv, OTypes, OCursor, Ahead
  <1>9. OInv' /\ screen' = [text |-> TextOf(After(ram, ts), 0), first |-> 0]
    BY <1>1, <1>4, <1>5, <1>6, <1>7, <1>8, SentKeeps DEF Plain
  <1>10. PICK r : r = (y + H - 0) % H
    OBVIOUS
  <1>11. r \in 0 .. H - 1
    BY <1>3, <1>10, LineAt
  <1>12. TextOf(Wiped(ram, y % H), 0) = [TextOf(ram, 0) EXCEPT ![(y + H - 0) % H] = T!BlankLine]
    BY <1>3, TextWiped
  <1>13. screen'.text = [screen.text EXCEPT ![r] = T!BlankLine] /\ screen'.first = 0
    BY <1>5, <1>7, <1>9, <1>10, <1>12
  <1>14. T!EraseLine
    BY <1>2, <1>7, <1>11, <1>13 DEF T!EraseLine
  <1>15. QED
    BY <1>9, <1>14 DEF TStep, TNext

\* Turning the display off or on.
LEMMA SwitchKeeps ==
  ASSUME OInv, Called, NEW t \in {Off, On}, Sends(<<t>>), UNCHANGED <<cursor, _console_mode>>
  PROVE  OInv' /\ TStep
  <1>1. _cx' = _cx /\ _cy' = _cy /\ _cz' = _cz /\ _console_mode' = _console_mode /\ wire = <<>>
    BY DEF cursor, Called
  <1>2. t.op # "data" /\ t.op # "shift" /\ t \in Kinds
    BY DEF Off, On, Kinds
  <1>3. Orderly(<<t>>) /\ <<t>> \in Seq(Kinds)
    BY <1>2, OrderlyOne
  <1>4. IsMemory(ram)
    BY DEF OInv, OTypes
  <1>5. Landed(ram, t) = ram
    BY <1>2, <1>4, NoBytes
  <1>6. After(ram, <<t>>) = ram /\ BaseAfter(base, <<t>>) = base
    BY <1>2, <1>5, AfterOne
  <1>7. First' = First /\ base = 2 * First /\ screen = [text |-> TextOf(ram, First), first |-> First]
    BY <1>1, Between DEF First
  <1>8. _cx' \in 0 .. W /\ _cy' \in 0 .. Width - 1 /\ _cz' \in 0 .. Width - 1 /\ _console_mode' \in BOOLEAN /\ OCursor'
    BY <1>1 DEF OInv, OTypes, OCursor, Ahead
  <1>9. OInv' /\ screen' = [text |-> TextOf(After(ram, <<t>>), First), first |-> First]
    BY <1>3, <1>6, <1>7, <1>8, SentKeeps
  <1>10. screen' = screen
    BY <1>6, <1>7, <1>9
  <1>11. QED
    BY <1>1, <1>9, <1>10 DEF TStep, T!tvars

\* A transfer changes what is seen, and not what is to be shown in the end.
LEMMA TransferKeeps == ASSUME OInv, Transfer PROVE OInv' /\ TStep
  <1>1. PICK t : t = Head(wire)
    OBVIOUS
  <1>2. PICK s : s = Tail(wire)
    OBVIOUS
  <1>3. /\ wire # <<>> /\ wire \in Seq(Kinds) /\ wire' = s /\ ram' = Landed(ram, t)
        /\ base' = (IF t.op = "shift" THEN t.to ELSE base)
        /\ t.op = "off" => lit' = FALSE
        /\ t.op = "on" => lit' = TRUE
        /\ t.op # "off" /\ t.op # "on" => lit' = lit
        /\ chip' = chip /\ _cx' = _cx /\ _cy' = _cy /\ _cz' = _cz /\ _console_mode' = _console_mode /\ screen' = screen
    BY <1>1, <1>2 DEF Transfer, OInv, OTypes, cursor
  <1>4. /\ After(ram, wire) = After(ram', s) /\ s \in Seq(Kinds) /\ t \in Kinds
    BY <1>1, <1>2, <1>3, AfterFirst
  <1>5. BaseAfter(base, wire) = BaseAfter(base', s)
    BY <1>1, <1>2, <1>3, AfterFirst, Zenon
  <1>6. OTypes'
    <2>1. IsMemory(Landed(ram, t))
      BY LandedIsMemory
    <2>2. IsMemory(ram)'
      BY <1>3, <2>1 DEF IsMemory
    <2>3. lit' \in BOOLEAN
      BY <1>3 DEF OInv, OTypes
    <2>4. QED
      BY <1>3, <1>4, <2>2, <2>3 DEF OInv, OTypes
  <1>7. OBase'
    BY <1>3, <1>5 DEF OInv, OBase, First
  <1>8. OScreen'
    BY <1>3, <1>4, <1>5 DEF OInv, OScreen, ScreenAfter
  <1>9. OCursor'
    BY <1>3 DEF OInv, OCursor, Ahead
  <1>10. OOrder'
    <2>1. \A i \in DOMAIN wire :
            /\ wire[i].op = "shift" =>
                 IF i = 1 THEN ~ lit \/ ram[Before(wire[i].to)] = BlankPage
                 ELSE wire[i - 1].op = "off" \/ Covers(wire[i - 1], Before(wire[i].to))
            /\ wire[i].op = "on" => i = Len(wire)
      BY DEF OInv, OOrder
    <2>2. Len(s) = Len(wire) - 1 /\ Len(s) \in Nat /\ DOMAIN s = 1 .. Len(s) /\ DOMAIN wire = 1 .. Len(wire) /\ wire[1] = t
      BY <1>1, <1>2, <1>3, <1>4
    <2>3. ASSUME NEW i \in DOMAIN s
          PROVE  /\ s[i].op = "shift" =>
                      IF i = 1 THEN ~ lit' \/ ram'[Before(s[i].to)] = BlankPage
                      ELSE s[i - 1].op = "off" \/ Covers(s[i - 1], Before(s[i].to))
                 /\ s[i].op = "on" => i = Len(s)
      <3>1. PICK j \in DOMAIN wire : j = i + 1 /\ s[i] = wire[j] /\ j # 1 /\ j - 1 = i
        <4>1. i + 1 \in DOMAIN wire /\ s[i] = wire[i + 1] /\ i \in Nat /\ i >= 1
          BY <1>2, <1>3, <1>4, <2>2
        <4>2. QED
          BY <4>1, SMT
      <3>2. s[i].op = "on" => i = Len(s)
        BY <2>1, <2>2, <3>1
      <3>3. s[i].op = "shift" => wire[i].op = "off" \/ Covers(wire[i], Before(s[i].to))
        BY <2>1, <3>1
      <3>4. CASE i = 1
        <4>1. ASSUME Covers(t, Before(s[i].to)), s[i].op = "shift" PROVE ram'[Before(s[i].to)] = BlankPage
          <5>1. PICK p : p = Before(s[i].to)
            OBVIOUS
          <5>2. p \in 0 .. PagesOf - 1
            <6>1. s[i] \in Kinds
              BY <1>4, <2>2
            <6>2. s[i].to \in 0 .. PagesOf - 1
              BY <4>1, <6>1 DEF Kinds, Off, On
            <6>3. QED
              BY <5>1, <6>2, Sizes, SMT DEF Before
          <5>3. Landed(ram, t)[p] = [x \in 0 .. W - 1 |-> IF Bytes(t, p, x) = {} THEN ram[p][x] ELSE Put(t, p, x)]
            BY <5>2 DEF Landed
          <5>4. QED
            BY <1>3, <4>1, <5>1, <5>3 DEF Covers, BlankPage
        <4>2. QED
          BY <1>3, <2>2, <3>2, <3>3, <3>4, <4>1
      <3>5. CASE i # 1
        <4>1. wire[i] = s[i - 1]
          BY <1>2, <1>3, <1>4, <2>2, <3>5
        <4>2. QED
          BY <3>2, <3>3, <3>5, <4>1
      <3>6. QED
        BY <3>4, <3>5
    <2>4. QED
      BY <1>3, <2>3 DEF OOrder
  <1>11. QED
    BY <1>3, <1>6, <1>7, <1>8, <1>9, <1>10 DEF OInv, TStep, T!tvars

-----------------------------------------------------------------------------
(* The theorems.                                                           *)

LEMMA StepKeeps == ASSUME OInv, [Next]_vars PROVE OInv' /\ TStep
  <1>1. CASE Control
    BY <1>1, ControlKeeps
  <1>2. CASE Text
    BY <1>2, TextKeeps
  <1>3. CASE Clear
    <2>1. PICK mode \in BOOLEAN : Called /\ clear(mode)
      BY <1>3 DEF Clear
    <2>2. QED
      BY <2>1, ClearKeeps DEF TStep, TNext
  <1>4. CASE Place
    BY <1>4, PlaceKeeps
  <1>5. CASE EraseLine
    BY <1>5, EraseKeeps
  <1>6. CASE Disable
    BY <1>6, SwitchKeeps DEF Disable
  <1>7. CASE Contrast
    BY <1>7, SwitchKeeps DEF Contrast
  <1>8. CASE Transfer
    BY <1>8, TransferKeeps
  <1>9. CASE UNCHANGED vars
    <2>1. OInv'
      BY <1>9 DEF vars, OInv, OTypes, OBase, OScreen, OCursor, OOrder, IsMemory, First, Ahead, ScreenAfter
    <2>2. UNCHANGED T!tvars
      BY <1>9 DEF vars, T!tvars
    <2>3. QED
      BY <2>1, <2>2 DEF TStep
  <1>10. QED
    BY <1>1, <1>2, <1>3, <1>4, <1>5, <1>6, <1>7, <1>8, <1>9 DEF Next

LEMMA StartKeeps ==
  ASSUME Init
  PROVE  OInv /\ screen.text = T!BlankText /\ _cx = 0 /\ (_cy + H - screen.first) % H = 0 /\ _console_mode \in BOOLEAN
  <1>1. /\ ram = AllDark /\ base = 0 /\ lit = TRUE /\ wire = <<>> /\ _cx = 0 /\ _cy = 0 /\ _cz = H
        /\ screen = ScreenAfter(<<>>) /\ _console_mode \in BOOLEAN
    BY DEF Init, AllDark
  <1>2. H \in Nat \ {0} /\ Width \in Nat /\ Width > H /\ W \in Nat
    BY Sizes
  <1>3. 0 \in 0 .. H - 1 /\ 0 \in 0 .. Width - 1 /\ H \in 0 .. Width - 1 /\ 0 \in 0 .. W /\ 2 * 0 = 0
    BY <1>2, SMT
  <1>4. H % H = 0
    <2>1. H = H * 1 + 0 /\ (H * 1 + 0) % H = 0
      BY <1>2, <1>3, DivIs
    <2>2. QED
      BY <2>1
  <1>5. OTypes
    BY <1>1, <1>3, AllDarkAt DEF OTypes
  <1>6. After(ram, <<>>) = ram /\ BaseAfter(base, <<>>) = base
    BY <1>5, AfterNone DEF OTypes
  <1>7. First = 0
    BY <1>1, <1>4 DEF First
  <1>8. OBase
    BY <1>1, <1>3, <1>6, <1>7 DEF OBase
  <1>9. OScreen /\ OOrder
    BY <1>1 DEF OScreen, OOrder
  <1>10. OCursor
    <2>1. Ahead = H /\ H \in 1 .. H
      BY <1>1, <1>2, SMT DEF Ahead
    <2>2. QED
      BY <2>1 DEF OCursor
  <1>11. OInv
    BY <1>5, <1>8, <1>9, <1>10 DEF OInv
  <1>12. screen.text = TextOf(ram, 0) /\ screen.first = 0
    BY <1>1, <1>7, <1>11, Between
  <1>13. screen.text = T!BlankText
    BY <1>1, <1>3, <1>12, TextDark
  <1>14. (_cy + H - screen.first) % H = 0
    BY <1>1, <1>2, <1>4, <1>12
  <1>15. QED
    BY <1>1, <1>11, <1>13, <1>14

\* In every state the cursor is in its range, the call that is being made
\* ends with the line first that the counters say, with what was announced,
\* and brings no line into view that it has not erased (_cy, _cz and
\* _console_mode of both displays' drivers).
THEOREM CountersAlways == Spec => []OInv
  <1>1. Init => OInv
    BY StartKeeps
  <1>2. OInv /\ [Next]_vars => OInv'
    BY StepKeeps
  <1>3. QED
    BY <1>1, <1>2, PTL DEF Spec

\* What a display of any size shows when its calls have been made is a
\* terminal, however often its line counters overflow: newLine, drawChar,
\* clear and the cursor of either chip (Prints).
THEOREM PrintsAlways == Spec => Prints
  <1>1. Init => OInv /\ screen.text = T!BlankText /\ _cx = 0 /\ (_cy + H - screen.first) % H = 0 /\ _console_mode \in BOOLEAN
    BY StartKeeps
  <1>2. OInv /\ [Next]_vars => OInv' /\ [TNext]_(T!tvars)
    BY StepKeeps DEF TStep
  <1>3. QED
    BY <1>1, <1>2, PTL DEF Spec, Prints, T!Spec, TNext

\* Between the transfers of a call no old line is seen (NoGhost).
THEOREM NoGhostAlways == Spec => NoGhost
  <1> DEFINE Seen == /\ (lit /\ lit' /\ base' # base) => Shown(ram', base')[PagesOf - 1] = BlankPage
                     /\ (~ lit /\ lit') \/ wire' = <<>> => Read(Shown(ram', base')) = screen'.text
  <1>1. ASSUME OInv, OInv', [Next]_vars PROVE Seen \/ UNCHANGED vars
    <2>1. ASSUME lit, lit', base' # base PROVE Shown(ram', base')[PagesOf - 1] = BlankPage
      <3>1. Transfer
        BY <1>1, <2>1 DEF Next, vars, Control, Text, Clear, Place, EraseLine, Disable, Contrast, Called
      <3>2. PICK t : t = wire[1] /\ t = Head(wire)
        BY <1>1, <3>1 DEF OInv, OTypes, Transfer
      <3>3. t.op = "shift" /\ ram' = Landed(ram, t) /\ base' = t.to /\ 1 \in DOMAIN wire /\ t \in Kinds
        BY <1>1, <2>1, <3>1, <3>2 DEF Transfer, OInv, OTypes
      <3>4. ram' = ram
        BY <1>1, <3>3, NoBytes DEF OInv, OTypes
      <3>5. ram[Before(t.to)] = BlankPage
        BY <1>1, <2>1, <3>2, <3>3 DEF OInv, OOrder
      <3>6. t.to \in 0 .. PagesOf - 1
        BY <3>3 DEF Kinds, Off, On
      <3>7. PICK b \in Nat, n \in Nat \ {0} : b = t.to /\ n = PagesOf
        BY <3>6, Sizes, SMT
      <3>8. b + (n - 1) = b + n - 1 /\ n - 1 \in 0 .. n - 1
        BY <3>7, SMT
      <3>9. QED
        BY <3>3, <3>4, <3>5, <3>7, <3>8 DEF Shown, Before
    <2>2. ASSUME ~ lit, lit' PROVE wire' = <<>>
      <3>1. Transfer
        BY <1>1, <2>2 DEF Next, vars, Control, Text, Clear, Place, EraseLine, Disable, Contrast, Called
      <3>2. PICK t : t = wire[1] /\ t = Head(wire)
        BY <1>1, <3>1 DEF OInv, OTypes, Transfer
      <3>3. t.op = "on" /\ 1 \in DOMAIN wire /\ wire \in Seq(Kinds) /\ wire' = Tail(wire)
        <4>1. lit' = (CASE t.op = "off" -> FALSE [] t.op = "on" -> TRUE [] OTHER -> lit)
          BY <3>1, <3>2 DEF Transfer
        <4>2. t.op = "on"
          BY <2>2, <4>1
        <4>3. wire # <<>> /\ wire \in Seq(Kinds) /\ wire' = Tail(wire)
          BY <1>1, <3>1 DEF Transfer, OInv, OTypes
        <4>4. QED
          BY <4>2, <4>3
      <3>4. Len(wire) = 1
        BY <1>1, <3>2, <3>3 DEF OInv, OOrder
      <3>5. QED
        BY <3>3, <3>4
    <2>3. ASSUME wire' = <<>> PROVE Read(Shown(ram', base')) = screen'.text
      <3>1. After(ram', <<>>) = ram' /\ BaseAfter(base', <<>>) = base'
        <4>1. IsMemory(ram')
          BY <1>1 DEF OInv, OTypes, IsMemory
        <4>2. QED
          BY <4>1, AfterNone
      <3>2. screen' = [text |-> Read(Shown(After(ram', <<>>), BaseAfter(base', <<>>))), first |-> BaseAfter(base', <<>>) \div 2]
        BY <1>1, <2>3 DEF OInv, OScreen, ScreenAfter
      <3>3. QED
        BY <3>1, <3>2
    <2>4. QED
      BY <2>1, <2>2, <2>3
  <1>2. [Seen]_vars <=> (Seen \/ UNCHANGED vars)
    OBVIOUS
  <1>3. OInv /\ OInv' /\ [Next]_vars => [Seen]_vars
    BY <1>1, <1>2
  <1>4. Spec => []OInv
    BY CountersAlways
  <1>5. QED
    BY <1>3, <1>4, PTL DEF Spec, NoGhost
=============================================================================
