--------------------------- MODULE LoaderImage_proofs ---------------------------
(***************************************************************************)
(* Whatever sections, tables and policy a link asks for: what is protected *)
(* at run time is exactly what only start-up writes, and every entry of    *)
(* the tables, and every call through them, reaches its own symbol.        *)
(***************************************************************************)
EXTENDS LoaderImage, DivisionFacts, SequenceTheorems

-----------------------------------------------------------------------------
(* Lists.  pi lists the members of K, each before those R puts behind it.  *)
Listing(pi, m, K, R) ==
    /\ m \in Nat /\ pi \in [1 .. m -> K]
    /\ \A x \in K : \E k \in 1 .. m : pi[k] = x
    /\ \A a, b \in 1 .. m : a < b => <<pi[a], pi[b]>> \in R
Less(K) == {p \in K \X K : p[1] < p[2]}

LEMMA PlacesListed ==
    ASSUME NEW n \in Nat, NEW K \in SUBSET (1 .. n)
    PROVE  \E e : /\ Listing(e, Cardinality(K), K, Less(K))
                  /\ \A j \in 1 .. Cardinality(K) : Place(K, j) = e[j]
<1> DEFINE R == Less(K)
<1>1. IsFiniteSet(K)
  <2>1. IsFiniteSet(1 .. n)
    BY 1 \in Int, n \in Int, FS_Interval
  <2> QED
    BY <2>1, FS_Subset
<1>2. Orders(R, K)
  BY DEF Orders, Less
<1>3. PICK e : e = Ranked(R, K)
  OBVIOUS
<1>4. /\ Cardinality(K) \in Nat
      /\ e \in [1 .. Cardinality(K) -> K]
      /\ \A i \in K : \E j \in 1 .. Cardinality(K) : e[j] = i
      /\ \A i, j \in 1 .. Cardinality(K) : i < j => <<e[i], e[j]>> \in R
  BY <1>1, <1>2, <1>3, Enumerated
<1>5. ASSUME NEW j \in 1 .. Cardinality(K) PROVE Place(K, j) = e[j]
  <2>1. ASSUME NEW k \in K PROVE {m \in K : m <= k} = UpTo(R, K, k)
    <3>1. \A m \in K : m \in Nat
      OBVIOUS
    <3>2. ASSUME NEW m \in K PROVE m <= k <=> (m = k \/ <<m, k>> \in R)
      <4>1. <<m, k>> \in R <=> m < k
        BY DEF Less
      <4> QED
        BY <3>1, <4>1
    <3> QED
      BY <3>2 DEF UpTo
  <2>2. (CHOOSE k \in K : Cardinality({m \in K : m <= k}) = j)
          = (CHOOSE k \in K : Cardinality(UpTo(R, K, k)) = j)
    <3>1. \A k \in K : (Cardinality({m \in K : m <= k}) = j) <=> (Cardinality(UpTo(R, K, k)) = j)
      BY <2>1
    <3> DEFINE low(k) == Cardinality({m \in K : m <= k}) = j
               up(k)  == Cardinality(UpTo(R, K, k)) = j
    <3>2. \A k \in K : low(k) <=> up(k)
      BY <3>1
    <3> HIDE DEF low, up
    <3>3. (CHOOSE k \in K : low(k)) = (CHOOSE k \in K : up(k))
      BY <3>2
    <3> USE DEF low, up
    <3> QED
      BY <3>3
  <2>3. e[j] = CHOOSE k \in K : Cardinality(UpTo(R, K, k)) = j
    BY <1>3 DEF Ranked
  <2> QED
    BY <2>2, <2>3 DEF Place
<1> QED
  BY <1>4, <1>5 DEF Listing

Taken(s, pi, m) == [k \in 1 .. m |-> s[pi[k]]]

(* A sublist has the elements of a set of places, in their order.          *)
LEMMA SublistListed ==
    ASSUME NEW n \in Nat, NEW K \in SUBSET (1 .. n), NEW s
    PROVE  \E pi, m : Listing(pi, m, K, Less(K)) /\ Sublist(s, K) = Taken(s, pi, m)
<1>1. PICK e : /\ Listing(e, Cardinality(K), K, Less(K))
               /\ \A j \in 1 .. Cardinality(K) : Place(K, j) = e[j]
  BY PlacesListed
<1>2. Sublist(s, K) = [k \in 1 .. Cardinality(K) |-> s[e[k]]]
  BY <1>1 DEF Sublist
<1> QED
  BY <1>1, <1>2 DEF Taken

(* What one list after another holds.                                      *)
LEMMA Concatenated ==
    ASSUME NEW S, NEW u \in Seq(S), NEW v \in Seq(S)
    PROVE  /\ u \o v \in Seq(S) /\ Len(u \o v) = Len(u) + Len(v)
           /\ \A k \in 1 .. Len(u) : (u \o v)[k] = u[k]
           /\ \A k \in 1 .. Len(v) : (u \o v)[Len(u) + k] = v[k]
           /\ \A k \in 1 .. Len(u) + Len(v) : k \in 1 .. Len(u)
                \/ (k - Len(u) \in 1 .. Len(v) /\ k = Len(u) + (k - Len(u)))
<1>1. Len(u) \in Nat /\ Len(v) \in Nat
  OBVIOUS
<1>2. /\ u \o v \in Seq(S) /\ Len(u \o v) = Len(u) + Len(v)
      /\ \A k \in 1 .. Len(u) + Len(v) :
           (u \o v)[k] = IF k <= Len(u) THEN u[k] ELSE v[k - Len(u)]
  BY ConcatProperties
<1>3. PICK a \in Nat, b \in Nat : a = Len(u) /\ b = Len(v)
  BY <1>1
<1>4. ASSUME NEW k \in 1 .. b
      PROVE  a + k \in 1 .. a + b /\ ~(a + k <= a) /\ (a + k) - a = k
  OBVIOUS
<1>5. ASSUME NEW k \in 1 .. a PROVE k \in 1 .. a + b /\ k <= a
  OBVIOUS
<1>6. ASSUME NEW k \in 1 .. a + b PROVE k \in 1 .. a \/ (k - a \in 1 .. b /\ k = a + (k - a))
  OBVIOUS
<1> QED
  BY <1>2, <1>3, <1>4, <1>5, <1>6

(* One after the other: all of K before all of L.                          *)
InFront(K, L, R, Q) == R \cup Q \cup (K \X L)

TwoLists(s, pi, m, K, R, rho, r, L, Q, M, U, q) ==
    /\ Listing(pi, m, K, R) /\ Listing(rho, r, L, Q)
    /\ M = K \cup L /\ U = InFront(K, L, R, Q) /\ q = m + r

LEMMA ListsJoined ==
    ASSUME NEW K, NEW L, NEW R, NEW Q, NEW pi, NEW m, NEW rho, NEW r, NEW M, NEW U, NEW q, NEW s,
           TwoLists(s, pi, m, K, R, rho, r, L, Q, M, U, q)
    PROVE  \E tau : Listing(tau, q, M, U) /\ Taken(s, pi, m) \o Taken(s, rho, r) = Taken(s, tau, q)
<1> USE DEF TwoLists
<1>1. m \in Nat /\ r \in Nat /\ pi \in [1 .. m -> K] /\ rho \in [1 .. r -> L]
  BY DEF Listing
<1>2. PICK tau : tau = [k \in 1 .. m + r |-> IF k <= m THEN pi[k] ELSE rho[k - m]]
  OBVIOUS
<1>3. /\ \A k \in 1 .. m : k \in 1 .. m + r /\ tau[k] = pi[k]
      /\ \A k \in 1 .. r : m + k \in 1 .. m + r /\ tau[m + k] = rho[k]
      /\ \A k \in 1 .. m + r : k \in 1 .. m \/ (k - m \in 1 .. r /\ k = m + (k - m))
  BY <1>1, <1>2
<1>4. tau \in [1 .. m + r -> K \cup L]
  BY <1>1, <1>2
<1>5. ASSUME NEW x \in K \cup L PROVE \E k \in 1 .. m + r : tau[k] = x
  BY <1>3 DEF Listing
<1>6. ASSUME NEW a \in 1 .. m + r, NEW b \in 1 .. m + r, a < b
      PROVE  <<tau[a], tau[b]>> \in InFront(K, L, R, Q)
  <2>1. CASE b <= m
    <3>1. a \in 1 .. m /\ b \in 1 .. m
      BY <1>1, <1>6, <2>1
    <3> QED
      BY <1>3, <1>6, <3>1 DEF Listing, InFront
  <2>2. CASE a <= m /\ b > m
    <3>1. a \in 1 .. m /\ b - m \in 1 .. r /\ b = m + (b - m)
      BY <1>1, <1>6, <2>2
    <3>2. tau[a] = pi[a] /\ tau[b] = rho[b - m]
      BY <1>3, <3>1
    <3> QED
      BY <1>1, <3>1, <3>2 DEF InFront
  <2>3. CASE a > m
    <3>1. a - m \in 1 .. r /\ b - m \in 1 .. r /\ a = m + (a - m) /\ b = m + (b - m) /\ a - m < b - m
      BY <1>1, <1>6, <2>3
    <3>2. tau[a] = rho[a - m] /\ tau[b] = rho[b - m]
      BY <1>3, <3>1
    <3> QED
      BY <3>1, <3>2 DEF InFront, Listing
  <2> QED
    BY <1>1, <2>1, <2>2, <2>3
<1>7. [k \in 1 .. m |-> s[pi[k]]] \o [k \in 1 .. r |-> s[rho[k]]] = [k \in 1 .. m + r |-> s[tau[k]]]
  <2>1. PICK u, v : u = [k \in 1 .. m |-> s[pi[k]]] /\ v = [k \in 1 .. r |-> s[rho[k]]]
    OBVIOUS
  <2>2. PICK S : S = {s[pi[k]] : k \in 1 .. m} \cup {s[rho[k]] : k \in 1 .. r}
    OBVIOUS
  <2>3. u \in [1 .. m -> S] /\ v \in [1 .. r -> S]
    BY <2>1, <2>2
  <2>4. u \in Seq(S) /\ v \in Seq(S) /\ Len(u) = m /\ Len(v) = r
    BY <1>1, <2>3
  <2>6. PICK t : t = u \o v
    OBVIOUS
  <2>7. /\ t \in Seq(S) /\ Len(t) = Len(u) + Len(v)
        /\ \A k \in 1 .. Len(u) : t[k] = u[k]
        /\ \A k \in 1 .. Len(v) : t[Len(u) + k] = v[k]
    <3>1. u \in Seq(S)
      BY <2>4
    <3>2. v \in Seq(S)
      BY <2>4
    <3>3. /\ u \o v \in Seq(S) /\ Len(u \o v) = Len(u) + Len(v)
          /\ \A k \in 1 .. Len(u) : (u \o v)[k] = u[k]
          /\ \A k \in 1 .. Len(v) : (u \o v)[Len(u) + k] = v[k]
      BY <3>1, <3>2, Concatenated
    <3> QED
      BY <2>6, <3>3
  <2>8. /\ t \in Seq(S) /\ Len(t) = m + r
        /\ \A k \in 1 .. m : t[k] = u[k]
        /\ \A k \in 1 .. r : t[m + k] = v[k]
    BY <2>4, <2>7
  <2>5. ASSUME NEW k \in 1 .. m + r PROVE t[k] = s[tau[k]]
    <3>1. CASE k \in 1 .. m
      BY <1>3, <2>1, <2>8, <3>1
    <3>2. CASE k \notin 1 .. m
      <4>1. PICK j \in 1 .. r : k = m + j
        BY <1>1, <1>3, <3>2
      <4> QED
        BY <1>3, <2>1, <2>8, <4>1
    <3> QED
      BY <3>1, <3>2
  <2>9. t = [k \in 1 .. m + r |-> t[k]]
    <3>1. DOMAIN t = 1 .. m + r
      BY <1>1, <2>8
    <3> QED
      BY <2>8, <3>1
  <2> QED
    BY <2>1, <2>5, <2>6, <2>9
<1>8. Listing(tau, m + r, K \cup L, InFront(K, L, R, Q))
  BY <1>1, <1>4, <1>5, <1>6 DEF Listing
<1> QED
  BY <1>7, <1>8 DEF Taken

-----------------------------------------------------------------------------
(* The sections to place: what each is, that no two are the same, and that *)
(* none is missing.                                                        *)
LEMMA AlignedUp ==
    ASSUME NEW v \in Nat, NEW a \in Nat \ {0}
    PROVE  /\ AlignUp(v, a) \in Nat /\ AlignUp(v, a) % a = 0 /\ v <= AlignUp(v, a)
           /\ v % a = 0 => AlignUp(v, a) = v
<1>1. AlignUp(v, a) \in Nat /\ AlignUp(v, a) % a = 0 /\ v <= AlignUp(v, a)
  BY RoundUp DEF AlignUp
<1>2. ASSUME v % a = 0 PROVE AlignUp(v, a) = v
  <2>1. PICK q \in Nat : v = q * a
    BY <1>2, QuotientOf
  <2>2. PICK w \in Nat : w = v + a - 1
    OBVIOUS
  <2>3. PICK d \in Nat : d = w \div a
    BY <2>2
  <2>4. w = d * a + (w % a) /\ w % a \in 0 .. a - 1
    BY <2>2, <2>3
  <2>5. PICK m \in 0 .. a - 1 : w = d * a + m
    BY <2>4
  <2>6. d = q
    <3>1. ASSUME d >= q + 1 PROVE FALSE
      <4>1. d * a >= (q + 1) * a
        BY <3>1
      <4>2. (q + 1) * a = q * a + a
        OBVIOUS
      <4> QED
        BY <2>1, <2>2, <2>5, <4>1, <4>2
    <3>2. ASSUME d <= q - 1 PROVE FALSE
      <4>1. d * a <= (q - 1) * a
        BY <3>2
      <4>2. (q - 1) * a = q * a - a
        OBVIOUS
      <4> QED
        BY <2>1, <2>2, <2>5, <4>1, <4>2
    <3> QED
      BY <3>1, <3>2
  <2> QED
    BY <2>1, <2>2, <2>3, <2>6 DEF AlignUp
<1> QED
  BY <1>1, <1>2

Whats == {"input", "common", "got", "plt", "pltgot", "copy", "metadata", "interp", "note"}
PieceType == [what : Whats, n : Nat, perm : {"R", "RX", "RW"}, nobits : BOOLEAN, tls : BOOLEAN,
              size : Nat, align : Nat \ {0}, address : Nat]
TablePiece(p, bytes, isolated) ==
    /\ p.perm = "RW" /\ ~p.nobits /\ ~p.tls /\ p.size >= bytes /\ p.size # 0
    /\ isolated => p.align = Page /\ p.size % Page = 0
Shape(l, p) ==
    /\ p \in PieceType
    /\ p.what \in {"input", "common", "got", "plt", "pltgot"}
    /\ p.what = "input" => p.n \in DOMAIN l.inputs /\ p.size = l.inputs[p.n].size
    /\ p.what # "input" => p.n = 0
    /\ p.what = "got" => UsesGot(l) /\ TablePiece(p, GotSize(l.need), Isolated(l))
    /\ p.what = "pltgot" => l.need.plt # 0 /\ TablePiece(p, PltGotSize(l.need), l.bindNow)

Distinct(s) == \A j, k \in DOMAIN s : s[j].what = s[k].what /\ s[j].n = s[k].n => j = k
Good(l, s, W) ==
    /\ s \in Seq(PieceType) /\ Distinct(s)
    /\ \A k \in DOMAIN s : Shape(l, s[k]) /\ s[k].what \in W
Holds(s, w, n) == \E k \in DOMAIN s : s[k].what = w /\ s[k].n = n
InOrder(s, w, x) == \A j, k \in DOMAIN s : s[j].what = w /\ s[k].what = x => j < k

LEMMA Joined ==
    ASSUME NEW l, NEW W, NEW X, W \cap X = {}, NEW u, NEW v, Good(l, u, W), Good(l, v, X)
    PROVE  /\ Good(l, u \o v, W \cup X)
           /\ \A w, n : Holds(u \o v, w, n) <=> Holds(u, w, n) \/ Holds(v, w, n)
           /\ \A w \in W, x \in X : InOrder(u \o v, w, x)
           /\ \A w, x : w \notin W /\ x \notin W /\ InOrder(v, w, x) => InOrder(u \o v, w, x)
<1>1. u \in Seq(PieceType)
  BY DEF Good
<1>2. v \in Seq(PieceType)
  BY DEF Good
<1>3. PICK t : t = u \o v
  OBVIOUS
<1>4. PICK a \in Nat, b \in Nat : a = Len(u) /\ b = Len(v)
  BY <1>1, <1>2
<1>5. /\ t \in Seq(PieceType) /\ Len(t) = a + b
      /\ \A k \in 1 .. a : t[k] = u[k]
      /\ \A k \in 1 .. b : t[a + k] = v[k]
  <2>1. /\ u \o v \in Seq(PieceType) /\ Len(u \o v) = Len(u) + Len(v)
        /\ \A k \in 1 .. Len(u) : (u \o v)[k] = u[k]
        /\ \A k \in 1 .. Len(v) : (u \o v)[Len(u) + k] = v[k]
    BY <1>1, <1>2, Concatenated
  <2> QED
    BY <1>3, <1>4, <2>1
<1>6. DOMAIN t = 1 .. a + b /\ DOMAIN u = 1 .. a /\ DOMAIN v = 1 .. b
  BY <1>1, <1>2, <1>4, <1>5
<1>7. ASSUME NEW k \in DOMAIN t
      PROVE  (k \in DOMAIN u /\ t[k] = u[k] /\ k <= a)
               \/ (\E m \in DOMAIN v : k = a + m /\ t[k] = v[m])
  <2>1. CASE k \in 1 .. a
    BY <1>5, <1>6, <2>1
  <2>2. CASE k \notin 1 .. a
    <3>1. k - a \in 1 .. b /\ k = a + (k - a)
      BY <1>6, <2>2
    <3> QED
      BY <1>5, <1>6, <3>1
  <2> QED
    BY <2>1, <2>2
<1>8. ASSUME NEW k \in DOMAIN t
      PROVE  /\ Shape(l, t[k]) /\ t[k].what \in W \cup X
             /\ t[k].what \in W => k \in DOMAIN u /\ t[k] = u[k] /\ k <= a
             /\ t[k].what \notin W => \E m \in DOMAIN v : k = a + m /\ t[k] = v[m]
  BY <1>7 DEF Good
<1>9. Distinct(t)
  <2> SUFFICES ASSUME NEW j \in DOMAIN t, NEW k \in DOMAIN t,
                      t[j].what = t[k].what, t[j].n = t[k].n
               PROVE  j = k
    BY DEF Distinct
  <2>1. CASE t[j].what \in W
    BY <1>8, <2>1 DEF Good, Distinct
  <2>2. CASE t[j].what \notin W
    <3>1. PICK i \in DOMAIN v : j = a + i /\ t[j] = v[i]
      BY <1>8, <2>2
    <3>2. PICK m \in DOMAIN v : k = a + m /\ t[k] = v[m]
      BY <1>8, <2>2
    <3> QED
      BY <3>1, <3>2 DEF Good, Distinct
  <2> QED
    BY <2>1, <2>2
<1>10. Good(l, t, W \cup X)
  BY <1>5, <1>8, <1>9 DEF Good
<1>11. ASSUME NEW w, NEW n PROVE Holds(t, w, n) <=> Holds(u, w, n) \/ Holds(v, w, n)
  <2>1. ASSUME NEW k \in DOMAIN u PROVE k \in DOMAIN t /\ t[k] = u[k]
    BY <1>5, <1>6
  <2>2. ASSUME NEW k \in DOMAIN v PROVE a + k \in DOMAIN t /\ t[a + k] = v[k]
    BY <1>5, <1>6
  <2> QED
    BY <1>7, <2>1, <2>2 DEF Holds
<1>12. ASSUME NEW w \in W, NEW x \in X PROVE InOrder(t, w, x)
  <2> SUFFICES ASSUME NEW j \in DOMAIN t, NEW k \in DOMAIN t, t[j].what = w, t[k].what = x
               PROVE  j < k
    BY DEF InOrder
  <2>1. j <= a
    BY <1>8
  <2>2. PICK m \in DOMAIN v : k = a + m
    BY <1>8
  <2> QED
    BY <1>6, <2>1, <2>2
<1>13. ASSUME NEW w, NEW x, w \notin W, x \notin W, InOrder(v, w, x) PROVE InOrder(t, w, x)
  <2> SUFFICES ASSUME NEW j \in DOMAIN t, NEW k \in DOMAIN t, t[j].what = w, t[k].what = x
               PROVE  j < k
    BY DEF InOrder
  <2>1. PICK i \in DOMAIN v : j = a + i /\ t[j] = v[i]
    BY <1>8, <1>13
  <2>2. PICK m \in DOMAIN v : k = a + m /\ t[k] = v[m]
    BY <1>8, <1>13
  <2>3. i < m
    BY <1>13, <2>1, <2>2 DEF InOrder
  <2> QED
    BY <1>6, <2>1, <2>2, <2>3
<1> QED
  BY <1>3, <1>10, <1>11, <1>12, <1>13

Permutes(l, ids) ==
    /\ ids \in Seq(DOMAIN l.inputs)
    /\ \A i \in DOMAIN l.inputs : \E k \in DOMAIN ids : ids[k] = i
    /\ \A j, k \in DOMAIN ids : ids[j] = ids[k] => j = k

LEMMA NeedSizes ==
    ASSUME NEW l \in Link
    PROVE  /\ l.need.plt \in Nat /\ GotSize(l.need) \in Nat
           /\ FixedGot(l.need) \in Nat /\ l.need.got \in Nat /\ l.need.ie \in Nat
           /\ l.need.gd \in Nat /\ l.need.ld \in {0, 1} /\ l.need.desc \in Nat
           /\ PltGotSize(l.need) \in Nat /\ (l.need.plt # 0 => PltGotSize(l.need) # 0)
           /\ PltSize(l.need, IbtPlt(l)) \in Nat
           /\ l.bindNow \in BOOLEAN /\ l.pie \in BOOLEAN
<1>1. l.need \in Request /\ l.bindNow \in BOOLEAN /\ l.pie \in BOOLEAN
  BY DEF Link
<1>2. PICK r \in Request : r = l.need
  BY <1>1
<1>3. /\ r.plt \in Nat /\ r.got \in Nat /\ r.ie \in Nat /\ r.gd \in Nat /\ r.ld \in {0, 1}
      /\ r.desc \in Nat
  BY DEF Request
<1>4. FixedGot(r) \in Nat
  BY <1>3 DEF FixedGot, Word
<1>5. GotSize(r) \in Nat
  BY <1>3, <1>4 DEF GotSize, Pair
<1>6. PltGotSize(r) \in Nat /\ (r.plt # 0 => PltGotSize(r) # 0)
  BY <1>3 DEF PltGotSize, Reserved, Word
<1>7. PltSize(r, IbtPlt(l)) \in Nat
  BY <1>3 DEF PltSize, Plt0, EntrySize, PltEntry
<1> QED
  BY <1>1, <1>2, <1>3, <1>4, <1>5, <1>6, <1>7

LEMMA OnePiece ==
    ASSUME NEW l, NEW p, Shape(l, p)
    PROVE  /\ Good(l, <<p>>, {p.what})
           /\ \A w, n : Holds(<<p>>, w, n) <=> w = p.what /\ n = p.n
<1>1. PICK s : s = <<p>>
  OBVIOUS
<1>2. DOMAIN s = {1} /\ s[1] = p /\ s \in Seq(PieceType)
  <2>1. p \in PieceType
    BY DEF Shape
  <2> QED
    BY <1>1, <2>1
<1>3. Good(l, s, {p.what})
  BY <1>2 DEF Good, Distinct
<1>4. \A w, n : Holds(s, w, n) <=> w = p.what /\ n = p.n
  BY <1>2 DEF Holds
<1> QED
  BY <1>1, <1>3, <1>4

LEMMA NoPiece ==
    ASSUME NEW l, NEW W
    PROVE  Good(l, <<>>, W) /\ \A w, n : ~Holds(<<>>, w, n)
<1>1. PICK s : s = <<>>
  OBVIOUS
<1>2. s \in Seq(PieceType) /\ DOMAIN s = {}
  BY <1>1
<1>3. Good(l, s, W) /\ \A w, n : ~Holds(s, w, n)
  BY <1>2 DEF Good, Distinct, Holds
<1> QED
  BY <1>1, <1>3

LEMMA WidenGood ==
    ASSUME NEW l, NEW s, NEW W, NEW X, W \subseteq X, Good(l, s, W)
    PROVE  Good(l, s, X)
BY DEF Good

(* The parts of the list.                                                  *)
LEMMA InputPieces ==
    ASSUME NEW l \in Link, NEW ids, Permutes(l, ids)
    PROVE  LET s == [k \in DOMAIN ids |-> InputPiece(l, ids[k])]
           IN /\ Good(l, s, {"input"})
              /\ \A i \in DOMAIN l.inputs : Holds(s, "input", i)
<1>1. ids \in Seq(DOMAIN l.inputs) /\ l.inputs \in Seq(Section)
  BY DEF Permutes, Link
<1>2. PICK m \in Nat : DOMAIN ids = 1 .. m
  BY <1>1
<1>3. PICK s : s = [k \in DOMAIN ids |-> InputPiece(l, ids[k])]
  OBVIOUS
<1>4. ASSUME NEW i \in DOMAIN l.inputs
      PROVE  /\ InputPiece(l, i) \in PieceType
             /\ InputPiece(l, i).what = "input" /\ InputPiece(l, i).n = i
             /\ InputPiece(l, i).size = l.inputs[i].size
  <2>1. l.inputs[i] \in Section /\ i \in Nat
    BY <1>1
  <2>2. PICK x \in Section : x = l.inputs[i]
    BY <2>1
  <2>3. /\ x.size \in Nat /\ x.align \in Nat \ {0} /\ x.perm \in {"R", "RX", "RW"}
    BY DEF Section
  <2>4. PICK bss \in BOOLEAN, tls \in BOOLEAN : bss = (x.kind = "bss") /\ tls = (x.kind = "tls")
    OBVIOUS
  <2>5. PICK p : p = InputPiece(l, i)
    OBVIOUS
  <2>6. p = Piece("input", i, x.perm, bss, tls, x.size, x.align)
    BY <2>2, <2>4, <2>5 DEF InputPiece
  <2>7. p \in PieceType /\ p.what = "input" /\ p.n = i /\ p.size = x.size
    BY <2>1, <2>3, <2>6 DEF Piece, PieceType, Whats
  <2> QED
    BY <2>2, <2>5, <2>7
<1>5. ASSUME NEW k \in DOMAIN s
      PROVE  /\ Shape(l, s[k]) /\ s[k] \in PieceType /\ s[k].what = "input" /\ s[k].n = ids[k]
  <2>1. ids[k] \in DOMAIN l.inputs /\ s[k] = InputPiece(l, ids[k])
    BY <1>1, <1>3
  <2> QED
    BY <1>4, <2>1 DEF Shape
<1>6. s \in Seq(PieceType)
  <2>1. s \in [1 .. m -> PieceType]
    BY <1>2, <1>3, <1>5
  <2> QED
    BY <2>1
<1>7. Good(l, s, {"input"})
  BY <1>3, <1>5, <1>6 DEF Good, Distinct, Permutes
<1>8. ASSUME NEW i \in DOMAIN l.inputs PROVE Holds(s, "input", i)
  BY <1>3, <1>5 DEF Holds, Permutes
<1> QED
  BY <1>3, <1>7, <1>8

LEMMA CommonPieces ==
    ASSUME NEW l \in Link
    PROVE  Good(l, CommonPiece(l), {"common"})
<1>1. CASE l.common = 0
  BY <1>1, NoPiece DEF CommonPiece
<1>2. CASE l.common # 0
  <2>1. PICK p : p = Piece("common", 0, "RW", TRUE, FALSE, l.common, Word)
    OBVIOUS
  <2>2. l.common \in Nat
    BY DEF Link
  <2>3. Shape(l, p) /\ p.what = "common"
    <3>1. p \in PieceType /\ p.what = "common" /\ p.n = 0
      BY <2>1, <2>2 DEF Piece, PieceType, Whats, Word
    <3> QED
      BY <3>1 DEF Shape
  <2>4. Good(l, <<p>>, {p.what})
    BY <2>3, OnePiece
  <2>5. CommonPiece(l) = <<p>>
    BY <1>2, <2>1 DEF CommonPiece
  <2> QED
    BY <2>3, <2>4, <2>5
<1> QED
  BY <1>1, <1>2

LEMMA GotPieces ==
    ASSUME NEW l \in Link
    PROVE  /\ Good(l, GotPiece(l), {"got"})
           /\ UsesGot(l) => Holds(GotPiece(l), "got", 0)
<1> USE ImageAssumption
<1>1. CASE ~UsesGot(l)
  BY <1>1, NoPiece DEF GotPiece
<1>2. CASE UsesGot(l)
  <2>1. PICK b \in Nat : b = GotSize(l.need)
    BY NeedSizes
  <2>2. b # 0
    BY <1>2, <2>1 DEF UsesGot
  <2>3. PICK z : z = IF Isolated(l) THEN AlignUp(b, Page) ELSE b
    OBVIOUS
  <2>4. z \in Nat /\ z >= b /\ (Isolated(l) => z % Page = 0)
    BY <2>1, <2>3, AlignedUp
  <2>5. PICK p : p = Piece("got", 0, "RW", FALSE, FALSE, z, IF Isolated(l) THEN Page ELSE Word)
    OBVIOUS
  <2>6. TablePiece(p, GotSize(l.need), Isolated(l)) /\ p.what = "got" /\ p.n = 0 /\ p \in PieceType
    <3>1. PICK g \in Nat \ {0} : g = IF Isolated(l) THEN Page ELSE Word
      BY DEF Word
    <3>2. /\ p \in PieceType /\ p.what = "got" /\ p.n = 0 /\ p.perm = "RW" /\ p.nobits = FALSE
          /\ p.tls = FALSE /\ p.size = z /\ p.align = g
      BY <2>4, <2>5, <3>1 DEF Piece, PieceType, Whats
    <3> QED
      BY <2>1, <2>2, <2>4, <3>1, <3>2 DEF TablePiece
  <2>7. Shape(l, p)
    BY <1>2, <2>6 DEF Shape
  <2>8. GotPiece(l) = <<p>>
    BY <1>2, <2>1, <2>3, <2>5 DEF GotPiece
  <2> QED
    BY <2>6, <2>7, <2>8, OnePiece
<1> QED
  BY <1>1, <1>2

LEMMA PltAndSlots ==
    ASSUME NEW l \in Link
    PROVE  /\ Good(l, PltPieces(l), {"plt", "pltgot"})
           /\ l.need.plt # 0 => Holds(PltPieces(l), "plt", 0) /\ Holds(PltPieces(l), "pltgot", 0)
<1> USE ImageAssumption
<1>1. CASE l.need.plt = 0
  BY <1>1, NoPiece DEF PltPieces
<1>2. CASE l.need.plt # 0
  <2>1. PICK b \in Nat \ {0} : b = PltGotSize(l.need)
    <3>1. PltGotSize(l.need) \in Nat /\ PltGotSize(l.need) # 0
      BY <1>2, NeedSizes
    <3> QED
      BY <3>1
  <2>2. PICK z : z = IF l.bindNow THEN AlignUp(b, Page) ELSE b
    OBVIOUS
  <2>3. z \in Nat /\ z >= b /\ (l.bindNow => z % Page = 0)
    BY <2>1, <2>2, AlignedUp
  <2>4. PICK p, q : /\ p = Piece("plt", 0, "RX", FALSE, FALSE, PltSize(l.need, IbtPlt(l)), PltEntry)
                    /\ q = Piece("pltgot", 0, "RW", FALSE, FALSE, z, IF l.bindNow THEN Page ELSE Word)
    OBVIOUS
  <2>5. p \in PieceType /\ p.what = "plt" /\ p.n = 0
    <3>1. PICK c \in Nat : c = PltSize(l.need, IbtPlt(l))
      BY NeedSizes
    <3> QED
      BY <2>4, <3>1 DEF Piece, PieceType, Whats, PltEntry
  <2>6. /\ TablePiece(q, PltGotSize(l.need), l.bindNow) /\ q.what = "pltgot" /\ q.n = 0
        /\ q \in PieceType
    <3>1. PICK g \in Nat \ {0} : g = IF l.bindNow THEN Page ELSE Word
      BY DEF Word
    <3>2. /\ q \in PieceType /\ q.what = "pltgot" /\ q.n = 0 /\ q.perm = "RW" /\ q.nobits = FALSE
          /\ q.tls = FALSE /\ q.size = z /\ q.align = g
      BY <2>3, <2>4, <3>1 DEF Piece, PieceType, Whats
    <3> QED
      BY <2>1, <2>3, <3>1, <3>2 DEF TablePiece
  <2>7. Shape(l, p) /\ Shape(l, q)
    BY <1>2, <2>5, <2>6 DEF Shape
  <2>8. PltPieces(l) = <<p>> \o <<q>>
    <3>1. PltPieces(l) = <<p, q>>
      <4>1. PltPieces(l) = <<p, IF l.bindNow
                             THEN Piece("pltgot", 0, "RW", FALSE, FALSE, AlignUp(b, Page), Page)
                             ELSE Piece("pltgot", 0, "RW", FALSE, FALSE, b, Word)>>
        BY <1>2, <2>1, <2>4 DEF PltPieces
      <4>2. q = IF l.bindNow
                THEN Piece("pltgot", 0, "RW", FALSE, FALSE, AlignUp(b, Page), Page)
                ELSE Piece("pltgot", 0, "RW", FALSE, FALSE, b, Word)
        BY <2>2, <2>4
      <4> QED
        BY <4>1, <4>2
    <3>2. <<p, q>> = <<p>> \o <<q>>
      <4>1. PICK u, v, t : u = <<p>> /\ v = <<q>> /\ t = u \o v
        OBVIOUS
      <4>2. u \in Seq({p, q}) /\ v \in Seq({p, q}) /\ Len(u) = 1 /\ Len(v) = 1 /\ u[1] = p /\ v[1] = q
        BY <4>1
      <4>3. /\ u \o v \in Seq({p, q}) /\ Len(u \o v) = Len(u) + Len(v)
            /\ \A k \in 1 .. Len(u) : (u \o v)[k] = u[k]
            /\ \A k \in 1 .. Len(v) : (u \o v)[Len(u) + k] = v[k]
        <5>1. PICK S : S = {p, q}
          OBVIOUS
        <5>2. u \in Seq(S)
          BY <4>2, <5>1
        <5>3. v \in Seq(S)
          BY <4>2, <5>1
        <5>4. /\ u \o v \in Seq(S) /\ Len(u \o v) = Len(u) + Len(v)
              /\ \A k \in 1 .. Len(u) : (u \o v)[k] = u[k]
              /\ \A k \in 1 .. Len(v) : (u \o v)[Len(u) + k] = v[k]
          BY <5>2, <5>3, Concatenated
        <5> QED
          BY <5>1, <5>4
      <4>4. t \in Seq({p, q}) /\ Len(t) = 2 /\ t[1] = p /\ t[2] = q
        BY <4>1, <4>2, <4>3
      <4>5. t = <<p, q>>
        BY <4>4
      <4> QED
        BY <4>1, <4>5
    <3> QED
      BY <3>1, <3>2
  <2>9. /\ Good(l, <<p>>, {"plt"}) /\ Good(l, <<q>>, {"pltgot"})
        /\ Holds(<<p>>, "plt", 0) /\ Holds(<<q>>, "pltgot", 0)
    BY <2>5, <2>6, <2>7, OnePiece
  <2>10. PICK W, X : W = {"plt"} /\ X = {"pltgot"}
    OBVIOUS
  <2>11. /\ Good(l, <<p>> \o <<q>>, W \cup X)
         /\ \A w, n : Holds(<<p>> \o <<q>>, w, n) <=> Holds(<<p>>, w, n) \/ Holds(<<q>>, w, n)
    <3>1. W \cap X = {} /\ Good(l, <<p>>, W) /\ Good(l, <<q>>, X)
      BY <2>9, <2>10
    <3> QED
      BY <3>1, Joined
  <2>12. W \cup X = {"plt", "pltgot"}
    BY <2>10
  <2> QED
    BY <2>8, <2>9, <2>11, <2>12
<1> QED
  BY <1>1, <1>2

(* The whole list, in the order it is given to the layout.                 *)
LEMMA PiecesGiven ==
    ASSUME NEW l \in Link, NEW ids, Permutes(l, ids)
    PROVE  /\ Good(l, Pieces(l, ids), {"input", "common", "got", "plt", "pltgot"})
           /\ \A i \in DOMAIN l.inputs : Holds(Pieces(l, ids), "input", i)
           /\ UsesGot(l) => Holds(Pieces(l, ids), "got", 0)
           /\ l.need.plt # 0 => /\ Holds(Pieces(l, ids), "plt", 0)
                                /\ Holds(Pieces(l, ids), "pltgot", 0)
           /\ Isolated(l) => InOrder(Pieces(l, ids), "pltgot", "got")
<1>1. PICK A, C, G, P : /\ A = [k \in DOMAIN ids |-> InputPiece(l, ids[k])]
                        /\ C = CommonPiece(l) /\ G = GotPiece(l) /\ P = PltPieces(l)
  OBVIOUS
<1>2. PICK WA, WC, WG, WP : /\ WA = {"input"} /\ WC = {"common"} /\ WG = {"got"}
                            /\ WP = {"plt", "pltgot"}
  OBVIOUS
<1>3. Good(l, A, WA) /\ \A i \in DOMAIN l.inputs : Holds(A, "input", i)
  BY <1>1, <1>2, InputPieces
<1>4. Good(l, C, WC)
  BY <1>1, <1>2, CommonPieces
<1>5. Good(l, G, WG) /\ (UsesGot(l) => Holds(G, "got", 0))
  BY <1>1, <1>2, GotPieces
<1>6. Good(l, P, WP) /\ (l.need.plt # 0 => Holds(P, "plt", 0) /\ Holds(P, "pltgot", 0))
  BY <1>1, <1>2, PltAndSlots
<1>7. PICK F : F = A \o C
  OBVIOUS
<1>8. PICK WF : WF = WA \cup WC
  OBVIOUS
<1>9. Good(l, F, WF) /\ \A w, n : Holds(F, w, n) <=> Holds(A, w, n) \/ Holds(C, w, n)
  <2>1. WA \cap WC = {}
    BY <1>2
  <2> QED
    BY <1>3, <1>4, <1>7, <1>8, <2>1, Joined
<1>10. PICK B : B = IF Isolated(l) THEN P \o G ELSE G \o P
  OBVIOUS
<1>11. PICK WB : WB = WG \cup WP
  OBVIOUS
<1>12. /\ Good(l, B, WB)
       /\ \A w, n : Holds(B, w, n) <=> Holds(P, w, n) \/ Holds(G, w, n)
       /\ Isolated(l) => InOrder(B, "pltgot", "got")
  <2>1. WP \cap WG = {} /\ WG \cap WP = {} /\ WP \cup WG = WB
    BY <1>2, <1>11
  <2>2. CASE Isolated(l)
    <3>1. B = P \o G
      BY <1>10, <2>2
    <3>2. /\ Good(l, P \o G, WP \cup WG)
          /\ \A w, n : Holds(P \o G, w, n) <=> Holds(P, w, n) \/ Holds(G, w, n)
          /\ \A w \in WP, x \in WG : InOrder(P \o G, w, x)
      BY <1>5, <1>6, <2>1, Joined
    <3>3. "pltgot" \in WP /\ "got" \in WG
      BY <1>2
    <3> QED
      BY <2>1, <3>1, <3>2, <3>3
  <2>3. CASE ~Isolated(l)
    <3>1. B = G \o P
      BY <1>10, <2>3
    <3>2. /\ Good(l, G \o P, WG \cup WP)
          /\ \A w, n : Holds(G \o P, w, n) <=> Holds(G, w, n) \/ Holds(P, w, n)
      BY <1>5, <1>6, <2>1, Joined
    <3> QED
      BY <1>11, <2>3, <3>1, <3>2
  <2> QED
    BY <2>2, <2>3
<1>13. Pieces(l, ids) = F \o B
  BY <1>1, <1>7, <1>10 DEF Pieces
<1>14. /\ Good(l, F \o B, WF \cup WB)
       /\ \A w, n : Holds(F \o B, w, n) <=> Holds(F, w, n) \/ Holds(B, w, n)
       /\ \A w, x : w \notin WF /\ x \notin WF /\ InOrder(B, w, x) => InOrder(F \o B, w, x)
  <2>1. WF \cap WB = {}
    BY <1>2, <1>8, <1>11
  <2> QED
    BY <1>9, <1>12, <2>1, Joined
<1>15. WF \cup WB = {"input", "common", "got", "plt", "pltgot"}
  BY <1>2, <1>8, <1>11
<1>16. "pltgot" \notin WF /\ "got" \notin WF
  BY <1>2, <1>8
<1>17. Isolated(l) => InOrder(F \o B, "pltgot", "got")
  BY <1>12, <1>14, <1>16
<1> QED
  BY <1>3, <1>5, <1>6, <1>9, <1>12, <1>13, <1>14, <1>15, <1>17

(* Placing them moves the thread-local ones and, bound now, the protected  *)
(* tables behind; it loses none and doubles none.                          *)
Arranged(s, p) ==
    /\ p \in Seq(PieceType)
    /\ \E tau : /\ tau \in [DOMAIN p -> DOMAIN s]
                /\ \A x \in DOMAIN s : \E k \in DOMAIN p : tau[k] = x
                /\ \A j, k \in DOMAIN p : tau[j] = tau[k] => j = k
                /\ \A k \in DOMAIN p : p[k] = s[tau[k]]

LEMMA ArrangedFacts ==
    ASSUME NEW l, NEW s, NEW W, NEW p, Good(l, s, W), Arranged(s, p)
    PROVE  Good(l, p, W) /\ \A w, n : Holds(p, w, n) <=> Holds(s, w, n)
<1>1. PICK tau : /\ tau \in [DOMAIN p -> DOMAIN s]
                 /\ \A x \in DOMAIN s : \E k \in DOMAIN p : tau[k] = x
                 /\ \A j, k \in DOMAIN p : tau[j] = tau[k] => j = k
                 /\ \A k \in DOMAIN p : p[k] = s[tau[k]]
  BY DEF Arranged
<1>2. p \in Seq(PieceType)
  BY DEF Arranged
<1>3. Good(l, p, W)
  BY <1>1, <1>2 DEF Good, Distinct
<1>4. ASSUME NEW w, NEW n PROVE Holds(p, w, n) <=> Holds(s, w, n)
  BY <1>1 DEF Holds
<1> QED
  BY <1>3, <1>4

LEMMA Arrangement ==
    ASSUME NEW l \in Link, NEW s, NEW W, Good(l, s, W), NEW p, p = PlacementOrder(l, s)
    PROVE  /\ Arranged(s, p)
           /\ l.bindNow => /\ InOrder(s, "pltgot", "got") => InOrder(p, "pltgot", "got")
                           /\ \A j, k \in DOMAIN p :
                                p[j].what \notin {"pltgot", "got"} /\ p[k].what \in {"pltgot", "got"}
                                  => j < k
<1>1. PICK post, tls, fore : /\ post = {k \in DOMAIN s : PostTls(l, s[k])}
                             /\ tls  = {k \in DOMAIN s : s[k].tls}
                             /\ fore = DOMAIN s \ (post \cup tls)
  OBVIOUS
<1>2. s \in Seq(PieceType)
  BY DEF Good
<1>3. PICK z \in Nat : DOMAIN s = 1 .. z
  BY <1>2
<1>4. p = (Sublist(s, fore) \o Sublist(s, tls)) \o Sublist(s, post)
  BY <1>1 DEF PlacementOrder
<1>5. post \cap tls = {}
  BY <1>1 DEF PostTls, Good, Shape, TablePiece
<1>6. PICK pf, mf : Listing(pf, mf, fore, Less(fore)) /\ Sublist(s, fore) = Taken(s, pf, mf)
  <2>1. fore \in SUBSET (1 .. z)
    BY <1>1, <1>3
  <2> QED
    BY <2>1, SublistListed
<1>7. PICK pt, mt : Listing(pt, mt, tls, Less(tls)) /\ Sublist(s, tls) = Taken(s, pt, mt)
  <2>1. tls \in SUBSET (1 .. z)
    BY <1>1, <1>3
  <2> QED
    BY <2>1, SublistListed
<1>8. PICK pp, mp : Listing(pp, mp, post, Less(post)) /\ Sublist(s, post) = Taken(s, pp, mp)
  <2>1. post \in SUBSET (1 .. z)
    BY <1>1, <1>3
  <2> QED
    BY <2>1, SublistListed
<1>9. PICK FT, BeforeFT, mft : /\ FT = fore \cup tls /\ BeforeFT = InFront(fore, tls, Less(fore), Less(tls))
                     /\ mft = mf + mt
  OBVIOUS
<1>10. PICK ft : Listing(ft, mft, FT, BeforeFT) /\ Sublist(s, fore) \o Sublist(s, tls) = Taken(s, ft, mft)
  <2>1. Listing(pf, mf, fore, Less(fore))
    BY <1>6
  <2>2. Listing(pt, mt, tls, Less(tls))
    BY <1>7
  <2>3. \E tau : Listing(tau, mft, FT, BeforeFT) /\ Taken(s, pf, mf) \o Taken(s, pt, mt) = Taken(s, tau, mft)
    <3>1. TwoLists(s, pf, mf, fore, Less(fore), pt, mt, tls, Less(tls), FT, BeforeFT, mft)
      BY <1>9, <2>1, <2>2 DEF TwoLists
    <3> QED
      BY <3>1, ListsJoined
  <2> QED
    BY <1>6, <1>7, <2>3
<1>11. PICK All, BeforeAll, n, V : /\ All = FT \cup post /\ BeforeAll = InFront(FT, post, BeforeFT, V) /\ n = mft + mp
                         /\ V = Less(post)
  OBVIOUS
<1>12. PICK tau : Listing(tau, n, All, BeforeAll) /\ p = Taken(s, tau, n)
  <2>1. Listing(ft, mft, FT, BeforeFT)
    BY <1>10
  <2>2. Listing(pp, mp, post, V)
    BY <1>8, <1>11
  <2>3. \E tau : Listing(tau, n, All, BeforeAll) /\ Taken(s, ft, mft) \o Taken(s, pp, mp) = Taken(s, tau, n)
    <3>1. TwoLists(s, ft, mft, FT, BeforeFT, pp, mp, post, V, All, BeforeAll, n)
      BY <1>11, <2>1, <2>2 DEF TwoLists
    <3> QED
      BY <3>1, ListsJoined
  <2> QED
    BY <1>4, <1>8, <1>10, <2>3
<1>13. All = DOMAIN s /\ FT \cap post = {} /\ fore \cap tls = {}
  BY <1>1, <1>5, <1>9, <1>11
<1>14. n \in Nat /\ tau \in [1 .. n -> DOMAIN s] /\ DOMAIN p = 1 .. n
  BY <1>12, <1>13 DEF Listing, Taken
<1>15. \A x \in DOMAIN s : <<x, x>> \notin BeforeAll
  <2>1. ASSUME NEW x \in DOMAIN s, <<x, x>> \in BeforeAll PROVE FALSE
    <3>1. x \in Nat
      BY <1>3
    <3>2. <<x, x>> \in BeforeFT \/ <<x, x>> \in Less(post) \/ (x \in FT /\ x \in post)
      BY <1>11, <2>1 DEF InFront
    <3>3. <<x, x>> \in Less(fore) \/ <<x, x>> \in Less(tls) \/ <<x, x>> \in Less(post)
            \/ (x \in fore /\ x \in tls)
      BY <1>9, <1>13, <3>2 DEF InFront
    <3> QED
      BY <1>13, <3>1, <3>3 DEF Less
  <2> QED
    BY <2>1
<1>16. ASSUME NEW j \in DOMAIN p, NEW k \in DOMAIN p, tau[j] = tau[k] PROVE j = k
  <2>1. ASSUME j < k PROVE FALSE
    BY <1>12, <1>14, <1>15, <1>16, <2>1 DEF Listing
  <2>2. ASSUME k < j PROVE FALSE
    BY <1>12, <1>14, <1>15, <1>16, <2>2 DEF Listing
  <2> QED
    BY <1>14, <2>1, <2>2
<1>17. p \in Seq(PieceType)
  <2>1. p \in [1 .. n -> PieceType]
    BY <1>2, <1>12, <1>14 DEF Taken
  <2> QED
    BY <1>14, <2>1
<1>18. Arranged(s, p)
  <2>1. \A x \in DOMAIN s : \E k \in DOMAIN p : tau[k] = x
    BY <1>12, <1>13, <1>14 DEF Listing
  <2>2. \A k \in DOMAIN p : p[k] = s[tau[k]]
    BY <1>12, <1>14 DEF Taken
  <2> QED
    BY <1>14, <1>16, <1>17, <2>1, <2>2 DEF Arranged
<1>19. ASSUME l.bindNow, NEW k \in DOMAIN p
       PROVE  tau[k] \in post <=> p[k].what \in {"pltgot", "got"}
  <2>1. p[k] = s[tau[k]] /\ tau[k] \in DOMAIN s
    BY <1>12, <1>14 DEF Taken
  <2> QED
    BY <1>1, <1>19, <2>1 DEF PostTls
<1>20. ASSUME NEW j \in DOMAIN p, NEW k \in DOMAIN p, <<tau[j], tau[k]>> \notin BeforeAll, j # k
       PROVE  k < j
  <2>1. ~(j < k)
    BY <1>12, <1>14, <1>20 DEF Listing
  <2> QED
    BY <1>14, <1>20, <2>1
<1>21. ASSUME l.bindNow, NEW j \in DOMAIN p, NEW k \in DOMAIN p,
              p[j].what \notin {"pltgot", "got"}, p[k].what \in {"pltgot", "got"}
       PROVE  j < k
  <2>1. tau[k] \in post /\ tau[j] \notin post
    BY <1>19, <1>21
  <2>2. tau[k] \notin FT
    BY <1>13, <2>1
  <2>3. <<tau[k], tau[j]>> \notin BeforeAll
    <3>1. <<tau[k], tau[j]>> \notin BeforeFT
      BY <1>9, <2>2 DEF InFront, Less
    <3>2. <<tau[k], tau[j]>> \notin Less(post)
      BY <2>1 DEF Less
    <3> QED
      BY <1>11, <2>2, <3>1, <3>2 DEF InFront
  <2> QED
    BY <1>20, <1>21, <2>3
<1>22. ASSUME l.bindNow, InOrder(s, "pltgot", "got") PROVE InOrder(p, "pltgot", "got")
  <2> SUFFICES ASSUME NEW j \in DOMAIN p, NEW k \in DOMAIN p, p[j].what = "pltgot", p[k].what = "got"
               PROVE  j < k
    BY DEF InOrder
  <2>1. tau[j] \in post /\ tau[k] \in post
    BY <1>19, <1>22
  <2>2. tau[j] < tau[k] /\ tau[j] \in Nat /\ tau[k] \in Nat
    <3>1. p[k] = s[tau[k]] /\ tau[k] \in DOMAIN s /\ p[j] = s[tau[j]] /\ tau[j] \in DOMAIN s
      BY <1>12, <1>14 DEF Taken
    <3> QED
      BY <1>3, <1>22, <3>1 DEF InOrder
  <2>3. <<tau[k], tau[j]>> \notin BeforeAll
    <3>1. tau[k] \notin FT /\ tau[j] \notin FT
      BY <1>13, <2>1
    <3>2. <<tau[k], tau[j]>> \notin BeforeFT
      BY <1>9, <3>1 DEF InFront, Less
    <3>3. <<tau[k], tau[j]>> \notin Less(post)
      BY <2>2 DEF Less
    <3> QED
      BY <1>11, <3>1, <3>2, <3>3 DEF InFront
  <2>4. j # k
    OBVIOUS
  <2> QED
    BY <1>20, <2>3, <2>4
<1> QED
  BY <1>18, <1>21, <1>22

LEMMA MaxOf ==
    ASSUME NEW T \in SUBSET Nat, IsFiniteSet(T), T # {}
    PROVE  Max(T) \in T /\ \A x \in T : x <= Max(T)
<1>1. PICK n \in Nat : \A x \in T : x <= n
  BY FiniteIsBounded
<1>2. T \in SUBSET (0 .. n)
  BY <1>1
<1>3. \E x \in T : \A y \in T : x >= y
  BY <1>2, GreatestOfSet
<1>4. Max(T) \in T /\ \A y \in T : Max(T) >= y
  BY <1>3 DEF Max
<1> QED
  BY <1>4

-----------------------------------------------------------------------------
(* Numbers given one after the other.                                      *)
Chain(f, n, first, next) ==
    \A k \in 1 .. n : f[k] = IF k = 1 THEN first ELSE next[<<k, f[k - 1]>>]

LEMMA ChainExists ==
    ASSUME NEW n \in Nat, NEW first \in Nat, NEW next \in [(1 .. n) \X Nat -> Nat]
    PROVE  \E f \in [1 .. n -> Nat] : Chain(f, n, first, next)
<1> DEFINE Bad == {m \in 0 .. n : ~\E f \in [1 .. m -> Nat] : Chain(f, m, first, next)}
<1> SUFFICES ASSUME Bad # {} PROVE FALSE
  OBVIOUS
<1>1. PICK m \in Bad : \A x \in Bad : m <= x
  BY Bad \in SUBSET Nat, LeastOfSet
<1>2. CASE m = 0
  <2>1. [k \in 1 .. 0 |-> 0] \in [1 .. 0 -> Nat] /\ Chain([k \in 1 .. 0 |-> 0], 0, first, next)
    BY DEF Chain
  <2> QED
    BY <1>2, <2>1
<1>3. CASE m # 0
  <2>1. m \in 1 .. n /\ m - 1 \in 0 .. n /\ m - 1 \notin Bad
    <3>1. m \in 0 .. n
      OBVIOUS
    <3>2. m \in 1 .. n /\ m - 1 \in 0 .. n /\ ~(m <= m - 1)
      BY <1>3, <3>1
    <3> HIDE DEF Bad
    <3> QED
      BY <1>1, <3>2
  <2>2. PICK f \in [1 .. m - 1 -> Nat] : Chain(f, m - 1, first, next)
    BY <2>1
  <2>3. PICK v : v = IF m = 1 THEN first ELSE next[<<m, f[m - 1]>>]
    OBVIOUS
  <2>4. v \in Nat
    BY <2>1, <2>2, <2>3
  <2>5. PICK g : g = [k \in 1 .. m |-> IF k = m THEN v ELSE f[k]]
    OBVIOUS
  <2>6. g \in [1 .. m -> Nat]
    BY <2>1, <2>2, <2>4, <2>5
  <2>7. ASSUME NEW k \in 1 .. m
        PROVE  g[k] = IF k = 1 THEN first ELSE next[<<k, g[k - 1]>>]
    <3>1. k # 1 => k - 1 \in 1 .. m /\ k - 1 # m /\ g[k - 1] = f[k - 1]
      BY <2>1, <2>5
    <3>2. CASE k = m
      <4>1. g[k] = v
        BY <2>5, <3>2
      <4> QED
        BY <2>3, <3>1, <3>2, <4>1
    <3>3. CASE k # m
      <4>1. k \in 1 .. m - 1 /\ g[k] = f[k]
        BY <2>1, <2>5, <3>3
      <4> QED
        BY <2>2, <3>1, <4>1 DEF Chain
    <3> QED
      BY <3>2, <3>3
  <2>8. Chain(g, m, first, next)
    BY <2>7 DEF Chain
  <2> QED
    BY <2>6, <2>8
<1> QED
  BY <1>2, <1>3

ChainRule(f, n, first, next) ==
    /\ n \in Nat /\ first \in Nat /\ next \in [(1 .. n) \X Nat -> Nat]
    /\ \A k \in 1 .. n : k = 1 => f[k] = first
    /\ \A k \in 1 .. n : k # 1 /\ f[k - 1] \in Nat => f[k] = next[<<k, f[k - 1]>>]

LEMMA ChainTyped ==
    ASSUME NEW f, NEW n, NEW first, NEW next, ChainRule(f, n, first, next)
    PROVE  \A k \in 1 .. n : f[k] \in Nat
<1> USE DEF ChainRule
<1> DEFINE Bad == {k \in 1 .. n : f[k] \notin Nat}
<1> SUFFICES ASSUME Bad # {} PROVE FALSE
  OBVIOUS
<1>1. PICK m \in Bad : \A x \in Bad : m <= x
  BY Bad \in SUBSET Nat, LeastOfSet
<1>2. m # 1
  OBVIOUS
<1>3. m - 1 \in 1 .. n /\ m - 1 \notin Bad
  BY <1>1, <1>2
<1>4. f[m] = next[<<m, f[m - 1]>>] /\ f[m - 1] \in Nat
  BY <1>2, <1>3
<1> QED
  BY <1>4

(* The same but for the address.                                           *)
SameBut(q, p) ==
    /\ q \in PieceType /\ q.what = p.what /\ q.n = p.n /\ q.perm = p.perm /\ q.nobits = p.nobits
    /\ q.tls = p.tls /\ q.size = p.size /\ q.align = p.align

Ascending(s) == \A j, k \in DOMAIN s : j < k => End(s[j]) <= s[k].address
Paged(s) == \A k \in DOMAIN s : s[k].align = Page => s[k].address % Page = 0

LEMMA PieceParts ==
    ASSUME NEW s \in Seq(PieceType), NEW k \in DOMAIN s
    PROVE  /\ s[k] \in PieceType /\ s[k].size \in Nat /\ s[k].address \in Nat
           /\ s[k].align \in Nat \ {0}
<1>1. s[k] \in PieceType
  OBVIOUS
<1> QED
  BY <1>1 DEF PieceType

LEMMA StepsAscend ==
    ASSUME NEW s \in Seq(PieceType),
           \A k \in DOMAIN s : k # 1 => End(s[k - 1]) <= s[k].address
    PROVE  Ascending(s)
<1>1. PICK n \in Nat : DOMAIN s = 1 .. n
  OBVIOUS
<1>2. \A k \in DOMAIN s : s[k].size \in Nat /\ s[k].address \in Nat
  BY PieceParts
<1> SUFFICES ASSUME NEW j \in DOMAIN s, NEW k \in DOMAIN s, j < k, ~(End(s[j]) <= s[k].address)
             PROVE  FALSE
  BY DEF Ascending
<1> DEFINE Bad == {i \in 1 .. n : j < i /\ ~(End(s[j]) <= s[i].address)}
<1>3. k \in Bad /\ Bad \in SUBSET Nat
  BY <1>1
<1>4. PICK m \in Bad : \A x \in Bad : m <= x
  BY <1>3, LeastOfSet
<1>5. m \in 1 .. n /\ j < m /\ ~(End(s[j]) <= s[m].address)
  OBVIOUS
<1>6. m # 1 /\ m - 1 \in 1 .. n /\ ~(m <= m - 1)
  BY <1>1, <1>5
<1>7. End(s[m - 1]) <= s[m].address
  BY <1>1, <1>6, <1>5
<1>8. CASE m - 1 = j
  BY <1>5, <1>7, <1>8
<1>9. CASE m - 1 # j
  <2>1. j < m - 1
    BY <1>1, <1>5, <1>9
  <2>2. End(s[j]) <= s[m - 1].address
    BY <1>4, <1>6, <2>1
  <2>3. /\ s[m - 1].size \in Nat /\ s[m - 1].address \in Nat /\ s[m].address \in Nat
        /\ s[j].size \in Nat /\ s[j].address \in Nat
    BY <1>1, <1>2, <1>5, <1>6
  <2>4. End(s[j]) \in Nat /\ End(s[m - 1]) = s[m - 1].address + s[m - 1].size
    BY <2>3 DEF End
  <2>5. End(s[j]) <= s[m].address
    BY <1>7, <2>2, <2>3, <2>4
  <2> QED
    BY <1>5, <2>5
<1> QED
  BY <1>8, <1>9

LEMMA PlacedIs ==
    ASSUME NEW p \in Seq(PieceType), NEW q, q = Placed(p)
    PROVE  /\ q \in Seq(PieceType) /\ DOMAIN q = DOMAIN p
           /\ \A k \in DOMAIN p : SameBut(q[k], p[k])
           /\ Ascending(q) /\ Paged(q)
<1> USE ImageAssumption
<1>1. PICK n \in Nat : DOMAIN p = 1 .. n
  OBVIOUS
<1>2. ASSUME NEW k \in 1 .. n
      PROVE  /\ p[k] \in PieceType /\ p[k].align \in Nat \ {0} /\ p[k].size \in Nat
  BY <1>1, PieceParts
<1> DEFINE to(k) == IF p[k].perm = p[k - 1].perm \/ p[k].align > Page THEN p[k].align ELSE Page
           first == AlignUp(Page, p[1].align)
           next  == [x \in (1 .. n) \X Nat |->
                       IF x[1] = 1 THEN 0 ELSE AlignUp(x[2] + p[x[1] - 1].size, to(x[1]))]
           body(h, k) == IF k = 1 THEN AlignUp(Page, p[k].align) ELSE AlignUp(h[k - 1] + p[k - 1].size, to(k))
<1>3. ASSUME NEW k \in 1 .. n PROVE to(k) \in Nat \ {0}
  BY <1>2
<1>4. \A k \in 1 .. n, v \in Nat : k # 1 => next[<<k, v>>] = AlignUp(v + p[k - 1].size, to(k))
  OBVIOUS
<1>5. next \in [(1 .. n) \X Nat -> Nat]
  <2>1. ASSUME NEW k \in 1 .. n, NEW v \in Nat PROVE next[<<k, v>>] \in Nat
    <3>1. CASE k = 1
      BY <3>1
    <3>2. CASE k # 1
      <4>1. k - 1 \in 1 .. n
        BY <3>2
      <4>2. p[k - 1].size \in Nat
        BY <1>2, <4>1
      <4>3. v + p[k - 1].size \in Nat
        BY <4>2
      <4>4. AlignUp(v + p[k - 1].size, to(k)) \in Nat
        BY <1>3, <4>3, AlignedUp
      <4> QED
        BY <1>4, <3>2, <4>4
    <3> QED
      BY <3>1, <3>2
  <2>2. ASSUME NEW x \in (1 .. n) \X Nat PROVE next[x] \in Nat
    <3>1. PICK k \in 1 .. n, v \in Nat : x = <<k, v>>
      OBVIOUS
    <3> HIDE DEF next
    <3> QED
      BY <2>1, <3>1
  <2> QED
    BY <2>2
<1>6. PICK a : a = CHOOSE h : h = [i \in DOMAIN p |-> body(h, i)]
  OBVIOUS
<1>7. q = [k \in DOMAIN p |-> [p[k] EXCEPT !.address = a[k]]]
  BY <1>6 DEF Placed
<1>8. q = [k \in 1 .. n |-> [p[k] EXCEPT !.address = a[k]]]
  BY <1>1, <1>7
<1> HIDE DEF next
<1>9. a = [i \in 1 .. n |-> body(a, i)]
  <2>1. CASE n = 0
    <3>1. PICK h : h = [i \in 1 .. n |-> 0]
      OBVIOUS
    <3>2. h = [i \in 1 .. n |-> body(h, i)]
      BY <2>1, <3>1
    <3> HIDE DEF body
    <3> QED
      BY <1>1, <1>6, <3>2
  <2>2. CASE n # 0
    <3>1. 1 \in 1 .. n
      BY <2>2
    <3>2. first \in Nat
      BY <1>2, <3>1, AlignedUp
    <3>3. PICK h \in [1 .. n -> Nat] : Chain(h, n, first, next)
      BY <1>5, <3>2, ChainExists
    <3>4. ASSUME NEW k \in 1 .. n PROVE h[k] = body(h, k)
      <4>1. CASE k = 1
        BY <3>3, <4>1 DEF Chain
      <4>2. CASE k # 1
        <5>1. k - 1 \in 1 .. n
          BY <4>2
        <5>2. h[k] = next[<<k, h[k - 1]>>]
          BY <3>3, <4>2 DEF Chain
        <5>3. h[k - 1] \in Nat
          BY <5>1
        <5> QED
          BY <1>4, <4>2, <5>2, <5>3
      <4> QED
        BY <4>1, <4>2
    <3>5. h = [i \in 1 .. n |-> body(h, i)]
      <4> HIDE DEF body
      <4> QED
        BY <3>4
    <3> HIDE DEF body
    <3> QED
      BY <1>1, <1>6, <3>5
  <2> QED
    BY <2>1, <2>2
<1>10. ASSUME NEW k \in 1 .. n PROVE a[k] = body(a, k)
  <2> HIDE DEF body
  <2> QED
    BY <1>9
<1>11. ASSUME NEW k \in 1 .. n PROVE a[k] \in Nat
  <2>1. 1 \in 1 .. n
    OBVIOUS
  <2>2. first \in Nat
    BY <1>2, <2>1, AlignedUp
  <2>3. \A i \in 1 .. n : i = 1 => a[i] = first
    BY <1>10
  <2>4. \A i \in 1 .. n : i # 1 /\ a[i - 1] \in Nat => a[i] = next[<<i, a[i - 1]>>]
    BY <1>4, <1>10
  <2>5. PICK f, nx : f = first /\ nx = next
    OBVIOUS
  <2>6. ChainRule(a, n, f, nx)
    <3> HIDE DEF first
    <3> QED
      BY <1>5, <2>2, <2>3, <2>4, <2>5 DEF ChainRule
  <2>7. \A i \in 1 .. n : a[i] \in Nat
    <3> HIDE DEF first, to, body
    <3> QED
      BY <2>6, ChainTyped
  <2> QED
    BY <2>7
<1>12. ASSUME NEW k \in 1 .. n
       PROVE  q[k].address = a[k] /\ SameBut(q[k], p[k])
  <2>1. q[k] = [p[k] EXCEPT !.address = a[k]]
    BY <1>8
  <2>2. p[k] \in PieceType /\ a[k] \in Nat
    BY <1>2, <1>11
  <2>3. PICK x \in PieceType, v \in Nat : x = p[k] /\ v = a[k]
    BY <2>2
  <2>4. q[k] = [x EXCEPT !.address = v]
    BY <2>1, <2>3
  <2>5. /\ q[k] \in PieceType /\ q[k].address = v /\ q[k].what = x.what /\ q[k].n = x.n
        /\ q[k].perm = x.perm /\ q[k].nobits = x.nobits /\ q[k].tls = x.tls
        /\ q[k].size = x.size /\ q[k].align = x.align
    BY <2>4 DEF PieceType
  <2> QED
    BY <2>3, <2>5 DEF SameBut
<1>13. DOMAIN q = DOMAIN p
  BY <1>1, <1>8
<1>14. q \in Seq(PieceType)
  <2>1. q \in [1 .. n -> PieceType]
    BY <1>8, <1>12 DEF SameBut
  <2> QED
    BY <2>1
<1>15. ASSUME NEW k \in 1 .. n, k # 1
       PROVE  End(q[k - 1]) <= q[k].address /\ (p[k].align = Page => q[k].address % Page = 0)
  <2>1. k - 1 \in 1 .. n
    BY <1>15
  <2>2. PICK v \in Nat : v = a[k - 1] + p[k - 1].size
    BY <1>2, <1>11, <2>1
  <2>3. a[k] = AlignUp(v, to(k))
    BY <1>10, <1>15, <2>2
  <2>4. v <= a[k] /\ a[k] % to(k) = 0
    <3>1. PICK c \in Nat \ {0} : c = to(k)
      BY <1>3
    <3> HIDE DEF to, body, first
    <3> QED
      <4>1. a[k] = AlignUp(v, c)
        BY <2>3, <3>1
      <4>2. v <= AlignUp(v, c) /\ AlignUp(v, c) % c = 0
        BY AlignedUp
      <4> QED
        BY <3>1, <4>1, <4>2
  <2>5. End(q[k - 1]) = v
    BY <1>12, <2>1, <2>2 DEF End, SameBut
  <2>6. p[k].align = Page => to(k) = Page
    OBVIOUS
  <2> HIDE DEF to
  <2> QED
    BY <1>12, <2>4, <2>5, <2>6
<1>16. Ascending(q)
  BY <1>1, <1>13, <1>14, <1>15, StepsAscend
<1>17. ASSUME NEW k \in 1 .. n, p[k].align = Page PROVE q[k].address % Page = 0
  <2>1. CASE k = 1
    <3>1. a[k] = AlignUp(Page, p[k].align)
      BY <1>10, <2>1
    <3>2. a[k] % Page = 0
      BY <1>17, <3>1, AlignedUp
    <3> QED
      BY <1>12, <3>2
  <2> QED
    BY <1>15, <1>17, <2>1
<1>18. Paged(q)
  BY <1>1, <1>12, <1>13, <1>17 DEF Paged, SameBut
<1> QED
  BY <1>1, <1>12, <1>13, <1>14, <1>16, <1>18

(* What the layout makes of a link's sections.                             *)
Five == {"input", "common", "got", "plt", "pltgot"}
BoundLast(s) ==
    /\ InOrder(s, "pltgot", "got")
    /\ \A j, k \in DOMAIN s :
         s[j].what \notin {"pltgot", "got"} /\ s[k].what \in {"pltgot", "got"} => j < k
Complete(l, s) ==
    /\ \A i \in DOMAIN l.inputs : Holds(s, "input", i)
    /\ UsesGot(l) => Holds(s, "got", 0)
    /\ l.need.plt # 0 => Holds(s, "plt", 0) /\ Holds(s, "pltgot", 0)
Laid(l, s) ==
    /\ Good(l, s, Five) /\ Complete(l, s)
    /\ Ascending(s) /\ Paged(s)
    /\ l.bindNow => BoundLast(s)

LEMMA SameShape ==
    ASSUME NEW l, NEW p, NEW q, Shape(l, p), SameBut(q, p)
    PROVE  Shape(l, q)
BY DEF Shape, SameBut, TablePiece

LEMMA SameList ==
    ASSUME NEW l, NEW W, NEW p, NEW q, Good(l, p, W), q \in Seq(PieceType), DOMAIN q = DOMAIN p,
           \A k \in DOMAIN p : SameBut(q[k], p[k])
    PROVE  /\ Good(l, q, W)
           /\ \A w, n : Holds(q, w, n) <=> Holds(p, w, n)
           /\ BoundLast(p) => BoundLast(q)
<1>1. \A k \in DOMAIN p : q[k].what = p[k].what /\ q[k].n = p[k].n
  BY DEF SameBut
<1>2. \A k \in DOMAIN p : Shape(l, q[k])
  BY SameShape DEF Good
<1>3. Good(l, q, W)
  BY <1>1, <1>2 DEF Good, Distinct
<1>4. ASSUME NEW w, NEW n PROVE Holds(q, w, n) <=> Holds(p, w, n)
  BY <1>1 DEF Holds
<1>5. BoundLast(p) => BoundLast(q)
  BY <1>1 DEF BoundLast, InOrder
<1> QED
  BY <1>3, <1>4, <1>5

LEMMA LaidOut ==
    ASSUME NEW l \in Link, NEW ids, Permutes(l, ids)
    PROVE  Laid(l, Placed(PlacementOrder(l, Pieces(l, ids))))
<1>1. PICK s : s = Pieces(l, ids)
  OBVIOUS
<1>2. /\ Good(l, s, Five) /\ Complete(l, s)
      /\ Isolated(l) => InOrder(s, "pltgot", "got")
  BY <1>1, PiecesGiven DEF Five, Complete
<1>3. PICK p : p = PlacementOrder(l, s)
  OBVIOUS
<1>4. /\ Arranged(s, p)
      /\ l.bindNow => /\ InOrder(s, "pltgot", "got") => InOrder(p, "pltgot", "got")
                      /\ \A j, k \in DOMAIN p :
                           p[j].what \notin {"pltgot", "got"} /\ p[k].what \in {"pltgot", "got"}
                             => j < k
  BY <1>2, <1>3, Arrangement
<1>5. Good(l, p, Five) /\ \A w, n : Holds(p, w, n) <=> Holds(s, w, n)
  BY <1>2, <1>4, ArrangedFacts
<1>6. l.bindNow => BoundLast(p)
  BY <1>2, <1>4 DEF BoundLast, Isolated
<1>7. PICK q : q = Placed(p)
  OBVIOUS
<1>8. /\ q \in Seq(PieceType) /\ DOMAIN q = DOMAIN p
      /\ \A k \in DOMAIN p : SameBut(q[k], p[k])
      /\ Ascending(q) /\ Paged(q)
  <2>1. p \in Seq(PieceType)
    BY <1>5 DEF Good
  <2> QED
    BY <1>7, <2>1, PlacedIs
<1>9. /\ Good(l, q, Five)
      /\ \A w, n : Holds(q, w, n) <=> Holds(p, w, n)
      /\ BoundLast(p) => BoundLast(q)
  BY <1>5, <1>8, SameList
<1>10. Complete(l, q)
  BY <1>2, <1>5, <1>9 DEF Complete
<1>11. Laid(l, q)
  BY <1>6, <1>8, <1>9, <1>10 DEF Laid
<1> QED
  BY <1>1, <1>3, <1>7, <1>11

(* The objects to copy take some space.                                    *)
CopySize(sizes) == CopyOffsets(sizes)[Len(sizes)] + sizes[Len(sizes)]

LEMMA CopySizeIs ==
    ASSUME NEW sizes \in Seq(Nat \ {0}), sizes # <<>>
    PROVE  CopySize(sizes) \in Nat \ {0}
<1>1. PICK n \in Nat \ {0} : n = Len(sizes) /\ DOMAIN sizes = 1 .. n
  OBVIOUS
<1>2. \A k \in 1 .. n : sizes[k] \in Nat \ {0}
  BY <1>1
<1>3. PICK m \in Nat : m = Len(sizes) + 1
  BY <1>1
<1> DEFINE next == [x \in (1 .. m) \X Nat |->
                      IF x[1] = 1 THEN 0 ELSE AlignUp(x[2], CopyAlignment) + sizes[x[1] - 1]]
           body(h, k) == IF k = 1 THEN 0 ELSE AlignUp(h[k - 1], CopyAlignment) + sizes[k - 1]
<1>4. \A k \in 1 .. m, v \in Nat :
        k # 1 => next[<<k, v>>] = AlignUp(v, CopyAlignment) + sizes[k - 1]
  OBVIOUS
<1>5. ASSUME NEW v \in Nat PROVE AlignUp(v, CopyAlignment) \in Nat
  <2>1. PICK c \in Nat \ {0} : c = CopyAlignment
    BY DEF CopyAlignment
  <2> QED
    BY <2>1, AlignedUp
<1>6. next \in [(1 .. m) \X Nat -> Nat]
  <2>1. ASSUME NEW k \in 1 .. m, NEW v \in Nat PROVE next[<<k, v>>] \in Nat
    <3>1. CASE k = 1
      BY <3>1
    <3>2. CASE k # 1
      <4>1. k - 1 \in 1 .. n
        BY <1>1, <1>3, <3>2
      <4>2. AlignUp(v, CopyAlignment) + sizes[k - 1] \in Nat
        <5>1. PICK x \in Nat, y \in Nat : x = AlignUp(v, CopyAlignment) /\ y = sizes[k - 1]
          BY <1>2, <1>5, <4>1
        <5> QED
          BY <5>1
      <4> QED
        BY <1>4, <3>2, <4>2
    <3> QED
      BY <3>1, <3>2
  <2>2. ASSUME NEW x \in (1 .. m) \X Nat PROVE next[x] \in Nat
    <3>1. PICK k \in 1 .. m, v \in Nat : x = <<k, v>>
      OBVIOUS
    <3> HIDE DEF next
    <3> QED
      BY <2>1, <3>1
  <2> QED
    BY <2>2
<1> HIDE DEF next
<1>7. PICK a : a = CHOOSE h : h = [i \in 1 .. Len(sizes) + 1 |-> body(h, i)]
  OBVIOUS
<1>8. CopyOffsets(sizes) = [k \in DOMAIN sizes |-> AlignUp(a[k], CopyAlignment)]
  BY <1>7 DEF CopyOffsets
<1>9. a = [i \in 1 .. m |-> body(a, i)]
  <2>1. PICK h \in [1 .. m -> Nat] : Chain(h, m, 0, next)
    BY <1>6, ChainExists
  <2>2. ASSUME NEW k \in 1 .. m PROVE h[k] = body(h, k)
    <3>1. CASE k = 1
      BY <2>1, <3>1 DEF Chain
    <3>2. CASE k # 1
      <4>1. k - 1 \in 1 .. m
        BY <3>2
      <4>2. h[k] = next[<<k, h[k - 1]>>]
        BY <2>1, <3>2 DEF Chain
      <4>3. h[k - 1] \in Nat
        BY <4>1
      <4> QED
        BY <1>4, <3>2, <4>2, <4>3
    <3> QED
      BY <3>1, <3>2
  <2>3. h = [i \in 1 .. m |-> body(h, i)]
    <3> HIDE DEF body
    <3> QED
      BY <2>2
  <2> HIDE DEF body
  <2> QED
    BY <1>3, <1>7, <2>3
<1>10. ASSUME NEW k \in 1 .. m PROVE a[k] = body(a, k)
  <2> HIDE DEF body
  <2> QED
    BY <1>9
<1>11. \A k \in 1 .. m : a[k] \in Nat
  <2>1. \A i \in 1 .. m : i = 1 => a[i] = 0
    BY <1>10
  <2>2. \A i \in 1 .. m : i # 1 /\ a[i - 1] \in Nat => a[i] = next[<<i, a[i - 1]>>]
    BY <1>4, <1>10
  <2>3. PICK f, nx : f = 0 /\ nx = next
    OBVIOUS
  <2>4. ChainRule(a, m, f, nx)
    BY <1>6, <2>1, <2>2, <2>3 DEF ChainRule
  <2> QED
    BY <2>4, ChainTyped
<1>12. n \in DOMAIN sizes /\ n \in 1 .. m
  BY <1>1, <1>3
<1>13. CopyOffsets(sizes)[n] \in Nat
  BY <1>5, <1>8, <1>11, <1>12
<1>14. sizes[n] \in Nat \ {0}
  BY <1>1, <1>2
<1>15. CopyOffsets(sizes)[n] + sizes[n] \in Nat \ {0}
  BY <1>13, <1>14
<1> QED
  BY <1>1, <1>15 DEF CopySize

-----------------------------------------------------------------------------
(* The sections that are in the image before the metadata, as a set.       *)
EndOf(S) == Max({End(s) : s \in S} \cup {0})
Apart(s, t) == End(s) <= t.address \/ End(t) <= s.address
Present(S, w, n) == \E s \in S : s.what = w /\ s.n = n
CopyPiece(l, s) == l.copies # <<>> /\ s.nobits /\ s.perm = "RW" /\ s.size # 0 /\ s.n = 0
Unique(S) == \A s, t \in S : s.what = t.what /\ s.n = t.n => s = t
Tables == {"pltgot", "got"}
Stocked(l, S, copied) ==
    /\ S \subseteq PieceType /\ IsFiniteSet(S) /\ Unique(S)
    /\ \A s, t \in S : s # t => Apart(s, t)
    /\ \A s \in S : \/ s.what \in Five /\ Shape(l, s)
                    \/ s.what = "copy" /\ copied /\ CopyPiece(l, s)
    /\ \A s \in S : s.align = Page => s.address % Page = 0
    /\ \A i \in DOMAIN l.inputs : Present(S, "input", i)
    /\ UsesGot(l) => Present(S, "got", 0)
    /\ l.need.plt # 0 => Present(S, "plt", 0) /\ Present(S, "pltgot", 0)
    /\ l.bindNow => \A s, t \in S :
         t.what \in Tables /\ (s.what \in Five \ Tables \/ (s.what = "pltgot" /\ t.what = "got"))
           => End(s) <= t.address
    /\ copied => \E c \in S : c.what = "copy" /\ \A s \in S : s.what # "copy" => End(s) <= c.address

LEMMA EndOfIs ==
    ASSUME NEW S \in SUBSET PieceType, IsFiniteSet(S)
    PROVE  /\ EndOf(S) \in Nat /\ \A s \in S : End(s) <= EndOf(S)
           /\ EndOf(S) # 0 => \E s \in S : End(s) = EndOf(S)
<1>1. PICK T : T = {End(s) : s \in S} \cup {0}
  OBVIOUS
<1>2. IsFiniteSet({End(s) : s \in S})
  <2>1. PICK V, f : V = {End(s) : s \in S} /\ f = [s \in S |-> End(s)]
    OBVIOUS
  <2>2. f \in Surjection(S, V)
    BY <2>1 DEF Surjection
  <2>3. IsFiniteSet(V)
    BY <2>2, FS_Surjection
  <2> QED
    BY <2>1, <2>3
<1>3. IsFiniteSet(T)
  BY <1>1, <1>2, FS_AddElement
<1>4. \A s \in S : End(s) \in Nat
  BY DEF End, PieceType
<1>5. T \in SUBSET Nat /\ T # {}
  BY <1>1, <1>4
<1>6. Max(T) \in T /\ \A x \in T : x <= Max(T)
  BY <1>3, <1>5, MaxOf
<1>7. EndOf(S) = Max(T)
  BY <1>1 DEF EndOf
<1> QED
  BY <1>1, <1>5, <1>6, <1>7

LEMMA LaidStocked ==
    ASSUME NEW l, NEW s, Laid(l, s)
    PROVE  Stocked(l, ToSet(s), FALSE)
<1>1. s \in Seq(PieceType)
  BY DEF Laid, Good
<1>2. PICK n \in Nat : DOMAIN s = 1 .. n
  BY <1>1
<1>3. PICK S : S = {s[k] : k \in DOMAIN s}
  OBVIOUS
<1>4. ToSet(s) = S
  BY <1>3 DEF ToSet
<1>5. S \subseteq PieceType
  BY <1>1, <1>3
<1>6. IsFiniteSet(S)
  <2>1. IsFiniteSet(1 .. n)
    BY 1 \in Int, n \in Int, FS_Interval
  <2>2. IsFiniteSet(DOMAIN s)
    BY <1>2, <2>1
  <2>3. s \in [DOMAIN s -> S]
    BY <1>1, <1>3
  <2>4. s \in Surjection(DOMAIN s, S)
    BY <1>3, <2>3, Zenon DEF Surjection
  <2> QED
    BY <2>2, <2>4, FS_Surjection
<1>7. Unique(S)
  BY <1>3 DEF Laid, Good, Distinct, Unique
<1>8. ASSUME NEW x \in S, NEW y \in S, x # y PROVE Apart(x, y)
  <2>1. PICK j \in DOMAIN s, k \in DOMAIN s : x = s[j] /\ y = s[k]
    BY <1>3
  <2>2. j < k \/ k < j
    BY <1>2, <1>8, <2>1
  <2> QED
    BY <2>1, <2>2 DEF Laid, Ascending, Apart
<1>9. \A x \in S : x.what \in Five /\ Shape(l, x) /\ (x.align = Page => x.address % Page = 0)
  BY <1>3 DEF Laid, Good, Paged
<1>10. ASSUME NEW w, NEW n1, Holds(s, w, n1) PROVE Present(S, w, n1)
  BY <1>3, <1>10 DEF Holds, Present
<1>11. ASSUME l.bindNow, NEW x \in S, NEW y \in S, y.what \in Tables,
              x.what \in Five \ Tables \/ (x.what = "pltgot" /\ y.what = "got")
       PROVE  End(x) <= y.address
  <2>1. PICK j \in DOMAIN s, k \in DOMAIN s : x = s[j] /\ y = s[k]
    BY <1>3
  <2>2. j < k
    BY <1>11, <2>1 DEF Laid, BoundLast, InOrder, Tables
  <2> QED
    BY <2>1, <2>2 DEF Laid, Ascending
<1>12. Stocked(l, S, FALSE)
  BY <1>5, <1>6, <1>7, <1>8, <1>9, <1>10, <1>11 DEF Stocked, Laid, Complete
<1> QED
  BY <1>4, <1>12

LEMMA CopyStocked ==
    ASSUME NEW l, NEW S, Stocked(l, S, FALSE), l.copies # <<>>, NEW c \in PieceType,
           c.what = "copy", CopyPiece(l, c), EndOf(S) <= c.address,
           c.align = Page => c.address % Page = 0
    PROVE  Stocked(l, S \cup {c}, TRUE)
<1>1. PICK U : U = S \cup {c}
  OBVIOUS
<1>2. S \in SUBSET PieceType /\ IsFiniteSet(S) /\ \A s \in S : s.what \in Five /\ Shape(l, s)
  BY DEF Stocked
<1>3. \A s \in S : s.what # "copy"
  BY <1>2 DEF Five
<1>4. ASSUME NEW s \in S PROVE End(s) <= c.address
  <2>1. EndOf(S) \in Nat /\ End(s) <= EndOf(S)
    BY <1>2, EndOfIs
  <2>2. End(s) \in Nat /\ c.address \in Nat
    BY <1>2 DEF End, PieceType
  <2> QED
    BY <2>1, <2>2
<1>5. IsFiniteSet(U)
  BY <1>1, <1>2, FS_AddElement
<1>6. Unique(U)
  BY <1>1, <1>3 DEF Unique, Stocked
<1>7. \A s, t \in U : s # t => Apart(s, t)
  BY <1>1, <1>4 DEF Stocked, Apart
<1>8. \A w, n : Present(S, w, n) => Present(U, w, n)
  BY <1>1 DEF Present
<1>9. \A s \in U : \/ s.what \in Five /\ Shape(l, s)
                   \/ s.what = "copy" /\ CopyPiece(l, s)
  BY <1>1, <1>2
<1>10. "copy" \notin Five /\ "copy" \notin Tables
  BY DEF Five, Tables
<1>11. ASSUME l.bindNow, NEW s \in U, NEW t \in U, t.what \in Tables,
              s.what \in Five \ Tables \/ (s.what = "pltgot" /\ t.what = "got")
       PROVE  End(s) <= t.address
  <2>1. s.what # "copy" /\ t.what # "copy"
    BY <1>10, <1>11
  <2>2. s \in S /\ t \in S
    BY <1>1, <2>1
  <2> QED
    BY <1>11, <2>2 DEF Stocked
<1>12. \E d \in U : d.what = "copy" /\ \A s \in U : s.what # "copy" => End(s) <= d.address
  BY <1>1, <1>4
<1>13. U \subseteq PieceType
  BY <1>1, <1>2
<1>14. \A s \in U : s.align = Page => s.address % Page = 0
  BY <1>1 DEF Stocked
<1>15. Stocked(l, U, TRUE)
  BY <1>5, <1>6, <1>7, <1>8, <1>9, <1>11, <1>12, <1>13, <1>14 DEF Stocked
<1> QED
  BY <1>1, <1>15

-----------------------------------------------------------------------------
(* What the metadata step makes of them: M is the metadata, X holds the    *)
(* interpreter's name and the note, rel is the RELRO interval.             *)
Protected(l, S) == {s \in S : \/ s.what = "got" /\ Isolated(l)
                              \/ s.what = "pltgot" /\ l.bindNow}
Coal(l, S) == l.pie /\ \E q \in Protected(l, S) : End(q) = EndOf(S)
Lowest(P, p) == p \in P /\ \A s \in P : p.address <= s.address
Between(S, x, M) == EndOf(S) <= x.address /\ End(x) <= M.address
IsMetadata(S, M) ==
    /\ M \in PieceType /\ M.what = "metadata" /\ M.n = 0 /\ M.perm = "RW" /\ ~M.nobits
    /\ M.size # 0 /\ M.address % Page = 0 /\ EndOf(S) <= M.address
IsExtra(l, S, M, x) ==
    /\ x \in PieceType /\ x.what \in {"interp", "note"} /\ x.perm = "R" /\ x.size # 0
    /\ End(M) <= x.address \/ (l.pie /\ ~Coal(l, S) /\ Between(S, x, M))
Interval(rel, p, q) == rel = [address |-> p.address, size |-> End(q) - p.address]
RelroIs(l, S, M, rel) ==
    /\ Protected(l, S) = {} /\ (l.bindNow \/ l.pie) => Interval(rel, M, M)
    /\ Protected(l, S) = {} /\ ~l.bindNow /\ ~l.pie => rel = NoRange
    /\ Protected(l, S) # {} /\ (l.bindNow \/ Coal(l, S))
         => \E p : Lowest(Protected(l, S), p) /\ Interval(rel, p, M)
    /\ Protected(l, S) # {} /\ ~l.bindNow /\ ~Coal(l, S)
         => \E p \in Protected(l, S) : Interval(rel, p, p)
Outcome(l, S, M, X, rel) ==
    /\ IsMetadata(S, M) /\ \A x \in X : IsExtra(l, S, M, x)
    /\ Unique(X) /\ \A x, y \in X : x # y => Apart(x, y)
    /\ IF l.pie /\ ~Coal(l, S) THEN \E x \in X : Between(S, x, M)
       ELSE M.address = AlignUp(EndOf(S), Page)
    /\ l.bindNow \/ (l.pie /\ (Protected(l, S) = {} \/ Coal(l, S))) => M.size % Page = 0
    /\ RelroIs(l, S, M, rel)

Whole(S, M, X) == S \cup {M} \cup X

LEMMA PieceNumbers ==
    ASSUME NEW s \in PieceType
    PROVE  s.address \in Nat /\ s.size \in Nat /\ End(s) \in Nat /\ End(s) = s.address + s.size
BY DEF PieceType, End

LEMMA WholeIs ==
    ASSUME NEW l, NEW S, NEW copied, Stocked(l, S, copied), NEW M, NEW X, NEW rel,
           Outcome(l, S, M, X, rel), NEW T, T = Whole(S, M, X)
    PROVE  T \subseteq PieceType /\ Unique(T) /\ \A s, t \in T : s # t => Apart(s, t)
<1>1. S \in SUBSET PieceType /\ M \in PieceType /\ X \in SUBSET PieceType
  BY DEF Stocked, Outcome, IsMetadata, IsExtra
<1>2. T \subseteq PieceType
  BY <1>1 DEF Whole
<1>3. \A s \in S : s.what \notin {"metadata", "interp", "note"}
  BY DEF Stocked, Five
<1>4. M.what = "metadata" /\ \A x \in X : x.what \in {"interp", "note"}
  BY DEF Outcome, IsMetadata, IsExtra
<1>5. Unique(T)
  BY <1>3, <1>4 DEF Whole, Unique, Stocked, Outcome
<1>6. IsFiniteSet(S)
  BY DEF Stocked
<1>7. EndOf(S) \in Nat /\ \A s \in S : End(s) <= EndOf(S)
  BY <1>1, <1>6, EndOfIs
<1>8. ASSUME NEW s \in S PROVE Apart(s, M) /\ \A x \in X : Apart(s, x)
  <2>1. EndOf(S) <= M.address
    BY DEF Outcome, IsMetadata
  <2>2. M.address \in Nat /\ End(M) \in Nat /\ End(M) = M.address + M.size /\ M.size \in Nat
        /\ End(s) \in Nat
    BY <1>1, PieceNumbers
  <2>3. End(s) <= M.address /\ M.address <= End(M)
    BY <1>7, <2>1, <2>2
  <2>4. ASSUME NEW x \in X PROVE End(s) <= x.address
    <3>1. End(M) <= x.address \/ EndOf(S) <= x.address
      BY DEF Outcome, IsExtra, Between
    <3>2. x.address \in Nat
      BY <1>1, PieceNumbers
    <3> QED
      BY <1>7, <2>2, <2>3, <3>1, <3>2
  <2> QED
    BY <2>3, <2>4 DEF Apart
<1>9. ASSUME NEW x \in X PROVE Apart(M, x)
  BY DEF Outcome, IsExtra, Between, Apart
<1>10. ASSUME NEW s \in T, NEW t \in T, s # t PROVE Apart(s, t)
  <2>1. \A a, b : Apart(a, b) <=> Apart(b, a)
    BY DEF Apart
  <2>2. (s \in S \/ s = M \/ s \in X) /\ (t \in S \/ t = M \/ t \in X)
    BY DEF Whole
  <2>3. \A a, b \in S : a # b => Apart(a, b)
    BY DEF Stocked
  <2>4. \A a, b \in X : a # b => Apart(a, b)
    BY DEF Outcome
  <2> QED
    BY <1>8, <1>9, <1>10, <2>1, <2>2, <2>3, <2>4
<1> QED
  BY <1>2, <1>5, <1>10

(* The tables that are protected, and whether the metadata goes on from    *)
(* them.                                                                   *)
LEMMA ProtectedIs ==
    ASSUME NEW l \in Link, NEW S, NEW copied, Stocked(l, S, copied), NEW p \in Protected(l, S)
    PROVE  /\ p \in S /\ p \in PieceType /\ p.what \in Tables /\ p.perm = "RW" /\ ~p.nobits /\ p.size # 0
           /\ p.address % Page = 0 /\ p.size % Page = 0 /\ End(p) % Page = 0
           /\ p.what = "pltgot" => l.bindNow
<1> USE ImageAssumption
<1>1. p \in S /\ p \in PieceType /\ p.what \in Tables
  BY DEF Protected, Tables, Stocked
<1>2. Shape(l, p)
  BY <1>1 DEF Stocked, Tables
<1>3. l.bindNow => Isolated(l)
  BY DEF Isolated
<1>4. /\ p.perm = "RW" /\ ~p.nobits /\ p.size # 0 /\ p.align = Page /\ p.size % Page = 0
  BY <1>1, <1>2 DEF Shape, TablePiece, Protected, Tables
<1>5. p.address % Page = 0
  BY <1>1, <1>4 DEF Stocked
<1>6. p.address \in Nat /\ p.size \in Nat /\ End(p) = p.address + p.size
  BY <1>1, PieceNumbers
<1>7. End(p) % Page = 0
  BY <1>4, <1>5, <1>6, SumOfMultiples
<1>8. p.what = "pltgot" => l.bindNow
  BY DEF Protected
<1> QED
  BY <1>1, <1>4, <1>5, <1>7, <1>8

LEMMA NoneProtected ==
    ASSUME NEW l \in Link, NEW S, NEW copied, Stocked(l, S, copied)
    PROVE  /\ Protected(l, S) = {} <=> ~(Isolated(l) /\ UsesGot(l)) /\ ~(l.bindNow /\ l.need.plt # 0)
           /\ ~l.bindNow => (Protected(l, S) # {} <=> GotRelro(l))
<1>1. \A s \in Protected(l, S) : s \in S /\ Shape(l, s)
  BY DEF Protected, Stocked
<1>2. \A s \in Protected(l, S) : (Isolated(l) /\ UsesGot(l)) \/ (l.bindNow /\ l.need.plt # 0)
  BY <1>1 DEF Protected, Shape
<1>3. ASSUME Isolated(l), UsesGot(l) PROVE Protected(l, S) # {}
  <2>1. PICK s \in S : s.what = "got"
    BY <1>3 DEF Stocked, Present
  <2> QED
    BY <1>3, <2>1 DEF Protected
<1>4. ASSUME l.bindNow, l.need.plt # 0 PROVE Protected(l, S) # {}
  <2>1. PICK s \in S : s.what = "pltgot"
    BY <1>4 DEF Stocked, Present
  <2> QED
    BY <1>4, <2>1 DEF Protected
<1>5. Protected(l, S) = {} <=> ~(Isolated(l) /\ UsesGot(l)) /\ ~(l.bindNow /\ l.need.plt # 0)
  BY <1>2, <1>3, <1>4
<1>6. ~l.bindNow => (Isolated(l) /\ UsesGot(l) <=> GotRelro(l))
  BY DEF Isolated, GotRelro
<1> QED
  BY <1>5, <1>6

LEMMA SealsOf ==
    ASSUME NEW l \in Link, NEW S, NEW copied, Stocked(l, S, copied), NEW M, NEW X, NEW rel,
           Outcome(l, S, M, X, rel), NEW p, Lowest(Protected(l, S), p),
           Coal(l, S) \/ (l.bindNow /\ ~copied)
    PROVE  /\ l.bindNow => ~copied
           /\ \A s \in S : s \in Protected(l, S) \/ End(s) <= p.address \/ s.size = 0
           /\ ~(l.pie /\ ~Coal(l, S)) /\ \A x \in X : End(M) <= x.address
           /\ M.address % Page = 0 /\ End(M) % Page = 0
           /\ \A s \in S : End(s) <= M.address
<1> USE ImageAssumption
<1>1. p \in Protected(l, S) /\ \A s \in Protected(l, S) : p.address <= s.address
  BY DEF Lowest
<1>2. /\ p \in S /\ p \in PieceType /\ p.what \in Tables /\ p.size # 0
      /\ p.what = "pltgot" => l.bindNow
  BY <1>1, ProtectedIs
<1>3. S \in SUBSET PieceType /\ IsFiniteSet(S) /\ \A s, t \in S : s # t => Apart(s, t)
  BY DEF Stocked
<1>4. PICK e \in Nat : e = EndOf(S) /\ (\A s \in S : End(s) <= e) /\ (e # 0 => \E s \in S : End(s) = e)
  BY <1>3, EndOfIs
<1>5. \A s \in S : /\ s.address \in Nat /\ s.size \in Nat /\ End(s) \in Nat
                   /\ End(s) = s.address + s.size
  BY <1>3, PieceNumbers
<1>6. l.bindNow => ~copied
  <2> SUFFICES ASSUME l.bindNow, copied PROVE FALSE
    OBVIOUS
  <2>1. PICK q \in Protected(l, S) : End(q) = e
    BY <1>4 DEF Coal
  <2>2. q \in S /\ q.what \in Tables
    BY <2>1, ProtectedIs
  <2>3. PICK c \in S : c.what = "copy" /\ \A s \in S : s.what # "copy" => End(s) <= c.address
    BY DEF Stocked
  <2>4. c.size # 0
    BY <2>3 DEF Stocked, Five, CopyPiece
  <2>5. e <= c.address
    BY <2>1, <2>2, <2>3 DEF Tables
  <2> QED
    BY <1>4, <1>5, <2>3, <2>4, <2>5
<1>7. ASSUME l.bindNow, NEW s \in S, s \notin Protected(l, S) PROVE End(s) <= p.address
  <2>1. s.what \in Five
    BY <1>6, <1>7 DEF Stocked
  <2>2. s.what \notin Tables
    BY <1>7 DEF Protected, Isolated, Tables
  <2> QED
    BY <1>2, <1>7, <2>1, <2>2 DEF Stocked
<1>8. ASSUME ~l.bindNow, NEW s \in S, s \notin Protected(l, S), s.size # 0 PROVE End(s) <= p.address
  <2>1. PICK q \in Protected(l, S) : End(q) = e
    BY <1>4, <1>8 DEF Coal
  <2>2. q = p
    <3>1. p.what = "got" /\ q.what = "got" /\ p \in S /\ q \in S
      BY <1>1, <1>2, <1>8, <2>1 DEF Protected
    <3>2. p.n = 0 /\ q.n = 0
      BY <3>1 DEF Stocked, Shape
    <3> QED
      BY <3>1, <3>2 DEF Stocked, Unique
  <2>3. Apart(s, p)
    BY <1>1, <1>2, <1>3, <1>8
  <2>4. End(s) <= e
    BY <1>4
  <2> QED
    BY <1>4, <1>5, <1>8, <2>1, <2>2, <2>3, <2>4 DEF Apart
<1>9. ~(l.pie /\ ~Coal(l, S))
  <2> SUFFICES ASSUME l.pie, ~Coal(l, S) PROVE FALSE
    OBVIOUS
  <2>1. e # 0
    BY <1>2, <1>4, <1>5
  <2>2. PICK s \in S : End(s) = e
    BY <1>4, <2>1
  <2>3. s \notin Protected(l, S)
    BY <1>4, <2>2 DEF Coal
  <2>4. End(s) <= p.address
    BY <1>7, <2>3
  <2>5. End(p) <= e
    BY <1>2, <1>4
  <2> QED
    BY <1>2, <1>4, <1>5, <2>2, <2>4, <2>5
<1>10. \A x \in X : End(M) <= x.address
  BY <1>9 DEF Outcome, IsExtra
<1>11. /\ M \in PieceType /\ M.address % Page = 0 /\ e <= M.address
  BY <1>4 DEF Outcome, IsMetadata
<1>12. M.address \in Nat /\ M.size \in Nat /\ End(M) = M.address + M.size
  BY <1>11, PieceNumbers
<1>13. M.size % Page = 0
  BY DEF Outcome, Coal
<1>14. End(M) % Page = 0
  BY <1>11, <1>12, <1>13, SumOfMultiples
<1>15. ASSUME NEW s \in S PROVE End(s) <= M.address
  BY <1>4, <1>5, <1>11, <1>12
<1>16. \A s \in S : s \in Protected(l, S) \/ End(s) <= p.address \/ s.size = 0
  BY <1>7, <1>8
<1> QED
  BY <1>6, <1>9, <1>10, <1>11, <1>14, <1>15, <1>16

-----------------------------------------------------------------------------
(* The segments, of a set of sections.                                     *)
SizedIn(T) == {s \in T : s.size > 0}
FollowsIn(T, t, s) ==
    /\ s.address < t.address
    /\ \A u \in SizedIn(T) : u.address <= s.address \/ u.address >= t.address
StartsIn(T) == {t \in SizedIn(T) : \A s \in SizedIn(T) :
                  FollowsIn(T, t, s) => s.perm # t.perm \/ (s.nobits /\ ~t.nobits)}
SegmentIn(T, t) ==
    {u \in SizedIn(T) : /\ u.address >= t.address
                        /\ \A v \in StartsIn(T) : v.address <= t.address \/ v.address > u.address}
OneSegment(T, range) ==
    \E t \in StartsIn(T) :
      /\ range.address >= t.address
      /\ \E u \in SegmentIn(T, t) : ~u.nobits /\ range.address + range.size <= End(u)

LEMMA HeldByOne ==
    ASSUME NEW T \in SUBSET PieceType, NEW p \in T, NEW q \in T, p.size # 0, q.size # 0, ~q.nobits,
           p.address <= q.address,
           \A v \in StartsIn(T) : ~(p.address < v.address /\ v.address <= q.address),
           NEW rel, Interval(rel, p, q)
    PROVE  OneSegment(T, rel)
<1>1. \A s \in T : s.address \in Nat /\ s.size \in Nat /\ End(s) \in Nat /\ End(s) = s.address + s.size
  BY PieceNumbers
<1>2. p \in SizedIn(T) /\ q \in SizedIn(T)
  BY <1>1 DEF SizedIn
<1> DEFINE A == {s.address : s \in SizedIn(T)}
           B == {b \in A : b <= p.address /\ \E t \in StartsIn(T) : t.address = b}
<1>3. A \in SUBSET Nat /\ p.address \in A
  BY <1>1, <1>2 DEF SizedIn
<1>4. PICK a \in A : \A x \in A : a <= x
  BY <1>3, LeastOfSet
<1>5. PICK f \in SizedIn(T) : f.address = a
  OBVIOUS
<1>6. f \in StartsIn(T)
  <2>1. ASSUME NEW s \in SizedIn(T) PROVE ~FollowsIn(T, f, s)
    <3>1. s.address \in A /\ f.address <= s.address /\ s.address \in Nat /\ f.address \in Nat
      BY <1>3, <1>4, <1>5
    <3> QED
      BY <3>1 DEF FollowsIn
  <2> QED
    BY <2>1 DEF StartsIn
<1>7. a \in B
  BY <1>3, <1>4, <1>5, <1>6
<1>8. B \in SUBSET (0 .. p.address)
  BY <1>3
<1>9. p.address \in Nat
  BY <1>1
<1>10. PICK b \in B : \A x \in B : b >= x
  BY <1>7, <1>8, <1>9, GreatestOfSet
<1>11. PICK t \in StartsIn(T) : t.address = b /\ b <= p.address
  OBVIOUS
<1>12. t \in SizedIn(T) /\ t.address \in Nat
  BY <1>1 DEF StartsIn, SizedIn
<1>13. q \in SegmentIn(T, t)
  <2>1. q.address >= t.address
    BY <1>1, <1>11, <1>12
  <2>2. ASSUME NEW v \in StartsIn(T) PROVE v.address <= t.address \/ v.address > q.address
    <3>1. v \in SizedIn(T) /\ v.address \in Nat /\ v.address \in A
      BY <1>1 DEF StartsIn, SizedIn
    <3>2. CASE v.address <= p.address
      <4>1. v.address \in B
        BY <3>1, <3>2
      <4>2. v.address <= b
        BY <1>8, <1>10, <3>1, <4>1, <1>11, <1>12
      <4> QED
        BY <1>11, <4>2
    <3>3. CASE ~(v.address <= p.address)
      BY <1>1, <3>1, <3>3
    <3> QED
      BY <3>2, <3>3
  <2> QED
    BY <1>2, <2>1, <2>2 DEF SegmentIn
<1>14. rel.address = p.address /\ rel.address + rel.size = End(q)
  <2>1. rel.address = p.address /\ rel.size = End(q) - p.address
    BY DEF Interval
  <2> QED
    BY <1>1, <2>1
<1>15. rel.address >= t.address /\ rel.address + rel.size <= End(q)
  BY <1>1, <1>11, <1>12, <1>14
<1> QED
  BY <1>13, <1>15 DEF OneSegment

(* No segment starts between the protected tables and the metadata that    *)
(* goes on from them.                                                      *)
LEMMA NoStartBetween ==
    ASSUME NEW l \in Link, NEW S, NEW copied, Stocked(l, S, copied), NEW M, NEW X, NEW rel,
           Outcome(l, S, M, X, rel), NEW p, Lowest(Protected(l, S), p),
           Coal(l, S) \/ (l.bindNow /\ ~copied), NEW T, T = Whole(S, M, X)
    PROVE  \A v \in StartsIn(T) : ~(p.address < v.address /\ v.address <= M.address)
<1> SUFFICES ASSUME NEW v \in StartsIn(T), p.address < v.address, v.address <= M.address
             PROVE  FALSE
  OBVIOUS
<1> DEFINE P == Protected(l, S)
<1>1. T \subseteq PieceType
  BY WholeIs
<1>2. \A s \in T : s.address \in Nat /\ s.size \in Nat /\ End(s) \in Nat /\ End(s) = s.address + s.size
  BY <1>1, PieceNumbers
<1>3. /\ \A s \in S : s \in P \/ End(s) <= p.address \/ s.size = 0
      /\ \A x \in X : End(M) <= x.address
  BY SealsOf
<1>4. \A s \in P : s \in S /\ s.perm = "RW" /\ ~s.nobits /\ s.size # 0
  BY ProtectedIs
<1>5. p \in P /\ \A s \in P : p.address <= s.address
  BY DEF Lowest
<1>6. v \in T /\ v.size > 0
  BY DEF StartsIn, SizedIn
<1>7. M \in T /\ S \subseteq T /\ X \subseteq T /\ \A u \in T : u \in S \/ u = M \/ u \in X
  BY DEF Whole
<1>8. M.size # 0 /\ M.perm = "RW"
  BY DEF Outcome, IsMetadata
<1>9. v.perm = "RW"
  <2>1. CASE v \in S
    <3>1. v \in P
      BY <1>2, <1>3, <1>4, <1>5, <1>6, <1>7, <2>1
    <3> QED
      BY <1>4, <3>1
  <2>2. CASE v \in X
    BY <1>2, <1>3, <1>7, <1>8, <2>2
  <2> QED
    BY <1>6, <1>7, <1>8, <2>1, <2>2
<1> DEFINE B == {s.address : s \in {u \in P : u.address < v.address}}
<1>10. p.address \in B
  BY <1>5
<1>11. B \in SUBSET (0 .. v.address) /\ v.address \in Nat
  BY <1>2, <1>4, <1>6, <1>7
<1>12. PICK b \in B : \A x \in B : b >= x
  BY <1>10, <1>11, GreatestOfSet
<1>13. PICK s \in P : s.address = b /\ s.address < v.address
  OBVIOUS
<1>14. s \in S /\ s \in T /\ s.perm = "RW" /\ ~s.nobits /\ s.size # 0 /\ s.address \in Nat
  BY <1>2, <1>4, <1>7, <1>13
<1>15. ASSUME NEW u \in SizedIn(T) PROVE u.address <= s.address \/ u.address >= v.address
  <2>1. u \in T /\ u.size > 0 /\ u.address \in Nat
    BY <1>2 DEF SizedIn
  <2>2. CASE u \in P
    <3>1. u.address < v.address => u.address \in B
      BY <2>2
    <3>2. u.address \in B => u.address <= s.address
      BY <1>11, <1>12, <1>13, <1>14
    <3> QED
      BY <1>11, <2>1, <3>1, <3>2
  <2>3. CASE u \in S /\ u \notin P
    <3>1. End(u) <= p.address /\ p.address <= s.address /\ p.address \in Nat
      BY <1>2, <1>3, <1>4, <1>5, <1>7, <1>13, <2>1, <2>3
    <3> QED
      BY <1>2, <1>14, <2>1, <3>1
  <2>4. CASE u = M
    BY <1>2, <1>7, <2>4
  <2>5. CASE u \in X
    BY <1>2, <1>3, <1>6, <1>7, <2>5
  <2> QED
    BY <1>7, <2>1, <2>2, <2>3, <2>4, <2>5
<1>16. FollowsIn(T, v, s)
  BY <1>13, <1>15 DEF FollowsIn
<1>17. s \in SizedIn(T)
  BY <1>2, <1>14 DEF SizedIn
<1> QED
  BY <1>9, <1>14, <1>16, <1>17 DEF StartsIn

Parted(l, S, copied) == l.bindNow /\ copied /\ Protected(l, S) # {}

(* The interval lies in one segment, and so it is described by one header. *)
LEMMA RelroHeld ==
    ASSUME NEW l \in Link, NEW S, NEW copied \in BOOLEAN, Stocked(l, S, copied), NEW M, NEW X, NEW rel,
           Outcome(l, S, M, X, rel), ~Parted(l, S, copied), NEW T, T = Whole(S, M, X)
    PROVE  rel = NoRange \/ OneSegment(T, rel)
<1>1. T \in SUBSET PieceType
  BY WholeIs
<1>2. M \in T /\ S \subseteq T
  BY DEF Whole
<1>3. M.size # 0 /\ ~M.nobits
  BY DEF Outcome, IsMetadata
<1>4. \A s \in T : s.address \in Nat /\ s.size \in Nat /\ End(s) \in Nat /\ End(s) = s.address + s.size
  BY <1>1, PieceNumbers
<1>5. \A s \in Protected(l, S) : s \in T /\ ~s.nobits /\ s.size # 0
  BY <1>2, ProtectedIs
<1>6. ASSUME NEW p \in T, p.size # 0, ~p.nobits, Interval(rel, p, p) PROVE OneSegment(T, rel)
  <2>1. \A v \in StartsIn(T) : ~(p.address < v.address /\ v.address <= p.address)
    BY <1>4 DEF StartsIn, SizedIn
  <2>2. p.address <= p.address
    BY <1>4
  <2> QED
    BY <1>1, <1>6, <2>1, <2>2, HeldByOne
<1>7. RelroIs(l, S, M, rel)
  BY DEF Outcome
<1>8. CASE Protected(l, S) = {} /\ (l.bindNow \/ l.pie)
  BY <1>2, <1>3, <1>6, <1>7, <1>8 DEF RelroIs
<1>9. CASE Protected(l, S) = {} /\ ~l.bindNow /\ ~l.pie
  BY <1>7, <1>9 DEF RelroIs
<1>10. CASE Protected(l, S) # {} /\ (l.bindNow \/ Coal(l, S))
  <2>1. PICK p : Lowest(Protected(l, S), p) /\ Interval(rel, p, M)
    BY <1>7, <1>10 DEF RelroIs
  <2>2. Coal(l, S) \/ (l.bindNow /\ ~copied)
    BY <1>10 DEF Parted
  <2>3. \A v \in StartsIn(T) : ~(p.address < v.address /\ v.address <= M.address)
    BY <2>1, <2>2, NoStartBetween
  <2>4. p \in Protected(l, S) /\ p \in S /\ p \in T /\ p.size # 0
    BY <1>2, <1>5, <2>1, ProtectedIs DEF Lowest
  <2>5. \A s \in S : End(s) <= M.address
    BY <2>1, <2>2, SealsOf
  <2>6. p.address <= M.address
    BY <1>2, <1>4, <2>4, <2>5
  <2> QED
    BY <1>1, <1>2, <1>3, <2>1, <2>3, <2>4, <2>6, HeldByOne
<1>11. CASE Protected(l, S) # {} /\ ~l.bindNow /\ ~Coal(l, S)
  BY <1>5, <1>6, <1>7, <1>11 DEF RelroIs
<1> QED
  BY <1>8, <1>9, <1>10, <1>11

(* Bound now, with COPY storage, it lies in no segment.                    *)
LEMMA RelroTorn ==
    ASSUME NEW l \in Link, NEW S, NEW copied, Stocked(l, S, copied), NEW M, NEW X, NEW rel,
           Outcome(l, S, M, X, rel), Parted(l, S, copied), NEW T, T = Whole(S, M, X)
    PROVE  rel # NoRange /\ ~OneSegment(T, rel)
<1> DEFINE P == Protected(l, S)
<1>1. T \in SUBSET PieceType
  BY WholeIs
<1>2. /\ M \in T /\ S \subseteq T /\ X \subseteq T /\ \A u \in T : u \in S \/ u = M \/ u \in X
  BY DEF Whole
<1>3. /\ M.size # 0 /\ ~M.nobits /\ M.perm = "RW" /\ EndOf(S) <= M.address
  BY DEF Outcome, IsMetadata
<1>4. \A s \in T : s.address \in Nat /\ s.size \in Nat /\ End(s) \in Nat /\ End(s) = s.address + s.size
  BY <1>1, PieceNumbers
<1>5. PICK e \in Nat : e = EndOf(S) /\ \A s \in S : End(s) <= e
  <2>1. S \in SUBSET PieceType /\ IsFiniteSet(S)
    BY DEF Stocked
  <2> QED
    BY <2>1, EndOfIs
<1>6. PICK c \in S : c.what = "copy" /\ \A s \in S : s.what # "copy" => End(s) <= c.address
  BY DEF Stocked, Parted
<1>7. c.nobits /\ c.size # 0
  BY <1>6 DEF Stocked, Five, CopyPiece
<1>8. ASSUME NEW s \in S PROVE s = c \/ End(s) <= c.address
  <2>1. CASE s.what = "copy"
    <3>1. s.n = 0 /\ c.n = 0
      BY <1>6, <2>1 DEF Stocked, Five, CopyPiece
    <3> QED
      BY <1>6, <2>1, <3>1 DEF Stocked, Unique
  <2> QED
    BY <1>6, <2>1
<1>9. \A p \in P : p \in S /\ p.what \in Tables /\ p.size # 0 /\ End(p) <= c.address
  <2>1. \A p \in P : p \in S /\ p.what \in Tables /\ p.size # 0
    BY ProtectedIs
  <2> QED
    BY <1>6, <2>1 DEF Tables
<1>10. c.address < e /\ End(c) <= e
  BY <1>2, <1>4, <1>5, <1>6, <1>7
<1>11. ~Coal(l, S)
  <2>1. ASSUME NEW q \in P, End(q) = e PROVE FALSE
    BY <1>2, <1>4, <1>6, <1>9, <1>10, <2>1
  <2> QED
    BY <1>5, <2>1 DEF Coal
<1>12. PICK p : Lowest(P, p) /\ Interval(rel, p, M)
  BY DEF Outcome, RelroIs, Parted
<1>13. p \in S /\ p \in T /\ p.address < c.address
  BY <1>2, <1>4, <1>6, <1>9, <1>12 DEF Lowest
<1>14. rel.address = p.address /\ rel.size = End(M) - p.address
  BY <1>12 DEF Interval
<1>15. /\ p.address < M.address /\ c.address < M.address /\ M.address < End(M)
       /\ rel.address + rel.size = End(M) /\ rel.size # 0
  BY <1>2, <1>3, <1>4, <1>5, <1>6, <1>10, <1>13, <1>14
<1>16. rel # NoRange
  BY <1>15 DEF NoRange
<1>17. M \in SizedIn(T) /\ c \in SizedIn(T)
  BY <1>2, <1>3, <1>4, <1>6, <1>7 DEF SizedIn
<1>18. \A x \in X : /\ x.perm = "R" /\ x.size # 0
                   /\ (End(M) <= x.address \/ (EndOf(S) <= x.address /\ End(x) <= M.address))
  BY DEF Outcome, IsExtra, Between
<1>19. M \in StartsIn(T)
  <2> SUFFICES ASSUME NEW s \in SizedIn(T), FollowsIn(T, M, s)
               PROVE  s.perm # M.perm \/ (s.nobits /\ ~M.nobits)
    BY <1>17 DEF StartsIn
  <2>1. s \in T /\ s.size > 0 /\ s.address < M.address
    BY DEF SizedIn, FollowsIn
  <2>2. c.address <= s.address
    BY <1>2, <1>4, <1>6, <1>15, <1>17 DEF FollowsIn
  <2>3. CASE s \in X
    <3>1. s.perm = "R" /\ M.perm = "RW"
      <4>1. \A x \in X : x.perm = "R"
        BY DEF Outcome, IsExtra
      <4> QED
        BY <1>3, <2>3, <4>1
    <3> QED
      BY <3>1
  <2>4. CASE s \in S
    <3>1. s = c
      BY <1>2, <1>4, <1>6, <1>8, <2>1, <2>2, <2>4
    <3> QED
      BY <1>3, <1>7, <3>1
  <2>5. CASE s = M
    BY <1>2, <1>4, <2>1, <2>5
  <2> QED
    BY <1>2, <2>1, <2>3, <2>4, <2>5
<1>20. ~OneSegment(T, rel)
  <2> SUFFICES ASSUME NEW t \in StartsIn(T), rel.address >= t.address, NEW u \in SegmentIn(T, t),
                      ~u.nobits, rel.address + rel.size <= End(u)
               PROVE  FALSE
    BY DEF OneSegment
  <2>1. u \in T /\ t \in T /\ (M.address <= t.address \/ M.address > u.address)
    BY <1>19 DEF SegmentIn, StartsIn, SizedIn
  <2>2. M.address > u.address
    BY <1>2, <1>4, <1>13, <1>14, <1>15, <2>1
  <2>3. End(M) <= End(u)
    BY <1>15
  <2>4. CASE u \in S
    BY <1>2, <1>3, <1>4, <1>5, <1>15, <2>3, <2>4
  <2>5. CASE u \in X
    BY <1>2, <1>4, <1>15, <1>18, <2>2, <2>3, <2>5
  <2>6. CASE u = M
    BY <1>2, <1>4, <2>2, <2>6
  <2> QED
    BY <1>2, <2>1, <2>4, <2>5, <2>6
<1> QED
  BY <1>16, <1>20

(* The interval covers what only start-up writes, and nothing else that is *)
(* writable.                                                               *)
SealedIn(rel, a) == /\ a >= (rel.address \div Page) * Page
                    /\ a < ((rel.address + rel.size) \div Page) * Page
SealsMetadata(l, S) == l.bindNow \/ (l.pie /\ (Protected(l, S) = {} \/ Coal(l, S)))
Startup(l, S, w) == \/ w = "got" /\ Isolated(l)
                    \/ w = "pltgot" /\ l.bindNow
                    \/ w = "metadata" /\ SealsMetadata(l, S)

LEMMA SealedRange ==
    ASSUME NEW p \in PieceType, NEW q \in PieceType, NEW rel, Interval(rel, p, q),
           p.address % Page = 0, End(q) % Page = 0, NEW a
    PROVE  SealedIn(rel, a) <=> p.address <= a /\ a < End(q)
<1> USE ImageAssumption
<1>1. p.address \in Nat /\ End(q) \in Nat
  BY PieceNumbers
<1>2. PICK b \in Nat, e \in Nat : b = p.address /\ e = End(q)
  BY <1>1
<1>3. rel.address = b /\ rel.address + rel.size = e
  BY <1>2 DEF Interval
<1>4. (b \div Page) * Page = b
  BY <1>2
<1>5. (e \div Page) * Page = e
  BY <1>2
<1> QED
  BY <1>2, <1>3, <1>4, <1>5 DEF SealedIn

LEMMA RelroSealed ==
    ASSUME NEW l \in Link, NEW S, NEW copied \in BOOLEAN, Stocked(l, S, copied), NEW M, NEW X, NEW rel,
           Outcome(l, S, M, X, rel), ~Parted(l, S, copied),
           NEW s \in Whole(S, M, X), s.perm = "RW", NEW a \in s.address .. End(s) - 1
    PROVE  SealedIn(rel, a) <=> Startup(l, S, s.what)
<1> USE ImageAssumption
<1> DEFINE P == Protected(l, S)
<1>1. PICK T : T = Whole(S, M, X)
  OBVIOUS
<1>2. T \in SUBSET PieceType /\ Unique(T) /\ \A u, v \in T : u # v => Apart(u, v)
  BY <1>1, WholeIs
<1>3. s \in T /\ M \in T /\ S \subseteq T /\ X \subseteq T /\ (s \in S \/ s = M \/ s \in X)
  BY <1>1 DEF Whole
<1>4. s = M \/ s \in S
  <2>1. \A x \in X : x.perm = "R"
    BY DEF Outcome, IsExtra
  <2> QED
    BY <1>3, <2>1
<1>5. \A u \in T : u.address \in Nat /\ u.size \in Nat /\ End(u) \in Nat /\ End(u) = u.address + u.size
  BY <1>2, PieceNumbers
<1>6. a \in Nat /\ s.address <= a /\ a < End(s) /\ s.size # 0
  BY <1>3, <1>5
<1>7. M.what = "metadata" /\ M \in PieceType /\ M.address % Page = 0
  BY DEF Outcome, IsMetadata
<1>8. SealsMetadata(l, S) => M.size % Page = 0 /\ End(M) % Page = 0
  <2>1. ASSUME SealsMetadata(l, S) PROVE M.size % Page = 0
    BY <2>1 DEF Outcome, SealsMetadata
  <2>2. ASSUME SealsMetadata(l, S) PROVE End(M) % Page = 0
    BY <1>3, <1>5, <1>7, <2>1, <2>2, SumOfMultiples
  <2> QED
    BY <2>1, <2>2
<1>9. s \in S => s.what # "metadata"
  BY DEF Stocked, Five
<1>10. s \in S => (Startup(l, S, s.what) <=> s \in P)
  BY <1>9 DEF Startup, Protected
<1>11. s = M => (Startup(l, S, s.what) <=> SealsMetadata(l, S))
  BY <1>7 DEF Startup
<1>12. \A p \in P : /\ p \in S /\ p \in T /\ p \in PieceType /\ p.size # 0
                    /\ p.address % Page = 0 /\ End(p) % Page = 0
  BY <1>3, ProtectedIs
<1>13. RelroIs(l, S, M, rel)
  BY DEF Outcome
<1>14. M \notin S
  BY <1>7 DEF Stocked, Five
<1>15. CASE P = {} /\ (l.bindNow \/ l.pie)
  <2>1. Interval(rel, M, M) /\ SealsMetadata(l, S)
    BY <1>13, <1>15 DEF RelroIs, SealsMetadata
  <2>2. SealedIn(rel, a) <=> M.address <= a /\ a < End(M)
    BY <1>7, <1>8, <2>1, SealedRange
  <2>3. CASE s = M
    BY <1>6, <1>11, <2>1, <2>2, <2>3
  <2>4. CASE s \in S
    <3>1. Apart(s, M) /\ s # M
      BY <1>2, <1>3, <1>14, <2>4
    <3>2. ~SealedIn(rel, a)
      BY <1>3, <1>5, <1>6, <2>2, <3>1 DEF Apart
    <3> QED
      BY <1>10, <1>15, <2>4, <3>2
  <2> QED
    BY <1>4, <2>3, <2>4
<1>16. CASE P = {} /\ ~l.bindNow /\ ~l.pie
  <2>1. rel = NoRange
    BY <1>13, <1>16 DEF RelroIs
  <2>2. rel.address = 0 /\ rel.size = 0
    BY <2>1 DEF NoRange
  <2>3. 0 \div Page = 0
    OBVIOUS
  <2>4. ~SealedIn(rel, a)
    BY <1>6, <2>2, <2>3 DEF SealedIn
  <2>5. ~SealsMetadata(l, S)
    BY <1>16 DEF SealsMetadata
  <2> QED
    BY <1>4, <1>10, <1>11, <1>16, <2>4, <2>5
<1>17. CASE P # {} /\ (l.bindNow \/ Coal(l, S))
  <2>1. PICK p : Lowest(P, p) /\ Interval(rel, p, M)
    BY <1>13, <1>17 DEF RelroIs
  <2>2. Coal(l, S) \/ (l.bindNow /\ ~copied)
    BY <1>17 DEF Parted
  <2>3. /\ \A u \in S : u \in P \/ End(u) <= p.address \/ u.size = 0
        /\ End(M) % Page = 0 /\ \A u \in S : End(u) <= M.address
    BY <2>1, <2>2, SealsOf
  <2>4. p \in P /\ \A u \in P : p.address <= u.address
    BY <2>1 DEF Lowest
  <2>5. SealedIn(rel, a) <=> p.address <= a /\ a < End(M)
    BY <1>7, <1>12, <2>1, <2>3, <2>4, SealedRange
  <2>6. SealsMetadata(l, S)
    BY <1>17 DEF SealsMetadata, Coal
  <2>7. CASE s = M
    <3>1. End(p) <= M.address /\ p.address <= M.address
      BY <1>3, <1>5, <1>12, <2>3, <2>4
    <3> QED
      BY <1>3, <1>5, <1>6, <1>11, <1>12, <2>4, <2>5, <2>6, <2>7, <3>1
  <2>8. CASE s \in S /\ s \in P
    BY <1>3, <1>5, <1>6, <1>10, <1>12, <2>3, <2>4, <2>5, <2>8
  <2>9. CASE s \in S /\ s \notin P
    <3>1. End(s) <= p.address
      BY <1>6, <2>3, <2>9
    <3> QED
      BY <1>3, <1>5, <1>6, <1>10, <1>12, <2>4, <2>5, <2>9, <3>1
  <2> QED
    BY <1>4, <2>7, <2>8, <2>9
<1>18. CASE P # {} /\ ~l.bindNow /\ ~Coal(l, S)
  <2>1. PICK p \in P : Interval(rel, p, p)
    BY <1>13, <1>18 DEF RelroIs
  <2>2. SealedIn(rel, a) <=> p.address <= a /\ a < End(p)
    BY <1>12, <2>1, SealedRange
  <2>3. ~SealsMetadata(l, S)
    BY <1>18 DEF SealsMetadata
  <2>4. CASE s = p
    BY <1>6, <1>10, <1>12, <2>2, <2>4
  <2>5. CASE s # p
    <3>1. Apart(s, p)
      BY <1>2, <1>3, <1>12, <2>5
    <3>2. ~SealedIn(rel, a)
      BY <1>3, <1>5, <1>6, <1>12, <2>2, <3>1 DEF Apart
    <3>3. s \in S => s \notin P
      <4> SUFFICES ASSUME s \in P PROVE FALSE
        OBVIOUS
      <4>1. s.what = "got" /\ p.what = "got" /\ s \in S /\ p \in S
        BY <1>18 DEF Protected
      <4>2. s.n = 0 /\ p.n = 0
        BY <4>1 DEF Stocked, Shape
      <4> QED
        BY <2>5, <4>1, <4>2 DEF Stocked, Unique
    <3> QED
      BY <1>4, <1>10, <1>11, <2>3, <3>2, <3>3
  <2> QED
    BY <2>4, <2>5
<1> QED
  BY <1>15, <1>16, <1>17, <1>18

-----------------------------------------------------------------------------
(* The state's tables, from the sections it has.                           *)
Within(S) ==
    /\ S \subseteq ToSet(image)
    /\ \A s \in ToSet(image) : s \in S \/ s.what \in {"metadata", "interp", "note"}
RangeAt(s) == [address |-> s.address, size |-> s.size]

LEMMA TableAt ==
    ASSUME NEW S, NEW copied, Stocked(link, S, copied), Within(S),
           NEW w \in Five \ {"input"}, NEW g \in S, g.what = w
    PROVE  Named(w) = {g} /\ AddressOf(w) = g.address /\ RangeOf(w) = RangeAt(g)
<1>1. ASSUME NEW s \in ToSet(image), s.what = w PROVE s = g
  <2>1. s \in S
    BY <1>1 DEF Within, Five
  <2>2. s.n = 0 /\ g.n = 0
    BY <1>1, <2>1 DEF Stocked, Shape, Five
  <2> QED
    BY <1>1, <2>1, <2>2 DEF Stocked, Unique
<1>2. Named(w) = {g}
  BY <1>1 DEF Named, Within
<1>3. (CHOOSE s \in Named(w) : TRUE) = g
  BY <1>2
<1> QED
  BY <1>2, <1>3 DEF AddressOf, RangeOf, RangeAt

LEMMA RegionsAre ==
    ASSUME link \in Link, NEW S, NEW copied, Stocked(link, S, copied), Within(S)
    PROVE  Regions = {RangeAt(s) : s \in Protected(link, S)}
<1> DEFINE P == Protected(link, S)
<1>1. ASSUME Isolated(link), UsesGot(link)
      PROVE  \E g \in P : g.what = "got" /\ RangeOf("got") = RangeAt(g)
  <2>1. PICK g \in S : g.what = "got"
    BY <1>1 DEF Stocked, Present
  <2>2. g \in P
    BY <1>1, <2>1 DEF Protected
  <2>3. RangeOf("got") = RangeAt(g)
    <3>1. PICK w : w = "got"
      OBVIOUS
    <3>2. w \in Five \ {"input"} /\ g.what = w
      BY <2>1, <3>1 DEF Five
    <3>3. RangeOf(w) = RangeAt(g)
      BY <3>2, TableAt
    <3> QED
      BY <3>1, <3>3
  <2> QED
    BY <2>1, <2>2, <2>3
<1>2. ASSUME link.bindNow, link.need.plt > 0
      PROVE  \E g \in P : g.what = "pltgot" /\ RangeOf("pltgot") = RangeAt(g)
  <2>1. PICK g \in S : g.what = "pltgot"
    BY <1>2, NeedSizes DEF Stocked, Present
  <2>2. g \in P
    BY <1>2, <2>1 DEF Protected
  <2>3. RangeOf("pltgot") = RangeAt(g)
    <3>1. PICK w : w = "pltgot"
      OBVIOUS
    <3>2. w \in Five \ {"input"} /\ g.what = w
      BY <2>1, <3>1 DEF Five
    <3>3. RangeOf(w) = RangeAt(g)
      BY <3>2, TableAt
    <3> QED
      BY <3>1, <3>3
  <2> QED
    BY <2>1, <2>2, <2>3
<1>3. ASSUME NEW r \in Regions PROVE \E s \in P : r = RangeAt(s)
  BY <1>1, <1>2 DEF Regions
<1>4. ASSUME NEW s \in P PROVE RangeAt(s) \in Regions
  <2>1. s \in S /\ Shape(link, s) /\ s.n = 0
    BY DEF Protected, Stocked, Shape
  <2>2. CASE s.what = "got"
    <3>1. Isolated(link) /\ UsesGot(link)
      BY <2>1, <2>2 DEF Protected, Shape
    <3>2. PICK g \in P : g.what = "got" /\ RangeOf("got") = RangeAt(g)
      BY <1>1, <3>1
    <3>3. g \in S /\ g.n = 0
      BY <3>2 DEF Protected, Stocked, Shape
    <3>4. g = s
      BY <2>1, <2>2, <3>2, <3>3 DEF Stocked, Unique
    <3> QED
      BY <3>1, <3>2, <3>4 DEF Regions
  <2>3. CASE s.what = "pltgot"
    <3>1. link.bindNow /\ link.need.plt > 0
      BY <2>1, <2>3, NeedSizes DEF Protected, Shape
    <3>2. PICK g \in P : g.what = "pltgot" /\ RangeOf("pltgot") = RangeAt(g)
      BY <1>2, <3>1
    <3>3. g \in S /\ g.n = 0
      BY <3>2 DEF Protected, Stocked, Shape
    <3>4. g = s
      BY <2>1, <2>3, <3>2, <3>3 DEF Stocked, Unique
    <3> QED
      BY <3>1, <3>2, <3>4 DEF Regions
  <2> QED
    BY <2>2, <2>3 DEF Protected
<1> QED
  BY <1>3, <1>4

LEMMA RegionBounds ==
    ASSUME link \in Link, NEW S, NEW copied, Stocked(link, S, copied), Within(S),
           Protected(link, S) # {}
    PROVE  /\ Regions # {}
           /\ \E p : Lowest(Protected(link, S), p) /\ RegionsStart = p.address
           /\ \E q \in Protected(link, S) :
                RegionsEnd = End(q) /\ \A s \in Protected(link, S) : End(s) <= End(q)
<1>1. PICK P : P = Protected(link, S)
  OBVIOUS
<1>2. Regions = {RangeAt(s) : s \in P}
  BY <1>1, RegionsAre
<1>3. P \in SUBSET PieceType /\ IsFiniteSet(P) /\ P # {}
  <2>1. P \in SUBSET S /\ S \in SUBSET PieceType /\ IsFiniteSet(S)
    BY <1>1 DEF Protected, Stocked
  <2> QED
    BY <1>1, <2>1, FS_Subset
<1>4. \A s \in P : s.address \in Nat /\ s.size \in Nat /\ End(s) \in Nat /\ End(s) = s.address + s.size
  BY <1>3, PieceNumbers
<1>5. PICK A : A = {r.address : r \in Regions}
  OBVIOUS
<1>6. A = {s.address : s \in P}
  <2>1. \A s \in P : RangeAt(s).address = s.address
    BY DEF RangeAt
  <2> QED
    BY <1>2, <1>5, <2>1
<1>7. A \in SUBSET Nat /\ A # {}
  BY <1>3, <1>4, <1>6
<1>8. Min(A) \in A /\ \A x \in A : Min(A) <= x
  BY <1>7, LeastOfSet DEF Min
<1>9. \E p : Lowest(P, p) /\ RegionsStart = p.address
  <2>1. PICK p \in P : p.address = Min(A)
    BY <1>6, <1>8
  <2>2. \A s \in P : p.address <= s.address
    BY <1>6, <1>8, <2>1
  <2> QED
    BY <1>5, <2>1, <2>2 DEF Lowest, RegionsStart
<1>10. PICK B : B = {r.address + r.size : r \in Regions}
  OBVIOUS
<1>11. B = {End(s) : s \in P}
  <2>1. \A s \in P : RangeAt(s).address + RangeAt(s).size = End(s)
    BY <1>4 DEF RangeAt
  <2> QED
    BY <1>2, <1>10, <2>1
<1>12. B \in SUBSET Nat /\ B # {} /\ IsFiniteSet(B)
  <2>1. PICK f : f = [s \in P |-> End(s)]
    OBVIOUS
  <2>2. f \in Surjection(P, B)
    BY <1>11, <2>1 DEF Surjection
  <2>3. IsFiniteSet(B)
    BY <1>3, <2>2, FS_Surjection
  <2> QED
    BY <1>3, <1>4, <1>11, <2>3
<1>13. Max(B) \in B /\ \A x \in B : x <= Max(B)
  BY <1>12, MaxOf
<1>14. \E q \in P : RegionsEnd = End(q) /\ \A s \in P : End(s) <= End(q)
  <2>1. PICK q \in P : End(q) = Max(B)
    BY <1>11, <1>13
  <2>2. \A s \in P : End(s) <= End(q)
    BY <1>11, <1>13, <2>1
  <2> QED
    BY <1>10, <2>1, <2>2 DEF RegionsEnd
<1> QED
  BY <1>1, <1>2, <1>3, <1>9, <1>14

-----------------------------------------------------------------------------
(* What PlaceMetadata does is one of these outcomes.                       *)
FirstFree == AlignUp(ImageEnd, Page)
NameFirst == link.pie /\ ~Coalesced
MetadataAt == AlignUp(IF NameFirst THEN FirstFree + InterpSize ELSE ImageEnd, Page)
MetadataBytes == IF MetadataIsRelro THEN AlignUp(MetadataSize, Page) ELSE MetadataSize
NameAt == IF ~link.pie THEN 0 ELSE IF NameFirst THEN FirstFree ELSE AlignUp(MetadataAt + MetadataBytes, Page)
NoteAt == AlignUp(IF NameAt > MetadataAt THEN NameAt + InterpSize ELSE MetadataAt + MetadataBytes, Page)
PieceAt(what, perm, size, align, a) ==
    [what |-> what, n |-> 0, perm |-> perm, nobits |-> FALSE, tls |-> FALSE,
     size |-> size, align |-> align, address |-> a]
TheMetadata == PieceAt("metadata", "RW", MetadataBytes, Word, MetadataAt)
TheName == PieceAt("interp", "R", InterpSize, 1, NameAt)
TheNote == PieceAt("note", "R", NoteSize, Word, NoteAt)
NameList == IF link.pie THEN <<TheName>> ELSE <<>>
NoteList == IF link.ibt = "property" THEN <<TheNote>> ELSE <<>>
Extras == (IF link.pie THEN {TheName} ELSE {}) \cup (IF link.ibt = "property" THEN {TheNote} ELSE {})
TheRelro ==
    IF link.bindNow
    THEN LET from == IF Regions = {} THEN MetadataAt ELSE RegionsStart
         IN [address |-> from, size |-> MetadataAt + MetadataBytes - from]
    ELSE IF Coalesced THEN [address |-> RegionsStart, size |-> MetadataAt + MetadataBytes - RegionsStart]
    ELSE IF GotRelro(link) THEN RangeOf("got")
    ELSE IF MetadataIsRelro THEN [address |-> MetadataAt, size |-> MetadataBytes]
    ELSE NoRange

LEMMA SetOfJoined ==
    ASSUME NEW A, NEW u \in Seq(A), NEW v \in Seq(A)
    PROVE  u \o v \in Seq(A) /\ ToSet(u \o v) = ToSet(u) \cup ToSet(v)
<1>1. PICK a \in Nat, b \in Nat : a = Len(u) /\ b = Len(v) /\ DOMAIN u = 1 .. a /\ DOMAIN v = 1 .. b
  OBVIOUS
<1>2. PICK t : t = u \o v
  OBVIOUS
<1>3. /\ t \in Seq(A) /\ Len(t) = a + b
      /\ \A k \in 1 .. a : t[k] = u[k]
      /\ \A k \in 1 .. b : t[a + k] = v[k]
  BY <1>1, <1>2, Concatenated
<1>4. DOMAIN t = 1 .. a + b
  BY <1>3
<1>5. \A k \in 1 .. a : k \in DOMAIN t
  BY <1>4
<1>6. \A k \in 1 .. b : a + k \in DOMAIN t
  BY <1>4
<1>7. ASSUME NEW k \in DOMAIN t PROVE t[k] \in {u[m] : m \in 1 .. a} \cup {v[m] : m \in 1 .. b}
  <2>1. CASE k \in 1 .. a
    BY <1>3, <2>1
  <2>2. CASE k \notin 1 .. a
    <3>1. k - a \in 1 .. b /\ k = a + (k - a)
      BY <1>4, <2>2
    <3> QED
      BY <1>3, <3>1
  <2> QED
    BY <2>1, <2>2
<1>8. {t[k] : k \in DOMAIN t} = {u[m] : m \in 1 .. a} \cup {v[m] : m \in 1 .. b}
  <2>1. ASSUME NEW m \in 1 .. a PROVE \E k \in DOMAIN t : t[k] = u[m]
    BY <1>3, <1>5
  <2>2. ASSUME NEW m \in 1 .. b PROVE \E k \in DOMAIN t : t[k] = v[m]
    BY <1>3, <1>6
  <2> QED
    BY <1>7, <2>1, <2>2
<1>9. ToSet(u) = {u[m] : m \in 1 .. a} /\ ToSet(v) = {v[m] : m \in 1 .. b}
  BY <1>1 DEF ToSet
<1>10. ToSet(t) = ToSet(u) \cup ToSet(v)
  BY <1>8, <1>9 DEF ToSet
<1> QED
  BY <1>2, <1>3, <1>10

LEMMA SetOfOne ==
    ASSUME NEW A, NEW x \in A
    PROVE  /\ <<x>> \in Seq(A) /\ ToSet(<<x>>) = {x}
           /\ << >> \in Seq(A) /\ ToSet(<< >>) = {}
<1>1. DOMAIN <<x>> = {1} /\ <<x>>[1] = x
  OBVIOUS
<1>2. {<<x>>[k] : k \in DOMAIN <<x>>} = {x}
  BY <1>1
<1>3. DOMAIN << >> = {}
  OBVIOUS
<1>4. {<< >>[k] : k \in DOMAIN << >>} = {}
  BY <1>3
<1> QED
  BY <1>2, <1>4 DEF ToSet

Stood(S, copied) == link \in Link /\ image \in Seq(PieceType) /\ S = ToSet(image) /\ Stocked(link, S, copied)

LEMMA StoodIs ==
    ASSUME NEW S, NEW copied, Stood(S, copied)
    PROVE  /\ ImageEnd = EndOf(S) /\ EndOf(S) \in Nat
           /\ Regions = {} <=> Protected(link, S) = {}
           /\ Coalesced <=> Coal(link, S)
           /\ MetadataIsRelro <=> SealsMetadata(link, S)
           /\ Within(S)
<1>1. link \in Link /\ S = ToSet(image) /\ Stocked(link, S, copied)
  BY DEF Stood
<1>2. ImageEnd = EndOf(S)
  BY <1>1 DEF ImageEnd, EndOf
<1>3. S \in SUBSET PieceType /\ IsFiniteSet(S)
  BY <1>1 DEF Stocked
<1>4. EndOf(S) \in Nat /\ \A s \in S : End(s) <= EndOf(S)
  BY <1>3, EndOfIs
<1>5. Within(S)
  BY <1>1 DEF Within
<1>6. Regions = {} <=> Protected(link, S) = {}
  BY <1>1, <1>5, RegionsAre
<1>7. ASSUME Protected(link, S) # {} PROVE RegionsEnd = EndOf(S) <=> \E q \in Protected(link, S) : End(q) = EndOf(S)
  <2>1. PICK q \in Protected(link, S) : RegionsEnd = End(q) /\ \A s \in Protected(link, S) : End(s) <= End(q)
    BY <1>1, <1>5, <1>7, RegionBounds
  <2>2. \A s \in Protected(link, S) : s \in S /\ End(s) \in Nat
    BY <1>3, PieceNumbers DEF Protected
  <2> QED
    BY <1>4, <2>1, <2>2
<1>8. Coalesced <=> Coal(link, S)
  BY <1>2, <1>6, <1>7 DEF Coalesced, Coal
<1> QED
  BY <1>2, <1>4, <1>5, <1>6, <1>8 DEF MetadataIsRelro, SealsMetadata

MetadataPlaces(S) ==
    /\ FirstFree \in Nat /\ EndOf(S) <= FirstFree
    /\ MetadataAt \in Nat /\ MetadataAt % Page = 0 /\ EndOf(S) <= MetadataAt
    /\ NameFirst => FirstFree + InterpSize <= MetadataAt
    /\ ~NameFirst => MetadataAt = AlignUp(EndOf(S), Page)
    /\ MetadataBytes \in Nat \ {0} /\ (MetadataIsRelro => MetadataBytes % Page = 0)
    /\ NameAt \in Nat /\ NoteAt \in Nat /\ MetadataAt + MetadataBytes <= NoteAt
    /\ NameFirst => NameAt = FirstFree
    /\ link.pie /\ ~NameFirst
         => MetadataAt + MetadataBytes <= NameAt /\ NameAt + InterpSize <= NoteAt

LEMMA MetadataFacts ==
    ASSUME NEW S, NEW copied, Stood(S, copied)
    PROVE  MetadataPlaces(S)
<1> USE ImageAssumption
<1>1. PICK e \in Nat : e = EndOf(S) /\ e = ImageEnd
  BY StoodIs
<1>2. PICK f \in Nat : f = FirstFree /\ e <= f
  <2>1. AlignUp(e, Page) \in Nat /\ e <= AlignUp(e, Page)
    BY AlignedUp
  <2> QED
    BY <1>1, <2>1 DEF FirstFree
<1>3. PICK i \in Nat : i = InterpSize
  OBVIOUS
<1>4. PICK g \in Nat : g = (IF NameFirst THEN f + i ELSE e) /\ e <= g
  BY <1>2
<1>5. PICK a \in Nat : a = MetadataAt /\ a % Page = 0 /\ g <= a /\ a = AlignUp(g, Page)
  <2>1. MetadataAt = AlignUp(g, Page)
    BY <1>1, <1>2, <1>3, <1>4 DEF MetadataAt
  <2>2. AlignUp(g, Page) \in Nat /\ AlignUp(g, Page) % Page = 0 /\ g <= AlignUp(g, Page)
    BY AlignedUp
  <2> QED
    BY <2>1, <2>2
<1>6. PICK m \in Nat \ {0} : m = MetadataBytes /\ (MetadataIsRelro => m % Page = 0)
  <2>1. AlignUp(MetadataSize, Page) \in Nat /\ AlignUp(MetadataSize, Page) % Page = 0
        /\ MetadataSize <= AlignUp(MetadataSize, Page)
    BY AlignedUp
  <2>2. PICK z \in Nat : z = AlignUp(MetadataSize, Page)
    BY <2>1
  <2>3. z # 0 /\ z % Page = 0
    BY <2>1, <2>2
  <2> QED
    BY <2>2, <2>3 DEF MetadataBytes
<1>7. PICK n \in Nat : /\ n = NameAt
                       /\ NameFirst => n = f
                       /\ link.pie /\ ~NameFirst => a + m <= n
                       /\ ~link.pie => n = 0
  <2>1. AlignUp(a + m, Page) \in Nat /\ a + m <= AlignUp(a + m, Page)
    BY AlignedUp
  <2>2. PICK z \in Nat : z = AlignUp(a + m, Page) /\ a + m <= z
    BY <2>1
  <2>3. NameAt = IF ~link.pie THEN 0 ELSE IF NameFirst THEN f ELSE z
    BY <1>2, <1>5, <1>6, <2>2 DEF NameAt
  <2> QED
    BY <2>2, <2>3 DEF NameFirst
<1>8. PICK z \in Nat : z = (IF n > a THEN n + i ELSE a + m) /\ a + m <= z
                       /\ (link.pie /\ ~NameFirst => n + i <= z)
  <2>1. NameFirst => n <= a
    BY <1>4, <1>5, <1>7
  <2>2. link.pie /\ ~NameFirst => n > a
    BY <1>7
  <2>3. n > a => link.pie /\ ~NameFirst
    BY <1>7, <2>1
  <2> QED
    BY <1>7, <2>2, <2>3
<1>9. NoteAt = AlignUp(z, Page)
  BY <1>3, <1>5, <1>6, <1>7, <1>8 DEF NoteAt
<1>10. AlignUp(z, Page) \in Nat /\ z <= AlignUp(z, Page)
  BY AlignedUp
<1>11. PICK y \in Nat : y = NoteAt /\ z <= y
  BY <1>9, <1>10
<1>12. ~NameFirst => a = AlignUp(e, Page)
  BY <1>4, <1>5
<1>13. NameFirst => f + i <= a
  BY <1>4, <1>5
<1>14. a + m <= y /\ (link.pie /\ ~NameFirst => n + i <= y) /\ e <= a
  BY <1>4, <1>5, <1>8, <1>11
<1> HIDE ImageAssumption
<1> QED
  BY <1>1, <1>2, <1>3, <1>5, <1>6, <1>7, <1>11, <1>12, <1>13, <1>14 DEF MetadataPlaces

MovedPiece(what, perm, size, align, a) ==
    [Piece(what, 0, perm, FALSE, FALSE, size, align) EXCEPT !.address = a]

LEMMA PieceMoved ==
    ASSUME NEW what \in Whats, NEW perm \in {"R", "RX", "RW"}, NEW size \in Nat,
           NEW align \in Nat \ {0}, NEW a \in Nat
    PROVE  /\ MovedPiece(what, perm, size, align, a) = PieceAt(what, perm, size, align, a)
           /\ PieceAt(what, perm, size, align, a) \in PieceType
<1>1. PICK r : r = Piece(what, 0, perm, FALSE, FALSE, size, align)
  OBVIOUS
<1>2. r \in PieceType
  BY <1>1 DEF Piece, PieceType
<1>3. PICK q : q = [r EXCEPT !.address = a]
  OBVIOUS
<1>4. /\ q \in PieceType /\ q.address = a /\ q.what = r.what /\ q.n = r.n
      /\ q.perm = r.perm /\ q.nobits = r.nobits /\ q.tls = r.tls
      /\ q.size = r.size /\ q.align = r.align
  BY <1>2, <1>3 DEF PieceType
<1>5. /\ r.what = what /\ r.n = 0 /\ r.perm = perm /\ r.nobits = FALSE /\ r.tls = FALSE
      /\ r.size = size /\ r.align = align
  BY <1>1 DEF Piece
<1>6. q = [what |-> q.what, n |-> q.n, perm |-> q.perm, nobits |-> q.nobits, tls |-> q.tls,
           size |-> q.size, align |-> q.align, address |-> q.address]
  BY <1>4 DEF PieceType
<1>7. q = PieceAt(what, perm, size, align, a)
  BY <1>4, <1>5, <1>6 DEF PieceAt
<1>8. q = MovedPiece(what, perm, size, align, a)
  BY <1>1, <1>3 DEF MovedPiece
<1> QED
  BY <1>4, <1>7, <1>8

LEMMA MetadataPieces ==
    ASSUME NEW S, NEW copied, Stood(S, copied)
    PROVE  /\ TheMetadata \in PieceType /\ TheName \in PieceType /\ TheNote \in PieceType
           /\ MovedPiece("metadata", "RW", MetadataBytes, Word, MetadataAt)
                = TheMetadata
           /\ MovedPiece("interp", "R", InterpSize, 1, NameAt) = TheName
           /\ MovedPiece("note", "R", NoteSize, Word, NoteAt) = TheNote
<1>1. MetadataPlaces(S)
  BY MetadataFacts
<1>2. MetadataBytes \in Nat /\ MetadataAt \in Nat /\ NameAt \in Nat /\ NoteAt \in Nat
  BY <1>1 DEF MetadataPlaces
<1>3. InterpSize \in Nat /\ NoteSize \in Nat /\ Word \in Nat \ {0} /\ 1 \in Nat \ {0}
  BY ImageAssumption DEF Word
<1>4. PICK m, i, n, r, w : m = "metadata" /\ i = "interp" /\ n = "note" /\ r = "R" /\ w = "RW"
  OBVIOUS
<1>5. m \in Whats /\ i \in Whats /\ n \in Whats /\ r \in {"R", "RX", "RW"} /\ w \in {"R", "RX", "RW"}
  BY <1>4 DEF Whats
<1>6. ASSUME NEW x \in Whats, NEW p \in {"R", "RX", "RW"}, NEW b \in Nat, NEW g \in Nat \ {0}, NEW a \in Nat
      PROVE  /\ MovedPiece(x, p, b, g, a) = PieceAt(x, p, b, g, a)
             /\ PieceAt(x, p, b, g, a) \in PieceType
  BY PieceMoved
<1>7. /\ MovedPiece(m, w, MetadataBytes, Word, MetadataAt)
           = PieceAt(m, w, MetadataBytes, Word, MetadataAt)
      /\ PieceAt(m, w, MetadataBytes, Word, MetadataAt) \in PieceType
  BY <1>2, <1>3, <1>5, <1>6
<1>8. /\ MovedPiece(i, r, InterpSize, 1, NameAt)
           = PieceAt(i, r, InterpSize, 1, NameAt)
      /\ PieceAt(i, r, InterpSize, 1, NameAt) \in PieceType
  BY <1>2, <1>3, <1>5, <1>6
<1>9. /\ MovedPiece(n, r, NoteSize, Word, NoteAt)
           = PieceAt(n, r, NoteSize, Word, NoteAt)
      /\ PieceAt(n, r, NoteSize, Word, NoteAt) \in PieceType
  BY <1>2, <1>3, <1>5, <1>6
<1> QED
  BY <1>4, <1>7, <1>8, <1>9, Zenon DEF TheMetadata, TheName, TheNote

LEMMA MetadataStep ==
    ASSUME NEW S, NEW copied, Stood(S, copied), PlaceMetadata
    PROVE  /\ image' = image \o <<TheMetadata>> \o NameList \o NoteList
           /\ dynamic' = [address |-> MetadataAt, size |-> MetadataBytes]
           /\ relro' = TheRelro
<1>1. dynamic' = [address |-> MetadataAt, size |-> MetadataBytes]
  BY DEF PlaceMetadata, MetadataAt, MetadataBytes, NameFirst, FirstFree
<1>2. relro' = TheRelro
  BY DEF PlaceMetadata, MetadataAt, MetadataBytes, NameFirst, FirstFree, TheRelro
<1>3. image' = image \o <<TheMetadata>> \o NameList \o NoteList
  <2>1. image' = image
          \o <<MovedPiece("metadata", "RW", MetadataBytes, Word, MetadataAt)>>
          \o (IF link.pie THEN <<MovedPiece("interp", "R", InterpSize, 1, NameAt)>>
              ELSE <<>>)
          \o (IF link.ibt = "property"
              THEN <<MovedPiece("note", "R", NoteSize, Word, NoteAt)>>
              ELSE <<>>)
    BY Zenon DEF MovedPiece, PlaceMetadata, MetadataAt, MetadataBytes, NameFirst, FirstFree, NameAt, NoteAt
  <2> QED
    BY <2>1, MetadataPieces, Zenon DEF NameList, NoteList
<1> QED
  BY <1>1, <1>2, <1>3

(* The metadata, what goes around it, and the interval.                    *)
LEMMA RelroPlaced ==
    ASSUME NEW S, NEW copied, Stood(S, copied), NEW M, M = TheMetadata
    PROVE  RelroIs(link, S, M, TheRelro)
<1> DEFINE P == Protected(link, S)
<1>1. link \in Link /\ Stocked(link, S, copied)
  BY DEF Stood
<1>2. MetadataPlaces(S)
  BY MetadataFacts
<1>3. PICK a \in Nat, m \in Nat : a = MetadataAt /\ m = MetadataBytes
  BY <1>2 DEF MetadataPlaces
<1>4. M.address = a /\ End(M) = a + m
  BY <1>3 DEF TheMetadata, PieceAt, End
<1>5. /\ Regions = {} <=> P = {}
      /\ Coalesced <=> Coal(link, S)
      /\ MetadataIsRelro <=> SealsMetadata(link, S)
      /\ Within(S)
  BY StoodIs
<1>6. ~link.bindNow => (P # {} <=> GotRelro(link))
  BY <1>1, NoneProtected
<1>7. ASSUME P = {}, link.bindNow \/ link.pie PROVE Interval(TheRelro, M, M)
  <2>1. TheRelro = [address |-> a, size |-> m]
    <3>1. CASE link.bindNow
      <4>1. TheRelro = [address |-> a, size |-> a + m - a]
        BY <1>3, <1>5, <1>7, <3>1 DEF TheRelro
      <4>2. a + m - a = m
        OBVIOUS
      <4> QED
        BY <4>1, <4>2
    <3>2. CASE ~link.bindNow
      <4>1. ~Coalesced
        BY <1>5, <1>7 DEF Coalesced
      <4>2. ~GotRelro(link) /\ MetadataIsRelro
        BY <1>5, <1>6, <1>7, <3>2 DEF MetadataIsRelro
      <4> QED
        BY <1>3, <3>2, <4>1, <4>2 DEF TheRelro
    <3> QED
      BY <3>1, <3>2
  <2>2. End(M) - M.address = m
    BY <1>4
  <2> QED
    BY <1>4, <2>1, <2>2 DEF Interval
<1>8. ASSUME P = {}, ~link.bindNow, ~link.pie PROVE TheRelro = NoRange
  BY <1>6, <1>8 DEF TheRelro, Coalesced, MetadataIsRelro
<1>9. ASSUME P # {}, link.bindNow \/ Coal(link, S)
      PROVE  \E p : Lowest(P, p) /\ Interval(TheRelro, p, M)
  <2>1. PICK p : Lowest(P, p) /\ RegionsStart = p.address
    BY <1>1, <1>5, <1>9, RegionBounds
  <2>2. PICK v \in Nat : v = p.address
    <3>1. p \in PieceType
      BY <1>1, <2>1 DEF Lowest, Protected, Stocked
    <3> QED
      BY <3>1, PieceNumbers
  <2>3. TheRelro = [address |-> v, size |-> a + m - v]
    <3>1. Regions # {}
      BY <1>5, <1>9
    <3> QED
      BY <1>3, <1>5, <1>9, <2>1, <2>2, <3>1 DEF TheRelro
  <2>4. End(M) - p.address = a + m - v
    BY <1>4, <2>2
  <2>5. Interval(TheRelro, p, M)
    BY <2>2, <2>3, <2>4 DEF Interval
  <2> QED
    BY <2>1, <2>5
<1>10. ASSUME P # {}, ~link.bindNow, ~Coal(link, S) PROVE \E p \in P : Interval(TheRelro, p, p)
  <2>1. GotRelro(link) /\ ~Coalesced
    BY <1>5, <1>6, <1>10
  <2>2. TheRelro = RangeOf("got")
    BY <1>10, <2>1 DEF TheRelro
  <2>3. PICK p \in S : p.what = "got"
    BY <1>1, <2>1 DEF Stocked, Present, GotRelro
  <2>4. p \in P
    BY <2>1, <2>3 DEF Protected, Isolated
  <2>5. RangeOf("got") = RangeAt(p)
    <3>1. PICK w : w = "got"
      OBVIOUS
    <3>2. w \in Five \ {"input"} /\ p.what = w
      BY <2>3, <3>1 DEF Five
    <3>3. RangeOf(w) = RangeAt(p)
      BY <1>1, <1>5, <3>2, TableAt
    <3> QED
      BY <3>1, <3>3
  <2>6. p.address \in Nat /\ p.size \in Nat /\ End(p) = p.address + p.size
    BY <1>1, <2>3, PieceNumbers DEF Stocked
  <2>7. End(p) - p.address = p.size
    BY <2>6
  <2> QED
    BY <2>2, <2>4, <2>5, <2>7 DEF Interval, RangeAt
<1> QED
  BY <1>7, <1>8, <1>9, <1>10 DEF RelroIs

LEMMA ExtrasPlaced ==
    ASSUME NEW S, NEW copied, Stood(S, copied), NEW M, M = TheMetadata
    PROVE  /\ \A x \in Extras : IsExtra(link, S, M, x)
           /\ Unique(Extras) /\ \A x, y \in Extras : x # y => Apart(x, y)
           /\ link.pie /\ ~Coal(link, S) => \E x \in Extras : Between(S, x, M)
<1> USE ImageAssumption
<1>1. MetadataPlaces(S)
  BY MetadataFacts
<1>2. PICK e \in Nat : e = EndOf(S)
  BY StoodIs
<1>3. PICK f \in Nat, a \in Nat, m \in Nat \ {0}, n \in Nat, y \in Nat :
        f = FirstFree /\ a = MetadataAt /\ m = MetadataBytes /\ n = NameAt /\ y = NoteAt
  BY <1>1 DEF MetadataPlaces
<1>4. PICK i \in Nat \ {0}, t \in Nat \ {0} : i = InterpSize /\ t = NoteSize
  OBVIOUS
<1>5. /\ e <= f /\ a + m <= y
      /\ NameFirst => n = f /\ f + i <= a
      /\ link.pie /\ ~NameFirst => a + m <= n /\ n + i <= y
  BY <1>1, <1>2, <1>3, <1>4 DEF MetadataPlaces
<1>6. NameFirst <=> link.pie /\ ~Coal(link, S)
  BY StoodIs DEF NameFirst
<1>7. TheMetadata \in PieceType /\ TheName \in PieceType /\ TheNote \in PieceType
  BY MetadataPieces
<1>8. M.address = a /\ End(M) = a + m
  BY <1>3 DEF TheMetadata, PieceAt, End
<1>9. /\ TheName.address = n /\ End(TheName) = n + i /\ TheName.size # 0
      /\ TheName.what = "interp" /\ TheName.n = 0 /\ TheName.perm = "R"
  BY <1>3, <1>4 DEF TheName, PieceAt, End
<1>10. /\ TheNote.address = y /\ End(TheNote) = y + t /\ TheNote.size # 0
       /\ TheNote.what = "note" /\ TheNote.n = 0 /\ TheNote.perm = "R"
  BY <1>3, <1>4 DEF TheNote, PieceAt, End
<1>11. PICK N, O : N = TheName /\ O = TheNote
  OBVIOUS
<1>12. link.pie => IsExtra(link, S, M, N) /\ (NameFirst => Between(S, N, M))
  <2>1. NameFirst => Between(S, N, M)
    BY <1>2, <1>5, <1>8, <1>9, <1>11 DEF Between
  <2>2. link.pie /\ ~NameFirst => End(M) <= N.address
    BY <1>5, <1>8, <1>9, <1>11
  <2> QED
    BY <1>6, <1>7, <1>9, <1>11, <2>1, <2>2 DEF IsExtra
<1>13. IsExtra(link, S, M, O)
  BY <1>5, <1>7, <1>8, <1>10, <1>11 DEF IsExtra
<1>14. link.pie => Apart(N, O) /\ Apart(O, N)
  <2>1. link.pie => n + i <= y
    BY <1>5
  <2> QED
    BY <1>9, <1>10, <1>11, <2>1 DEF Apart
<1>15. Extras = (IF link.pie THEN {N} ELSE {}) \cup (IF link.ibt = "property" THEN {O} ELSE {})
  BY <1>11 DEF Extras
<1>16. N.what # O.what
  BY <1>9, <1>10, <1>11
<1>17. \A x \in Extras : (x = N /\ link.pie) \/ x = O
  BY <1>15
<1>18. \A x \in Extras : IsExtra(link, S, M, x)
  BY <1>12, <1>13, <1>17
<1>19. Unique(Extras)
  BY <1>16, <1>17 DEF Unique
<1>20. \A x, z \in Extras : x # z => Apart(x, z)
  BY <1>14, <1>17
<1>21. link.pie /\ ~Coal(link, S) => \E x \in Extras : Between(S, x, M)
  BY <1>6, <1>12, <1>15
<1> QED
  BY <1>18, <1>19, <1>20, <1>21

LEMMA OutcomeReached ==
    ASSUME NEW S, NEW copied, Stood(S, copied), PlaceMetadata
    PROVE  \E M, X : /\ Outcome(link, S, M, X, relro')
                     /\ image' \in Seq(PieceType) /\ ToSet(image') = Whole(S, M, X)
                     /\ dynamic' = [address |-> M.address, size |-> M.size]
<1>1. link \in Link /\ image \in Seq(PieceType) /\ S = ToSet(image) /\ Stocked(link, S, copied)
  BY DEF Stood
<1>2. /\ image' = image \o <<TheMetadata>> \o NameList \o NoteList
      /\ dynamic' = [address |-> MetadataAt, size |-> MetadataBytes]
      /\ relro' = TheRelro
  BY MetadataStep
<1>3. MetadataPlaces(S)
  BY MetadataFacts
<1>4. TheMetadata \in PieceType /\ TheName \in PieceType /\ TheNote \in PieceType
  BY MetadataPieces
<1>5. /\ EndOf(S) \in Nat
      /\ NameFirst <=> link.pie /\ ~Coal(link, S)
      /\ MetadataIsRelro <=> SealsMetadata(link, S)
  BY StoodIs DEF NameFirst
<1>6. PICK M : M = TheMetadata
  OBVIOUS
<1>7. /\ M.what = "metadata" /\ M.n = 0 /\ M.perm = "RW" /\ ~M.nobits /\ M.size = MetadataBytes
      /\ M.address = MetadataAt
  BY <1>6 DEF TheMetadata, PieceAt
<1>8. IsMetadata(S, M)
  BY <1>3, <1>4, <1>6, <1>7 DEF IsMetadata, MetadataPlaces
<1>9. Outcome(link, S, M, Extras, relro')
  <2>1. RelroIs(link, S, M, relro')
    BY <1>2, <1>6, RelroPlaced
  <2>2. /\ \A x \in Extras : IsExtra(link, S, M, x)
        /\ Unique(Extras) /\ \A x, y \in Extras : x # y => Apart(x, y)
        /\ link.pie /\ ~Coal(link, S) => \E x \in Extras : Between(S, x, M)
    BY <1>6, ExtrasPlaced
  <2>3. ~(link.pie /\ ~Coal(link, S)) => M.address = AlignUp(EndOf(S), Page)
    BY <1>3, <1>5, <1>7 DEF MetadataPlaces
  <2>4. link.bindNow \/ (link.pie /\ (Protected(link, S) = {} \/ Coal(link, S))) => M.size % Page = 0
    BY <1>3, <1>5, <1>7 DEF MetadataPlaces, SealsMetadata
  <2> QED
    BY <1>8, <2>1, <2>2, <2>3, <2>4 DEF Outcome
<1>10. image' \in Seq(PieceType) /\ ToSet(image') = Whole(S, M, Extras)
  <2>1. /\ <<TheMetadata>> \in Seq(PieceType) /\ ToSet(<<TheMetadata>>) = {M}
    BY <1>4, <1>6, SetOfOne
  <2>2. NameList \in Seq(PieceType) /\ ToSet(NameList) = IF link.pie THEN {TheName} ELSE {}
    BY <1>4, SetOfOne DEF NameList
  <2>3. NoteList \in Seq(PieceType) /\ ToSet(NoteList) = IF link.ibt = "property" THEN {TheNote} ELSE {}
    BY <1>4, SetOfOne DEF NoteList
  <2>4. PICK u, c : c = <<TheMetadata>> /\ u = image \o c
    OBVIOUS
  <2>5. u \in Seq(PieceType) /\ ToSet(u) = S \cup {M}
    <3>1. c \in Seq(PieceType) /\ ToSet(c) = {M}
      BY <2>1, <2>4
    <3>2. image \in Seq(PieceType)
      BY <1>1
    <3>3. image \o c \in Seq(PieceType) /\ ToSet(image \o c) = ToSet(image) \cup ToSet(c)
      BY <3>1, <3>2, SetOfJoined
    <3> QED
      BY <1>1, <2>4, <3>1, <3>3
  <2>6. PICK v : v = u \o NameList
    OBVIOUS
  <2>7. v \in Seq(PieceType) /\ ToSet(v) = ToSet(u) \cup ToSet(NameList)
    BY <2>2, <2>5, <2>6, SetOfJoined
  <2>8. v \o NoteList \in Seq(PieceType) /\ ToSet(v \o NoteList) = ToSet(v) \cup ToSet(NoteList)
    BY <2>3, <2>7, SetOfJoined
  <2>9. image' = v \o NoteList
    BY <1>2, <2>4, <2>6
  <2>10. ToSet(NameList) \cup ToSet(NoteList) = Extras
    BY <2>2, <2>3 DEF Extras
  <2> QED
    BY <2>5, <2>7, <2>8, <2>9, <2>10 DEF Whole
<1> QED
  BY <1>2, <1>7, <1>9, <1>10

-----------------------------------------------------------------------------
(* The order of the input sections is a permutation of them.               *)
Ranks(inputs, tail) ==
    /\ tail \in Seq(DOMAIN inputs)
    /\ \A j, k \in DOMAIN tail : tail[j] = tail[k] => j = k

LEMMA EntriesAre ==
    ASSUME NEW l \in Link, NEW kind
    PROVE  /\ Entries(l.inputs, kind) \subseteq DOMAIN l.inputs
           /\ IsFiniteSet(Entries(l.inputs, kind))
           /\ \E n \in Nat : DOMAIN l.inputs = 1 .. n
<1>1. PICK n \in Nat : DOMAIN l.inputs = 1 .. n
  BY DEF Link
<1>2. IsFiniteSet(1 .. n)
  BY 1 \in Int, n \in Int, FS_Interval
<1>3. Entries(l.inputs, kind) \subseteq DOMAIN l.inputs
  BY DEF Entries
<1> QED
  BY <1>1, <1>2, <1>3, FS_Subset

LEMMA SortedRanks ==
    ASSUME NEW l \in Link, NEW kind, NEW p \in SortOutcomes(l.inputs, kind)
    PROVE  Ranks(l.inputs, p) /\ \A k \in DOMAIN p : l.inputs[p[k]].kind = kind
<1>0. PICK E : E = Entries(l.inputs, kind)
  OBVIOUS
<1>1. PICK c \in Nat : c = Cardinality(E)
  BY <1>0, EntriesAre, FS_CardinalityType
<1>2. p \in SetToSeqs(E)
  BY <1>0 DEF SortOutcomes
<1>3. p \in [1 .. c -> E] /\ \A j, k \in 1 .. c : j # k => p[j] # p[k]
  BY <1>1, <1>2 DEF SetToSeqs
<1>4. E \subseteq DOMAIN l.inputs
  BY <1>0, EntriesAre
<1>5. p \in Seq(DOMAIN l.inputs) /\ DOMAIN p = 1 .. c
  BY <1>3, <1>4
<1> QED
  BY <1>0, <1>3, <1>5 DEF Ranks, Entries

LEMMA RanksJoined ==
    ASSUME NEW l, NEW p, NEW q, Ranks(l.inputs, p), Ranks(l.inputs, q),
           \A j \in DOMAIN p, k \in DOMAIN q : p[j] # q[k]
    PROVE  Ranks(l.inputs, p \o q) /\ ToSet(p \o q) = ToSet(p) \cup ToSet(q)
<1>1. PICK D : D = DOMAIN l.inputs
  OBVIOUS
<1>2. p \in Seq(D)
  BY <1>1 DEF Ranks
<1>3. q \in Seq(D)
  BY <1>1 DEF Ranks
<1>4. p \o q \in Seq(D) /\ ToSet(p \o q) = ToSet(p) \cup ToSet(q)
  BY <1>2, <1>3, SetOfJoined
<1>10. PICK t : t = p \o q
  OBVIOUS
<1>5. PICK a \in Nat, b \in Nat : t = p \o q /\ a = Len(p) /\ b = Len(q) /\ DOMAIN p = 1 .. a /\ DOMAIN q = 1 .. b
  BY <1>2, <1>3, <1>10
<1>6. /\ Len(p \o q) = Len(p) + Len(q)
      /\ \A k \in 1 .. Len(p) : (p \o q)[k] = p[k]
      /\ \A k \in 1 .. Len(q) : (p \o q)[Len(p) + k] = q[k]
  BY <1>2, <1>3, Concatenated
<1>7. /\ DOMAIN t = 1 .. a + b
      /\ \A k \in 1 .. a : t[k] = p[k]
      /\ \A k \in 1 .. b : t[a + k] = q[k]
  BY <1>4, <1>5, <1>6
<1>8. ASSUME NEW k \in DOMAIN t
      PROVE  (k \in DOMAIN p /\ t[k] = p[k]) \/ \E m \in DOMAIN q : k = a + m /\ t[k] = q[m]
  <2>1. CASE k \in 1 .. a
    BY <1>5, <1>7, <2>1
  <2>2. CASE k \notin 1 .. a
    <3>1. k - a \in 1 .. b /\ k = a + (k - a)
      BY <1>7, <2>2
    <3> QED
      BY <1>5, <1>7, <3>1
  <2> QED
    BY <2>1, <2>2
<1>9. ASSUME NEW j \in DOMAIN t, NEW k \in DOMAIN t, t[j] = t[k] PROVE j = k
  BY <1>8, <1>9 DEF Ranks
<1> QED
  BY <1>1, <1>4, <1>5, <1>9 DEF Ranks

LEMMA TailRanked ==
    ASSUME NEW l \in Link, NEW tail \in TailOrders(l.inputs)
    PROVE  Ranks(l.inputs, tail)
<1>1. PICK i \in SortOutcomes(l.inputs, "init"), f \in SortOutcomes(l.inputs, "fini") : tail = i \o f
  BY DEF TailOrders
<1>2. Ranks(l.inputs, i) /\ \A k \in DOMAIN i : l.inputs[i[k]].kind = "init"
  BY SortedRanks
<1>3. Ranks(l.inputs, f) /\ \A k \in DOMAIN f : l.inputs[f[k]].kind = "fini"
  BY SortedRanks
<1>4. \A j \in DOMAIN i, k \in DOMAIN f : i[j] # f[k]
  BY <1>2, <1>3
<1> QED
  BY <1>1, <1>2, <1>3, <1>4, RanksJoined

LEMMA TailMoved ==
    ASSUME NEW l \in Link, NEW tail \in TailOrders(l.inputs)
    PROVE  Permutes(l, MoveTail(l.inputs, tail))
<1>1. PICK n \in Nat : DOMAIN l.inputs = 1 .. n
  BY EntriesAre
<1>2. PICK r : r = IF DebugAssertions THEN tail ELSE << >>
  OBVIOUS
<1>3. Ranks(l.inputs, r)
  <2>1. Ranks(l.inputs, << >>)
    BY DEF Ranks
  <2>2. Ranks(l.inputs, tail)
    BY TailRanked
  <2> QED
    BY <1>2, <2>1, <2>2
<1>4. PICK K : K = DOMAIN l.inputs \ ToSet(r)
  OBVIOUS
<1>5. K \in SUBSET (1 .. n)
  BY <1>1, <1>4
<1>6. PICK all : all = [i \in DOMAIN l.inputs |-> i]
  OBVIOUS
<1>7. PICK pi, m : Listing(pi, m, K, Less(K)) /\ Sublist(all, K) = Taken(all, pi, m)
  BY <1>5, SublistListed
<1>8. PICK s : s = Sublist(all, K)
  OBVIOUS
<1>9. m \in Nat /\ pi \in [1 .. m -> K] /\ s = [k \in 1 .. m |-> all[pi[k]]]
  BY <1>7, <1>8 DEF Listing, Taken
<1>10. DOMAIN s = 1 .. m /\ \A k \in 1 .. m : s[k] = pi[k] /\ s[k] \in K
  BY <1>4, <1>6, <1>9
<1>11. s \in Seq(DOMAIN l.inputs)
  <2>1. s \in [1 .. m -> DOMAIN l.inputs]
    BY <1>4, <1>9, <1>10
  <2> QED
    BY <1>9, <2>1
<1>12. ASSUME NEW j \in DOMAIN s, NEW k \in DOMAIN s, s[j] = s[k] PROVE j = k
  <2>1. \A a, b \in 1 .. m : a < b => pi[a] < pi[b]
    BY <1>7 DEF Listing, Less
  <2>2. \A a \in 1 .. m : pi[a] \in Nat
    <3>1. \A x \in K : x \in Nat
      BY <1>5
    <3>2. \A a \in 1 .. m : pi[a] \in K
      BY <1>9
    <3> QED
      BY <3>1, <3>2
  <2>3. j < k \/ k < j \/ j = k
    BY <1>9, <1>10
  <2> QED
    BY <1>10, <1>12, <2>1, <2>2, <2>3
<1>13. ToSet(s) = K
  <2>1. \A x \in K : \E k \in 1 .. m : pi[k] = x
    BY <1>7 DEF Listing
  <2>2. {s[k] : k \in DOMAIN s} = K
    BY <1>10, <2>1
  <2> QED
    BY <2>2 DEF ToSet
<1>14. Ranks(l.inputs, s)
  BY <1>11, <1>12 DEF Ranks
<1>15. \A j \in DOMAIN s, k \in DOMAIN r : s[j] # r[k]
  BY <1>4, <1>10 DEF ToSet
<1>16. Ranks(l.inputs, s \o r) /\ ToSet(s \o r) = ToSet(s) \cup ToSet(r)
  BY <1>3, <1>14, <1>15, RanksJoined
<1>17. MoveTail(l.inputs, tail) = s \o r
  BY <1>2, <1>4, <1>6, <1>8 DEF MoveTail
<1>18. \A i \in DOMAIN l.inputs : i \in ToSet(s \o r)
  BY <1>4, <1>13, <1>16
<1>19. \A i \in ToSet(s \o r) : \E k \in DOMAIN (s \o r) : (s \o r)[k] = i
  BY DEF ToSet
<1> QED
  BY <1>16, <1>17, <1>18, <1>19 DEF Permutes, Ranks

-----------------------------------------------------------------------------
(* The copies go behind everything else.                                   *)
LEMMA CopiesPlaced ==
    ASSUME link \in Link, Laid(link, image), AllocateCopies
    PROVE  link' = link /\ Stood(ToSet(image), link.copies # <<>>)'
<1>1. link' = link
  BY DEF AllocateCopies
<1>2. image \in Seq(PieceType)
  BY DEF Laid, Good
<1>3. PICK S : S = ToSet(image)
  OBVIOUS
<1>4. Stocked(link, S, FALSE)
  BY <1>3, LaidStocked
<1>5. CASE link.copies = <<>>
  <2>1. image' = image
    BY <1>5 DEF AllocateCopies
  <2>2. Stood(S, FALSE)
    BY <1>2, <1>3, <1>4 DEF Stood
  <2>3. (link.copies # <<>>) = FALSE
    BY <1>5
  <2>4. Stood(ToSet(image), link.copies # <<>>)
    BY <1>3, <2>2, <2>3
  <2> QED
    BY <1>1, <2>1, <2>4 DEF Stood
<1>6. CASE link.copies # <<>>
  <2>1. link.copies \in Seq(Nat \ {0})
    BY DEF Link
  <2>2. PICK size \in Nat \ {0} : size = CopySize(link.copies)
    BY <1>6, <2>1, CopySizeIs
  <2>3. S \in SUBSET PieceType /\ IsFiniteSet(S)
    BY <1>4 DEF Stocked
  <2>4. PICK e \in Nat : e = EndOf(S) /\ e = ImageEnd
    <3>1. EndOf(S) \in Nat
      BY <2>3, EndOfIs
    <3> QED
      BY <1>3, <3>1 DEF ImageEnd, EndOf
  <2>5. PICK a \in Nat : a = AlignUp(e, CopyAlignment) /\ e <= a /\ a % 16 = 0
    BY AlignedUp DEF CopyAlignment
  <2>6. PICK x : x = Piece("copy", 0, "RW", TRUE, FALSE, size, CopyAlignment)
    OBVIOUS
  <2>7. x \in PieceType
    BY <2>6 DEF Piece, PieceType, Whats, CopyAlignment
  <2>8. PICK c : c = [x EXCEPT !.address = a]
    OBVIOUS
  <2>9. /\ c \in PieceType /\ c.address = a /\ c.what = x.what /\ c.n = x.n /\ c.perm = x.perm
        /\ c.nobits = x.nobits /\ c.size = x.size /\ c.align = x.align
    BY <2>7, <2>8 DEF PieceType
  <2>10. /\ x.what = "copy" /\ x.n = 0 /\ x.perm = "RW" /\ x.nobits /\ x.size = size /\ x.align = 16
    BY <2>6 DEF Piece, CopyAlignment
  <2>11. image' = Append(image, c)
    <3>1. image' = Append(image, [Piece("copy", 0, "RW", TRUE, FALSE, CopySize(link.copies), CopyAlignment)
                                     EXCEPT !.address = AlignUp(ImageEnd, CopyAlignment)])
      BY <1>6, Zenon DEF AllocateCopies, CopySize
    <3>2. c = [Piece("copy", 0, "RW", TRUE, FALSE, CopySize(link.copies), CopyAlignment)
                 EXCEPT !.address = AlignUp(ImageEnd, CopyAlignment)]
      BY <2>2, <2>4, <2>5, <2>6, <2>8, Zenon
    <3> QED
      BY <3>1, <3>2, Zenon
  <2>12. Stocked(link, S \cup {c}, TRUE)
    <3>1. CopyPiece(link, c) /\ c.what = "copy"
      BY <1>6, <2>9, <2>10 DEF CopyPiece
    <3>2. EndOf(S) <= c.address /\ (c.align = Page => c.address % Page = 0)
      BY <2>4, <2>5, <2>9, <2>10
    <3> QED
      BY <1>4, <1>6, <2>9, <3>1, <3>2, CopyStocked
  <2>13. image' \in Seq(PieceType) /\ ToSet(image') = S \cup {c}
    <3>1. Append(image, c) = image \o <<c>>
      BY <1>2, <2>9
    <3>2. PICK d : d = <<c>>
      OBVIOUS
    <3>3. d \in Seq(PieceType) /\ ToSet(d) = {c}
      BY <2>9, <3>2, SetOfOne
    <3>4. image \o d \in Seq(PieceType) /\ ToSet(image \o d) = ToSet(image) \cup ToSet(d)
      BY <1>2, <3>3, SetOfJoined
    <3> QED
      BY <1>3, <2>11, <3>1, <3>2, <3>3, <3>4
  <2>14. (link'.copies # <<>>) = TRUE
    BY <1>1, <1>6
  <2>15. Stood(ToSet(image), TRUE)'
    BY <1>1, <2>12, <2>13 DEF Stood
  <2> QED
    BY <1>1, <2>14, <2>15
<1> QED
  BY <1>1, <1>5, <1>6

-----------------------------------------------------------------------------
(* What a link fails for before it is written.                             *)
Refusals ==
    {"none", "DynamicLifecycleHookMissing", "DynamicLifecycleHookType",
     "DynamicLifecycleHookNotImageBacked", "DynamicLifecycleHookNotExecutable",
     "DynamicLifecycleSectionFlags", "DynamicLifecycleSectionSize",
     "DynamicLifecycleNonContiguous"}
OutsideSegments == "MetadataRangeOutsideLoadSegments"

LEMMA HookRefusals ==
    ASSUME NEW h \in Hooks
    PROVE  HookError(h) \in Refusals
BY DEF Hooks, HookError, Refusals

LEMMA CollectRefusals ==
    ASSUME NEW inputs, NEW addr, NEW kind
    PROVE  Collect(inputs, addr, kind).error \in Refusals
BY DEF Collect, Refusals

Checks == <<HookError(link.init), HookError(link.fini)>>
            \o [k \in DOMAIN ArrayKinds |-> Collect(link.inputs, InputAddress, ArrayKinds[k]).error]
FailedChecks == {k \in DOMAIN Checks : Checks[k] # "none"}

LEMMA LifecycleRefused ==
    ASSUME link \in Link, CollectLifecycle
    PROVE  /\ UNCHANGED <<link, image, relro, dynamic>>
           /\ \/ stage' = "failed" /\ error' # OutsideSegments
              \/ stage' = "metadata" /\ error' = error
<1>1. PICK u : u = <<HookError(link.init), HookError(link.fini)>>
  OBVIOUS
<1>2. u \in Seq(Refusals)
  <2>1. HookError(link.init) \in Refusals /\ HookError(link.fini) \in Refusals
    BY HookRefusals DEF Link
  <2> QED
    BY <1>1, <2>1
<1>3. PICK v : v = [k \in DOMAIN ArrayKinds |-> Collect(link.inputs, InputAddress, ArrayKinds[k]).error]
  OBVIOUS
<1>4. v \in Seq(Refusals)
  <2>1. PICK n \in Nat : DOMAIN ArrayKinds = 1 .. n
    <3>1. ASSUME link.pie PROVE DOMAIN ArrayKinds = 1 .. 3
      BY <3>1 DEF ArrayKinds
    <3>2. ASSUME ~link.pie PROVE DOMAIN ArrayKinds = 1 .. 2
      BY <3>2 DEF ArrayKinds
    <3> QED
      BY <3>1, <3>2
  <2>2. v \in [1 .. n -> Refusals]
    BY <1>3, <2>1, CollectRefusals
  <2> QED
    BY <2>2
<1>5. Checks = u \o v
  BY <1>1, <1>3 DEF Checks
<1>6. Checks \in Seq(Refusals)
  BY <1>2, <1>4, <1>5, Concatenated
<1>7. PICK c, failed : c = Checks /\ failed = {k \in DOMAIN c : c[k] # "none"}
  OBVIOUS
<1>8. c \in Seq(Refusals) /\ failed \in SUBSET Nat
  BY <1>6, <1>7
<1>9. ASSUME failed # {} PROVE c[Min(failed)] \in Refusals
  <2>1. Min(failed) \in failed
    BY <1>8, <1>9, LeastOfSet DEF Min
  <2>2. PICK m : m = Min(failed)
    OBVIOUS
  <2> QED
    BY <1>7, <1>8, <2>1, <2>2
<1>10. OutsideSegments \notin Refusals
  BY DEF OutsideSegments, Refusals
<1>11. CASE failed # {}
  <2>1. Fail(c[Min(failed)])
    BY <1>7, <1>11, Zenon DEF CollectLifecycle, Checks
  <2> QED
    BY <1>9, <1>10, <1>11, <2>1 DEF Fail
<1>12. CASE failed = {}
  <2>1. stage' = "metadata" /\ UNCHANGED <<link, order, image, dynamic, interp, relro, mem, ran, reached, error>>
    BY <1>7, <1>12, Zenon DEF CollectLifecycle, Checks
  <2> QED
    BY <2>1
<1> QED
  BY <1>11, <1>12

-----------------------------------------------------------------------------
(* What holds of the image at every step.                                  *)
WithCopies == link.copies # <<>>
Made(S, M, X) ==
    /\ Stocked(link, S, WithCopies) /\ Outcome(link, S, M, X, relro)
    /\ image \in Seq(PieceType) /\ ToSet(image) = Whole(S, M, X)
    /\ dynamic = [address |-> M.address, size |-> M.size]
Furnished == \E S, M, X : Made(S, M, X)
Finished  == \E S, M, X : Made(S, M, X) /\ ~Parted(link, S, WithCopies)
Running == {"load", "start", "running", "ended", "faulted"}
Torn == link.bindNow /\ WithCopies /\ Regions # {}
ImageInv ==
    /\ link \in Link
    /\ stage = "place" => Permutes(link, order)
    /\ stage = "copy" => Laid(link, image)
    /\ stage \in {"collect", "metadata"} => Stood(ToSet(image), WithCopies)
    /\ stage = "write" => Furnished
    /\ stage \in Running => Finished
    /\ stage \notin {"failed", "faulted"} => error = "none"
    /\ error = OutsideSegments => stage = "failed" /\ Torn

LEMMA SegmentsSame ==
    ASSUME NEW T, T = ToSet(image), NEW range
    PROVE  InOneSegment(range) <=> OneSegment(T, range)
<1>1. Sized = SizedIn(T)
  BY DEF Sized, SizedIn
<1>2. \A t, s : Follows(t, s) <=> FollowsIn(T, t, s)
  BY <1>1 DEF Follows, FollowsIn
<1>3. Starts = StartsIn(T)
  BY <1>1, <1>2 DEF Starts, StartsIn
<1>4. \A t : Segment(t) = SegmentIn(T, t)
  BY <1>1, <1>3 DEF Segment, SegmentIn
<1> QED
  BY <1>3, <1>4 DEF InOneSegment, OneSegment

LEMMA MadeWithin ==
    ASSUME NEW S, NEW M, NEW X, Made(S, M, X)
    PROVE  Within(S)
<1>1. ToSet(image) = Whole(S, M, X)
  BY DEF Made
<1>2. M.what = "metadata" /\ \A x \in X : x.what \in {"interp", "note"}
  BY DEF Made, Outcome, IsMetadata, IsExtra
<1> QED
  BY <1>1, <1>2 DEF Within, Whole

LEMMA MetadataDone ==
    ASSUME link \in Link, Stood(ToSet(image), WithCopies), PlaceMetadata
    PROVE  link' = link /\ Furnished'
<1>1. PICK S, c : S = ToSet(image) /\ c = WithCopies
  OBVIOUS
<1>2. link' = link
  BY DEF PlaceMetadata
<1>3. Stood(S, c)
  BY <1>1
<1>4. PICK M, X : /\ Outcome(link, S, M, X, relro')
                  /\ image' \in Seq(PieceType) /\ ToSet(image') = Whole(S, M, X)
                  /\ dynamic' = [address |-> M.address, size |-> M.size]
  BY <1>3, OutcomeReached
<1>5. Stocked(link, S, WithCopies)
  BY <1>1, <1>3 DEF Stood
<1>6. Made(S, M, X)'
  BY <1>2, <1>4, <1>5 DEF Made, WithCopies
<1> QED
  BY <1>2, <1>6 DEF Furnished

LEMMA ImageWritten ==
    ASSUME link \in Link, Furnished, WriteImage
    PROVE  /\ UNCHANGED <<link, image, relro, dynamic>>
           /\ \/ stage' = "failed" /\ error' = OutsideSegments /\ Torn
              \/ stage' = "load" /\ error' = error /\ Finished
<1>1. PICK S, M, X : Made(S, M, X)
  BY DEF Furnished
<1>0. PICK T : T = Whole(S, M, X)
  OBVIOUS
<1>2. PICK c \in BOOLEAN : T = Whole(S, M, X) /\ c = WithCopies
  BY <1>0 DEF WithCopies
<1>3. /\ Stocked(link, S, c) /\ Outcome(link, S, M, X, relro) /\ T = ToSet(image)
  BY <1>1, <1>2 DEF Made
<1>4. CASE relro # NoRange /\ ~InOneSegment(relro)
  <2>1. ~OneSegment(T, relro)
    BY <1>3, <1>4, SegmentsSame
  <2>2. Parted(link, S, c)
    BY <1>2, <1>3, <1>4, <2>1, RelroHeld
  <2>3. Within(S)
    BY <1>1, MadeWithin
  <2>4. Regions # {}
    BY <1>3, <2>2, <2>3, RegionBounds DEF Parted
  <2>5. Torn
    BY <1>2, <2>2, <2>4 DEF Torn, Parted
  <2>6. Fail(OutsideSegments)
    BY <1>4 DEF WriteImage, OutsideSegments
  <2> QED
    BY <2>5, <2>6 DEF Fail
<1>5. CASE ~(relro # NoRange /\ ~InOneSegment(relro))
  <2>1. relro = NoRange \/ OneSegment(T, relro)
    BY <1>3, <1>5, SegmentsSame
  <2>2. ~Parted(link, S, c)
    BY <1>2, <1>3, <2>1, RelroTorn
  <2>3. Finished
    BY <1>1, <1>2, <2>2 DEF Finished
  <2>4. stage' = "load" /\ UNCHANGED <<link, order, image, arrays, dynamic, interp, relro, ran, reached, error>>
    BY <1>5 DEF WriteImage
  <2> QED
    BY <2>3, <2>4
<1> QED
  BY <1>4, <1>5

LEMMA FurnishedSame ==
    ASSUME UNCHANGED <<link, image, relro, dynamic>>
    PROVE  /\ (Furnished => Furnished') /\ (Finished => Finished') /\ (Torn => Torn')
           /\ Stood(ToSet(image), WithCopies) => Stood(ToSet(image), WithCopies)'
<1>1. Regions' = Regions
  BY DEF Regions, RangeOf, Named
<1>2. \A S, M, X : Made(S, M, X)' <=> Made(S, M, X)
  BY DEF Made, WithCopies
<1>3. WithCopies' = WithCopies
  BY DEF WithCopies
<1> QED
  BY <1>1, <1>2, <1>3 DEF Furnished, Finished, Torn, Stood

LEMMA ImageInvHolds == ImageSpec => []ImageInv
<1>1. ImageInit => ImageInv
  BY ImageAssumption DEF ImageInit, ImageInv, OutsideSegments, Running
<1>2. ImageInv /\ [ImageNext]_imageVars => ImageInv'
  <2> SUFFICES ASSUME ImageInv, [ImageNext]_imageVars PROVE ImageInv'
    OBVIOUS
  <2>0. link \in Link
    BY DEF ImageInv
  <2>1. CASE OrderTail
    <3>1. stage = "order" /\ error = "none"
      BY <2>1 DEF OrderTail, ImageInv
    <3>2. CASE Fail("SharedPreinitUnsupported")
      BY <2>0, <3>1, <3>2 DEF Fail, ImageInv, OutsideSegments, Running
    <3>3. CASE ~Fail("SharedPreinitUnsupported")
      <4>1. PICK tail \in TailOrders(link.inputs) : order' = MoveTail(link.inputs, tail)
        BY <2>1, <3>3 DEF OrderTail
      <4>2. stage' = "place" /\ UNCHANGED <<link, image, arrays, dynamic, interp, relro, mem, ran, reached, error>>
        BY <2>1, <3>3 DEF OrderTail
      <4>3. Permutes(link, order')
        BY <2>0, <4>1, TailMoved
      <4>4. Permutes(link, order)'
        BY <4>2, <4>3
      <4> QED
        BY <2>0, <3>1, <4>2, <4>4 DEF ImageInv, OutsideSegments, Running
    <3> QED
      BY <3>2, <3>3
  <2>2. CASE PlaceSections
    <3>1. stage = "place" /\ error = "none" /\ Permutes(link, order)
      BY <2>2 DEF PlaceSections, ImageInv
    <3>2. Laid(link, Placed(PlacementOrder(link, Pieces(link, order))))
      BY <2>0, <3>1, LaidOut
    <3>3. /\ image' = Placed(PlacementOrder(link, Pieces(link, order))) /\ stage' = "copy"
          /\ link' = link /\ error' = error
      BY <2>2 DEF PlaceSections
    <3>4. Laid(link, image)'
      BY <3>2, <3>3
    <3> QED
      BY <2>0, <3>1, <3>3, <3>4 DEF ImageInv, OutsideSegments, Running
  <2>3. CASE AllocateCopies
    <3>1. stage = "copy" /\ error = "none" /\ Laid(link, image) /\ stage' = "collect" /\ error' = error
      BY <2>3 DEF AllocateCopies, ImageInv
    <3>2. link' = link /\ Stood(ToSet(image), link.copies # <<>>)'
      BY <2>0, <2>3, <3>1, CopiesPlaced
    <3>3. Stood(ToSet(image), WithCopies)'
      BY <3>2 DEF WithCopies
    <3> QED
      BY <2>0, <3>1, <3>2, <3>3 DEF ImageInv, OutsideSegments, Running
  <2>4. CASE CollectLifecycle
    <3>1. stage = "collect" /\ error = "none" /\ Stood(ToSet(image), WithCopies)
      BY <2>4 DEF CollectLifecycle, ImageInv
    <3>2. /\ UNCHANGED <<link, image, relro, dynamic>>
          /\ \/ stage' = "failed" /\ error' # OutsideSegments
             \/ stage' = "metadata" /\ error' = error
      BY <2>0, <2>4, LifecycleRefused
    <3>3. Stood(ToSet(image), WithCopies)'
      BY <3>1, <3>2, FurnishedSame
    <3> QED
      BY <2>0, <3>1, <3>2, <3>3 DEF ImageInv, OutsideSegments, Running
  <2>5. CASE PlaceMetadata
    <3>1. /\ stage = "metadata" /\ error = "none" /\ Stood(ToSet(image), WithCopies)
          /\ stage' = "write" /\ error' = error
      BY <2>5 DEF PlaceMetadata, ImageInv
    <3>2. link' = link /\ Furnished'
      BY <2>0, <2>5, <3>1, MetadataDone
    <3> QED
      BY <2>0, <3>1, <3>2 DEF ImageInv, OutsideSegments, Running
  <2>6. CASE WriteImage
    <3>1. stage = "write" /\ error = "none" /\ Furnished
      BY <2>6 DEF WriteImage, ImageInv
    <3>2. /\ UNCHANGED <<link, image, relro, dynamic>>
          /\ \/ stage' = "failed" /\ error' = OutsideSegments /\ Torn
             \/ stage' = "load" /\ error' = error /\ Finished
      BY <2>0, <2>6, <3>1, ImageWritten
    <3>3. (Finished => Finished') /\ (Torn => Torn')
      BY <3>2, FurnishedSame
    <3> QED
      BY <2>0, <3>1, <3>2, <3>3 DEF ImageInv, OutsideSegments, Running
  <2>7. ASSUME /\ UNCHANGED <<link, image, relro, dynamic>>
               /\ stage \in Running \ {"faulted"} /\ stage' \in Running
               /\ error' = IF stage' = "faulted" THEN "write to a sealed page" ELSE error
        PROVE  ImageInv'
    <3>1. Finished /\ error = "none"
      BY <2>7 DEF ImageInv, Running
    <3>2. Finished'
      BY <2>7, <3>1, FurnishedSame
    <3> QED
      BY <2>0, <2>7, <3>1, <3>2 DEF ImageInv, OutsideSegments, Running
  <2>8. CASE Load
    BY <2>7, <2>8 DEF Load, Running
  <2>9. CASE RunConstructors
    BY <2>7, <2>9 DEF RunConstructors, Running
  <2>10. CASE \E n \in 1 .. link.need.plt : Call(n)
    <3>1. /\ UNCHANGED <<link, image, relro, dynamic>> /\ stage = "running"
          /\ \/ stage' = "faulted" /\ error' = "write to a sealed page"
             \/ UNCHANGED <<stage, error>>
      BY <2>10 DEF Call
    <3> QED
      BY <2>7, <3>1 DEF Running
  <2>11. CASE RunDestructors
    BY <2>7, <2>11 DEF RunDestructors, Running
  <2>12. CASE UNCHANGED imageVars
    <3>1. /\ UNCHANGED <<link, image, relro, dynamic>> /\ UNCHANGED <<stage, order, error>>
      BY <2>12 DEF imageVars
    <3>2. /\ (Furnished => Furnished') /\ (Finished => Finished') /\ (Torn => Torn')
          /\ Stood(ToSet(image), WithCopies) => Stood(ToSet(image), WithCopies)'
      BY <3>1, FurnishedSame
    <3>3. Permutes(link, order)' = Permutes(link, order) /\ Laid(link, image)' = Laid(link, image)
      BY <3>1
    <3> QED
      BY <3>1, <3>2, <3>3 DEF ImageInv
  <2> QED
    BY <2>1, <2>2, <2>3, <2>4, <2>5, <2>6, <2>8, <2>9, <2>10, <2>11, <2>12 DEF ImageNext, Stopped
<1> QED
  BY <1>1, <1>2, PTL DEF ImageSpec

-----------------------------------------------------------------------------
LEMMA SealedFacts ==
    ASSUME link \in Link, NEW S, NEW M, NEW X, Made(S, M, X)
    PROVE  MetadataIsSealed <=> SealsMetadata(link, S)
<1> USE ImageAssumption
<1> DEFINE P == Protected(link, S)
<1>1. /\ Stocked(link, S, WithCopies) /\ Outcome(link, S, M, X, relro) /\ Within(S)
      /\ dynamic.address = M.address
  BY MadeWithin DEF Made
<1>2. S \in SUBSET PieceType /\ IsFiniteSet(S)
  BY <1>1 DEF Stocked
<1>3. EndOf(S) \in Nat /\ \A s \in S : End(s) <= EndOf(S)
  BY <1>2, EndOfIs
<1>4. M \in PieceType /\ M.address \in Nat
  BY <1>1, PieceNumbers DEF Outcome, IsMetadata
<1>5. ~link.bindNow => (P # {} <=> GotRelro(link))
  BY <1>1, NoneProtected
<1>6. ASSUME P # {}, link.pie PROVE M.address = RegionsEnd <=> Coal(link, S)
  <2>1. PICK q \in P : RegionsEnd = End(q) /\ \A s \in P : End(s) <= End(q)
    BY <1>1, <1>6, RegionBounds
  <2>2. q \in S /\ q \in PieceType /\ End(q) % Page = 0
    BY <1>1, <2>1, ProtectedIs
  <2>3. PICK e \in Nat, z \in Nat : e = End(q) /\ z = EndOf(S) /\ e <= z
    BY <1>3, <2>2, PieceNumbers
  <2>4. ASSUME Coal(link, S) PROVE M.address = RegionsEnd
    <3>1. PICK r \in P : End(r) = z
      BY <2>3, <2>4 DEF Coal
    <3>2. End(r) <= e
      BY <2>1, <2>3, <3>1
    <3>3. e = z
      BY <2>3, <3>1, <3>2
    <3>4. AlignUp(e, Page) = e
      BY <2>2, <2>3, AlignedUp
    <3>5. M.address = AlignUp(z, Page)
      BY <1>1, <2>3, <2>4 DEF Outcome
    <3> QED
      BY <2>1, <2>3, <3>3, <3>4, <3>5
  <2>5. ASSUME ~Coal(link, S) PROVE M.address # RegionsEnd
    <3>1. PICK x \in X : Between(S, x, M)
      BY <1>1, <1>6, <2>5 DEF Outcome
    <3>2. x \in PieceType /\ x.size # 0
      BY <1>1, <3>1 DEF Outcome, IsExtra
    <3>3. x.address \in Nat /\ x.size \in Nat /\ End(x) = x.address + x.size
      BY <3>2, PieceNumbers
    <3>4. z <= x.address /\ End(x) <= M.address
      BY <2>3, <3>1 DEF Between
    <3> QED
      BY <1>4, <2>1, <2>3, <3>2, <3>3, <3>4
  <2> QED
    BY <2>4, <2>5
<1> QED
  BY <1>1, <1>5, <1>6 DEF MetadataIsSealed, SealsMetadata

(* What the loader is done with when it hands over is read-only from then  *)
(* on, and what the program or the lazy resolver still writes is not: for  *)
(* every choice of sections, tables, policy and page size; and the only    *)
(* images that cannot be written so are those bound now whose COPY storage *)
(* parts the protected tables from the metadata.                           *)
THEOREM StartupOnlyIsSealed == ImageSpec => []SealedIffStartupOnly
<1>1. ImageInv => SealedIffStartupOnly
  <2> SUFFICES ASSUME ImageInv PROVE SealedIffStartupOnly
    OBVIOUS
  <2>1. error = "MetadataRangeOutsideLoadSegments" => link.bindNow /\ link.copies # <<>> /\ Regions # {}
    BY DEF ImageInv, Torn, WithCopies, OutsideSegments
  <2>2. ASSUME stage \in {"start", "running", "ended"},
               NEW s \in ToSet(image), s.perm = "RW", NEW a \in s.address .. End(s) - 1
        PROVE  Sealed(a) = StartupOnly(s.what)
    <3>1. link \in Link /\ Finished
      BY <2>2 DEF ImageInv, Running
    <3>2. PICK S, M, X : Made(S, M, X) /\ ~Parted(link, S, WithCopies)
      BY <3>1 DEF Finished
    <3>3. PICK c \in BOOLEAN : c = WithCopies
      BY DEF WithCopies
    <3>4. Stocked(link, S, c) /\ Outcome(link, S, M, X, relro) /\ ~Parted(link, S, c) /\ s \in Whole(S, M, X)
      BY <2>2, <3>2, <3>3 DEF Made
    <3>5. SealedIn(relro, a) <=> Startup(link, S, s.what)
      BY <2>2, <3>1, <3>3, <3>4, RelroSealed
    <3>6. MetadataIsSealed <=> SealsMetadata(link, S)
      BY <3>1, <3>2, SealedFacts
    <3>7. Startup(link, S, s.what) <=> StartupOnly(s.what)
      BY <3>6 DEF Startup, StartupOnly
    <3>8. Sealed(a) \in BOOLEAN /\ StartupOnly(s.what) \in BOOLEAN
      BY DEF Sealed, StartupOnly
    <3> QED
      BY <3>5, <3>7, <3>8 DEF Sealed, SealedIn
  <2> QED
    BY <2>1, <2>2 DEF SealedIffStartupOnly
<1> QED
  BY <1>1, ImageInvHolds, PTL

-----------------------------------------------------------------------------
(* The GOT in words: each use has its own, and together they fill it.      *)
GotWordsOf(r) == r.got + r.ie + 2 * (r.gd + r.ld + r.desc)
Stands(r, c, n, i) ==
    \/ c = "got"  /\ n \in 1 .. r.got  /\ i = n - 1
    \/ c = "ie"   /\ n \in 1 .. r.ie   /\ i = r.got + n - 1
    \/ c = "gd"   /\ n \in 1 .. r.gd   /\ i = r.got + r.ie + 2 * (n - 1)
    \/ c = "ld"   /\ n \in 1 .. r.ld   /\ i = r.got + r.ie + 2 * r.gd
    \/ c = "desc" /\ n \in 1 .. r.desc /\ i = r.got + r.ie + 2 * (r.gd + r.ld + n - 1)
Wide(c) == c \notin {"got", "ie"}

LEMMA RequestIs ==
    ASSUME NEW r \in Request
    PROVE  /\ r.got \in Nat /\ r.ie \in Nat /\ r.gd \in Nat /\ r.ld \in Nat /\ r.ld <= 1
           /\ r.desc \in Nat /\ r.plt \in Nat
           /\ GotWordsOf(r) \in Nat /\ GotSize(r) = 8 * GotWordsOf(r)
           /\ GotSize(r) \div Word = GotWordsOf(r)
<1>1. /\ r.got \in Nat /\ r.ie \in Nat /\ r.gd \in Nat /\ r.ld \in Nat /\ r.ld <= 1
      /\ r.desc \in Nat /\ r.plt \in Nat
  BY DEF Request
<1>2. PICK k \in Nat : k = GotWordsOf(r)
  BY <1>1 DEF GotWordsOf
<1>3. GotSize(r) = 8 * k
  BY <1>1, <1>2 DEF GotSize, GotWordsOf, FixedGot, Word, Pair
<1>4. (8 * k) \div 8 = k
  OBVIOUS
<1> QED
  BY <1>1, <1>2, <1>3, <1>4 DEF Word

LEMMA UseStands ==
    ASSUME NEW r \in Request, NEW u \in Uses(r)
    PROVE  \E i \in Nat : /\ Stands(r, u[1], u[2], i) /\ GotOffset(r, u) = 8 * i
                          /\ GotWords(u) = IF Wide(u[1]) THEN {0, 8} ELSE {0}
                          /\ u = <<u[1], u[2]>>
<1>1. /\ r.got \in Nat /\ r.ie \in Nat /\ r.gd \in Nat /\ r.ld \in Nat /\ r.ld <= 1 /\ r.desc \in Nat
  BY RequestIs
<1>2. PICK c, n : c = u[1] /\ n = u[2]
  OBVIOUS
<1>3. u = <<c, n>> /\ n \in Nat \ {0}
  BY <1>1, <1>2 DEF Uses
<1>4. GotWords(u) = IF Wide(c) THEN {0, 8} ELSE {0}
  BY <1>2 DEF GotWords, Wide, Word
<1>5. \/ c = "got"  /\ n \in 1 .. r.got
      \/ c = "ie"   /\ n \in 1 .. r.ie
      \/ c = "gd"   /\ n \in 1 .. r.gd
      \/ c = "ld"   /\ n \in 1 .. r.ld
      \/ c = "desc" /\ n \in 1 .. r.desc
  BY <1>2 DEF Uses
<1>6. CASE c = "got"
  <2>1. GotOffset(r, u) = 8 * (n - 1)
    BY <1>2, <1>6 DEF GotOffset, Word
  <2> QED
    BY <1>1, <1>2, <1>3, <1>4, <1>5, <1>6, <2>1 DEF Stands
<1>7. CASE c = "ie"
  <2>1. GotOffset(r, u) = 8 * (r.got + (n - 1))
    BY <1>2, <1>7 DEF GotOffset, Word
  <2>2. r.got + (n - 1) = r.got + n - 1 /\ r.got + n - 1 \in Nat
    BY <1>1, <1>3
  <2> QED
    BY <1>2, <1>3, <1>4, <1>5, <1>7, <2>1, <2>2 DEF Stands
<1>8. CASE c = "gd"
  <2>1. GotOffset(r, u) = FixedGot(r) + 16 * (n - 1)
    BY <1>2, <1>8 DEF GotOffset, Pair
  <2>2. PICK i \in Nat : i = r.got + r.ie + 2 * (n - 1)
    BY <1>1, <1>3
  <2>3. GotOffset(r, u) = 8 * i
    BY <1>1, <1>3, <2>1, <2>2 DEF FixedGot, Word
  <2> QED
    BY <1>2, <1>3, <1>4, <1>5, <1>8, <2>2, <2>3 DEF Stands
<1>9. CASE c = "ld"
  <2>1. GotOffset(r, u) = FixedGot(r) + 16 * r.gd
    BY <1>2, <1>9 DEF GotOffset, Pair
  <2>2. PICK i \in Nat : i = r.got + r.ie + 2 * r.gd
    BY <1>1
  <2>3. GotOffset(r, u) = 8 * i
    BY <1>1, <2>1, <2>2 DEF FixedGot, Word
  <2> QED
    BY <1>2, <1>3, <1>4, <1>5, <1>9, <2>2, <2>3 DEF Stands
<1>10. CASE c = "desc"
  <2>1. GotOffset(r, u) = FixedGot(r) + 16 * (r.gd + r.ld + (n - 1))
    BY <1>2, <1>10 DEF GotOffset, Pair
  <2>2. PICK i \in Nat : i = r.got + r.ie + 2 * (r.gd + r.ld + n - 1)
    BY <1>1, <1>3
  <2>3. GotOffset(r, u) = 8 * i
    BY <1>1, <1>3, <2>1, <2>2 DEF FixedGot, Word
  <2> QED
    BY <1>2, <1>3, <1>4, <1>5, <1>10, <2>2, <2>3 DEF Stands
<1> QED
  BY <1>5, <1>6, <1>7, <1>8, <1>9, <1>10

LEMMA OneWordEach ==
    ASSUME NEW r \in Request, NEW c, NEW d, NEW n, NEW m, NEW i \in Nat, NEW j \in Nat,
           Stands(r, c, n, i), Stands(r, d, m, j), NEW x \in {0, 1}, NEW y \in {0, 1},
           x = 1 => Wide(c), y = 1 => Wide(d)
    PROVE  /\ i + x < GotWordsOf(r)
           /\ i + x = j + y => c = d /\ n = m /\ x = y
<1>1. /\ r.got \in Nat /\ r.ie \in Nat /\ r.gd \in Nat /\ r.ld \in Nat /\ r.ld <= 1 /\ r.desc \in Nat
  BY RequestIs
<1>2. n \in Nat \ {0} /\ m \in Nat \ {0}
  BY <1>1 DEF Stands
<1>3. i + x < GotWordsOf(r)
  BY <1>1, <1>2 DEF Stands, Wide, GotWordsOf
<1>4. ASSUME i + x = j + y PROVE c = d /\ n = m /\ x = y
  BY <1>1, <1>2, <1>4 DEF Stands, Wide
<1> QED
  BY <1>3, <1>4

(* The code of a lazy entry pushes the entry's own number.                 *)
LEMMA PushesItsOwn ==
    ASSUME NEW r \in Request, NEW ibt \in BOOLEAN, NEW n \in 1 .. r.plt, NEW p \in Nat
    PROVE  Pushes(r, ibt, p + LazyOffset(ibt, n) - p) = n
<1>1. n \in Nat /\ r.plt \in Nat
  BY RequestIs
<1>2. PICK o \in Nat : o = LazyOffset(ibt, n)
  BY <1>1 DEF LazyOffset, StubOffset, Plt0, EntrySize, PltEntry
<1>3. p + o - p = o
  OBVIOUS
<1>4. ASSUME NEW m \in 1 .. r.plt
      PROVE  (o - StubOffset(ibt, m) \in IF ibt THEN {16, 20} ELSE {6}) <=> m = n
  <2>1. m \in Nat
    BY <1>1
  <2>2. CASE ibt
    <3>1. o = 16 + 32 * (n - 1) + 16 /\ StubOffset(ibt, m) = 16 + 32 * (m - 1)
      BY <1>2, <2>2 DEF LazyOffset, StubOffset, Plt0, EntrySize, PltEntry
    <3>2. PICK d \in Int : d = n - m
      BY <1>1, <2>1
    <3>3. o - StubOffset(ibt, m) = 32 * d + 16
      BY <1>1, <2>1, <3>1, <3>2
    <3>4. 32 * d + 16 \in {16, 20} <=> d = 0
      OBVIOUS
    <3>5. (IF ibt THEN {16, 20} ELSE {6}) = {16, 20}
      BY <2>2
    <3>6. d = 0 <=> m = n
      BY <1>1, <2>1, <3>2
    <3> QED
      BY <3>3, <3>4, <3>5, <3>6
  <2>3. CASE ~ibt
    <3>1. o = 16 + 16 * (n - 1) + 6 /\ StubOffset(ibt, m) = 16 + 16 * (m - 1)
      BY <1>2, <2>3 DEF LazyOffset, StubOffset, Plt0, EntrySize, PltEntry
    <3>2. PICK d \in Int : d = n - m
      BY <1>1, <2>1
    <3>3. o - StubOffset(ibt, m) = 16 * d + 6
      BY <1>1, <2>1, <3>1, <3>2
    <3>4. 16 * d + 6 \in {6} <=> d = 0
      OBVIOUS
    <3> QED
      BY <1>1, <2>1, <2>3, <3>2, <3>3, <3>4
  <2> QED
    BY <2>2, <2>3
<1>5. PICK at : at = {m \in 1 .. r.plt : o - StubOffset(ibt, m) \in IF ibt THEN {16, 20} ELSE {6}}
  OBVIOUS
<1>6. at = {n}
  BY <1>4, <1>5
<1>7. Pushes(r, ibt, o) = n
  BY <1>5, <1>6 DEF Pushes
<1> QED
  BY <1>2, <1>3, <1>7

-----------------------------------------------------------------------------
(* The words of the tables in the image: every use has its own.            *)
LEMMA GotSited ==
    ASSUME link \in Link, NEW S, NEW M, NEW X, Made(S, M, X), UsesGot(link)
    PROVE  \E g \in S : /\ g.what = "got" /\ g \in PieceType /\ AddressOf("got") = g.address
                        /\ GotSize(link.need) <= g.size
<1>1. Stocked(link, S, WithCopies) /\ Within(S)
  BY MadeWithin DEF Made
<1>2. PICK g \in S : g.what = "got"
  BY <1>1 DEF Stocked, Present
<1>3. g \in PieceType /\ Shape(link, g)
  BY <1>1, <1>2 DEF Stocked, Five
<1>4. GotSize(link.need) <= g.size
  <2>1. g.size >= GotSize(link.need)
    BY <1>2, <1>3 DEF Shape, TablePiece
  <2>2. g.size \in Nat /\ GotSize(link.need) \in Nat
    BY <1>3, PieceNumbers, NeedSizes
  <2> QED
    BY <2>1, <2>2
<1>5. PICK w : w = "got"
  OBVIOUS
<1>6. w \in Five \ {"input"} /\ g.what = w
  BY <1>2, <1>5 DEF Five
<1>7. AddressOf(w) = g.address
  BY <1>1, <1>6, TableAt
<1> QED
  BY <1>2, <1>3, <1>4, <1>5, <1>7

LEMMA SlotsSited ==
    ASSUME link \in Link, NEW S, NEW M, NEW X, Made(S, M, X), link.need.plt # 0
    PROVE  /\ \E p \in S : /\ p.what = "pltgot" /\ p \in PieceType /\ p.perm = "RW"
                           /\ AddressOf("pltgot") = p.address /\ PltGotSize(link.need) <= p.size
           /\ AddressOf("plt") \in Nat
<1>1. Stocked(link, S, WithCopies) /\ Within(S)
  BY MadeWithin DEF Made
<1>2. PICK p \in S : p.what = "pltgot"
  BY <1>1 DEF Stocked, Present
<1>3. p \in PieceType /\ Shape(link, p)
  BY <1>1, <1>2 DEF Stocked, Five
<1>4. PltGotSize(link.need) <= p.size /\ p.perm = "RW"
  <2>1. p.size >= PltGotSize(link.need) /\ p.perm = "RW"
    BY <1>2, <1>3 DEF Shape, TablePiece
  <2>2. p.size \in Nat /\ PltGotSize(link.need) \in Nat
    BY <1>3, PieceNumbers, NeedSizes
  <2> QED
    BY <2>1, <2>2
<1>5. PICK w, v : w = "pltgot" /\ v = "plt"
  OBVIOUS
<1>6. w \in Five \ {"input"} /\ p.what = w
  BY <1>2, <1>5 DEF Five
<1>7. AddressOf(w) = p.address
  BY <1>1, <1>6, TableAt
<1>8. PICK q \in S : q.what = "plt"
  BY <1>1 DEF Stocked, Present
<1>9. v \in Five \ {"input"} /\ q.what = v
  BY <1>5, <1>8 DEF Five
<1>10. AddressOf(v) = q.address
  BY <1>1, <1>9, TableAt
<1>11. q.address \in Nat
  BY <1>1, <1>8, PieceNumbers DEF Stocked
<1> QED
  BY <1>2, <1>3, <1>4, <1>5, <1>7, <1>10, <1>11

WordsOwned ==
    /\ \A u \in Uses(link.need) : \A w \in GotWords(u) : GotAt(u, w) \in GotWordsAt
    /\ \A u, v \in Uses(link.need) : \A w \in GotWords(u), x \in GotWords(v) :
         GotAt(u, w) = GotAt(v, x) => u = v /\ w = x
SlotsOwned ==
    /\ \A n \in 1 .. link.need.plt : SlotAt(n) \in SlotsAt \ GotWordsAt
    /\ \A n, m \in 1 .. link.need.plt : SlotAt(n) = SlotAt(m) => n = m
    /\ link.need.plt # 0 => AddressOf("plt") \in Nat
SlotsOpen == link.bindNow \/ \A n \in 1 .. link.need.plt : ~Sealed(SlotAt(n))

LEMMA OwnWords ==
    ASSUME link \in Link, Furnished
    PROVE  WordsOwned
<1>1. PICK S, M, X : Made(S, M, X)
  BY DEF Furnished
<1>2. PICK r \in Request : r = link.need
  BY DEF Link
<1>3. ASSUME NEW u \in Uses(r), NEW w \in GotWords(u)
      PROVE  \E i \in Nat, x \in {0, 1} :
               /\ Stands(r, u[1], u[2], i) /\ w = 8 * x /\ (x = 1 => Wide(u[1]))
               /\ GotOffset(r, u) + w = 8 * (i + x) /\ i + x < GotWordsOf(r)
               /\ u = <<u[1], u[2]>>
  <2>1. PICK i \in Nat : /\ Stands(r, u[1], u[2], i) /\ GotOffset(r, u) = 8 * i
                         /\ GotWords(u) = IF Wide(u[1]) THEN {0, 8} ELSE {0}
                         /\ u = <<u[1], u[2]>>
    BY UseStands
  <2>2. PICK x \in {0, 1} : w = 8 * x /\ (x = 1 => Wide(u[1]))
    <3>1. CASE w = 0
      BY <3>1
    <3>2. CASE w # 0
      <4>1. w = 8 /\ Wide(u[1])
        BY <1>3, <2>1, <3>2
      <4> QED
        BY <4>1
    <3> QED
      BY <3>1, <3>2
  <2>3. i + x < GotWordsOf(r)
    BY <2>1, <2>2, OneWordEach
  <2>4. GotOffset(r, u) + w = 8 * (i + x)
    BY <2>1, <2>2
  <2> QED
    BY <2>1, <2>2, <2>3, <2>4
<1>4. ASSUME NEW u \in Uses(r) PROVE AddressOf("got") \in Nat /\ UsesGot(link)
  <2>1. PICK i \in Nat : Stands(r, u[1], u[2], i)
    BY UseStands
  <2>2. i + 0 < GotWordsOf(r)
    BY <2>1, OneWordEach
  <2>3. GotSize(r) # 0
    BY <2>2, RequestIs
  <2>4. UsesGot(link)
    BY <1>2, <2>3 DEF UsesGot
  <2>5. PICK g \in PieceType : AddressOf("got") = g.address
    BY <1>1, <2>4, GotSited
  <2> QED
    BY <2>4, <2>5, PieceNumbers
<1>5. ASSUME NEW u \in Uses(r), NEW w \in GotWords(u) PROVE GotAt(u, w) \in GotWordsAt
  <2>1. PICK b \in Nat : b = AddressOf("got")
    BY <1>4
  <2>2. PICK k \in Nat : GotOffset(r, u) + w = 8 * k /\ k < GotWordsOf(r)
    <3>1. PICK i \in Nat, x \in {0, 1} : GotOffset(r, u) + w = 8 * (i + x) /\ i + x < GotWordsOf(r)
      BY <1>3
    <3> QED
      BY <3>1
  <2>3. GotWordsOf(r) \in Nat /\ GotSize(r) \div Word = GotWordsOf(r)
    BY RequestIs
  <2>4. k \in 0 .. (GotSize(r) \div Word) - 1
    BY <2>2, <2>3
  <2>5. GotAt(u, w) = b + Word * k
    <3>1. GotOffset(r, u) \in Nat /\ w \in Nat
      <4>1. PICK i \in Nat : GotOffset(r, u) = 8 * i /\ GotWords(u) = IF Wide(u[1]) THEN {0, 8} ELSE {0}
        BY UseStands
      <4> QED
        BY <1>5, <4>1
    <3>2. GotAt(u, w) = b + GotOffset(r, u) + w
      BY <1>2, <2>1 DEF GotAt
    <3> QED
      BY <2>2, <3>1, <3>2 DEF Word
  <2> QED
    BY <1>2, <1>4, <2>1, <2>4, <2>5 DEF GotWordsAt
<1>6. ASSUME NEW u \in Uses(r), NEW v \in Uses(r), NEW w \in GotWords(u), NEW x \in GotWords(v),
             GotAt(u, w) = GotAt(v, x)
      PROVE  u = v /\ w = x
  <2>1. PICK b \in Nat : b = AddressOf("got")
    BY <1>4
  <2>2. PICK i \in Nat, y \in {0, 1} :
               /\ Stands(r, u[1], u[2], i) /\ w = 8 * y /\ (y = 1 => Wide(u[1]))
               /\ GotOffset(r, u) + w = 8 * (i + y) /\ u = <<u[1], u[2]>>
    BY <1>3
  <2>3. PICK j \in Nat, z \in {0, 1} :
               /\ Stands(r, v[1], v[2], j) /\ x = 8 * z /\ (z = 1 => Wide(v[1]))
               /\ GotOffset(r, v) + x = 8 * (j + z) /\ v = <<v[1], v[2]>>
    BY <1>3
  <2>4. /\ GotOffset(r, u) \in Nat /\ GotOffset(r, v) \in Nat
    <3>1. \A t \in Uses(r) : \E h \in Nat : GotOffset(r, t) = 8 * h
      BY UseStands
    <3> QED
      BY <3>1
  <2>5. GotAt(u, w) = b + 8 * (i + y) /\ GotAt(v, x) = b + 8 * (j + z)
    <3>1. GotAt(u, w) = b + GotOffset(r, u) + w /\ GotAt(v, x) = b + GotOffset(r, v) + x
      BY <1>2, <2>1 DEF GotAt
    <3> QED
      BY <2>2, <2>3, <2>4, <3>1
  <2>6. i + y = j + z
    <3>1. PICK e \in Nat, f \in Nat : e = i + y /\ f = j + z
      OBVIOUS
    <3>2. b + 8 * e = b + 8 * f
      BY <1>6, <2>5, <3>1
    <3>3. e = f
      BY <3>2
    <3> QED
      BY <3>1, <3>3
  <2>7. u[1] = v[1] /\ u[2] = v[2] /\ y = z
    BY <2>2, <2>3, <2>6, OneWordEach
  <2> QED
    BY <2>2, <2>3, <2>7
<1> QED
  BY <1>2, <1>5, <1>6 DEF WordsOwned

LEMMA SlotIs ==
    ASSUME link \in Link, NEW S, NEW M, NEW X, Made(S, M, X), NEW n \in 1 .. link.need.plt
    PROVE  \E p \in S : /\ p.what = "pltgot" /\ p \in PieceType /\ p.perm = "RW"
                        /\ SlotAt(n) = p.address + 24 + 8 * (n - 1)
                        /\ SlotAt(n) \in p.address .. End(p) - 1
<1>1. PICK r \in Request : r = link.need
  BY DEF Link
<1>2. n \in Nat /\ r.plt \in Nat /\ r.plt # 0 /\ n <= r.plt /\ 1 <= n
  <2>1. r.plt \in Nat
    BY RequestIs
  <2> QED
    BY <1>1, <2>1
<1>3. PICK p \in S : /\ p.what = "pltgot" /\ p \in PieceType /\ p.perm = "RW"
                     /\ AddressOf("pltgot") = p.address /\ PltGotSize(link.need) <= p.size
  BY <1>1, <1>2, SlotsSited
<1>4. PICK a \in Nat, z \in Nat : a = p.address /\ z = p.size /\ End(p) = a + z
  BY <1>3, PieceNumbers
<1>5. 24 + 8 * r.plt <= z
  BY <1>1, <1>2, <1>3, <1>4 DEF PltGotSize, Reserved, Word
<1>6. SlotAt(n) = a + (24 + 8 * (n - 1))
  BY <1>3, <1>4 DEF SlotAt, SlotOffset, Reserved, Word
<1>7. SlotAt(n) = a + 24 + 8 * (n - 1) /\ SlotAt(n) \in a .. a + z - 1
  BY <1>2, <1>5, <1>6
<1> QED
  BY <1>3, <1>4, <1>7

LEMMA OwnSlots ==
    ASSUME link \in Link, Furnished
    PROVE  SlotsOwned
<1>1. PICK S, M, X : Made(S, M, X)
  BY DEF Furnished
<1>2. PICK r \in Request : r = link.need
  BY DEF Link
<1>3. r.plt \in Nat /\ GotWordsOf(r) \in Nat /\ GotSize(r) = 8 * GotWordsOf(r) /\ GotSize(r) \div Word = GotWordsOf(r)
  BY RequestIs
<1>4. ASSUME NEW n \in 1 .. r.plt PROVE SlotAt(n) \in SlotsAt
  BY <1>2, <1>3, <1>4 DEF SlotsAt
<1>5. ASSUME NEW n \in 1 .. r.plt, SlotAt(n) \in GotWordsAt PROVE FALSE
  <2>1. PICK p \in S : p.what = "pltgot" /\ p \in PieceType /\ SlotAt(n) \in p.address .. End(p) - 1
    BY <1>1, <1>2, SlotIs
  <2>2. UsesGot(link)
    BY <1>5 DEF GotWordsAt
  <2>3. PICK g \in S : /\ g.what = "got" /\ g \in PieceType /\ AddressOf("got") = g.address
                       /\ GotSize(link.need) <= g.size
    BY <1>1, <2>2, GotSited
  <2>4. Apart(p, g)
    BY <1>1, <2>1, <2>3 DEF Made, Stocked
  <2>5. PICK a \in Nat, z \in Nat : a = g.address /\ z = g.size /\ End(g) = a + z
    BY <2>3, PieceNumbers
  <2>6. PICK b \in Nat, e \in Nat : b = p.address /\ e = End(p)
    BY <2>1, PieceNumbers
  <2>7. PICK k \in 0 .. GotWordsOf(r) - 1 : SlotAt(n) = a + 8 * k
    BY <1>2, <1>3, <1>5, <2>2, <2>3, <2>5 DEF GotWordsAt, Word
  <2>8. 8 * GotWordsOf(r) <= z
    BY <1>2, <1>3, <2>3, <2>5
  <2>9. a + 8 * k < a + z
    BY <1>3, <2>7, <2>8
  <2> QED
    BY <1>3, <2>1, <2>4, <2>5, <2>6, <2>7, <2>9 DEF Apart
<1>6. ASSUME NEW n \in 1 .. r.plt, NEW m \in 1 .. r.plt, SlotAt(n) = SlotAt(m) PROVE n = m
  <2>1. PICK p \in S : p.what = "pltgot" /\ p \in PieceType /\ SlotAt(n) = p.address + 24 + 8 * (n - 1)
    BY <1>1, <1>2, SlotIs
  <2>2. PICK q \in S : q.what = "pltgot" /\ q \in PieceType /\ SlotAt(m) = q.address + 24 + 8 * (m - 1)
    BY <1>1, <1>2, SlotIs
  <2>3. p = q
    <3>1. Unique(S) /\ \A s \in S : s.what = "pltgot" => s.n = 0
      BY <1>1 DEF Made, Stocked, Shape
    <3> QED
      BY <2>1, <2>2, <3>1 DEF Unique
  <2>4. PICK a \in Nat : a = p.address
    BY <2>1, PieceNumbers
  <2>5. a + 24 + 8 * (n - 1) = a + 24 + 8 * (m - 1)
    BY <1>6, <2>1, <2>2, <2>3, <2>4
  <2>6. n \in Nat /\ m \in Nat
    BY <1>3
  <2> QED
    BY <2>5, <2>6
<1>7. link.need.plt # 0 => AddressOf("plt") \in Nat
  BY <1>1, SlotsSited
<1> QED
  BY <1>2, <1>4, <1>5, <1>6, <1>7 DEF SlotsOwned

LEMMA OpenSlots ==
    ASSUME link \in Link, Finished
    PROVE  SlotsOpen
<1>1. PICK S, M, X : Made(S, M, X) /\ ~Parted(link, S, WithCopies)
  BY DEF Finished
<1>2. PICK c \in BOOLEAN : c = WithCopies
  BY DEF WithCopies
<1>3. Stocked(link, S, c) /\ Outcome(link, S, M, X, relro) /\ ~Parted(link, S, c)
  BY <1>1, <1>2 DEF Made
<1>4. ASSUME ~link.bindNow, NEW n \in 1 .. link.need.plt PROVE ~Sealed(SlotAt(n))
  <2>1. PICK p \in S : p.what = "pltgot" /\ p.perm = "RW" /\ SlotAt(n) \in p.address .. End(p) - 1
    BY <1>1, SlotIs
  <2>2. p \in Whole(S, M, X)
    BY <2>1 DEF Whole
  <2>3. PICK a : a = SlotAt(n)
    OBVIOUS
  <2>4. SealedIn(relro, a) <=> Startup(link, S, p.what)
    BY <1>3, <2>1, <2>2, <2>3, RelroSealed
  <2>5. ~Startup(link, S, p.what)
    BY <1>4, <2>1 DEF Startup
  <2> QED
    BY <2>3, <2>4, <2>5 DEF Sealed, SealedIn
<1> QED
  BY <1>4 DEF SlotsOpen

-----------------------------------------------------------------------------
(* What the words hold, from the file to the program's end.                *)
LazyAt(n) == Lazy(AddressOf("plt") + LazyOffset(IbtPlt(link), n))
FiledWords ==
    /\ DOMAIN mem = GotWordsAt \cup SlotsAt
    /\ \A n \in 1 .. link.need.plt : mem[SlotAt(n)] = LazyAt(n)
GotIsBound ==
    \A use \in Uses(link.need) : \A w \in GotWords(use) :
      GotAt(use, w) \in DOMAIN mem /\ mem[GotAt(use, w)] = <<use[1], use[2], w>>
SlotsLead ==
    \A n \in 1 .. link.need.plt :
      /\ SlotAt(n) \in DOMAIN mem
      /\ mem[SlotAt(n)] = Function(n) \/ (~link.bindNow /\ mem[SlotAt(n)] = LazyAt(n))
MemInv ==
    /\ stage = "load" => FiledWords
    /\ stage \in {"start", "running", "ended"} => GotIsBound /\ SlotsLead
    /\ stage # "faulted" /\ \A c \in reached : c[1] = c[2]

LEMMA PlacesSame ==
    ASSUME UNCHANGED <<link, image>>
    PROVE  /\ \A u, w : GotAt(u, w)' = GotAt(u, w)
           /\ \A n : SlotAt(n)' = SlotAt(n) /\ LazyAt(n)' = LazyAt(n)
           /\ GotWordsAt' = GotWordsAt /\ SlotsAt' = SlotsAt
<1>1. AddressOf("got")' = AddressOf("got") /\ AddressOf("pltgot")' = AddressOf("pltgot")
      /\ AddressOf("plt")' = AddressOf("plt")
  BY DEF AddressOf, Named
<1>2. \A n : SlotAt(n)' = SlotAt(n)
  BY <1>1 DEF SlotAt
<1>3. GotWordsAt' = GotWordsAt
  BY <1>1 DEF GotWordsAt
<1>4. SlotsAt' = SlotsAt
  BY <1>2 DEF SlotsAt
<1>5. \A n : LazyAt(n)' = LazyAt(n)
  BY <1>1 DEF LazyAt
<1>6. \A u, w : GotAt(u, w)' = GotAt(u, w)
  BY <1>1 DEF GotAt
<1> QED
  BY <1>2, <1>3, <1>4, <1>5, <1>6

LEMMA WordsFiled ==
    ASSUME SlotsOwned, WriteImage, stage' = "load"
    PROVE  FiledWords'
<1>1. UNCHANGED <<link, image>>
  BY DEF WriteImage, Fail
<1>2. mem' = [a \in GotWordsAt \cup SlotsAt |->
                IF a \in GotWordsAt THEN Empty
                ELSE LET n == CHOOSE m \in 1 .. link.need.plt : SlotAt(m) = a
                     IN Lazy(AddressOf("plt") + LazyOffset(IbtPlt(link), n))]
  BY DEF WriteImage, Fail
<1>3. ASSUME NEW n \in 1 .. link.need.plt PROVE mem'[SlotAt(n)] = LazyAt(n)
  <2>1. SlotAt(n) \in SlotsAt /\ SlotAt(n) \notin GotWordsAt
    BY DEF SlotsOwned
  <2>2. PICK a : a = SlotAt(n)
    OBVIOUS
  <2>3. (CHOOSE m \in 1 .. link.need.plt : SlotAt(m) = a) = n
    BY <2>2 DEF SlotsOwned
  <2>4. mem'[a] = Lazy(AddressOf("plt") + LazyOffset(IbtPlt(link), CHOOSE m \in 1 .. link.need.plt : SlotAt(m) = a))
    BY <1>2, <2>1, <2>2
  <2> QED
    BY <2>2, <2>3, <2>4 DEF LazyAt
<1>4. DOMAIN mem' = GotWordsAt \cup SlotsAt
  BY <1>2
<1> QED
  BY <1>1, <1>3, <1>4, PlacesSame DEF FiledWords

HereAt(a) == {h \in Uses(link.need) \X {0, Word} : h[2] \in GotWords(h[1]) /\ GotAt(h[1], h[2]) = a}
SlotsHere(a) == {n \in 1 .. link.need.plt : SlotAt(n) = a}

LEMMA WordsLoaded ==
    ASSUME WordsOwned, SlotsOwned, FiledWords, Load
    PROVE  (GotIsBound /\ SlotsLead)'
<1>1. UNCHANGED <<link, image>>
  BY DEF Load
<1>2. mem' = [a \in DOMAIN mem |->
                IF HereAt(a) # {} THEN <<(CHOOSE x \in HereAt(a) : TRUE)[1][1],
                                         (CHOOSE x \in HereAt(a) : TRUE)[1][2],
                                         (CHOOSE x \in HereAt(a) : TRUE)[2]>>
                ELSE IF link.bindNow /\ SlotsHere(a) # {} THEN Function(CHOOSE n \in SlotsHere(a) : TRUE)
                ELSE mem[a]]
  BY Zenon DEF Load, HereAt, SlotsHere
<1>3. ASSUME NEW u \in Uses(link.need), NEW w \in GotWords(u)
      PROVE  GotAt(u, w) \in DOMAIN mem' /\ mem'[GotAt(u, w)] = <<u[1], u[2], w>>
  <2>1. PICK a, h : a = GotAt(u, w) /\ h = <<u, w>>
    OBVIOUS
  <2>2. a \in DOMAIN mem
    BY <2>1 DEF FiledWords, WordsOwned
  <2>3. w \in {0, Word}
    BY DEF GotWords
  <2>4. h \in HereAt(a)
    BY <2>1, <2>3 DEF HereAt
  <2>5. ASSUME NEW x \in HereAt(a) PROVE x = h
    <3>1. x[1] \in Uses(link.need) /\ x[2] \in GotWords(x[1]) /\ GotAt(x[1], x[2]) = a /\ x = <<x[1], x[2]>>
      BY <2>5 DEF HereAt
    <3>2. x[1] = u /\ x[2] = w
      BY <2>1, <3>1 DEF WordsOwned
    <3> QED
      BY <2>1, <3>1, <3>2
  <2>6. (CHOOSE x \in HereAt(a) : TRUE) = h /\ HereAt(a) # {}
    BY <2>4, <2>5
  <2>7. mem'[a] = <<h[1][1], h[1][2], h[2]>>
    BY <1>2, <2>2, <2>6
  <2>8. h[1] = u /\ h[2] = w
    BY <2>1
  <2> QED
    BY <1>2, <2>1, <2>2, <2>7, <2>8
<1>4. ASSUME NEW n \in 1 .. link.need.plt
      PROVE  /\ SlotAt(n) \in DOMAIN mem'
             /\ mem'[SlotAt(n)] = Function(n) \/ (~link.bindNow /\ mem'[SlotAt(n)] = LazyAt(n))
  <2>1. PICK a : a = SlotAt(n)
    OBVIOUS
  <2>2. a \in DOMAIN mem /\ a \notin GotWordsAt /\ mem[a] = LazyAt(n)
    BY <2>1 DEF FiledWords, SlotsOwned
  <2>3. HereAt(a) = {}
    BY <2>2 DEF HereAt, WordsOwned
  <2>4. SlotsHere(a) = {n}
    BY <2>1 DEF SlotsHere, SlotsOwned
  <2>5. (CHOOSE m \in SlotsHere(a) : TRUE) = n
    BY <2>4
  <2>6. mem'[a] = IF link.bindNow THEN Function(n) ELSE mem[a]
    BY <1>2, <2>2, <2>3, <2>4, <2>5
  <2> QED
    BY <1>2, <2>1, <2>2, <2>6
<1> QED
  BY <1>1, <1>3, <1>4, PlacesSame DEF GotIsBound, SlotsLead

LEMMA CallReaches ==
    ASSUME link \in Link, WordsOwned, SlotsOwned, SlotsOpen, GotIsBound, SlotsLead,
           NEW n \in 1 .. link.need.plt, Call(n)
    PROVE  /\ UNCHANGED <<link, image, stage>> /\ reached' = reached \cup {<<n, n>>}
           /\ (GotIsBound /\ SlotsLead)'
<1>1. UNCHANGED <<link, image>> /\ stage = "running"
  BY DEF Call
<1>2. PICK r \in Request : r = link.need
  BY DEF Link
<1>3. n \in Nat /\ r.plt \in Nat /\ n # 0
  <2>1. r.plt \in Nat
    BY RequestIs
  <2> QED
    BY <1>2, <2>1
<1>4. PICK a : a = SlotAt(n)
  OBVIOUS
<1>5. a \in DOMAIN mem /\ (mem[a] = Function(n) \/ (~link.bindNow /\ mem[a] = LazyAt(n)))
  BY <1>4 DEF SlotsLead
<1>6. CASE mem[a] = Function(n)
  <2>1. mem[a][1] # "lazy" /\ mem[a][2] = n
    BY <1>6 DEF Function
  <2>2. reached' = reached \cup {<<n, n>>} /\ mem' = mem /\ UNCHANGED <<stage, error>>
    BY <1>4, <2>1 DEF Call
  <2> QED
    BY <1>1, <2>2, PlacesSame DEF GotIsBound, SlotsLead
<1>7. CASE ~link.bindNow /\ mem[a] = LazyAt(n)
  <2>1. PICK p \in Nat : p = AddressOf("plt")
    BY <1>2, <1>3 DEF SlotsOwned
  <2>2. PICK ibt \in BOOLEAN : ibt = IbtPlt(link)
    BY DEF IbtPlt, WantsIbt
  <2>3. mem[a][1] = "lazy" /\ mem[a][2] = p + LazyOffset(ibt, n)
    BY <1>7, <2>1, <2>2 DEF LazyAt, Lazy
  <2>4. Pushes(r, ibt, p + LazyOffset(ibt, n) - p) = n
    BY <1>2, PushesItsOwn
  <2>5. Pushes(link.need, IbtPlt(link), mem[a][2] - AddressOf("plt")) = n
    <3>1. PICK y \in Nat : y = LazyOffset(ibt, n)
      BY <1>3 DEF LazyOffset, StubOffset, Plt0, EntrySize, PltEntry
    <3>2. PICK o : o = mem[a][2]
      OBVIOUS
    <3>3. o = p + y
      BY <2>3, <3>1, <3>2
    <3>4. o - p = p + y - p
      BY <3>3
    <3>5. Pushes(r, ibt, o - p) = n
      BY <2>4, <3>1, <3>4
    <3> QED
      BY <1>2, <2>1, <2>2, <3>2, <3>5
  <2>6. ~Sealed(SlotAt(n))
    BY <1>7 DEF SlotsOpen
  <2>7. reached' = reached \cup {<<n, n>>} /\ mem' = [mem EXCEPT ![SlotAt(n)] = Function(n)]
        /\ UNCHANGED <<stage, error>>
    BY <1>3, <1>4, <2>3, <2>5, <2>6 DEF Call
  <2>8. DOMAIN mem' = DOMAIN mem /\ mem'[a] = Function(n) /\ \A b \in DOMAIN mem : b # a => mem'[b] = mem[b]
    BY <1>4, <1>5, <2>7
  <2>9. ASSUME NEW u \in Uses(link.need), NEW w \in GotWords(u)
        PROVE  GotAt(u, w) \in DOMAIN mem' /\ mem'[GotAt(u, w)] = <<u[1], u[2], w>>
    <3>1. GotAt(u, w) \in GotWordsAt /\ a \notin GotWordsAt
      BY <1>4 DEF WordsOwned, SlotsOwned
    <3>2. GotAt(u, w) \in DOMAIN mem /\ mem[GotAt(u, w)] = <<u[1], u[2], w>>
      BY DEF GotIsBound
    <3> QED
      BY <2>8, <3>1, <3>2
  <2>10. ASSUME NEW m \in 1 .. link.need.plt
         PROVE  /\ SlotAt(m) \in DOMAIN mem'
                /\ mem'[SlotAt(m)] = Function(m) \/ (~link.bindNow /\ mem'[SlotAt(m)] = LazyAt(m))
    <3>1. CASE m = n
      BY <1>4, <1>5, <2>8, <3>1
    <3>2. CASE m # n
      <4>1. SlotAt(m) # a
        BY <1>4, <3>2 DEF SlotsOwned
      <4>2. SlotAt(m) \in DOMAIN mem /\ (mem[SlotAt(m)] = Function(m) \/ (~link.bindNow /\ mem[SlotAt(m)] = LazyAt(m)))
        BY DEF SlotsLead
      <4> QED
        BY <2>8, <4>1, <4>2
    <3> QED
      BY <3>1, <3>2
  <2>11. (GotIsBound /\ SlotsLead)'
    BY <1>1, <2>9, <2>10, PlacesSame DEF GotIsBound, SlotsLead
  <2> QED
    BY <1>1, <2>7, <2>11
<1> QED
  BY <1>5, <1>6, <1>7

(* Relocations of different kinds do not share a word, each entry of the   *)
(* GOT holds its own binding when the program starts and ever after, a     *)
(* call through the PLT reaches the function it names, and binding it      *)
(* never writes to a sealed page: for every number of entries of each kind *)
(* and every order of the calls.                                           *)
THEOREM EntriesReach == ImageSpec => []EntriesReachTheirSymbols
<1>1. ImageInit => MemInv
  BY DEF ImageInit, MemInv
<1>2. ImageInv /\ MemInv /\ [ImageNext]_imageVars => MemInv'
  <2> SUFFICES ASSUME ImageInv, MemInv, [ImageNext]_imageVars PROVE MemInv'
    OBVIOUS
  <2>0. link \in Link
    BY DEF ImageInv
  <2>1. stage \in Running => WordsOwned /\ SlotsOwned /\ SlotsOpen
    <3>1. Finished => Furnished
      BY DEF Finished, Furnished
    <3> QED
      BY <2>0, <3>1, OwnWords, OwnSlots, OpenSlots DEF ImageInv
  <2>2. ASSUME stage' \in {"place", "copy", "collect", "metadata", "write", "failed"}, reached' = reached
        PROVE  MemInv'
    BY <2>2 DEF MemInv
  <2>3. CASE OrderTail
    BY <2>2, <2>3 DEF OrderTail, Fail
  <2>4. CASE PlaceSections
    BY <2>2, <2>4 DEF PlaceSections
  <2>5. CASE AllocateCopies
    BY <2>2, <2>5 DEF AllocateCopies
  <2>6. CASE CollectLifecycle
    <3>1. stage' \in {"metadata", "failed"}
      BY <2>0, <2>6, LifecycleRefused
    <3>2. reached' = reached
      BY <2>6 DEF CollectLifecycle, Fail
    <3> QED
      BY <2>2, <3>1, <3>2
  <2>7. CASE PlaceMetadata
    BY <2>2, <2>7 DEF PlaceMetadata
  <2>8. CASE WriteImage
    <3>1. stage = "write" /\ reached' = reached /\ stage' \in {"load", "failed"}
      BY <2>8 DEF WriteImage, Fail
    <3>2. SlotsOwned
      BY <2>0, <3>1, OwnSlots DEF ImageInv
    <3>3. CASE stage' = "load"
      <4>1. FiledWords'
        BY <2>8, <3>2, <3>3, WordsFiled
      <4> QED
        BY <3>1, <3>3, <4>1 DEF MemInv
    <3> QED
      BY <2>2, <3>1, <3>3
  <2>9. CASE Load
    <3>1. stage = "load" /\ stage' = "start" /\ reached' = reached
      BY <2>9 DEF Load
    <3>2. FiledWords /\ WordsOwned /\ SlotsOwned
      BY <2>1, <3>1 DEF MemInv, Running
    <3>3. (GotIsBound /\ SlotsLead)'
      BY <2>9, <3>2, WordsLoaded
    <3> QED
      BY <3>1, <3>3 DEF MemInv
  <2>10. ASSUME UNCHANGED <<link, image, mem, reached>>, stage \in {"start", "running"}, stage' \in {"running", "ended"}
         PROVE  MemInv'
    <3>1. GotIsBound /\ SlotsLead
      BY <2>10 DEF MemInv
    <3>2. (GotIsBound /\ SlotsLead)'
      BY <2>10, <3>1, PlacesSame DEF GotIsBound, SlotsLead
    <3> QED
      BY <2>10, <3>2 DEF MemInv
  <2>11. CASE RunConstructors
    BY <2>10, <2>11 DEF RunConstructors
  <2>12. CASE \E n \in 1 .. link.need.plt : Call(n)
    <3>1. PICK n \in 1 .. link.need.plt : Call(n)
      BY <2>12
    <3>2. stage = "running"
      BY <3>1 DEF Call
    <3>3. GotIsBound /\ SlotsLead /\ WordsOwned /\ SlotsOwned /\ SlotsOpen
      BY <2>1, <3>2 DEF MemInv, Running
    <3>4. /\ UNCHANGED <<link, image, stage>> /\ reached' = reached \cup {<<n, n>>}
          /\ (GotIsBound /\ SlotsLead)'
      BY <2>0, <3>1, <3>3, CallReaches
    <3>5. \A c \in reached' : c[1] = c[2]
      BY <3>4 DEF MemInv
    <3> QED
      BY <3>2, <3>4, <3>5 DEF MemInv
  <2>13. CASE RunDestructors
    BY <2>10, <2>13 DEF RunDestructors
  <2>14. CASE UNCHANGED imageVars
    <3>1. UNCHANGED <<link, image, mem, reached, stage>>
      BY <2>14 DEF imageVars
    <3>2. (GotIsBound /\ SlotsLead => (GotIsBound /\ SlotsLead)') /\ (FiledWords => FiledWords')
      BY <3>1, PlacesSame DEF GotIsBound, SlotsLead, FiledWords
    <3> QED
      BY <3>1, <3>2 DEF MemInv
  <2> QED
    BY <2>3, <2>4, <2>5, <2>6, <2>7, <2>8, <2>9, <2>11, <2>12, <2>13, <2>14 DEF ImageNext, Stopped
<1>3. MemInv => EntriesReachTheirSymbols
  BY DEF MemInv, EntriesReachTheirSymbols, GotIsBound
<1> QED
  BY <1>1, <1>2, <1>3, ImageInvHolds, PTL DEF ImageSpec

-----------------------------------------------------------------------------
(* Ranges that each start where another ends, but for the first, and are   *)
(* whole words long: the words between the first and the last are theirs.  *)
Contiguous(ids, a, z, low, high) ==
    /\ a \in [ids -> Nat] /\ z \in [ids -> Nat \ {0}] /\ low \in Nat /\ high \in Nat
    /\ \E i \in ids : a[i] = low
    /\ \A i \in ids : low <= a[i]
    /\ \E i \in ids : a[i] + z[i] = high
    /\ \A i \in ids : a[i] + z[i] <= high
    /\ \A i \in ids : a[i] # low => \E j \in ids : a[j] + z[j] = a[i]
    /\ \A i \in ids : z[i] % 8 = 0

LEMMA RangesCover ==
    ASSUME NEW ids, NEW a, NEW z, NEW low, NEW high, Contiguous(ids, a, z, low, high),
           NEW x \in Nat, low <= x, x < high
    PROVE  \E i \in ids : a[i] <= x /\ x < a[i] + z[i]
<1> SUFFICES ASSUME \A i \in ids : ~(a[i] <= x /\ x < a[i] + z[i]) PROVE FALSE
  OBVIOUS
<1>1. \A i \in ids : a[i] \in Nat /\ z[i] \in Nat \ {0} /\ a[i] + z[i] \in Nat
  BY DEF Contiguous
<1>2. PICK B : B = {b \in Nat : b > x /\ \E i \in ids : a[i] = b}
  OBVIOUS
<1>3. B # {}
  <2>1. PICK i \in ids : a[i] + z[i] = high
    BY DEF Contiguous
  <2>2. a[i] > x
    BY <1>1, <2>1
  <2> QED
    BY <1>1, <1>2, <2>2
<1>4. PICK b \in B : \A c \in B : b <= c
  BY <1>2, <1>3, LeastOfSet
<1>5. PICK i \in ids : a[i] = b /\ b > x /\ b \in Nat
  BY <1>2, <1>4
<1>6. low \in Nat /\ a[i] # low
  BY <1>5 DEF Contiguous
<1>7. PICK j \in ids : a[j] + z[j] = a[i]
  BY <1>6 DEF Contiguous
<1>8. a[j] < b /\ a[j] \in Nat
  BY <1>1, <1>5, <1>7
<1>9. a[j] \notin B
  BY <1>2, <1>4, <1>5, <1>8
<1>10. a[j] <= x
  BY <1>2, <1>8, <1>9
<1> QED
  BY <1>5, <1>7, <1>10

LEMMA RangesInStep ==
    ASSUME NEW ids, NEW a, NEW z, NEW low, NEW high, Contiguous(ids, a, z, low, high)
    PROVE  \A i \in ids : \E q \in Nat : a[i] = low + 8 * q
<1>1. \A i \in ids : a[i] \in Nat /\ z[i] \in Nat \ {0} /\ z[i] % 8 = 0 /\ low <= a[i]
  BY DEF Contiguous
<1>2. low \in Nat
  BY DEF Contiguous
<1> DEFINE Off(b) == \E i \in ids : a[i] = b /\ ~\E q \in Nat : b = low + 8 * q
<1>3. PICK B : B = {b \in Nat : Off(b)}
  OBVIOUS
<1>4. ASSUME B # {} PROVE FALSE
  <2>1. PICK b \in B : \A c \in B : b <= c
    BY <1>3, <1>4, LeastOfSet
  <2>2. PICK i \in ids : a[i] = b /\ b \in Nat /\ ~\E q \in Nat : b = low + 8 * q
    BY <1>3, <2>1
  <2>3. b # low
    <3>1. ASSUME b = low PROVE \E q \in Nat : b = low + 8 * q
      <4>1. b = low + 8 * 0
        BY <1>2, <3>1
      <4> QED
        BY <4>1
    <3> QED
      BY <2>2, <3>1
  <2>4. PICK j \in ids : a[j] + z[j] = b
    BY <2>2, <2>3 DEF Contiguous
  <2>5. a[j] \in Nat /\ z[j] \in Nat \ {0} /\ z[j] % 8 = 0 /\ a[j] < b
    BY <1>1, <2>2, <2>4
  <2>6. a[j] \notin B
    BY <2>1, <2>2, <2>5
  <2>7. PICK q \in Nat : a[j] = low + 8 * q
    BY <1>3, <2>5, <2>6
  <2>8. PICK r \in Nat : z[j] = r * 8
    BY <2>5, QuotientOf
  <2>9. PICK y \in Nat : y = q + r
    OBVIOUS
  <2>10. b = low + 8 * y
    BY <1>2, <2>2, <2>4, <2>7, <2>8, <2>9
  <2> QED
    BY <2>2, <2>10
<1>5. ASSUME NEW i \in ids PROVE \E q \in Nat : a[i] = low + 8 * q
  <2>1. a[i] \notin B /\ a[i] \in Nat
    BY <1>1, <1>4
  <2> QED
    BY <1>3, <2>1
<1> QED
  BY <1>5

LEMMA RangesRunThrough ==
    ASSUME NEW ids, NEW a, NEW z, NEW low, NEW high, Contiguous(ids, a, z, low, high)
    PROVE  /\ high - low \in Nat
           /\ \A k \in 1 .. (high - low) \div 8 : \E i \in ids : \E j \in 1 .. z[i] \div 8 :
                low + 8 * (k - 1) = a[i] + 8 * (j - 1)
           /\ \A i \in ids : \A j \in 1 .. z[i] \div 8 : \E k \in 1 .. (high - low) \div 8 :
                low + 8 * (k - 1) = a[i] + 8 * (j - 1)
<1>1. \A i \in ids : a[i] \in Nat /\ z[i] \in Nat \ {0} /\ z[i] % 8 = 0 /\ low <= a[i] /\ a[i] + z[i] <= high
  BY DEF Contiguous
<1>2. low \in Nat /\ high \in Nat
  BY DEF Contiguous
<1>3. PICK d \in Nat : d = high - low
  <2>1. PICK i \in ids : a[i] = low
    BY DEF Contiguous
  <2> QED
    BY <1>1, <1>2, <2>1
<1>4. PICK w \in Nat : w = d \div 8 /\ 8 * w <= d /\ d < 8 * w + 8
  OBVIOUS
<1>5. \A i \in ids : \E r \in Nat : z[i] = 8 * r /\ z[i] \div 8 = r
  <2>1. ASSUME NEW i \in ids PROVE \E r \in Nat : z[i] = 8 * r /\ z[i] \div 8 = r
    <3>1. PICK r \in Nat : z[i] = r * 8
      BY <1>1, QuotientOf
    <3>2. (8 * r) \div 8 = r
      OBVIOUS
    <3>3. z[i] = 8 * r
      BY <3>1
    <3> QED
      BY <3>2, <3>3
  <2> QED
    BY <2>1
<1>6. ASSUME NEW k \in 1 .. w
      PROVE  \E i \in ids : \E j \in 1 .. z[i] \div 8 : low + 8 * (k - 1) = a[i] + 8 * (j - 1)
  <2>1. PICK x \in Nat : x = low + 8 * (k - 1)
    BY <1>2
  <2>2. low <= x /\ x < high
    BY <1>2, <1>3, <1>4, <2>1
  <2>3. PICK i \in ids : a[i] <= x /\ x < a[i] + z[i]
    BY <2>2, RangesCover
  <2>4. PICK q \in Nat : a[i] = low + 8 * q
    BY RangesInStep
  <2>5. PICK r \in Nat : z[i] = 8 * r /\ z[i] \div 8 = r
    BY <1>5
  <2>6. PICK j \in Int : j = k - q
    OBVIOUS
  <2>7. x = a[i] + 8 * (j - 1) /\ j \in 1 .. r
    BY <1>2, <2>1, <2>3, <2>4, <2>5, <2>6
  <2> QED
    BY <2>1, <2>5, <2>7
<1>7. ASSUME NEW i \in ids, NEW j \in 1 .. z[i] \div 8
      PROVE  \E k \in 1 .. w : low + 8 * (k - 1) = a[i] + 8 * (j - 1)
  <2>1. PICK q \in Nat : a[i] = low + 8 * q
    BY RangesInStep
  <2>2. PICK r \in Nat : z[i] = 8 * r /\ z[i] \div 8 = r
    BY <1>5
  <2>3. j \in 1 .. r
    BY <2>2
  <2>4. PICK k \in Nat : k = q + j /\ 1 <= k
    BY <2>3
  <2>5. low + 8 * (k - 1) = a[i] + 8 * (j - 1)
    BY <1>2, <2>1, <2>3, <2>4
  <2>6. a[i] + z[i] <= high
    BY <1>1
  <2>7. 8 * k <= d
    BY <1>2, <1>3, <2>1, <2>2, <2>3, <2>4, <2>6
  <2>8. k <= w
    BY <1>4, <2>7
  <2> QED
    BY <2>4, <2>5, <2>8
<1> QED
  BY <1>3, <1>4, <1>6, <1>7

-----------------------------------------------------------------------------
(* Where the input sections are, and what their words are.                 *)
Sited ==
    /\ \A s \in Named("input") : /\ s \in PieceType /\ s.n \in DOMAIN link.inputs
                                 /\ s.size = link.inputs[s.n].size
    /\ \A s, t \in Named("input") : s # t => s.n # t.n /\ Apart(s, t)
    /\ \A i \in DOMAIN link.inputs : \E s \in Named("input") : s.n = i

LEMMA StockedSited ==
    ASSUME NEW S, NEW copied, Stocked(link, S, copied), Within(S), S \subseteq ToSet(image)
    PROVE  Sited
<1>1. ASSUME NEW s \in Named("input") PROVE s \in S /\ s.what = "input" /\ Shape(link, s)
  <2>1. s.what = "input" /\ s \in ToSet(image)
    BY DEF Named
  <2>2. s \in S
    BY <2>1 DEF Within
  <2> QED
    BY <2>1, <2>2 DEF Stocked
<1>2. \A i \in DOMAIN link.inputs : \E s \in Named("input") : s.n = i
  BY DEF Stocked, Present, Named
<1>3. \A s, t \in Named("input") : s # t => s.n # t.n /\ Apart(s, t)
  BY <1>1 DEF Stocked, Unique
<1>4. \A s \in Named("input") : /\ s \in PieceType /\ s.n \in DOMAIN link.inputs
                                /\ s.size = link.inputs[s.n].size
  BY <1>1 DEF Shape
<1> QED
  BY <1>2, <1>3, <1>4 DEF Sited

LEMMA InputSited ==
    ASSUME Sited, NEW i \in DOMAIN link.inputs
    PROVE  \E s \in Named("input") :
             /\ s.n = i /\ InputAddress[i] = s.address
             /\ s.address \in Nat /\ s.size \in Nat /\ End(s) = s.address + s.size
             /\ s.size = link.inputs[i].size
<1>1. PICK s \in Named("input") : s.n = i
  BY DEF Sited
<1>2. \A t \in Named("input") : t.n = i <=> t = s
  BY <1>1 DEF Sited
<1>3. (CHOOSE t \in Named("input") : t.n = i) = s
  BY <1>2
<1>4. InputAddress[i] = s.address
  BY <1>3 DEF InputAddress
<1>5. s \in PieceType /\ s.size = link.inputs[i].size
  BY <1>1 DEF Sited
<1> QED
  BY <1>1, <1>4, <1>5, PieceNumbers

LEMMA PointerIs ==
    ASSUME Sited, NEW i \in DOMAIN link.inputs, NEW j \in 1 .. link.inputs[i].size \div 8
    PROVE  PointerAt(InputAddress[i] + 8 * (j - 1)) = <<i, j>>
<1>1. PICK s \in Named("input") :
             /\ s.n = i /\ InputAddress[i] = s.address
             /\ s.address \in Nat /\ s.size \in Nat /\ End(s) = s.address + s.size
             /\ s.size = link.inputs[i].size
  BY InputSited
<1>2. PICK b \in Nat, z \in Nat : b = s.address /\ z = s.size
  BY <1>1
<1>3. PICK w \in Nat : w = z \div 8 /\ 8 * w <= z
  OBVIOUS
<1>4. j \in 1 .. w /\ j \in Nat
  BY <1>1, <1>2, <1>3
<1>5. PICK a \in Nat : a = b + 8 * (j - 1)
  BY <1>4
<1>6. a \in s.address .. End(s) - 1
  BY <1>1, <1>2, <1>3, <1>4, <1>5
<1>7. ASSUME NEW t \in Named("input"), a \in t.address .. End(t) - 1 PROVE t = s
  <2>1. t \in PieceType
    BY DEF Sited
  <2>2. t.address \in Nat /\ End(t) \in Nat /\ End(s) \in Nat
    BY <1>1, <2>1, PieceNumbers
  <2>3. ~Apart(s, t)
    BY <1>1, <1>5, <1>6, <1>7, <2>2 DEF Apart
  <2> QED
    BY <2>3 DEF Sited
<1>8. PICK held : held = {t \in Named("input") : a \in t.address .. End(t) - 1}
  OBVIOUS
<1>9. held = {s}
  BY <1>6, <1>7, <1>8
<1>10. PointerAt(a) = <<s.n, (a - s.address) \div Word + 1>>
  <2>1. (CHOOSE t \in held : TRUE) = s /\ held # {}
    BY <1>9
  <2> QED
    BY <1>8, <2>1 DEF PointerAt
<1>11. (a - b) \div 8 + 1 = j
  <2>1. PICK y \in Nat : y = j - 1
    BY <1>4
  <2>2. a - b = 8 * y
    BY <1>5, <2>1
  <2>3. (8 * y) \div 8 = y
    OBVIOUS
  <2> QED
    BY <1>4, <2>1, <2>2, <2>3
<1>12. PointerAt(a) = <<i, j>>
  BY <1>1, <1>2, <1>10, <1>11 DEF Word
<1> QED
  BY <1>1, <1>2, <1>5, <1>12

-----------------------------------------------------------------------------
(* A list of each of a set's members, once.                                *)
OfEach(p, F) ==
    /\ p \in Seq(F)
    /\ \A f \in F : \E k \in DOMAIN p : p[k] = f
    /\ \A j, k \in DOMAIN p : p[j] = p[k] => j = k

LEMMA EachJoined ==
    ASSUME NEW F, NEW G, F \cap G = {}, NEW u, NEW v, OfEach(u, F), OfEach(v, G)
    PROVE  OfEach(u \o v, F \cup G)
<1>1. PICK H : H = F \cup G
  OBVIOUS
<1>2. u \in Seq(H)
  <2>1. u \in Seq(F)
    BY DEF OfEach
  <2> QED
    BY <1>1, <2>1
<1>3. v \in Seq(H)
  <2>1. v \in Seq(G)
    BY DEF OfEach
  <2> QED
    BY <1>1, <2>1
<1>10. PICK t : t = u \o v
  OBVIOUS
<1>4. PICK a \in Nat, b \in Nat : a = Len(u) /\ b = Len(v) /\ DOMAIN u = 1 .. a /\ DOMAIN v = 1 .. b
  BY <1>2, <1>3
<1>5. /\ u \o v \in Seq(H) /\ Len(u \o v) = Len(u) + Len(v)
      /\ \A k \in 1 .. Len(u) : (u \o v)[k] = u[k]
      /\ \A k \in 1 .. Len(v) : (u \o v)[Len(u) + k] = v[k]
  BY <1>2, <1>3, Concatenated
<1>6. /\ t \in Seq(H) /\ DOMAIN t = 1 .. a + b
      /\ \A k \in 1 .. a : t[k] = u[k]
      /\ \A k \in 1 .. b : t[a + k] = v[k]
  BY <1>4, <1>5, <1>10
<1>7. ASSUME NEW k \in DOMAIN t
      PROVE  \/ k \in DOMAIN u /\ t[k] = u[k] /\ t[k] \in F
             \/ \E m \in DOMAIN v : k = a + m /\ t[k] = v[m] /\ t[k] \in G
  <2>1. CASE k \in 1 .. a
    BY <1>4, <1>6, <2>1 DEF OfEach
  <2>2. CASE k \notin 1 .. a
    <3>1. k - a \in 1 .. b /\ k = a + (k - a)
      BY <1>6, <2>2
    <3>2. PICK m \in 1 .. b : k = a + m
      BY <3>1
    <3>3. t[k] = v[m] /\ v[m] \in G
      BY <1>4, <1>6, <3>2 DEF OfEach
    <3> QED
      BY <1>4, <3>2, <3>3
  <2> QED
    BY <2>1, <2>2
<1>8. ASSUME NEW f \in H PROVE \E k \in DOMAIN t : t[k] = f
  <2>1. CASE f \in F
    <3>1. PICK k \in DOMAIN u : u[k] = f
      BY <2>1 DEF OfEach
    <3>2. k \in DOMAIN t /\ t[k] = f
      BY <1>4, <1>6, <3>1
    <3> QED
      BY <3>2
  <2>2. CASE f \in G
    <3>1. PICK k \in DOMAIN v : v[k] = f
      BY <2>2 DEF OfEach
    <3>2. a + k \in DOMAIN t /\ t[a + k] = f
      BY <1>4, <1>6, <3>1
    <3> QED
      BY <3>2
  <2> QED
    BY <1>1, <1>8, <2>1, <2>2
<1>9. ASSUME NEW j \in DOMAIN t, NEW k \in DOMAIN t, t[j] = t[k] PROVE j = k
  BY <1>7, <1>9 DEF OfEach
<1> QED
  BY <1>1, <1>6, <1>8, <1>9, <1>10 DEF OfEach

LEMMA EachReversed ==
    ASSUME NEW F, NEW u, OfEach(u, F)
    PROVE  OfEach(Reverse(u), F)
<1>1. u \in Seq(F)
  BY DEF OfEach
<1>2. PICK n \in Nat : n = Len(u) /\ DOMAIN u = 1 .. n
  BY <1>1
<1>3. PICK t : t = Reverse(u)
  OBVIOUS
<1>4. t = [k \in 1 .. n |-> u[(n - k) + 1]]
  BY <1>2, <1>3 DEF Reverse
<1>5. ASSUME NEW k \in 1 .. n PROVE (n - k) + 1 \in 1 .. n /\ (n - ((n - k) + 1)) + 1 = k
  OBVIOUS
<1>6. t \in Seq(F) /\ DOMAIN t = 1 .. n
  <2>1. t \in [1 .. n -> F]
    BY <1>1, <1>2, <1>4, <1>5
  <2> QED
    BY <2>1
<1>7. ASSUME NEW f \in F PROVE \E k \in DOMAIN t : t[k] = f
  <2>1. PICK m \in 1 .. n : u[m] = f
    BY <1>2 DEF OfEach
  <2>2. PICK k \in 1 .. n : k = (n - m) + 1 /\ (n - k) + 1 = m
    BY <1>5
  <2> QED
    BY <1>4, <1>6, <2>1, <2>2
<1>8. ASSUME NEW j \in DOMAIN t, NEW k \in DOMAIN t, t[j] = t[k] PROVE j = k
  <2>1. (n - j) + 1 = (n - k) + 1
    BY <1>2, <1>4, <1>5, <1>6, <1>8 DEF OfEach
  <2> QED
    BY <1>6, <2>1
<1> QED
  BY <1>3, <1>6, <1>7, <1>8 DEF OfEach

LEMMA EachOfOne ==
    ASSUME NEW kind, NEW p
    PROVE  OfEach(Hook(kind, p), IF kind = "none" THEN {} ELSE {p})
<1>1. CASE kind = "none"
  BY <1>1 DEF Hook, OfEach
<1>2. CASE kind # "none"
  <2>1. PICK t : t = <<p>>
    OBVIOUS
  <2>2. t \in Seq({p}) /\ DOMAIN t = {1} /\ t[1] = p
    BY <2>1
  <2>3. Hook(kind, p) = t
    BY <1>2, <2>1 DEF Hook
  <2> QED
    BY <1>2, <2>2, <2>3 DEF OfEach
<1> QED
  BY <1>1, <1>2

-----------------------------------------------------------------------------
(* A published range lists the functions of its kind.                      *)
FunctionsOf(kind) ==
    {f \in (DOMAIN link.inputs) \X Nat :
       f[1] \in Entries(link.inputs, kind) /\ f[2] \in 1 .. link.inputs[f[1]].size \div 8}

LEMMA CollectedFacts ==
    ASSUME NEW inputs, NEW addr, NEW kind, NEW ids, ids = Entries(inputs, kind), ids # {},
           NEW L, \A x : x \in L <=> \E m \in ids : x = addr[m],
           NEW H, \A x : x \in H <=> \E m \in ids : x = addr[m] + inputs[m].size,
           Collect(inputs, addr, kind).error = "none"
    PROVE  /\ \A i \in ids : ~Faulty(inputs[i])
           /\ \A i \in ids : addr[i] # Min(L) => \E j \in ids : addr[j] + inputs[j].size = addr[i]
           /\ Collect(inputs, addr, kind).array = [address |-> Min(L), size |-> Max(H) - Min(L)]
<1>1. L = {addr[m] : m \in ids} /\ H = {addr[m] + inputs[m].size : m \in ids}
  OBVIOUS
<1> QED
  BY <1>1 DEF Collect

LEMMA KindContiguous ==
    ASSUME link \in Link, Sited, NEW kind, NEW ids, ids = Entries(link.inputs, kind), ids # {},
           Collect(link.inputs, InputAddress, kind).error = "none"
    PROVE  \E a, z, low, high :
             /\ Contiguous(ids, a, z, low, high)
             /\ \A i \in ids : a[i] = InputAddress[i] /\ z[i] = link.inputs[i].size
             /\ Collect(link.inputs, InputAddress, kind).array = [address |-> low, size |-> high - low]
<1>1. PICK a, z : a = [i \in ids |-> InputAddress[i]] /\ z = [i \in ids |-> link.inputs[i].size]
  OBVIOUS
<1>2. \A i \in ids : a[i] = InputAddress[i] /\ z[i] = link.inputs[i].size
  BY <1>1
<1>3. ids \subseteq DOMAIN link.inputs /\ IsFiniteSet(ids)
  BY EntriesAre
<1>4. \A i \in ids : a[i] \in Nat /\ z[i] \in Nat /\ z[i] # 0
  <2>1. \A i \in ids : InputAddress[i] \in Nat /\ link.inputs[i].size \in Nat
    BY <1>3, InputSited
  <2>2. \A i \in ids : link.inputs[i].size # 0
    BY DEF Entries
  <2> QED
    BY <1>2, <2>1, <2>2
<1>5. PICK L, H : L = {InputAddress[m] : m \in ids} /\ H = {InputAddress[m] + link.inputs[m].size : m \in ids}
  OBVIOUS
<1>6. L = {a[m] : m \in ids} /\ H = {a[m] + z[m] : m \in ids}
  BY <1>2, <1>5
<1>7. PICK low \in Nat : low = Min(L) /\ low \in L /\ \A x \in L : low <= x
  <2>1. L \in SUBSET Nat /\ L # {}
    BY <1>4, <1>6
  <2>2. Min(L) \in L /\ \A x \in L : Min(L) <= x
    BY <2>1, LeastOfSet DEF Min
  <2> QED
    BY <2>1, <2>2
<1>8. PICK high \in Nat : high = Max(H) /\ high \in H /\ \A x \in H : x <= high
  <2>1. H \in SUBSET Nat /\ H # {}
    BY <1>4, <1>6
  <2>2. IsFiniteSet(H)
    <3>1. PICK f : f = [i \in ids |-> a[i] + z[i]]
      OBVIOUS
    <3>2. f \in Surjection(ids, H)
      BY <1>6, <3>1 DEF Surjection
    <3> QED
      BY <1>3, <3>2, FS_Surjection
  <2>3. Max(H) \in H /\ \A x \in H : x <= Max(H)
    BY <2>1, <2>2, MaxOf
  <2> QED
    BY <2>1, <2>3
<1>9. /\ \A i \in ids : ~Faulty(link.inputs[i])
      /\ \A i \in ids : InputAddress[i] # low
           => \E j \in ids : InputAddress[j] + link.inputs[j].size = InputAddress[i]
      /\ Collect(link.inputs, InputAddress, kind).array = [address |-> low, size |-> high - low]
  <2>1. PICK addr, inputs : addr = InputAddress /\ inputs = link.inputs
    OBVIOUS
  <2>2. ids = Entries(inputs, kind) /\ Collect(inputs, addr, kind).error = "none"
    BY <2>1
  <2>3. /\ \A x : x \in L <=> \E m \in ids : x = addr[m]
        /\ \A x : x \in H <=> \E m \in ids : x = addr[m] + inputs[m].size
    BY <1>5, <2>1
  <2>4. /\ \A i \in ids : ~Faulty(inputs[i])
        /\ \A i \in ids : addr[i] # low => \E j \in ids : addr[j] + inputs[j].size = addr[i]
        /\ Collect(inputs, addr, kind).array = [address |-> low, size |-> high - low]
    BY <1>7, <1>8, <2>2, <2>3, CollectedFacts
  <2> QED
    BY <2>1, <2>4
<1>10. \A i \in ids : z[i] % 8 = 0
  BY <1>2, <1>9 DEF Faulty
<1>11. \A i \in ids : a[i] # low => \E j \in ids : a[j] + z[j] = a[i]
  BY <1>2, <1>7, <1>9
<1>12. a \in [ids -> Nat] /\ z \in [ids -> Nat \ {0}]
  BY <1>1, <1>2, <1>4
<1>13. (\E i \in ids : a[i] = low) /\ (\A i \in ids : low <= a[i])
  BY <1>6, <1>7
<1>14. (\E i \in ids : a[i] + z[i] = high) /\ (\A i \in ids : a[i] + z[i] <= high)
  BY <1>6, <1>8
<1>15. Contiguous(ids, a, z, low, high)
  BY <1>10, <1>11, <1>12, <1>13, <1>14 DEF Contiguous
<1> QED
  BY <1>2, <1>7, <1>8, <1>9, <1>15

LEMMA KindListed ==
    ASSUME link \in Link, Sited, NEW kind, NEW A,
           Collect(link.inputs, InputAddress, kind).error = "none",
           A = Collect(link.inputs, InputAddress, kind).array
    PROVE  OfEach(Pointers(A), FunctionsOf(kind))
<1>1. PICK ids, F : ids = Entries(link.inputs, kind) /\ F = FunctionsOf(kind)
  OBVIOUS
<1>2. CASE ids = {}
  <2>1. A = NoArray
    BY <1>1, <1>2 DEF Collect
  <2>2. A.size = 0
    BY <2>1 DEF NoArray
  <2>3. 1 .. A.size \div Word = {}
    BY <2>2 DEF Word
  <2>4. Pointers(A) = << >>
    BY <2>3 DEF Pointers
  <2>5. F = {}
    BY <1>1, <1>2 DEF FunctionsOf
  <2> QED
    BY <1>1, <2>4, <2>5 DEF OfEach
<1>3. CASE ids # {}
  <2>1. PICK a, z, low, high :
          /\ Contiguous(ids, a, z, low, high)
          /\ \A i \in ids : a[i] = InputAddress[i] /\ z[i] = link.inputs[i].size
          /\ A = [address |-> low, size |-> high - low]
    BY <1>1, <1>3, KindContiguous
  <2>2. low \in Nat /\ \A i \in ids : a[i] \in Nat
    BY <2>1 DEF Contiguous
  <2>3. /\ high - low \in Nat
        /\ \A k \in 1 .. (high - low) \div 8 : \E i \in ids : \E j \in 1 .. z[i] \div 8 :
             low + 8 * (k - 1) = a[i] + 8 * (j - 1)
        /\ \A i \in ids : \A j \in 1 .. z[i] \div 8 : \E k \in 1 .. (high - low) \div 8 :
             low + 8 * (k - 1) = a[i] + 8 * (j - 1)
    BY <2>1, RangesRunThrough
  <2>4. PICK w \in Nat : w = (high - low) \div 8
    BY <2>3
  <2>5. PICK p : p = Pointers(A)
    OBVIOUS
  <2>6. p = [k \in 1 .. w |-> PointerAt(low + 8 * (k - 1))]
    BY <2>1, <2>4, <2>5 DEF Pointers, Word
  <2>7. ids \subseteq DOMAIN link.inputs
    BY <1>1, EntriesAre
  <2>8. ASSUME NEW i \in ids, NEW j \in 1 .. z[i] \div 8
        PROVE  PointerAt(a[i] + 8 * (j - 1)) = <<i, j>> /\ <<i, j>> \in F
    <3>1. i \in DOMAIN link.inputs /\ j \in 1 .. link.inputs[i].size \div 8 /\ a[i] = InputAddress[i]
      BY <2>1, <2>7
    <3>2. PointerAt(InputAddress[i] + 8 * (j - 1)) = <<i, j>>
      BY <3>1, PointerIs
    <3>3. link.inputs[i].size \in Nat
      BY <3>1, InputSited
    <3>4. j \in Nat
      BY <3>1, <3>3
    <3> QED
      BY <1>1, <3>1, <3>2, <3>4 DEF FunctionsOf
  <2>9. ASSUME NEW f \in F PROVE \E i \in ids : \E j \in 1 .. z[i] \div 8 : f = <<i, j>>
    <3>1. f = <<f[1], f[2]>> /\ f[1] \in ids /\ f[2] \in 1 .. link.inputs[f[1]].size \div 8
      BY <1>1 DEF FunctionsOf
    <3> QED
      BY <2>1, <3>1
  <2>10. ASSUME NEW k \in 1 .. w
         PROVE  \E i \in ids : \E j \in 1 .. z[i] \div 8 :
                  low + 8 * (k - 1) = a[i] + 8 * (j - 1) /\ p[k] = <<i, j>> /\ p[k] \in F
    <3>1. PICK i \in ids : \E j \in 1 .. z[i] \div 8 : low + 8 * (k - 1) = a[i] + 8 * (j - 1)
      BY <2>3, <2>4
    <3>2. PICK j \in 1 .. z[i] \div 8 : low + 8 * (k - 1) = a[i] + 8 * (j - 1)
      BY <3>1
    <3>3. PointerAt(a[i] + 8 * (j - 1)) = <<i, j>> /\ <<i, j>> \in F
      BY <2>8
    <3>4. p[k] = PointerAt(low + 8 * (k - 1))
      BY <2>6
    <3> QED
      BY <3>2, <3>3, <3>4
  <2>11. p \in Seq(F) /\ DOMAIN p = 1 .. w
    <3>1. p \in [1 .. w -> F]
      BY <2>6, <2>10
    <3> QED
      BY <3>1
  <2>12. ASSUME NEW f \in F PROVE \E k \in DOMAIN p : p[k] = f
    <3>1. PICK i \in ids : \E j \in 1 .. z[i] \div 8 : f = <<i, j>>
      BY <2>9
    <3>2. PICK j \in 1 .. z[i] \div 8 : f = <<i, j>>
      BY <3>1
    <3>3. PICK k \in 1 .. w : low + 8 * (k - 1) = a[i] + 8 * (j - 1)
      BY <2>3, <2>4
    <3>4. PointerAt(a[i] + 8 * (j - 1)) = <<i, j>>
      BY <2>8
    <3> QED
      BY <2>6, <2>11, <3>2, <3>3, <3>4
  <2>13. ASSUME NEW k \in DOMAIN p, NEW m \in DOMAIN p, p[k] = p[m] PROVE k = m
    <3>1. PICK i \in ids : \E j \in 1 .. z[i] \div 8 : low + 8 * (k - 1) = a[i] + 8 * (j - 1) /\ p[k] = <<i, j>>
      BY <2>10, <2>11
    <3>2. PICK j : low + 8 * (k - 1) = a[i] + 8 * (j - 1) /\ p[k] = <<i, j>>
      BY <3>1
    <3>3. PICK c \in ids : \E d \in 1 .. z[c] \div 8 : low + 8 * (m - 1) = a[c] + 8 * (d - 1) /\ p[m] = <<c, d>>
      BY <2>10, <2>11
    <3>4. PICK d : low + 8 * (m - 1) = a[c] + 8 * (d - 1) /\ p[m] = <<c, d>>
      BY <3>3
    <3>5. i = c /\ j = d
      <4>1. PICK f : f = p[k]
        OBVIOUS
      <4>2. f = <<i, j>>
        BY <3>2, <4>1
      <4>3. f = <<c, d>>
        BY <2>13, <3>4, <4>1
      <4>4. f[1] = i /\ f[2] = j
        BY <4>2
      <4>5. f[1] = c /\ f[2] = d
        BY <4>3
      <4> QED
        BY <4>4, <4>5
    <3>6. low + 8 * (k - 1) = low + 8 * (m - 1)
      BY <3>2, <3>4, <3>5
    <3>7. k \in Nat /\ m \in Nat
      BY <2>11
    <3> QED
      BY <2>2, <3>6, <3>7
  <2> QED
    BY <1>1, <2>5, <2>11, <2>12, <2>13 DEF OfEach
<1> QED
  BY <1>2, <1>3

-----------------------------------------------------------------------------
(* What the three arrays publish, from where they are collected to where   *)
(* the loader runs them.                                                   *)
LifecycleKinds == {"preinit", "init", "fini"}
NoPreinit  == link.pie \/ \A i \in DOMAIN link.inputs : link.inputs[i].kind # "preinit"
ArraysList == \A k \in LifecycleKinds : OfEach(Pointers(arrays[k]), FunctionsOf(k))

HeldIn(N, a) == {s \in N : a \in s.address .. End(s) - 1}
PointerOf(held, a) ==
    IF held = {} THEN Padding
    ELSE LET s == CHOOSE t \in held : TRUE IN <<s.n, (a - s.address) \div Word + 1>>

LEMMA PointersSame ==
    ASSUME Named("input")' = Named("input"), link' = link
    PROVE  /\ \A a : PointerAt(a)' = PointerAt(a)
           /\ \A k : FunctionsOf(k)' = FunctionsOf(k)
           /\ arrays' = arrays => \A k : Pointers(arrays[k])' = Pointers(arrays[k])
           /\ NoPreinit' = NoPreinit
<1>1. \A a : PointerAt(a)' = PointerAt(a)
  <2>1. ASSUME NEW a PROVE PointerAt(a)' = PointerAt(a)
    <3>1. PointerAt(a) = PointerOf(HeldIn(Named("input"), a), a)
      BY Zenon DEF PointerAt, PointerOf, HeldIn
    <3>2. PointerAt(a)' = PointerOf(HeldIn(Named("input")', a), a)
      BY Zenon DEF PointerAt, PointerOf, HeldIn
    <3> QED
      BY <3>1, <3>2
  <2> QED
    BY <2>1
<1>2. \A k : FunctionsOf(k)' = FunctionsOf(k)
  BY DEF FunctionsOf
<1>3. arrays' = arrays => \A k : Pointers(arrays[k])' = Pointers(arrays[k])
  BY <1>1 DEF Pointers
<1>4. NoPreinit' = NoPreinit
  BY DEF NoPreinit
<1> QED
  BY <1>1, <1>2, <1>3, <1>4

LEMMA ArraysSame ==
    ASSUME Named("input")' = Named("input"), link' = link, arrays' = arrays, ArraysList
    PROVE  ArraysList'
<1>1. ASSUME NEW k \in LifecycleKinds PROVE OfEach(Pointers(arrays[k]), FunctionsOf(k))'
  <2>1. PICK p, F : p = Pointers(arrays[k]) /\ F = FunctionsOf(k)
    OBVIOUS
  <2>2. OfEach(p, F)
    BY <2>1 DEF ArraysList
  <2>3. p = Pointers(arrays[k])' /\ F = FunctionsOf(k)'
    BY <2>1, PointersSame
  <2> QED
    BY <2>2, <2>3
<1> QED
  BY <1>1 DEF ArraysList, LifecycleKinds

LEMMA NoneUnpublished ==
    ASSUME NoPreinit, ~link.pie
    PROVE  OfEach(Pointers(NoArray), FunctionsOf("preinit"))
<1>1. PICK A : A = NoArray
  OBVIOUS
<1>2. 1 .. A.size \div Word = {}
  BY <1>1 DEF NoArray, Word
<1>3. Pointers(A) = << >>
  BY <1>2 DEF Pointers
<1>4. PICK kind : kind = "preinit"
  OBVIOUS
<1>5. FunctionsOf(kind) = {}
  BY <1>4 DEF NoPreinit, FunctionsOf, Entries
<1> QED
  BY <1>1, <1>3, <1>4, <1>5 DEF OfEach

LEMMA ChecksPassed ==
    ASSUME FailedChecks = {}, NEW m \in DOMAIN ArrayKinds
    PROVE  Collect(link.inputs, InputAddress, ArrayKinds[m]).error = "none"
<1>1. PICK u : u = <<HookError(link.init), HookError(link.fini)>>
  OBVIOUS
<1>2. PICK v : v = [k \in DOMAIN ArrayKinds |-> Collect(link.inputs, InputAddress, ArrayKinds[k]).error]
  OBVIOUS
<1>3. PICK n \in Nat : DOMAIN ArrayKinds = 1 .. n
  <2>1. ASSUME link.pie PROVE DOMAIN ArrayKinds = 1 .. 3
    BY <2>1 DEF ArrayKinds
  <2>2. ASSUME ~link.pie PROVE DOMAIN ArrayKinds = 1 .. 2
    BY <2>2 DEF ArrayKinds
  <2> QED
    BY <2>1, <2>2
<1>4. PICK R : R = {u[1], u[2]} \cup {v[k] : k \in 1 .. n}
  OBVIOUS
<1>5. u \in Seq(R) /\ Len(u) = 2
  <2>1. u[1] \in R /\ u[2] \in R
    BY <1>4
  <2>2. DOMAIN u = 1 .. 2 /\ Len(u) = 2
    BY <1>1
  <2> QED
    BY <1>1, <2>1, <2>2
<1>6. v \in Seq(R) /\ Len(v) = n
  <2>1. v \in [1 .. n -> R]
    BY <1>2, <1>3, <1>4
  <2> QED
    BY <2>1
<1>7. PICK c : c = u \o v
  OBVIOUS
<1>8. /\ c \in Seq(R) /\ Len(c) = Len(u) + Len(v)
      /\ \A k \in 1 .. Len(v) : c[Len(u) + k] = v[k]
  <2>1. u \in Seq(R)
    BY <1>5
  <2>2. v \in Seq(R)
    BY <1>6
  <2>3. /\ u \o v \in Seq(R) /\ Len(u \o v) = Len(u) + Len(v)
        /\ \A k \in 1 .. Len(v) : (u \o v)[Len(u) + k] = v[k]
    BY <2>1, <2>2, Concatenated
  <2> QED
    BY <1>7, <2>3
<1>9. DOMAIN c = 1 .. 2 + n
  BY <1>5, <1>6, <1>8
<1>10. c[2 + m] = v[m] /\ 2 + m \in DOMAIN c
  BY <1>3, <1>5, <1>6, <1>8, <1>9
<1>11. c = Checks
  BY <1>1, <1>2, <1>7 DEF Checks
<1>12. c[2 + m] = "none"
  BY <1>10, <1>11 DEF FailedChecks
<1> QED
  BY <1>2, <1>10, <1>12

LEMMA ArraysCollected ==
    ASSUME link \in Link, Sited, NoPreinit, DOMAIN arrays = LifecycleKinds,
           CollectLifecycle, stage' # "failed"
    PROVE  ArraysList'
<1>1. PICK c, failed : c = Checks /\ failed = {k \in DOMAIN c : c[k] # "none"}
  OBVIOUS
<1>2. failed = {}
  <2>1. ASSUME failed # {} PROVE FALSE
    <3>1. Fail(c[Min(failed)])
      BY <1>1, <2>1, Zenon DEF CollectLifecycle, Checks
    <3> QED
      BY <3>1 DEF Fail
  <2> QED
    BY <2>1
<1>3. /\ arrays' = [k \in DOMAIN arrays |-> IF k \in ToSet(ArrayKinds)
                                           THEN Collect(link.inputs, InputAddress, k).array ELSE NoArray]
      /\ UNCHANGED <<link, order, image, dynamic, interp, relro, mem, ran, reached, error>>
  BY <1>1, <1>2, Zenon DEF CollectLifecycle, Checks
<1>4. FailedChecks = {}
  BY <1>1, <1>2 DEF FailedChecks
<1>5. link' = link /\ Named("input")' = Named("input")
  BY <1>3 DEF Named
<1>6. ASSUME NEW k \in LifecycleKinds PROVE OfEach(Pointers(arrays[k]), FunctionsOf(k))'
  <2>1. PICK A : A = arrays'[k]
    OBVIOUS
  <2>2. Pointers(arrays[k])' = Pointers(A)
    <3>1. \A a : PointerAt(a)' = PointerAt(a)
      BY <1>5, PointersSame
    <3> QED
      BY <2>1, <3>1 DEF Pointers
  <2>3. FunctionsOf(k)' = FunctionsOf(k)
    BY <1>5, PointersSame
  <2>4. OfEach(Pointers(A), FunctionsOf(k))
    <3>1. CASE k \in ToSet(ArrayKinds)
      <4>1. PICK m \in DOMAIN ArrayKinds : ArrayKinds[m] = k
        BY <3>1 DEF ToSet
      <4>2. Collect(link.inputs, InputAddress, k).error = "none"
        BY <1>4, <4>1, ChecksPassed
      <4>3. A = Collect(link.inputs, InputAddress, k).array
        BY <1>3, <2>1, <3>1
      <4> QED
        BY <4>2, <4>3, KindListed
    <3>2. CASE k \notin ToSet(ArrayKinds)
      <4>1. ~link.pie /\ k = "preinit"
        <5>1. ASSUME link.pie PROVE 1 \in DOMAIN ArrayKinds /\ 2 \in DOMAIN ArrayKinds /\ 3 \in DOMAIN ArrayKinds
                   /\ ArrayKinds[1] = "preinit" /\ ArrayKinds[2] = "init" /\ ArrayKinds[3] = "fini"
          BY <5>1 DEF ArrayKinds
        <5>2. ASSUME ~link.pie PROVE 1 \in DOMAIN ArrayKinds /\ 2 \in DOMAIN ArrayKinds
                   /\ ArrayKinds[1] = "init" /\ ArrayKinds[2] = "fini"
          BY <5>2 DEF ArrayKinds
        <5> QED
          BY <3>2, <5>1, <5>2 DEF ToSet, LifecycleKinds
      <4>2. A = NoArray
        BY <1>3, <2>1, <3>2
      <4> QED
        BY <4>1, <4>2, NoneUnpublished
    <3> QED
      BY <3>1, <3>2
  <2> QED
    BY <2>2, <2>3, <2>4
<1> QED
  BY <1>6 DEF ArraysList, LifecycleKinds

-----------------------------------------------------------------------------
(* What has run when the constructors are done, and when the destructors   *)
(* are.                                                                    *)
HookOf(kind, p) == IF kind = "none" THEN {} ELSE {p}
Begun == (FunctionsOf("preinit") \cup HookOf(link.init, InitHook)) \cup FunctionsOf("init")
Ended == (Begun \cup FunctionsOf("fini")) \cup HookOf(link.fini, FiniHook)

LEMMA FunctionsApart ==
    ASSUME link \in Link
    PROVE  /\ \A k, m : k # m => FunctionsOf(k) \cap FunctionsOf(m) = {}
           /\ \A k, hook : FunctionsOf(k) \cap HookOf(hook, InitHook) = {}
           /\ \A k, hook : FunctionsOf(k) \cap HookOf(hook, FiniHook) = {}
           /\ \A hook, last : HookOf(hook, InitHook) \cap HookOf(last, FiniHook) = {}
<1>1. \A k, m : k # m => FunctionsOf(k) \cap FunctionsOf(m) = {}
  BY DEF FunctionsOf, Entries
<1>2. PICK n \in Nat : DOMAIN link.inputs = 1 .. n
  BY EntriesAre
<1>3. PICK i, f : i = InitHook /\ f = FiniHook
  OBVIOUS
<1>4. i[1] = 0 /\ f[1] = 0 /\ i[2] = 1 /\ f[2] = 2
  BY <1>3 DEF InitHook, FiniHook
<1>5. \A k : \A g \in FunctionsOf(k) : g[1] # 0
  BY <1>2 DEF FunctionsOf
<1>6. \A k : i \notin FunctionsOf(k) /\ f \notin FunctionsOf(k)
  BY <1>4, <1>5
<1>7. i # f
  BY <1>4
<1>8. \A hook : HookOf(hook, i) \subseteq {i} /\ HookOf(hook, f) \subseteq {f}
  BY DEF HookOf
<1>9. /\ \A k, hook : FunctionsOf(k) \cap HookOf(hook, i) = {}
      /\ \A k, hook : FunctionsOf(k) \cap HookOf(hook, f) = {}
      /\ \A hook, last : HookOf(hook, i) \cap HookOf(last, f) = {}
  BY <1>6, <1>7, <1>8
<1> QED
  BY <1>1, <1>3, <1>9

LEMMA HookRun ==
    ASSUME NEW kind, NEW p
    PROVE  OfEach(Hook(kind, p), HookOf(kind, p))
BY EachOfOne DEF HookOf

LEMMA ConstructorsRun ==
    ASSUME link \in Link, ArraysList, RunConstructors
    PROVE  OfEach(ran, Begun)'
<1>1. PICK P, H, I : P = FunctionsOf("preinit") /\ H = HookOf(link.init, InitHook) /\ I = FunctionsOf("init")
  OBVIOUS
<1>2. PICK p, h, i : p = Pointers(arrays["preinit"]) /\ h = Hook(link.init, InitHook) /\ i = Pointers(arrays["init"])
  OBVIOUS
<1>3. OfEach(p, P) /\ OfEach(i, I)
  BY <1>1, <1>2 DEF ArraysList, LifecycleKinds
<1>4. OfEach(h, H)
  BY <1>1, <1>2, HookRun
<1>5. P \cap H = {} /\ (P \cup H) \cap I = {}
  <2>1. P \cap H = {} /\ I \cap H = {}
    BY <1>1, FunctionsApart
  <2>2. P \cap I = {}
    BY <1>1, FunctionsApart
  <2> QED
    BY <2>1, <2>2
<1>6. OfEach(p \o h, P \cup H)
  BY <1>3, <1>4, <1>5, EachJoined
<1>7. PICK q, Q : q = p \o h /\ Q = P \cup H
  OBVIOUS
<1>8. OfEach(q \o i, Q \cup I)
  BY <1>3, <1>5, <1>6, <1>7, EachJoined
<1>9. ran' = q \o i /\ UNCHANGED <<link, image>>
  BY <1>2, <1>7 DEF RunConstructors
<1>10. Begun' = Begun
  BY <1>9 DEF Begun, FunctionsOf, HookOf
<1>11. Begun = Q \cup I
  BY <1>1, <1>7 DEF Begun
<1> QED
  BY <1>8, <1>9, <1>10, <1>11

LEMMA DestructorsRun ==
    ASSUME link \in Link, ArraysList, OfEach(ran, Begun), RunDestructors
    PROVE  OfEach(ran, Ended)'
<1>1. PICK B, F, H : B = Begun /\ F = FunctionsOf("fini") /\ H = HookOf(link.fini, FiniHook)
  OBVIOUS
<1>2. PICK f, h : f = Reverse(Pointers(arrays["fini"])) /\ h = Hook(link.fini, FiniHook)
  OBVIOUS
<1>3. OfEach(f, F)
  <2>1. OfEach(Pointers(arrays["fini"]), F)
    BY <1>1 DEF ArraysList, LifecycleKinds
  <2> QED
    BY <1>2, <2>1, EachReversed
<1>4. OfEach(h, H)
  BY <1>1, <1>2, HookRun
<1>5. B \cap F = {} /\ (B \cup F) \cap H = {}
  <2>1. PICK P, I, G : P = FunctionsOf("preinit") /\ I = FunctionsOf("init") /\ G = HookOf(link.init, InitHook)
    OBVIOUS
  <2>2. B = (P \cup G) \cup I
    BY <1>1, <2>1 DEF Begun
  <2>3. P \cap F = {} /\ I \cap F = {}
    BY <1>1, <2>1, FunctionsApart
  <2>4. F \cap G = {} /\ F \cap H = {} /\ P \cap H = {} /\ I \cap H = {} /\ G \cap H = {}
    BY <1>1, <2>1, FunctionsApart
  <2> QED
    BY <2>2, <2>3, <2>4
<1>6. OfEach(ran \o f, B \cup F)
  BY <1>1, <1>3, <1>5, EachJoined
<1>7. PICK q, Q : q = ran \o f /\ Q = B \cup F
  OBVIOUS
<1>8. OfEach(q \o h, Q \cup H)
  BY <1>4, <1>5, <1>6, <1>7, EachJoined
<1>9. ran' = q \o h /\ UNCHANGED <<link, image>>
  BY <1>2, <1>7 DEF RunDestructors
<1>10. Ended' = Ended
  BY <1>9 DEF Ended, Begun, FunctionsOf, HookOf
<1>11. Ended = Q \cup H
  BY <1>1, <1>7 DEF Ended
<1> QED
  BY <1>8, <1>9, <1>10, <1>11

LEMMA ListedAre ==
    ASSUME link \in Link
    PROVE  Listed = (FunctionsOf("preinit") \cup FunctionsOf("init")) \cup FunctionsOf("fini")
<1>1. PICK n \in Nat : DOMAIN link.inputs = 1 .. n
  BY EntriesAre
<1>2. \A i \in DOMAIN link.inputs : link.inputs[i].size \in Nat
  <2>1. link.inputs \in Seq(Section)
    BY DEF Link
  <2>2. \A i \in DOMAIN link.inputs : link.inputs[i] \in Section
    BY <2>1
  <2> QED
    BY <2>2 DEF Section
<1>3. ASSUME NEW f, NEW i \in DOMAIN link.inputs, link.inputs[i].kind \in LifecycleKinds,
             f \in {i} \X (1 .. link.inputs[i].size \div 8)
      PROVE  f \in FunctionsOf(link.inputs[i].kind)
  <2>1. PICK z \in Nat : z = link.inputs[i].size
    BY <1>2
  <2>2. PICK w \in Nat : w = z \div 8 /\ (z = 0 => w = 0)
    OBVIOUS
  <2>3. f = <<f[1], f[2]>> /\ f[1] = i /\ f[2] \in 1 .. w
    BY <1>3, <2>1, <2>2
  <2>4. z # 0 /\ f[2] \in Nat
    BY <2>2, <2>3
  <2>5. f \in (DOMAIN link.inputs) \X Nat
    BY <2>3, <2>4
  <2> QED
    BY <2>1, <2>2, <2>3, <2>4, <2>5 DEF FunctionsOf, Entries
<1>4. ASSUME NEW kind \in LifecycleKinds, NEW f \in FunctionsOf(kind)
      PROVE  \E i \in DOMAIN link.inputs : /\ link.inputs[i].kind \in LifecycleKinds
                                           /\ f \in {i} \X (1 .. link.inputs[i].size \div 8)
  <2>1. PICK i : i = f[1]
    OBVIOUS
  <2>2. f = <<i, f[2]>> /\ i \in DOMAIN link.inputs /\ link.inputs[i].kind = kind
        /\ f[2] \in 1 .. link.inputs[i].size \div 8
    BY <2>1 DEF FunctionsOf, Entries
  <2> QED
    BY <2>2
<1>5. \A f : f \in Listed <=> \E i \in DOMAIN link.inputs :
                                /\ link.inputs[i].kind \in LifecycleKinds
                                /\ f \in {i} \X (1 .. link.inputs[i].size \div 8)
  BY DEF Listed, LifecycleKinds, Word
<1>6. \A f : f \in Listed <=> \E kind \in LifecycleKinds : f \in FunctionsOf(kind)
  BY <1>3, <1>4, <1>5
<1> QED
  BY <1>6 DEF LifecycleKinds

LEMMA EachRan ==
    ASSUME link \in Link, OfEach(ran, Ended), stage = "ended"
    PROVE  EveryFunctionRunsOnce
<1>1. PICK L, E : L = Listed /\ E = Ended
  OBVIOUS
<1>2. L \subseteq E /\ E \subseteq L \cup {InitHook, FiniHook}
  <2>1. \A hook, p : HookOf(hook, p) \subseteq {p}
    BY DEF HookOf
  <2>2. PICK H, G : H = HookOf(link.init, InitHook) /\ G = HookOf(link.fini, FiniHook)
    OBVIOUS
  <2>3. H \subseteq {InitHook} /\ G \subseteq {FiniHook}
    BY <2>1, <2>2
  <2> QED
    BY <1>1, <2>2, <2>3, ListedAre DEF Ended, Begun
<1>3. OfEach(ran, E)
  BY <1>1
<1>4. ToSet(ran) \subseteq E
  BY <1>3 DEF OfEach, ToSet
<1>5. ASSUME NEW f \in L
      PROVE  \E k \in DOMAIN ran : ran[k] = f /\ \A m \in DOMAIN ran : ran[m] = f => m = k
  BY <1>2, <1>3 DEF OfEach
<1> QED
  BY <1>1, <1>2, <1>4, <1>5 DEF EveryFunctionRunsOnce

-----------------------------------------------------------------------------
(* What the arrays publish and what has run at every step.                 *)
RunsInv ==
    /\ DOMAIN arrays = LifecycleKinds
    /\ stage \in {"place", "copy", "collect"} => NoPreinit
    /\ stage \in {"metadata", "write", "load", "start", "running"} => ArraysList
    /\ stage = "running" => OfEach(ran, Begun)
    /\ stage = "ended" => OfEach(ran, Ended)

LEMMA StoodSited ==
    ASSUME NEW copied, Stood(ToSet(image), copied)
    PROVE  Sited
<1>1. PICK S : S = ToSet(image)
  OBVIOUS
<1>2. Stood(S, copied)
  BY <1>1
<1>3. Stocked(link, S, copied)
  BY <1>2 DEF Stood
<1>4. Within(S)
  BY <1>2, StoodIs
<1>5. S \subseteq ToSet(image)
  BY <1>1
<1> QED
  BY <1>3, <1>4, <1>5, StockedSited

LEMMA InputsStay ==
    ASSUME NEW copied, Stood(ToSet(image), copied), PlaceMetadata
    PROVE  Named("input")' = Named("input")
<1>1. PICK S : S = ToSet(image)
  OBVIOUS
<1>2. Stood(S, copied)
  BY <1>1
<1>3. PICK M, X : Outcome(link, S, M, X, relro') /\ ToSet(image') = Whole(S, M, X)
  BY <1>2, OutcomeReached
<1>4. M.what # "input" /\ \A x \in X : x.what # "input"
  BY <1>3 DEF Outcome, IsMetadata, IsExtra
<1>5. ToSet(image') = (S \cup {M}) \cup X
  BY <1>3 DEF Whole
<1> QED
  BY <1>1, <1>4, <1>5 DEF Named

(* A program that has run to its end has run each function of its own      *)
(* arrays once and nothing else but the two hooks: no pad, no data and no  *)
(* other array's pointer lies in a published range, whatever sections are  *)
(* linked, in whatever order the tail put them and wherever they came to   *)
(* lie.                                                                    *)
THEOREM FunctionsRunOnce == ImageSpec => []EveryFunctionRunsOnce
<1>1. ImageInit => RunsInv
  BY DEF ImageInit, RunsInv, LifecycleKinds
<1>2. ImageInv /\ RunsInv /\ [ImageNext]_imageVars => RunsInv'
  <2> SUFFICES ASSUME ImageInv, RunsInv, [ImageNext]_imageVars PROVE RunsInv'
    OBVIOUS
  <2>0. link \in Link /\ DOMAIN arrays = LifecycleKinds
    BY DEF ImageInv, RunsInv
  <2>1. ASSUME Fail(error') PROVE RunsInv'
    BY <2>0, <2>1 DEF Fail, RunsInv
  <2>2. CASE OrderTail
    <3>1. CASE ~link.pie /\ \E i \in DOMAIN link.inputs : link.inputs[i].kind = "preinit"
      <4>1. Fail("SharedPreinitUnsupported")
        BY <2>2, <3>1 DEF OrderTail
      <4> QED
        BY <2>1, <4>1 DEF Fail
    <3>2. CASE ~(~link.pie /\ \E i \in DOMAIN link.inputs : link.inputs[i].kind = "preinit")
      <4>1. NoPreinit
        BY <2>0, <3>2 DEF NoPreinit, Link
      <4>2. stage' = "place" /\ link' = link /\ arrays' = arrays
        BY <2>2, <3>2 DEF OrderTail
      <4> QED
        BY <2>0, <4>1, <4>2 DEF RunsInv, NoPreinit
    <3> QED
      BY <3>1, <3>2
  <2>3. CASE PlaceSections
    <3>1. stage = "place" /\ stage' = "copy" /\ link' = link /\ arrays' = arrays
      BY <2>3 DEF PlaceSections
    <3> QED
      BY <2>0, <3>1 DEF RunsInv, NoPreinit
  <2>4. CASE AllocateCopies
    <3>1. stage = "copy" /\ stage' = "collect" /\ link' = link /\ arrays' = arrays
      BY <2>4 DEF AllocateCopies
    <3> QED
      BY <2>0, <3>1 DEF RunsInv, NoPreinit
  <2>5. CASE CollectLifecycle
    <3>1. stage = "collect" /\ stage' \in {"failed", "metadata"}
      BY <2>0, <2>5, LifecycleRefused DEF CollectLifecycle
    <3>2. DOMAIN arrays' = DOMAIN arrays
      BY <2>5 DEF CollectLifecycle, Fail
    <3>3. CASE stage' = "failed"
      BY <2>0, <3>2, <3>3 DEF RunsInv
    <3>4. CASE stage' = "metadata"
      <4>1. Sited /\ NoPreinit
        BY <3>1, StoodSited DEF ImageInv, RunsInv
      <4>2. ArraysList'
        BY <2>0, <2>5, <3>4, <4>1, ArraysCollected
      <4> QED
        BY <2>0, <3>2, <3>4, <4>2 DEF RunsInv
    <3> QED
      BY <3>1, <3>3, <3>4
  <2>6. ASSUME Named("input")' = Named("input"), link' = link, arrays' = arrays, ArraysList,
               stage' \in {"write", "load", "start"}
        PROVE  RunsInv'
    <3>1. ArraysList'
      BY <2>6, ArraysSame
    <3> QED
      BY <2>0, <2>6, <3>1 DEF RunsInv
  <2>7. CASE PlaceMetadata
    <3>1. stage = "metadata" /\ stage' = "write" /\ link' = link /\ arrays' = arrays
      BY <2>7 DEF PlaceMetadata
    <3>2. Named("input")' = Named("input")
      BY <2>7, <3>1, InputsStay DEF ImageInv
    <3> QED
      BY <2>6, <3>1, <3>2 DEF RunsInv
  <2>8. CASE WriteImage
    <3>1. stage = "write" /\ UNCHANGED <<link, image, arrays>> /\ stage' \in {"failed", "load"}
      BY <2>8 DEF WriteImage, Fail
    <3>2. CASE stage' = "failed"
      BY <2>0, <3>1, <3>2 DEF RunsInv
    <3>3. CASE stage' = "load"
      <4>1. Named("input")' = Named("input")
        BY <3>1 DEF Named
      <4> QED
        BY <2>6, <3>1, <3>3, <4>1 DEF RunsInv
    <3> QED
      BY <3>1, <3>2, <3>3
  <2>9. CASE Load
    <3>1. stage = "load" /\ stage' = "start" /\ UNCHANGED <<link, image, arrays>>
      BY <2>9 DEF Load
    <3>2. Named("input")' = Named("input")
      BY <3>1 DEF Named
    <3> QED
      BY <2>6, <3>1, <3>2 DEF RunsInv
  <2>10. CASE RunConstructors
    <3>1. stage = "start" /\ stage' = "running" /\ UNCHANGED <<link, image, arrays>>
      BY <2>10 DEF RunConstructors
    <3>2. ArraysList
      BY <3>1 DEF RunsInv
    <3>3. Named("input")' = Named("input")
      BY <3>1 DEF Named
    <3>4. ArraysList'
      BY <3>1, <3>2, <3>3, ArraysSame
    <3>5. OfEach(ran, Begun)'
      BY <2>0, <2>10, <3>2, ConstructorsRun
    <3> QED
      BY <2>0, <3>1, <3>4, <3>5 DEF RunsInv
  <2>11. CASE \E n \in 1 .. link.need.plt : Call(n)
    <3>1. stage = "running" /\ stage' \in {"running", "faulted"} /\ UNCHANGED <<link, image, arrays, ran>>
      BY <2>11 DEF Call
    <3>2. Named("input")' = Named("input")
      BY <3>1 DEF Named
    <3>3. ArraysList'
      BY <3>1, <3>2, ArraysSame DEF RunsInv
    <3>4. Begun' = Begun
      BY <3>1 DEF Begun, FunctionsOf, HookOf
    <3>5. OfEach(ran, Begun)'
      BY <3>1, <3>4 DEF RunsInv
    <3> QED
      BY <2>0, <3>1, <3>3, <3>5 DEF RunsInv
  <2>12. CASE RunDestructors
    <3>1. stage = "running" /\ stage' = "ended" /\ arrays' = arrays
      BY <2>12 DEF RunDestructors
    <3>2. OfEach(ran, Ended)'
      BY <2>0, <2>12, <3>1, DestructorsRun DEF RunsInv
    <3> QED
      BY <2>0, <3>1, <3>2 DEF RunsInv
  <2>13. CASE UNCHANGED imageVars
    <3>1. UNCHANGED <<link, image, arrays, ran, stage>>
      BY <2>13 DEF imageVars
    <3>2. Named("input")' = Named("input")
      BY <3>1 DEF Named
    <3>3. (ArraysList => ArraysList') /\ NoPreinit' = NoPreinit
      BY <3>1, <3>2, ArraysSame, PointersSame
    <3>4. Begun' = Begun /\ Ended' = Ended
      BY <3>1 DEF Begun, Ended, FunctionsOf, HookOf
    <3> QED
      BY <2>0, <3>1, <3>3, <3>4 DEF RunsInv
  <2> QED
    BY <2>2, <2>3, <2>4, <2>5, <2>7, <2>8, <2>9, <2>10, <2>11, <2>12, <2>13 DEF ImageNext, Stopped
<1>3. ImageInv /\ RunsInv => EveryFunctionRunsOnce
  <2> SUFFICES ASSUME ImageInv, RunsInv PROVE EveryFunctionRunsOnce
    OBVIOUS
  <2>1. CASE stage = "ended"
    BY <2>1, EachRan DEF ImageInv, RunsInv
  <2>2. CASE stage # "ended"
    BY <2>2 DEF EveryFunctionRunsOnce
  <2> QED
    BY <2>1, <2>2
<1> QED
  BY <1>1, <1>2, <1>3, ImageInvHolds, PTL DEF ImageSpec
=============================================================================
