----------------------------- MODULE RequestProofs -----------------------------
(***************************************************************************)
(* Machine-checked proofs about Request, for any headers, options, bodies  *)
(* and numbers of messages: what the engines and a data file send is the   *)
(* same, and it is counted as it was built.                                *)
(***************************************************************************)
EXTENDS Request, FiniteSetTheorems, NaturalsInduction, WellFoundedInduction, TLAPS

-----------------------------------------------------------------------------
(* Loops over a sequence. *)

LEMMA Least ==
  ASSUME NEW T \in SUBSET Nat, T # {}
  PROVE  \E m \in T : \A k \in T : m <= k
<1> DEFINE L == OpToRel(<, Nat)
<1>1. IsWellFoundedOn(L, Nat)
  BY NatLessThanWellFounded
<1>2. PICK m \in T : \A k \in T : ~(<<k, m>> \in L)
  <2> HIDE DEF L
  <2> QED
    BY <1>1, WFMin
<1>3. \A k \in T : ~(k < m)
  BY <1>2 DEF OpToRel
<1> QED
  BY <1>3

\* What holds at zero and goes on to the next holds up to n.
LEMMA Climb ==
  ASSUME NEW n \in Nat, NEW T, 0 \in T,
         ASSUME NEW i \in 1 .. n, i - 1 \in T PROVE i \in T
  PROVE  \A i \in 0 .. n : i \in T
<1> DEFINE M == {i \in 0 .. n : i \notin T}
<1> SUFFICES ASSUME M # {} PROVE FALSE
  OBVIOUS
<1>1. M \in SUBSET Nat
  OBVIOUS
<1>2. PICK i \in M : \A k \in M : i <= k
  <2> HIDE DEF M
  <2> QED
    BY <1>1, Least
<1>3. i \in 0 .. n /\ i \notin T
  OBVIOUS
<1>4. i # 0
  BY <1>3
<1>5. i \in 1 .. n /\ i - 1 \in 0 .. n /\ ~(i <= i - 1)
  <2> HIDE DEF M
  <2> QED
    BY <1>3, <1>4
<1>6. i - 1 \in T
  BY <1>2, <1>5
<1> QED
  BY <1>3, <1>5, <1>6

\* What a loop has made behind each of n steps.
Loops(n, S, b, step, g) ==
    /\ g \in [0 .. n -> S] /\ g[0] = b
    /\ \A i \in 1 .. n : g[i] = step[<<g[i - 1], i>>]

LEMMA LoopExists ==
  ASSUME NEW n \in Nat, NEW S, NEW b \in S, NEW step \in [S \X (1 .. n) -> S]
  PROVE  \E g : Loops(n, S, b, step, g)
<1> DEFINE T == {c \in 0 .. n : \E g : Loops(c, S, b, step, g)}
<1>1. 0 \in T
  <2> DEFINE g == [i \in 0 .. 0 |-> b]
  <2>1. Loops(0, S, b, step, g)
    BY DEF Loops
  <2> HIDE DEF g
  <2> QED
    BY <2>1
<1>2. ASSUME NEW c \in 1 .. n, c - 1 \in T PROVE c \in T
  <2>1. PICK g : Loops(c - 1, S, b, step, g)
    BY <1>2
  <2> DEFINE last == step[<<g[c - 1], c>>]
             h == [i \in 0 .. c |-> IF i = c THEN last ELSE g[i]]
  <2>2. /\ c \in Nat /\ c - 1 \in Nat /\ c # 0 /\ c - 1 \in 0 .. c - 1
        /\ g \in [0 .. c - 1 -> S] /\ g[0] = b
        /\ \A i \in 1 .. c - 1 : g[i] = step[<<g[i - 1], i>>]
    BY <2>1 DEF Loops
  <2>3. g[c - 1] \in S
    BY <2>2
  <2>4. last \in S
    BY <2>3
  <2>5. h \in [0 .. c -> S] /\ h[0] = b
    <3> HIDE DEF last
    <3> QED
      BY <2>2, <2>4
  <2>6. ASSUME NEW i \in 1 .. c PROVE h[i] = step[<<h[i - 1], i>>]
    <3>1. i \in 0 .. c /\ i - 1 \in 0 .. c /\ i - 1 # c
      BY <2>2
    <3>2. h[i - 1] = g[i - 1]
      BY <3>1
    <3>3. CASE i = c
      BY <3>1, <3>2, <3>3
    <3>4. CASE i # c
      <4>1. i \in 1 .. c - 1
        BY <2>2, <3>4
      <4>2. h[i] = g[i] /\ g[i] = step[<<g[i - 1], i>>]
        BY <2>2, <3>1, <3>4, <4>1
      <4> QED
        BY <3>2, <4>2
    <3> QED
      BY <3>3, <3>4
  <2>7. Loops(c, S, b, step, h)
    <3> HIDE DEF h
    <3> QED
      BY <2>5, <2>6 DEF Loops
  <2> HIDE DEF h
  <2> QED
    BY <2>7
<1>3. \A c \in 0 .. n : c \in T
  <2> HIDE DEF T
  <2> QED
    BY <1>1, <1>2, Climb
<1> QED
  BY <1>3

\* A loop makes one thing.
LEMMA LoopUnique ==
  ASSUME NEW n \in Nat, NEW g, NEW h, g[0] = h[0],
         ASSUME NEW i \in 1 .. n, g[i - 1] = h[i - 1] PROVE g[i] = h[i]
  PROVE  \A i \in 0 .. n : g[i] = h[i]
<1> DEFINE T == {i \in 0 .. n : g[i] = h[i]}
<1>1. 0 \in T
  OBVIOUS
<1>2. ASSUME NEW i \in 1 .. n, i - 1 \in T PROVE i \in T
  <2>1. i \in 0 .. n
    OBVIOUS
  <2> QED
    BY <1>2, <2>1
<1>3. \A i \in 0 .. n : i \in T
  <2> HIDE DEF T
  <2> QED
    BY <1>1, <1>2, Climb
<1> QED
  BY <1>3

LEMMA AppendFacts ==
  ASSUME NEW S, NEW s \in Seq(S), NEW e \in S
  PROVE  /\ Append(s, e) \in Seq(S) /\ Len(Append(s, e)) = Len(s) + 1
         /\ \A i \in 1 .. Len(s) : Append(s, e)[i] = s[i]
         /\ Append(s, e)[Len(s) + 1] = e
  OBVIOUS

LEMMA RangeAppend ==
  ASSUME NEW S, NEW s \in Seq(S), NEW e \in S
  PROVE  Range(Append(s, e)) = Range(s) \union {e}
<1> DEFINE t == Append(s, e)
           n == Len(s)
<1>1. n \in Nat /\ DOMAIN t = 1 .. n + 1 /\ DOMAIN s = 1 .. n
  OBVIOUS
<1>2. t[n + 1] = e /\ \A i \in 1 .. n : t[i] = s[i]
  BY AppendFacts
<1> HIDE DEF t, n
<1>3. Range(t) = Range(s) \union {e}
  <2>1. ASSUME NEW i \in 1 .. n + 1 PROVE t[i] \in Range(s) \union {e}
    BY <1>1, <1>2 DEF Range
  <2>2. ASSUME NEW i \in 1 .. n PROVE s[i] \in Range(t)
    <3>1. i \in 1 .. n + 1 /\ t[i] = s[i]
      BY <1>1, <1>2
    <3> QED
      BY <1>1, <3>1 DEF Range
  <2>3. e \in Range(t)
    <3>1. n + 1 \in 1 .. n + 1
      BY <1>1
    <3> QED
      BY <1>1, <1>2, <3>1 DEF Range
  <2> QED
    BY <1>1, <2>1, <2>2, <2>3 DEF Range
<1> QED
  BY <1>3 DEF t

-----------------------------------------------------------------------------
(* Header lists. *)

\* Some places of a sequence, and nothing else of it.
LEMMA KeptLoop ==
  ASSUME NEW S, NEW s \in Seq(S), NEW places
  PROVE  \E u \in [0 .. Len(s) -> Seq(S)] :
            /\ u[0] = <<>> /\ Kept(s, places) = u[Len(s)]
            /\ \A i \in 1 .. Len(s) :
                 u[i] = IF i \in places THEN Append(u[i - 1], s[i]) ELSE u[i - 1]
<1> DEFINE n == Len(s)
           After(t, i) == IF i \in places THEN Append(t, s[i]) ELSE t
           step == [p \in Seq(S) \X (1 .. n) |-> After(p[1], p[2])]
           Is(g) == g = [i \in 0 .. n |-> IF i = 0 THEN <<>> ELSE After(g[i - 1], i)]
<1>1. n \in Nat /\ <<>> \in Seq(S)
  OBVIOUS
<1>2. ASSUME NEW t \in Seq(S), NEW i \in 1 .. n PROVE After(t, i) \in Seq(S)
  <2>1. s[i] \in S
    OBVIOUS
  <2> QED
    BY <2>1, AppendFacts
<1> HIDE DEF n, After
<1>3. step \in [Seq(S) \X (1 .. n) -> Seq(S)]
  BY <1>2
<1>4. \A t \in Seq(S), i \in 1 .. n : step[<<t, i>>] = After(t, i)
  OBVIOUS
<1> HIDE DEF step
<1>5. PICK g : Loops(n, Seq(S), <<>>, step, g)
  BY <1>1, <1>3, LoopExists, Zenon
<1>6. /\ g \in [0 .. n -> Seq(S)] /\ g[0] = <<>>
      /\ \A i \in 1 .. n : g[i - 1] \in Seq(S)
  BY <1>1, <1>5 DEF Loops
<1>7. \A i \in 1 .. n : g[i] = After(g[i - 1], i)
  BY <1>4, <1>5, <1>6, Zenon DEF Loops
<1>8. Is(g)
  BY <1>1, <1>6, <1>7
<1> DEFINE upTo == CHOOSE g_ : Is(g_)
<1>9. Is(upTo)
  BY <1>8, Zenon
<1>10. Kept(s, places) = upTo[n]
  BY DEF Kept, n, After
<1> HIDE DEF upTo
<1>11. upTo[n] = g[n]
  <2>1. upTo[0] = g[0]
    BY <1>1, <1>8, <1>9
  <2>2. ASSUME NEW i \in 1 .. n, upTo[i - 1] = g[i - 1] PROVE upTo[i] = g[i]
    <3>1. i \in 0 .. n /\ i # 0
      BY <1>1
    <3> QED
      BY <1>8, <1>9, <2>2, <3>1
  <2>3. \A i \in 0 .. n : upTo[i] = g[i]
    BY <1>1, <2>1, <2>2, LoopUnique, ZenonT(60)
  <2> QED
    BY <1>1, <2>3
<1> QED
  BY <1>6, <1>7, <1>10, <1>11 DEF n, After

LEMMA KeptFacts ==
  ASSUME NEW S, NEW s \in Seq(S), NEW places \in SUBSET (1 .. Len(s))
  PROVE  Kept(s, places) \in Seq(S) /\ Range(Kept(s, places)) = {s[i] : i \in places}
<1> DEFINE n == Len(s)
<1>1. n \in Nat
  OBVIOUS
<1>2. PICK u \in [0 .. n -> Seq(S)] :
         /\ u[0] = <<>> /\ Kept(s, places) = u[n]
         /\ \A i \in 1 .. n : u[i] = IF i \in places THEN Append(u[i - 1], s[i]) ELSE u[i - 1]
  BY KeptLoop, ZenonT(60)
<1>3. \A i \in 1 .. n : s[i] \in S
  OBVIOUS
<1>4. \A k \in places : k \in Nat /\ 1 <= k /\ k <= n
  OBVIOUS
<1> HIDE DEF n
<1> DEFINE Upto(i) == {s[j] : j \in {k \in places : k <= i}}
           T == {i \in 0 .. n : Range(u[i]) = Upto(i)}
<1>5. 0 \in T
  <2>1. Range(u[0]) = {}
    BY <1>2 DEF Range
  <2>2. ASSUME NEW k \in places PROVE ~(k <= 0)
    BY <1>4
  <2>3. Upto(0) = {}
    BY <2>2
  <2> QED
    BY <1>1, <2>1, <2>3
<1>6. ASSUME NEW i \in 1 .. n, i - 1 \in T PROVE i \in T
  <2>1. i \in 0 .. n /\ i - 1 \in 0 .. n /\ u[i - 1] \in Seq(S) /\ s[i] \in S
    BY <1>1, <1>2, <1>3
  <2>2. Range(u[i - 1]) = Upto(i - 1)
    BY <1>6
  <2>3. ASSUME NEW k \in places PROVE k <= i <=> k <= i - 1 \/ k = i
    BY <1>1, <1>4
  <2>4. i <= i /\ ~(i <= i - 1)
    BY <1>1
  <2>5. CASE i \in places
    <3>1. Range(u[i]) = Range(u[i - 1]) \union {s[i]}
      <4>1. u[i] = Append(u[i - 1], s[i])
        BY <1>2, <2>5
      <4> HIDE DEF T, Upto
      <4> QED
        BY <2>1, <4>1, RangeAppend
    <3>2. Upto(i) = Upto(i - 1) \union {s[i]}
      BY <2>3, <2>4, <2>5, Zenon
    <3> HIDE DEF Upto
    <3> QED
      BY <2>1, <2>2, <3>1, <3>2
  <2>6. CASE i \notin places
    <3>1. u[i] = u[i - 1]
      BY <1>2, <2>6
    <3>2. Upto(i) = Upto(i - 1)
      BY <2>3, <2>6, Zenon
    <3> HIDE DEF Upto
    <3> QED
      BY <2>1, <2>2, <3>1, <3>2
  <2> QED
    BY <2>5, <2>6
<1>7. \A i \in 0 .. n : i \in T
  <2> HIDE DEF T
  <2> QED
    BY <1>1, <1>5, <1>6, Climb
<1>8. n \in 0 .. n
  BY <1>1
<1>9. Range(u[n]) = Upto(n)
  BY <1>7, <1>8
<1>10. \A k \in places : k <= n
  BY <1>4
<1>11. Upto(n) = {s[i] : i \in places}
  BY <1>10
<1> QED
  BY <1>2, <1>8, <1>9, <1>11, ZenonT(60)

\* What a value may be, and a header.
Worth == Values \union {Number(n) : n \in Nat}
Header == Names \X Worth

\* Headers without those of a name, and with one of that name in their place.
Cut(G, name) == {h \in G : h[1] # name}
Over(G, name, value) == Cut(G, name) \union {<<name, value>>}

LEMMA FirstOfFacts ==
  ASSUME NEW S, NEW headers \in Seq(S), NEW name, Has(headers, name)
  PROVE  /\ FirstOf(headers, name) \in 1 .. Len(headers)
         /\ headers[FirstOf(headers, name)][1] = name
         /\ \A j \in 1 .. FirstOf(headers, name) - 1 : headers[j][1] # name
<1> DEFINE n == Len(headers)
           T == {i \in 1 .. n : headers[i][1] = name}
           IsFirst(i) == headers[i][1] = name /\ \A j \in 1 .. i - 1 : headers[j][1] # name
<1>1. n \in Nat /\ DOMAIN headers = 1 .. n
  OBVIOUS
<1>2. T # {} /\ T \in SUBSET Nat
  BY <1>1 DEF Has
<1> HIDE DEF n
<1>3. PICK m \in T : \A k \in T : m <= k
  <2> HIDE DEF T
  <2> QED
    BY <1>2, Least
<1>4. m \in 1 .. n /\ headers[m][1] = name
  OBVIOUS
<1>5. ASSUME NEW j \in 1 .. m - 1 PROVE headers[j][1] # name
  <2>1. j \in 1 .. n /\ ~(m <= j)
    BY <1>1, <1>4
  <2> QED
    BY <1>3, <2>1
<1>6. \E i \in DOMAIN headers : IsFirst(i)
  BY <1>1, <1>4, <1>5
<1>7. FirstOf(headers, name) = CHOOSE i \in DOMAIN headers : IsFirst(i)
  BY DEF FirstOf
<1> HIDE DEF IsFirst
<1>8. FirstOf(headers, name) \in DOMAIN headers /\ IsFirst(FirstOf(headers, name))
  BY <1>6, <1>7
<1> QED
  BY <1>1, <1>8 DEF IsFirst, n

\* An entry stands at one place, in front of which its name does not occur.
LEMMA ReplacePlace ==
  ASSUME NEW S, NEW h \in Seq(S), NEW x \in S
  PROVE  /\ Replace(h, x) \in Seq(S)
         /\ \E p \in 1 .. Len(Replace(h, x)) :
              /\ Replace(h, x)[p] = x
              /\ \A j \in 1 .. p - 1 : j \in 1 .. Len(h) /\ h[j][1] # x[1]
              /\ \A j \in 1 .. Len(Replace(h, x)) :
                   j # p => j \in 1 .. Len(h) /\ Replace(h, x)[j] = h[j]
              /\ Len(h) <= Len(Replace(h, x))
              /\ p \in 1 .. Len(h) => h[p][1] = x[1]
              /\ p \notin 1 .. Len(h) => ~Has(h, x[1])
<1> DEFINE n == Len(h)
           r == Replace(h, x)
<1>1. n \in Nat /\ DOMAIN h = 1 .. n
  OBVIOUS
<1>2. CASE Has(h, x[1])
  <2> DEFINE p == FirstOf(h, x[1])
  <2>1. r = [h EXCEPT ![p] = x]
    BY <1>2 DEF Replace
  <2>2. p \in 1 .. n /\ h[p][1] = x[1] /\ \A j \in 1 .. p - 1 : h[j][1] # x[1]
    BY <1>2, FirstOfFacts
  <2> HIDE DEF p, r
  <2>3. r \in Seq(S) /\ Len(r) = n /\ r[p] = x /\ \A j \in 1 .. n : j # p => r[j] = h[j]
    BY <2>1, <2>2
  <2> HIDE DEF n
  <2>4. \A j \in 1 .. p - 1 : j \in 1 .. n
    BY <1>1, <2>2
  <2> QED
    BY <1>1, <2>2, <2>3, <2>4 DEF n, r
<1>3. CASE ~Has(h, x[1])
  <2>1. r = Append(h, x)
    BY <1>3 DEF Replace
  <2> HIDE DEF r
  <2>2. r \in Seq(S) /\ Len(r) = n + 1 /\ r[n + 1] = x /\ \A j \in 1 .. n : r[j] = h[j]
    BY <2>1, AppendFacts
  <2>3. \A j \in 1 .. n : h[j][1] # x[1]
    BY <1>1, <1>3 DEF Has
  <2> HIDE DEF n
  <2>4. n + 1 \in 1 .. Len(r) /\ n + 1 - 1 = n /\ n + 1 \notin 1 .. n /\ n <= n + 1
    BY <1>1, <2>2
  <2>5. \A j \in 1 .. Len(r) : j # n + 1 => j \in 1 .. n /\ r[j] = h[j]
    BY <1>1, <2>2
  <2> QED
    BY <1>3, <2>2, <2>3, <2>4, <2>5 DEF n, r
<1> QED
  BY <1>2, <1>3

LEMMA ReplaceFacts ==
  ASSUME NEW S, NEW h \in Seq(S), NEW x \in S
  PROVE  /\ Replace(h, x) \in Seq(S)
         /\ Range(Replace(h, x)) \subseteq Range(h) \union {x}
         /\ \A name : Has(Replace(h, x), name) <=> Has(h, name) \/ name = x[1]
<1> DEFINE n == Len(h)
           r == Replace(h, x)
           m == Len(r)
<1>1. /\ r \in Seq(S)
      /\ \E p \in 1 .. m :
              /\ r[p] = x
              /\ \A j \in 1 .. p - 1 : j \in 1 .. n /\ h[j][1] # x[1]
              /\ \A j \in 1 .. m : j # p => j \in 1 .. n /\ r[j] = h[j]
              /\ n <= m
              /\ p \in 1 .. n => h[p][1] = x[1]
              /\ p \notin 1 .. n => ~Has(h, x[1])
  BY ReplacePlace
<1>2. PICK p \in 1 .. m :
              /\ r[p] = x
              /\ \A j \in 1 .. m : j # p => j \in 1 .. n /\ r[j] = h[j]
              /\ n <= m
              /\ p \in 1 .. n => h[p][1] = x[1]
  BY <1>1
<1>3. n \in Nat /\ m \in Nat /\ DOMAIN h = 1 .. n /\ DOMAIN r = 1 .. m
  BY <1>1
<1> HIDE DEF n, m, r
<1>4. Range(r) \subseteq Range(h) \union {x}
  BY <1>2, <1>3 DEF Range
<1>5. ASSUME NEW name PROVE Has(r, name) <=> Has(h, name) \/ name = x[1]
  <2>1. Has(r, name) => Has(h, name) \/ name = x[1]
    BY <1>2, <1>3 DEF Has
  <2>2. name = x[1] => Has(r, name)
    BY <1>2, <1>3 DEF Has
  <2>3. ASSUME NEW i \in 1 .. n, h[i][1] = name, name # x[1] PROVE Has(r, name)
    <3>1. i \in 1 .. m /\ i # p
      BY <1>2, <1>3, <2>3
    <3>2. r[i] = h[i]
      BY <1>2, <3>1
    <3> QED
      BY <1>3, <2>3, <3>1, <3>2 DEF Has
  <2> QED
    BY <1>3, <2>1, <2>2, <2>3 DEF Has
<1> QED
  BY <1>1, <1>4, <1>5 DEF r

\* In a list that names each header once an entry replaces its name.
LEMMA ReplaceOnce ==
  ASSUME NEW S, NEW h \in Seq(S), NEW name, NEW value, <<name, value>> \in S, NamedOnce(h)
  PROVE  /\ NamedOnce(Replace(h, <<name, value>>))
         /\ Range(Replace(h, <<name, value>>)) = Over(Range(h), name, value)
<1> DEFINE n == Len(h)
           x == <<name, value>>
           r == Replace(h, x)
           m == Len(r)
<1>0. x \in S /\ x[1] = name
  OBVIOUS
<1> HIDE DEF x
<1>1. /\ r \in Seq(S)
      /\ \E p \in 1 .. m :
              /\ r[p] = x
              /\ \A j \in 1 .. p - 1 : j \in 1 .. n /\ h[j][1] # x[1]
              /\ \A j \in 1 .. m : j # p => j \in 1 .. n /\ r[j] = h[j]
              /\ n <= m
              /\ p \in 1 .. n => h[p][1] = x[1]
              /\ p \notin 1 .. n => ~Has(h, x[1])
  BY <1>0, ReplacePlace
<1>2. PICK p \in 1 .. m :
              /\ r[p] = x
              /\ \A j \in 1 .. m : j # p => j \in 1 .. n /\ r[j] = h[j]
              /\ n <= m
              /\ p \in 1 .. n => h[p][1] = x[1]
              /\ p \notin 1 .. n => ~Has(h, x[1])
  BY <1>1
<1>3. n \in Nat /\ m \in Nat /\ DOMAIN h = 1 .. n /\ DOMAIN r = 1 .. m
  BY <1>1
<1> HIDE DEF n, m, r
<1>4. \A i, j \in 1 .. n : h[i][1] = h[j][1] => i = j
  BY <1>3 DEF NamedOnce
<1>5. ASSUME NEW j \in 1 .. m, j # p PROVE j \in 1 .. n /\ r[j] = h[j] /\ h[j][1] # name
  <2>1. j \in 1 .. n /\ r[j] = h[j]
    BY <1>2, <1>5
  <2>2. CASE p \in 1 .. n
    BY <1>0, <1>2, <1>4, <1>5, <2>1, <2>2
  <2>3. CASE p \notin 1 .. n
    BY <1>0, <1>2, <1>3, <2>1, <2>3 DEF Has
  <2> QED
    BY <2>1, <2>2, <2>3
<1>6. NamedOnce(r)
  <2> SUFFICES ASSUME NEW i \in 1 .. m, NEW j \in 1 .. m, r[i][1] = r[j][1] PROVE i = j
    BY <1>3 DEF NamedOnce
  <2>1. CASE i = p
    BY <1>0, <1>2, <1>5, <2>1
  <2>2. CASE j = p
    BY <1>0, <1>2, <1>5, <2>2
  <2>3. CASE i # p /\ j # p
    BY <1>4, <1>5, <2>3
  <2> QED
    BY <2>1, <2>2, <2>3
<1>7. ASSUME NEW j \in 1 .. m PROVE r[j] \in Cut(Range(h), name) \union {x}
  <2>1. CASE j = p
    BY <1>2, <2>1
  <2>2. CASE j # p
    BY <1>3, <1>5, <2>2 DEF Cut, Range
  <2> QED
    BY <2>1, <2>2
<1>8. ASSUME NEW i \in 1 .. n, h[i][1] # name PROVE h[i] \in Range(r)
  <2>1. i \in 1 .. m /\ i # p
    BY <1>0, <1>2, <1>3, <1>8
  <2>2. r[i] = h[i]
    BY <1>2, <2>1
  <2> QED
    BY <1>3, <2>1, <2>2 DEF Range
<1>9. x \in Range(r)
  BY <1>2, <1>3 DEF Range
<1>10. Range(r) = Cut(Range(h), name) \union {x}
  BY <1>3, <1>7, <1>8, <1>9 DEF Range, Cut
<1> QED
  BY <1>6, <1>10 DEF r, x, Over

-----------------------------------------------------------------------------
(* A file over the options. *)

\* What Overlay has made behind each header.
Overlays(S, base, over, g) ==
    /\ g \in [0 .. Len(over) -> Seq(S)] /\ g[0] = base
    /\ \A i \in 1 .. Len(over) : g[i] = Replace(g[i - 1], over[i])

LEMMA OverlayExists ==
  ASSUME NEW S, NEW base \in Seq(S), NEW over \in Seq(S)
  PROVE  \E g : Overlays(S, base, over, g)
<1> DEFINE n == Len(over)
           step == [p \in Seq(S) \X (1 .. n) |-> Replace(p[1], over[p[2]])]
<1>1. n \in Nat /\ \A i \in 1 .. n : over[i] \in S
  OBVIOUS
<1>2. ASSUME NEW t \in Seq(S), NEW i \in 1 .. n PROVE Replace(t, over[i]) \in Seq(S)
  BY <1>1, ReplaceFacts
<1> HIDE DEF n
<1>3. step \in [Seq(S) \X (1 .. n) -> Seq(S)]
  BY <1>2
<1>4. \A t \in Seq(S), i \in 1 .. n : step[<<t, i>>] = Replace(t, over[i])
  OBVIOUS
<1> HIDE DEF step
<1>5. PICK g : Loops(n, Seq(S), base, step, g)
  BY <1>1, <1>3, LoopExists, Zenon
<1>6. /\ g \in [0 .. n -> Seq(S)] /\ g[0] = base
      /\ \A i \in 1 .. n : g[i - 1] \in Seq(S)
  BY <1>1, <1>5 DEF Loops
<1>7. \A i \in 1 .. n : g[i] = Replace(g[i - 1], over[i])
  BY <1>4, <1>5, <1>6, Zenon DEF Loops
<1> QED
  BY <1>6, <1>7, Zenon DEF Overlays, n

LEMMA OverlayIs ==
  ASSUME NEW S, NEW base, NEW over \in Seq(S), NEW g, Overlays(S, base, over, g)
  PROVE  Overlay(base, over) = g[Len(over)]
<1> DEFINE n == Len(over)
           After(t, i) == Replace(t, over[i])
           Is(f) == f = [i \in 0 .. n |-> IF i = 0 THEN base ELSE After(f[i - 1], i)]
<1>1. n \in Nat
  OBVIOUS
<1>2. g \in [0 .. n -> Seq(S)] /\ g[0] = base /\ \A i \in 1 .. n : g[i] = After(g[i - 1], i)
  BY DEF Overlays
<1> HIDE DEF n, After
<1>3. Is(g)
  BY <1>1, <1>2
<1> DEFINE upTo == CHOOSE g_ : Is(g_)
<1>4. Is(upTo)
  BY <1>3, Zenon
<1>5. Overlay(base, over) = upTo[n]
  BY DEF Overlay, n, After
<1> HIDE DEF upTo
<1>6. upTo[0] = g[0]
  BY <1>1, <1>3, <1>4
<1>7. ASSUME NEW i \in 1 .. n, upTo[i - 1] = g[i - 1] PROVE upTo[i] = g[i]
  <2>1. i \in 0 .. n /\ i # 0
    BY <1>1
  <2> QED
    BY <1>3, <1>4, <1>7, <2>1
<1>8. \A i \in 0 .. n : upTo[i] = g[i]
  BY <1>1, <1>6, <1>7, LoopUnique, ZenonT(60)
<1>9. upTo[n] = g[n]
  BY <1>1, <1>8
<1> QED
  BY <1>5, <1>9 DEF n

\* Nothing to lay over, and one header more.
LEMMA OverlaySteps ==
  ASSUME NEW S, NEW base \in Seq(S), NEW over \in Seq(S), NEW x \in S
  PROVE  /\ Overlay(base, <<>>) = base
         /\ Overlay(base, Append(over, x)) = Replace(Overlay(base, over), x)
<1>1. Overlay(base, <<>>) = base
  <2> DEFINE e == <<>>
  <2>0. e \in Seq(S) /\ Len(e) = 0
    OBVIOUS
  <2> HIDE DEF e
  <2>1. PICK g : Overlays(S, base, e, g)
    BY <2>0, OverlayExists
  <2>2. Overlay(base, e) = g[Len(e)]
    BY <2>0, <2>1, OverlayIs, Zenon
  <2>3. g[0] = base
    BY <2>1 DEF Overlays
  <2> QED
    BY <2>0, <2>2, <2>3 DEF e
<1>2. Overlay(base, Append(over, x)) = Replace(Overlay(base, over), x)
  <2> DEFINE n == Len(over)
             more == Append(over, x)
  <2>1. PICK g : Overlays(S, base, over, g)
    BY OverlayExists
  <2>2. g \in [0 .. n -> Seq(S)] /\ g[0] = base /\ \A i \in 1 .. n : g[i] = Replace(g[i - 1], over[i])
    BY <2>1 DEF Overlays
  <2>3. Overlay(base, over) = g[n]
    BY <2>1, OverlayIs
  <2>4. /\ more \in Seq(S) /\ Len(more) = n + 1 /\ n \in Nat /\ more[n + 1] = x
        /\ \A i \in 1 .. n : more[i] = over[i]
    BY AppendFacts
  <2> HIDE DEF n, more
  <2> DEFINE last == Replace(g[n], x)
             h == [i \in 0 .. n + 1 |-> IF i = n + 1 THEN last ELSE g[i]]
  <2>5. last \in Seq(S)
    <3>1. g[n] \in Seq(S)
      BY <2>2, <2>4
    <3> QED
      BY <3>1, ReplaceFacts
  <2> HIDE DEF last
  <2>6. h \in [0 .. n + 1 -> Seq(S)] /\ h[0] = base /\ h[n + 1] = last
    BY <2>2, <2>4, <2>5
  <2>7. ASSUME NEW i \in 1 .. n + 1 PROVE h[i] = Replace(h[i - 1], more[i])
    <3>1. i \in 0 .. n + 1 /\ i - 1 \in 0 .. n + 1 /\ i - 1 # n + 1
      BY <2>4
    <3>2. h[i - 1] = g[i - 1]
      BY <3>1
    <3>3. CASE i = n + 1
      <4>1. i - 1 = n /\ h[i] = last
        BY <2>4, <2>6, <3>3
      <4> QED
        BY <2>4, <3>2, <3>3, <4>1 DEF last
    <3>4. CASE i # n + 1
      <4>1. i \in 1 .. n
        BY <2>4, <3>4
      <4>2. h[i] = g[i]
        BY <3>1, <3>4
      <4> QED
        BY <2>2, <2>4, <3>2, <4>1, <4>2
    <3> QED
      BY <3>3, <3>4
  <2> HIDE DEF h
  <2>8. Overlays(S, base, more, h)
    BY <2>4, <2>6, <2>7 DEF Overlays
  <2>9. Overlay(base, more) = h[n + 1]
    <3>1. Overlay(base, more) = h[Len(more)]
      BY <2>4, <2>8, OverlayIs, Zenon
    <3> QED
      BY <2>4, <3>1
  <2> QED
    BY <2>3, <2>6, <2>9 DEF last, more
<1> QED
  BY <1>1, <1>2

LEMMA OverlayFacts ==
  ASSUME NEW S, NEW base \in Seq(S), NEW over \in Seq(S)
  PROVE  /\ Overlay(base, over) \in Seq(S)
         /\ Range(Overlay(base, over)) \subseteq Range(base) \union Range(over)
<1> DEFINE n == Len(over)
           All == Range(base) \union Range(over)
<1>1. PICK g : Overlays(S, base, over, g)
  BY OverlayExists
<1>2. g \in [0 .. n -> Seq(S)] /\ g[0] = base /\ \A i \in 1 .. n : g[i] = Replace(g[i - 1], over[i])
  BY <1>1 DEF Overlays
<1>3. Overlay(base, over) = g[n]
  BY <1>1, OverlayIs
<1>4. n \in Nat /\ \A i \in 1 .. n : over[i] \in S /\ over[i] \in Range(over)
  BY DEF Range
<1> HIDE DEF n
<1> DEFINE T == {i \in 0 .. n : Range(g[i]) \subseteq All}
<1>5. 0 \in T
  BY <1>2, <1>4
<1>6. ASSUME NEW i \in 1 .. n, i - 1 \in T PROVE i \in T
  <2>1. i \in 0 .. n /\ g[i - 1] \in Seq(S) /\ over[i] \in S
    BY <1>2, <1>4
  <2>2. Range(Replace(g[i - 1], over[i])) \subseteq Range(g[i - 1]) \union {over[i]}
    <3> DEFINE t == g[i - 1]
               y == over[i]
    <3>1. t \in Seq(S) /\ y \in S
      BY <2>1
    <3> HIDE DEF T, All, t, y
    <3>2. Range(Replace(t, y)) \subseteq Range(t) \union {y}
      BY <3>1, ReplaceFacts
    <3> QED
      BY <3>2 DEF t, y
  <2>3. Range(g[i - 1]) \subseteq All /\ over[i] \in All
    BY <1>4, <1>6
  <2>4. g[i] = Replace(g[i - 1], over[i])
    BY <1>2
  <2> HIDE DEF All
  <2> QED
    BY <2>1, <2>2, <2>3, <2>4
<1>7. \A i \in 0 .. n : i \in T
  <2> HIDE DEF T
  <2> QED
    BY <1>4, <1>5, <1>6, Climb
<1> QED
  BY <1>2, <1>3, <1>4, <1>7

-----------------------------------------------------------------------------
(* Tables. *)

\* A table has some of the names, and for Host never a number of its own making.
Tables ==
    {t \in UNION {[D -> Worth] : D \in {E \in SUBSET Names : IsFiniteSet(E)}} :
       "Host" \in DOMAIN t => t["Host"] \in Values}

\* The headers of a table.
Graph(t) == {<<n, t[n]>> : n \in DOMAIN t}

LEMMA TableFacts ==
  ASSUME NEW t \in Tables
  PROVE  /\ DOMAIN t \subseteq Names /\ IsFiniteSet(DOMAIN t)
         /\ t \in [DOMAIN t -> Worth] /\ Graph(t) \subseteq Header
         /\ "Host" \in DOMAIN t => t["Host"] \in Values
<1>1. PICK D \in SUBSET Names : IsFiniteSet(D) /\ t \in [D -> Worth]
  BY DEF Tables
<1>2. DOMAIN t = D
  BY <1>1
<1>3. Graph(t) \subseteq Header
  BY <1>1, <1>2 DEF Graph, Header
<1> QED
  BY <1>1, <1>2, <1>3 DEF Tables

LEMMA IsTable ==
  ASSUME NEW D \in SUBSET Names, IsFiniteSet(D), NEW t \in [D -> Worth],
         "Host" \in D => t["Host"] \in Values
  PROVE  t \in Tables
  BY DEF Tables

LEMMA PutFacts ==
  ASSUME NEW t \in Tables, NEW name \in Names, NEW value \in Worth,
         name = "Host" => value \in Values
  PROVE  /\ Put(t, name, value) \in Tables
         /\ DOMAIN Put(t, name, value) = DOMAIN t \union {name}
         /\ Graph(Put(t, name, value)) = Over(Graph(t), name, value)
         /\ Put(t, name, value)[name] = value
         /\ \A n \in DOMAIN t : n # name => Put(t, name, value)[n] = t[n]
<1> DEFINE D == DOMAIN t \union {name}
           p == Put(t, name, value)
<1>1. /\ DOMAIN t \subseteq Names /\ IsFiniteSet(DOMAIN t) /\ t \in [DOMAIN t -> Worth]
      /\ "Host" \in DOMAIN t => t["Host"] \in Values
  BY TableFacts
<1>2. D \in SUBSET Names /\ IsFiniteSet(D)
  BY <1>1, FS_AddElement
<1>3. p = [n \in D |-> IF n = name THEN value ELSE t[n]]
  BY DEF Put
<1> HIDE DEF p
<1>4. p \in [D -> Worth] /\ p[name] = value /\ \A n \in DOMAIN t : n # name => p[n] = t[n]
  BY <1>1, <1>3
<1>5. "Host" \in D => p["Host"] \in Values
  BY <1>1, <1>4
<1>6. p \in Tables
  <2> HIDE DEF D
  <2> QED
    BY <1>2, <1>4, <1>5, IsTable
<1>7. DOMAIN p = D
  BY <1>3
<1>8. Graph(p) = Over(Graph(t), name, value)
  <2>1. Graph(p) = {<<n, p[n]>> : n \in DOMAIN t \union {name}}
    BY <1>7 DEF Graph
  <2>2. ASSUME NEW n \in DOMAIN t \union {name} PROVE <<n, p[n]>> \in Over(Graph(t), name, value)
    <3>1. CASE n = name
      BY <1>4, <3>1 DEF Over
    <3>2. CASE n # name
      <4>1. n \in DOMAIN t /\ <<n, p[n]>> = <<n, t[n]>> /\ <<n, t[n]>>[1] = n
        BY <1>4, <3>2
      <4> QED
        BY <3>2, <4>1 DEF Over, Cut, Graph
    <3> QED
      BY <3>1, <3>2
  <2>3. ASSUME NEW h \in Over(Graph(t), name, value) PROVE h \in Graph(p)
    <3>1. CASE h = <<name, value>>
      BY <1>4, <2>1, <3>1
    <3>2. CASE h \in Cut(Graph(t), name)
      <4>1. PICK n \in DOMAIN t : h = <<n, t[n]>> /\ n # name
        BY <3>2 DEF Cut, Graph
      <4> QED
        BY <1>4, <2>1, <4>1
    <3> QED
      BY <2>3, <3>1, <3>2 DEF Over
  <2> QED
    BY <2>1, <2>2, <2>3
<1> QED
  BY <1>4, <1>6, <1>7, <1>8 DEF p

LEMMA WithoutFacts ==
  ASSUME NEW t \in Tables, NEW name
  PROVE  /\ Without(t, name) \in Tables
         /\ DOMAIN Without(t, name) = DOMAIN t \ {name}
         /\ Graph(Without(t, name)) = Cut(Graph(t), name)
         /\ \A n \in DOMAIN t : n # name => Without(t, name)[n] = t[n]
<1> DEFINE D == DOMAIN t \ {name}
           p == Without(t, name)
<1>1. /\ DOMAIN t \subseteq Names /\ IsFiniteSet(DOMAIN t) /\ t \in [DOMAIN t -> Worth]
      /\ "Host" \in DOMAIN t => t["Host"] \in Values
  BY TableFacts
<1>2. D \in SUBSET Names /\ IsFiniteSet(D)
  BY <1>1, FS_RemoveElement
<1>3. p = [n \in D |-> t[n]]
  BY DEF Without
<1> HIDE DEF p
<1>4. p \in [D -> Worth] /\ \A n \in DOMAIN t : n # name => p[n] = t[n]
  BY <1>1, <1>3
<1>5. "Host" \in D => p["Host"] \in Values
  BY <1>1, <1>4
<1>6. DOMAIN p = D
  BY <1>3
<1>7. p \in Tables
  <2> HIDE DEF D
  <2> QED
    BY <1>2, <1>4, <1>5, IsTable
<1>8. Graph(p) = Cut(Graph(t), name)
  <2>1. Graph(p) = {<<n, p[n]>> : n \in DOMAIN t \ {name}}
    BY <1>6 DEF Graph
  <2>2. ASSUME NEW n \in DOMAIN t \ {name} PROVE <<n, p[n]>> \in Cut(Graph(t), name)
    BY <1>4 DEF Cut, Graph
  <2>3. ASSUME NEW h \in Cut(Graph(t), name) PROVE h \in Graph(p)
    <3>1. PICK n \in DOMAIN t : h = <<n, t[n]>> /\ n # name
      BY DEF Cut, Graph
    <3> QED
      BY <1>4, <2>1, <3>1
  <2> QED
    BY <2>1, <2>2, <2>3
<1> QED
  BY <1>4, <1>6, <1>7, <1>8 DEF p

LEMMA NothingIsTable == NoTable \in Tables /\ Graph(NoTable) = {}
<1>1. DOMAIN NoTable = {} /\ NoTable \in [{} -> Worth]
  BY DEF NoTable
<1>2. IsFiniteSet({}) /\ {} \in SUBSET Names
  BY FS_EmptySet
<1> QED
  BY <1>1, <1>2, IsTable DEF Graph

\* The entries of a table, each of them once.
LEMMA PairsFacts ==
  ASSUME NEW t \in Tables
  PROVE  Pairs(t) \in Seq(Header) /\ Range(Pairs(t)) = Graph(t) /\ NamedOnce(Pairs(t))
<1> DEFINE G == Graph(t)
           D == DOMAIN t
<1>1. IsFiniteSet(D) /\ G \subseteq Header
  BY TableFacts
<1>2. IsFiniteSet(G)
  <2> DEFINE f == [n \in D |-> <<n, t[n]>>]
  <2>1. f \in Surjection(D, G)
    BY DEF Surjection, Graph
  <2> HIDE DEF f, D, G
  <2> QED
    BY <1>1, <2>1, FS_Surjection
<1>3. Pairs(t) = SetToSeq(G)
  BY DEF Pairs, Graph
<1> DEFINE k == Cardinality(G)
<1>4. k \in Nat /\ ExistsBijection(1 .. k, G)
  <2> HIDE DEF G
  <2> QED
    BY <1>2, FS_CardinalityType
<1>5. PICK f \in [1 .. k -> G] : IsInjective(f)
  BY <1>4 DEF ExistsBijection, Bijection, Injection
<1> DEFINE s == SetToSeq(G)
<1>6. s \in [1 .. k -> G] /\ IsInjective(s)
  <2>1. s = CHOOSE g \in [1 .. k -> G] : IsInjective(g)
    BY DEF SetToSeq
  <2> HIDE DEF s, k, G
  <2> QED
    BY <1>5, <2>1, Zenon
<1>7. s \in Surjection(1 .. k, G)
  <2> HIDE DEF s, k, G
  <2>1. s \in Injection(1 .. k, G)
    BY <1>6 DEF Injection
  <2>2. IsFiniteSet(1 .. k) /\ Cardinality(1 .. k) = k
    BY <1>4, FS_Interval
  <2> QED
    BY <1>2, <2>1, <2>2, FS_Injection DEF k
<1>8. s \in Seq(Header)
  <2> HIDE DEF s, k, G
  <2>1. s \in [1 .. k -> Header]
    BY <1>1, <1>6
  <2> QED
    BY <1>4, <2>1
<1>9. Range(s) = G
  <2> HIDE DEF s, k, G
  <2> QED
    BY <1>6, <1>7 DEF Range, Surjection
<1>10. NamedOnce(s)
  <2>1. \A g \in G : g = <<g[1], t[g[1]]>>
    BY DEF Graph
  <2> HIDE DEF s, k, G
  <2> SUFFICES ASSUME NEW i \in DOMAIN s, NEW j \in DOMAIN s, s[i][1] = s[j][1] PROVE i = j
    BY DEF NamedOnce
  <2>2. s[i] \in G /\ s[j] \in G
    BY <1>6
  <2>3. s[i] = s[j]
    BY <2>1, <2>2
  <2> QED
    BY <1>6, <2>3 DEF IsInjective
<1> QED
  BY <1>3, <1>8, <1>9, <1>10

\* The options in a table: all of them, when none repeats a name.
LEMMA InstalledFacts ==
  ASSUME NEW s \in Seq(Names \X Values)
  PROVE  /\ Installed(s) \in Tables
         /\ NamedOnce(s) => Graph(Installed(s)) = Range(s)
<1> DEFINE n == Len(s)
           After(t, i) == Put(t, s[i][1], s[i][2])
           step == [p \in Tables \X (1 .. n) |-> After(p[1], p[2])]
           Is(f) == f = [i \in 0 .. n |-> IF i = 0 THEN NoTable ELSE After(f[i - 1], i)]
<1>1. /\ n \in Nat /\ DOMAIN s = 1 .. n
      /\ \A i \in 1 .. n : /\ s[i] = <<s[i][1], s[i][2]>>
                           /\ s[i][1] \in Names /\ s[i][2] \in Values /\ s[i][2] \in Worth
  <2>1. n \in Nat /\ DOMAIN s = 1 .. n /\ \A i \in 1 .. n : s[i] \in Names \X Values
    OBVIOUS
  <2> HIDE DEF n
  <2> QED
    BY <2>1 DEF Worth
<1> HIDE DEF n
<1>2. ASSUME NEW t \in Tables, NEW i \in 1 .. n PROVE After(t, i) \in Tables
  BY <1>1, PutFacts
<1> HIDE DEF After
<1>3. step \in [Tables \X (1 .. n) -> Tables]
  BY <1>2
<1>4. \A t \in Tables, i \in 1 .. n : step[<<t, i>>] = After(t, i)
  OBVIOUS
<1> HIDE DEF step
<1>5. PICK g : Loops(n, Tables, NoTable, step, g)
  BY <1>1, <1>3, LoopExists, NothingIsTable, Zenon
<1>6. /\ g \in [0 .. n -> Tables] /\ g[0] = NoTable
      /\ \A i \in 1 .. n : g[i - 1] \in Tables
  BY <1>1, <1>5 DEF Loops
<1>7. \A i \in 1 .. n : g[i] = After(g[i - 1], i)
  BY <1>4, <1>5, <1>6, Zenon DEF Loops
<1>8. Is(g)
  BY <1>1, <1>6, <1>7
<1> DEFINE upTo == CHOOSE g_ : Is(g_)
<1>9. Is(upTo)
  BY <1>8, Zenon
<1>10. Installed(s) = upTo[n]
  BY DEF Installed, n, After
<1> HIDE DEF upTo
<1>11. upTo[n] = g[n]
  <2>1. upTo[0] = g[0]
    BY <1>1, <1>8, <1>9
  <2>2. ASSUME NEW i \in 1 .. n, upTo[i - 1] = g[i - 1] PROVE upTo[i] = g[i]
    <3>1. i \in 0 .. n /\ i # 0
      BY <1>1
    <3> QED
      BY <1>8, <1>9, <2>2, <3>1
  <2>0. n \in Nat
    BY <1>1
  <2> HIDE DEF Is
  <2>3. \A i \in 0 .. n : upTo[i] = g[i]
    BY <2>0, <2>1, <2>2, LoopUnique, ZenonT(60)
  <2> QED
    BY <1>1, <2>3
<1>12. ASSUME NamedOnce(s) PROVE Graph(g[n]) = Range(s)
  <2> DEFINE Upto(i) == {s[j] : j \in {k \in 1 .. n : k <= i}}
             T == {i \in 0 .. n : Graph(g[i]) = Upto(i)}
  <2>1. 0 \in T
    <3>1. \A k \in 1 .. n : ~(k <= 0)
      BY <1>1
    <3>2. Upto(0) = {}
      BY <3>1
    <3>3. Graph(g[0]) = {}
      BY <1>6, NothingIsTable
    <3>4. 0 \in 0 .. n
      BY <1>1
    <3> HIDE DEF Upto
    <3> QED
      BY <3>2, <3>3, <3>4
  <2>2. ASSUME NEW i \in 1 .. n, i - 1 \in T PROVE i \in T
    <3>1. i \in 0 .. n /\ g[i - 1] \in Tables
      BY <1>1, <1>6
    <3>2. Graph(g[i - 1]) = Upto(i - 1)
      BY <2>2
    <3>3. Graph(g[i]) = Over(Graph(g[i - 1]), s[i][1], s[i][2])
      <4>1. g[i] = Put(g[i - 1], s[i][1], s[i][2])
        BY <1>7 DEF After
      <4>2. s[i][1] \in Names /\ s[i][2] \in Values /\ s[i][2] \in Worth
        BY <1>1
      <4> DEFINE t == g[i - 1]
                 a == s[i][1]
                 v == s[i][2]
      <4>3. t \in Tables /\ a \in Names /\ v \in Worth /\ (a = "Host" => v \in Values)
        BY <3>1, <4>2
      <4> HIDE DEF T, Upto, t, a, v
      <4>4. Graph(Put(t, a, v)) = Over(Graph(t), a, v)
        BY <4>3, PutFacts
      <4> QED
        BY <4>1, <4>4 DEF t, a, v
    <3>4. ASSUME NEW k \in 1 .. n PROVE (k <= i <=> k <= i - 1 \/ k = i) /\ (k <= i - 1 => k # i)
      BY <1>1
    <3>5. \A k \in 1 .. n : k <= i - 1 => s[k][1] # s[i][1]
      BY <1>1, <1>12, <3>4 DEF NamedOnce
    <3>6. Cut(Upto(i - 1), s[i][1]) = Upto(i - 1)
      BY <3>5 DEF Cut
    <3>7. Upto(i) = Upto(i - 1) \union {s[i]}
      BY <3>4, Zenon
    <3>8. s[i] = <<s[i][1], s[i][2]>>
      BY <1>1
    <3> HIDE DEF Upto
    <3> QED
      BY <3>1, <3>2, <3>3, <3>6, <3>7, <3>8 DEF Over
  <2>3. \A i \in 0 .. n : i \in T
    <3> HIDE DEF T
    <3> QED
      BY <1>1, <2>1, <2>2, Climb
  <2>4. Graph(g[n]) = Upto(n)
    BY <1>1, <2>3
  <2>5. \A k \in 1 .. n : k <= n
    BY <1>1
  <2>6. Upto(n) = Range(s)
    BY <1>1, <2>5 DEF Range
  <2> QED
    BY <2>4, <2>6
<1> QED
  BY <1>1, <1>6, <1>10, <1>11, <1>12

-----------------------------------------------------------------------------
(* Messages. *)

Contents == Bodies \union {Absent}

\* The bytes of the body, and the headers of a message with that body.
Sent(content) == IF content = Absent THEN <<>> ELSE content
Frame(G, content) ==
    IF content = Absent THEN Cut(G, "Content-Length")
    ELSE Over(G, "Content-Length", Number(Len(content)))

\* The first length says how long the body is, and there is one if there is a body.
Lengthy(headers, content) ==
    /\ \A i \in DOMAIN headers :
         headers[i][1] = "Content-Length"
           => \/ headers[i][2] = Number(Len(Sent(content)))
              \/ \E j \in 1 .. i - 1 : headers[j][1] = "Content-Length"
    /\ content # Absent => Has(headers, "Content-Length")

LEMMA ContentFacts ==
  ASSUME NEW content \in Contents
  PROVE  /\ Sent(content) \in Seq({LikeRequest, Junk}) /\ Len(Sent(content)) \in Nat
         /\ content # Absent => /\ Sent(content) = content
                             /\ Number(Len(content)) \in Worth
                             /\ <<"Content-Length", Number(Len(content))>> \in Header
         /\ content = Absent => Len(Sent(content)) = 0
<1>1. Sent(content) \in Seq({LikeRequest, Junk})
  <2>1. Bodies \subseteq Seq({LikeRequest, Junk})
    BY RequestOK, Zenon
  <2>2. <<>> \in Seq({LikeRequest, Junk})
    OBVIOUS
  <2> QED
    BY <2>1, <2>2 DEF Contents, Sent
<1>2. Len(Sent(content)) \in Nat
  BY <1>1
<1>3. "Content-Length" \in Names
  BY RequestOK
<1>4. content = Absent => Len(Sent(content)) = 0
  BY DEF Sent
<1> QED
  BY <1>1, <1>2, <1>3, <1>4 DEF Worth, Header, Sent

LEMMA DropFacts ==
  ASSUME NEW S, NEW headers \in Seq(S), NEW name
  PROVE  /\ Drop(headers, name) \in Seq(S)
         /\ Range(Drop(headers, name)) = Cut(Range(headers), name)
         /\ ~Has(Drop(headers, name), name)
<1> DEFINE places == {i \in DOMAIN headers : headers[i][1] # name}
           d == Kept(headers, places)
<1>1. DOMAIN headers = 1 .. Len(headers)
  OBVIOUS
<1>2. places \in SUBSET (1 .. Len(headers))
  BY <1>1
<1> HIDE DEF d
<1>3. d \in Seq(S) /\ Range(d) = {headers[i] : i \in places}
  <2> HIDE DEF places
  <2> QED
    BY <1>2, KeptFacts DEF d
<1>4. Range(d) = Cut(Range(headers), name)
  BY <1>3 DEF Cut, Range
<1>5. ~Has(d, name)
  <2>1. ASSUME NEW i \in DOMAIN d PROVE d[i][1] # name
    <3>1. d[i] \in Range(d)
      BY DEF Range
    <3> QED
      BY <1>4, <3>1 DEF Cut
  <2> QED
    BY <2>1 DEF Has
<1> QED
  BY <1>3, <1>4, <1>5 DEF Drop, d

LEMMA ApplyFacts ==
  ASSUME NEW headers \in Seq(Header), NEW content \in Contents
  PROVE  /\ ApplyContentLength(headers, content) \in Seq(Header)
         /\ Lengthy(ApplyContentLength(headers, content), content)
         /\ Range(ApplyContentLength(headers, content))
              \subseteq Range(headers) \union {<<"Content-Length", Number(Len(Sent(content)))>>}
         /\ NamedOnce(headers)
              => Range(ApplyContentLength(headers, content)) = Frame(Range(headers), content)
<1> DEFINE a == ApplyContentLength(headers, content)
           x == <<"Content-Length", Number(Len(content))>>
<1>1. CASE content = Absent
  <2>1. a = Drop(headers, "Content-Length")
    BY <1>1 DEF ApplyContentLength
  <2> HIDE DEF a
  <2>2. a \in Seq(Header) /\ Range(a) = Cut(Range(headers), "Content-Length") /\ ~Has(a, "Content-Length")
    BY <2>1, DropFacts
  <2>3. Lengthy(a, content)
    BY <1>1, <2>2 DEF Lengthy, Has
  <2>4. Range(a) \subseteq Range(headers)
    BY <2>2 DEF Cut
  <2>5. Range(a) = Frame(Range(headers), content)
    BY <1>1, <2>2 DEF Frame
  <2> QED
    BY <2>2, <2>3, <2>4, <2>5 DEF a
<1>2. CASE content # Absent
  <2>1. a = Replace(headers, x)
    BY <1>2 DEF ApplyContentLength
  <2>2. x \in Header /\ x[1] = "Content-Length" /\ Sent(content) = content
        /\ x[2] = Number(Len(Sent(content)))
    BY <1>2, ContentFacts
  <2>3. NamedOnce(headers) => Range(a) = Over(Range(headers), "Content-Length", Number(Len(content)))
    BY <2>1, <2>2, ReplaceOnce
  <2> HIDE DEF x
  <2>4. /\ a \in Seq(Header)
        /\ Range(a) \subseteq Range(headers) \union {x}
        /\ Has(a, "Content-Length")
    BY <2>1, <2>2, ReplaceFacts
  <2>5. Lengthy(a, content)
    <3>1. PICK p \in 1 .. Len(Replace(headers, x)) :
              /\ Replace(headers, x)[p] = x
              /\ \A j \in 1 .. p - 1 : j \in 1 .. Len(headers) /\ headers[j][1] # x[1]
              /\ \A j \in 1 .. Len(Replace(headers, x)) :
                   j # p => j \in 1 .. Len(headers) /\ Replace(headers, x)[j] = headers[j]
              /\ Len(headers) <= Len(Replace(headers, x))
              /\ p \in 1 .. Len(headers) => headers[p][1] = x[1]
              /\ p \notin 1 .. Len(headers) => ~Has(headers, x[1])
      BY <2>2, ReplacePlace
    <3> HIDE DEF a
    <3> DEFINE m == Len(a)
               n == Len(headers)
    <3>2. DOMAIN a = 1 .. m /\ m \in Nat /\ n \in Nat /\ DOMAIN headers = 1 .. n
      BY <2>4
    <3>3. /\ p \in 1 .. m /\ a[p] = x
          /\ \A j \in 1 .. p - 1 : headers[j][1] # x[1]
          /\ \A j \in 1 .. m : j # p => j \in 1 .. n /\ a[j] = headers[j]
          /\ p \notin 1 .. n => ~Has(headers, x[1])
      BY <2>1, <3>1
    <3> HIDE DEF m, n
    <3>4. ASSUME NEW i \in 1 .. m, a[i][1] = "Content-Length"
          PROVE  \/ a[i][2] = Number(Len(Sent(content)))
                 \/ \E j \in 1 .. i - 1 : a[j][1] = "Content-Length"
      <4>1. CASE i = p
        BY <2>2, <3>3, <4>1
      <4>2. CASE i # p
        <5>1. i \in 1 .. n /\ a[i] = headers[i] /\ headers[i][1] = x[1]
          BY <2>2, <3>3, <3>4, <4>2
        <5>2. i \notin 1 .. p - 1
          BY <3>3, <5>1
        <5>3. p \in 1 .. i - 1
          BY <3>2, <3>3, <4>2, <5>2
        <5> QED
          BY <2>2, <3>3, <5>3
      <4> QED
        BY <4>1, <4>2
    <3> QED
      BY <2>4, <3>2, <3>4 DEF Lengthy
  <2>6. x = <<"Content-Length", Number(Len(Sent(content)))>>
    BY <2>2 DEF x
  <2>7. NamedOnce(headers) => Range(a) = Frame(Range(headers), content)
    BY <1>2, <2>3 DEF Frame
  <2> HIDE DEF a
  <2> QED
    BY <2>4, <2>5, <2>6, <2>7 DEF a
<1> QED
  BY <1>1, <1>2

-----------------------------------------------------------------------------
(* Counting. *)

\* A message whose headers say how long its body is.
Message ==
    {m \in [line : {"sound", "odd", "broken"}, headers : Seq(Header), body : Seq({LikeRequest, Junk})] :
       \E content \in Contents : m.body = Sent(content) /\ Lengthy(m.headers, content)}

\* The first length of a block is that of the formatters, if no other spelling is there.
LEMMA LengthRead ==
  ASSUME NEW m \in Message, Framed(<<m>>)
  PROVE  BodyLength(m) = Len(m.body)
<1> DEFINE h == m.headers
           lengths == {i \in DOMAIN h : Lower[h[i][1]] = "content-length"}
           first == CHOOSE i \in lengths : \A j \in lengths : i <= j
           len == Len(m.body)
<1>1. PICK content \in Contents : m.body = Sent(content) /\ Lengthy(h, content)
  BY DEF Message
<1>2. h \in Seq(Header) /\ len \in Nat
  BY DEF Message
<1>3. BodyLength(m) = IF lengths # {} /\ h[first][2][1] = "number" THEN h[first][2][2] ELSE 0
  BY DEF BodyLength
<1>4. ASSUME NEW i \in DOMAIN h PROVE i \in lengths <=> h[i][1] = "Content-Length"
  <2>1. ~Disguised(h[i])
    BY DEF Framed
  <2>2. Lower["Content-Length"] = "content-length"
    BY RequestOK
  <2> QED
    BY <2>1, <2>2 DEF Disguised
<1>5. /\ \A i \in DOMAIN h : h[i][1] = "Content-Length"
           => h[i][2] = Number(len) \/ \E j \in 1 .. i - 1 : h[j][1] = "Content-Length"
      /\ content # Absent => \E i \in DOMAIN h : h[i][1] = "Content-Length"
  BY <1>1 DEF Lengthy, Has
<1> DEFINE n == Len(h)
<1>6. n \in Nat /\ DOMAIN h = 1 .. n
  BY <1>2
<1>7. CASE lengths = {}
  <2>1. content = Absent
    BY <1>4, <1>5, <1>7
  <2>2. len = 0
    BY <1>1, <2>1, ContentFacts
  <2> HIDE DEF lengths, first, len
  <2> QED
    BY <1>3, <1>7, <2>2 DEF len
<1>8. CASE lengths # {}
  <2>1. \E i \in lengths : \A j \in lengths : i <= j
    <3>1. lengths \in SUBSET Nat
      BY <1>6
    <3> HIDE DEF lengths
    <3> QED
      BY <1>8, <3>1, Least
  <2> DEFINE IsFirst(i) == \A j \in lengths : i <= j
  <2>2. first \in lengths /\ IsFirst(first)
    <3>1. first = CHOOSE i \in lengths : IsFirst(i)
      OBVIOUS
    <3> HIDE DEF first, lengths
    <3>2. \E i \in lengths : IsFirst(i)
      BY <2>1
    <3> HIDE DEF IsFirst
    <3> QED
      BY <3>1, <3>2, Zenon
  <2>3. lengths \subseteq 1 .. n
    BY <1>6
  <2> HIDE DEF first, n
  <2>4. first \in 1 .. n /\ h[first][1] = "Content-Length"
    BY <1>4, <1>6, <2>2, <2>3
  <2>5. ASSUME NEW j \in 1 .. first - 1 PROVE h[j][1] # "Content-Length"
    <3>1. j \in 1 .. n /\ ~(first <= j)
      BY <1>6, <2>4
    <3>2. j \notin lengths
      BY <2>2, <3>1
    <3> QED
      BY <1>4, <1>6, <3>1, <3>2
  <2>6. h[first][2] = Number(len)
    BY <1>5, <1>6, <2>4, <2>5
  <2> HIDE DEF lengths, h, len
  <2>7. h[first][2][1] = "number" /\ h[first][2][2] = len
    BY <2>6 DEF Number
  <2> QED
    BY <1>3, <1>8, <2>7 DEF len
<1> QED
  BY <1>7, <1>8

\* The bytes of messages, one behind the other.
Block(m) == [line |-> m.line, headers |-> m.headers]

Streams(S, messages, g) ==
    /\ g \in [0 .. Len(messages) -> Seq(S)] /\ g[0] = <<>>
    /\ \A i \in 1 .. Len(messages) :
         g[i] = g[i - 1] \o <<Block(messages[i])>> \o messages[i].body

LEMMA StreamIs ==
  ASSUME NEW S, NEW M, NEW messages \in Seq(M),
         \A i \in 1 .. Len(messages) : Block(messages[i]) \in S /\ messages[i].body \in Seq(S)
  PROVE  \E g : Streams(S, messages, g) /\ Stream(messages) = g[Len(messages)]
<1> DEFINE n == Len(messages)
           After(t, i) == t \o <<Block(messages[i])>> \o messages[i].body
           step == [p \in Seq(S) \X (1 .. n) |-> After(p[1], p[2])]
           Is(f) == f = [i \in 0 .. n |-> IF i = 0 THEN <<>> ELSE After(f[i - 1], i)]
<1>1. n \in Nat
  OBVIOUS
<1>2. ASSUME NEW t \in Seq(S), NEW i \in 1 .. n PROVE After(t, i) \in Seq(S)
  <2> DEFINE b == messages[i].body
             e == Block(messages[i])
  <2>1. e \in S /\ b \in Seq(S)
    OBVIOUS
  <2> HIDE DEF e, b
  <2>2. t \o <<e>> \in Seq(S)
    BY <2>1
  <2> DEFINE u == t \o <<e>>
  <2> HIDE DEF u
  <2>3. u \o b \in Seq(S)
    BY <2>1, <2>2 DEF u
  <2> QED
    BY <2>3 DEF u, e, b
<1> HIDE DEF n, After
<1>3. step \in [Seq(S) \X (1 .. n) -> Seq(S)]
  BY <1>2
<1>4. \A t \in Seq(S), i \in 1 .. n : step[<<t, i>>] = After(t, i)
  OBVIOUS
<1> HIDE DEF step
<1>5. PICK g : Loops(n, Seq(S), <<>>, step, g)
  <2>1. <<>> \in Seq(S)
    OBVIOUS
  <2> QED
    BY <1>1, <1>3, <2>1, LoopExists, Zenon
<1>6. /\ g \in [0 .. n -> Seq(S)] /\ g[0] = <<>>
      /\ \A i \in 1 .. n : g[i - 1] \in Seq(S)
  BY <1>1, <1>5 DEF Loops
<1>7. \A i \in 1 .. n : g[i] = After(g[i - 1], i)
  BY <1>4, <1>5, <1>6, Zenon DEF Loops
<1>8. Is(g)
  BY <1>1, <1>6, <1>7
<1> DEFINE upTo == CHOOSE g_ : Is(g_)
<1>9. Is(upTo)
  BY <1>8, Zenon
<1>10. Stream(messages) = upTo[n]
  BY DEF Stream, n, After, Block
<1> HIDE DEF upTo
<1>11. upTo[n] = g[n]
  <2>1. upTo[0] = g[0]
    BY <1>1, <1>8, <1>9
  <2>2. ASSUME NEW i \in 1 .. n, upTo[i - 1] = g[i - 1] PROVE upTo[i] = g[i]
    <3>1. i \in 0 .. n /\ i # 0
      BY <1>1
    <3> QED
      BY <1>8, <1>9, <2>2, <3>1
  <2> HIDE DEF Is
  <2>3. \A i \in 0 .. n : upTo[i] = g[i]
    BY <1>1, <2>1, <2>2, LoopUnique, ZenonT(60)
  <2> QED
    BY <1>1, <2>3
<1>12. Streams(S, messages, g)
  BY <1>6, <1>7, Zenon DEF Streams, n, After
<1> QED
  BY <1>10, <1>11, <1>12, Zenon DEF n

\* What verify_request makes of the bytes behind an offset, from what it makes of those
\* behind a later one.
From(bytes, g, offset) ==
    IF offset = Len(bytes) THEN 0
    ELSE IF ~Parses(bytes[offset + 1]) THEN Malformed
    ELSE LET next == offset + 1 + BodyLength(bytes[offset + 1])
         IN  IF next > Len(bytes) THEN Incomplete
             ELSE IF g[next] < 0 THEN g[next] ELSE g[next] + 1

Counts(bytes, low, g) ==
    /\ g \in [low .. Len(bytes) -> Int]
    /\ \A offset \in low .. Len(bytes) : g[offset] = From(bytes, g, offset)

\* Only what is behind counts.
LEMMA FromBehind ==
  ASSUME NEW S, NEW bytes \in Seq(S), \A b \in S : BodyLength(b) \in Nat,
         NEW g, NEW h, NEW o \in 0 .. Len(bytes),
         \A k \in o + 1 .. Len(bytes) : g[k] = h[k] /\ g[k] \in Int
  PROVE  From(bytes, g, o) = From(bytes, h, o) /\ From(bytes, g, o) \in Int
<1> DEFINE n == Len(bytes)
           len == BodyLength(bytes[o + 1])
           next == o + 1 + len
<1>1. n \in Nat
  OBVIOUS
<1>2. CASE o = n
  BY <1>2 DEF From
<1>3. CASE o # n
  <2>1. bytes[o + 1] \in S
    BY <1>3
  <2>2. len \in Nat
    BY <2>1
  <2> HIDE DEF len, n
  <2>3. next \in Int /\ (~(next > n) => next \in o + 1 .. n)
    BY <1>1, <2>2
  <2>4. ~(next > n) => g[next] = h[next] /\ g[next] \in Int
    BY <2>3 DEF n
  <2>5. \A f : From(bytes, f, o) =
                 IF ~Parses(bytes[o + 1]) THEN Malformed
                 ELSE IF next > n THEN Incomplete
                 ELSE IF f[next] < 0 THEN f[next] ELSE f[next] + 1
    BY <1>3 DEF From, len, n
  <2> HIDE DEF next
  <2> QED
    BY <2>4, <2>5 DEF Malformed, Incomplete
<1> QED
  BY <1>2, <1>3

LEMMA CountExists ==
  ASSUME NEW S, NEW bytes \in Seq(S), \A b \in S : BodyLength(b) \in Nat
  PROVE  \E g : Counts(bytes, 0, g)
<1> DEFINE n == Len(bytes)
           T == {m \in 0 .. n : \E g : Counts(bytes, n - m, g)}
<1>1. n \in Nat
  OBVIOUS
<1>2. 0 \in T
  <2> DEFINE g == [o \in n .. n |-> 0]
  <2>1. From(bytes, g, n) = 0
    BY DEF From
  <2>2. g \in [n .. n -> Int] /\ \A o \in n .. n : o = n /\ g[o] = 0
    BY <1>1
  <2> HIDE DEF g
  <2>3. Counts(bytes, n, g)
    BY <2>1, <2>2 DEF Counts
  <2>4. n - 0 = n /\ 0 \in 0 .. n
    BY <1>1
  <2> HIDE DEF n
  <2> QED
    BY <2>3, <2>4
<1>3. ASSUME NEW m \in 1 .. n, m - 1 \in T PROVE m \in T
  <2> DEFINE o == n - m
  <2>1. PICK g : Counts(bytes, n - (m - 1), g)
    BY <1>3
  <2>2. o \in 0 .. n - 1 /\ n - (m - 1) = o + 1 /\ o \in 0 .. n
    BY <1>1
  <2>3. Counts(bytes, o + 1, g)
    BY <2>1, <2>2
  <2> HIDE DEF o
  <2>4. g \in [o + 1 .. n -> Int] /\ \A k \in o + 1 .. n : g[k] = From(bytes, g, k)
    BY <2>3 DEF Counts
  <2> DEFINE now == From(bytes, g, o)
             h == [k \in o .. n |-> IF k = o THEN now ELSE g[k]]
  <2>5. now \in Int
    BY <2>2, <2>4, FromBehind
  <2> HIDE DEF now
  <2>6. h \in [o .. n -> Int] /\ h[o] = now /\ \A k \in o + 1 .. n : h[k] = g[k]
    BY <1>1, <2>2, <2>4, <2>5
  <2> HIDE DEF h
  <2>7. ASSUME NEW k \in o .. n PROVE h[k] = From(bytes, h, k)
    <3>1. k \in 0 .. n /\ \A j \in k + 1 .. n : j \in o + 1 .. n
      BY <1>1, <2>2
    <3>2. \A j \in k + 1 .. n : g[j] = h[j] /\ g[j] \in Int
      BY <2>4, <2>6, <3>1
    <3>3. From(bytes, g, k) = From(bytes, h, k)
      BY <3>1, <3>2, FromBehind
    <3>4. CASE k = o
      BY <2>6, <3>3, <3>4 DEF now
    <3>5. CASE k # o
      <4>1. k \in o + 1 .. n
        BY <1>1, <2>2, <3>5
      <4> QED
        BY <2>4, <2>6, <3>3, <4>1
    <3> QED
      BY <3>4, <3>5
  <2>8. Counts(bytes, o, h)
    BY <2>6, <2>7 DEF Counts
  <2>9. \E f : Counts(bytes, n - m, f)
    BY <2>8 DEF o
  <2>10. m \in 0 .. n
    OBVIOUS
  <2> HIDE DEF n
  <2> QED
    BY <2>9, <2>10
<1>4. \A m \in 0 .. n : m \in T
  <2> HIDE DEF T, n
  <2> QED
    BY <1>1, <1>2, <1>3, Climb
<1>5. n \in T /\ n - n = 0
  BY <1>1, <1>4
<1> QED
  BY <1>5

LEMMA VerifyIs ==
  ASSUME NEW S, NEW bytes \in Seq(S), \A b \in S : BodyLength(b) \in Nat, Len(bytes) # 0
  PROVE  \E g : Counts(bytes, 0, g) /\ VerifyRequest(bytes) = g[0]
<1> DEFINE n == Len(bytes)
           After(g, o) == From(bytes, g, o)
           Is(g) == g = [offset \in 0 .. n |-> After(g, offset)]
<1>1. PICK g : Counts(bytes, 0, g)
  BY CountExists
<1>2. n \in Nat /\ n # 0
  OBVIOUS
<1>3. g \in [0 .. n -> Int] /\ \A o \in 0 .. n : g[o] = After(g, o)
  BY <1>1 DEF Counts
<1> HIDE DEF After, n
<1>4. Is(g)
  BY <1>3
<1> DEFINE from == CHOOSE g_ : Is(g_)
<1>5. Is(from)
  BY <1>4, Zenon
<1>6. VerifyRequest(bytes) = from[0]
  BY <1>2 DEF VerifyRequest, n, After, From
<1> HIDE DEF from
<1>7. from[0] = g[0]
  <2> DEFINE T == {m \in 0 .. n : \A k \in n - m .. n : from[k] = g[k]}
  <2>1. ASSUME NEW o \in 0 .. n, \A k \in o + 1 .. n : from[k] = g[k] PROVE from[o] = g[o]
    <3>1. \A k \in o + 1 .. n : g[k] = from[k] /\ g[k] \in Int
      BY <1>2, <1>3, <2>1
    <3>2. From(bytes, g, o) = From(bytes, from, o)
      BY <3>1, FromBehind DEF n
    <3>3. from[o] = After(from, o) /\ g[o] = After(g, o)
      BY <1>4, <1>5
    <3> QED
      BY <3>2, <3>3 DEF After
  <2>2. 0 \in T
    <3>1. n \in 0 .. n /\ \A k \in n + 1 .. n : from[k] = g[k]
      BY <1>2
    <3>2. from[n] = g[n]
      BY <2>1, <3>1
    <3>3. \A k \in n - 0 .. n : k = n
      BY <1>2
    <3> QED
      BY <1>2, <3>2, <3>3
  <2>3. ASSUME NEW m \in 1 .. n, m - 1 \in T PROVE m \in T
    <3> DEFINE o == n - m
    <3>1. o \in 0 .. n /\ n - (m - 1) = o + 1 /\ m \in 0 .. n
      BY <1>2
    <3>2. \A k \in o + 1 .. n : from[k] = g[k]
      BY <2>3, <3>1
    <3>3. from[o] = g[o]
      BY <2>1, <3>1, <3>2
    <3>4. \A k \in o .. n : k = o \/ k \in o + 1 .. n
      BY <1>2
    <3> HIDE DEF o
    <3>5. \A k \in o .. n : from[k] = g[k]
      BY <3>2, <3>3, <3>4
    <3> QED
      BY <3>1, <3>5 DEF o
  <2>4. \A m \in 0 .. n : m \in T
    <3> HIDE DEF T, Is
    <3> QED
      BY <1>2, <2>2, <2>3, Climb
  <2>5. n \in 0 .. n /\ 0 \in n - n .. n
    BY <1>2
  <2>6. n \in T
    <3> HIDE DEF T
    <3> QED
      BY <2>4, <2>5
  <2> QED
    BY <2>5, <2>6
<1> QED
  BY <1>1, <1>6, <1>7

LEMMA ConcatFacts ==
  ASSUME NEW S, NEW a \in Seq(S), NEW b \in Seq(S)
  PROVE  /\ a \o b \in Seq(S) /\ Len(a \o b) = Len(a) + Len(b)
         /\ \A k \in 1 .. Len(a) : (a \o b)[k] = a[k]
  OBVIOUS

LEMMA JoinFacts ==
  ASSUME NEW S, NEW a \in Seq(S), NEW e \in S, NEW b \in Seq(S)
  PROVE  /\ Len(b) \in Nat
         /\ Len(a \o <<e>> \o b) = Len(a) + 1 + Len(b)
         /\ (a \o <<e>> \o b)[Len(a) + 1] = e
         /\ \A k \in 1 .. Len(a) : (a \o <<e>> \o b)[k] = a[k]
<1> DEFINE c == a \o <<e>>
           d == c \o b
<1>1. /\ c \in Seq(S) /\ Len(c) = Len(a) + 1 /\ c[Len(a) + 1] = e
      /\ \A k \in 1 .. Len(a) : c[k] = a[k]
  OBVIOUS
<1> HIDE DEF c
<1>2. Len(d) = Len(c) + Len(b) /\ \A k \in 1 .. Len(c) : d[k] = c[k]
  BY <1>1, ConcatFacts
<1> HIDE DEF d
<1>3. Len(a) \in Nat /\ Len(b) \in Nat
  OBVIOUS
<1> DEFINE la == Len(a)
           lb == Len(b)
<1> HIDE DEF la, lb
<1>4. Len(d) = la + 1 + lb
  BY <1>1, <1>2, <1>3 DEF la, lb
<1>5. la + 1 \in 1 .. Len(c) /\ \A k \in 1 .. la : k \in 1 .. Len(c)
  BY <1>1, <1>3 DEF la
<1>6. d[la + 1] = e /\ \A k \in 1 .. la : d[k] = a[k]
  BY <1>1, <1>2, <1>5 DEF la
<1> QED
  BY <1>3, <1>4, <1>6 DEF c, d, la, lb

\* Messages whose lengths are read as their bodies are long are counted one by one.
LEMMA Counted ==
  ASSUME NEW S, NEW M, NEW messages \in Seq(M), messages # <<>>,
         \A i \in 1 .. Len(messages) :
            /\ Block(messages[i]) \in S /\ messages[i].body \in Seq(S)
            /\ Parses(Block(messages[i]))
            /\ BodyLength(Block(messages[i])) = Len(messages[i].body),
         \A b \in S : BodyLength(b) \in Nat
  PROVE  VerifyRequest(Stream(messages)) = Len(messages)
<1> DEFINE K == Len(messages)
           len(i) == Len(messages[i].body)
<1>1. K \in Nat \ {0}
  OBVIOUS
<1>2. PICK u : Streams(S, messages, u) /\ Stream(messages) = u[K]
  BY StreamIs
<1> DEFINE bytes == u[K]
           n == Len(bytes)
<1>3. /\ u \in [0 .. K -> Seq(S)] /\ u[0] = <<>>
      /\ \A i \in 1 .. K : u[i] = u[i - 1] \o <<Block(messages[i])>> \o messages[i].body
  BY <1>2 DEF Streams
<1>4. ASSUME NEW i \in 1 .. K
      PROVE  /\ len(i) \in Nat
             /\ Len(u[i]) = Len(u[i - 1]) + 1 + len(i)
             /\ u[i][Len(u[i - 1]) + 1] = Block(messages[i])
             /\ \A k \in 1 .. Len(u[i - 1]) : u[i][k] = u[i - 1][k]
  <2> DEFINE a == u[i - 1]
             e == Block(messages[i])
             b == messages[i].body
  <2>1. a \in Seq(S)
    <3>1. u \in [0 .. K -> Seq(S)] /\ K \in Nat
      BY <1>1, <1>3
    <3> HIDE DEF K
    <3>2. i - 1 \in 0 .. K
      BY <3>1
    <3> QED
      BY <3>1, <3>2
  <2>2. e \in S /\ b \in Seq(S)
    OBVIOUS
  <2>3. u[i] = a \o <<e>> \o b
    BY <1>3
  <2> DEFINE d == a \o <<e>> \o b
  <2> HIDE DEF a, e, b, K
  <2>4. /\ Len(b) \in Nat /\ Len(d) = Len(a) + 1 + Len(b) /\ d[Len(a) + 1] = e
        /\ \A k \in 1 .. Len(a) : d[k] = a[k]
    BY <2>1, <2>2, JoinFacts
  <2>5. u[i] = d
    BY <2>3
  <2> HIDE DEF d
  <2> QED
    BY <2>4, <2>5 DEF a, b, e
<1> DEFINE begin(i) == Len(u[i])
<1>5. \A i \in 0 .. K : begin(i) \in Nat
  BY <1>3
<1>6. bytes \in Seq(S) /\ n \in Nat
  BY <1>1, <1>3
<1> HIDE DEF K, len, bytes
\* What is there stays.
<1>7. ASSUME NEW i \in 1 .. K
      PROVE  /\ begin(i) <= n
             /\ bytes[begin(i - 1) + 1] = Block(messages[i])
  <2> DEFINE T == {m \in 0 .. K - i : /\ begin(i) <= begin(i + m)
                                      /\ u[i + m][begin(i - 1) + 1] = Block(messages[i])}
  <2>1. 0 \in T
    <3>1. i + 0 = i /\ 0 \in 0 .. K - i /\ i \in 0 .. K
      BY <1>1
    <3>2. begin(i) <= begin(i)
      BY <1>5, <3>1
    <3>3. u[i][begin(i - 1) + 1] = Block(messages[i])
      BY <1>4
    <3> HIDE DEF begin
    <3> QED
      BY <3>1, <3>2, <3>3
  <2>2. ASSUME NEW m \in 1 .. K - i, m - 1 \in T PROVE m \in T
    <3> DEFINE j == i + m
    <3>1. j \in 1 .. K /\ i + (m - 1) = j - 1 /\ m \in 0 .. K - i /\ j - 1 \in 0 .. K
          /\ i - 1 \in 0 .. K /\ i \in 0 .. K
      BY <1>1
    <3> HIDE DEF j
    <3>2. begin(i) <= begin(j - 1) /\ u[j - 1][begin(i - 1) + 1] = Block(messages[i])
      BY <2>2, <3>1
    <3>3. /\ len(j) \in Nat /\ begin(j) = begin(j - 1) + 1 + len(j)
          /\ \A k \in 1 .. begin(j - 1) : u[j][k] = u[j - 1][k]
      BY <1>4, <3>1
    <3>4. len(i) \in Nat /\ begin(i) = begin(i - 1) + 1 + len(i)
      BY <1>4
    <3>5. begin(i) \in Nat /\ begin(i - 1) \in Nat /\ begin(j - 1) \in Nat /\ begin(j) \in Nat
      BY <1>5, <3>1
    <3> HIDE DEF begin, T
    <3>6. begin(i) <= begin(j) /\ begin(i - 1) + 1 \in 1 .. begin(j - 1)
      BY <3>2, <3>3, <3>4, <3>5
    <3>7. u[j][begin(i - 1) + 1] = Block(messages[i])
      BY <3>2, <3>3, <3>6
    <3> QED
      BY <3>1, <3>6, <3>7 DEF T, j
  <2>3. K - i \in Nat
    BY <1>1
  <2>4. \A m \in 0 .. K - i : m \in T
    <3> HIDE DEF T
    <3> QED
      BY <2>1, <2>2, <2>3, Climb
  <2>5. K - i \in T /\ i + (K - i) = K
    <3>1. K - i \in 0 .. K - i /\ i + (K - i) = K
      BY <1>1
    <3> HIDE DEF T
    <3> QED
      BY <2>4, <3>1
  <2> QED
    BY <2>5 DEF bytes
<1>8. n # 0
  <2>1. 1 \in 1 .. K /\ 0 \in 0 .. K /\ 1 - 1 = 0
    BY <1>1
  <2>2. len(1) \in Nat /\ begin(1) = begin(0) + 1 + len(1)
    BY <1>4, <2>1
  <2>3. begin(1) <= n /\ begin(0) \in Nat
    BY <1>5, <1>7, <2>1
  <2> HIDE DEF begin
  <2> QED
    BY <1>6, <2>2, <2>3
<1>9. PICK g : Counts(bytes, 0, g) /\ VerifyRequest(bytes) = g[0]
  BY <1>6, <1>8, VerifyIs, Zenon
<1>10. \A o \in 0 .. n : g[o] = From(bytes, g, o)
  BY <1>9 DEF Counts
<1> DEFINE T == {m \in 0 .. K : g[begin(K - m)] = m}
<1>11. 0 \in T
  <2>1. K - 0 = K /\ 0 \in 0 .. K /\ begin(K) = n
    BY <1>1 DEF bytes
  <2>2. g[n] = 0
    BY <1>6, <1>10 DEF From
  <2> HIDE DEF begin
  <2> QED
    BY <2>1, <2>2
<1>12. ASSUME NEW m \in 1 .. K, m - 1 \in T PROVE m \in T
  <2> DEFINE i == K - m + 1
  <2>1. i \in 1 .. K /\ K - (m - 1) = i /\ K - m = i - 1 /\ m \in 0 .. K /\ i - 1 \in 0 .. K /\ i \in 0 .. K
    BY <1>1
  <2> HIDE DEF i
  <2> DEFINE o == begin(i - 1)
             next == begin(i)
  <2>2. g[next] = m - 1
    BY <1>12, <2>1
  <2>3. /\ len(i) \in Nat /\ next = o + 1 + len(i) /\ o \in Nat /\ next <= n
        /\ bytes[o + 1] = Block(messages[i])
    BY <1>4, <1>5, <1>7, <2>1
  <2>4. Parses(Block(messages[i])) /\ BodyLength(Block(messages[i])) = len(i)
    BY <2>1 DEF K, len
  <2> HIDE DEF o, next, len
  <2>5. o \in 0 .. n /\ o # n
    BY <1>6, <2>3
  <2>6. From(bytes, g, o) = m
    <3> DEFINE b == bytes[o + 1]
    <3>1. Parses(b) /\ o + 1 + BodyLength(b) = next /\ ~(next > n)
      BY <1>6, <2>3, <2>4
    <3>2. ~(g[next] < 0) /\ g[next] + 1 = m
      BY <1>1, <2>2
    <3> HIDE DEF b
    <3>3. From(bytes, g, o) = IF next > n THEN Incomplete ELSE IF g[next] < 0 THEN g[next] ELSE g[next] + 1
      BY <2>5, <3>1 DEF From, b
    <3> QED
      BY <3>1, <3>2, <3>3
  <2>7. g[begin(K - m)] = m
    BY <1>10, <2>1, <2>5, <2>6 DEF o
  <2> HIDE DEF begin
  <2> QED
    BY <2>1, <2>7
<1>13. \A m \in 0 .. K : m \in T
  <2> HIDE DEF T
  <2> QED
    BY <1>1, <1>11, <1>12, Climb
<1>14. g[begin(0)] = K /\ begin(0) = 0
  <2>1. K \in 0 .. K /\ K - K = 0
    BY <1>1
  <2>2. g[begin(0)] = K
    <3>1. K \in T
      <4> HIDE DEF T
      <4> QED
        BY <1>13, <2>1
    <3> HIDE DEF begin
    <3> QED
      BY <2>1, <3>1
  <2> QED
    BY <1>3, <2>2
<1> QED
  BY <1>2, <1>9, <1>14 DEF K, bytes

LEMMA BlockFacts ==
  ASSUME NEW m \in Message, Framed(<<m>>)
  PROVE  /\ Parses(Block(m)) <=> Parses(m)
         /\ BodyLength(Block(m)) = Len(m.body) /\ Len(m.body) \in Nat
         /\ m.body \in Seq({LikeRequest, Junk})
<1>1. m.body \in Seq({LikeRequest, Junk}) /\ Len(m.body) \in Nat
  BY DEF Message
<1>2. Block(m).line = m.line /\ Block(m).headers = m.headers
  BY DEF Block
<1>3. Parses(Block(m)) <=> Parses(m)
  BY <1>2 DEF Parses
<1>4. BodyLength(Block(m)) = BodyLength(m)
  <2> DEFINE Read(h) ==
        LET lengths == {k \in DOMAIN h : Lower[h[k][1]] = "content-length"}
            first == CHOOSE k \in lengths : \A j \in lengths : k <= j
        IN  IF lengths # {} /\ h[first][2][1] = "number" THEN h[first][2][2] ELSE 0
  <2>1. BodyLength(Block(m)) = Read(Block(m).headers) /\ BodyLength(m) = Read(m.headers)
    BY DEF BodyLength
  <2> HIDE DEF Read
  <2> QED
    BY <1>2, <2>1
<1>5. BodyLength(m) = Len(m.body)
  BY LengthRead
<1> QED
  BY <1>1, <1>3, <1>4, <1>5

LEMMA PlainLength == \A b \in {LikeRequest, Junk} : BodyLength(b) = 0
<1> SUFFICES ASSUME NEW b \in {LikeRequest, Junk} PROVE BodyLength(b) = 0
  OBVIOUS
<1>1. b.headers = <<>>
  BY DEF LikeRequest, Junk
<1>2. {i \in DOMAIN b.headers : Lower[b.headers[i][1]] = "content-length"} = {}
  BY <1>1
<1> QED
  BY <1>2, Zenon DEF BodyLength

LEMMA WiderBytes ==
  ASSUME NEW U, NEW S, U \subseteq S, NEW b \in Seq(U)
  PROVE  b \in Seq(S)
  OBVIOUS

LEMMA MessagesCounted ==
  ASSUME NEW messages \in Seq(Message), messages # <<>>, Framed(messages), Sound(messages)
  PROVE  VerifyRequest(Stream(messages)) = Len(messages)
<1> DEFINE S == {Block(messages[i]) : i \in 1 .. Len(messages)} \union {LikeRequest, Junk}
<1>1. ASSUME NEW i \in 1 .. Len(messages)
      PROVE  /\ Block(messages[i]) \in S /\ messages[i].body \in Seq(S)
             /\ Parses(Block(messages[i]))
             /\ BodyLength(Block(messages[i])) = Len(messages[i].body)
             /\ Len(messages[i].body) \in Nat
  <2> DEFINE m == messages[i]
  <2>1. m \in Message
    OBVIOUS
  <2>2. Parses(m) /\ Framed(<<m>>)
    BY DEF Sound, Framed
  <2> HIDE DEF m
  <2>3. /\ Parses(Block(m)) /\ BodyLength(Block(m)) = Len(m.body) /\ Len(m.body) \in Nat
        /\ m.body \in Seq({LikeRequest, Junk})
    BY <2>1, <2>2, BlockFacts
  <2>4. {LikeRequest, Junk} \subseteq S /\ Block(messages[i]) \in S
    OBVIOUS
  <2> HIDE DEF S
  <2>5. m.body \in Seq(S)
    BY <2>3, <2>4, WiderBytes
  <2> QED
    BY <2>3, <2>4, <2>5 DEF m
<1>2. ASSUME NEW b \in S PROVE BodyLength(b) \in Nat
  <2>1. CASE b \in {LikeRequest, Junk}
    BY <2>1, PlainLength
  <2>2. CASE b \notin {LikeRequest, Junk}
    <3>1. PICK i \in 1 .. Len(messages) : b = Block(messages[i])
      BY <2>2
    <3> HIDE DEF S
    <3> QED
      BY <1>1, <3>1
  <2> QED
    BY <2>1, <2>2
<1> HIDE DEF S
<1> QED
  BY <1>1, <1>2, Counted

\* Bytes that begin with a block that does not parse are malformed.
LEMMA MalformedCounted ==
  ASSUME NEW m \in Message, Framed(<<m>>), ~Parses(m)
  PROVE  VerifyRequest(Stream(<<m>>)) = Malformed
<1> DEFINE e == Block(m)
           S == {e, LikeRequest, Junk}
           messages == <<m>>
<1>1. /\ ~Parses(e) /\ BodyLength(e) = Len(m.body) /\ Len(m.body) \in Nat
      /\ m.body \in Seq({LikeRequest, Junk})
  BY BlockFacts
<1>2. {LikeRequest, Junk} \subseteq S /\ e \in S
  OBVIOUS
<1>3. \A b \in S : BodyLength(b) \in Nat
  BY <1>1, PlainLength
<1>4. messages \in Seq({m}) /\ Len(messages) = 1 /\ messages[1] = m /\ messages # <<>>
  OBVIOUS
<1> HIDE DEF S, messages
<1>5. m.body \in Seq(S)
  BY <1>1, <1>2, WiderBytes
<1>6. \A i \in 1 .. Len(messages) : Block(messages[i]) \in S /\ messages[i].body \in Seq(S)
  BY <1>2, <1>4, <1>5
<1> HIDE DEF e
<1>7. PICK u : Streams(S, messages, u) /\ Stream(messages) = u[1]
  BY <1>4, <1>6, StreamIs
<1> DEFINE bytes == u[1]
<1>8. bytes = <<>> \o <<e>> \o m.body
  <2>1. u[0] = <<>>
    BY <1>7 DEF Streams
  <2>2. 1 \in 1 .. Len(messages)
    BY <1>4
  <2>3. u[1] = u[1 - 1] \o <<Block(messages[1])>> \o messages[1].body
    BY <1>7, <2>2, Zenon DEF Streams
  <2>4. 1 - 1 = 0
    OBVIOUS
  <2>5. u[1] = <<>> \o <<Block(m)>> \o m.body
    BY <1>4, <2>1, <2>3, <2>4, Zenon
  <2> QED
    BY <2>5, Zenon DEF e
<1> DEFINE d == <<>> \o <<e>> \o m.body
<1>9. Len(d) = 0 + 1 + Len(m.body) /\ d[0 + 1] = e /\ d \in Seq(S)
  <2>1. <<>> \in Seq(S) /\ Len(<<>>) = 0 /\ <<e>> \in Seq(S)
    BY <1>2
  <2>2. Len(d) = Len(<<>>) + 1 + Len(m.body) /\ d[Len(<<>>) + 1] = e
    BY <1>2, <1>5, <2>1, JoinFacts
  <2>3. <<>> \o <<e>> = <<e>>
    OBVIOUS
  <2>4. d \in Seq(S)
    BY <1>5, <2>1, <2>3
  <2> QED
    BY <2>1, <2>2, <2>4
<1>10. bytes \in Seq(S) /\ Len(bytes) # 0 /\ bytes[0 + 1] = e
  <2> HIDE DEF bytes, d
  <2>1. bytes = d
    BY <1>8 DEF d
  <2> QED
    BY <1>1, <1>9, <2>1
<1> HIDE DEF bytes, d
<1>11. PICK g : Counts(bytes, 0, g) /\ VerifyRequest(bytes) = g[0]
  BY <1>3, <1>10, VerifyIs
<1>12. g[0] = From(bytes, g, 0)
  <2>1. Len(bytes) \in Nat
    BY <1>10
  <2> QED
    BY <1>11, <2>1 DEF Counts
<1>13. From(bytes, g, 0) = Malformed
  BY <1>1, <1>10 DEF From
<1>14. Stream(messages) = bytes
  BY <1>7 DEF bytes
<1> QED
  BY <1>11, <1>12, <1>13, <1>14 DEF messages

-----------------------------------------------------------------------------
(* What the engines make of a table. *)

\* A table with the Host of the defaults, and then with the length of the body.
Hosted(t, d) ==
    IF "Host" \in DOMAIN t \/ "Host" \notin DOMAIN d THEN t ELSE Put(t, "Host", d["Host"])
Told(t, d, content) ==
    IF content = Absent THEN Without(Hosted(t, d), "Content-Length")
    ELSE Put(Hosted(t, d), "Content-Length", Number(Len(content)))

\* The message that says these headers and this body.
Saying(G, content) == [line |-> line, headers |-> G, body |-> Sent(content)]

LEMMA HostedFacts ==
  ASSUME NEW t \in Tables, NEW d \in Tables
  PROVE  /\ Hosted(t, d) \in Tables
         /\ "Host" \in DOMAIN t \/ "Host" \in DOMAIN d => "Host" \in DOMAIN Hosted(t, d)
<1>1. "Host" \in Names
  BY RequestOK
<1>2. CASE "Host" \in DOMAIN t \/ "Host" \notin DOMAIN d
  BY <1>2 DEF Hosted
<1>3. CASE ~("Host" \in DOMAIN t \/ "Host" \notin DOMAIN d)
  <2>1. d["Host"] \in Values /\ d["Host"] \in Worth
    BY <1>3, TableFacts DEF Worth
  <2> DEFINE v == d["Host"]
             p == Put(t, "Host", v)
  <2>2. Hosted(t, d) = p
    BY <1>3 DEF Hosted
  <2> HIDE DEF v
  <2>3. v \in Values /\ v \in Worth
    BY <2>1 DEF v
  <2>4. p \in Tables /\ DOMAIN p = DOMAIN t \union {"Host"}
    BY <1>1, <2>3, PutFacts
  <2> HIDE DEF p
  <2> QED
    BY <2>2, <2>4
<1> QED
  BY <1>2, <1>3

LEMMA ToldFacts ==
  ASSUME NEW t \in Tables, NEW d \in Tables, NEW content \in Contents
  PROVE  /\ Told(t, d, content) \in Tables
         /\ Graph(Told(t, d, content)) = Frame(Graph(Hosted(t, d)), content)
         /\ "Host" \in DOMAIN t \/ "Host" \in DOMAIN d => "Host" \in DOMAIN Told(t, d, content)
<1> DEFINE h == Hosted(t, d)
<1>1. h \in Tables /\ ("Host" \in DOMAIN t \/ "Host" \in DOMAIN d => "Host" \in DOMAIN h)
  BY HostedFacts
<1>2. "Content-Length" \in Names /\ "Host" # "Content-Length"
  BY RequestOK
<1>3. CASE content = Absent
  <2>1. Told(t, d, content) = Without(h, "Content-Length")
    BY <1>3 DEF Told
  <2> HIDE DEF h
  <2>2. /\ Without(h, "Content-Length") \in Tables
        /\ DOMAIN Without(h, "Content-Length") = DOMAIN h \ {"Content-Length"}
        /\ Graph(Without(h, "Content-Length")) = Cut(Graph(h), "Content-Length")
    BY <1>1, WithoutFacts
  <2> QED
    BY <1>1, <1>2, <1>3, <2>1, <2>2 DEF Frame, h
<1>4. CASE content # Absent
  <2> DEFINE v == Number(Len(content))
  <2>1. Told(t, d, content) = Put(h, "Content-Length", v)
    BY <1>4 DEF Told
  <2>2. v \in Worth
    BY <1>4, ContentFacts
  <2>3. Frame(Graph(h), content) = Over(Graph(h), "Content-Length", v)
    BY <1>4 DEF Frame
  <2> HIDE DEF h, v
  <2>4. /\ Put(h, "Content-Length", v) \in Tables
        /\ DOMAIN Put(h, "Content-Length", v) = DOMAIN h \union {"Content-Length"}
        /\ Graph(Put(h, "Content-Length", v)) = Over(Graph(h), "Content-Length", v)
    BY <1>1, <1>2, <2>2, PutFacts
  <2> QED
    BY <1>1, <2>1, <2>3, <2>4 DEF h
<1> QED
  BY <1>3, <1>4

\* Both engines leave the same table behind.
LEMMA TablesMade ==
  ASSUME NEW t \in Tables, NEW d \in Tables, NEW content \in Contents
  PROVE  /\ LuaFormat(t, d, content).table = Told(t, d, content)
         /\ LuaFormat(t, d, content).message =
              [line |-> line, headers |-> Pairs(Told(t, d, content)), body |-> Sent(content)]
         /\ JsFormat(t, d, content).table = Told(t, d, content)
         /\ JsFormat(t, d, content).message =
              FormatRequest(line, Pairs(t), content, Get(d, "Host"))
<1>1. LuaFormat(t, d, content) =
        [table |-> Told(t, d, content),
         message |-> [line |-> line, headers |-> Pairs(Told(t, d, content)), body |-> Sent(content)]]
  BY Zenon DEF LuaFormat, Told, Hosted, Sent
<1>2. "Host" \in DOMAIN d => d["Host"] # Absent
  BY TableFacts, RequestOK
<1>3. (IF "Host" \in DOMAIN t \/ Get(d, "Host") = Absent THEN t
       ELSE Put(t, "Host", Get(d, "Host"))) = Hosted(t, d)
  BY <1>2 DEF Get, Hosted
<1>4. JsFormat(t, d, content) =
        [table |-> Told(t, d, content),
         message |-> FormatRequest(line, Pairs(t), content, Get(d, "Host"))]
  BY <1>3, Zenon DEF JsFormat, Told
<1> QED
  BY <1>1, <1>4

\* A message of the headers, whatever their order.
LEMMA IsMessage ==
  ASSUME line \in {"sound", "odd", "broken"}, NEW content \in Contents, NEW headers \in Seq(Header),
         Lengthy(headers, content)
  PROVE  /\ [line |-> line, headers |-> headers, body |-> Sent(content)] \in Message
         /\ Says([line |-> line, headers |-> headers, body |-> Sent(content)])
              = Saying(Range(headers), content)
<1> DEFINE b == Sent(content)
           m == [line |-> line, headers |-> headers, body |-> b]
<1>1. b \in Seq({LikeRequest, Junk})
  BY ContentFacts
<1>2. m \in Message
  <2> HIDE DEF b
  <2>1. m \in [line : {"sound", "odd", "broken"}, headers : Seq(Header), body : Seq({LikeRequest, Junk})]
    BY <1>1
  <2>2. m.body = b /\ m.headers = headers
    OBVIOUS
  <2>3. \E c \in Contents : m.body = Sent(c) /\ Lengthy(m.headers, c)
    <3> HIDE DEF m
    <3> QED
      BY <2>2 DEF b
  <2> HIDE DEF m
  <2> QED
    BY <2>1, <2>3 DEF Message
<1>3. Says(m) = Saying(Range(headers), content)
  BY DEF Says, Saying
<1> QED
  BY <1>2, <1>3

LEMMA LuaMessage ==
  ASSUME line \in {"sound", "odd", "broken"},
         NEW t \in Tables, NEW d \in Tables, NEW content \in Contents
  PROVE  /\ LuaFormat(t, d, content).message \in Message
         /\ Says(LuaFormat(t, d, content).message)
              = Saying(Frame(Graph(Hosted(t, d)), content), content)
<1> DEFINE told == Told(t, d, content)
           p == Pairs(told)
           G == Frame(Graph(Hosted(t, d)), content)
<1>1. told \in Tables /\ Graph(told) = G
  BY ToldFacts
<1> HIDE DEF told
<1>2. p \in Seq(Header) /\ Range(p) = G /\ NamedOnce(p)
  BY <1>1, PairsFacts
<1>3. LuaFormat(t, d, content).message = [line |-> line, headers |-> p, body |-> Sent(content)]
  BY TablesMade DEF told
<1> HIDE DEF p
<1>4. content = Absent => \A i \in DOMAIN p : p[i][1] # "Content-Length"
  BY <1>2 DEF Frame, Cut, Range
<1>5. ASSUME content # Absent
      PROVE  \E i \in DOMAIN p : p[i] = <<"Content-Length", Number(Len(Sent(content)))>>
  <2>1. <<"Content-Length", Number(Len(content))>> \in G
    BY <1>5 DEF Frame, Over
  <2>2. Sent(content) = content
    BY <1>5 DEF Sent
  <2> HIDE DEF G
  <2> QED
    BY <1>2, <2>1, <2>2 DEF Range
<1> DEFINE x == <<"Content-Length", Number(Len(Sent(content)))>>
<1>6. Lengthy(p, content)
  <2>1. CASE content = Absent
    BY <1>4, <2>1 DEF Lengthy
  <2>2. CASE content # Absent
    <3>1. PICK i \in DOMAIN p : p[i] = x
      BY <1>5, <2>2
    <3>2. x[1] = "Content-Length" /\ x[2] = Number(Len(Sent(content)))
      OBVIOUS
    <3> HIDE DEF x
    <3>3. \A j \in DOMAIN p : p[j][1] = "Content-Length" => j = i
      BY <1>2, <3>1, <3>2 DEF NamedOnce
    <3> QED
      BY <3>1, <3>2, <3>3 DEF Lengthy, Has
  <2> QED
    BY <2>1, <2>2
<1> HIDE DEF G
<1> QED
  BY <1>2, <1>3, <1>6, IsMessage DEF G

LEMMA JsMessage ==
  ASSUME line \in {"sound", "odd", "broken"},
         NEW t \in Tables, NEW d \in Tables, NEW content \in Contents
  PROVE  /\ JsFormat(t, d, content).message \in Message
         /\ Says(JsFormat(t, d, content).message)
              = Saying(Frame(Graph(Hosted(t, d)), content), content)
<1> DEFINE host == Get(d, "Host")
           p == Pairs(t)
           q == IF host = Absent \/ Has(p, "Host") THEN p ELSE Append(p, <<"Host", host>>)
           a == ApplyContentLength(q, content)
           G == Graph(Hosted(t, d))
<1>1. p \in Seq(Header) /\ Range(p) = Graph(t) /\ NamedOnce(p)
  BY PairsFacts
<1>2. "Host" \in Names /\ ("Host" \in DOMAIN d => d["Host"] \in Values /\ d["Host"] # Absent)
  BY TableFacts, RequestOK
<1>3. JsFormat(t, d, content).message = [line |-> line, headers |-> a, body |-> Sent(content)]
  BY TablesMade DEF FormatRequest, Sent
<1> HIDE DEF p
<1>4. Has(p, "Host") <=> "Host" \in DOMAIN t
  <2>1. Has(p, "Host") <=> \E h \in Range(p) : h[1] = "Host"
    BY DEF Has, Range
  <2>2. (\E h \in Graph(t) : h[1] = "Host") <=> "Host" \in DOMAIN t
    <3>1. ASSUME NEW n \in DOMAIN t PROVE <<n, t[n]>> \in Graph(t) /\ <<n, t[n]>>[1] = n
      BY DEF Graph
    <3>2. ASSUME NEW h \in Graph(t) PROVE h[1] \in DOMAIN t
      BY DEF Graph
    <3> QED
      BY <3>1, <3>2
  <2> QED
    BY <1>1, <2>1, <2>2
<1>5. q \in Seq(Header) /\ Range(q) = G /\ NamedOnce(q)
  <2>1. CASE host = Absent \/ Has(p, "Host")
    <3>1. Hosted(t, d) = t
      BY <1>2, <1>4, <2>1 DEF Hosted, Get
    <3>2. q = p
      BY <2>1
    <3> QED
      BY <1>1, <3>1, <3>2
  <2>2. CASE ~(host = Absent \/ Has(p, "Host"))
    <3> DEFINE x == <<"Host", host>>
    <3>1. host \in Values /\ host = d["Host"] /\ "Host" \in DOMAIN d /\ "Host" \notin DOMAIN t
      BY <1>2, <1>4, <2>2 DEF Get
    <3>2. x \in Header /\ x[1] = "Host" /\ host \in Worth
      BY <1>2, <3>1 DEF Header, Worth
    <3>3. q = Replace(p, x)
      BY <2>2 DEF Replace
    <3>4. G = Over(Graph(t), "Host", host)
      <4>1. Hosted(t, d) = Put(t, "Host", host)
        BY <3>1 DEF Hosted
      <4>2. host \in Values /\ host \in Worth
        BY <3>1, <3>2
      <4> HIDE DEF host, q, G, x
      <4>3. Graph(Put(t, "Host", host)) = Over(Graph(t), "Host", host)
        BY <1>2, <4>2, PutFacts
      <4> QED
        BY <4>1, <4>3 DEF G
    <3> HIDE DEF host, q, G
    <3>5. NamedOnce(Replace(p, x)) /\ Range(Replace(p, x)) = Over(Range(p), "Host", host)
      BY <1>1, <3>2, ReplaceOnce
    <3> HIDE DEF x
    <3>6. Replace(p, x) \in Seq(Header)
      BY <1>1, <3>2, ReplaceFacts
    <3> QED
      BY <1>1, <3>3, <3>4, <3>5, <3>6
  <2> QED
    BY <2>1, <2>2
<1> HIDE DEF q, G
<1>6. a \in Seq(Header) /\ Lengthy(a, content) /\ Range(a) = Frame(G, content)
  BY <1>5, ApplyFacts
<1> HIDE DEF a
<1> QED
  BY <1>3, <1>6, IsMessage DEF G

-----------------------------------------------------------------------------
(* The tables of the engines differ only in the length of a body. *)

Alike(t, u) == Cut(Graph(t), "Content-Length") = Cut(Graph(u), "Content-Length")

LEMMA CutOver ==
  ASSUME NEW G, NEW a, NEW name, NEW value
  PROVE  Cut(Over(G, name, value), a) =
           IF name = a THEN Cut(Cut(G, a), a) ELSE Over(Cut(G, a), name, value)
<1>1. CASE name = a
  BY <1>1 DEF Cut, Over
<1>2. CASE name # a
  BY <1>2 DEF Cut, Over
<1> QED
  BY <1>1, <1>2

LEMMA CutTwice == ASSUME NEW G, NEW a PROVE Cut(Cut(G, a), a) = Cut(G, a)
  BY DEF Cut

LEMMA FrameCut ==
  ASSUME NEW G, NEW content
  PROVE  /\ Cut(Frame(G, content), "Content-Length") = Cut(G, "Content-Length")
         /\ Frame(G, content) =
              IF content = Absent THEN Cut(G, "Content-Length")
              ELSE Cut(G, "Content-Length") \union {<<"Content-Length", Number(Len(content))>>}
<1>1. CASE content = Absent
  BY <1>1, CutTwice DEF Frame
<1>2. CASE content # Absent
  <2> DEFINE v == Number(Len(content))
             O == Over(G, "Content-Length", v)
  <2>1. Frame(G, content) = O
    BY <1>2 DEF Frame
  <2>2. Cut(O, "Content-Length") = Cut(G, "Content-Length")
    BY CutOver, CutTwice
  <2>3. O = Cut(G, "Content-Length") \union {<<"Content-Length", v>>}
    BY DEF Over
  <2> HIDE DEF O
  <2> QED
    BY <1>2, <2>1, <2>2, <2>3
<1> QED
  BY <1>1, <1>2

\* What is not the length is the same in tables that are alike.
LEMMA AlikeAt ==
  ASSUME NEW t, NEW u, Alike(t, u), NEW n, n # "Content-Length", n \in DOMAIN t
  PROVE  n \in DOMAIN u /\ u[n] = t[n]
<1>1. <<n, t[n]>> \in Cut(Graph(t), "Content-Length")
  BY DEF Cut, Graph
<1>2. <<n, t[n]>> \in Graph(u)
  BY <1>1 DEF Alike, Cut
<1> QED
  BY <1>2 DEF Graph

LEMMA AlikePut ==
  ASSUME NEW t \in Tables, NEW u \in Tables, Alike(t, u),
         NEW name \in Names, NEW value \in Values
  PROVE  Alike(Put(t, name, value), Put(u, name, value))
<1>1. value \in Worth
  BY DEF Worth
<1>2. /\ Graph(Put(t, name, value)) = Over(Graph(t), name, value)
      /\ Graph(Put(u, name, value)) = Over(Graph(u), name, value)
  BY <1>1, PutFacts
<1> QED
  BY <1>2, CutOver DEF Alike

LEMMA AlikeHosted ==
  ASSUME NEW t \in Tables, NEW u \in Tables, Alike(t, u),
         NEW d \in Tables, NEW e \in Tables, Alike(d, e)
  PROVE  Alike(Hosted(t, d), Hosted(u, e))
<1>1. Alike(u, t) /\ Alike(e, d)
  BY DEF Alike
<1>2. "Host" \in DOMAIN t <=> "Host" \in DOMAIN u
  BY <1>1, AlikeAt
<1>3. ("Host" \in DOMAIN d <=> "Host" \in DOMAIN e) /\ ("Host" \in DOMAIN d => e["Host"] = d["Host"])
  BY <1>1, AlikeAt
<1>4. CASE "Host" \in DOMAIN t \/ "Host" \notin DOMAIN d
  BY <1>2, <1>3, <1>4 DEF Hosted
<1>5. CASE ~("Host" \in DOMAIN t \/ "Host" \notin DOMAIN d)
  <2>1. /\ Hosted(t, d) = Put(t, "Host", d["Host"])
        /\ Hosted(u, e) = Put(u, "Host", d["Host"])
    BY <1>2, <1>3, <1>5 DEF Hosted
  <2> DEFINE v == d["Host"]
  <2>2. v \in Values /\ "Host" \in Names
    BY <1>5, TableFacts, RequestOK
  <2> HIDE DEF v
  <2>3. Alike(Put(t, "Host", v), Put(u, "Host", v))
    BY <2>2, AlikePut
  <2> QED
    BY <2>1, <2>3 DEF v
<1> QED
  BY <1>4, <1>5

\* So both engines make the same message of them, and leave tables that are alike.
LEMMA FormatsAgree ==
  ASSUME line \in {"sound", "odd", "broken"},
         NEW t \in Tables, NEW u \in Tables, Alike(t, u),
         NEW d \in Tables, NEW e \in Tables, Alike(d, e), NEW content \in Contents
  PROVE  /\ Says(LuaFormat(t, d, content).message) = Says(JsFormat(u, e, content).message)
         /\ Alike(LuaFormat(t, d, content).table, JsFormat(u, e, content).table)
<1> DEFINE G == Graph(Hosted(t, d))
           H == Graph(Hosted(u, e))
<1>1. Cut(G, "Content-Length") = Cut(H, "Content-Length")
  BY AlikeHosted DEF Alike
<1>2. Frame(G, content) = Frame(H, content)
  <2> HIDE DEF G, H
  <2> QED
    BY <1>1, FrameCut
<1>3. Says(LuaFormat(t, d, content).message) = Saying(Frame(G, content), content)
  BY LuaMessage
<1>4. Says(JsFormat(u, e, content).message) = Saying(Frame(H, content), content)
  BY JsMessage
<1>5. /\ Graph(Told(t, d, content)) = Frame(G, content)
      /\ Graph(Told(u, e, content)) = Frame(H, content)
  BY ToldFacts
<1>6. Alike(Told(t, d, content), Told(u, e, content))
  BY <1>2, <1>5 DEF Alike
<1> QED
  BY <1>2, <1>3, <1>4, <1>6, TablesMade

-----------------------------------------------------------------------------
(* The invariant. *)

Places == {"wrk", "mine"}

TypeInv ==
    /\ phase \in {"load", "init", "run"} /\ dynamic \in BOOLEAN /\ given \in GivenHeaders
    /\ file \in Seq(Assignable) /\ line \in {"sound", "odd", "broken"} /\ body \in Contents
    /\ tables \in [Engines -> [Places -> Tables]]
    /\ cached \in Message \union {Absent}
    /\ batch \in [Engines -> Seq(Message)]

\* Before the run the engines are where the script has brought them; then each has
\* changed the lengths in its tables, and nothing else that the other has not.
TablesAgree ==
    /\ phase # "run" => /\ tables["lua"] = tables["quickjs"]
                        /\ cached = Absent /\ batch = [e \in Engines |-> <<>>]
    /\ \A p \in Places : Alike(tables["lua"][p], tables["quickjs"][p])

\* What the options and the file say, and the table of the script says it too.
Laid == Overlay(SplitHeaders(given), file)

FileAgrees ==
    NamedOnce(SplitHeaders(given)) =>
      /\ NamedOnce(Laid)
      /\ phase = "load" => Graph(tables["lua"]["wrk"]) = Range(Laid)
      /\ phase = "init" => Graph(tables["lua"]["wrk"]) =
            Range(Laid) \union (IF Has(Laid, "Host") THEN {} ELSE {<<"Host", TargetHost>>})
      /\ phase = "run" => Says(cached) = Says(ConfigRequest)

\* The request that is kept is the one that the other engine is going to make.
CachedAgrees ==
    phase = "run" =>
      /\ cached \in Message
      /\ ~dynamic /\ batch["quickjs"] = <<>> =>
           Says(cached) = Saying(Frame(Graph(tables["quickjs"]["wrk"]), body), body)

BatchesAgree ==
    /\ Len(batch["lua"]) = Len(batch["quickjs"])
    /\ \A i \in 1 .. Len(batch["lua"]) : Says(batch["lua"][i]) = Says(batch["quickjs"][i])

RequestInv == TypeInv /\ TablesAgree /\ FileAgrees /\ CachedAgrees /\ BatchesAgree

LEMMA FunctionSeq ==
  ASSUME NEW S, NEW n \in Nat, NEW s \in [1 .. n -> S]
  PROVE  s \in Seq(S) /\ Len(s) = n
  OBVIOUS

LEMMA SplitFacts ==
  ASSUME NEW g \in GivenHeaders
  PROVE  SplitHeaders(g) \in Seq(Names \X Values)
<1> DEFINE s == [i \in DOMAIN g |-> <<g[i].name, g[i].value>>]
           places == {i \in DOMAIN g : g[i].separator = ": "}
           Options == [name : Names, separator : {": ", ":"}, value : Values]
           H == Names \X Values
<1>1. g \in Seq(Options)
  BY RequestOK, Zenon
<1>2. DOMAIN g = 1 .. Len(g) /\ Len(g) \in Nat /\ \A i \in 1 .. Len(g) : g[i] \in Options
  <2> HIDE DEF Options
  <2> QED
    BY <1>1
<1>3. \A i \in 1 .. Len(g) : <<g[i].name, g[i].value>> \in H
  <2> SUFFICES ASSUME NEW i \in 1 .. Len(g) PROVE <<g[i].name, g[i].value>> \in H
    OBVIOUS
  <2> DEFINE o == g[i]
  <2>1. o \in Options
    BY <1>2
  <2> HIDE DEF o
  <2>2. o.name \in Names /\ o.value \in Values
    BY <2>1
  <2> QED
    BY <2>2 DEF o
<1> HIDE DEF H
<1>4. s \in [1 .. Len(g) -> H]
  BY <1>2, <1>3
<1>5. s \in Seq(H) /\ Len(s) = Len(g)
  <2> HIDE DEF s
  <2>1. Len(g) \in Nat
    BY <1>2
  <2> QED
    BY <1>4, <2>1, FunctionSeq
<1>6. places \in SUBSET (1 .. Len(s))
  BY <1>2, <1>5
<1> HIDE DEF s, places
<1>7. Kept(s, places) \in Seq(H)
  BY <1>5, <1>6, KeptFacts
<1> QED
  BY <1>7 DEF SplitHeaders, s, places, H

\* Headers that are set, and options, are headers.
LEMMA HeaderFacts ==
  /\ Assignable \subseteq Names \X Values /\ Reassigned \subseteq Assignable
  /\ Names \X Values \subseteq Header
  /\ TargetHost \in Values /\ TargetHost # Absent /\ "Host" \in Names /\ Absent \notin Values
<1>1. /\ Assignable \subseteq Names \X Values /\ Reassigned \subseteq Assignable
      /\ "Host" \in Names /\ Absent \notin Values
  BY RequestOK, Zenon
<1>2. Names \X Values \subseteq Header
  BY DEF Header, Worth
<1>3. TargetHost \in Values
  <2> DEFINE Other == {h[2] : h \in Assignable}
                        \union UNION {{g[i].value : i \in DOMAIN g} : g \in GivenHeaders}
  <2>1. Values = {Text("target"), Control} \union Other
    BY DEF Values
  <2> HIDE DEF Other
  <2> QED
    BY <2>1 DEF TargetHost
<1> QED
  BY <1>1, <1>2, <1>3

LEMMA SeqWider ==
  ASSUME NEW S, NEW U, S \subseteq U, NEW s \in Seq(S)
  PROVE  s \in Seq(U)
  OBVIOUS

LEMMA LaidFacts ==
  ASSUME TypeInv
  PROVE  /\ SplitHeaders(given) \in Seq(Header) /\ file \in Seq(Header) /\ Laid \in Seq(Header)
         /\ Range(Laid) \subseteq Range(SplitHeaders(given)) \union Range(file)
<1>1. SplitHeaders(given) \in Seq(Names \X Values) /\ file \in Seq(Assignable)
  BY SplitFacts DEF TypeInv
<1>2. SplitHeaders(given) \in Seq(Header)
  BY <1>1, HeaderFacts, SeqWider, Zenon
<1>3. Assignable \subseteq Header
  BY HeaderFacts
<1>4. file \in Seq(Header)
  BY <1>1, <1>3, SeqWider, Zenon
<1> QED
  BY <1>2, <1>4, OverlayFacts DEF Laid

\* The request of a data file.
LEMMA ConfigFacts ==
  ASSUME TypeInv
  PROVE  /\ ConfigRequest \in Message /\ ConfigRequest.line = line
         /\ Range(ConfigRequest.headers)
              \subseteq Range(Laid) \union {<<"Host", TargetHost>>,
                                            <<"Content-Length", Number(Len(Sent(body)))>>}
         /\ NamedOnce(Laid) =>
              Says(ConfigRequest) =
                Saying(Frame(Range(Laid) \union (IF Has(Laid, "Host") THEN {}
                                                 ELSE {<<"Host", TargetHost>>}), body), body)
<1> DEFINE x == <<"Host", TargetHost>>
           q == IF Has(Laid, "Host") THEN Laid ELSE Append(Laid, x)
           a == ApplyContentLength(q, body)
           G == Range(Laid) \union (IF Has(Laid, "Host") THEN {} ELSE {x})
<1>1. Laid \in Seq(Header) /\ body \in Contents /\ line \in {"sound", "odd", "broken"}
  BY LaidFacts DEF TypeInv
<1>2. x \in Header /\ TargetHost # Absent
  BY HeaderFacts
<1>3. ConfigRequest = [line |-> line, headers |-> a, body |-> Sent(body)]
  BY <1>2 DEF ConfigRequest, FormatRequest, Sent, Laid
<1>4. x[1] = "Host"
  OBVIOUS
<1> HIDE DEF x
<1>5. q \in Seq(Header) /\ Range(q) = G
  <2>1. CASE Has(Laid, "Host")
    BY <1>1, <2>1
  <2>2. CASE ~Has(Laid, "Host")
    BY <1>1, <1>2, <2>2, RangeAppend, AppendFacts
  <2> QED
    BY <2>1, <2>2
<1>6. NamedOnce(Laid) => NamedOnce(q)
  <2>1. CASE Has(Laid, "Host")
    BY <2>1
  <2>2. CASE ~Has(Laid, "Host")
    <3>1. q = Replace(Laid, x)
      BY <1>4, <2>2 DEF Replace
    <3> QED
      BY <1>1, <1>2, <3>1, ReplaceOnce DEF x
  <2> QED
    BY <2>1, <2>2
<1> HIDE DEF q, G
<1>7. /\ a \in Seq(Header) /\ Lengthy(a, body)
      /\ Range(a) \subseteq Range(q) \union {<<"Content-Length", Number(Len(Sent(body)))>>}
      /\ NamedOnce(q) => Range(a) = Frame(Range(q), body)
  BY <1>1, <1>5, ApplyFacts
<1> HIDE DEF a
<1>8. ConfigRequest \in Message /\ Says(ConfigRequest) = Saying(Range(a), body)
  BY <1>1, <1>3, <1>7, IsMessage
<1>9. ConfigRequest.line = line /\ ConfigRequest.headers = a
  BY <1>3
<1>10. Range(a) \subseteq Range(Laid) \union {x, <<"Content-Length", Number(Len(Sent(body)))>>}
  BY <1>5, <1>7 DEF G
<1>11. NamedOnce(Laid) => Says(ConfigRequest) = Saying(Frame(G, body), body)
  BY <1>5, <1>6, <1>7, <1>8
<1> QED
  BY <1>8, <1>9, <1>10, <1>11 DEF G, x

LEMMA InitHolds == Init => RequestInv
<1> SUFFICES ASSUME Init PROVE RequestInv
  OBVIOUS
<1> DEFINE split == SplitHeaders(given)
           first == Installed(split)
<1>1. /\ phase = "load" /\ dynamic \in BOOLEAN /\ given \in GivenHeaders /\ file = <<>> /\ line = "sound"
      /\ body = Absent /\ cached = Absent /\ batch = [e \in Engines |-> <<>>]
      /\ tables = [e \in Engines |-> [wrk |-> first, mine |-> NoTable]]
  BY DEF Init
<1>2. split \in Seq(Names \X Values)
  BY <1>1, SplitFacts
<1>3. first \in Tables /\ (NamedOnce(split) => Graph(first) = Range(split)) /\ NoTable \in Tables
  BY <1>2, InstalledFacts, NothingIsTable
<1> HIDE DEF first
<1>4. [wrk |-> first, mine |-> NoTable] \in [Places -> Tables]
  BY <1>3 DEF Places
<1>5. TypeInv
  <2>1. tables \in [Engines -> [Places -> Tables]]
    BY <1>1, <1>4
  <2>2. batch \in [Engines -> Seq(Message)]
    BY <1>1
  <2>3. body \in Contents /\ file \in Seq(Assignable)
    BY <1>1 DEF Contents
  <2> QED
    BY <1>1, <2>1, <2>2, <2>3 DEF TypeInv
<1>6. tables["lua"] = tables["quickjs"] /\ tables["lua"]["wrk"] = first
  BY <1>1 DEF Engines
<1>7. TablesAgree
  BY <1>1, <1>6 DEF TablesAgree, Alike
<1>8. FileAgrees
  <2>1. Laid = split
    <3>1. Overlay(split, <<>>) = split
      <4>1. split \in Seq(Header) /\ file \in Seq(Header)
        BY <1>5, LaidFacts
      <4> DEFINE x == <<"Host", TargetHost>>
      <4>2. x \in Header
        BY HeaderFacts
      <4> HIDE DEF split, x
      <4> QED
        BY <4>1, <4>2, OverlaySteps
    <3> QED
      BY <1>1, <3>1 DEF Laid
  <2> HIDE DEF split
  <2> QED
    BY <1>1, <1>3, <1>6, <2>1 DEF FileAgrees, split
<1>9. CachedAgrees /\ BatchesAgree
  <2>1. batch["lua"] = <<>> /\ batch["quickjs"] = <<>>
    BY <1>1 DEF Engines
  <2> QED
    BY <1>1, <2>1 DEF CachedAgrees, BatchesAgree
<1> QED
  BY <1>5, <1>7, <1>8, <1>9 DEF RequestInv

\* A header more, in the table and in the file.
LEMMA ShapeHolds == RequestInv /\ Shape => RequestInv'
<1> SUFFICES ASSUME RequestInv, Shape PROVE RequestInv'
  OBVIOUS
<1>1. TypeInv /\ TablesAgree /\ FileAgrees /\ CachedAgrees /\ BatchesAgree
  BY DEF RequestInv
<1>2. phase \in {"load", "init"} /\ phase # "run" /\ UNCHANGED <<phase, dynamic, given, cached, batch>>
  BY DEF Shape
<1>3. CachedAgrees' /\ BatchesAgree'
  BY <1>1, <1>2 DEF CachedAgrees, BatchesAgree
<1>4. CASE (body' \in Bodies \/ body' = body) /\ (line' = line \/ line' \in {"odd", "broken"})
           /\ UNCHANGED <<file, tables>>
  <2>1. TypeInv'
    BY <1>1, <1>2, <1>4 DEF TypeInv, Contents
  <2>2. TablesAgree'
    BY <1>1, <1>2, <1>4 DEF TablesAgree
  <2>3. FileAgrees'
    BY <1>1, <1>2, <1>4 DEF FileAgrees, Laid, TargetHost
  <2> QED
    BY <1>3, <2>1, <2>2, <2>3 DEF RequestInv
<1>5. CASE \E header \in Assignable :
             /\ file' = Append(file, header)
             /\ tables' = [e \in Engines |->
                             [tables[e] EXCEPT !.wrk = Put(@, header[1], header[2])]]
             /\ UNCHANGED <<line, body>>
  <2>1. PICK header \in Assignable :
             /\ file' = Append(file, header)
             /\ tables' = [e \in Engines |->
                             [tables[e] EXCEPT !.wrk = Put(@, header[1], header[2])]]
             /\ UNCHANGED <<line, body>>
    BY <1>5
  <2> DEFINE a == header[1]
             v == header[2]
  <2>2. a \in Names /\ v \in Values /\ v \in Worth /\ header = <<a, v>> /\ header \in Header
    BY HeaderFacts DEF Worth
  <2> HIDE DEF a, v
  <2>3. tables \in [Engines -> [Places -> Tables]]
    BY <1>1 DEF TypeInv
  <2>4. ASSUME NEW e \in Engines
        PROVE  /\ tables'[e] \in [Places -> Tables]
               /\ tables'[e]["wrk"] = Put(tables[e]["wrk"], a, v)
               /\ tables'[e]["mine"] = tables[e]["mine"]
    <3> DEFINE t == tables[e]
               w == t["wrk"]
    <3>1. t \in [Places -> Tables] /\ w \in Tables
      BY <2>3 DEF Places
    <3>2. tables'[e] = [t EXCEPT !["wrk"] = Put(w, a, v)]
      BY <2>1 DEF a, v
    <3> HIDE DEF t, w
    <3>3. Put(w, a, v) \in Tables
      BY <2>2, <3>1, PutFacts
    <3> DEFINE p == Put(w, a, v)
    <3> HIDE DEF p
    <3>4. [t EXCEPT !["wrk"] = p] \in [Places -> Tables] /\ [t EXCEPT !["wrk"] = p]["wrk"] = p
          /\ [t EXCEPT !["wrk"] = p]["mine"] = t["mine"]
      BY <3>1, <3>3 DEF Places, p
    <3> QED
      BY <3>2, <3>4 DEF p, t, w
  <2>5. "lua" \in Engines /\ "quickjs" \in Engines
    BY DEF Engines
  <2>6. TypeInv'
    <3>1. tables' \in [Engines -> [Places -> Tables]]
      <4>1. tables' = [e \in Engines |-> tables'[e]]
        BY <2>1
      <4> QED
        BY <2>4, <4>1
    <3>2. file' \in Seq(Assignable)
      BY <1>1, <2>1 DEF TypeInv
    <3> QED
      BY <1>1, <1>2, <2>1, <3>1, <3>2 DEF TypeInv
  <2>7. TablesAgree'
    <3>1. tables["lua"] = tables["quickjs"]
      BY <1>1, <1>2 DEF TablesAgree
    <3>2. tables'["lua"] = tables'["quickjs"]
      BY <2>1, <2>5, <3>1
    <3> QED
      BY <1>1, <1>2, <3>2 DEF TablesAgree, Alike
  <2>8. FileAgrees'
    <3> DEFINE G == Graph(tables["lua"]["wrk"])
    <3>1. Laid \in Seq(Header) /\ SplitHeaders(given) \in Seq(Header) /\ file \in Seq(Header)
      BY <1>1, LaidFacts
    <3>2. Laid' = Replace(Laid, header)
      <4>1. Overlay(SplitHeaders(given), Append(file, header)) = Replace(Overlay(SplitHeaders(given), file), header)
        BY <2>2, <3>1, OverlaySteps
      <4> QED
        BY <1>2, <2>1, <4>1 DEF Laid
    <3>3. ASSUME NamedOnce(Laid)
          PROVE  NamedOnce(Laid') /\ Range(Laid') = Over(Range(Laid), a, v)
      BY <2>2, <3>1, <3>2, <3>3, ReplaceOnce
    <3>4. Has(Laid', "Host") <=> Has(Laid, "Host") \/ a = "Host"
      BY <2>2, <3>1, <3>2, ReplaceFacts DEF a
    <3>5. Graph(tables'["lua"]["wrk"]) = Over(G, a, v)
      <4>1. tables["lua"]["wrk"] \in Tables
        BY <2>3, <2>5 DEF Places
      <4>2. Graph(Put(tables["lua"]["wrk"], a, v)) = Over(G, a, v)
        BY <2>2, <4>1, PutFacts
      <4> QED
        BY <2>4, <2>5, <4>2
    <3>6. SplitHeaders(given)' = SplitHeaders(given) /\ phase' = phase
      BY <1>2
    <3> DEFINE host == <<"Host", TargetHost>>
               R == Range(Laid)
    <3>7. host[1] = "Host"
      OBVIOUS
    <3>8. /\ a = "Host" => Over(R \union {host}, a, v) = Over(R, a, v)
          /\ a # "Host" => Over(R \union {host}, a, v) = Over(R, a, v) \union {host}
      <4> HIDE DEF host, R
      <4> QED
        BY <3>7 DEF Over, Cut
    <3>9. host' = host
      BY DEF TargetHost, Text
    <3> SUFFICES ASSUME NamedOnce(SplitHeaders(given))
                 PROVE  /\ NamedOnce(Laid')
                        /\ phase = "load" => Graph(tables'["lua"]["wrk"]) = Range(Laid')
                        /\ phase = "init" => Graph(tables'["lua"]["wrk"]) =
                              Range(Laid') \union (IF Has(Laid', "Host") THEN {} ELSE {host})
      BY <1>2, <3>6, <3>9 DEF FileAgrees
    <3>10. /\ NamedOnce(Laid)
           /\ phase = "load" => G = R
           /\ phase = "init" => G = R \union (IF Has(Laid, "Host") THEN {} ELSE {host})
      BY <1>1 DEF FileAgrees
    <3> HIDE DEF G, R, host
    <3>11. CASE Has(Laid, "Host")
      BY <3>3, <3>4, <3>5, <3>10, <3>11 DEF R
    <3>12. CASE ~Has(Laid, "Host")
      <4>1. CASE a = "Host"
        BY <3>3, <3>4, <3>5, <3>8, <3>10, <3>12, <4>1 DEF R
      <4>2. CASE a # "Host"
        BY <3>3, <3>4, <3>5, <3>8, <3>10, <3>12, <4>2 DEF R
      <4> QED
        BY <4>1, <4>2
    <3> QED
      BY <3>11, <3>12
  <2> QED
    BY <1>3, <2>6, <2>7, <2>8 DEF RequestInv
<1> QED
  BY <1>4, <1>5 DEF Shape

\* wrk.init adds the Host of the target exactly when the file's request gets it.
LEMMA SetHostHolds == RequestInv /\ SetHost => RequestInv'
<1> SUFFICES ASSUME RequestInv, SetHost PROVE RequestInv'
  OBVIOUS
<1> DEFINE host == <<"Host", TargetHost>>
           w == tables["lua"]["wrk"]
<1>1. TypeInv /\ TablesAgree /\ FileAgrees /\ CachedAgrees /\ BatchesAgree
  BY DEF RequestInv
<1>2. /\ phase = "load" /\ phase' = "init"
      /\ UNCHANGED <<dynamic, given, file, line, body, cached, batch>>
      /\ tables' = [e \in Engines |->
                     IF "Host" \in DOMAIN tables[e].wrk THEN tables[e]
                     ELSE [tables[e] EXCEPT !.wrk = Put(@, "Host", TargetHost)]]
  BY DEF SetHost
<1>3. CachedAgrees' /\ BatchesAgree'
  BY <1>1, <1>2 DEF CachedAgrees, BatchesAgree
<1>4. tables \in [Engines -> [Places -> Tables]] /\ tables["lua"] = tables["quickjs"]
  BY <1>1, <1>2 DEF TypeInv, TablesAgree
<1>5. TargetHost \in Values /\ TargetHost \in Worth /\ "Host" \in Names
  BY HeaderFacts DEF Worth
<1>6. ASSUME NEW e \in Engines
      PROVE  /\ tables'[e] \in [Places -> Tables]
             /\ tables'[e]["wrk"] = IF "Host" \in DOMAIN tables[e]["wrk"] THEN tables[e]["wrk"]
                                    ELSE Put(tables[e]["wrk"], "Host", TargetHost)
  <2> DEFINE t == tables[e]
             u == t["wrk"]
             p == Put(u, "Host", TargetHost)
  <2>1. t \in [Places -> Tables] /\ u \in Tables
    BY <1>4 DEF Places
  <2>2. tables'[e] = IF "Host" \in DOMAIN u THEN t ELSE [t EXCEPT !["wrk"] = p]
    BY <1>2
  <2> HIDE DEF u, t
  <2>3. p \in Tables
    BY <1>5, <2>1, PutFacts
  <2> HIDE DEF p
  <2>4. [t EXCEPT !["wrk"] = p] \in [Places -> Tables] /\ [t EXCEPT !["wrk"] = p]["wrk"] = p
    BY <2>1, <2>3 DEF Places
  <2> QED
    BY <2>1, <2>2, <2>4 DEF u, t, p
<1>7. "lua" \in Engines /\ "quickjs" \in Engines
  BY DEF Engines
<1>8. TypeInv'
  <2>1. tables' \in [Engines -> [Places -> Tables]]
    <3>1. tables' = [e \in Engines |-> tables'[e]]
      BY <1>2
    <3> QED
      BY <1>6, <3>1
  <2> QED
    BY <1>1, <1>2, <2>1 DEF TypeInv
<1>9. TablesAgree'
  <2>1. tables'["lua"] = tables'["quickjs"]
    BY <1>2, <1>4, <1>7
  <2>2. cached' = Absent /\ batch' = [e \in Engines |-> <<>>]
    BY <1>1, <1>2 DEF TablesAgree
  <2> QED
    BY <2>1, <2>2 DEF TablesAgree, Alike
<1>10. FileAgrees'
  <2>1. Laid' = Laid /\ SplitHeaders(given)' = SplitHeaders(given) /\ TargetHost' = TargetHost
    BY <1>2 DEF Laid, TargetHost, Text
  <2> SUFFICES ASSUME NamedOnce(SplitHeaders(given))
               PROVE  /\ NamedOnce(Laid)
                      /\ Graph(tables'["lua"]["wrk"]) =
                            Range(Laid) \union (IF Has(Laid, "Host") THEN {} ELSE {host})
    BY <1>2, <2>1 DEF FileAgrees
  <2>2. NamedOnce(Laid) /\ Graph(w) = Range(Laid)
    BY <1>1, <1>2 DEF FileAgrees
  <2>3. w \in Tables
    BY <1>4, <1>7 DEF Places
  <2>4. Has(Laid, "Host") <=> \E h \in Range(Laid) : h[1] = "Host"
    BY DEF Has, Range
  <2> HIDE DEF w
  <2>5. (\E h \in Graph(w) : h[1] = "Host") <=> "Host" \in DOMAIN w
    <3>1. ASSUME NEW n \in DOMAIN w PROVE <<n, w[n]>> \in Graph(w) /\ <<n, w[n]>>[1] = n
      BY DEF Graph
    <3>2. ASSUME NEW h \in Graph(w) PROVE h[1] \in DOMAIN w
      BY DEF Graph
    <3> QED
      BY <3>1, <3>2
  <2>6. Has(Laid, "Host") <=> "Host" \in DOMAIN w
    BY <2>2, <2>4, <2>5
  <2>7. tables'["lua"]["wrk"] = IF "Host" \in DOMAIN w THEN w ELSE Put(w, "Host", TargetHost)
    BY <1>6, <1>7 DEF w
  <2>8. CASE "Host" \in DOMAIN w
    BY <2>2, <2>6, <2>7, <2>8
  <2>9. CASE "Host" \notin DOMAIN w
    <3>1. Graph(Put(w, "Host", TargetHost)) = Over(Graph(w), "Host", TargetHost)
      BY <1>5, <2>3, PutFacts
    <3>2. Cut(Graph(w), "Host") = Graph(w)
      BY <2>5, <2>9 DEF Cut
    <3> QED
      BY <2>2, <2>6, <2>7, <2>9, <3>1, <3>2 DEF Over
  <2> QED
    BY <2>8, <2>9
<1> QED
  BY <1>3, <1>8, <1>9, <1>10 DEF RequestInv

LEMMA HostedSelf == ASSUME NEW t PROVE Hosted(t, t) = t
  BY DEF Hosted

\* The Lua engine makes its request: what the file says, and what QuickJS will make.
LEMMA EndInitHolds == RequestInv /\ EndInit => RequestInv'
<1> SUFFICES ASSUME RequestInv, EndInit PROVE RequestInv'
  OBVIOUS
<1> DEFINE w == tables["lua"]["wrk"]
           G == Graph(w)
           made == LuaFormat(w, w, body)
<1>1. TypeInv /\ TablesAgree /\ FileAgrees /\ BatchesAgree
  BY DEF RequestInv
<1>2. /\ phase = "init" /\ phase' = "run"
      /\ cached' = made.message
      /\ tables' = [tables EXCEPT !["lua"].wrk = made.table]
      /\ UNCHANGED <<dynamic, given, file, line, body, batch>>
  BY DEF EndInit
<1>3. /\ tables \in [Engines -> [Places -> Tables]] /\ tables["lua"] = tables["quickjs"]
      /\ line \in {"sound", "odd", "broken"} /\ body \in Contents
  BY <1>1, <1>2 DEF TypeInv, TablesAgree
<1>4. "lua" \in Engines /\ "quickjs" \in Engines /\ "lua" # "quickjs" /\ w \in Tables
  BY <1>3 DEF Engines, Places
<1> HIDE DEF w
<1>5. /\ made.message \in Message
      /\ Says(made.message) = Saying(Frame(G, body), body)
  BY <1>3, <1>4, LuaMessage, HostedSelf
<1>6. made.table \in Tables /\ Graph(made.table) = Frame(G, body)
  BY <1>3, <1>4, TablesMade, ToldFacts, HostedSelf, ZenonT(60)
<1> HIDE DEF made
<1>7. /\ tables' \in [Engines -> [Places -> Tables]]
      /\ tables'["lua"]["wrk"] = made.table
      /\ tables'["lua"]["mine"] = tables["lua"]["mine"]
      /\ tables'["quickjs"] = tables["quickjs"]
  <2> DEFINE t == tables["lua"]
             m == made.table
             u == [t EXCEPT !["wrk"] = m]
  <2>1. tables' = [tables EXCEPT !["lua"] = u]
    BY <1>2
  <2>2. t \in [Places -> Tables]
    BY <1>3, <1>4
  <2> HIDE DEF t, m
  <2>3. u \in [Places -> Tables] /\ u["wrk"] = m /\ u["mine"] = t["mine"]
    BY <1>6, <2>2 DEF Places, m
  <2> HIDE DEF u
  <2> QED
    BY <1>3, <1>4, <2>1, <2>3 DEF m, t
<1>8. TypeInv'
  BY <1>1, <1>2, <1>5, <1>7 DEF TypeInv
<1>9. TablesAgree'
  <2>1. Alike(made.table, w)
    BY <1>6, FrameCut DEF Alike
  <2>2. Alike(tables'["lua"]["wrk"], tables'["quickjs"]["wrk"])
    BY <1>3, <1>7, <2>1 DEF w
  <2>3. Alike(tables'["lua"]["mine"], tables'["quickjs"]["mine"])
    BY <1>3, <1>7 DEF Alike
  <2> QED
    BY <1>2, <2>2, <2>3 DEF TablesAgree, Places
<1>10. CachedAgrees'
  <2>1. Saying(Frame(G, body), body)' = Saying(Frame(G', body), body)
    BY <1>2 DEF Saying, Sent
  <2>2. tables'["quickjs"]["wrk"] = w
    BY <1>3, <1>7 DEF w
  <2>3. Saying(Frame(Graph(tables["quickjs"]["wrk"]), body), body)' = Saying(Frame(G, body), body)
    BY <1>2, <2>2 DEF Saying
  <2> QED
    BY <1>2, <1>5, <2>3 DEF CachedAgrees
<1>11. FileAgrees'
  <2>1. Laid' = Laid /\ SplitHeaders(given)' = SplitHeaders(given) /\ ConfigRequest' = ConfigRequest
    BY <1>2 DEF Laid, ConfigRequest, TargetHost, Text
  <2> SUFFICES ASSUME NamedOnce(SplitHeaders(given))
               PROVE  NamedOnce(Laid) /\ Says(made.message) = Says(ConfigRequest)
    BY <1>2, <2>1 DEF FileAgrees
  <2>2. /\ NamedOnce(Laid)
        /\ G = Range(Laid) \union (IF Has(Laid, "Host") THEN {} ELSE {<<"Host", TargetHost>>})
    BY <1>1, <1>2 DEF FileAgrees, w
  <2>3. Says(ConfigRequest) = Saying(Frame(G, body), body)
    BY <1>1, <2>2, ConfigFacts
  <2> QED
    BY <1>5, <2>2, <2>3
<1>12. BatchesAgree'
  BY <1>1, <1>2 DEF BatchesAgree
<1> QED
  BY <1>8, <1>9, <1>10, <1>11, <1>12 DEF RequestInv

\* QuickJS makes the request that the Lua engine has kept.
LEMMA RequestHolds == RequestInv /\ Request => RequestInv'
<1> SUFFICES ASSUME RequestInv, Request PROVE RequestInv'
  OBVIOUS
<1> DEFINE w == tables["quickjs"]["wrk"]
           made == JsFormat(w, w, body)
<1>1. TypeInv /\ TablesAgree /\ FileAgrees /\ CachedAgrees
  BY DEF RequestInv
<1>2. /\ phase = "run" /\ ~dynamic /\ batch["quickjs"] = <<>>
      /\ batch' = [lua |-> <<cached>>, quickjs |-> <<made.message>>]
      /\ tables' = [tables EXCEPT !["quickjs"].wrk = made.table]
      /\ UNCHANGED <<phase, dynamic, given, file, line, body, cached>>
  BY DEF Request
<1>3. /\ tables \in [Engines -> [Places -> Tables]] /\ cached \in Message
      /\ line \in {"sound", "odd", "broken"} /\ body \in Contents
      /\ Says(cached) = Saying(Frame(Graph(w), body), body)
      /\ \A p \in Places : Alike(tables["lua"][p], tables["quickjs"][p])
  BY <1>1, <1>2 DEF TypeInv, CachedAgrees, TablesAgree
<1>4. "lua" \in Engines /\ "quickjs" \in Engines /\ "lua" # "quickjs" /\ w \in Tables
  BY <1>3 DEF Engines, Places
<1> HIDE DEF w
<1>5. made.message \in Message /\ Says(made.message) = Says(cached)
  BY <1>3, <1>4, JsMessage, HostedSelf
<1>6. made.table \in Tables /\ Graph(made.table) = Frame(Graph(w), body)
  BY <1>3, <1>4, TablesMade, ToldFacts, HostedSelf, ZenonT(60)
<1> HIDE DEF made
<1>7. /\ tables' \in [Engines -> [Places -> Tables]]
      /\ tables'["quickjs"]["wrk"] = made.table
      /\ tables'["quickjs"]["mine"] = tables["quickjs"]["mine"]
      /\ tables'["lua"] = tables["lua"]
  <2> DEFINE t == tables["quickjs"]
             m == made.table
             u == [t EXCEPT !["wrk"] = m]
  <2>1. tables' = [tables EXCEPT !["quickjs"] = u]
    BY <1>2
  <2>2. t \in [Places -> Tables]
    BY <1>3, <1>4
  <2> HIDE DEF t, m
  <2>3. u \in [Places -> Tables] /\ u["wrk"] = m /\ u["mine"] = t["mine"]
    BY <1>6, <2>2 DEF Places, m
  <2> HIDE DEF u
  <2> QED
    BY <1>3, <1>4, <2>1, <2>3 DEF m, t
<1>8. /\ batch' \in [Engines -> Seq(Message)]
      /\ batch'["lua"] = <<cached>> /\ batch'["quickjs"] = <<made.message>>
  <2> DEFINE m == made.message
  <2>1. m \in Message /\ batch' = [lua |-> <<cached>>, quickjs |-> <<m>>]
    BY <1>2, <1>5
  <2> HIDE DEF m
  <2>2. <<cached>> \in Seq(Message) /\ <<m>> \in Seq(Message)
    BY <1>3, <2>1
  <2> DEFINE a == <<cached>>
             b == <<m>>
  <2> HIDE DEF a, b
  <2>3. [lua |-> a, quickjs |-> b] = [e \in Engines |-> IF e = "lua" THEN a ELSE b]
    BY DEF Engines
  <2>4. batch' = [e \in Engines |-> IF e = "lua" THEN a ELSE b]
    BY <2>1, <2>3 DEF a, b
  <2>5. a \in Seq(Message) /\ b \in Seq(Message)
    BY <2>2 DEF a, b
  <2>6. batch' \in [Engines -> Seq(Message)] /\ batch'["lua"] = a /\ batch'["quickjs"] = b
    BY <1>4, <2>4, <2>5
  <2> QED
    BY <2>6 DEF a, b, m
<1>9. TypeInv'
  BY <1>1, <1>2, <1>7, <1>8 DEF TypeInv
<1>10. TablesAgree'
  <2>1. Alike(tables["lua"]["wrk"], w) /\ Alike(tables["lua"]["mine"], tables["quickjs"]["mine"])
    BY <1>3 DEF Places, w
  <2>2. Alike(tables["lua"]["wrk"], made.table)
    BY <1>6, <2>1, FrameCut DEF Alike
  <2>3. Alike(tables'["lua"]["wrk"], tables'["quickjs"]["wrk"])
    BY <1>7, <2>2
  <2>4. Alike(tables'["lua"]["mine"], tables'["quickjs"]["mine"])
    BY <1>7, <2>1
  <2> QED
    BY <1>2, <2>3, <2>4 DEF TablesAgree, Places
<1>11. FileAgrees'
  <2>1. Laid' = Laid /\ SplitHeaders(given)' = SplitHeaders(given) /\ ConfigRequest' = ConfigRequest
    BY <1>2 DEF Laid, ConfigRequest, TargetHost, Text
  <2> QED
    BY <1>1, <1>2, <2>1 DEF FileAgrees
<1>12. CachedAgrees'
  <2>1. batch'["quickjs"] # <<>>
    BY <1>8
  <2> QED
    BY <1>2, <1>3, <2>1 DEF CachedAgrees
<1>13. BatchesAgree'
  BY <1>5, <1>8 DEF BatchesAgree
<1> QED
  BY <1>9, <1>10, <1>11, <1>12, <1>13 DEF RequestInv

\* A table set at a name is in both engines what it was, but for that header.
LEMMA FormatHolds == RequestInv /\ Format => RequestInv'
<1> SUFFICES ASSUME RequestInv, Format PROVE RequestInv'
  OBVIOUS
<1>1. TypeInv /\ TablesAgree /\ FileAgrees /\ CachedAgrees /\ BatchesAgree
  BY DEF RequestInv
<1> DEFINE changed(e, name, header) ==
             IF header = Absent THEN tables[e]
             ELSE [tables[e] EXCEPT ![name] = Put(@, header[1], header[2])]
           made(name, header, content) ==
             LET x == changed("lua", name, header)
                 y == changed("quickjs", name, header)
                 lua == LuaFormat(x[name], x["wrk"], content)
                 js == JsFormat(y[name], y["wrk"], content)
             IN  /\ batch' = [lua |-> Append(batch["lua"], lua.message),
                              quickjs |-> Append(batch["quickjs"], js.message)]
                 /\ tables' = [tables EXCEPT !["lua"][name] = lua.table,
                                             !["quickjs"][name] = js.table]
<1>2. /\ phase = "run" /\ dynamic
      /\ UNCHANGED <<phase, dynamic, given, file, line, body, cached>>
      /\ \E name \in Places, header \in Reassigned \union {Absent}, content \in Bodies \union {body} :
           made(name, header, content)
  BY Zenon DEF Format, Places
<1> HIDE DEF made
<1>3. PICK name \in Places, header \in Reassigned \union {Absent}, content \in Bodies \union {body} :
         made(name, header, content)
  BY <1>2, Zenon
<1> DEFINE x == changed("lua", name, header)
           y == changed("quickjs", name, header)
           lua == LuaFormat(x[name], x["wrk"], content)
           js == JsFormat(y[name], y["wrk"], content)
<1>4. /\ batch' = [lua |-> Append(batch["lua"], lua.message),
                   quickjs |-> Append(batch["quickjs"], js.message)]
      /\ tables' = [tables EXCEPT !["lua"][name] = lua.table, !["quickjs"][name] = js.table]
  BY <1>3, Zenon DEF made
<1>5. /\ tables \in [Engines -> [Places -> Tables]] /\ batch \in [Engines -> Seq(Message)]
      /\ line \in {"sound", "odd", "broken"} /\ content \in Contents /\ cached \in Message
      /\ \A p \in Places : Alike(tables["lua"][p], tables["quickjs"][p])
  BY <1>1, <1>2 DEF TypeInv, CachedAgrees, TablesAgree, Contents
<1>6. "lua" \in Engines /\ "quickjs" \in Engines /\ "lua" # "quickjs" /\ "wrk" \in Places
  BY DEF Engines, Places
<1>7. ASSUME NEW e \in Engines
      PROVE  /\ changed(e, name, header) \in [Places -> Tables]
             /\ \A p \in Places : p # name => changed(e, name, header)[p] = tables[e][p]
             /\ header # Absent =>
                  changed(e, name, header)[name] = Put(tables[e][name], header[1], header[2])
             /\ header = Absent => changed(e, name, header) = tables[e]
  <2> DEFINE t == tables[e]
             p == Put(t[name], header[1], header[2])
  <2>1. t \in [Places -> Tables] /\ t[name] \in Tables
    BY <1>5
  <2>2. changed(e, name, header) = IF header = Absent THEN t ELSE [t EXCEPT ![name] = p]
    OBVIOUS
  <2> HIDE DEF t, changed
  <2>3. CASE header = Absent
    BY <2>1, <2>2, <2>3 DEF t
  <2>4. CASE header # Absent
    <3>1. header[1] \in Names /\ header[2] \in Values /\ header[2] \in Worth
      <4>1. header \in Names \X Values
        BY <2>4, HeaderFacts
      <4> QED
        BY <4>1 DEF Worth
    <3>2. p \in Tables
      BY <2>1, <3>1, PutFacts
    <3>3. changed(e, name, header) = [t EXCEPT ![name] = p]
      BY <2>2, <2>4
    <3>4. p = Put(tables[e][name], header[1], header[2])
      BY DEF t
    <3> HIDE DEF p
    <3> QED
      BY <2>1, <2>4, <3>2, <3>3, <3>4 DEF t
  <2> QED
    BY <2>3, <2>4
<1>8. x \in [Places -> Tables] /\ y \in [Places -> Tables] /\ \A p \in Places : Alike(x[p], y[p])
  <2>1. x \in [Places -> Tables] /\ y \in [Places -> Tables]
    BY <1>6, <1>7
  <2>2. ASSUME NEW p \in Places, p # name PROVE Alike(x[p], y[p])
    <3>1. x[p] = tables["lua"][p] /\ y[p] = tables["quickjs"][p]
      BY <1>6, <1>7, <2>2
    <3> HIDE DEF x, y
    <3> QED
      BY <1>5, <3>1
  <2>3. Alike(x[name], y[name])
    <3> DEFINE t == tables["lua"][name]
               u == tables["quickjs"][name]
    <3>1. t \in Tables /\ u \in Tables /\ Alike(t, u)
      BY <1>5, <1>6
    <3>2. CASE header = Absent
      <4>1. x[name] = t /\ y[name] = u
        BY <1>6, <1>7, <3>2
      <4> HIDE DEF x, y, t, u
      <4> QED
        BY <3>1, <4>1
    <3>3. CASE header # Absent
      <4>1. x[name] = Put(t, header[1], header[2]) /\ y[name] = Put(u, header[1], header[2])
        BY <1>6, <1>7, <3>3
      <4>2. header[1] \in Names /\ header[2] \in Values
        <5>1. header \in Names \X Values
          BY <3>3, HeaderFacts
        <5> QED
          BY <5>1
      <4> DEFINE n == header[1]
                 v == header[2]
      <4> HIDE DEF x, y, t, u, n, v
      <4>3. n \in Names /\ v \in Values
        BY <4>2 DEF n, v
      <4>4. Alike(Put(t, n, v), Put(u, n, v))
        BY <3>1, <4>3, AlikePut
      <4> QED
        BY <4>1, <4>4 DEF n, v
    <3> QED
      BY <3>2, <3>3
  <2> HIDE DEF x, y
  <2> QED
    BY <2>1, <2>2, <2>3
<1>9. ASSUME NEW p \in Places, p # name
      PROVE  x[p] = tables["lua"][p] /\ y[p] = tables["quickjs"][p]
  BY <1>6, <1>7, <1>9
<1> HIDE DEF changed, x, y
<1>10. /\ x[name] \in Tables /\ y[name] \in Tables /\ Alike(x[name], y[name])
       /\ x["wrk"] \in Tables /\ y["wrk"] \in Tables /\ Alike(x["wrk"], y["wrk"])
  BY <1>6, <1>8
<1>11. Says(lua.message) = Says(js.message) /\ Alike(lua.table, js.table)
  BY <1>5, <1>10, FormatsAgree
<1>12. lua.message \in Message /\ js.message \in Message
  BY <1>5, <1>10, LuaMessage, JsMessage
<1>13. lua.table \in Tables /\ js.table \in Tables
  <2> DEFINE a == x[name]
             b == x["wrk"]
             c == y[name]
             d == y["wrk"]
  <2>1. a \in Tables /\ b \in Tables /\ c \in Tables /\ d \in Tables /\ content \in Contents
    BY <1>5, <1>10
  <2> HIDE DEF a, b, c, d
  <2>2. Told(a, b, content) \in Tables /\ Told(c, d, content) \in Tables
    BY <2>1, ToldFacts
  <2>3. LuaFormat(a, b, content).table = Told(a, b, content)
    BY <2>1, TablesMade
  <2>4. JsFormat(c, d, content).table = Told(c, d, content)
    BY <2>1, TablesMade
  <2> QED
    BY <2>2, <2>3, <2>4 DEF a, b, c, d
<1> HIDE DEF lua, js
<1>14. /\ tables' \in [Engines -> [Places -> Tables]]
       /\ tables'["lua"][name] = lua.table /\ tables'["quickjs"][name] = js.table
       /\ \A p \in Places, e \in Engines : p # name => tables'[e][p] = tables[e][p]
  <2> DEFINE a == lua.table
             b == js.table
             t == tables["lua"]
             u == tables["quickjs"]
             v == [t EXCEPT ![name] = a]
             w == [u EXCEPT ![name] = b]
  <2>1. a \in Tables /\ b \in Tables /\ t \in [Places -> Tables] /\ u \in [Places -> Tables]
    BY <1>5, <1>6, <1>13
  <2>2. tables' = [tables EXCEPT !["lua"][name] = a, !["quickjs"][name] = b]
    BY <1>4
  <2>3. tables' = [e \in Engines |-> IF e = "lua" THEN v ELSE w]
    BY <1>5, <1>6, <2>2 DEF Engines
  <2>4. t = tables["lua"] /\ u = tables["quickjs"]
    OBVIOUS
  <2> HIDE DEF a, b, t, u
  <2>5. /\ v \in [Places -> Tables] /\ v[name] = a /\ \A p \in Places : p # name => v[p] = t[p]
        /\ w \in [Places -> Tables] /\ w[name] = b /\ \A p \in Places : p # name => w[p] = u[p]
    BY <2>1
  <2> HIDE DEF v, w
  <2>6. tables'["lua"] = v /\ tables'["quickjs"] = w /\ tables' \in [Engines -> [Places -> Tables]]
    BY <1>6, <2>3, <2>5
  <2>7. \A e \in Engines : e = "lua" \/ e = "quickjs"
    BY DEF Engines
  <2> QED
    BY <2>4, <2>5, <2>6, <2>7 DEF a, b
<1>15. /\ batch' \in [Engines -> Seq(Message)]
       /\ batch'["lua"] = Append(batch["lua"], lua.message)
       /\ batch'["quickjs"] = Append(batch["quickjs"], js.message)
  <2> DEFINE r == batch["lua"]
             s == batch["quickjs"]
             m == lua.message
             k == js.message
             a == Append(r, m)
             b == Append(s, k)
  <2>1. r \in Seq(Message) /\ s \in Seq(Message) /\ m \in Message /\ k \in Message
    BY <1>5, <1>6, <1>12
  <2>2. batch' = [lua |-> a, quickjs |-> b]
    BY <1>4
  <2> HIDE DEF r, s, m, k
  <2>3. a \in Seq(Message) /\ b \in Seq(Message)
    BY <2>1, AppendFacts
  <2> HIDE DEF a, b
  <2>4. [lua |-> a, quickjs |-> b] = [e \in Engines |-> IF e = "lua" THEN a ELSE b]
    BY DEF Engines
  <2>5. batch' = [e \in Engines |-> IF e = "lua" THEN a ELSE b]
    BY <2>2, <2>4
  <2>6. batch' \in [Engines -> Seq(Message)] /\ batch'["lua"] = a /\ batch'["quickjs"] = b
    BY <1>6, <2>3, <2>5
  <2> QED
    BY <2>6 DEF a, b, r, s, m, k
<1>16. TypeInv'
  BY <1>1, <1>2, <1>14, <1>15 DEF TypeInv
<1>17. TablesAgree'
  <2>1. ASSUME NEW p \in Places PROVE Alike(tables'["lua"][p], tables'["quickjs"][p])
    <3>1. CASE p = name
      BY <1>11, <1>14, <3>1
    <3>2. CASE p # name
      BY <1>5, <1>6, <1>14, <3>2
    <3> QED
      BY <3>1, <3>2
  <2> QED
    BY <1>2, <2>1 DEF TablesAgree
<1>18. FileAgrees'
  <2>1. Laid' = Laid /\ SplitHeaders(given)' = SplitHeaders(given) /\ ConfigRequest' = ConfigRequest
    BY <1>2 DEF Laid, ConfigRequest, TargetHost, Text
  <2> QED
    BY <1>1, <1>2, <2>1 DEF FileAgrees
<1>19. CachedAgrees'
  BY <1>2, <1>5 DEF CachedAgrees
<1>20. BatchesAgree'
  <2> DEFINE r == batch["lua"]
             s == batch["quickjs"]
             m == lua.message
             k == js.message
  <2>1. /\ r \in Seq(Message) /\ s \in Seq(Message) /\ m \in Message /\ k \in Message
        /\ Says(m) = Says(k) /\ batch'["lua"] = Append(r, m) /\ batch'["quickjs"] = Append(s, k)
    BY <1>5, <1>6, <1>11, <1>12, <1>15
  <2>2. Len(r) = Len(s) /\ \A i \in 1 .. Len(r) : Says(r[i]) = Says(s[i])
    BY <1>1 DEF BatchesAgree
  <2> HIDE DEF r, s, m, k
  <2> DEFINE a == Append(r, m)
             b == Append(s, k)
             n == Len(r)
  <2>3. n \in Nat /\ Len(a) = n + 1 /\ a[n + 1] = m /\ \A i \in 1 .. n : a[i] = r[i]
    BY <2>1, AppendFacts
  <2>4. Len(b) = n + 1 /\ b[n + 1] = k /\ \A i \in 1 .. n : b[i] = s[i]
    BY <2>1, <2>2, AppendFacts
  <2> HIDE DEF a, b, n
  <2>5. \A i \in 1 .. n + 1 : i \in 1 .. n \/ i = n + 1
    BY <2>3
  <2>6. \A i \in 1 .. n : Says(r[i]) = Says(s[i])
    BY <2>2 DEF n
  <2>7. \A i \in 1 .. n + 1 : Says(a[i]) = Says(b[i])
    BY <2>1, <2>3, <2>4, <2>5, <2>6
  <2>8. batch'["lua"] = a /\ batch'["quickjs"] = b
    BY <2>1 DEF a, b
  <2> QED
    BY <2>3, <2>4, <2>7, <2>8 DEF BatchesAgree
<1> QED
  BY <1>16, <1>17, <1>18, <1>19, <1>20 DEF RequestInv

LEMMA NextHolds == RequestInv /\ [Next]_vars => RequestInv'
<1>1. RequestInv /\ UNCHANGED vars => RequestInv'
  <2> SUFFICES ASSUME RequestInv, UNCHANGED vars PROVE RequestInv'
    OBVIOUS
  <2>1. UNCHANGED <<phase, dynamic, given, file, line, body, tables, cached, batch>>
    BY DEF vars
  <2>2. TypeInv' /\ TablesAgree' /\ BatchesAgree'
    BY <2>1 DEF RequestInv, TypeInv, TablesAgree, BatchesAgree
  <2>3. Laid' = Laid /\ SplitHeaders(given)' = SplitHeaders(given) /\ ConfigRequest' = ConfigRequest
    BY <2>1 DEF Laid, ConfigRequest, TargetHost, Text
  <2>4. FileAgrees' /\ CachedAgrees'
    BY <2>1, <2>3 DEF RequestInv, FileAgrees, CachedAgrees, Saying, Sent, TargetHost
  <2> QED
    BY <2>2, <2>4 DEF RequestInv
<1> QED
  BY <1>1, ShapeHolds, SetHostHolds, EndInitHolds, RequestHolds, FormatHolds DEF Next

LEMMA AlwaysRequestInv == Spec => []RequestInv
BY InitHolds, NextHolds, PTL DEF Spec

-----------------------------------------------------------------------------
(* What the invariant says of the counts. *)

\* The headers of the options have their values.
LEMMA SplitValues ==
  ASSUME NEW g \in GivenHeaders
  PROVE  \A h \in Range(SplitHeaders(g)) : \E i \in DOMAIN g : h[2] = g[i].value
<1> DEFINE s == [i \in DOMAIN g |-> <<g[i].name, g[i].value>>]
           places == {i \in DOMAIN g : g[i].separator = ": "}
           H == {<<g[i].name, g[i].value>> : i \in DOMAIN g}
<1>1. DOMAIN g = 1 .. Len(g) /\ Len(g) \in Nat
  <2> DEFINE Options == [name : Names, separator : {": ", ":"}, value : Values]
  <2>1. g \in Seq(Options)
    BY RequestOK, Zenon
  <2> HIDE DEF Options
  <2> QED
    BY <2>1
<1>2. s \in [1 .. Len(g) -> H]
  BY <1>1
<1>3. \A i \in places : i \in DOMAIN g /\ s[i] = <<g[i].name, g[i].value>>
  OBVIOUS
<1>4. places \in SUBSET (1 .. Len(g))
  BY <1>1
<1> HIDE DEF s, H, places
<1>5. s \in Seq(H) /\ Len(s) = Len(g)
  BY <1>1, <1>2, FunctionSeq
<1>6. Range(Kept(s, places)) = {s[i] : i \in places}
  BY <1>4, <1>5, KeptFacts
<1>7. SplitHeaders(g) = Kept(s, places)
  BY DEF SplitHeaders, s, places
<1> QED
  BY <1>3, <1>6, <1>7

\* A value is a byte that no header may have, or a text or a number.
LEMMA NoControl ==
  ASSUME NEW n
  PROVE  Number(n) # Control /\ TargetHost # Control
<1>1. Number(n)[1] = "number" /\ TargetHost[1] = "text" /\ Control[1] = "control"
  BY DEF Number, TargetHost, Text, Control
<1> QED
  BY <1>1

\* A file that passes validate() is a request that parses, if its tokens do.
LEMMA ConfigParses ==
  ASSUME TypeInv, Valid, \A i \in DOMAIN given : given[i].value # Control
  PROVE  Parses(ConfigRequest) <=> Acceptable(ConfigRequest)
<1>1. line \in {"sound", "odd"} /\ \A i \in DOMAIN file : file[i][2] # Control
  BY DEF Valid, TypeInv
<1>2. \A h \in Range(file) : h[2] # Control
  BY <1>1 DEF Range
<1>3. \A h \in Range(SplitHeaders(given)) : h[2] # Control
  BY SplitValues DEF TypeInv
<1> DEFINE x == <<"Host", TargetHost>>
           y == <<"Content-Length", Number(Len(Sent(body)))>>
           h == ConfigRequest.headers
<1>4. x[2] # Control /\ y[2] # Control
  BY NoControl
<1>5. Range(h) \subseteq Range(Laid) \union {x, y} /\ ConfigRequest.line = line
  BY ConfigFacts
<1>6. Range(Laid) \subseteq Range(SplitHeaders(given)) \union Range(file)
  BY LaidFacts
<1> HIDE DEF x, y, h
<1>7. \A g \in Range(h) : g[2] # Control
  BY <1>2, <1>3, <1>4, <1>5, <1>6
<1>8. \A i \in DOMAIN h : h[i] \in Range(h)
  BY DEF Range
<1>9. \A i \in DOMAIN h : h[i][2] # Control
  BY <1>7, <1>8
<1> QED
  BY <1>1, <1>5, <1>9 DEF Parses, Acceptable, h

LEMMA CountsHold == TypeInv => BatchCounted
<1> SUFFICES ASSUME TypeInv PROVE BatchCounted
  OBVIOUS
<1>1. ASSUME NEW e \in Engines, batch[e] # <<>>, Framed(batch[e]), Sound(batch[e])
      PROVE  VerifyRequest(Stream(batch[e])) = Len(batch[e])
  <2> DEFINE b == batch[e]
  <2>1. b \in Seq(Message)
    BY DEF TypeInv
  <2> HIDE DEF b
  <2>2. b # <<>> /\ Framed(b) /\ Sound(b) => VerifyRequest(Stream(b)) = Len(b)
    BY <2>1, MessagesCounted
  <2> QED
    BY <1>1, <2>2 DEF b
<1>2. ASSUME Valid, \A i \in DOMAIN given : given[i].value # Control, Framed(<<ConfigRequest>>)
      PROVE  VerifyRequest(Stream(<<ConfigRequest>>)) =
               IF Acceptable(ConfigRequest) THEN 1 ELSE Malformed
  <2> DEFINE m == ConfigRequest
             b == <<m>>
  <2>1. m \in Message /\ (Parses(m) <=> Acceptable(m))
    BY <1>2, ConfigFacts, ConfigParses
  <2> HIDE DEF m
  <2>2. b \in Seq(Message) /\ b # <<>> /\ Len(b) = 1 /\ DOMAIN b = {1} /\ b[1] = m
    BY <2>1
  <2>3. Framed(b)
    BY <1>2 DEF m
  <2>4. ~Parses(m) => VerifyRequest(Stream(b)) = Malformed
    BY <2>1, <2>3, MalformedCounted
  <2> HIDE DEF b
  <2>5. ASSUME Parses(m) PROVE VerifyRequest(Stream(b)) = 1
    <3>1. Sound(b)
      BY <2>2, <2>5 DEF Sound
    <3>2. VerifyRequest(Stream(b)) = Len(b)
      BY <2>2, <2>3, <3>1, MessagesCounted
    <3> QED
      BY <2>2, <3>2
  <2> QED
    BY <2>1, <2>4, <2>5 DEF b, m
<1> QED
  BY <1>1, <1>2, Zenon DEF BatchCounted

\* However a script changes the lengths in its tables, and whatever its bodies look like,
\* verify_request counts the messages that were formatted.  A data file that passes
\* validate() is one request exactly when httparse takes its method and its names and
\* there are no more headers than frame() has room for; otherwise it is malformed.
THEOREM RequestsCounted == Spec => []BatchCounted
<1>1. RequestInv => BatchCounted
  BY CountsHold DEF RequestInv
<1> QED
  BY <1>1, AlwaysRequestInv, PTL

\* The Lua engine, which formats in init, and QuickJS, which formats when it is asked,
\* send messages that say the same, for scripts of any length; and so does the data file
\* of a script, unless options repeat a name.
THEOREM EnginesSayTheSame == Spec => []EnginesAgree
<1>1. RequestInv => EnginesAgree
  <2> SUFFICES ASSUME RequestInv PROVE EnginesAgree
    OBVIOUS
  <2>1. TypeInv /\ TablesAgree /\ FileAgrees /\ BatchesAgree
    BY DEF RequestInv
  <2> DEFINE b == batch["lua"]
  <2>2. b \in Seq(Message)
    BY <2>1 DEF TypeInv, Engines
  <2>3. DOMAIN b = 1 .. Len(b)
    BY <2>2
  <2>4. /\ Len(b) = Len(batch["quickjs"])
        /\ \A i \in 1 .. Len(b) : Says(b[i]) = Says(batch["quickjs"][i])
    BY <2>1 DEF BatchesAgree
  <2>5. cached # Absent /\ NamedOnce(SplitHeaders(given)) => Says(cached) = Says(ConfigRequest)
    <3>1. cached # Absent => phase = "run"
      BY <2>1 DEF TablesAgree
    <3> QED
      BY <2>1, <3>1 DEF FileAgrees
  <2> QED
    BY <2>3, <2>4, <2>5 DEF EnginesAgree
<1> QED
  BY <1>1, AlwaysRequestInv, PTL
================================================================================
