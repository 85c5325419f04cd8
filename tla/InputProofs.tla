------------------------------- MODULE InputProofs ------------------------------
(***************************************************************************)
(* What a user types: the URL, for every text (Url), and the words of the *)
(* command line (CommandLine), both with every bound.                      *)
(*                                                                         *)
(* The fields that the main machine marks lie in the text and do not       *)
(* overlap, parse_url reads what the grammar reads, and the Host header    *)
(* reads back.  A command line is read as it is spelled out, and a         *)
(* benchmark that starts is the one that was asked for.                    *)
(*                                                                         *)
(* The grammar is first put into positions of the text (UrlAt).  HostWalk  *)
(* and MarkWalk then say what the host machine and the main machine have   *)
(* found when they have got to a position, and that no text has a URL if   *)
(* they have died; every step of a machine keeps them.  The loops of the   *)
(* command line are taken apart the same way: IsTook and Typed say what    *)
(* getopt can return, ReadOption how it reads one such option back, and    *)
(* AsAsked what the settings are behind any number of options.             *)
(***************************************************************************)
EXTENDS Url, CommandLine, NaturalsInduction, WellFoundedInduction, TLAPS

Ranges == [start : Nat, end : Nat]

States == {"SpacesBeforeUrl", "Schema", "SchemaSlash", "SchemaSlashSlash", "ServerStart",
           "Server", "ServerWithAt", "Path", "QueryStart", "Query", "FragmentStart",
           "Fragment", "Dead"}

MarkType ==
    [state : States, schema : Ranges, authority : Ranges, path : Ranges, foundAt : BOOLEAN]

TypeInv == url \in Seq(Char) /\ marks \in MarkType

\* How far behind the scheme the text has got, by the state before the authority.
Separator(st) ==
    IF st = "Schema" THEN 0 ELSE IF st = "SchemaSlash" THEN 1
    ELSE IF st = "SchemaSlashSlash" THEN 2 ELSE 3

InScheme == {"Schema", "SchemaSlash", "SchemaSlashSlash"}

\* Which fields a state can still mark, and that the separator lies behind the scheme.
Progress ==
    /\ marks.state = "SpacesBeforeUrl" => marks.schema = None
    /\ marks.state \in {"SpacesBeforeUrl", "ServerStart"} \union InScheme
         => marks.authority = None
    /\ marks.state \in {"SpacesBeforeUrl"} \union InScheme \union InServer
         => marks.path = None
    /\ marks.state \in InScheme \union InServer
         => marks.schema # None /\ marks.schema.end + Separator(marks.state) <= Len(url)

UrlInv == TypeInv /\ FieldsInside /\ Progress

-----------------------------------------------------------------------------

\* Where a step of the main machine comes from, by where it goes to.
LEMMA StepFrom ==
    ASSUME NEW st \in States, NEW ch
    PROVE  LET to == UrlStep(st, ch)
           IN  /\ to \in States
               /\ to # "SpacesBeforeUrl"
               /\ to = "Schema" => st \in {"SpacesBeforeUrl", "Schema"}
               /\ to = "SchemaSlash" => st = "Schema"
               /\ to = "SchemaSlashSlash" => st = "SchemaSlash"
               /\ to = "ServerStart" => st = "SchemaSlashSlash"
               /\ to \in {"Server", "ServerWithAt"} => st \in InServer
               /\ to = "Path" => st \in {"SpacesBeforeUrl", "Path"} \union InServer
<1> DEFINE open == {m \in UrlMoves : st \in m.from /\ ch \in m.on}
<1>1. CASE open = {}
  BY <1>1 DEF UrlStep, Step, States
<1>2. CASE open # {}
  <2>1. PICK m \in open : UrlStep(st, ch) = m.to
    BY <1>2 DEF UrlStep, Step
  <2>2. m \in UrlMoves /\ st \in m.from
    BY <2>1
  <2>3. /\ m.to \in States
        /\ m.to # "SpacesBeforeUrl"
        /\ m.to = "Schema" => m.from = {"SpacesBeforeUrl", "Schema"}
        /\ m.to = "SchemaSlash" => m.from = {"Schema"}
        /\ m.to = "SchemaSlashSlash" => m.from = {"SchemaSlash"}
        /\ m.to = "ServerStart" => m.from = {"SchemaSlashSlash"}
        /\ m.to \in {"Server", "ServerWithAt"} => m.from \subseteq InServer
        /\ m.to = "Path" => m.from \subseteq {"SpacesBeforeUrl", "Path"} \union InServer
    BY <2>2 DEF UrlMoves, Move, States, InServer, InQuery
  <2> QED
    BY <2>1, <2>2, <2>3
<1> QED
  BY <1>1, <1>2

\* A field that extend() has grown by the character at an index.
Grown(range, index) ==
    [start |-> IF range = None THEN index ELSE range.start, end |-> index + 1]

\* A field that lies in the text before the character at the index reaches the end of
\* the longer text once it has grown, and starts where it did, or at the index.
LEMMA GrownField ==
    ASSUME NEW range \in Ranges, NEW index \in Nat,
           range = None \/ (range.start < range.end /\ range.end <= index)
    PROVE  \E first \in Nat :
             /\ Grown(range, index) = [start |-> first, end |-> index + 1]
             /\ first <= index
             /\ range # None => first = range.start
             /\ range = None => first = index
<1> DEFINE first == IF range = None THEN index ELSE range.start
<1>1. first \in Nat /\ first <= index
  BY DEF Ranges
<1>2. Grown(range, index) = [start |-> first, end |-> index + 1]
  BY DEF Grown
<1> QED
  BY <1>1, <1>2

-----------------------------------------------------------------------------

LEMMA UrlInvInit == UrlInit => UrlInv
BY DEF UrlInit, UrlInv, TypeInv, MarkType, FieldsInside, Progress, Inside, NoMarks, None, Ranges, States,
       InScheme, InServer

\* One round of the loop keeps the invariant.
LEMMA UrlInvStep == UrlInv /\ [UrlNext]_urlVars => UrlInv'
<1> SUFFICES ASSUME UrlInv, [UrlNext]_urlVars PROVE UrlInv'
  OBVIOUS
<1>1. CASE UNCHANGED urlVars
  BY <1>1 DEF UrlInv, TypeInv, MarkType, FieldsInside, Progress, Inside, urlVars
<1>2. ASSUME NEW ch \in Char, Read(ch) PROVE UrlInv'
  <2> DEFINE st == marks.state
             to == UrlStep(st, ch)
             n == Len(url)
  <2>1. /\ st \in States
        /\ n \in Nat
        /\ marks.schema \in Ranges
        /\ marks.authority \in Ranges
        /\ marks.path \in Ranges
        /\ marks.foundAt \in BOOLEAN
        /\ url \in Seq(Char)
    BY DEF UrlInv, TypeInv, MarkType, MarkType
  <2>2. url' \in Seq(Char) /\ Len(url') = n + 1
    BY <1>2, <2>1 DEF Read
  <2>3. marks' = [state |-> to,
                  schema |-> Extend(to = "Schema", n, marks.schema),
                  authority |-> Extend(to \in {"Server", "ServerWithAt"}, n, marks.authority),
                  path |-> Extend(to = "Path", n, marks.path),
                  foundAt |-> marks.foundAt \/ to = "ServerWithAt"]
    BY <1>2 DEF Read, Mark
  <2>4. /\ marks'.state = to
        /\ marks'.schema = IF to = "Schema" THEN Grown(marks.schema, n) ELSE marks.schema
        /\ marks'.authority = IF to \in {"Server", "ServerWithAt"}
                               THEN Grown(marks.authority, n) ELSE marks.authority
        /\ marks'.path = IF to = "Path" THEN Grown(marks.path, n) ELSE marks.path
    BY <2>3 DEF Extend, Grown
  <2>5. /\ to \in States
        /\ to # "SpacesBeforeUrl"
        /\ to = "Schema" => st \in {"SpacesBeforeUrl", "Schema"}
        /\ to = "SchemaSlash" => st = "Schema"
        /\ to = "SchemaSlashSlash" => st = "SchemaSlash"
        /\ to = "ServerStart" => st = "SchemaSlashSlash"
        /\ to \in {"Server", "ServerWithAt"} => st \in InServer
        /\ to = "Path" => st \in {"SpacesBeforeUrl", "Path"} \union InServer
    BY <2>1, StepFrom
  <2>6. /\ Inside(marks.schema, url)
        /\ Inside(marks.authority, url)
        /\ Inside(marks.path, url)
    BY DEF UrlInv, FieldsInside
  <2>7. CASE to = "Schema"
    <3>1. PICK first \in Nat :
            /\ Grown(marks.schema, n) = [start |-> first, end |-> n + 1]
            /\ first <= n
      BY <2>1, <2>6, GrownField DEF Inside
    <3>2. /\ marks'.schema = [start |-> first, end |-> n + 1]
          /\ marks'.authority = marks.authority
          /\ marks'.path = marks.path
      BY <2>4, <2>7, <3>1
    <3>3. marks.authority = None /\ marks.path = None
      BY <2>5, <2>7 DEF UrlInv, Progress, InScheme
    <3> HIDE DEF to, st, n
    <3>4. TypeInv'
      BY <2>1, <2>2, <2>3, <2>4, <2>5, <3>1, <3>2 DEF TypeInv, MarkType, Ranges
    <3>5. FieldsInside'
      BY <2>1, <2>2, <3>1, <3>2, <3>3 DEF FieldsInside, Inside, None
    <3>6. Progress'
      BY <2>1, <2>2, <2>4, <2>7, <3>1, <3>2, <3>3
         DEF Progress, None, Separator, InScheme, InServer
    <3> QED
      BY <3>4, <3>5, <3>6 DEF UrlInv
  <2>8. CASE to \in {"Server", "ServerWithAt"}
    <3>1. PICK first \in Nat :
            /\ Grown(marks.authority, n) = [start |-> first, end |-> n + 1]
            /\ first <= n
            /\ marks.authority # None => first = marks.authority.start
            /\ marks.authority = None => first = n
      BY <2>1, <2>6, GrownField DEF Inside
    <3>2. /\ marks'.schema = marks.schema
          /\ marks'.authority = [start |-> first, end |-> n + 1]
          /\ marks'.path = marks.path
      BY <2>4, <2>8, <3>1
    <3>3. /\ st \in InServer
          /\ marks.path = None
          /\ marks.schema # None
          /\ marks.schema.end + 3 <= n
      BY <2>5, <2>8 DEF UrlInv, Progress, InScheme, InServer, Separator
    <3>4. marks.authority # None => marks.schema.end + 3 <= marks.authority.start
      BY DEF UrlInv, FieldsInside
    <3> HIDE DEF to, st, n
    <3>5. TypeInv'
      BY <2>1, <2>2, <2>3, <2>4, <2>5, <3>1, <3>2 DEF TypeInv, MarkType, Ranges
    <3>6. FieldsInside'
      <4>1. Inside(marks'.schema, url') /\ Inside(marks'.path, url')
        BY <2>1, <2>2, <2>6, <3>2, <3>3 DEF Inside, Ranges, n
      <4>2. Inside(marks'.authority, url')
        BY <2>1, <2>2, <3>1, <3>2 DEF Inside
      <4>3. marks'.schema.end + 3 <= marks'.authority.start
        <5>1. marks.schema.end + 3 <= first
          BY <3>1, <3>3, <3>4
        <5> QED
          BY <3>2, <5>1
      <4> QED
        BY <3>2, <3>3, <4>1, <4>2, <4>3 DEF FieldsInside
    <3>7. Progress'
      BY <2>1, <2>2, <2>4, <2>8, <3>2, <3>3
         DEF Progress, Separator, InScheme, InServer, Ranges
    <3> QED
      BY <3>5, <3>6, <3>7 DEF UrlInv
  <2>9. CASE to = "Path"
    <3>1. PICK first \in Nat :
            /\ Grown(marks.path, n) = [start |-> first, end |-> n + 1]
            /\ first <= n
            /\ marks.path # None => first = marks.path.start
            /\ marks.path = None => first = n
      BY <2>1, <2>6, GrownField DEF Inside
    <3>2. /\ marks'.schema = marks.schema
          /\ marks'.authority = marks.authority
          /\ marks'.path = [start |-> first, end |-> n + 1]
      BY <2>4, <2>9, <3>1
    <3>3. /\ marks.authority # None
               => marks.schema # None /\ marks.schema.end + 3 <= marks.authority.start
          /\ marks.path # None /\ marks.authority # None
               => marks.authority.end <= marks.path.start
      BY DEF UrlInv, FieldsInside
    <3> HIDE DEF to, st
    <3>5. TypeInv'
      BY <2>1, <2>2, <2>3, <2>4, <2>5, <3>1, <3>2 DEF TypeInv, MarkType, Ranges
    <3>6. FieldsInside'
      <4>1. Inside(marks'.schema, url') /\ Inside(marks'.authority, url')
        BY <2>1, <2>2, <2>6, <3>2 DEF Inside, Ranges
      <4>2. Inside(marks'.path, url')
        BY <2>1, <2>2, <3>1, <3>2 DEF Inside
      <4>3. marks.authority # None => marks.authority.end <= first
        BY <2>1, <2>6, <3>1, <3>3 DEF Inside, Ranges
      <4>4. marks'.authority # None => marks'.authority.end <= marks'.path.start
        BY <3>2, <4>3
      <4> QED
        BY <3>2, <3>3, <4>1, <4>2, <4>4 DEF FieldsInside
    <3>7. Progress'
      BY <2>4, <2>9 DEF Progress, InScheme, InServer
    <3> QED
      BY <3>5, <3>6, <3>7 DEF UrlInv
  <2>10. CASE to \notin {"Schema", "Server", "ServerWithAt", "Path"}
    <3>1. /\ marks'.schema = marks.schema
          /\ marks'.authority = marks.authority
          /\ marks'.path = marks.path
      BY <2>4, <2>10
    <3>2. /\ st \in InScheme => /\ marks.authority = None
                                /\ marks.path = None
                                /\ marks.schema # None
                                /\ marks.schema.end + Separator(st) <= n
      BY DEF UrlInv, Progress, InScheme
    <3> HIDE DEF to, st
    <3>3. TypeInv'
      BY <2>1, <2>2, <2>3, <2>4, <2>5, <3>1 DEF TypeInv, MarkType
    <3>4. FieldsInside'
      BY <2>1, <2>2, <2>6, <3>1 DEF UrlInv, FieldsInside, Inside, Ranges
    <3>5. Progress'
      BY <2>1, <2>2, <2>4, <2>5, <2>10, <3>1, <3>2
         DEF Progress, InScheme, InServer, Separator, Ranges
    <3> QED
      BY <3>3, <3>4, <3>5 DEF UrlInv
  <2> QED
    BY <2>7, <2>8, <2>9, <2>10
<1> QED
  BY <1>1, <1>2 DEF UrlNext

\* parse_url slices nothing out of bounds and no byte into two fields, whatever the
\* text: the fields that the main machine has marked lie in what it has read.
THEOREM MarksInside == UrlSpec => []FieldsInside
<1>1. UrlInv => FieldsInside
  BY DEF UrlInv
<1> QED
  BY UrlInvInit, UrlInvStep, <1>1, PTL DEF UrlSpec

-----------------------------------------------------------------------------
(* Pieces of a text, by positions. *)

\* The characters of a text between two positions.
Cutout(t, lo, hi) == SubSeq(t, lo + 1, hi)

\* They are all among some characters; none of them is.
All(t, lo, hi, chars) == \A i \in lo + 1 .. hi : t[i] \in chars
NoneOf(t, lo, hi, chars) == \A i \in lo + 1 .. hi : t[i] \notin chars

\* Every set of numbers has a least element.
LEMMA Least ==
  ASSUME NEW T \in SUBSET Nat, T # {}
  PROVE  \E m \in T : \A k \in T : m <= k
<1> DEFINE L == OpToRel(<, Nat)
<1>1. IsWellFoundedOn(L, Nat)
  BY NatLessThanWellFounded
<1>2. PICK m \in T : \A k \in T : ~(<<k, m>> \in L)
  <2> HIDE DEF L
  <2> QED
    BY <1>1, WFMin
<1>3. \A k \in T : ~(k < m)
  BY <1>2 DEF OpToRel
<1> QED
  BY <1>3

\* What a piece is.
LEMMA CutFacts ==
  ASSUME NEW S, NEW t \in Seq(S), NEW lo \in Nat, NEW hi \in Nat, lo <= hi, hi <= Len(t)
  PROVE  /\ Cutout(t, lo, hi) \in Seq(S)
         /\ Len(Cutout(t, lo, hi)) = hi - lo
         /\ \A i \in 1 .. hi - lo : Cutout(t, lo, hi)[i] = t[lo + i]
  BY DEF Cutout

\* Two texts of the same characters.
LEMMA SameText ==
  ASSUME NEW S, NEW p \in Seq(S), NEW q \in Seq(S), Len(p) = Len(q),
         \A i \in 1 .. Len(p) : p[i] = q[i]
  PROVE  p = q
  OBVIOUS

\* Nothing lies between a position and an earlier one.
LEMMA CutNone ==
  ASSUME NEW S, NEW t \in Seq(S), NEW lo \in Nat, NEW hi \in Nat, hi <= lo, hi <= Len(t)
  PROVE  Cutout(t, lo, hi) = <<>>
  BY DEF Cutout

\* A piece of a piece.
LEMMA CutCut ==
  ASSUME NEW S, NEW t \in Seq(S), NEW lo \in Nat, NEW hi \in Nat, lo <= hi, hi <= Len(t),
         NEW x \in Nat, NEW y \in Nat, x <= y, y <= hi - lo
  PROVE  Cutout(Cutout(t, lo, hi), x, y) = Cutout(t, lo + x, lo + y)
<1> DEFINE c == Cutout(t, lo, hi)
           p == Cutout(c, x, y)
           q == Cutout(t, lo + x, lo + y)
<1>1. c \in Seq(S) /\ Len(c) = hi - lo /\ \A i \in 1 .. hi - lo : c[i] = t[lo + i]
  BY CutFacts
<1>2. p \in Seq(S) /\ Len(p) = y - x /\ \A i \in 1 .. y - x : p[i] = c[x + i]
  <2>1. y <= Len(c)
    BY <1>1
  <2> HIDE DEF c
  <2>2. /\ Cutout(c, x, y) \in Seq(S) /\ Len(Cutout(c, x, y)) = y - x
        /\ \A i \in 1 .. y - x : Cutout(c, x, y)[i] = c[x + i]
    <3>1. c \in Seq(S)
      BY <1>1
    <3> QED
      BY <2>1, <3>1, CutFacts, ZenonT(60)
  <2> QED
    BY <2>2
<1>3. q \in Seq(S) /\ Len(q) = y - x /\ \A i \in 1 .. y - x : q[i] = t[lo + x + i]
  <2>1. lo + x \in Nat /\ lo + y \in Nat /\ lo + x <= lo + y /\ lo + y <= Len(t)
        /\ (lo + y) - (lo + x) = y - x
    OBVIOUS
  <2> DEFINE from == lo + x
             to == lo + y
  <2>2. from \in Nat /\ to \in Nat /\ from <= to /\ to <= Len(t) /\ to - from = y - x
    BY <2>1
  <2> HIDE DEF from, to
  <2>3. /\ Cutout(t, from, to) \in Seq(S) /\ Len(Cutout(t, from, to)) = to - from
        /\ \A i \in 1 .. to - from : Cutout(t, from, to)[i] = t[from + i]
    BY <2>2, CutFacts, ZenonT(60)
  <2> QED
    BY <2>2, <2>3 DEF from, to
<1>4. \A i \in 1 .. y - x : p[i] = q[i]
  <2> SUFFICES ASSUME NEW i \in 1 .. y - x PROVE p[i] = q[i]
    OBVIOUS
  <2>1. x + i \in 1 .. hi - lo /\ lo + (x + i) = lo + x + i
    OBVIOUS
  <2> HIDE DEF p, q, c
  <2> QED
    BY <1>1, <1>2, <1>3, <2>1
<1> HIDE DEF p, q
<1> QED
  BY <1>2, <1>3, <1>4, SameText DEF p, q, c

\* The first character of a piece and the rest of it.
LEMMA CutHead ==
  ASSUME NEW S, NEW t \in Seq(S), NEW lo \in Nat, NEW hi \in Nat, lo <= hi, hi <= Len(t)
  PROVE  /\ Cutout(t, lo, hi) = <<>> <=> lo = hi
         /\ lo < hi => /\ Cutout(t, lo, hi)[1] = t[lo + 1]
                       /\ Tail(Cutout(t, lo, hi)) = Cutout(t, lo + 1, hi)
<1> DEFINE c == Cutout(t, lo, hi)
<1>1. c \in Seq(S) /\ Len(c) = hi - lo /\ \A i \in 1 .. hi - lo : c[i] = t[lo + i]
  BY CutFacts
<1>2. c = <<>> <=> lo = hi
  <2> HIDE DEF c
  <2> QED
    BY <1>1
<1>3. ASSUME lo < hi PROVE c[1] = t[lo + 1] /\ Tail(c) = Cutout(t, lo + 1, hi)
  <2>1. c[1] = t[lo + 1]
    <3> HIDE DEF c
    <3> QED
      BY <1>1, <1>3
  <2>2. Cutout(c, 1, hi - lo) = Cutout(t, lo + 1, lo + (hi - lo))
    <3> DEFINE n == hi - lo
    <3>1. 1 \in Nat /\ n \in Nat /\ 1 <= n /\ n <= hi - lo
      BY <1>3
    <3> HIDE DEF n
    <3>2. Cutout(Cutout(t, lo, hi), 1, n) = Cutout(t, lo + 1, lo + n)
      BY <3>1, CutCut
    <3> QED
      BY <3>2 DEF n
  <2>3. Tail(c) = Cutout(c, 1, hi - lo)
    <3> HIDE DEF c
    <3>1. Len(c) = hi - lo /\ c # <<>> /\ c \in Seq(S)
      BY <1>1, <1>2, <1>3
    <3>2. Tail(c) = SubSeq(c, 2, Len(c))
      BY <3>1
    <3> QED
      BY <3>1, <3>2 DEF Cutout
  <2>4. lo + (hi - lo) = hi
    OBVIOUS
  <2> QED
    BY <2>1, <2>2, <2>3, <2>4
<1> QED
  BY <1>2, <1>3

\* What characters a piece is made of.
LEMMA CutOf ==
  ASSUME NEW S, NEW t \in Seq(S), NEW lo \in Nat, NEW hi \in Nat, lo <= hi, hi <= Len(t), NEW chars
  PROVE  /\ Of(Cutout(t, lo, hi), chars) <=> All(t, lo, hi, chars)
         /\ Some(Cutout(t, lo, hi), chars) <=> lo < hi /\ All(t, lo, hi, chars)
<1> DEFINE c == Cutout(t, lo, hi)
<1>1. c \in Seq(S) /\ Len(c) = hi - lo /\ \A i \in 1 .. hi - lo : c[i] = t[lo + i]
  BY CutFacts
<1>2. c = <<>> <=> lo = hi
  BY CutHead
<1> HIDE DEF c
<1>3. Of(c, chars) <=> \A i \in 1 .. hi - lo : t[lo + i] \in chars
  BY <1>1 DEF Of
<1>4. (\A i \in 1 .. hi - lo : t[lo + i] \in chars) <=> All(t, lo, hi, chars)
  <2>1. ASSUME \A i \in 1 .. hi - lo : t[lo + i] \in chars, NEW j \in lo + 1 .. hi
        PROVE  t[j] \in chars
    <3>1. j - lo \in 1 .. hi - lo /\ lo + (j - lo) = j
      OBVIOUS
    <3> QED
      BY <2>1, <3>1
  <2>2. ASSUME All(t, lo, hi, chars), NEW i \in 1 .. hi - lo
        PROVE  t[lo + i] \in chars
    <3>1. lo + i \in lo + 1 .. hi
      OBVIOUS
    <3> QED
      BY <2>2, <3>1 DEF All
  <2> QED
    BY <2>1, <2>2 DEF All
<1>5. lo < hi <=> lo # hi
  OBVIOUS
<1> QED
  BY <1>2, <1>3, <1>4, <1>5 DEF Some, c

\* Whether a character is in a piece.
LEMMA CutContains ==
  ASSUME NEW S, NEW t \in Seq(S), NEW lo \in Nat, NEW hi \in Nat, lo <= hi, hi <= Len(t), NEW ch
  PROVE  Contains(Cutout(t, lo, hi), ch) <=> \E i \in lo + 1 .. hi : t[i] = ch
<1> DEFINE c == Cutout(t, lo, hi)
<1>1. c \in Seq(S) /\ Len(c) = hi - lo /\ \A i \in 1 .. hi - lo : c[i] = t[lo + i]
  BY CutFacts
<1> HIDE DEF c
<1>2. ASSUME NEW i \in 1 .. Len(c), c[i] = ch PROVE \E j \in lo + 1 .. hi : t[j] = ch
  <2>1. lo + i \in lo + 1 .. hi
    BY <1>1
  <2> QED
    BY <1>1, <1>2, <2>1
<1>3. ASSUME NEW j \in lo + 1 .. hi, t[j] = ch PROVE \E i \in 1 .. Len(c) : c[i] = ch
  <2>1. j - lo \in 1 .. hi - lo /\ lo + (j - lo) = j
    OBVIOUS
  <2>2. c[j - lo] = t[j]
    BY <1>1, <2>1
  <2> QED
    BY <1>1, <1>3, <2>1, <2>2
<1>4. Contains(c, ch) <=> \E i \in 1 .. Len(c) : c[i] = ch
  BY DEF Contains
<1> QED
  BY <1>2, <1>3, <1>4 DEF c

\* A piece is cut at the first of some characters, or not at all.
CutAt(t, lo, hi, chars, q) ==
    /\ q \in lo .. hi
    /\ NoneOf(t, lo, q, chars)
    /\ q < hi => t[q + 1] \in chars

\* There is a place to cut a piece, ...
LEMMA CutExists ==
  ASSUME NEW t, NEW lo \in Nat, NEW hi \in Nat, lo <= hi, NEW chars
  PROVE  \E q \in Nat : CutAt(t, lo, hi, chars, q)
<1> DEFINE T == {i \in lo + 1 .. hi : t[i] \in chars}
<1>1. CASE T = {}
  <2>1. CutAt(t, lo, hi, chars, hi)
    BY <1>1 DEF CutAt, NoneOf
  <2> QED
    BY <2>1
<1>2. CASE T # {}
  <2>1. T \in SUBSET Nat
    OBVIOUS
  <2>2. PICK m \in T : \A k \in T : m <= k
    <3> HIDE DEF T
    <3> QED
      BY <1>2, <2>1, Least
  <2>3. NoneOf(t, lo, m - 1, chars)
    <3> SUFFICES ASSUME NEW i \in lo + 1 .. m - 1, t[i] \in chars PROVE FALSE
      BY DEF NoneOf
    <3>1. i \in T /\ ~(m <= i)
      BY <2>2
    <3> HIDE DEF T
    <3> QED
      BY <2>2, <3>1
  <2>4. CutAt(t, lo, hi, chars, m - 1)
    BY <2>2, <2>3 DEF CutAt
  <2>5. m - 1 \in Nat
    BY <2>2
  <2> QED
    BY <2>4, <2>5
<1> QED
  BY <1>1, <1>2

\* ... and only one.
LEMMA CutUnique ==
  ASSUME NEW t, NEW lo \in Nat, NEW hi \in Nat, NEW chars, NEW p, NEW q,
         CutAt(t, lo, hi, chars, p), CutAt(t, lo, hi, chars, q)
  PROVE  p = q
<1>1. p \in lo .. hi /\ q \in lo .. hi
  BY DEF CutAt
<1>2. ~(p < q)
  <2>1. p < q => p + 1 \in lo + 1 .. q /\ p < hi
    BY <1>1
  <2> QED
    BY <2>1 DEF CutAt, NoneOf
<1>3. ~(q < p)
  <2>1. q < p => q + 1 \in lo + 1 .. p /\ q < hi
    BY <1>1
  <2> QED
    BY <2>1 DEF CutAt, NoneOf
<1> QED
  BY <1>1, <1>2, <1>3

\* Cutting a whole text.
LEMMA FirstIs ==
  ASSUME NEW S, NEW t \in Seq(S), NEW chars, NEW q, CutAt(t, 0, Len(t), chars, q)
  PROVE  First(t, chars) = q + 1
<1> DEFINE n == Len(t)
           Is(i) == t[i] \in chars /\ \A j \in 1 .. i - 1 : t[j] \notin chars
<1>1. q \in 0 .. n /\ n \in Nat /\ (\A i \in 1 .. q : t[i] \notin chars) /\ (q < n => t[q + 1] \in chars)
  BY DEF CutAt, NoneOf
<1>2. CASE q = n
  <2>1. ~\E i \in 1 .. n : t[i] \in chars
    BY <1>1, <1>2
  <2> QED
    BY <1>2, <2>1 DEF First
<1>3. CASE q # n
  <2>1. q + 1 \in 1 .. n /\ Is(q + 1)
    BY <1>1, <1>3
  <2>2. \E i \in 1 .. n : t[i] \in chars
    BY <2>1
  <2>3. First(t, chars) = CHOOSE i \in 1 .. n : Is(i)
    BY <2>2 DEF First
  <2> DEFINE f == CHOOSE i \in 1 .. n : Is(i)
  <2>4. f \in 1 .. n /\ Is(f)
    BY <2>1, Zenon
  <2>5. ~(f < q + 1)
    <3> HIDE DEF f
    <3> QED
      BY <1>1, <2>4
  <2>6. ~(q + 1 < f)
    <3> HIDE DEF f
    <3>1. q + 1 < f => q + 1 \in 1 .. f - 1
      BY <1>1, <2>4
    <3> QED
      BY <2>1, <2>4, <3>1
  <2> HIDE DEF f
  <2>7. f = q + 1
    BY <1>1, <2>4, <2>5, <2>6
  <2> QED
    BY <2>3, <2>7 DEF f
<1> QED
  BY <1>2, <1>3

\* Cutting a piece of a text.
LEMMA Cutting ==
  ASSUME NEW S, NEW t \in Seq(S), NEW lo \in Nat, NEW hi \in Nat, lo <= hi, hi <= Len(t),
         NEW chars, NEW q \in Nat, CutAt(t, lo, hi, chars, q)
  PROVE  LET c == Cutout(t, lo, hi)
         IN  /\ First(c, chars) = q - lo + 1
             /\ Before(c, chars) = Cutout(t, lo, q)
             /\ From(c, chars) = Cutout(t, q, hi)
             /\ After(c, chars) = Cutout(t, q + 1, hi)
<1> DEFINE c == Cutout(t, lo, hi)
           n == hi - lo
           p == q - lo
<1>1. c \in Seq(S) /\ Len(c) = n /\ \A i \in 1 .. n : c[i] = t[lo + i]
  BY CutFacts
<1>2. n \in Nat /\ p \in 0 .. n /\ lo + p = q /\ lo + n = hi
  BY DEF CutAt
<1>3. CutAt(c, 0, Len(c), chars, p)
  <2>1. NoneOf(c, 0, p, chars)
    <3> SUFFICES ASSUME NEW i \in 1 .. p PROVE c[i] \notin chars
      BY DEF NoneOf
    <3>1. i \in 1 .. n /\ lo + i \in lo + 1 .. q
      BY <1>2
    <3> HIDE DEF c, n, p
    <3> QED
      BY <1>1, <3>1 DEF CutAt, NoneOf
  <2>2. p < n => c[p + 1] \in chars
    <3>1. p < n => p + 1 \in 1 .. n /\ lo + (p + 1) = q + 1 /\ q < hi
      BY <1>2
    <3> HIDE DEF c, n, p
    <3> QED
      BY <1>1, <3>1 DEF CutAt
  <2> HIDE DEF c, n, p
  <2> QED
    BY <1>1, <1>2, <2>1, <2>2 DEF CutAt
<1>4. First(c, chars) = p + 1
  <2> HIDE DEF c, n, p
  <2> QED
    BY <1>1, <1>3, FirstIs
<1>5. Before(c, chars) = Cutout(c, 0, p)
  <2>1. 0 + 1 = 1 /\ (p + 1) - 1 = p
    BY <1>2
  <2> HIDE DEF c, n, p
  <2> QED
    BY <1>4, <2>1 DEF Before, Cutout
<1>6. Cutout(c, 0, p) = Cutout(t, lo + 0, lo + p)
  <2>1. 0 <= p /\ p <= hi - lo /\ p \in Nat /\ 0 \in Nat
    BY <1>2
  <2> HIDE DEF p, n
  <2> QED
    BY <2>1, CutCut
<1>7. From(c, chars) = Cutout(c, p, n)
  <2> HIDE DEF c, n, p
  <2> QED
    BY <1>1, <1>4 DEF From, Cutout
<1>8. Cutout(c, p, n) = Cutout(t, lo + p, lo + n)
  <2>1. p <= n /\ n <= hi - lo /\ p \in Nat
    BY <1>2
  <2> HIDE DEF p
  <2> QED
    BY <1>2, <2>1, CutCut
<1>9. After(c, chars) = Cutout(c, p + 1, n)
  <2> HIDE DEF c, n, p
  <2> QED
    BY <1>1, <1>4 DEF After, Cutout
<1>10. Cutout(c, p + 1, n) = Cutout(t, q + 1, hi)
  <2>1. CASE p < n
    <3>1. Cutout(c, p + 1, n) = Cutout(t, lo + (p + 1), lo + n)
      <4> DEFINE s == p + 1
      <4>1. s <= n /\ n <= hi - lo /\ s \in Nat /\ n \in Nat
        BY <1>2, <2>1
      <4> HIDE DEF s, n
      <4>2. Cutout(Cutout(t, lo, hi), s, n) = Cutout(t, lo + s, lo + n)
        BY <4>1, CutCut
      <4> QED
        BY <4>2 DEF s
    <3>2. lo + (p + 1) = q + 1
      OBVIOUS
    <3> QED
      BY <1>2, <3>1, <3>2
  <2>2. CASE ~(p < n)
    <3>1. n <= p + 1 /\ p + 1 \in Nat /\ hi <= q + 1 /\ q + 1 \in Nat
      BY <1>2, <2>2
    <3>2. Cutout(t, q + 1, hi) = <<>>
      BY <3>1, CutNone
    <3> HIDE DEF c, n, p
    <3>3. Cutout(c, p + 1, n) = <<>>
      BY <1>1, <1>2, <3>1, CutNone
    <3> QED
      BY <3>2, <3>3
  <2> QED
    BY <2>1, <2>2
<1> QED
  BY <1>2, <1>4, <1>5, <1>6, <1>7, <1>8, <1>9, <1>10

\* The same of a piece that may begin behind its end.
LEMMA OfCut ==
  ASSUME NEW S, NEW t \in Seq(S), NEW lo \in Nat, NEW hi \in Nat, lo <= hi + 1, hi <= Len(t), NEW chars
  PROVE  /\ Of(Cutout(t, lo, hi), chars) <=> All(t, lo, hi, chars)
         /\ Some(Cutout(t, lo, hi), chars) <=> lo < hi /\ All(t, lo, hi, chars)
<1>1. CASE lo <= hi
  BY <1>1, CutOf
<1>2. CASE ~(lo <= hi)
  <2>1. hi <= lo
    BY <1>2
  <2>2. Cutout(t, lo, hi) = <<>>
    BY <2>1, CutNone
  <2>3. All(t, lo, hi, chars)
    BY <1>2 DEF All
  <2>4. ~(lo < hi)
    BY <1>2
  <2> QED
    BY <2>2, <2>3, <2>4 DEF Of, Some
<1> QED
  BY <1>1, <1>2

-----------------------------------------------------------------------------
(* A URL, by positions. *)

V6Chars == Hexadecimal \union {":", "."}
ServerChars == UserInfoChars \union {"[", "]", "@"}
RestChars == UrlChars \union {"?", "#"}

\* The separators are none of the characters they separate.
LEMMA CharFacts ==
  /\ ":" \notin Letters /\ ":" \notin HostChars /\ ":" \notin DOMAIN Digit
  /\ "@" \notin UserInfoChars /\ "@" \notin HostChars /\ "@" \notin V6Chars /\ "@" \notin ZoneChars
  /\ "@" \notin DOMAIN Digit
  /\ "[" \notin HostChars /\ "]" \notin V6Chars /\ "]" \notin ZoneChars /\ "%" \notin V6Chars
  /\ "/" \notin ServerChars /\ "?" \notin ServerChars /\ "/" \notin Letters /\ "*" \notin Letters
  /\ HostChars \subseteq UserInfoChars /\ ZoneChars \subseteq UserInfoChars
  /\ V6Chars \subseteq UserInfoChars /\ DOMAIN Digit \subseteq UserInfoChars
  /\ ":" \in UserInfoChars /\ "%" \in UserInfoChars
  /\ "?" \notin UrlChars /\ "#" \notin UrlChars /\ "?" \notin Letters
<1>1. DOMAIN Digit \subseteq {"0", "1", "2", "3", "4", "5", "6", "7", "8", "9"}
  BY UrlOK
<1> QED
  BY <1>1 DEF Letters, HostChars, ZoneChars, UserInfoChars, V6Chars, Hexadecimal, ServerChars, UrlChars

\* The scheme and what separates it, the authority behind them.
SchemeAt(t, k) ==
    /\ k \in Nat \ {0} /\ k + 3 <= Len(t)
    /\ All(t, 0, k, Letters)
    /\ t[k + 1] = ":" /\ t[k + 2] = "/" /\ t[k + 3] = "/"

AuthorityAt(t, k, a) == CutAt(t, k + 3, Len(t), {"/", "?"}, a)

\* The authority lies between f and a; behind user information the server begins.
Named(t, f, a) == \E i \in f + 1 .. a : t[i] = "@"

ServerAt(t, f, a, h) ==
    IF Named(t, f, a) THEN h \in f + 1 .. a /\ t[h] = "@" /\ All(t, f, h - 1, UserInfoChars)
    ELSE h = f

\* An address of version 6, with or without a zone.
V6At(t, lo, hi) ==
    \E z \in lo + 1 .. hi :
       /\ All(t, lo, z, V6Chars)
       /\ z = hi \/ (t[z + 1] = "%" /\ z + 2 <= hi /\ All(t, z + 1, hi, ZoneChars))

\* The host lies between lo and hi, and is over at e.
HostAt(t, h, a, lo, hi, e) ==
    /\ e \in h + 1 .. a
    /\ \/ lo = h /\ hi = e /\ All(t, h, e, HostChars)
       \/ lo = h + 1 /\ hi = e - 1 /\ t[h + 1] = "[" /\ t[e] = "]" /\ V6At(t, lo, hi)

PortAt(t, e, a) == e = a \/ (t[e + 1] = ":" /\ e + 1 < a /\ All(t, e + 1, a, DOMAIN Digit))

PortFits(t, e, a) == e = a \/ Value(Cutout(t, e + 1, a)) <= MaxPort

UrlAt(t, k, a, h, lo, hi, e) ==
    /\ SchemeAt(t, k) /\ AuthorityAt(t, k, a)
    /\ ServerAt(t, k + 3, a, h) /\ HostAt(t, h, a, lo, hi, e)
    /\ PortAt(t, e, a) /\ PortFits(t, e, a)
    /\ All(t, a, Len(t), RestChars)

\* What such a URL is.
UrlIs(t, k, a, lo, hi, e) ==
    [scheme |-> Cutout(t, 0, k), host |-> Cutout(t, lo, hi), port |-> Cutout(t, e + 1, a),
     path |-> IF a < Len(t) /\ t[a + 1] = "/" THEN Cutout(t, a, Len(t)) ELSE <<"/">>]

-----------------------------------------------------------------------------
(* The grammar in positions. *)

\* A port, in the grammar.
LEMMA PortIs ==
  ASSUME NEW S, NEW t \in Seq(S), NEW e \in Nat, NEW a \in Nat, e <= a, a <= Len(t)
  PROVE  IsPort(Cutout(t, e, a)) <=> PortAt(t, e, a) /\ PortFits(t, e, a)
<1> DEFINE c == Cutout(t, e, a)
<1>1. c = <<>> <=> e = a
  BY CutHead
<1>2. CASE e = a
  BY <1>1, <1>2 DEF IsPort, PortAt, PortFits
<1>3. CASE e # a
  <2>1. c[1] = t[e + 1] /\ Tail(c) = Cutout(t, e + 1, a)
    BY <1>3, CutHead
  <2>2. Some(Cutout(t, e + 1, a), DOMAIN Digit) <=> e + 1 < a /\ All(t, e + 1, a, DOMAIN Digit)
    <3>1. e + 1 \in Nat /\ e + 1 <= a + 1
      OBVIOUS
    <3> QED
      BY <3>1, OfCut
  <2> HIDE DEF c
  <2> QED
    BY <1>1, <1>3, <2>1, <2>2 DEF IsPort, PortAt, PortFits, c
<1> QED
  BY <1>2, <1>3

\* Path, query and fragment together may have any of their characters anywhere.
LEMMA RestIs ==
  ASSUME NEW S, NEW t \in Seq(S), NEW a \in Nat, NEW n \in Nat, a <= n, n <= Len(t)
  PROVE  IsRest(Cutout(t, a, n)) <=> All(t, a, n, RestChars)
<1> DEFINE c == Cutout(t, a, n)
<1>1. PICK q \in Nat : CutAt(t, a, n, {"?", "#"}, q)
  BY CutExists
<1>2. PICK r \in Nat : CutAt(t, a, n, {"#"}, r)
  BY CutExists
<1>3. PICK s \in Nat : CutAt(t, a, n, {"?"}, s)
  BY CutExists
<1>4. q <= n /\ r <= n /\ s <= n /\ a <= q /\ a <= r /\ a <= s
  BY <1>1, <1>2, <1>3 DEF CutAt
<1> DEFINE query == Before(After(c, {"?", "#"}), {"#"})
<1>5. Of(Before(c, {"?", "#"}), UrlChars) <=> All(t, a, q, UrlChars)
  <2>1. Before(c, {"?", "#"}) = Cutout(t, a, q)
    BY <1>1, Cutting
  <2> HIDE DEF c
  <2> QED
    BY <1>4, <2>1, CutOf
<1>6. First(c, {"#"}) < First(c, {"?"}) <=> r < s
  <2>1. First(c, {"#"}) = r - a + 1 /\ First(c, {"?"}) = s - a + 1
    BY <1>2, <1>3, Cutting
  <2> HIDE DEF c
  <2> QED
    BY <2>1
<1>7. Of(After(c, {"#"}), UrlChars \union {"?", "#"}) <=> All(t, r + 1, n, RestChars)
  <2>1. After(c, {"#"}) = Cutout(t, r + 1, n)
    BY <1>2, Cutting
  <2>2. r + 1 \in Nat /\ r + 1 <= n + 1
    BY <1>4
  <2> HIDE DEF c
  <2> QED
    BY <2>1, <2>2, OfCut DEF RestChars
<1>8. After(c, {"?", "#"}) = Cutout(t, q + 1, n)
  BY <1>1, Cutting
<1>9. \E u \in Nat : /\ q < n => CutAt(t, q + 1, n, {"#"}, u)
                     /\ q = n => u = n
                     /\ Of(query, UrlChars \union {"?"}) <=> All(t, q + 1, u, UrlChars \union {"?"})
  <2>1. CASE q < n
    <3>1. q + 1 \in Nat /\ q + 1 <= n
      BY <2>1
    <3>2. PICK u \in Nat : CutAt(t, q + 1, n, {"#"}, u)
      BY <3>1, CutExists
    <3>3. query = Cutout(t, q + 1, u)
      BY <1>8, <3>1, <3>2, Cutting
    <3>4. q + 1 <= u /\ u <= Len(t)
      BY <3>2 DEF CutAt
    <3> HIDE DEF query
    <3>5. Of(query, UrlChars \union {"?"}) <=> All(t, q + 1, u, UrlChars \union {"?"})
      BY <3>1, <3>3, <3>4, CutOf
    <3> QED
      BY <2>1, <3>2, <3>5
  <2>2. CASE ~(q < n)
    <3>1. q = n
      BY <1>4, <2>2
    <3>2. After(c, {"?", "#"}) = Cutout(t, n, n)
      BY <1>8, <3>1, CutNone
    <3>3. CutAt(t, n, n, {"#"}, n)
      BY DEF CutAt, NoneOf
    <3>4. query = Cutout(t, n, n)
      BY <3>2, <3>3, Cutting
    <3> HIDE DEF query
    <3>5. Of(query, UrlChars \union {"?"})
      <4>1. All(t, n, n, UrlChars \union {"?"})
        BY DEF All
      <4> QED
        BY <3>4, <4>1, CutOf
    <3>6. All(t, q + 1, n, UrlChars \union {"?"})
      BY <3>1 DEF All
    <3> QED
      BY <2>2, <3>1, <3>5, <3>6
  <2> QED
    BY <2>1, <2>2
<1>10. PICK u \in Nat :
         /\ q < n => CutAt(t, q + 1, n, {"#"}, u)
         /\ q = n => u = n
         /\ Of(query, UrlChars \union {"?"}) <=> All(t, q + 1, u, UrlChars \union {"?"})
  BY <1>9
<1>11. IsRest(c) <=> /\ All(t, a, q, UrlChars)
                     /\ r < s \/ All(t, q + 1, u, UrlChars \union {"?"})
                     /\ All(t, r + 1, n, RestChars)
  BY <1>5, <1>6, <1>7, <1>10 DEF IsRest
<1> HIDE DEF c, query
<1>12. ASSUME All(t, a, n, RestChars)
       PROVE  /\ All(t, a, q, UrlChars)
              /\ All(t, q + 1, u, UrlChars \union {"?"})
              /\ All(t, r + 1, n, RestChars)
  <2>1. ASSUME NEW i \in a + 1 .. q PROVE t[i] \in UrlChars
    <3>1. i \in a + 1 .. n
      BY <1>4
    <3> QED
      BY <1>1, <1>12, <2>1, <3>1 DEF All, CutAt, NoneOf, RestChars
  <2>2. ASSUME NEW i \in q + 1 + 1 .. u PROVE t[i] \in UrlChars \union {"?"}
    <3>1. q < n /\ i \in a + 1 .. n
      <4>1. q = n => u = n
        BY <1>10
      <4>2. q < n => u <= n
        BY <1>10 DEF CutAt
      <4> QED
        BY <1>4, <4>1, <4>2
    <3>2. t[i] \notin {"#"}
      BY <1>10, <2>2, <3>1 DEF CutAt, NoneOf
    <3> QED
      BY <1>12, <3>1, <3>2 DEF All, RestChars
  <2>3. ASSUME NEW i \in r + 1 + 1 .. n PROVE t[i] \in RestChars
    <3>1. i \in a + 1 .. n
      BY <1>4
    <3> QED
      BY <1>12, <3>1 DEF All
  <2> QED
    BY <2>1, <2>2, <2>3 DEF All
<1>13. ASSUME /\ All(t, a, q, UrlChars)
              /\ r < s \/ All(t, q + 1, u, UrlChars \union {"?"})
              /\ All(t, r + 1, n, RestChars),
              NEW i \in a + 1 .. n
       PROVE  t[i] \in RestChars
  <2>1. CASE i <= q
    <3>1. i \in a + 1 .. q
      BY <2>1
    <3> QED
      BY <1>13, <3>1 DEF All, RestChars
  <2>2. CASE i = q + 1
    <3>1. q < n
      BY <2>2
    <3> QED
      BY <1>1, <2>2, <3>1 DEF CutAt, RestChars
  <2>3. CASE q + 1 < i
    <3>1. q < n /\ t[q + 1] \in {"?", "#"}
      BY <1>1, <2>3 DEF CutAt
    <3>2. CASE t[q + 1] = "#"
      <4>1. CutAt(t, a, n, {"#"}, q)
        BY <1>1, <3>2 DEF CutAt, NoneOf
      <4>2. r = q
        BY <1>2, <4>1, CutUnique
      <4>3. i \in r + 1 + 1 .. n
        BY <2>3, <4>2
      <4> QED
        BY <1>13, <4>3 DEF All
    <3>3. CASE t[q + 1] = "?"
      <4>1. CutAt(t, a, n, {"?"}, q)
        BY <1>1, <3>3 DEF CutAt, NoneOf
      <4>2. s = q
        BY <1>3, <4>1, CutUnique
      <4>3. CutAt(t, a, n, {"#"}, u)
        <5>1. CutAt(t, q + 1, n, {"#"}, u)
          BY <1>10, <3>1
        <5>2. ASSUME NEW j \in a + 1 .. u PROVE t[j] \notin {"#"}
          <6>1. CASE j <= q
            <7>1. j \in a + 1 .. q
              BY <6>1
            <7> QED
              BY <1>1, <7>1 DEF CutAt, NoneOf
          <6>2. CASE j = q + 1
            BY <3>3, <6>2
          <6>3. CASE q + 1 < j
            <7>1. j \in q + 1 + 1 .. u
              BY <6>3
            <7> QED
              BY <5>1, <7>1 DEF CutAt, NoneOf
          <6> QED
            BY <1>4, <6>1, <6>2, <6>3
        <5>3. u \in a .. n
          BY <1>4, <5>1 DEF CutAt
        <5> QED
          BY <5>1, <5>2, <5>3 DEF CutAt, NoneOf
      <4>4. r = u
        BY <1>2, <4>3, CutUnique
      <4>5. q <= r
        <5>1. CutAt(t, q + 1, n, {"#"}, u)
          BY <1>10, <3>1
        <5> QED
          BY <4>4, <5>1 DEF CutAt
      <4>6. All(t, q + 1, u, UrlChars \union {"?"})
        BY <1>13, <4>2, <4>5
      <4>7. CASE i <= u
        <5>1. i \in q + 1 + 1 .. u
          BY <2>3, <4>7
        <5> QED
          BY <4>6, <5>1 DEF All, RestChars
      <4>8. CASE i = u + 1
        <5>1. u < n /\ CutAt(t, q + 1, n, {"#"}, u)
          BY <1>10, <3>1, <4>8
        <5> QED
          BY <4>8, <5>1 DEF CutAt, RestChars
      <4>9. CASE u + 1 < i
        <5>1. i \in r + 1 + 1 .. n
          BY <4>4, <4>9
        <5> QED
          BY <1>13, <5>1 DEF All
      <4> QED
        BY <4>7, <4>8, <4>9
    <3> QED
      BY <3>1, <3>2, <3>3
  <2> QED
    BY <1>4, <2>1, <2>2, <2>3
<1>14. ASSUME /\ All(t, a, q, UrlChars)
              /\ r < s \/ All(t, q + 1, u, UrlChars \union {"?"})
              /\ All(t, r + 1, n, RestChars)
       PROVE  All(t, a, n, RestChars)
  BY <1>13, <1>14 DEF All
<1> QED
  BY <1>11, <1>12, <1>14 DEF c

-----------------------------------------------------------------------------
(* The host and the port, by the grammar. *)

\* A host without brackets, in the grammar.
LEMMA BareHost ==
  ASSUME NEW S, NEW t \in Seq(S), NEW h \in Nat, NEW a \in Nat, h <= a, a <= Len(t),
         h = a \/ t[h + 1] # "[",
         NEW q \in Nat, CutAt(t, h, a, {":"}, q)
  PROVE  /\ HostOf(Cutout(t, h, a)) =
              IF h < q /\ All(t, h, q, HostChars) /\ PortAt(t, q, a) /\ PortFits(t, q, a)
              THEN Cutout(t, h, q) ELSE <<>>
         /\ h < a => PortOf(Cutout(t, h, a)) = Cutout(t, q + 1, a)
<1> DEFINE c == Cutout(t, h, a)
<1>1. Before(c, {":"}) = Cutout(t, h, q) /\ From(c, {":"}) = Cutout(t, q, a)
      /\ After(c, {":"}) = Cutout(t, q + 1, a)
  BY Cutting
<1>2. h <= q /\ q <= a
  BY DEF CutAt
<1>3. IsPort(Cutout(t, q, a)) <=> PortAt(t, q, a) /\ PortFits(t, q, a)
  BY <1>2, PortIs
<1>4. Some(Cutout(t, h, q), HostChars) <=> h < q /\ All(t, h, q, HostChars)
  BY <1>2, CutOf
<1>5. ~(c # <<>> /\ c[1] = "[") /\ (h < a => c[1] # "[")
  BY CutHead
<1> HIDE DEF c
<1>6. HostOf(c) = IF Some(Before(c, {":"}), HostChars) /\ IsPort(From(c, {":"}))
                  THEN Before(c, {":"}) ELSE <<>>
  BY <1>5 DEF HostOf
<1>7. h < a => PortOf(c) = Cutout(t, q + 1, a)
  BY <1>1, <1>5 DEF PortOf
<1> QED
  BY <1>1, <1>3, <1>4, <1>6, <1>7 DEF c

\* An address in brackets, in the grammar.
LEMMA BracketHost ==
  ASSUME NEW S, NEW t \in Seq(S), NEW h \in Nat, NEW a \in Nat, h < a, a <= Len(t),
         t[h + 1] = "[",
         NEW r \in Nat, CutAt(t, h, a, {"]"}, r),
         NEW z \in Nat, CutAt(t, h + 1, r, {"%"}, z)
  PROVE  /\ h + 1 <= r /\ r <= a /\ h + 1 <= z /\ z <= r
         /\ HostOf(Cutout(t, h, a)) =
              IF /\ r < a
                 /\ h + 1 < z /\ All(t, h + 1, z, V6Chars)
                 /\ z = r \/ (z + 1 < r /\ All(t, z + 1, r, ZoneChars))
                 /\ PortAt(t, r + 1, a) /\ PortFits(t, r + 1, a)
              THEN Cutout(t, h + 1, r) ELSE <<>>
         /\ r < a => \A q \in Nat : CutAt(t, r + 1, a, {":"}, q) => PortOf(Cutout(t, h, a)) = Cutout(t, q + 1, a)
<1> DEFINE c == Cutout(t, h, a)
           inside == Tail(Before(c, {"]"}))
<1>1. Before(c, {"]"}) = Cutout(t, h, r) /\ After(c, {"]"}) = Cutout(t, r + 1, a)
      /\ First(c, {"]"}) = r - h + 1
  BY Cutting
<1>2. h < r /\ r <= a
  <2>1. r \in h .. a /\ (r < a => t[r + 1] = "]")
    BY DEF CutAt
  <2>2. r # h
    BY <2>1
  <2> QED
    BY <2>1, <2>2
<1>3. h + 1 <= z /\ z <= r /\ h + 1 \in Nat /\ h + 1 <= r
  BY <1>2 DEF CutAt
<1>4. inside = Cutout(t, h + 1, r)
  BY <1>1, <1>2, CutHead
<1>5. c # <<>> /\ c[1] = "["
  BY CutHead
<1>6. Len(c) = a - h
  BY CutFacts
<1> HIDE DEF c, inside
<1>7. First(c, {"]"}) <= Len(c) <=> r < a
  BY <1>1, <1>2, <1>6
<1>8. Before(inside, {"%"}) = Cutout(t, h + 1, z) /\ After(inside, {"%"}) = Cutout(t, z + 1, r)
  BY <1>2, <1>3, <1>4, Cutting
<1>9. Contains(inside, "%") <=> z < r
  <2>1. Contains(inside, "%") <=> \E i \in h + 1 + 1 .. r : t[i] = "%"
    BY <1>2, <1>3, <1>4, CutContains
  <2>2. ASSUME z < r PROVE \E i \in h + 1 + 1 .. r : t[i] = "%"
    <3>1. z + 1 \in h + 1 + 1 .. r /\ t[z + 1] = "%"
      BY <1>3, <2>2 DEF CutAt
    <3> QED
      BY <3>1
  <2>3. ASSUME NEW i \in h + 1 + 1 .. r, t[i] = "%" PROVE z < r
    <3>1. i \notin h + 1 + 1 .. z
      BY <2>3 DEF CutAt, NoneOf
    <3> QED
      BY <1>3, <3>1
  <2> QED
    BY <2>1, <2>2, <2>3
<1>10. Some(Cutout(t, h + 1, z), V6Chars) <=> h + 1 < z /\ All(t, h + 1, z, V6Chars)
  BY <1>2, <1>3, CutOf
<1>11. Some(Cutout(t, z + 1, r), ZoneChars) <=> z + 1 < r /\ All(t, z + 1, r, ZoneChars)
  <2>1. z + 1 \in Nat /\ z + 1 <= r + 1 /\ r <= Len(t)
    BY <1>2, <1>3
  <2> QED
    BY <2>1, OfCut
<1>12. r < a => (IsPort(Cutout(t, r + 1, a)) <=> PortAt(t, r + 1, a) /\ PortFits(t, r + 1, a))
  <2>1. r < a => r + 1 \in Nat /\ r + 1 <= a
    OBVIOUS
  <2> QED
    BY <2>1, PortIs
<1>13. HostOf(c) = IF /\ First(c, {"]"}) <= Len(c)
                      /\ Some(Before(inside, {"%"}), V6Chars)
                      /\ ~Contains(inside, "%") \/ Some(After(inside, {"%"}), ZoneChars)
                      /\ IsPort(After(c, {"]"}))
                   THEN inside ELSE <<>>
  BY <1>5 DEF HostOf, V6Chars, inside
<1>14. ~(z < r) <=> z = r
  BY <1>3
<1>15. HostOf(c) = IF /\ r < a
                      /\ h + 1 < z /\ All(t, h + 1, z, V6Chars)
                      /\ z = r \/ (z + 1 < r /\ All(t, z + 1, r, ZoneChars))
                      /\ PortAt(t, r + 1, a) /\ PortFits(t, r + 1, a)
                   THEN Cutout(t, h + 1, r) ELSE <<>>
  BY <1>1, <1>4, <1>7, <1>8, <1>9, <1>10, <1>11, <1>12, <1>13, <1>14
<1>16. ASSUME r < a, NEW q \in Nat, CutAt(t, r + 1, a, {":"}, q) PROVE PortOf(c) = Cutout(t, q + 1, a)
  <2>1. r + 1 \in Nat /\ r + 1 <= a
    BY <1>16
  <2>2. After(Cutout(t, r + 1, a), {":"}) = Cutout(t, q + 1, a)
    BY <1>16, <2>1, Cutting
  <2> QED
    BY <1>1, <1>5, <2>2 DEF PortOf
<1> QED
  BY <1>2, <1>3, <1>15, <1>16 DEF c

\* A server that the grammar takes.
LEMMA HostFound ==
  ASSUME NEW S, NEW t \in Seq(S), NEW h \in Nat, NEW a \in Nat, h <= a, a <= Len(t),
         HostOf(Cutout(t, h, a)) # <<>>
  PROVE  \E lo, hi, e \in Nat : HostAt(t, h, a, lo, hi, e) /\ PortAt(t, e, a) /\ PortFits(t, e, a)
<1>1. CASE h = a \/ t[h + 1] # "["
  <2>1. PICK q \in Nat : CutAt(t, h, a, {":"}, q)
    BY CutExists
  <2>2. h < q /\ All(t, h, q, HostChars) /\ PortAt(t, q, a) /\ PortFits(t, q, a)
    BY <1>1, <2>1, BareHost
  <2>3. q \in h + 1 .. a
    BY <2>1, <2>2 DEF CutAt
  <2>4. HostAt(t, h, a, h, q, q)
    BY <2>2, <2>3 DEF HostAt
  <2> QED
    BY <2>2, <2>4
<1>2. CASE ~(h = a \/ t[h + 1] # "[")
  <2>1. h < a /\ t[h + 1] = "["
    BY <1>2
  <2>2. PICK r \in Nat : CutAt(t, h, a, {"]"}, r)
    BY CutExists
  <2>3. h + 1 <= r /\ r <= a
    <3>1. r \in h .. a /\ (r < a => t[r + 1] = "]")
      BY <2>2 DEF CutAt
    <3> QED
      BY <2>1, <3>1
  <2>4. PICK z \in Nat : CutAt(t, h + 1, r, {"%"}, z)
    <3>1. h + 1 \in Nat
      OBVIOUS
    <3> QED
      BY <2>3, <3>1, CutExists
  <2>5. /\ h + 1 <= z /\ z <= r
        /\ r < a
        /\ h + 1 < z /\ All(t, h + 1, z, V6Chars)
        /\ z = r \/ (z + 1 < r /\ All(t, z + 1, r, ZoneChars))
        /\ PortAt(t, r + 1, a) /\ PortFits(t, r + 1, a)
    BY <2>1, <2>2, <2>4, BracketHost
  <2>6. V6At(t, h + 1, r)
    <3>1. z \in h + 1 + 1 .. r
      BY <2>5
    <3>2. z = r \/ (t[z + 1] = "%" /\ z + 2 <= r /\ All(t, z + 1, r, ZoneChars))
      BY <2>4, <2>5 DEF CutAt
    <3> QED
      BY <2>5, <3>1, <3>2 DEF V6At
  <2>7. HostAt(t, h, a, h + 1, r, r + 1)
    <3>1. r + 1 \in h + 1 .. a /\ r = (r + 1) - 1 /\ t[r + 1] = "]"
      BY <2>2, <2>3, <2>5 DEF CutAt
    <3> QED
      BY <2>1, <2>6, <3>1 DEF HostAt
  <2>8. h + 1 \in Nat /\ r + 1 \in Nat
    OBVIOUS
  <2> QED
    BY <2>5, <2>7, <2>8
<1> QED
  BY <1>1, <1>2

\* Where the port begins, or the authority ends, no colon came before.
LEMMA PortCut ==
  ASSUME NEW t, NEW e \in Nat, NEW a \in Nat, e <= a, PortAt(t, e, a)
  PROVE  CutAt(t, e, a, {":"}, e)
  BY DEF PortAt, CutAt, NoneOf

\* What the grammar reads in a server that it takes.
LEMMA HostIs ==
  ASSUME NEW S, NEW t \in Seq(S), NEW h \in Nat, NEW a \in Nat, h <= a, a <= Len(t),
         NEW lo \in Nat, NEW hi \in Nat, NEW e \in Nat,
         HostAt(t, h, a, lo, hi, e), PortAt(t, e, a), PortFits(t, e, a)
  PROVE  /\ HostOf(Cutout(t, h, a)) = Cutout(t, lo, hi)
         /\ Cutout(t, lo, hi) # <<>>
         /\ PortOf(Cutout(t, h, a)) = Cutout(t, e + 1, a)
<1>1. e \in h + 1 .. a /\ h < a
  BY DEF HostAt
<1>2. CutAt(t, e, a, {":"}, e)
  BY <1>1, PortCut
<1>3. CASE lo = h /\ hi = e /\ All(t, h, e, HostChars)
  <2>1. CutAt(t, h, a, {":"}, e)
    BY <1>1, <1>2, <1>3, CharFacts DEF CutAt, NoneOf, All
  <2>2. t[h + 1] # "["
    <3>1. h + 1 \in h + 1 .. e
      BY <1>1
    <3> QED
      BY <1>3, <3>1, CharFacts DEF All
  <2>3. Cutout(t, h, e) # <<>>
    <3>1. h # e /\ h <= e /\ e <= Len(t)
      BY <1>1
    <3> QED
      BY <3>1, CutHead
  <2> QED
    BY <1>1, <1>3, <2>1, <2>2, <2>3, BareHost
<1>4. CASE lo = h + 1 /\ hi = e - 1 /\ t[h + 1] = "[" /\ t[e] = "]" /\ V6At(t, lo, hi)
  <2>1. PICK z \in lo + 1 .. hi :
          /\ All(t, lo, z, V6Chars)
          /\ z = hi \/ (t[z + 1] = "%" /\ z + 2 <= hi /\ All(t, z + 1, hi, ZoneChars))
    BY <1>4 DEF V6At
  <2>2. hi + 1 = e /\ lo < hi /\ hi < a /\ hi \in h .. a /\ z \in Nat
    BY <1>1, <1>4, <2>1
  <2>3. NoneOf(t, lo, z, {"%", "]"})
    BY <2>1, CharFacts DEF All, NoneOf
  <2>4. NoneOf(t, h, hi, {"]"})
    <3> SUFFICES ASSUME NEW i \in h + 1 .. hi PROVE t[i] # "]"
      BY DEF NoneOf
    <3>1. CASE i = h + 1
      BY <1>4, <3>1
    <3>2. CASE i \in lo + 1 .. z
      BY <2>3, <3>2 DEF NoneOf
    <3>3. CASE i = z + 1 /\ z # hi
      BY <2>1, <3>3
    <3>4. CASE i \in z + 1 + 1 .. hi
      <4>1. z # hi
        BY <2>1, <3>4
      <4> QED
        BY <2>1, <3>4, <4>1, CharFacts DEF All
    <3> QED
      BY <1>4, <2>1, <2>2, <3>1, <3>2, <3>3, <3>4
  <2>5. CutAt(t, h, a, {"]"}, hi)
    BY <1>4, <2>2, <2>4 DEF CutAt
  <2>6. CutAt(t, h + 1, hi, {"%"}, z)
    <3>1. z \in h + 1 .. hi
      BY <1>4, <2>1
    <3>2. NoneOf(t, h + 1, z, {"%"})
      BY <1>4, <2>3 DEF NoneOf
    <3>3. z < hi => t[z + 1] \in {"%"}
      BY <2>1
    <3> QED
      BY <3>1, <3>2, <3>3 DEF CutAt
  <2>7. h + 1 < z /\ All(t, h + 1, z, V6Chars) /\ (z = hi \/ (z + 1 < hi /\ All(t, z + 1, hi, ZoneChars)))
    BY <1>4, <2>1
  <2>8. PortAt(t, hi + 1, a) /\ PortFits(t, hi + 1, a) /\ CutAt(t, hi + 1, a, {":"}, e)
    BY <1>2, <2>2
  <2>9. Cutout(t, lo, hi) # <<>>
    <3>1. lo # hi /\ lo <= hi /\ hi <= Len(t)
      BY <2>2
    <3> QED
      BY <3>1, CutHead
  <2>10. HostOf(Cutout(t, h, a)) = Cutout(t, h + 1, hi) /\ PortOf(Cutout(t, h, a)) = Cutout(t, e + 1, a)
    BY <1>1, <1>4, <2>2, <2>5, <2>6, <2>7, <2>8, BracketHost
  <2> QED
    BY <1>4, <2>9, <2>10
<1> QED
  BY <1>3, <1>4 DEF HostAt

-----------------------------------------------------------------------------
(* The whole text, by the grammar. *)

\* A text is a piece of itself.
LEMMA CutWhole ==
  ASSUME NEW S, NEW t \in Seq(S)
  PROVE  Cutout(t, 0, Len(t)) = t
<1>1. SubSeq(t, 1, Len(t)) = t
  OBVIOUS
<1> QED
  BY <1>1 DEF Cutout

\* The separator behind the scheme, in the grammar.
LEMMA SeparatorIs ==
  ASSUME NEW S, NEW t \in Seq(S), NEW k \in Nat, NEW n \in Nat, k <= n, n <= Len(t)
  PROVE  IsPrefix(<<":", "/", "/">>, Cutout(t, k, n)) <=>
           k + 3 <= n /\ t[k + 1] = ":" /\ t[k + 2] = "/" /\ t[k + 3] = "/"
<1> DEFINE c == Cutout(t, k, n)
           s == <<":", "/", "/">>
<1>1. c \in Seq(S) /\ Len(c) = n - k /\ \A i \in 1 .. n - k : c[i] = t[k + i]
  BY CutFacts
<1> HIDE DEF c
<1>2. s \in Seq({":", "/"}) /\ Len(s) = 3 /\ s[1] = ":" /\ s[2] = "/" /\ s[3] = "/"
  OBVIOUS
<1> HIDE DEF s
<1>3. ASSUME 3 <= Len(c) PROVE SubSeq(s, 1, Len(s)) = SubSeq(c, 1, Len(s)) <=> c[1] = ":" /\ c[2] = "/" /\ c[3] = "/"
  <2>1. /\ SubSeq(s, 1, 3) \in Seq({":", "/"}) /\ Len(SubSeq(s, 1, 3)) = 3
        /\ SubSeq(s, 1, 3)[1] = ":" /\ SubSeq(s, 1, 3)[2] = "/" /\ SubSeq(s, 1, 3)[3] = "/"
    BY <1>2
  <2>2. /\ SubSeq(c, 1, 3) \in Seq(S) /\ Len(SubSeq(c, 1, 3)) = 3
        /\ SubSeq(c, 1, 3)[1] = c[1] /\ SubSeq(c, 1, 3)[2] = c[2] /\ SubSeq(c, 1, 3)[3] = c[3]
    BY <1>1, <1>3
  <2> DEFINE u == SubSeq(s, 1, 3)
             v == SubSeq(c, 1, 3)
  <2>3. u \in Seq({":", "/"} \union S) /\ v \in Seq({":", "/"} \union S)
    <3> HIDE DEF u, v
    <3>1. u \in Seq({":", "/"}) /\ v \in Seq(S)
      BY <2>1, <2>2 DEF u, v
    <3> QED
      BY <3>1
  <2>4. ASSUME c[1] = ":", c[2] = "/", c[3] = "/" PROVE u = v
    <3> HIDE DEF u, v
    <3>1. \A i \in 1 .. 3 : u[i] = v[i]
      BY <2>1, <2>2, <2>4 DEF u, v
    <3>2. Len(u) = 3 /\ Len(v) = 3
      BY <2>1, <2>2 DEF u, v
    <3> QED
      BY <2>3, <3>1, <3>2, SameText
  <2> QED
    BY <1>2, <2>1, <2>2, <2>4
<1>4. IsPrefix(s, c) <=> 3 <= Len(c) /\ c[1] = ":" /\ c[2] = "/" /\ c[3] = "/"
  BY <1>2, <1>3 DEF IsPrefix
<1>5. 3 <= Len(c) <=> k + 3 <= n
  BY <1>1
<1>6. 3 <= Len(c) => c[1] = t[k + 1] /\ c[2] = t[k + 2] /\ c[3] = t[k + 3]
  BY <1>1
<1> QED
  BY <1>4, <1>5, <1>6 DEF c, s

\* Where the server of an authority begins, in the grammar.
LEMMA ServerIs ==
  ASSUME NEW S, NEW t \in Seq(S), NEW f \in Nat, NEW a \in Nat, f <= a, a <= Len(t)
  PROVE  LET authority == Cutout(t, f, a)
             named == Contains(authority, "@")
         IN  /\ \A h \in Nat : ServerAt(t, f, a, h) =>
                  /\ h \in f .. a
                  /\ named => Of(Before(authority, {"@"}), UserInfoChars)
                  /\ (IF named THEN After(authority, {"@"}) ELSE authority) = Cutout(t, h, a)
             /\ (named => Of(Before(authority, {"@"}), UserInfoChars))
                  => \E h \in Nat : ServerAt(t, f, a, h)
<1> DEFINE authority == Cutout(t, f, a)
           named == Contains(authority, "@")
<1>1. named <=> Named(t, f, a)
  BY CutContains DEF Named
<1>2. PICK p \in Nat : CutAt(t, f, a, {"@"}, p)
  BY CutExists
<1>3. Before(authority, {"@"}) = Cutout(t, f, p) /\ After(authority, {"@"}) = Cutout(t, p + 1, a)
  BY <1>2, Cutting
<1>4. f <= p /\ p <= a
  BY <1>2 DEF CutAt
<1> HIDE DEF authority
<1>5. Of(Before(authority, {"@"}), UserInfoChars) <=> All(t, f, p, UserInfoChars)
  BY <1>3, <1>4, CutOf
<1> HIDE DEF named
<1>6. Named(t, f, a) => p < a
  <2>1. ASSUME NEW i \in f + 1 .. a, t[i] = "@" PROVE p < a
    <3>1. i \notin f + 1 .. p
      BY <1>2, <2>1 DEF CutAt, NoneOf
    <3> QED
      BY <1>4, <3>1
  <2> QED
    BY <2>1 DEF Named
<1>7. ASSUME NEW h \in Nat, ServerAt(t, f, a, h)
      PROVE  /\ h \in f .. a
             /\ named => Of(Before(authority, {"@"}), UserInfoChars)
             /\ (IF named THEN After(authority, {"@"}) ELSE authority) = Cutout(t, h, a)
  <2>1. CASE Named(t, f, a)
    <3>1. h \in f + 1 .. a /\ t[h] = "@" /\ All(t, f, h - 1, UserInfoChars)
      BY <1>7, <2>1 DEF ServerAt
    <3>2. CutAt(t, f, a, {"@"}, h - 1)
      <4>1. h - 1 \in f .. a /\ (h - 1) + 1 = h
        BY <3>1
      <4> QED
        BY <3>1, <4>1, CharFacts DEF CutAt, NoneOf, All
    <3>3. h - 1 = p
      BY <1>2, <3>2, CutUnique
    <3>4. h = p + 1
      BY <3>1, <3>3
    <3> QED
      BY <1>1, <1>3, <1>5, <2>1, <3>1, <3>3, <3>4
  <2>2. CASE ~Named(t, f, a)
    <3>1. h = f
      BY <1>7, <2>2 DEF ServerAt
    <3> QED
      BY <1>1, <2>2, <3>1 DEF authority
  <2> QED
    BY <2>1, <2>2
<1>8. ASSUME named => Of(Before(authority, {"@"}), UserInfoChars)
      PROVE  \E h \in Nat : ServerAt(t, f, a, h)
  <2>1. CASE Named(t, f, a)
    <3>1. p < a /\ All(t, f, p, UserInfoChars) /\ t[p + 1] = "@"
      BY <1>1, <1>2, <1>5, <1>6, <1>8, <2>1 DEF CutAt
    <3>2. p + 1 \in f + 1 .. a /\ (p + 1) - 1 = p /\ p + 1 \in Nat
      BY <1>4, <3>1
    <3>3. ServerAt(t, f, a, p + 1)
      BY <2>1, <3>1, <3>2 DEF ServerAt
    <3> QED
      BY <3>2, <3>3
  <2>2. CASE ~Named(t, f, a)
    BY <2>2 DEF ServerAt
  <2> QED
    BY <2>1, <2>2
<1> QED
  BY <1>7, <1>8 DEF named, authority

\* What the grammar makes of a text with a scheme and an authority.
LEMMA GrammarHere ==
  ASSUME NEW S, NEW t \in Seq(S), NEW k \in Nat, SchemeAt(t, k), NEW a \in Nat, AuthorityAt(t, k, a)
  PROVE  LET authority == Cutout(t, k + 3, a)
             named == Contains(authority, "@")
             server == IF named THEN After(authority, {"@"}) ELSE authority
         IN  ByGrammar(t) =
               IF /\ named => Of(Before(authority, {"@"}), UserInfoChars)
                  /\ HostOf(server) # <<>>
                  /\ All(t, a, Len(t), RestChars)
               THEN [scheme |-> Cutout(t, 0, k), host |-> HostOf(server), port |-> PortOf(server),
                     path |-> IF a < Len(t) /\ t[a + 1] = "/" THEN Cutout(t, a, Len(t)) ELSE <<"/">>]
               ELSE NoUrl
<1> DEFINE n == Len(t)
           f == k + 3
           body == SubSeq(t, Len(Before(t, {":"})) + 4, n)
           rest == From(body, {"/", "?"})
<1>1. n \in Nat /\ f \in Nat /\ f <= n /\ k <= n /\ 0 < k
  BY DEF SchemeAt
<1>2. CutAt(t, 0, n, {":"}, k)
  <2>1. NoneOf(t, 0, k, {":"})
    BY CharFacts DEF SchemeAt, All, NoneOf
  <2>2. t[k + 1] \in {":"}
    BY DEF SchemeAt
  <2> QED
    BY <1>1, <2>1, <2>2 DEF CutAt
<1>3. Before(t, {":"}) = Cutout(t, 0, k) /\ From(t, {":"}) = Cutout(t, k, n)
  <2>1. /\ Before(Cutout(t, 0, n), {":"}) = Cutout(t, 0, k)
        /\ From(Cutout(t, 0, n), {":"}) = Cutout(t, k, n)
    <3>1. 0 \in Nat /\ 0 <= n /\ n <= Len(t)
      BY <1>1
    <3> QED
      BY <1>1, <1>2, <3>1, Cutting
  <2> QED
    BY <2>1, CutWhole
<1>4. Some(Before(t, {":"}), Letters)
  <2>1. Some(Cutout(t, 0, k), Letters) <=> 0 < k /\ All(t, 0, k, Letters)
    <3>1. 0 \in Nat /\ 0 <= k /\ k <= Len(t)
      BY <1>1
    <3> QED
      BY <3>1, CutOf
  <2> QED
    BY <1>1, <1>3, <2>1 DEF SchemeAt
<1>5. IsPrefix(<<":", "/", "/">>, From(t, {":"}))
  <2>1. IsPrefix(<<":", "/", "/">>, Cutout(t, k, n)) <=>
           k + 3 <= n /\ t[k + 1] = ":" /\ t[k + 2] = "/" /\ t[k + 3] = "/"
    BY <1>1, SeparatorIs
  <2> QED
    BY <1>3, <2>1 DEF SchemeAt
<1>6. body = Cutout(t, f, n)
  <2>1. Len(Cutout(t, 0, k)) = k
    BY <1>1 DEF Cutout
  <2>2. k + 4 = f + 1
    OBVIOUS
  <2> QED
    BY <1>3, <2>1, <2>2 DEF Cutout
<1>7. f <= a /\ a <= n
  BY DEF AuthorityAt, CutAt
<1>8. Before(body, {"/", "?"}) = Cutout(t, f, a) /\ rest = Cutout(t, a, n)
  <2>1. CutAt(t, f, n, {"/", "?"}, a)
    BY DEF AuthorityAt
  <2> HIDE DEF body, f, n
  <2>2. n <= Len(t)
    BY DEF n
  <2> QED
    BY <1>1, <1>6, <2>1, <2>2, Cutting
<1>9. IsRest(rest) <=> All(t, a, n, RestChars)
  <2>1. IsRest(Cutout(t, a, n)) <=> All(t, a, n, RestChars)
    BY <1>1, <1>7, RestIs
  <2> QED
    BY <1>8, <2>1
<1>10. (rest # <<>> /\ rest[1] = "/") <=> (a < n /\ t[a + 1] = "/")
  <2>1. (Cutout(t, a, n) = <<>> <=> a = n) /\ (a < n => Cutout(t, a, n)[1] = t[a + 1])
    <3>1. n \in Nat /\ a <= n /\ n <= Len(t)
      BY <1>1, <1>7
    <3> HIDE DEF n
    <3> QED
      BY <3>1, CutHead
  <2> HIDE DEF rest
  <2> QED
    BY <1>7, <1>8, <2>1
<1> DEFINE authority == Before(body, {"/", "?"})
           named == Contains(authority, "@")
           server == IF named THEN After(authority, {"@"}) ELSE authority
<1>11. ByGrammar(t) =
         IF /\ Some(Before(t, {":"}), Letters)
            /\ IsPrefix(<<":", "/", "/">>, From(t, {":"}))
            /\ named => Of(Before(authority, {"@"}), UserInfoChars)
            /\ HostOf(server) # <<>>
            /\ IsRest(rest)
         THEN [scheme |-> Before(t, {":"}), host |-> HostOf(server), port |-> PortOf(server),
               path |-> IF rest # <<>> /\ rest[1] = "/" THEN rest ELSE <<"/">>]
         ELSE NoUrl
  BY DEF ByGrammar
<1>12. authority = Cutout(t, f, a)
  BY <1>8
<1> HIDE DEF rest, authority
<1>13. ByGrammar(t) =
         IF /\ named => Of(Before(authority, {"@"}), UserInfoChars)
            /\ HostOf(server) # <<>>
            /\ All(t, a, n, RestChars)
         THEN [scheme |-> Cutout(t, 0, k), host |-> HostOf(server), port |-> PortOf(server),
               path |-> IF a < n /\ t[a + 1] = "/" THEN Cutout(t, a, n) ELSE <<"/">>]
         ELSE NoUrl
  BY <1>3, <1>4, <1>5, <1>8, <1>9, <1>10, <1>11
<1> QED
  BY <1>12, <1>13

\* A text the grammar takes.
LEMMA GrammarFound ==
  ASSUME NEW S, NEW t \in Seq(S), ByGrammar(t) # NoUrl
  PROVE  \E k, a, h, lo, hi, e \in Nat : UrlAt(t, k, a, h, lo, hi, e)
<1> DEFINE n == Len(t)
<1>1. PICK k \in Nat : CutAt(t, 0, n, {":"}, k)
  <2>1. 0 \in Nat /\ n \in Nat /\ 0 <= n
    OBVIOUS
  <2> QED
    BY <2>1, CutExists
<1>2. k <= n /\ n \in Nat /\ n <= Len(t) /\ 0 \in Nat /\ 0 <= k /\ 0 <= n
  BY <1>1 DEF CutAt
<1>3. Before(t, {":"}) = Cutout(t, 0, k) /\ From(t, {":"}) = Cutout(t, k, n)
  <2>1. /\ Before(Cutout(t, 0, n), {":"}) = Cutout(t, 0, k)
        /\ From(Cutout(t, 0, n), {":"}) = Cutout(t, k, n)
    BY <1>1, <1>2, Cutting
  <2> QED
    BY <2>1, CutWhole
<1>4. Some(Before(t, {":"}), Letters) /\ IsPrefix(<<":", "/", "/">>, From(t, {":"}))
  BY DEF ByGrammar
<1>5. SchemeAt(t, k)
  <2>1. 0 < k /\ All(t, 0, k, Letters)
    <3>1. Some(Cutout(t, 0, k), Letters) <=> 0 < k /\ All(t, 0, k, Letters)
      <4>1. k <= Len(t)
        BY <1>2
      <4> HIDE DEF n
      <4> QED
        BY <1>2, <4>1, CutOf
    <3> QED
      BY <1>3, <1>4, <3>1
  <2>2. k + 3 <= n /\ t[k + 1] = ":" /\ t[k + 2] = "/" /\ t[k + 3] = "/"
    <3>1. IsPrefix(<<":", "/", "/">>, Cutout(t, k, n)) <=>
             k + 3 <= n /\ t[k + 1] = ":" /\ t[k + 2] = "/" /\ t[k + 3] = "/"
      BY <1>2, SeparatorIs
    <3> QED
      BY <1>3, <1>4, <3>1
  <2> QED
    BY <2>1, <2>2 DEF SchemeAt
<1>6. PICK a \in Nat : AuthorityAt(t, k, a)
  <2>1. k + 3 \in Nat /\ k + 3 <= n
    BY <1>5 DEF SchemeAt
  <2> QED
    BY <1>2, <2>1, CutExists DEF AuthorityAt
<1>7. k + 3 \in Nat /\ k + 3 <= a /\ a <= Len(t)
  BY <1>6 DEF AuthorityAt, CutAt
<1> DEFINE authority == Cutout(t, k + 3, a)
           named == Contains(authority, "@")
           server == IF named THEN After(authority, {"@"}) ELSE authority
<1>8. /\ named => Of(Before(authority, {"@"}), UserInfoChars)
      /\ HostOf(server) # <<>>
      /\ All(t, a, n, RestChars)
  <2>1. ByGrammar(t) =
               IF /\ named => Of(Before(authority, {"@"}), UserInfoChars)
                  /\ HostOf(server) # <<>>
                  /\ All(t, a, Len(t), RestChars)
               THEN [scheme |-> Cutout(t, 0, k), host |-> HostOf(server), port |-> PortOf(server),
                     path |-> IF a < Len(t) /\ t[a + 1] = "/" THEN Cutout(t, a, Len(t)) ELSE <<"/">>]
               ELSE NoUrl
    BY <1>5, <1>6, GrammarHere
  <2> HIDE DEF authority, named, server
  <2> QED
    BY <2>1
<1>9. PICK h \in Nat : ServerAt(t, k + 3, a, h)
  BY <1>7, <1>8, ServerIs
<1>10. h \in k + 3 .. a /\ server = Cutout(t, h, a)
  BY <1>7, <1>9, ServerIs
<1>11. PICK lo, hi, e \in Nat : HostAt(t, h, a, lo, hi, e) /\ PortAt(t, e, a) /\ PortFits(t, e, a)
  <2>1. h <= a
    BY <1>10
  <2>2. HostOf(Cutout(t, h, a)) # <<>>
    BY <1>8, <1>10
  <2> QED
    BY <1>7, <2>1, <2>2, HostFound
<1>12. UrlAt(t, k, a, h, lo, hi, e)
  BY <1>5, <1>6, <1>8, <1>9, <1>11 DEF UrlAt
<1> QED
  BY <1>12

\* What the grammar makes of a text that it takes.
LEMMA GrammarReads ==
  ASSUME NEW S, NEW t \in Seq(S), NEW k \in Nat, NEW a \in Nat, NEW h \in Nat,
         NEW lo \in Nat, NEW hi \in Nat, NEW e \in Nat, UrlAt(t, k, a, h, lo, hi, e)
  PROVE  ByGrammar(t) = UrlIs(t, k, a, lo, hi, e)
<1> DEFINE authority == Cutout(t, k + 3, a)
           named == Contains(authority, "@")
           server == IF named THEN After(authority, {"@"}) ELSE authority
<1>1. /\ SchemeAt(t, k) /\ AuthorityAt(t, k, a)
      /\ ServerAt(t, k + 3, a, h) /\ HostAt(t, h, a, lo, hi, e)
      /\ PortAt(t, e, a) /\ PortFits(t, e, a)
      /\ All(t, a, Len(t), RestChars)
  BY DEF UrlAt
<1>2. ByGrammar(t) =
        IF /\ named => Of(Before(authority, {"@"}), UserInfoChars)
           /\ HostOf(server) # <<>>
           /\ All(t, a, Len(t), RestChars)
        THEN [scheme |-> Cutout(t, 0, k), host |-> HostOf(server), port |-> PortOf(server),
              path |-> IF a < Len(t) /\ t[a + 1] = "/" THEN Cutout(t, a, Len(t)) ELSE <<"/">>]
        ELSE NoUrl
  BY <1>1, GrammarHere
<1>3. k + 3 \in Nat /\ k + 3 <= a /\ a <= Len(t)
  BY <1>1 DEF AuthorityAt, CutAt
<1>4. /\ h \in k + 3 .. a
      /\ named => Of(Before(authority, {"@"}), UserInfoChars)
      /\ server = Cutout(t, h, a)
  BY <1>1, <1>3, ServerIs
<1>5. /\ HostOf(Cutout(t, h, a)) = Cutout(t, lo, hi)
      /\ Cutout(t, lo, hi) # <<>>
      /\ PortOf(Cutout(t, h, a)) = Cutout(t, e + 1, a)
  <2>1. h <= a
    BY <1>4
  <2> QED
    BY <1>1, <1>3, <2>1, HostIs
<1> HIDE DEF authority, named, server
<1> QED
  BY <1>1, <1>2, <1>4, <1>5 DEF UrlIs

-----------------------------------------------------------------------------
(* The steps of the host machine. *)

HostStates == InUserInfo \union
    {"HostStart", "Host", "V6Start", "V6", "V6ZoneStart", "V6Zone", "V6End", "PortStart",
     "Port", "Dead"}

\* Where a machine with one way to go on goes.
LEMMA StepIs ==
  ASSUME NEW moves, NEW st, NEW ch, NEW to, NEW m \in moves, st \in m.from, ch \in m.on,
         \A o \in moves : st \in o.from /\ ch \in o.on => o.to = to
  PROVE  Step(moves, st, ch) = to
<1> DEFINE open == {o \in moves : st \in o.from /\ ch \in o.on}
           one == CHOOSE o \in open : TRUE
<1>1. m \in open
  OBVIOUS
<1>2. one \in open
  BY <1>1
<1>3. one.to = to
  BY <1>2
<1>4. open # {}
  BY <1>1
<1>5. Step(moves, st, ch) = one.to
  BY <1>4 DEF Step
<1> QED
  BY <1>3, <1>5

\* A machine with nowhere to go dies.
LEMMA StepDies ==
  ASSUME NEW moves, NEW st, NEW ch, \A o \in moves : ~(st \in o.from /\ ch \in o.on)
  PROVE  Step(moves, st, ch) = "Dead"
<1>1. {o \in moves : st \in o.from /\ ch \in o.on} = {}
  OBVIOUS
<1> QED
  BY <1>1 DEF Step

\* The moves from each state.
LEMMA HostTable ==
  ASSUME NEW st \in HostStates, NEW ch
  PROVE  HostStep(st, ch) =
           CASE st \in InUserInfo ->
                  IF ch = "@" THEN "HostStart" ELSE IF ch \in UserInfoChars THEN "UserInfo" ELSE "Dead"
             [] st = "HostStart" ->
                  IF ch = "[" THEN "V6Start" ELSE IF ch \in HostChars THEN "Host" ELSE "Dead"
             [] st = "Host" ->
                  IF ch = ":" THEN "PortStart" ELSE IF ch \in HostChars THEN "Host" ELSE "Dead"
             [] st = "V6Start" -> IF ch \in V6Chars THEN "V6" ELSE "Dead"
             [] st = "V6" ->
                  IF ch = "]" THEN "V6End" ELSE IF ch = "%" THEN "V6ZoneStart"
                  ELSE IF ch \in V6Chars THEN "V6" ELSE "Dead"
             [] st = "V6ZoneStart" -> IF ch \in ZoneChars THEN "V6Zone" ELSE "Dead"
             [] st = "V6Zone" ->
                  IF ch = "]" THEN "V6End" ELSE IF ch \in ZoneChars THEN "V6Zone" ELSE "Dead"
             [] st = "V6End" -> IF ch = ":" THEN "PortStart" ELSE "Dead"
             [] st \in {"PortStart", "Port"} -> IF ch \in DOMAIN Digit THEN "Port" ELSE "Dead"
             [] OTHER -> "Dead"
<1> DEFINE to == CASE st \in InUserInfo ->
                  IF ch = "@" THEN "HostStart" ELSE IF ch \in UserInfoChars THEN "UserInfo" ELSE "Dead"
             [] st = "HostStart" ->
                  IF ch = "[" THEN "V6Start" ELSE IF ch \in HostChars THEN "Host" ELSE "Dead"
             [] st = "Host" ->
                  IF ch = ":" THEN "PortStart" ELSE IF ch \in HostChars THEN "Host" ELSE "Dead"
             [] st = "V6Start" -> IF ch \in V6Chars THEN "V6" ELSE "Dead"
             [] st = "V6" ->
                  IF ch = "]" THEN "V6End" ELSE IF ch = "%" THEN "V6ZoneStart"
                  ELSE IF ch \in V6Chars THEN "V6" ELSE "Dead"
             [] st = "V6ZoneStart" -> IF ch \in ZoneChars THEN "V6Zone" ELSE "Dead"
             [] st = "V6Zone" ->
                  IF ch = "]" THEN "V6End" ELSE IF ch \in ZoneChars THEN "V6Zone" ELSE "Dead"
             [] st = "V6End" -> IF ch = ":" THEN "PortStart" ELSE "Dead"
             [] st \in {"PortStart", "Port"} -> IF ch \in DOMAIN Digit THEN "Port" ELSE "Dead"
             [] OTHER -> "Dead"
<1>1. \A o \in HostMoves : st \in o.from /\ ch \in o.on => o.to = to
  BY CharFacts DEF HostMoves, Move, HostStates, InUserInfo, V6Chars
<1>2. CASE to = "Dead"
  <2>1. \A o \in HostMoves : o.to # "Dead"
    BY DEF HostMoves, Move
  <2> HIDE DEF to
  <2>2. \A o \in HostMoves : ~(st \in o.from /\ ch \in o.on)
    BY <1>1, <1>2, <2>1
  <2> QED
    BY <1>2, <2>2, StepDies DEF HostStep, to
<1>3. CASE to # "Dead"
  <2>1. PICK o \in HostMoves : st \in o.from /\ ch \in o.on
    <3> DEFINE Open == \E o \in HostMoves : st \in o.from /\ ch \in o.on
    <3>1. /\ Move(InUserInfo, {"@"}, "HostStart") \in HostMoves
          /\ Move(InUserInfo, UserInfoChars, "UserInfo") \in HostMoves
          /\ Move({"HostStart"}, {"["}, "V6Start") \in HostMoves
          /\ Move({"HostStart", "Host"}, HostChars, "Host") \in HostMoves
          /\ Move({"Host", "V6End"}, {":"}, "PortStart") \in HostMoves
          /\ Move({"V6Start", "V6"}, V6Chars, "V6") \in HostMoves
          /\ Move({"V6"}, {"%"}, "V6ZoneStart") \in HostMoves
          /\ Move({"V6ZoneStart", "V6Zone"}, ZoneChars, "V6Zone") \in HostMoves
          /\ Move({"V6", "V6Zone"}, {"]"}, "V6End") \in HostMoves
          /\ Move({"PortStart", "Port"}, DOMAIN Digit, "Port") \in HostMoves
      BY DEF HostMoves, V6Chars
    <3>2. \A from, on, next : Move(from, on, next).from = from /\ Move(from, on, next).on = on
      BY DEF Move
    <3>3. ASSUME NEW from, NEW on, NEW next, Move(from, on, next) \in HostMoves, st \in from, ch \in on
          PROVE  Open
      BY <3>2, <3>3
    <3> HIDE DEF Open
    <3>4. /\ st \in InUserInfo /\ ch \in {"@"} => Open
          /\ st \in InUserInfo /\ ch \in UserInfoChars => Open
          /\ st \in {"HostStart"} /\ ch \in {"["} => Open
          /\ st \in {"HostStart", "Host"} /\ ch \in HostChars => Open
          /\ st \in {"Host", "V6End"} /\ ch \in {":"} => Open
          /\ st \in {"V6Start", "V6"} /\ ch \in V6Chars => Open
          /\ st \in {"V6"} /\ ch \in {"%"} => Open
          /\ st \in {"V6ZoneStart", "V6Zone"} /\ ch \in ZoneChars => Open
          /\ st \in {"V6", "V6Zone"} /\ ch \in {"]"} => Open
          /\ st \in {"PortStart", "Port"} /\ ch \in DOMAIN Digit => Open
      BY <3>1, <3>3, Zenon
    <3>5. Open
      BY <1>3, <3>4 DEF HostStates, InUserInfo
    <3> QED
      BY <3>5 DEF Open
  <2> HIDE DEF to
  <2>2. Step(HostMoves, st, ch) = to
    BY <1>1, <2>1, StepIs
  <2> QED
    BY <2>2 DEF HostStep, to
<1> QED
  BY <1>2, <1>3

-----------------------------------------------------------------------------
(* Where no host can be read. *)

\* No host with or without a port begins at h.
NoHost(t, h, a) == \A lo, hi, e \in Nat : ~(HostAt(t, h, a, lo, hi, e) /\ PortAt(t, e, a))

\* There is none in the authority.
NoServer(t, f, a) == \A h \in Nat : ServerAt(t, f, a, h) => NoHost(t, h, a)

\* There is one place where a server begins.
LEMMA ServerUnique ==
  ASSUME NEW t, NEW f \in Nat, NEW a \in Nat, NEW h \in Nat, NEW g \in Nat,
         ServerAt(t, f, a, h), ServerAt(t, f, a, g)
  PROVE  h = g
<1>1. CASE ~Named(t, f, a)
  BY <1>1 DEF ServerAt
<1>2. CASE Named(t, f, a)
  <2>1. /\ h \in f + 1 .. a /\ t[h] = "@" /\ All(t, f, h - 1, UserInfoChars)
        /\ g \in f + 1 .. a /\ t[g] = "@" /\ All(t, f, g - 1, UserInfoChars)
    BY <1>2 DEF ServerAt
  <2>2. ~(h < g)
    <3>1. h < g => h \in f + 1 .. g - 1
      BY <2>1
    <3> QED
      BY <2>1, <3>1, CharFacts DEF All
  <2>3. ~(g < h)
    <3>1. g < h => g \in f + 1 .. h - 1
      BY <2>1
    <3> QED
      BY <2>1, <3>1, CharFacts DEF All
  <2> QED
    BY <2>1, <2>2, <2>3
<1> QED
  BY <1>1, <1>2

\* User information that ends with neither of its characters.
LEMMA NoUserInfo ==
  ASSUME NEW t, NEW f \in Nat, NEW a \in Nat, NEW i \in Nat, f <= i, i < a, Named(t, f, a),
         All(t, f, i, UserInfoChars), t[i + 1] \notin UserInfoChars \union {"@"}
  PROVE  NoServer(t, f, a)
<1> SUFFICES ASSUME NEW h \in Nat, ServerAt(t, f, a, h) PROVE FALSE
  BY DEF NoServer
<1>1. h \in f + 1 .. a /\ t[h] = "@" /\ All(t, f, h - 1, UserInfoChars)
  BY DEF ServerAt
<1>2. h \notin f + 1 .. i
  BY <1>1, CharFacts DEF All
<1>3. h # i + 1
  BY <1>1
<1>4. i + 1 \in f + 1 .. h - 1
  BY <1>1, <1>2, <1>3
<1> QED
  BY <1>1, <1>4 DEF All

\* No host begins at the end of the authority, or with another character than a host can.
LEMMA NoHostHere ==
  ASSUME NEW t, NEW h \in Nat, NEW a \in Nat, h >= a \/ t[h + 1] \notin HostChars \union {"["}
  PROVE  NoHost(t, h, a)
<1> SUFFICES ASSUME NEW lo \in Nat, NEW hi \in Nat, NEW e \in Nat, HostAt(t, h, a, lo, hi, e) PROVE FALSE
  BY DEF NoHost
<1>1. e \in h + 1 .. a /\ h < a /\ h + 1 \in h + 1 .. e
  BY DEF HostAt
<1>2. t[h + 1] \in HostChars \/ t[h + 1] = "["
  BY <1>1 DEF HostAt, All
<1> QED
  BY <1>1, <1>2

\* A name that ends with neither of what may follow it.
LEMMA NoName ==
  ASSUME NEW t, NEW h \in Nat, NEW a \in Nat, NEW i \in Nat, h < i, i < a,
         All(t, h, i, HostChars), t[i + 1] \notin HostChars \union {":"}
  PROVE  NoHost(t, h, a)
<1> SUFFICES ASSUME NEW lo \in Nat, NEW hi \in Nat, NEW e \in Nat,
                    HostAt(t, h, a, lo, hi, e), PortAt(t, e, a) PROVE FALSE
  BY DEF NoHost
<1>1. t[h + 1] \in HostChars
  <2>1. h + 1 \in h + 1 .. i
    OBVIOUS
  <2> QED
    BY <2>1 DEF All
<1>2. e \in h + 1 .. a /\ All(t, h, e, HostChars)
  BY <1>1, CharFacts DEF HostAt
<1>3. ~(i < e)
  <2>1. i < e => i + 1 \in h + 1 .. e
    BY <1>2
  <2> QED
    BY <1>2, <2>1 DEF All
<1>4. e # a /\ t[e + 1] = ":"
  BY <1>2, <1>3 DEF PortAt
<1>5. e # i
  BY <1>4
<1>6. e + 1 \in h + 1 .. i
  BY <1>2, <1>3, <1>5
<1> QED
  BY <1>4, <1>6, CharFacts DEF All

\* The end of an address is its first closing bracket.
LEMMA AddressEnds ==
  ASSUME NEW t, NEW h \in Nat, NEW a \in Nat, NEW lo \in Nat, NEW hi \in Nat, NEW e \in Nat,
         HostAt(t, h, a, lo, hi, e), t[h + 1] = "["
  PROVE  /\ lo = h + 1 /\ hi = e - 1 /\ t[e] = "]" /\ e \in h + 3 .. a
         /\ V6At(t, h + 1, e - 1)
         /\ NoneOf(t, h + 1, e - 1, {"]"})
<1>1. /\ e \in h + 1 .. a /\ lo = h + 1 /\ hi = e - 1 /\ t[e] = "]" /\ V6At(t, lo, hi)
  <2>1. ~All(t, h, e, HostChars)
    <3>1. h + 1 \in h + 1 .. e
      BY DEF HostAt
    <3> QED
      BY <3>1, CharFacts DEF All
  <2> QED
    BY <2>1 DEF HostAt
<1>2. PICK z \in lo + 1 .. hi :
        /\ All(t, lo, z, V6Chars)
        /\ z = hi \/ (t[z + 1] = "%" /\ z + 2 <= hi /\ All(t, z + 1, hi, ZoneChars))
  BY <1>1 DEF V6At
<1>3. NoneOf(t, lo, hi, {"]"})
  <2> SUFFICES ASSUME NEW i \in lo + 1 .. hi PROVE t[i] # "]"
    BY DEF NoneOf
  <2>1. CASE i <= z
    <3>1. i \in lo + 1 .. z
      BY <2>1
    <3> QED
      BY <1>2, <3>1, CharFacts DEF All
  <2>2. CASE z < i
    <3>1. i = z + 1 \/ i \in z + 1 + 1 .. hi
      BY <2>2
    <3>2. z # hi
      BY <2>2
    <3> QED
      BY <1>2, <3>1, <3>2, CharFacts DEF All
  <2> QED
    BY <2>1, <2>2
<1>4. e \in h + 3 .. a
  BY <1>1, <1>2
<1> QED
  BY <1>1, <1>3, <1>4

\* An address that goes on as none does, or does not end.
LEMMA NoAddress ==
  ASSUME NEW t, NEW h \in Nat, NEW a \in Nat, NEW i \in Nat, h + 1 <= i, i <= a, t[h + 1] = "[",
         All(t, h + 1, i, V6Chars),
         \/ i = a
         \/ t[i + 1] \notin V6Chars /\ (i = h + 1 \/ t[i + 1] \notin {"%", "]"})
  PROVE  NoHost(t, h, a)
<1> SUFFICES ASSUME NEW lo \in Nat, NEW hi \in Nat, NEW e \in Nat, HostAt(t, h, a, lo, hi, e) PROVE FALSE
  BY DEF NoHost
<1>1. /\ t[e] = "]" /\ e \in h + 3 .. a /\ V6At(t, h + 1, e - 1)
  BY AddressEnds
<1>2. i < e
  <2>1. ~(i < e) => e \in h + 1 + 1 .. i
    BY <1>1
  <2> QED
    BY <1>1, <2>1, CharFacts DEF All
<1>3. PICK z \in h + 1 + 1 .. e - 1 :
        /\ All(t, h + 1, z, V6Chars)
        /\ z = e - 1 \/ (t[z + 1] = "%" /\ z + 2 <= e - 1 /\ All(t, z + 1, e - 1, ZoneChars))
  BY <1>1 DEF V6At
<1>4. i # a /\ t[i + 1] \notin V6Chars
  BY <1>1, <1>2
<1>5. z <= i
  <2>1. ~(z <= i) => i + 1 \in h + 1 + 1 .. z
    BY <1>1, <1>3
  <2> QED
    BY <1>3, <1>4, <2>1 DEF All
<1>6. i # h + 1
  BY <1>3, <1>5
<1>7. t[i + 1] \notin {"%", "]"}
  BY <1>4, <1>6
<1>8. z # e - 1
  <2>1. z = e - 1 => i + 1 = e
    BY <1>1, <1>2, <1>3, <1>5
  <2> QED
    BY <1>1, <1>7, <2>1
<1>9. t[z + 1] = "%"
  BY <1>3, <1>8
<1>10. z # i
  BY <1>7, <1>9
<1>11. z + 1 \in h + 1 + 1 .. i
  BY <1>3, <1>5, <1>10
<1> QED
  BY <1>9, <1>11, CharFacts DEF All

\* The zone of an address begins at z and has been read up to i.
ZoneAt(t, h, z, i) ==
    /\ z \in h + 2 .. i - 1 /\ t[h + 1] = "["
    /\ All(t, h + 1, z, V6Chars) /\ t[z + 1] = "%" /\ All(t, z + 1, i, ZoneChars)

\* A zone that ends with neither of its characters, or is empty.
LEMMA NoZone ==
  ASSUME NEW t, NEW h \in Nat, NEW a \in Nat, NEW i \in Nat, i <= a, NEW z \in Nat, ZoneAt(t, h, z, i),
         i = a \/ (t[i + 1] \notin ZoneChars /\ (i = z + 1 \/ t[i + 1] # "]"))
  PROVE  NoHost(t, h, a)
<1> SUFFICES ASSUME NEW lo \in Nat, NEW hi \in Nat, NEW e \in Nat, HostAt(t, h, a, lo, hi, e) PROVE FALSE
  BY DEF NoHost
<1>0. /\ z \in h + 2 .. i - 1 /\ t[h + 1] = "["
      /\ All(t, h + 1, z, V6Chars) /\ t[z + 1] = "%" /\ All(t, z + 1, i, ZoneChars)
  BY DEF ZoneAt
<1>1. /\ t[e] = "]" /\ e \in h + 3 .. a /\ V6At(t, h + 1, e - 1)
  BY <1>0, AddressEnds
<1>2. i < e
  <2>1. ~(i < e) => e \in h + 1 + 1 .. z \/ e = z + 1 \/ e \in z + 1 + 1 .. i
    BY <1>0, <1>1
  <2> QED
    BY <1>0, <1>1, <2>1, CharFacts DEF All
<1>3. PICK y \in h + 1 + 1 .. e - 1 :
        /\ All(t, h + 1, y, V6Chars)
        /\ y = e - 1 \/ (t[y + 1] = "%" /\ y + 2 <= e - 1 /\ All(t, y + 1, e - 1, ZoneChars))
  BY <1>1 DEF V6At
<1>4. i # a /\ t[i + 1] \notin ZoneChars
  BY <1>1, <1>2
<1>5. y <= z
  <2>1. ~(y <= z) => z + 1 \in h + 1 + 1 .. y
    BY <1>0, <1>3
  <2> QED
    BY <1>0, <1>3, <2>1, CharFacts DEF All
<1>6. y # e - 1
  BY <1>0, <1>1, <1>2, <1>5
<1>7. t[y + 1] = "%" /\ y + 2 <= e - 1 /\ All(t, y + 1, e - 1, ZoneChars)
  BY <1>3, <1>6
<1>8. y = z
  <2>1. y # z => y + 1 \in h + 1 + 1 .. z
    BY <1>0, <1>3, <1>5
  <2> QED
    BY <1>0, <1>7, <2>1, CharFacts DEF All
<1>9. i + 1 # e
  <2>1. i + 1 = e => i # z + 1
    BY <1>0, <1>1, <1>7, <1>8
  <2> QED
    BY <1>1, <1>4, <2>1
<1>10. i + 1 \in y + 1 + 1 .. e - 1
  BY <1>0, <1>1, <1>2, <1>8, <1>9
<1> QED
  BY <1>4, <1>7, <1>10 DEF All

\* What follows a host tells where it ends.
EndsAt(t, h, a, lo, hi, e) == HostAt(t, h, a, lo, hi, e) /\ (e = a \/ t[h + 1] = "[" \/ t[e + 1] = ":")

\* There is one host.
LEMMA HostUnique ==
  ASSUME NEW t, NEW h \in Nat, NEW a \in Nat,
         NEW lo \in Nat, NEW hi \in Nat, NEW e \in Nat, EndsAt(t, h, a, lo, hi, e),
         NEW lo2 \in Nat, NEW hi2 \in Nat, NEW e2 \in Nat, EndsAt(t, h, a, lo2, hi2, e2)
  PROVE  lo = lo2 /\ hi = hi2 /\ e = e2
<1>0. /\ HostAt(t, h, a, lo, hi, e) /\ (e = a \/ t[h + 1] = "[" \/ t[e + 1] = ":")
      /\ HostAt(t, h, a, lo2, hi2, e2) /\ (e2 = a \/ t[h + 1] = "[" \/ t[e2 + 1] = ":")
  BY DEF EndsAt
<1>1. CASE t[h + 1] = "["
  <2>1. /\ lo = h + 1 /\ hi = e - 1 /\ t[e] = "]" /\ e \in h + 3 .. a
        /\ NoneOf(t, h + 1, e - 1, {"]"})
    BY <1>0, <1>1, AddressEnds, SMTT(30)
  <2>2. /\ lo2 = h + 1 /\ hi2 = e2 - 1 /\ t[e2] = "]" /\ e2 \in h + 3 .. a
        /\ NoneOf(t, h + 1, e2 - 1, {"]"})
    BY <1>0, <1>1, AddressEnds, SMTT(30)
  <2>3. ~(e < e2)
    <3>1. e < e2 => e \in h + 1 + 1 .. e2 - 1
      BY <2>1, <2>2
    <3> QED
      BY <2>1, <2>2, <3>1 DEF NoneOf
  <2>4. ~(e2 < e)
    <3>1. e2 < e => e2 \in h + 1 + 1 .. e - 1
      BY <2>1, <2>2
    <3> QED
      BY <2>1, <2>2, <3>1 DEF NoneOf
  <2> QED
    BY <2>1, <2>2, <2>3, <2>4
<1>2. CASE t[h + 1] # "["
  <2>1. /\ e \in h + 1 .. a /\ lo = h /\ hi = e /\ All(t, h, e, HostChars)
        /\ e2 \in h + 1 .. a /\ lo2 = h /\ hi2 = e2 /\ All(t, h, e2, HostChars)
    BY <1>0, <1>2 DEF HostAt
  <2>2. ~(e < e2)
    <3>1. e < e2 => e # a /\ e + 1 \in h + 1 .. e2
      BY <2>1
    <3> QED
      BY <1>0, <1>2, <2>1, <3>1, CharFacts DEF All
  <2>3. ~(e2 < e)
    <3>1. e2 < e => e2 # a /\ e2 + 1 \in h + 1 .. e
      BY <2>1
    <3> QED
      BY <1>0, <1>2, <2>1, <3>1, CharFacts DEF All
  <2> QED
    BY <2>1, <2>2, <2>3
<1> QED
  BY <1>1, <1>2

\* An address that is followed by something else than a port.
LEMMA NoEnd ==
  ASSUME NEW t, NEW h \in Nat, NEW a \in Nat, NEW i \in Nat, i < a,
         t[h + 1] = "[", HostAt(t, h, a, h + 1, i - 1, i), t[i + 1] # ":"
  PROVE  NoHost(t, h, a)
<1> SUFFICES ASSUME NEW lo \in Nat, NEW hi \in Nat, NEW e \in Nat,
                    HostAt(t, h, a, lo, hi, e), PortAt(t, e, a) PROVE FALSE
  BY DEF NoHost
<1> DEFINE first == h + 1
           last == i - 1
<1>1. first \in Nat /\ last \in Nat /\ HostAt(t, h, a, first, last, i)
  BY DEF HostAt
<1> HIDE DEF first, last
<1>2. EndsAt(t, h, a, lo, hi, e) /\ EndsAt(t, h, a, first, last, i)
  BY <1>1 DEF EndsAt
<1>3. e = i
  BY <1>1, <1>2, HostUnique
<1> QED
  BY <1>3 DEF PortAt

\* A port with another character than digits, or with none.
LEMMA NoPort ==
  ASSUME NEW t, NEW h \in Nat, NEW a \in Nat, NEW lo \in Nat, NEW hi \in Nat, NEW e \in Nat,
         HostAt(t, h, a, lo, hi, e), e < a, t[e + 1] = ":",
         e + 1 = a \/ ~All(t, e + 1, a, DOMAIN Digit)
  PROVE  NoHost(t, h, a)
<1> SUFFICES ASSUME NEW lo2 \in Nat, NEW hi2 \in Nat, NEW e2 \in Nat,
                    HostAt(t, h, a, lo2, hi2, e2), PortAt(t, e2, a) PROVE FALSE
  BY DEF NoHost
<1>1. EndsAt(t, h, a, lo, hi, e) /\ EndsAt(t, h, a, lo2, hi2, e2)
  BY DEF EndsAt, PortAt
<1>2. e = e2
  BY <1>1, HostUnique
<1> QED
  BY <1>2 DEF PortAt

-----------------------------------------------------------------------------
(* The host machine on the authority between f and a. *)

Span(first, last) == [start |-> first, end |-> last]

\* The server begins at h and the machine has got to i in it.
InHost(t, a, h, i, w) ==
    /\ w.state = "HostStart" => i = h
    /\ w.state = "Host" => h < i /\ All(t, h, i, HostChars) /\ w.host = Span(h, i)
    /\ w.state = "V6Start" => i = h + 1 /\ t[h + 1] = "["
    /\ w.state = "V6" => /\ h + 2 <= i /\ t[h + 1] = "[" /\ All(t, h + 1, i, V6Chars)
                         /\ w.host = Span(h + 1, i)
    /\ w.state \in {"V6ZoneStart", "V6Zone"} =>
         /\ w.host = Span(h + 1, i)
         /\ \E z \in Nat : ZoneAt(t, h, z, i) /\ (w.state = "V6ZoneStart" <=> i = z + 1)
    /\ w.state = "V6End" =>
         /\ t[h + 1] = "[" /\ HostAt(t, h, a, h + 1, i - 1, i)
         /\ w.host = Span(h + 1, i - 1)
    /\ w.state \in {"PortStart", "Port"} =>
         \E lo, hi, e \in Nat :
           /\ HostAt(t, h, a, lo, hi, e) /\ w.host = Span(lo, hi)
           /\ e < i /\ t[e + 1] = ":" /\ All(t, e + 1, i, DOMAIN Digit)
           /\ w.state = "PortStart" <=> i = e + 1
           /\ w.state = "Port" => w.port = Span(e + 1, i)

HostWalk(t, f, a, i, w) ==
    /\ w.state \in HostStates
    /\ w.state \notin {"Port", "Dead"} => w.port = None
    /\ w.state \in InUserInfo => Named(t, f, a) /\ All(t, f, i, UserInfoChars)
    /\ w.state \notin InUserInfo \union {"Dead"} =>
         \E h \in f .. i : ServerAt(t, f, a, h) /\ InHost(t, a, h, i, w)
    /\ w.state = "Dead" => NoServer(t, f, a)

\* One character more.
LEMMA AllMore ==
  ASSUME NEW t, NEW lo \in Nat, NEW i \in Nat, NEW chars, All(t, lo, i, chars), t[i + 1] \in chars
  PROVE  All(t, lo, i + 1, chars)
<1> SUFFICES ASSUME NEW j \in lo + 1 .. i + 1 PROVE t[j] \in chars
  BY DEF All
<1>1. j \in lo + 1 .. i \/ j = i + 1
  OBVIOUS
<1> QED
  BY <1>1 DEF All

\* If no host begins where the server does there is no server.
LEMMA NoServerHere ==
  ASSUME NEW t, NEW f \in Nat, NEW a \in Nat, NEW h \in Nat, ServerAt(t, f, a, h), NoHost(t, h, a)
  PROVE  NoServer(t, f, a)
BY ServerUnique DEF NoServer

\* The machine before its first character.
LEMMA WalkStart ==
  ASSUME NEW t, NEW f \in Nat, NEW a \in Nat, f <= a, NEW w,
         w.state = IF Named(t, f, a) THEN "UserInfoStart" ELSE "HostStart", w.port = None
  PROVE  HostWalk(t, f, a, f, w)
<1>1. CASE Named(t, f, a)
  <2>1. All(t, f, f, UserInfoChars)
    BY DEF All
  <2> QED
    BY <1>1, <2>1 DEF HostWalk, HostStates, InUserInfo
<1>2. CASE ~Named(t, f, a)
  <2>1. f \in f .. f /\ ServerAt(t, f, a, f)
    BY <1>2 DEF ServerAt
  <2>2. InHost(t, a, f, f, w)
    BY <1>2 DEF InHost
  <2> QED
    BY <1>2, <2>1, <2>2 DEF HostWalk, HostStates, InUserInfo
<1> QED
  BY <1>1, <1>2

\* A step from the user information.
LEMMA WalkUserInfo ==
  ASSUME NEW t, NEW f \in Nat, NEW a \in Nat, NEW i \in Nat, f <= i, i < a,
         NEW w, HostWalk(t, f, a, i, w), w.state \in InUserInfo
  PROVE  HostWalk(t, f, a, i + 1, SplitRound(w, i, t[i + 1]))
<1> DEFINE v == SplitRound(w, i, t[i + 1])
           next == HostStep(w.state, t[i + 1])
<1>1. v.state = next /\ v.port = Extend(next = "Port", i, w.port)
  BY DEF SplitRound
<1>2. Named(t, f, a) /\ All(t, f, i, UserInfoChars) /\ w.port = None /\ w.state \in HostStates
  BY DEF HostWalk, InUserInfo
<1>3. next = IF t[i + 1] = "@" THEN "HostStart" ELSE IF t[i + 1] \in UserInfoChars THEN "UserInfo" ELSE "Dead"
  BY <1>2, HostTable DEF InUserInfo
<1>4. v.port = None
  BY <1>1, <1>2, <1>3 DEF Extend
<1> HIDE DEF v, next
<1>5. CASE t[i + 1] = "@"
  <2>1. i + 1 \in f + 1 .. a /\ i + 1 \in f .. i + 1 /\ (i + 1) - 1 = i
    OBVIOUS
  <2>2. ServerAt(t, f, a, i + 1)
    BY <1>2, <1>5, <2>1 DEF ServerAt
  <2>3. InHost(t, a, i + 1, i + 1, v)
    BY <1>1, <1>3, <1>5 DEF InHost
  <2>4. HostWalk(t, f, a, i + 1, v)
    BY <1>1, <1>3, <1>4, <1>5, <2>1, <2>2, <2>3 DEF HostWalk, HostStates, InUserInfo
  <2> QED
    BY <2>4 DEF v
<1>6. CASE t[i + 1] # "@" /\ t[i + 1] \in UserInfoChars
  <2>1. All(t, f, i + 1, UserInfoChars)
    BY <1>2, <1>6, AllMore
  <2>2. HostWalk(t, f, a, i + 1, v)
    BY <1>1, <1>2, <1>3, <1>4, <1>6, <2>1 DEF HostWalk, HostStates, InUserInfo
  <2> QED
    BY <2>2 DEF v
<1>7. CASE t[i + 1] # "@" /\ t[i + 1] \notin UserInfoChars
  <2>1. NoServer(t, f, a)
    BY <1>2, <1>7, NoUserInfo
  <2>2. HostWalk(t, f, a, i + 1, v)
    BY <1>1, <1>3, <1>4, <1>7, <2>1 DEF HostWalk, HostStates, InUserInfo
  <2> QED
    BY <2>2 DEF v
<1> QED
  BY <1>5, <1>6, <1>7

\* What a step to a state of the server has to keep, and one to no state.
LEMMA WalkOn ==
  ASSUME NEW t, NEW f \in Nat, NEW a \in Nat, NEW i \in Nat, NEW v,
         v.state \in HostStates \ (InUserInfo \union {"Dead"}), v.state # "Port" => v.port = None,
         NEW h \in Nat, f <= h, h <= i, ServerAt(t, f, a, h), InHost(t, a, h, i, v)
  PROVE  HostWalk(t, f, a, i, v)
<1>1. h \in f .. i
  OBVIOUS
<1> QED
  BY <1>1 DEF HostWalk

\* ... and one to no state.
LEMMA WalkDies ==
  ASSUME NEW t, NEW f \in Nat, NEW a \in Nat, NEW i \in Nat, NEW v, v.state = "Dead",
         NEW h \in Nat, ServerAt(t, f, a, h), NoHost(t, h, a)
  PROVE  HostWalk(t, f, a, i, v)
<1>1. NoServer(t, f, a)
  BY NoServerHere
<1> QED
  BY <1>1 DEF HostWalk, HostStates, InUserInfo

-----------------------------------------------------------------------------
(* A step of the host machine in the server, by the state it is taken from. *)

\* A step in the server, by the state it is taken from.
LEMMA WalkHostStart ==
  ASSUME NEW t, NEW f \in Nat, NEW a \in Nat, NEW i \in Nat, f <= i, i < a,
         NEW w, w.port = None, NEW h \in Nat, f <= h, h <= i,
         ServerAt(t, f, a, h), InHost(t, a, h, i, w), w.state = "HostStart"
  PROVE  HostWalk(t, f, a, i + 1, SplitRound(w, i, t[i + 1]))
<1> DEFINE v == SplitRound(w, i, t[i + 1])
           next == HostStep(w.state, t[i + 1])
<1>1. /\ v.state = next /\ v.port = Extend(next = "Port", i, w.port)
      /\ v.host = HostRange(w.host, w.state, next, i)
  BY DEF SplitRound
<1>2. next = IF t[i + 1] = "[" THEN "V6Start" ELSE IF t[i + 1] \in HostChars THEN "Host" ELSE "Dead"
  BY HostTable DEF InUserInfo, HostStates
<1>3. i = h
  BY DEF InHost
<1>4. v.port = None
  BY <1>1, <1>2 DEF Extend
<1>5. i + 1 \in Nat /\ h <= i + 1
  OBVIOUS
<1> HIDE DEF v, next
<1>6. CASE t[i + 1] = "["
  <2>1. InHost(t, a, h, i + 1, v)
    BY <1>1, <1>2, <1>3, <1>6 DEF InHost
  <2>2. v.state \in HostStates \ (InUserInfo \union {"Dead"}) /\ v.state # "Port"
    BY <1>1, <1>2, <1>6 DEF HostStates, InUserInfo
  <2>3. HostWalk(t, f, a, i + 1, v)
    BY <1>4, <1>5, <2>1, <2>2, WalkOn
  <2> QED
    BY <2>3 DEF v
<1>7. CASE t[i + 1] # "[" /\ t[i + 1] \in HostChars
  <2>1. All(t, h, i, HostChars)
    BY <1>3 DEF All
  <2>2. All(t, h, i + 1, HostChars)
    BY <1>7, <2>1, AllMore
  <2>3. v.host = Span(h, i + 1)
    BY <1>1, <1>2, <1>3, <1>7 DEF HostRange, Span
  <2>4. InHost(t, a, h, i + 1, v)
    BY <1>1, <1>2, <1>3, <1>7, <2>2, <2>3 DEF InHost
  <2>5. v.state \in HostStates \ (InUserInfo \union {"Dead"}) /\ v.state # "Port"
    BY <1>1, <1>2, <1>7 DEF HostStates, InUserInfo
  <2>6. HostWalk(t, f, a, i + 1, v)
    BY <1>4, <1>5, <2>4, <2>5, WalkOn
  <2> QED
    BY <2>6 DEF v
<1>8. CASE t[i + 1] # "[" /\ t[i + 1] \notin HostChars
  <2>1. NoHost(t, h, a)
    BY <1>3, <1>8, NoHostHere
  <2>2. HostWalk(t, f, a, i + 1, v)
    BY <1>1, <1>2, <1>5, <1>8, <2>1, WalkDies
  <2> QED
    BY <2>2 DEF v
<1> QED
  BY <1>6, <1>7, <1>8

\* From a name.
LEMMA WalkHost ==
  ASSUME NEW t, NEW f \in Nat, NEW a \in Nat, NEW i \in Nat, f <= i, i < a,
         NEW w, w.port = None, NEW h \in Nat, f <= h, h <= i,
         ServerAt(t, f, a, h), InHost(t, a, h, i, w), w.state = "Host"
  PROVE  HostWalk(t, f, a, i + 1, SplitRound(w, i, t[i + 1]))
<1> DEFINE v == SplitRound(w, i, t[i + 1])
           next == HostStep(w.state, t[i + 1])
<1>1. /\ v.state = next /\ v.port = Extend(next = "Port", i, w.port)
      /\ v.host = HostRange(w.host, w.state, next, i)
  BY DEF SplitRound
<1>2. next = IF t[i + 1] = ":" THEN "PortStart" ELSE IF t[i + 1] \in HostChars THEN "Host" ELSE "Dead"
  BY HostTable DEF InUserInfo, HostStates
<1>3. h < i /\ All(t, h, i, HostChars) /\ w.host = Span(h, i)
  BY DEF InHost
<1>4. v.port = None
  BY <1>1, <1>2 DEF Extend
<1>5. i + 1 \in Nat /\ h <= i + 1
  OBVIOUS
<1> HIDE DEF v, next
<1>6. CASE t[i + 1] = ":"
  <2>1. HostAt(t, h, a, h, i, i)
    BY <1>3 DEF HostAt
  <2>2. v.host = Span(h, i)
    BY <1>1, <1>2, <1>3, <1>6 DEF HostRange
  <2>3. All(t, i + 1, i + 1, DOMAIN Digit)
    BY DEF All
  <2>4. InHost(t, a, h, i + 1, v)
    BY <1>1, <1>2, <1>6, <2>1, <2>2, <2>3 DEF InHost
  <2>5. v.state \in HostStates \ (InUserInfo \union {"Dead"}) /\ v.state # "Port"
    BY <1>1, <1>2, <1>6 DEF HostStates, InUserInfo
  <2>6. HostWalk(t, f, a, i + 1, v)
    BY <1>4, <1>5, <2>4, <2>5, WalkOn
  <2> QED
    BY <2>6 DEF v
<1>7. CASE t[i + 1] # ":" /\ t[i + 1] \in HostChars
  <2>1. All(t, h, i + 1, HostChars)
    BY <1>3, <1>7, AllMore
  <2>2. v.host = Span(h, i + 1)
    BY <1>1, <1>2, <1>3, <1>7 DEF HostRange, Span
  <2>3. InHost(t, a, h, i + 1, v)
    BY <1>1, <1>2, <1>3, <1>7, <2>1, <2>2 DEF InHost
  <2>4. v.state \in HostStates \ (InUserInfo \union {"Dead"}) /\ v.state # "Port"
    BY <1>1, <1>2, <1>7 DEF HostStates, InUserInfo
  <2>5. HostWalk(t, f, a, i + 1, v)
    BY <1>4, <1>5, <2>3, <2>4, WalkOn
  <2> QED
    BY <2>5 DEF v
<1>8. CASE t[i + 1] # ":" /\ t[i + 1] \notin HostChars
  <2>1. NoHost(t, h, a)
    BY <1>3, <1>8, NoName
  <2>2. HostWalk(t, f, a, i + 1, v)
    BY <1>1, <1>2, <1>5, <1>8, <2>1, WalkDies
  <2> QED
    BY <2>2 DEF v
<1> QED
  BY <1>6, <1>7, <1>8

\* From an address.
LEMMA WalkAddress ==
  ASSUME NEW t, NEW f \in Nat, NEW a \in Nat, NEW i \in Nat, f <= i, i < a,
         NEW w, w.port = None, NEW h \in Nat, f <= h, h <= i,
         ServerAt(t, f, a, h), InHost(t, a, h, i, w), w.state \in {"V6Start", "V6"}
  PROVE  HostWalk(t, f, a, i + 1, SplitRound(w, i, t[i + 1]))
<1> DEFINE v == SplitRound(w, i, t[i + 1])
           next == HostStep(w.state, t[i + 1])
<1>1. /\ v.state = next /\ v.port = Extend(next = "Port", i, w.port)
      /\ v.host = HostRange(w.host, w.state, next, i)
  BY DEF SplitRound
<1>2. next = IF w.state = "V6" /\ t[i + 1] = "]" THEN "V6End"
             ELSE IF w.state = "V6" /\ t[i + 1] = "%" THEN "V6ZoneStart"
             ELSE IF t[i + 1] \in V6Chars THEN "V6" ELSE "Dead"
  BY HostTable, CharFacts DEF InUserInfo, HostStates
<1>3. /\ t[h + 1] = "[" /\ h + 1 <= i /\ All(t, h + 1, i, V6Chars)
      /\ w.state = "V6Start" => i = h + 1
      /\ w.state = "V6" => w.host = Span(h + 1, i) /\ h + 2 <= i
  <2>1. i = h + 1 => All(t, h + 1, i, V6Chars)
    BY DEF All
  <2> QED
    BY <2>1 DEF InHost
<1>4. v.port = None
  BY <1>1, <1>2 DEF Extend
<1>5. i + 1 \in Nat /\ h <= i + 1
  OBVIOUS
<1> HIDE DEF v, next
<1>6. CASE w.state = "V6" /\ t[i + 1] = "]"
  <2>1. i \in h + 1 + 1 .. i /\ (i + 1) - 1 = i /\ i + 1 \in h + 1 .. a
    BY <1>3, <1>6
  <2>2. HostAt(t, h, a, h + 1, (i + 1) - 1, i + 1)
    <3>1. V6At(t, h + 1, i)
      BY <1>3, <2>1 DEF V6At
    <3> QED
      BY <1>3, <1>6, <2>1, <3>1 DEF HostAt
  <2>3. v.host = Span(h + 1, (i + 1) - 1)
    BY <1>1, <1>2, <1>3, <1>6, <2>1 DEF HostRange
  <2>4. InHost(t, a, h, i + 1, v)
    BY <1>1, <1>2, <1>3, <1>6, <2>2, <2>3 DEF InHost
  <2>5. v.state \in HostStates \ (InUserInfo \union {"Dead"}) /\ v.state # "Port"
    BY <1>1, <1>2, <1>6 DEF HostStates, InUserInfo
  <2>6. HostWalk(t, f, a, i + 1, v)
    BY <1>4, <1>5, <2>4, <2>5, WalkOn
  <2> QED
    BY <2>6 DEF v
<1>7. CASE w.state = "V6" /\ t[i + 1] = "%"
  <2>1. i \in h + 2 .. (i + 1) - 1
    BY <1>3, <1>7
  <2>2. ZoneAt(t, h, i, i + 1)
    <3>1. All(t, i + 1, i + 1, ZoneChars)
      BY DEF All
    <3> QED
      BY <1>3, <1>7, <2>1, <3>1 DEF ZoneAt
  <2>3. v.host = Span(h + 1, i + 1)
    BY <1>1, <1>2, <1>3, <1>7 DEF HostRange, Span
  <2>4. InHost(t, a, h, i + 1, v)
    BY <1>1, <1>2, <1>7, <2>2, <2>3 DEF InHost
  <2>5. v.state \in HostStates \ (InUserInfo \union {"Dead"}) /\ v.state # "Port"
    BY <1>1, <1>2, <1>7 DEF HostStates, InUserInfo
  <2>6. HostWalk(t, f, a, i + 1, v)
    BY <1>4, <1>5, <2>4, <2>5, WalkOn
  <2> QED
    BY <2>6 DEF v
<1>8. CASE next = "V6"
  <2>1. t[i + 1] \in V6Chars
    BY <1>2, <1>8
  <2>2. All(t, h + 1, i + 1, V6Chars)
    <3>1. h + 1 \in Nat
      OBVIOUS
    <3> QED
      BY <1>3, <2>1, <3>1, AllMore
  <2>3. v.host = Span(h + 1, i + 1)
    BY <1>1, <1>3, <1>8 DEF HostRange, Span
  <2>4. InHost(t, a, h, i + 1, v)
    BY <1>1, <1>3, <1>8, <2>2, <2>3 DEF InHost
  <2>5. v.state \in HostStates \ (InUserInfo \union {"Dead"}) /\ v.state # "Port"
    BY <1>1, <1>8 DEF HostStates, InUserInfo
  <2>6. HostWalk(t, f, a, i + 1, v)
    BY <1>4, <1>5, <2>4, <2>5, WalkOn
  <2> QED
    BY <2>6 DEF v
<1>9. CASE next = "Dead"
  <2>1. NoHost(t, h, a)
    <3>1. t[i + 1] \notin V6Chars /\ (i = h + 1 \/ t[i + 1] \notin {"%", "]"})
      BY <1>2, <1>3, <1>9
    <3> QED
      BY <1>3, <3>1, NoAddress
  <2>2. HostWalk(t, f, a, i + 1, v)
    BY <1>1, <1>5, <1>9, <2>1, WalkDies
  <2> QED
    BY <2>2 DEF v
<1> QED
  BY <1>2, <1>6, <1>7, <1>8, <1>9

\* From its zone.
LEMMA WalkZone ==
  ASSUME NEW t, NEW f \in Nat, NEW a \in Nat, NEW i \in Nat, f <= i, i < a,
         NEW w, w.port = None, NEW h \in Nat, f <= h, h <= i,
         ServerAt(t, f, a, h), InHost(t, a, h, i, w), w.state \in {"V6ZoneStart", "V6Zone"}
  PROVE  HostWalk(t, f, a, i + 1, SplitRound(w, i, t[i + 1]))
<1> DEFINE v == SplitRound(w, i, t[i + 1])
           next == HostStep(w.state, t[i + 1])
<1>1. /\ v.state = next /\ v.port = Extend(next = "Port", i, w.port)
      /\ v.host = HostRange(w.host, w.state, next, i)
  BY DEF SplitRound
<1>2. next = IF w.state = "V6Zone" /\ t[i + 1] = "]" THEN "V6End"
             ELSE IF t[i + 1] \in ZoneChars THEN "V6Zone" ELSE "Dead"
  BY HostTable DEF InUserInfo, HostStates
<1>3. PICK z \in Nat : ZoneAt(t, h, z, i) /\ (w.state = "V6ZoneStart" <=> i = z + 1)
  BY DEF InHost
<1>4. w.host = Span(h + 1, i)
  BY DEF InHost
<1>5. /\ z \in h + 2 .. i - 1 /\ t[h + 1] = "["
      /\ All(t, h + 1, z, V6Chars) /\ t[z + 1] = "%" /\ All(t, z + 1, i, ZoneChars)
  BY <1>3 DEF ZoneAt
<1>6. v.port = None
  BY <1>1, <1>2 DEF Extend
<1>7. i + 1 \in Nat /\ h <= i + 1
  OBVIOUS
<1> HIDE DEF v, next
<1>8. CASE w.state = "V6Zone" /\ t[i + 1] = "]"
  <2>1. (i + 1) - 1 = i /\ i + 1 \in h + 1 .. a /\ z \in h + 1 + 1 .. i /\ z + 2 <= i
    BY <1>3, <1>5, <1>8
  <2>2. HostAt(t, h, a, h + 1, (i + 1) - 1, i + 1)
    <3>1. V6At(t, h + 1, i)
      BY <1>5, <2>1 DEF V6At
    <3> QED
      BY <1>5, <1>8, <2>1, <3>1 DEF HostAt
  <2>3. v.host = Span(h + 1, (i + 1) - 1)
    BY <1>1, <1>2, <1>4, <1>8, <2>1 DEF HostRange
  <2>4. InHost(t, a, h, i + 1, v)
    BY <1>1, <1>2, <1>5, <1>8, <2>2, <2>3 DEF InHost
  <2>5. v.state \in HostStates \ (InUserInfo \union {"Dead"}) /\ v.state # "Port"
    BY <1>1, <1>2, <1>8 DEF HostStates, InUserInfo
  <2>6. HostWalk(t, f, a, i + 1, v)
    BY <1>6, <1>7, <2>4, <2>5, WalkOn
  <2> QED
    BY <2>6 DEF v
<1>9. CASE next = "V6Zone"
  <2>1. t[i + 1] \in ZoneChars
    BY <1>2, <1>9
  <2>2. All(t, z + 1, i + 1, ZoneChars)
    <3>1. z + 1 \in Nat
      OBVIOUS
    <3> QED
      BY <1>5, <2>1, <3>1, AllMore
  <2>3. ZoneAt(t, h, z, i + 1) /\ i + 1 # z + 1
    <3>1. z \in h + 2 .. (i + 1) - 1 /\ i + 1 # z + 1
      BY <1>5
    <3> QED
      BY <1>5, <2>2, <3>1 DEF ZoneAt
  <2>4. v.host = Span(h + 1, i + 1)
    BY <1>1, <1>4, <1>9 DEF HostRange, Span
  <2>5. InHost(t, a, h, i + 1, v)
    BY <1>1, <1>9, <2>3, <2>4 DEF InHost
  <2>6. v.state \in HostStates \ (InUserInfo \union {"Dead"}) /\ v.state # "Port"
    BY <1>1, <1>9 DEF HostStates, InUserInfo
  <2>7. HostWalk(t, f, a, i + 1, v)
    BY <1>6, <1>7, <2>5, <2>6, WalkOn
  <2> QED
    BY <2>7 DEF v
<1>10. CASE next = "Dead"
  <2>1. NoHost(t, h, a)
    <3>1. t[i + 1] \notin ZoneChars /\ (i = z + 1 \/ t[i + 1] # "]")
      BY <1>2, <1>3, <1>10
    <3> QED
      BY <1>3, <3>1, NoZone
  <2>2. HostWalk(t, f, a, i + 1, v)
    BY <1>1, <1>7, <1>10, <2>1, WalkDies
  <2> QED
    BY <2>2 DEF v
<1> QED
  BY <1>2, <1>8, <1>9, <1>10

\* From the end of an address.
LEMMA WalkEnd ==
  ASSUME NEW t, NEW f \in Nat, NEW a \in Nat, NEW i \in Nat, f <= i, i < a,
         NEW w, w.port = None, NEW h \in Nat, f <= h, h <= i,
         ServerAt(t, f, a, h), InHost(t, a, h, i, w), w.state = "V6End"
  PROVE  HostWalk(t, f, a, i + 1, SplitRound(w, i, t[i + 1]))
<1> DEFINE v == SplitRound(w, i, t[i + 1])
           next == HostStep(w.state, t[i + 1])
<1>1. /\ v.state = next /\ v.port = Extend(next = "Port", i, w.port)
      /\ v.host = HostRange(w.host, w.state, next, i)
  BY DEF SplitRound
<1>2. next = IF t[i + 1] = ":" THEN "PortStart" ELSE "Dead"
  BY HostTable DEF InUserInfo, HostStates
<1>3. /\ t[h + 1] = "[" /\ HostAt(t, h, a, h + 1, i - 1, i)
      /\ w.host = Span(h + 1, i - 1)
  BY DEF InHost
<1>4. v.port = None
  BY <1>1, <1>2 DEF Extend
<1>5. i + 1 \in Nat /\ h <= i + 1
  OBVIOUS
<1> HIDE DEF v, next
<1>6. CASE t[i + 1] = ":"
  <2>1. v.host = Span(h + 1, i - 1)
    BY <1>1, <1>2, <1>3, <1>6 DEF HostRange
  <2>2. All(t, i + 1, i + 1, DOMAIN Digit)
    BY DEF All
  <2>3. h + 1 \in Nat /\ i - 1 \in Nat
    BY <1>3 DEF HostAt
  <2>4. v.state = "PortStart"
    BY <1>1, <1>2, <1>6
  <2>5. \E lo, hi, e \in Nat :
           /\ HostAt(t, h, a, lo, hi, e) /\ v.host = Span(lo, hi)
           /\ e < i + 1 /\ t[e + 1] = ":" /\ All(t, e + 1, i + 1, DOMAIN Digit)
           /\ v.state = "PortStart" <=> i + 1 = e + 1
           /\ v.state = "Port" => v.port = Span(e + 1, i + 1)
    BY <1>3, <1>6, <2>1, <2>2, <2>3, <2>4
  <2>6. InHost(t, a, h, i + 1, v)
    BY <2>4, <2>5 DEF InHost
  <2>7. v.state \in HostStates \ (InUserInfo \union {"Dead"}) /\ v.state # "Port"
    BY <2>4 DEF HostStates, InUserInfo
  <2>8. HostWalk(t, f, a, i + 1, v)
    BY <1>4, <1>5, <2>6, <2>7, WalkOn
  <2> QED
    BY <2>8 DEF v
<1>7. CASE t[i + 1] # ":"
  <2>1. NoHost(t, h, a)
    BY <1>3, <1>7, NoEnd
  <2>2. HostWalk(t, f, a, i + 1, v)
    BY <1>1, <1>2, <1>5, <1>7, <2>1, WalkDies
  <2> QED
    BY <2>2 DEF v
<1> QED
  BY <1>6, <1>7

\* From a port.
LEMMA WalkPort ==
  ASSUME NEW t, NEW f \in Nat, NEW a \in Nat, NEW i \in Nat, f <= i, i < a,
         NEW w, w.state = "PortStart" => w.port = None, NEW h \in Nat, f <= h, h <= i,
         ServerAt(t, f, a, h), InHost(t, a, h, i, w), w.state \in {"PortStart", "Port"}
  PROVE  HostWalk(t, f, a, i + 1, SplitRound(w, i, t[i + 1]))
<1> DEFINE v == SplitRound(w, i, t[i + 1])
           next == HostStep(w.state, t[i + 1])
<1>1. /\ v.state = next /\ v.port = Extend(next = "Port", i, w.port)
      /\ v.host = HostRange(w.host, w.state, next, i)
  BY DEF SplitRound
<1>2. next = IF t[i + 1] \in DOMAIN Digit THEN "Port" ELSE "Dead"
  BY HostTable DEF InUserInfo, HostStates
<1>3. PICK lo, hi, e \in Nat :
        /\ HostAt(t, h, a, lo, hi, e) /\ w.host = Span(lo, hi)
        /\ e < i /\ t[e + 1] = ":" /\ All(t, e + 1, i, DOMAIN Digit)
        /\ w.state = "PortStart" <=> i = e + 1
        /\ w.state = "Port" => w.port = Span(e + 1, i)
  BY DEF InHost
<1>5. i + 1 \in Nat /\ h <= i + 1
  OBVIOUS
<1> HIDE DEF v, next
<1>6. CASE t[i + 1] \in DOMAIN Digit
  <2>1. v.host = Span(lo, hi)
    BY <1>1, <1>2, <1>3, <1>6 DEF HostRange
  <2>2. All(t, e + 1, i + 1, DOMAIN Digit)
    <3>1. e + 1 \in Nat
      OBVIOUS
    <3> QED
      BY <1>3, <1>6, <3>1, AllMore
  <2>3. v.port = Span(e + 1, i + 1)
    <3>1. CASE w.state = "PortStart"
      BY <1>1, <1>2, <1>3, <1>6, <3>1 DEF Extend, Span
    <3>2. CASE w.state = "Port"
      <4>1. w.port # None /\ w.port.start = e + 1
        BY <1>3, <3>2 DEF Span, None
      <4> QED
        BY <1>1, <1>2, <1>6, <4>1 DEF Extend, Span
    <3> QED
      BY <3>1, <3>2
  <2>4. v.state = "Port"
    BY <1>1, <1>2, <1>6
  <2>5. e < i + 1 /\ i + 1 # e + 1
    BY <1>3
  <2>6. InHost(t, a, h, i + 1, v)
    BY <1>3, <2>1, <2>2, <2>3, <2>4, <2>5 DEF InHost
  <2>7. v.state \in HostStates \ (InUserInfo \union {"Dead"})
    BY <2>4 DEF HostStates, InUserInfo
  <2>8. HostWalk(t, f, a, i + 1, v)
    BY <1>5, <2>4, <2>6, <2>7, WalkOn
  <2> QED
    BY <2>8 DEF v
<1>7. CASE t[i + 1] \notin DOMAIN Digit
  <2>1. NoHost(t, h, a)
    <3>1. i + 1 \in e + 1 + 1 .. a
      BY <1>3
    <3>2. ~All(t, e + 1, a, DOMAIN Digit)
      BY <1>7, <3>1 DEF All
    <3>3. e < a
      BY <1>3
    <3> QED
      BY <1>3, <3>2, <3>3, NoPort
  <2>2. v.state = "Dead"
    BY <1>1, <1>2, <1>7
  <2>3. HostWalk(t, f, a, i + 1, v)
    BY <1>5, <2>1, <2>2, WalkDies
  <2> QED
    BY <2>3 DEF v
<1> QED
  BY <1>6, <1>7

\* Every step of the host machine goes on with what it has read.
LEMMA WalkStep ==
  ASSUME NEW t, NEW f \in Nat, NEW a \in Nat, NEW i \in Nat, f <= i, i < a,
         NEW w, HostWalk(t, f, a, i, w)
  PROVE  HostWalk(t, f, a, i + 1, SplitRound(w, i, t[i + 1]))
<1>1. CASE w.state \in InUserInfo
  BY <1>1, WalkUserInfo
<1>2. CASE w.state = "Dead"
  <2>1. SplitRound(w, i, t[i + 1]).state = "Dead"
    <3>1. HostStep(w.state, t[i + 1]) = "Dead"
      BY <1>2, HostTable DEF HostStates, InUserInfo
    <3> QED
      BY <3>1 DEF SplitRound
  <2>2. NoServer(t, f, a)
    BY <1>2 DEF HostWalk
  <2> HIDE DEF SplitRound
  <2> QED
    BY <2>1, <2>2 DEF HostWalk, HostStates, InUserInfo
<1>3. CASE w.state \notin InUserInfo \union {"Dead"}
  <2>1. PICK h \in f .. i : ServerAt(t, f, a, h) /\ InHost(t, a, h, i, w)
    BY <1>3 DEF HostWalk
  <2>2. h \in Nat /\ f <= h /\ h <= i
    OBVIOUS
  <2>3. w.state \in HostStates
    BY DEF HostWalk
  <2>4. w.state # "Port" => w.port = None
    BY <1>3 DEF HostWalk
  <2>5. CASE w.state = "HostStart"
    BY <2>1, <2>2, <2>4, <2>5, WalkHostStart
  <2>6. CASE w.state = "Host"
    BY <2>1, <2>2, <2>4, <2>6, WalkHost
  <2>7. CASE w.state \in {"V6Start", "V6"}
    <3>1. w.port = None
      BY <2>4, <2>7
    <3> QED
      BY <2>1, <2>2, <2>7, <3>1, WalkAddress
  <2>8. CASE w.state \in {"V6ZoneStart", "V6Zone"}
    <3>1. w.port = None
      BY <2>4, <2>8
    <3> QED
      BY <2>1, <2>2, <2>8, <3>1, WalkZone
  <2>9. CASE w.state = "V6End"
    BY <2>1, <2>2, <2>4, <2>9, WalkEnd
  <2>10. CASE w.state \in {"PortStart", "Port"}
    <3>1. w.state = "PortStart" => w.port = None
      BY <2>4
    <3> QED
      BY <2>1, <2>2, <2>10, <3>1, WalkPort
  <2> QED
    BY <1>3, <2>3, <2>5, <2>6, <2>7, <2>8, <2>9, <2>10 DEF HostStates
<1> QED
  BY <1>1, <1>2, <1>3

\* What the machine has found at the end of the authority.
LEMMA WalkDone ==
  ASSUME NEW t, NEW f \in Nat, NEW a \in Nat, f <= a, NEW w, HostWalk(t, f, a, a, w)
  PROVE  IF w.state \in {"Host", "V6End", "Port"}
         THEN \E h, lo, hi, e \in Nat :
                /\ ServerAt(t, f, a, h) /\ HostAt(t, h, a, lo, hi, e) /\ PortAt(t, e, a)
                /\ w.host = Span(lo, hi)
                /\ w.port = IF e = a THEN None ELSE Span(e + 1, a)
         ELSE NoServer(t, f, a)
<1>1. CASE w.state = "Dead"
  BY <1>1 DEF HostWalk
<1>2. CASE w.state \in InUserInfo
  <2>1. Named(t, f, a) /\ All(t, f, a, UserInfoChars)
    BY <1>2 DEF HostWalk
  <2>2. FALSE
    BY <2>1, CharFacts DEF Named, All
  <2> QED
    BY <2>2
<1>3. CASE w.state \notin InUserInfo \union {"Dead"}
  <2>1. PICK h \in f .. a : ServerAt(t, f, a, h) /\ InHost(t, a, h, a, w)
    BY <1>3 DEF HostWalk
  <2>2. h \in Nat /\ f <= h /\ h <= a
    OBVIOUS
  <2>3. w.state \in HostStates
    BY DEF HostWalk
  <2>4. w.state # "Port" => w.port = None
    BY <1>3 DEF HostWalk
  <2>5. NoHost(t, h, a) => NoServer(t, f, a)
    BY <2>1, <2>2, NoServerHere
  <2>6. CASE w.state = "HostStart"
    <3>1. NoHost(t, h, a)
      BY <2>1, <2>2, <2>6, NoHostHere DEF InHost
    <3> QED
      BY <2>5, <2>6, <3>1
  <2>7. CASE w.state = "Host"
    <3>1. h < a /\ All(t, h, a, HostChars) /\ w.host = Span(h, a)
      BY <2>1, <2>7 DEF InHost
    <3>2. HostAt(t, h, a, h, a, a) /\ PortAt(t, a, a)
      BY <2>2, <3>1 DEF HostAt, PortAt
    <3> QED
      BY <2>1, <2>2, <2>4, <2>7, <3>1, <3>2
  <2>8. CASE w.state \in {"V6Start", "V6"}
    <3>1. t[h + 1] = "[" /\ h + 1 <= a /\ All(t, h + 1, a, V6Chars)
      <4>1. a = h + 1 => All(t, h + 1, a, V6Chars)
        BY DEF All
      <4> QED
        BY <2>1, <2>2, <2>8, <4>1 DEF InHost
    <3>2. NoHost(t, h, a)
      BY <2>2, <3>1, NoAddress
    <3> QED
      BY <2>5, <2>8, <3>2
  <2>9. CASE w.state \in {"V6ZoneStart", "V6Zone"}
    <3>1. PICK z \in Nat : ZoneAt(t, h, z, a)
      BY <2>1, <2>9 DEF InHost
    <3>2. NoHost(t, h, a)
      <4>1. a <= a
        OBVIOUS
      <4> QED
        BY <2>2, <3>1, <4>1, NoZone
    <3> QED
      BY <2>5, <2>9, <3>2
  <2>10. CASE w.state = "V6End"
    <3>1. HostAt(t, h, a, h + 1, a - 1, a) /\ w.host = Span(h + 1, a - 1)
      BY <2>1, <2>10 DEF InHost
    <3>2. h + 1 \in Nat /\ a - 1 \in Nat
      BY <2>2, <3>1 DEF HostAt
    <3>3. PortAt(t, a, a) /\ w.port = None
      BY <2>4, <2>10 DEF PortAt
    <3> DEFINE first == h + 1
               last == a - 1
    <3>4. /\ first \in Nat /\ last \in Nat
          /\ HostAt(t, h, a, first, last, a) /\ w.host = Span(first, last)
      BY <3>1, <3>2
    <3> HIDE DEF first, last
    <3> QED
      BY <2>1, <2>2, <2>10, <3>3, <3>4
  <2>11. CASE w.state \in {"PortStart", "Port"}
    <3>1. PICK lo, hi, e \in Nat :
            /\ HostAt(t, h, a, lo, hi, e) /\ w.host = Span(lo, hi)
            /\ e < a /\ t[e + 1] = ":" /\ All(t, e + 1, a, DOMAIN Digit)
            /\ w.state = "PortStart" <=> a = e + 1
            /\ w.state = "Port" => w.port = Span(e + 1, a)
      BY <2>1, <2>11 DEF InHost
    <3>2. CASE w.state = "PortStart"
      <4>1. NoHost(t, h, a)
        <5>1. e + 1 = a
          BY <3>1, <3>2
        <5> QED
          BY <2>2, <3>1, <5>1, NoPort
      <4> QED
        BY <2>5, <3>2, <4>1
    <3>3. CASE w.state = "Port"
      <4>1. e + 1 < a
        BY <3>1, <3>3
      <4>2. PortAt(t, e, a)
        BY <3>1, <4>1 DEF PortAt
      <4>3. w.port = IF e = a THEN None ELSE Span(e + 1, a)
        BY <3>1, <3>3
      <4> QED
        BY <2>1, <2>2, <3>1, <3>3, <4>2, <4>3
    <3> QED
      BY <2>11, <3>2, <3>3
  <2> QED
    BY <1>3, <2>3, <2>6, <2>7, <2>8, <2>9, <2>10, <2>11 DEF HostStates
<1> QED
  BY <1>1, <1>2, <1>3

-----------------------------------------------------------------------------
(* Loops: what a recursive function of the model computes. *)

\* A loop has a result: the function that is defined by what one round does.
IsLoop(a, b, S, x, G) ==
    a \in Nat /\ b \in Nat /\ a <= b /\ x \in S /\ G \in [(a .. b) \X S -> S]

RunOf(a, b, S, x, G, f) ==
    f \in [a .. b -> S] /\ f[a] = x /\ \A i \in a + 1 .. b : f[i] = G[<<i, f[i - 1]>>]

\* By the least round without a result: there is none.
LEMMA LoopExists ==
  ASSUME NEW a, NEW b, NEW S, NEW x, NEW G, IsLoop(a, b, S, x, G)
  PROVE  \E f : RunOf(a, b, S, x, G, f)
<1> DEFINE T == {c \in a .. b : ~ \E f : RunOf(a, c, S, x, G, f)}
<1>1. a \in Nat /\ b \in Nat /\ a <= b /\ x \in S /\ G \in [(a .. b) \X S -> S]
  BY DEF IsLoop
<1>2. SUFFICES ASSUME T # {} PROVE FALSE
  <2>1. b \in a .. b
    BY <1>1
  <2> QED
    BY <1>2, <2>1
<1>3. PICK c \in T : \A k \in T : c <= k
  <2>1. T \in SUBSET Nat
    BY <1>1
  <2> HIDE DEF T
  <2> QED
    BY <1>2, <2>1, Least
<1>4. c \in a .. b /\ ~ \E f : RunOf(a, c, S, x, G, f)
  OBVIOUS
<1>5. c # a
  <2> DEFINE f == [i \in a .. a |-> x]
  <2>1. RunOf(a, a, S, x, G, f)
    BY <1>1 DEF RunOf
  <2> QED
    BY <1>4, <2>1
<1>6. PICK f : RunOf(a, c - 1, S, x, G, f)
  <2>1. c - 1 \in a .. b /\ ~(c <= c - 1)
    BY <1>1, <1>4, <1>5
  <2> QED
    BY <1>3, <2>1
<1>7. /\ f \in [a .. c - 1 -> S] /\ f[a] = x
      /\ \A i \in a + 1 .. c - 1 : f[i] = G[<<i, f[i - 1]>>]
  BY <1>6 DEF RunOf
<1> DEFINE g == [i \in a .. c |-> IF i = c THEN G[<<c, f[c - 1]>>] ELSE f[i]]
<1>8. G[<<c, f[c - 1]>>] \in S
  <2>1. <<c, f[c - 1]>> \in (a .. b) \X S
    BY <1>1, <1>4, <1>5, <1>7
  <2> QED
    BY <1>1, <2>1
<1>9. g \in [a .. c -> S] /\ g[a] = x
  BY <1>1, <1>4, <1>5, <1>7, <1>8
<1>10. \A i \in a + 1 .. c : g[i] = G[<<i, g[i - 1]>>]
  <2> SUFFICES ASSUME NEW i \in a + 1 .. c PROVE g[i] = G[<<i, g[i - 1]>>]
    OBVIOUS
  <2>1. i - 1 \in a .. c - 1 /\ i \in a .. c /\ i - 1 \in a .. c /\ i - 1 # c
    BY <1>1, <1>4
  <2>2. g[i - 1] = f[i - 1]
    BY <2>1
  <2>3. CASE i = c
    BY <2>1, <2>2, <2>3
  <2>4. CASE i # c
    <3>1. i \in a + 1 .. c - 1
      BY <1>1, <1>4, <2>4
    <3> QED
      BY <1>7, <2>1, <2>2, <2>4, <3>1
  <2> QED
    BY <2>3, <2>4
<1>11. RunOf(a, c, S, x, G, g)
  <2> HIDE DEF g
  <2> QED
    BY <1>9, <1>10 DEF RunOf
<1> QED
  BY <1>4, <1>11

\* A field stays one when it is extended, ...
LEMMA Extended ==
  ASSUME NEW condition, NEW i \in Nat, NEW range \in Ranges
  PROVE  Extend(condition, i, range) \in Ranges
BY DEF Extend, Ranges

Walks == [state : HostStates, host : Ranges, port : Ranges]

\* ... and the fields of the host machine stay what they are.
LEMMA WalkTyped ==
  ASSUME NEW w \in Walks, NEW i \in Nat, NEW ch
  PROVE  SplitRound(w, i, ch) \in Walks
<1>1. w.state \in HostStates /\ w.host \in Ranges /\ w.port \in Ranges
  BY DEF Walks
<1> DEFINE next == HostStep(w.state, ch)
<1>2. next \in HostStates
  BY <1>1, HostTable DEF HostStates, InUserInfo
<1>3. HostRange(w.host, w.state, next, i) \in Ranges
  <2> HIDE DEF next
  <2> QED
    BY <1>1 DEF HostRange, Ranges
<1>4. Extend(next = "Port", i, w.port) \in Ranges
  BY <1>1, Extended
<1>5. SplitRound(w, i, ch) = [state |-> next, host |-> HostRange(w.host, w.state, next, i),
                              port |-> Extend(next = "Port", i, w.port)]
  BY DEF SplitRound
<1> HIDE DEF next
<1> QED
  BY <1>2, <1>3, <1>4, <1>5 DEF Walks

\* What split_host returns is what the machine has found at the end of the authority: no
\* round of the loop is the first to have lost it.
LEMMA SplitHostWalks ==
  ASSUME NEW S, NEW t \in Seq(S), NEW f \in Nat, NEW a \in Nat, f <= a, a <= Len(t), NEW m,
         m.authority = Span(f, a), m.foundAt <=> Named(t, f, a)
  PROVE  HostWalk(t, f, a, a, SplitHost(t, m))
<1> DEFINE x == [state |-> IF m.foundAt THEN "UserInfoStart" ELSE "HostStart",
                 host |-> [start |-> f, end |-> f], port |-> None]
           G == [p \in (f .. a) \X Walks |-> IF p[1] = f THEN x ELSE SplitRound(p[2], p[1] - 1, t[p[1]])]
           Is(g) == g = [i \in f .. a |-> IF i = f THEN x ELSE SplitRound(g[i - 1], i - 1, t[i])]
<1>1. x \in Walks
  BY DEF Walks, HostStates, InUserInfo, Ranges, None
<1>2. G \in [(f .. a) \X Walks -> Walks]
  <2> HIDE DEF x
  <2> SUFFICES ASSUME NEW i \in f .. a, NEW w \in Walks, i # f
               PROVE  SplitRound(w, i - 1, t[i]) \in Walks
    BY <1>1
  <2>1. i - 1 \in Nat
    OBVIOUS
  <2> QED
    BY <2>1, WalkTyped
<1>3. PICK g : g \in [f .. a -> Walks] /\ g[f] = x /\ \A i \in f + 1 .. a : g[i] = G[<<i, g[i - 1]>>]
  <2> HIDE DEF G, x, Is
  <2>1. IsLoop(f, a, Walks, x, G)
    BY <1>1, <1>2 DEF IsLoop
  <2>2. \E g : RunOf(f, a, Walks, x, G, g)
    BY <2>1, LoopExists
  <2> QED
    BY <2>2 DEF RunOf
<1>4. \A i \in f + 1 .. a : g[i] = SplitRound(g[i - 1], i - 1, t[i])
  <2> SUFFICES ASSUME NEW i \in f + 1 .. a PROVE g[i] = SplitRound(g[i - 1], i - 1, t[i])
    OBVIOUS
  <2>1. <<i, g[i - 1]>> \in (f .. a) \X Walks /\ i # f
    BY <1>3
  <2> HIDE DEF x
  <2> QED
    BY <1>3, <2>1
<1>5. Is(g)
  <2> HIDE DEF x
  <2> QED
    BY <1>3, <1>4
<1> DEFINE upTo == CHOOSE g_ : Is(g_)
<1>6. Is(upTo)
  BY <1>5, Zenon
<1>7. SplitHost(t, m) = upTo[a]
  <2>1. m.authority.start = f /\ m.authority.end = a
    BY DEF Span
  <2> QED
    BY <2>1 DEF SplitHost
<1>8. upTo[f] = x /\ \A i \in f + 1 .. a : upTo[i] = SplitRound(upTo[i - 1], i - 1, t[i])
  <2> HIDE DEF upTo, x
  <2> QED
    BY <1>6
<1> HIDE DEF upTo
<1> DEFINE T == {i \in f .. a : ~HostWalk(t, f, a, i, upTo[i])}
<1>9. T = {}
  <2> SUFFICES ASSUME T # {} PROVE FALSE
    OBVIOUS
  <2>1. PICK i \in T : \A k \in T : i <= k
    <3>1. T \in SUBSET Nat
      OBVIOUS
    <3> HIDE DEF T
    <3> QED
      BY <3>1, Least
  <2>2. i \in f .. a /\ ~HostWalk(t, f, a, i, upTo[i])
    OBVIOUS
  <2>3. HostWalk(t, f, a, f, upTo[f])
    <3>1. upTo[f].state = (IF Named(t, f, a) THEN "UserInfoStart" ELSE "HostStart") /\ upTo[f].port = None
      BY <1>8
    <3> QED
      BY <3>1, WalkStart
  <2>4. i # f
    BY <2>2, <2>3
  <2> DEFINE j == i - 1
  <2>5. j \in f .. a /\ j \in Nat /\ f <= j /\ j < a /\ j + 1 = i /\ ~(i <= j) /\ i \in f + 1 .. a
    BY <2>2, <2>4
  <2>6. HostWalk(t, f, a, j, upTo[j])
    <3>1. j \notin T
      BY <2>1, <2>5
    <3> QED
      BY <2>5, <3>1
  <2>7. upTo[i] = SplitRound(upTo[j], j, t[i])
    BY <1>8, <2>5
  <2> HIDE DEF j, T
  <2>8. HostWalk(t, f, a, j + 1, SplitRound(upTo[j], j, t[j + 1]))
    BY <2>5, <2>6, WalkStep
  <2> QED
    BY <2>2, <2>5, <2>7, <2>8
<1>10. a \in f .. a
  OBVIOUS
<1> QED
  BY <1>7, <1>9, <1>10

\* No digits have the value zero, ...
LEMMA NoDigits == Value(<<>>) = 0
<1> DEFINE n == Len(<<>>)
           Is(g) == g = [i \in 0 .. n |-> IF i = 0 THEN 0 ELSE g[i - 1] * 10 + Digit[<<>>[i]]]
           zero == [i \in 0 .. n |-> 0]
<1>1. n = 0
  OBVIOUS
<1>2. Is(zero)
  <2>1. \A i \in 0 .. n : i = 0
    BY <1>1
  <2> HIDE DEF n
  <2> QED
    BY <2>1
<1> DEFINE upTo == CHOOSE g_ : Is(g_)
<1>3. Is(upTo)
  BY <1>2, Zenon
<1>4. Value(<<>>) = upTo[n]
  BY DEF Value
<1> HIDE DEF upTo
<1>5. upTo[0] = 0
  BY <1>1, <1>3
<1> QED
  BY <1>1, <1>4, <1>5

-----------------------------------------------------------------------------
(* What parse_url makes of the marks. *)

\* ... and any have a value.
LEMMA ValueTyped ==
  ASSUME NEW d \in Seq(DOMAIN Digit)
  PROVE  Value(d) \in Nat
<1> DEFINE n == Len(d)
           G == [p \in (0 .. n) \X Nat |-> IF p[1] = 0 THEN 0 ELSE p[2] * 10 + Digit[d[p[1]]]]
           Is(g) == g = [i \in 0 .. n |-> IF i = 0 THEN 0 ELSE g[i - 1] * 10 + Digit[d[i]]]
<1>1. n \in Nat
  OBVIOUS
<1>2. \A i \in 1 .. n : Digit[d[i]] \in Nat
  <2> SUFFICES ASSUME NEW i \in 1 .. n PROVE Digit[d[i]] \in Nat
    OBVIOUS
  <2>1. d[i] \in DOMAIN Digit
    OBVIOUS
  <2>2. Digit[d[i]] \in 0 .. 9
    BY <2>1, UrlOK
  <2> QED
    BY <2>2
<1> HIDE DEF n
<1>3. G \in [(0 .. n) \X Nat -> Nat]
  <2> SUFFICES ASSUME NEW i \in 0 .. n, NEW v \in Nat, i # 0 PROVE v * 10 + Digit[d[i]] \in Nat
    OBVIOUS
  <2>1. Digit[d[i]] \in Nat
    BY <1>1, <1>2
  <2> QED
    BY <2>1
<1>4. PICK g : g \in [0 .. n -> Nat] /\ g[0] = 0 /\ \A i \in 0 + 1 .. n : g[i] = G[<<i, g[i - 1]>>]
  <2> HIDE DEF G, Is
  <2>1. IsLoop(0, n, Nat, 0, G)
    BY <1>1, <1>3 DEF IsLoop
  <2>2. \E g : RunOf(0, n, Nat, 0, G, g)
    BY <2>1, LoopExists
  <2> QED
    BY <2>2 DEF RunOf
<1>5. \A i \in 1 .. n : g[i] = g[i - 1] * 10 + Digit[d[i]]
  <2> SUFFICES ASSUME NEW i \in 1 .. n PROVE g[i] = g[i - 1] * 10 + Digit[d[i]]
    OBVIOUS
  <2> DEFINE p == <<i, g[i - 1]>>
  <2>1. p \in (0 .. n) \X Nat /\ p[1] = i /\ p[2] = g[i - 1] /\ i # 0
    BY <1>1, <1>4
  <2>2. g[i] = G[p]
    <3>1. i \in 0 + 1 .. n
      BY <1>1
    <3> HIDE DEF G
    <3> QED
      BY <1>4, <3>1
  <2> HIDE DEF p
  <2>3. G[p] = p[2] * 10 + Digit[d[p[1]]]
    BY <2>1
  <2> QED
    BY <2>1, <2>2, <2>3
<1>6. Is(g)
  BY <1>1, <1>4, <1>5
<1> DEFINE upTo == CHOOSE g_ : Is(g_)
<1>7. Is(upTo)
  BY <1>6, Zenon
<1>8. Value(d) = upTo[n]
  BY DEF Value, n
<1>9. upTo[0] = 0 /\ \A i \in 1 .. n : upTo[i] = upTo[i - 1] * 10 + Digit[d[i]]
  <2> HIDE DEF upTo
  <2> QED
    BY <1>1, <1>7
<1> HIDE DEF upTo
<1> DEFINE T == {i \in 0 .. n : upTo[i] \notin Nat}
<1>10. T = {}
  <2> SUFFICES ASSUME T # {} PROVE FALSE
    OBVIOUS
  <2>1. PICK i \in T : \A j \in T : i <= j
    <3>1. T \in SUBSET Nat
      BY <1>1
    <3> HIDE DEF T
    <3> QED
      BY <3>1, Least
  <2>2. i \in 1 .. n /\ i - 1 \in 0 .. n /\ ~(i <= i - 1)
    BY <1>1, <1>9
  <2>3. upTo[i - 1] \in Nat
    BY <2>1, <2>2
  <2> QED
    BY <1>2, <1>9, <2>2, <2>3
<1> QED
  BY <1>1, <1>8, <1>10

\* There is one scheme.
LEMMA SchemeUnique ==
  ASSUME NEW t, NEW k \in Nat, NEW j \in Nat, SchemeAt(t, k), SchemeAt(t, j)
  PROVE  k = j
<1>1. ~(k < j)
  <2>1. k < j => k + 1 \in 0 + 1 .. j
    OBVIOUS
  <2> QED
    BY <2>1, CharFacts DEF SchemeAt, All
<1>2. ~(j < k)
  <2>1. j < k => j + 1 \in 0 + 1 .. k
    OBVIOUS
  <2> QED
    BY <2>1, CharFacts DEF SchemeAt, All
<1> QED
  BY <1>1, <1>2

\* There is one way to read a URL.
LEMMA NotUrl ==
  ASSUME NEW S, NEW t \in Seq(S), NEW k \in Nat, NEW a \in Nat, SchemeAt(t, k), AuthorityAt(t, k, a),
         \A h, lo, hi, e \in Nat : ~UrlAt(t, k, a, h, lo, hi, e)
  PROVE  ByGrammar(t) = NoUrl
<1> SUFFICES ASSUME ByGrammar(t) # NoUrl PROVE FALSE
  OBVIOUS
<1>1. PICK k1, a1, h, lo, hi, e \in Nat : UrlAt(t, k1, a1, h, lo, hi, e)
  BY GrammarFound
<1>2. k1 = k
  BY <1>1, SchemeUnique DEF UrlAt
<1>3. a1 = a
  <2>1. CutAt(t, k + 3, Len(t), {"/", "?"}, a) /\ CutAt(t, k + 3, Len(t), {"/", "?"}, a1)
    BY <1>1, <1>2 DEF UrlAt, AuthorityAt
  <2>2. k + 3 \in Nat /\ Len(t) \in Nat
    OBVIOUS
  <2> QED
    BY <2>1, <2>2, CutUnique
<1> QED
  BY <1>1, <1>2, <1>3

\* What the main machine has marked at the end of a text with a scheme and an authority.
MarkedUrl(t, k, a, m) ==
    /\ SchemeAt(t, k) /\ AuthorityAt(t, k, a) /\ All(t, a, Len(t), RestChars)
    /\ m.state # "Dead" /\ m.schema = Span(0, k)
    /\ m.authority = IF k + 3 = a THEN None ELSE Span(k + 3, a)
    /\ m.foundAt <=> Named(t, k + 3, a)
    /\ IF a < Len(t) /\ t[a + 1] = "/" THEN m.path # None /\ m.path.start = a ELSE m.path = None

\* parse_url reads in it what the grammar does.
LEMMA PartsAreUrl ==
  ASSUME NEW S, NEW t \in Seq(S), NEW k \in Nat, NEW a \in Nat, NEW m, MarkedUrl(t, k, a, m)
  PROVE  Parts(t, m) = ByGrammar(t)
<1> DEFINE f == k + 3
           split == SplitHost(t, m)
<1>1. /\ SchemeAt(t, k) /\ AuthorityAt(t, k, a) /\ All(t, a, Len(t), RestChars)
      /\ m.state # "Dead" /\ m.schema = Span(0, k)
      /\ m.authority = IF f = a THEN None ELSE Span(f, a)
      /\ m.foundAt <=> Named(t, f, a)
      /\ IF a < Len(t) /\ t[a + 1] = "/" THEN m.path # None /\ m.path.start = a ELSE m.path = None
  BY DEF MarkedUrl
<1>2. f \in Nat /\ f <= a /\ a <= Len(t) /\ 0 < k /\ Len(t) \in Nat
  BY <1>1 DEF SchemeAt, AuthorityAt, CutAt
<1>3. m.schema # None /\ Slice(t, m.schema) = Cutout(t, 0, k)
  BY <1>1, <1>2 DEF Span, None, Slice, Cutout
<1>4. CASE f = a
  <2>1. ASSUME NEW h \in Nat, NEW lo \in Nat, NEW hi \in Nat, NEW e \in Nat, UrlAt(t, k, a, h, lo, hi, e)
        PROVE  FALSE
    <3>1. ServerAt(t, f, a, h) /\ e \in h + 1 .. a
      BY <2>1 DEF UrlAt, HostAt
    <3>2. h >= f
      BY <1>2, <3>1 DEF ServerAt
    <3> QED
      BY <1>2, <1>4, <3>1, <3>2
  <2>2. ByGrammar(t) = NoUrl
    BY <1>1, <2>1, NotUrl
  <2> QED
    BY <1>1, <1>4, <2>2 DEF Parts
<1>5. CASE f # a
  <2>1. m.authority = Span(f, a) /\ m.authority # None
    BY <1>1, <1>2, <1>5 DEF Span, None
  <2>2. HostWalk(t, f, a, a, split)
    <3> HIDE DEF f
    <3> QED
      BY <1>1, <1>2, <2>1, SplitHostWalks
  <2>3. Parts(t, m) = IF \/ split.state \notin {"Host", "V6End", "Port"}
                         \/ Value(Slice(t, split.port)) > MaxPort
                      THEN NoUrl
                      ELSE [scheme |-> Slice(t, m.schema),
                            host |-> Slice(t, split.host),
                            port |-> Slice(t, split.port),
                            path |-> IF m.path = None THEN <<"/">>
                                     ELSE SubSeq(t, m.path.start + 1, Len(t))]
    BY <1>1, <1>3, <2>1 DEF Parts
  <2> HIDE DEF split
  <2>4. CASE split.state \notin {"Host", "V6End", "Port"}
    <3>1. NoServer(t, f, a)
      <4> HIDE DEF f
      <4> QED
        BY <1>2, <2>2, <2>4, WalkDone
    <3>2. \A h, lo, hi, e \in Nat : ~UrlAt(t, k, a, h, lo, hi, e)
      BY <3>1 DEF UrlAt, NoServer, NoHost
    <3>3. ByGrammar(t) = NoUrl
      BY <1>1, <3>2, NotUrl
    <3> QED
      BY <2>3, <2>4, <3>3
  <2>5. CASE split.state \in {"Host", "V6End", "Port"}
    <3>1. PICK h, lo, hi, e \in Nat :
                /\ ServerAt(t, f, a, h) /\ HostAt(t, h, a, lo, hi, e) /\ PortAt(t, e, a)
                /\ split.host = Span(lo, hi)
                /\ split.port = IF e = a THEN None ELSE Span(e + 1, a)
      <4> HIDE DEF f
      <4> QED
        BY <1>2, <2>2, <2>5, WalkDone
    <3>2. Slice(t, split.host) = Cutout(t, lo, hi)
      BY <3>1 DEF Slice, Span, Cutout
    <3>3. e <= a
      BY <3>1 DEF HostAt
    <3>4. Slice(t, split.port) = Cutout(t, e + 1, a)
      <4>1. CASE e = a
        <5>1. Cutout(t, e + 1, a) = <<>>
          <6>1. e + 1 \in Nat /\ a <= e + 1
            BY <4>1
          <6> QED
            BY <1>2, <6>1, CutNone
        <5>2. Cutout(t, 0, 0) = <<>>
          <6>1. 0 \in Nat /\ 0 <= 0 /\ 0 <= Len(t)
            BY <1>2
          <6> QED
            BY <6>1, CutNone
        <5>3. Slice(t, split.port) = Cutout(t, 0, 0)
          BY <3>1, <4>1 DEF Slice, None, Cutout
        <5> QED
          BY <5>1, <5>2, <5>3
      <4>2. CASE e # a
        BY <3>1, <4>2 DEF Slice, Span, Cutout
      <4> QED
        BY <4>1, <4>2
    <3>5. (Value(Slice(t, split.port)) > MaxPort) <=> ~PortFits(t, e, a)
      <4>1. CASE e = a
        <5>1. Slice(t, split.port) = <<>>
          <6>1. e + 1 \in Nat /\ a <= e + 1
            BY <4>1
          <6> QED
            BY <1>2, <3>4, <6>1, CutNone
        <5>2. Value(Slice(t, split.port)) = 0
          BY <5>1, NoDigits
        <5> QED
          BY <4>1, <5>2, UrlOK DEF PortFits
      <4>2. CASE e # a
        <5> DEFINE d == Cutout(t, e + 1, a)
        <5>1. e + 1 < a /\ All(t, e + 1, a, DOMAIN Digit)
          BY <3>1, <4>2 DEF PortAt
        <5>2. d \in Seq(DOMAIN Digit)
          <6>1. e + 1 \in Nat /\ e + 1 <= a
            BY <5>1
          <6> DEFINE lo1 == e + 1
          <6>2. lo1 \in Nat /\ lo1 <= a
            BY <6>1
          <6> HIDE DEF lo1
          <6>3. Cutout(t, lo1, a) \in Seq(S)
            BY <1>2, <6>2, CutFacts
          <6>4. Of(Cutout(t, lo1, a), DOMAIN Digit)
            <7>1. Of(Cutout(t, lo1, a), DOMAIN Digit) <=> All(t, lo1, a, DOMAIN Digit)
              BY <1>2, <6>2, CutOf
            <7> QED
              BY <5>1, <7>1 DEF lo1
          <6>5. \A i \in 1 .. Len(Cutout(t, lo1, a)) : Cutout(t, lo1, a)[i] \in DOMAIN Digit
            BY <6>4 DEF Of
          <6>6. Cutout(t, lo1, a) \in Seq(DOMAIN Digit)
            <7> DEFINE c == Cutout(t, lo1, a)
            <7>1. c \in Seq(S) /\ \A i \in 1 .. Len(c) : c[i] \in DOMAIN Digit
              BY <6>3, <6>5
            <7> HIDE DEF c
            <7>2. c \in Seq(DOMAIN Digit)
              BY <7>1
            <7> QED
              BY <7>2 DEF c
          <6> QED
            BY <6>6 DEF lo1
        <5>3. Value(d) \in Nat
          BY <5>2, ValueTyped
        <5>4. PortFits(t, e, a) <=> Value(d) <= MaxPort
          BY <4>2 DEF PortFits
        <5> HIDE DEF d
        <5> QED
          BY <3>4, <5>3, <5>4, UrlOK DEF d
      <4> QED
        BY <4>1, <4>2
    <3>6. CASE PortFits(t, e, a)
      <4>1. UrlAt(t, k, a, h, lo, hi, e)
        BY <1>1, <3>1, <3>6 DEF UrlAt
      <4> DEFINE read == IF m.path = None THEN <<"/">> ELSE SubSeq(t, m.path.start + 1, Len(t))
                 rest == IF a < Len(t) /\ t[a + 1] = "/" THEN Cutout(t, a, Len(t)) ELSE <<"/">>
      <4>2. ByGrammar(t) = [scheme |-> Cutout(t, 0, k), host |-> Cutout(t, lo, hi),
                            port |-> Cutout(t, e + 1, a), path |-> rest]
        <5> HIDE DEF read
        <5>1. ByGrammar(t) = UrlIs(t, k, a, lo, hi, e)
          BY <4>1, GrammarReads, SMTT(30)
        <5> QED
          BY <5>1 DEF UrlIs
      <4>3. read = rest
        BY <1>1 DEF Cutout
      <4>4. Parts(t, m) = [scheme |-> Slice(t, m.schema), host |-> Slice(t, split.host),
                           port |-> Slice(t, split.port), path |-> read]
        BY <2>3, <2>5, <3>5, <3>6
      <4> HIDE DEF read, rest
      <4> QED
        BY <1>3, <3>2, <3>4, <4>2, <4>3, <4>4
    <3>7. CASE ~PortFits(t, e, a)
      <4>1. ASSUME NEW h1 \in Nat, NEW lo1 \in Nat, NEW hi1 \in Nat, NEW e1 \in Nat,
                   UrlAt(t, k, a, h1, lo1, hi1, e1)
            PROVE  FALSE
        <5>1. /\ ServerAt(t, f, a, h1) /\ HostAt(t, h1, a, lo1, hi1, e1)
              /\ PortAt(t, e1, a) /\ PortFits(t, e1, a)
          BY <4>1 DEF UrlAt
        <5>2. h1 = h
          <6> HIDE DEF f
          <6> QED
            BY <1>2, <3>1, <5>1, ServerUnique
        <5>3. EndsAt(t, h, a, lo, hi, e) /\ EndsAt(t, h, a, lo1, hi1, e1)
          BY <3>1, <5>1, <5>2 DEF EndsAt, PortAt
        <5>4. e = e1
          BY <5>3, HostUnique
        <5> QED
          BY <3>7, <5>1, <5>4
      <4>2. ByGrammar(t) = NoUrl
        BY <1>1, <4>1, NotUrl
      <4> QED
        BY <2>3, <3>5, <3>7, <4>2
    <3> QED
      BY <3>6, <3>7
  <2> QED
    BY <2>4, <2>5
<1> QED
  BY <1>4, <1>5

-----------------------------------------------------------------------------
(* The steps of the main machine. *)

InRest == {"Path", "QueryStart", "Query", "FragmentStart", "Fragment"}

\* Where the main machine goes.
Onward(st, ch) ==
    CASE st = "SpacesBeforeUrl" ->
           IF ch \in {"/", "*"} THEN "Path" ELSE IF ch \in Letters THEN "Schema" ELSE "Dead"
      [] st = "Schema" ->
           IF ch \in Letters THEN "Schema" ELSE IF ch = ":" THEN "SchemaSlash" ELSE "Dead"
      [] st = "SchemaSlash" -> IF ch = "/" THEN "SchemaSlashSlash" ELSE "Dead"
      [] st = "SchemaSlashSlash" -> IF ch = "/" THEN "ServerStart" ELSE "Dead"
      [] st \in InServer ->
           IF ch = "/" THEN "Path" ELSE IF ch = "?" THEN "QueryStart"
           ELSE IF ch = "@" THEN IF st = "ServerWithAt" THEN "Dead" ELSE "ServerWithAt"
           ELSE IF ch \in ServerChars THEN "Server" ELSE "Dead"
      [] st = "Path" ->
           IF ch \in UrlChars THEN "Path" ELSE IF ch = "?" THEN "QueryStart"
           ELSE IF ch = "#" THEN "FragmentStart" ELSE "Dead"
      [] st \in InQuery ->
           IF ch = "#" THEN "FragmentStart" ELSE IF ch \in RestChars THEN "Query" ELSE "Dead"
      [] st = "FragmentStart" ->
           IF ch = "#" THEN "FragmentStart" ELSE IF ch \in RestChars THEN "Fragment" ELSE "Dead"
      [] st = "Fragment" -> IF ch \in RestChars THEN "Fragment" ELSE "Dead"
      [] OTHER -> "Dead"

\* The moves of the main machine, in one table.
LEMMA UrlTable ==
  ASSUME NEW st \in States, NEW ch
  PROVE  UrlStep(st, ch) = Onward(st, ch)
<1> DEFINE to == Onward(st, ch)
<1>1. \A o \in UrlMoves : st \in o.from /\ ch \in o.on => o.to = to
  <2>1. /\ ":" \notin Letters /\ "/" \notin Letters /\ "*" \notin Letters
        /\ "/" \notin ServerChars /\ "?" \notin ServerChars /\ "@" \notin UserInfoChars
        /\ "?" \notin UrlChars /\ "#" \notin UrlChars
    BY CharFacts
  <2> QED
    BY <2>1 DEF UrlMoves, Move, States, InServer, InQuery, Onward, ServerChars, RestChars
<1>2. CASE to = "Dead"
  <2>1. \A o \in UrlMoves : o.to # "Dead"
    BY DEF UrlMoves, Move
  <2> HIDE DEF to
  <2>2. \A o \in UrlMoves : ~(st \in o.from /\ ch \in o.on)
    BY <1>1, <1>2, <2>1
  <2> QED
    BY <1>2, <2>2, StepDies DEF UrlStep, to
<1>3. CASE to # "Dead"
  <2>1. PICK o \in UrlMoves : st \in o.from /\ ch \in o.on
    <3> DEFINE Open == \E o \in UrlMoves : st \in o.from /\ ch \in o.on
    <3>1. /\ Move({"SpacesBeforeUrl"}, {"/", "*"}, "Path") \in UrlMoves
          /\ Move({"SpacesBeforeUrl", "Schema"}, Letters, "Schema") \in UrlMoves
          /\ Move({"Schema"}, {":"}, "SchemaSlash") \in UrlMoves
          /\ Move({"SchemaSlash"}, {"/"}, "SchemaSlashSlash") \in UrlMoves
          /\ Move({"SchemaSlashSlash"}, {"/"}, "ServerStart") \in UrlMoves
          /\ Move(InServer, {"/"}, "Path") \in UrlMoves
          /\ Move(InServer, {"?"}, "QueryStart") \in UrlMoves
          /\ Move({"ServerStart", "Server"}, {"@"}, "ServerWithAt") \in UrlMoves
          /\ Move(InServer, UserInfoChars \union {"[", "]"}, "Server") \in UrlMoves
          /\ Move({"Path"}, UrlChars, "Path") \in UrlMoves
          /\ Move({"Path"}, {"?"}, "QueryStart") \in UrlMoves
          /\ Move(InQuery, UrlChars \union {"?"}, "Query") \in UrlMoves
          /\ Move({"Path", "FragmentStart"} \union InQuery, {"#"}, "FragmentStart") \in UrlMoves
          /\ Move({"FragmentStart", "Fragment"}, UrlChars \union {"?"}, "Fragment") \in UrlMoves
          /\ Move({"Fragment"}, {"#"}, "Fragment") \in UrlMoves
      BY DEF UrlMoves
    <3>2. \A from, on, next : Move(from, on, next).from = from /\ Move(from, on, next).on = on
      BY DEF Move
    <3>3. ASSUME NEW from, NEW on, NEW next, Move(from, on, next) \in UrlMoves, st \in from, ch \in on
          PROVE  Open
      BY <3>2, <3>3
    <3> HIDE DEF Open
    <3>4. /\ st \in {"SpacesBeforeUrl"} /\ ch \in {"/", "*"} => Open
          /\ st \in {"SpacesBeforeUrl", "Schema"} /\ ch \in Letters => Open
          /\ st \in {"Schema"} /\ ch \in {":"} => Open
          /\ st \in {"SchemaSlash"} /\ ch \in {"/"} => Open
          /\ st \in {"SchemaSlashSlash"} /\ ch \in {"/"} => Open
          /\ st \in InServer /\ ch \in {"/"} => Open
          /\ st \in InServer /\ ch \in {"?"} => Open
          /\ st \in {"ServerStart", "Server"} /\ ch \in {"@"} => Open
          /\ st \in InServer /\ ch \in UserInfoChars \union {"[", "]"} => Open
          /\ st \in {"Path"} /\ ch \in UrlChars => Open
          /\ st \in {"Path"} /\ ch \in {"?"} => Open
          /\ st \in InQuery /\ ch \in UrlChars \union {"?"} => Open
          /\ st \in {"Path", "FragmentStart"} \union InQuery /\ ch \in {"#"} => Open
          /\ st \in {"FragmentStart", "Fragment"} /\ ch \in UrlChars \union {"?"} => Open
          /\ st \in {"Fragment"} /\ ch \in {"#"} => Open
      BY <3>1, <3>3, Zenon
    <3>5. Open
      BY <1>3, <3>4 DEF Onward, States, InServer, InQuery, ServerChars, RestChars
    <3> QED
      BY <3>5 DEF Open
  <2> HIDE DEF to
  <2>2. Step(UrlMoves, st, ch) = to
    BY <1>1, <2>1, StepIs
  <2> QED
    BY <2>2 DEF UrlStep, to
<1> QED
  BY <1>2, <1>3

-----------------------------------------------------------------------------
(* The main machine on a text. *)

\* The machine has got to i in the scheme, whose letters end at k, ...
SchemeWalk(t, i, m, k) ==
    /\ k > 0 /\ All(t, 0, k, Letters) /\ m.schema = Span(0, k) /\ i = k + Separator(m.state)
    /\ m.state # "Schema" => t[k + 1] = ":"
    /\ m.state = "SchemaSlashSlash" => t[k + 2] = "/"
    /\ m.authority = None /\ m.path = None /\ ~m.foundAt

\* ... in the authority behind it, ...
AuthorityWalk(t, i, m, k) ==
    /\ SchemeAt(t, k) /\ m.schema = Span(0, k) /\ k + 3 <= i
    /\ All(t, k + 3, i, ServerChars)
    /\ m.authority = IF k + 3 = i THEN None ELSE Span(k + 3, i)
    /\ m.foundAt <=> Named(t, k + 3, i)
    /\ m.path = None
    /\ m.state = "ServerWithAt" => k + 3 < i /\ t[i] = "@"

\* ... or behind the authority, which ends at a.
RestWalk(t, i, m, k, a) ==
    /\ SchemeAt(t, k) /\ m.schema = Span(0, k) /\ k + 3 <= a /\ a < i
    /\ All(t, k + 3, a, ServerChars) /\ t[a + 1] \in {"/", "?"} /\ All(t, a, i, RestChars)
    /\ m.authority = IF k + 3 = a THEN None ELSE Span(k + 3, a)
    /\ m.foundAt <=> Named(t, k + 3, a)
    /\ IF t[a + 1] = "/" THEN m.path # None /\ m.path.start = a ELSE m.path = None
    /\ m.state = "Path" => t[a + 1] = "/"

MarkWalk(t, i, m) ==
    /\ m \in MarkType
    /\ m.state = "SpacesBeforeUrl" => i = 0 /\ m = NoMarks
    /\ m.state \in InScheme => \E k \in Nat : SchemeWalk(t, i, m, k)
    /\ m.state \in InServer => \E k \in Nat : AuthorityWalk(t, i, m, k)
    /\ m.state \in InRest =>
         \/ m.schema = None /\ i > 0 /\ t[1] \in {"/", "*"}
         \/ \E k, a \in Nat : RestWalk(t, i, m, k, a)
    /\ m.state = "Dead" => ByGrammar(t) = NoUrl

\* The machine before its first character.
LEMMA MarkStart ==
  ASSUME NEW t
  PROVE  MarkWalk(t, 0, NoMarks)
BY DEF MarkWalk, MarkType, NoMarks, States, Ranges, None, InScheme, InServer, InRest

\* What a round of the loop leaves is marks.
LEMMA MarkTyped ==
  ASSUME NEW m \in MarkType, NEW i \in Nat, NEW ch
  PROVE  Mark(m, i, ch) \in MarkType
<1> DEFINE st == UrlStep(m.state, ch)
<1>1. /\ m.state \in States /\ m.schema \in Ranges /\ m.authority \in Ranges /\ m.path \in Ranges
      /\ m.foundAt \in BOOLEAN
  BY DEF MarkType
<1>2. st \in States
  BY <1>1, UrlTable DEF Onward, States, InServer, InQuery
<1> HIDE DEF st
<1>3. /\ Extend(st = "Schema", i, m.schema) \in Ranges
      /\ Extend(st \in {"Server", "ServerWithAt"}, i, m.authority) \in Ranges
      /\ Extend(st = "Path", i, m.path) \in Ranges
  BY <1>1, Extended
<1>4. Mark(m, i, ch) =
        [state |-> st,
         schema |-> Extend(st = "Schema", i, m.schema),
         authority |-> Extend(st \in {"Server", "ServerWithAt"}, i, m.authority),
         path |-> Extend(st = "Path", i, m.path),
         foundAt |-> m.foundAt \/ st = "ServerWithAt"]
  BY DEF Mark, st
<1>5. (m.foundAt \/ st = "ServerWithAt") \in BOOLEAN
  OBVIOUS
<1> QED
  BY <1>2, <1>3, <1>4, <1>5 DEF MarkType

\* No scheme has got as far.
LEMMA SchemeMissed ==
  ASSUME NEW S, NEW t \in Seq(S), \A k \in Nat : ~SchemeAt(t, k)
  PROVE  ByGrammar(t) = NoUrl
BY GrammarFound DEF UrlAt

\* The letters of a text end where its scheme does.
LEMMA SchemeHere ==
  ASSUME NEW t, NEW k \in Nat, All(t, 0, k, Letters), NEW j \in Nat, SchemeAt(t, j)
  PROVE  k <= j /\ (k # j => t[k + 1] \in Letters)
<1>1. k <= j
  <2>1. j < k => j + 1 \in 0 + 1 .. k
    OBVIOUS
  <2> QED
    BY <2>1, CharFacts DEF SchemeAt, All
<1>2. k # j => k + 1 \in 0 + 1 .. j
  BY <1>1
<1> QED
  BY <1>1, <1>2 DEF SchemeAt, All

\* The server of a URL has none but its characters, and no second separator.
LEMMA ServerPiece ==
  ASSUME NEW t, NEW f \in Nat, NEW a \in Nat, f <= a, NEW h \in Nat, ServerAt(t, f, a, h),
         NEW lo \in Nat, NEW hi \in Nat, NEW e \in Nat, HostAt(t, h, a, lo, hi, e), PortAt(t, e, a)
  PROVE  All(t, f, a, ServerChars) /\ NoneOf(t, h, a, {"@"})
<1>1. h \in f .. a
  BY DEF ServerAt
<1>2. All(t, f, h, ServerChars)
  <2> SUFFICES ASSUME NEW i \in f + 1 .. h PROVE t[i] \in ServerChars
    BY DEF All
  <2>1. Named(t, f, a) /\ t[h] = "@" /\ All(t, f, h - 1, UserInfoChars)
    BY <1>1 DEF ServerAt
  <2>2. i \in f + 1 .. h - 1 \/ i = h
    BY <1>1
  <2> QED
    BY <2>1, <2>2 DEF All, ServerChars
<1>3. e \in h + 1 .. a /\ \A i \in h + 1 .. e : t[i] \in ServerChars \ {"@"}
  <2>1. e \in h + 1 .. a
    BY DEF HostAt
  <2> SUFFICES ASSUME NEW i \in h + 1 .. e PROVE t[i] \in ServerChars \ {"@"}
    BY <2>1
  <2>2. CASE All(t, h, e, HostChars)
    BY <2>2, CharFacts DEF All, ServerChars
  <2>3. CASE ~All(t, h, e, HostChars)
    <3>1. lo = h + 1 /\ hi = e - 1 /\ t[h + 1] = "[" /\ t[e] = "]" /\ V6At(t, lo, hi)
      BY <2>3 DEF HostAt
    <3>2. PICK z \in lo + 1 .. hi :
            /\ All(t, lo, z, V6Chars)
            /\ z = hi \/ (t[z + 1] = "%" /\ z + 2 <= hi /\ All(t, z + 1, hi, ZoneChars))
      BY <3>1 DEF V6At
    <3>3. \/ i = h + 1 \/ i = e \/ i \in lo + 1 .. z
          \/ (z # hi /\ (i = z + 1 \/ i \in z + 1 + 1 .. hi))
      BY <2>1, <3>1
    <3> QED
      BY <3>1, <3>2, <3>3, CharFacts DEF All, ServerChars
  <2> QED
    BY <2>2, <2>3
<1>4. \A i \in e + 1 .. a : t[i] \in ServerChars \ {"@"}
  <2> SUFFICES ASSUME NEW i \in e + 1 .. a PROVE t[i] \in ServerChars \ {"@"}
    OBVIOUS
  <2>1. t[e + 1] = ":" /\ All(t, e + 1, a, DOMAIN Digit)
    BY <1>3 DEF PortAt
  <2>2. i = e + 1 \/ i \in e + 1 + 1 .. a
    BY <1>3
  <2> QED
    BY <2>1, <2>2, CharFacts DEF All, ServerChars
<1>5. \A i \in h + 1 .. a : t[i] \in ServerChars \ {"@"}
  <2>1. \A i \in h + 1 .. a : i \in h + 1 .. e \/ i \in e + 1 .. a
    BY <1>3
  <2> QED
    BY <1>3, <1>4, <2>1
<1>6. \A i \in f + 1 .. a : i \in f + 1 .. h \/ i \in h + 1 .. a
  BY <1>1
<1> QED
  BY <1>2, <1>5, <1>6 DEF All, NoneOf

\* The fields after a step.
Stepped(m, i, ch, g) ==
    /\ g \in MarkType /\ g.state = Onward(m.state, ch)
    /\ g.schema = IF g.state = "Schema" THEN Extend(TRUE, i, m.schema) ELSE m.schema
    /\ g.authority = IF g.state \in {"Server", "ServerWithAt"}
                     THEN Extend(TRUE, i, m.authority) ELSE m.authority
    /\ g.path = IF g.state = "Path" THEN Extend(TRUE, i, m.path) ELSE m.path
    /\ g.foundAt <=> m.foundAt \/ g.state = "ServerWithAt"

\* A round of the loop in parse_fields, field by field.
LEMMA MarkFields ==
  ASSUME NEW m \in MarkType, NEW i \in Nat, NEW ch
  PROVE  Stepped(m, i, ch, Mark(m, i, ch))
<1> DEFINE g == Mark(m, i, ch)
           st == UrlStep(m.state, ch)
<1>1. g \in MarkType
  BY MarkTyped
<1>2. st = Onward(m.state, ch)
  BY UrlTable DEF MarkType
<1>3. /\ g.state = st
      /\ g.schema = Extend(st = "Schema", i, m.schema)
      /\ g.authority = Extend(st \in {"Server", "ServerWithAt"}, i, m.authority)
      /\ g.path = Extend(st = "Path", i, m.path)
      /\ g.foundAt = (m.foundAt \/ st = "ServerWithAt")
  BY DEF Mark
<1> HIDE DEF g, st
<1>4. /\ g.schema = IF st = "Schema" THEN Extend(TRUE, i, m.schema) ELSE m.schema
      /\ g.authority = IF st \in {"Server", "ServerWithAt"}
                       THEN Extend(TRUE, i, m.authority) ELSE m.authority
      /\ g.path = IF st = "Path" THEN Extend(TRUE, i, m.path) ELSE m.path
  BY <1>3 DEF Extend
<1>5. g.foundAt <=> m.foundAt \/ g.state = "ServerWithAt"
  BY <1>3
<1> QED
  BY <1>1, <1>2, <1>3, <1>4, <1>5 DEF g, Stepped

\* A field that was not marked begins where it is extended, ...
LEMMA ExtendFirst ==
  ASSUME NEW i \in Nat
  PROVE  Extend(TRUE, i, None) = Span(i, i + 1)
BY DEF Extend, Span

\* ... and one that was goes on.
LEMMA ExtendOn ==
  ASSUME NEW i \in Nat, NEW k \in Nat, k < i
  PROVE  Extend(TRUE, i, Span(k, i)) = Span(k, i + 1)
<1>1. Span(k, i) # None /\ Span(k, i).start = k
  BY DEF Span, None
<1> QED
  BY <1>1 DEF Extend, Span

\* What is needed of the state after a step, by where it goes.
LEMMA MarkDies ==
  ASSUME NEW t, NEW i, NEW g \in MarkType, g.state = "Dead", ByGrammar(t) = NoUrl
  PROVE  MarkWalk(t, i, g)
BY DEF MarkWalk, InScheme, InServer, InRest

\* ... in the scheme, ...
LEMMA MarkInScheme ==
  ASSUME NEW t, NEW i, NEW g \in MarkType, g.state \in InScheme, NEW k \in Nat, SchemeWalk(t, i, g, k)
  PROVE  MarkWalk(t, i, g)
BY DEF MarkWalk, InScheme, InServer, InRest

\* ... in the authority, ...
LEMMA MarkInAuthority ==
  ASSUME NEW t, NEW i, NEW g \in MarkType, g.state \in InServer, NEW k \in Nat, AuthorityWalk(t, i, g, k)
  PROVE  MarkWalk(t, i, g)
BY DEF MarkWalk, InScheme, InServer, InRest

\* ... behind it, ...
LEMMA MarkInRest ==
  ASSUME NEW t, NEW i, NEW g \in MarkType, g.state \in InRest,
         NEW k \in Nat, NEW a \in Nat, RestWalk(t, i, g, k, a)
  PROVE  MarkWalk(t, i, g)
BY DEF MarkWalk, InScheme, InServer, InRest

\* ... and in a text that has no scheme.
LEMMA MarkNoScheme ==
  ASSUME NEW t, NEW i, NEW g \in MarkType, g.state \in InRest, g.schema = None, i > 0, t[1] \in {"/", "*"}
  PROVE  MarkWalk(t, i, g)
BY DEF MarkWalk, InScheme, InServer, InRest

\* The first character.
LEMMA MarkSpaces ==
  ASSUME NEW S, NEW t \in Seq(S), NEW i \in Nat, i < Len(t), NEW m, MarkWalk(t, i, m),
         m.state = "SpacesBeforeUrl"
  PROVE  MarkWalk(t, i + 1, Mark(m, i, t[i + 1]))
<1> DEFINE ch == t[i + 1]
           g == Mark(m, i, ch)
<1>1. m \in MarkType /\ i = 0 /\ m = NoMarks
  BY DEF MarkWalk
<1>2. /\ g \in MarkType /\ g.state = Onward(m.state, ch)
      /\ g.schema = IF g.state = "Schema" THEN Extend(TRUE, i, m.schema) ELSE m.schema
      /\ g.authority = IF g.state \in {"Server", "ServerWithAt"}
                       THEN Extend(TRUE, i, m.authority) ELSE m.authority
      /\ g.path = IF g.state = "Path" THEN Extend(TRUE, i, m.path) ELSE m.path
      /\ g.foundAt <=> m.foundAt \/ g.state = "ServerWithAt"
  <2> HIDE DEF ch
  <2>1. Stepped(m, i, ch, g)
    BY <1>1, MarkFields
  <2> HIDE DEF g
  <2> QED
    BY <2>1 DEF Stepped
<1>3. m.schema = None /\ m.authority = None /\ m.path = None /\ ~m.foundAt
  BY <1>1 DEF NoMarks
<1>4. g.state = IF ch \in {"/", "*"} THEN "Path" ELSE IF ch \in Letters THEN "Schema" ELSE "Dead"
  <2> HIDE DEF g, ch
  <2>1. m.state = "SpacesBeforeUrl"
    OBVIOUS
  <2> QED
    BY <1>2, <2>1 DEF Onward, InServer, InQuery
<1>5. ch = t[1] /\ i + 1 = 1
  BY <1>1
<1> HIDE DEF g, ch
<1>6. CASE ch \in {"/", "*"}
  <2>1. g.state = "Path" /\ g.schema = None
    BY <1>2, <1>3, <1>4, <1>6
  <2>2. MarkWalk(t, i + 1, g)
    <3>1. g.state \in InRest /\ i + 1 > 0 /\ t[1] \in {"/", "*"}
      BY <1>5, <1>6, <2>1 DEF InRest
    <3> QED
      BY <1>2, <2>1, <3>1, MarkNoScheme
  <2> QED
    BY <2>2 DEF g, ch
<1>7. CASE ch \in Letters
  <2>1. g.state = "Schema"
    BY <1>4, <1>7, CharFacts
  <2>2. g.schema = Span(0, 1) /\ g.authority = None /\ g.path = None /\ ~g.foundAt
    <3>1. g.schema = Extend(TRUE, 0, None)
      BY <1>1, <1>2, <1>3, <2>1
    <3>2. Extend(TRUE, 0, None) = Span(0, 1)
      <4>1. 0 \in Nat /\ 0 + 1 = 1
        OBVIOUS
      <4> QED
        BY <4>1 DEF Extend, Span
    <3> QED
      BY <1>2, <1>3, <2>1, <3>1, <3>2
  <2>3. All(t, 0, 1, Letters)
    BY <1>5, <1>7 DEF All
  <2>4. SchemeWalk(t, i + 1, g, 1)
    BY <1>5, <2>1, <2>2, <2>3 DEF SchemeWalk, Separator
  <2>5. MarkWalk(t, i + 1, g)
    BY <1>2, <2>1, <2>4, MarkInScheme DEF InScheme
  <2> QED
    BY <2>5 DEF g, ch
<1>8. CASE ch \notin {"/", "*"} /\ ch \notin Letters
  <2>1. \A k \in Nat : ~SchemeAt(t, k)
    <3> SUFFICES ASSUME NEW k \in Nat, SchemeAt(t, k) PROVE FALSE
      OBVIOUS
    <3>1. 1 \in 0 + 1 .. k
      BY DEF SchemeAt
    <3> QED
      BY <1>5, <1>8, <3>1 DEF SchemeAt, All
  <2>2. ByGrammar(t) = NoUrl
    BY <2>1, SchemeMissed
  <2>3. MarkWalk(t, i + 1, g)
    BY <1>2, <1>4, <1>8, <2>2, MarkDies
  <2> QED
    BY <2>3 DEF g, ch
<1> QED
  BY <1>6, <1>7, <1>8

\* A character behind the beginning of a scheme.
LEMMA MarkScheme ==
  ASSUME NEW S, NEW t \in Seq(S), NEW i \in Nat, i < Len(t), NEW m, MarkWalk(t, i, m),
         m.state \in InScheme
  PROVE  MarkWalk(t, i + 1, Mark(m, i, t[i + 1]))
<1> DEFINE ch == t[i + 1]
           g == Mark(m, i, ch)
<1>1. m \in MarkType
  BY DEF MarkWalk
<1>2. /\ g \in MarkType /\ g.state = Onward(m.state, ch)
      /\ g.schema = IF g.state = "Schema" THEN Extend(TRUE, i, m.schema) ELSE m.schema
      /\ g.authority = IF g.state \in {"Server", "ServerWithAt"}
                       THEN Extend(TRUE, i, m.authority) ELSE m.authority
      /\ g.path = IF g.state = "Path" THEN Extend(TRUE, i, m.path) ELSE m.path
      /\ g.foundAt <=> m.foundAt \/ g.state = "ServerWithAt"
  <2> HIDE DEF ch
  <2>1. Stepped(m, i, ch, g)
    BY <1>1, MarkFields
  <2> HIDE DEF g
  <2> QED
    BY <2>1 DEF Stepped
<1>3. PICK k \in Nat : SchemeWalk(t, i, m, k)
  BY DEF MarkWalk
<1>4. /\ k > 0 /\ All(t, 0, k, Letters) /\ m.schema = Span(0, k) /\ i = k + Separator(m.state)
      /\ m.state # "Schema" => t[k + 1] = ":"
      /\ m.state = "SchemaSlashSlash" => t[k + 2] = "/"
      /\ m.authority = None /\ m.path = None /\ ~m.foundAt
  BY <1>3 DEF SchemeWalk
<1>5. \A j \in Nat : SchemeAt(t, j) => k <= j /\ (k # j => t[k + 1] \in Letters)
  BY <1>4, SchemeHere
<1> HIDE DEF g
<1>6. ASSUME g.state = "Dead" PROVE MarkWalk(t, i + 1, g)
  <2>1. \A j \in Nat : ~SchemeAt(t, j)
    <3> SUFFICES ASSUME NEW j \in Nat, SchemeAt(t, j) PROVE FALSE
      OBVIOUS
    <3>1. CASE m.state = "Schema"
      <4>1. ch \notin Letters /\ ch # ":" /\ i = k
        BY <1>2, <1>4, <1>6, <3>1 DEF Onward, InServer, InQuery, Separator
      <4> QED
        BY <1>5, <4>1 DEF SchemeAt
    <3>2. CASE m.state # "Schema"
      <4>1. k = j
        BY <1>4, <1>5, <3>2, CharFacts
      <4>2. ch # "/" /\ (i = k + 1 \/ i = k + 2)
        BY <1>2, <1>4, <1>6, <3>2 DEF Onward, InServer, InQuery, Separator, InScheme
      <4>3. t[k + 2] = "/" /\ t[k + 3] = "/"
        BY <4>1 DEF SchemeAt
      <4>4. (i = k + 1 => ch = t[k + 2]) /\ (i = k + 2 => ch = t[k + 3])
        OBVIOUS
      <4> HIDE DEF ch
      <4> QED
        BY <4>2, <4>3, <4>4
    <3> QED
      BY <3>1, <3>2
  <2>2. ByGrammar(t) = NoUrl
    BY <2>1, SchemeMissed
  <2> QED
    BY <1>2, <1>6, <2>2, MarkDies
<1>7. CASE m.state = "Schema"
  <2>1. i = k /\ g.state = IF ch \in Letters THEN "Schema" ELSE IF ch = ":" THEN "SchemaSlash" ELSE "Dead"
    BY <1>2, <1>4, <1>7 DEF Onward, InServer, InQuery, Separator
  <2>2. CASE ch \in Letters
    <3>1. All(t, 0, i + 1, Letters)
      BY <1>4, <2>1, <2>2, AllMore
    <3>2. Extend(TRUE, i, Span(0, i)) = Span(0, i + 1)
      BY <1>4, <2>1, ExtendOn
    <3>3. g.state = "Schema" /\ g.schema = Span(0, i + 1) /\ g.authority = None /\ g.path = None /\ ~g.foundAt
      <4> HIDE DEF ch
      <4> QED
        BY <1>2, <1>4, <2>1, <2>2, <3>2
    <3>4. i + 1 \in Nat /\ i + 1 > 0 /\ i + 1 = (i + 1) + 0
      OBVIOUS
    <3>5. SchemeWalk(t, i + 1, g, i + 1)
      BY <3>1, <3>3, <3>4 DEF SchemeWalk, Separator
    <3>6. MarkWalk(t, i + 1, g)
      BY <1>2, <3>3, <3>4, <3>5, MarkInScheme DEF InScheme
    <3> QED
      BY <3>6 DEF g
  <2>3. CASE ch \notin Letters /\ ch = ":"
    <3>1. g.state = "SchemaSlash" /\ g.schema = m.schema /\ g.authority = None /\ g.path = None /\ ~g.foundAt
      <4> HIDE DEF ch
      <4> QED
        BY <1>2, <1>4, <2>1, <2>3
    <3>2. SchemeWalk(t, i + 1, g, k)
      BY <1>4, <2>1, <2>3, <3>1 DEF SchemeWalk, Separator
    <3>3. MarkWalk(t, i + 1, g)
      BY <1>2, <3>1, <3>2, MarkInScheme DEF InScheme
    <3> QED
      BY <3>3 DEF g
  <2>4. CASE ch \notin Letters /\ ch # ":"
    BY <1>6, <2>1, <2>4 DEF g
  <2> QED
    BY <2>2, <2>3, <2>4
<1>8. CASE m.state = "SchemaSlash"
  <2>1. i = k + 1 /\ g.state = IF ch = "/" THEN "SchemaSlashSlash" ELSE "Dead"
    BY <1>2, <1>4, <1>8 DEF Onward, InServer, InQuery, Separator
  <2>2. CASE ch = "/"
    <3>1. g.state = "SchemaSlashSlash" /\ g.schema = m.schema /\ g.authority = None /\ g.path = None /\ ~g.foundAt
      <4> HIDE DEF ch
      <4> QED
        BY <1>2, <1>4, <2>1, <2>2
    <3>2. t[k + 2] = "/" /\ i + 1 = k + 2
      BY <2>1, <2>2
    <3>3. SchemeWalk(t, i + 1, g, k)
      BY <1>4, <1>8, <3>1, <3>2 DEF SchemeWalk, Separator
    <3>4. MarkWalk(t, i + 1, g)
      BY <1>2, <3>1, <3>3, MarkInScheme DEF InScheme
    <3> QED
      BY <3>4 DEF g
  <2>3. CASE ch # "/"
    BY <1>6, <2>1, <2>3 DEF g
  <2> QED
    BY <2>2, <2>3
<1>9. CASE m.state = "SchemaSlashSlash"
  <2>1. i = k + 2 /\ g.state = IF ch = "/" THEN "ServerStart" ELSE "Dead"
    BY <1>2, <1>4, <1>9 DEF Onward, InServer, InQuery, Separator
  <2>2. CASE ch = "/"
    <3>1. g.state = "ServerStart" /\ g.schema = m.schema /\ g.authority = None /\ g.path = None /\ ~g.foundAt
      <4> HIDE DEF ch
      <4> QED
        BY <1>2, <1>4, <2>1, <2>2
    <3>2. t[k + 3] = "/" /\ i + 1 = k + 3 /\ k + 3 <= Len(t)
      BY <2>1, <2>2
    <3>3. SchemeAt(t, k)
      BY <1>4, <1>9, <3>2 DEF SchemeAt
    <3>4. All(t, k + 3, k + 3, ServerChars) /\ ~Named(t, k + 3, k + 3)
      BY DEF All, Named
    <3>5. AuthorityWalk(t, i + 1, g, k)
      BY <1>4, <3>1, <3>2, <3>3, <3>4 DEF AuthorityWalk
    <3>6. MarkWalk(t, i + 1, g)
      BY <1>2, <3>1, <3>5, MarkInAuthority DEF InServer
    <3> QED
      BY <3>6 DEF g
  <2>3. CASE ch # "/"
    BY <1>6, <2>1, <2>3 DEF g
  <2> QED
    BY <2>2, <2>3
<1> QED
  BY <1>7, <1>8, <1>9 DEF InScheme

\* The authority ends behind the characters of a server that were read.
LEMMA AuthorityGoesOn ==
  ASSUME NEW t, NEW k \in Nat, NEW i \in Nat, Len(t) \in Nat, i < Len(t), k + 3 <= i,
         All(t, k + 3, i, ServerChars), t[i + 1] \notin {"/", "?"}, NEW a \in Nat, AuthorityAt(t, k, a)
  PROVE  i + 1 \in k + 4 .. a
<1>1. a \in k + 3 .. Len(t) /\ (a < Len(t) => t[a + 1] \in {"/", "?"})
  BY DEF AuthorityAt, CutAt
<1>2. ~(a < i)
  <2>1. a < i => a + 1 \in k + 3 + 1 .. i /\ a < Len(t)
    BY <1>1
  <2> QED
    BY <1>1, <2>1, CharFacts DEF All
<1>3. a # i
  BY <1>1
<1> QED
  BY <1>1, <1>2, <1>3

\* A text with another character in its authority, or with two separators in a row.
LEMMA NoAuthority ==
  ASSUME NEW S, NEW t \in Seq(S), NEW i \in Nat, i < Len(t), NEW k \in Nat, SchemeAt(t, k), k + 3 <= i,
         All(t, k + 3, i, ServerChars), t[i + 1] \notin {"/", "?"},
         \/ t[i + 1] \notin ServerChars
         \/ k + 3 < i /\ t[i] = "@" /\ t[i + 1] = "@"
  PROVE  ByGrammar(t) = NoUrl
<1>1. PICK a \in Nat : AuthorityAt(t, k, a)
  <2>1. k + 3 \in Nat /\ k + 3 <= Len(t) /\ Len(t) \in Nat
    BY DEF SchemeAt
  <2> QED
    BY <2>1, CutExists DEF AuthorityAt
<1>2. i + 1 \in k + 4 .. a
  <2>1. Len(t) \in Nat
    OBVIOUS
  <2> QED
    BY <1>1, <2>1, AuthorityGoesOn
<1>3. ASSUME NEW h \in Nat, NEW lo \in Nat, NEW hi \in Nat, NEW e \in Nat, UrlAt(t, k, a, h, lo, hi, e)
      PROVE  FALSE
  <2> DEFINE f == k + 3
  <2>1. f \in Nat /\ f <= a /\ i + 1 \in f + 1 .. a
    BY <1>2
  <2>2. ServerAt(t, f, a, h) /\ HostAt(t, h, a, lo, hi, e) /\ PortAt(t, e, a)
    BY <1>3 DEF UrlAt
  <2>3. f < i => i \in f + 1 .. a
    BY <2>1
  <2>4. k + 3 < i => f < i
    OBVIOUS
  <2> HIDE DEF f
  <2>5. All(t, f, a, ServerChars) /\ NoneOf(t, h, a, {"@"})
    BY <2>1, <2>2, ServerPiece
  <2>6. t[i + 1] \in ServerChars
    BY <2>1, <2>5 DEF All
  <2>7. f < i /\ t[i] = "@" /\ t[i + 1] = "@"
    BY <2>4, <2>6
  <2>8. i + 1 <= h
    <3>1. ~(i + 1 <= h) => i + 1 \in h + 1 .. a
      BY <2>1
    <3> QED
      BY <2>5, <2>7, <3>1 DEF NoneOf
  <2>9. Named(t, f, a)
    BY <2>3, <2>7 DEF Named
  <2>10. i \in f + 1 .. h - 1
    BY <2>1, <2>7, <2>8
  <2> QED
    BY <2>2, <2>7, <2>9, <2>10, CharFacts DEF ServerAt, All
<1> QED
  BY <1>1, <1>3, NotUrl

\* Where the authority has ended.
LEMMA AuthorityEnds ==
  ASSUME NEW t, NEW k \in Nat, NEW a \in Nat, k + 3 <= a, a <= Len(t), Len(t) \in Nat,
         All(t, k + 3, a, ServerChars), a = Len(t) \/ t[a + 1] \in {"/", "?"}
  PROVE  AuthorityAt(t, k, a)
<1>1. NoneOf(t, k + 3, a, {"/", "?"})
  BY CharFacts DEF All, NoneOf
<1> QED
  BY <1>1 DEF AuthorityAt, CutAt

\* A character behind the beginning of an authority.
LEMMA MarkServer ==
  ASSUME NEW S, NEW t \in Seq(S), NEW i \in Nat, i < Len(t), NEW m, MarkWalk(t, i, m),
         m.state \in InServer
  PROVE  MarkWalk(t, i + 1, Mark(m, i, t[i + 1]))
<1> DEFINE ch == t[i + 1]
           g == Mark(m, i, ch)
<1>1. m \in MarkType
  BY DEF MarkWalk
<1>2. /\ g \in MarkType /\ g.state = Onward(m.state, ch)
      /\ g.schema = IF g.state = "Schema" THEN Extend(TRUE, i, m.schema) ELSE m.schema
      /\ g.authority = IF g.state \in {"Server", "ServerWithAt"}
                       THEN Extend(TRUE, i, m.authority) ELSE m.authority
      /\ g.path = IF g.state = "Path" THEN Extend(TRUE, i, m.path) ELSE m.path
      /\ g.foundAt <=> m.foundAt \/ g.state = "ServerWithAt"
  <2> HIDE DEF ch
  <2>1. Stepped(m, i, ch, g)
    BY <1>1, MarkFields
  <2> HIDE DEF g
  <2> QED
    BY <2>1 DEF Stepped
<1>3. PICK k \in Nat : AuthorityWalk(t, i, m, k)
  BY DEF MarkWalk
<1> DEFINE f == k + 3
<1>4. /\ SchemeAt(t, k) /\ m.schema = Span(0, k) /\ f <= i
      /\ All(t, f, i, ServerChars)
      /\ m.authority = IF f = i THEN None ELSE Span(f, i)
      /\ m.foundAt <=> Named(t, f, i)
      /\ m.path = None
      /\ m.state = "ServerWithAt" => f < i /\ t[i] = "@"
  BY <1>3 DEF AuthorityWalk
<1>5. f \in Nat /\ i + 1 \in Nat /\ f <= i + 1 /\ f # i + 1 /\ i + 1 \in f + 1 .. i + 1
  BY <1>4
<1> HIDE DEF g, ch
<1>6. g.state = IF ch = "/" THEN "Path" ELSE IF ch = "?" THEN "QueryStart"
                ELSE IF ch = "@" THEN IF m.state = "ServerWithAt" THEN "Dead" ELSE "ServerWithAt"
                ELSE IF ch \in ServerChars THEN "Server" ELSE "Dead"
  BY <1>2 DEF Onward, InServer, InQuery
<1>7. CASE ch \in {"/", "?"}
  <2>1. g.state = IF ch = "/" THEN "Path" ELSE "QueryStart"
    BY <1>6, <1>7
  <2>2. All(t, i, i + 1, RestChars)
    <3>1. ch \in RestChars
      BY <1>7 DEF RestChars, UrlChars
    <3>2. All(t, i, i, RestChars)
      BY DEF All
    <3> QED
      BY <3>1, <3>2, AllMore DEF ch
  <2>3. /\ g.schema = m.schema /\ g.authority = m.authority /\ (g.foundAt <=> m.foundAt)
        /\ ch # "/" => g.path = None
        /\ ch = "/" => g.path = Span(i, i + 1)
    <3>1. Extend(TRUE, i, None) = Span(i, i + 1)
      BY ExtendFirst
    <3> QED
      BY <1>2, <1>4, <1>7, <2>1, <3>1
  <2>4. IF ch = "/" THEN g.path # None /\ g.path.start = i ELSE g.path = None
    BY <2>3 DEF Span, None
  <2>5. i < i + 1 /\ t[i + 1] = ch
    BY DEF ch
  <2>6. RestWalk(t, i + 1, g, k, i)
    <3>1. g.state = "Path" => ch = "/"
      BY <2>1
    <3> QED
      BY <1>4, <1>7, <2>2, <2>3, <2>4, <2>5, <3>1 DEF RestWalk
  <2>7. MarkWalk(t, i + 1, g)
    <3>1. g.state \in InRest
      BY <2>1 DEF InRest
    <3> QED
      BY <1>2, <2>6, <3>1, MarkInRest
  <2> QED
    BY <2>7 DEF g, ch
<1>8. CASE ch \notin {"/", "?"} /\ g.state # "Dead"
  <2>1. /\ g.state \in {"Server", "ServerWithAt"} /\ ch \in ServerChars
        /\ g.state = "ServerWithAt" <=> ch = "@"
    BY <1>6, <1>8 DEF ServerChars
  <2>2. All(t, f, i + 1, ServerChars)
    BY <1>4, <1>5, <2>1, AllMore DEF ch
  <2>3. Extend(TRUE, i, m.authority) = Span(f, i + 1)
    <3>1. CASE f = i
      BY <1>4, <3>1, ExtendFirst
    <3>2. CASE f # i
      <4>1. f < i
        BY <1>4, <3>2
      <4> HIDE DEF f
      <4>2. Extend(TRUE, i, Span(f, i)) = Span(f, i + 1)
        BY <1>5, <4>1, ExtendOn
      <4> QED
        BY <1>4, <3>2, <4>2
    <3> QED
      BY <3>1, <3>2
  <2>4. /\ g.schema = m.schema /\ g.authority = Span(f, i + 1) /\ g.path = None
        /\ g.foundAt <=> m.foundAt \/ ch = "@"
    BY <1>2, <1>4, <2>1, <2>3
  <2>5. Named(t, f, i + 1) <=> Named(t, f, i) \/ ch = "@"
    <3>1. \A j \in f + 1 .. i + 1 : j \in f + 1 .. i \/ j = i + 1
      BY <1>5
    <3>2. \A j \in f + 1 .. i : j \in f + 1 .. i + 1
      BY <1>5
    <3> QED
      BY <1>5, <3>1, <3>2 DEF Named, ch
  <2>6. AuthorityWalk(t, i + 1, g, k)
    <3>1. k + 3 # i + 1 /\ k + 3 < i + 1
      BY <1>5
    <3>2. ch = t[i + 1]
      BY DEF ch
    <3> QED
      BY <1>4, <1>5, <2>1, <2>2, <2>4, <2>5, <3>1, <3>2 DEF AuthorityWalk
  <2>7. MarkWalk(t, i + 1, g)
    <3>1. g.state \in InServer
      BY <2>1 DEF InServer
    <3> QED
      BY <1>2, <2>6, <3>1, MarkInAuthority
  <2> QED
    BY <2>7 DEF g, ch
<1>9. CASE ch \notin {"/", "?"} /\ g.state = "Dead"
  <2>1. \/ t[i + 1] \notin ServerChars
        \/ k + 3 < i /\ t[i] = "@" /\ t[i + 1] = "@"
    BY <1>4, <1>6, <1>9 DEF ch
  <2>2. ByGrammar(t) = NoUrl
    BY <1>4, <1>9, <2>1, NoAuthority DEF ch
  <2>3. MarkWalk(t, i + 1, g)
    BY <1>2, <1>9, <2>2, MarkDies
  <2> QED
    BY <2>3 DEF g, ch
<1> QED
  BY <1>7, <1>8, <1>9

\* A text without a scheme is no URL.
LEMMA NoLetter ==
  ASSUME NEW S, NEW t \in Seq(S), t[1] \in {"/", "*"}
  PROVE  ByGrammar(t) = NoUrl
<1>1. \A k \in Nat : ~SchemeAt(t, k)
  <2> SUFFICES ASSUME NEW k \in Nat, SchemeAt(t, k) PROVE FALSE
    OBVIOUS
  <2>1. 1 \in 0 + 1 .. k
    BY DEF SchemeAt
  <2> QED
    BY <2>1, CharFacts DEF SchemeAt, All
<1> QED
  BY <1>1, SchemeMissed

\* What lies behind the authority may come in any order.
LEMMA RestOn ==
  ASSUME NEW st \in InRest, NEW ch
  PROVE  IF ch \in RestChars THEN Onward(st, ch) \in InRest /\ (Onward(st, ch) = "Path" => st = "Path")
         ELSE Onward(st, ch) = "Dead"
BY DEF Onward, InRest, InServer, InQuery, RestChars

\* A character behind the authority.
LEMMA MarkRest ==
  ASSUME NEW S, NEW t \in Seq(S), NEW i \in Nat, i < Len(t), NEW m, MarkWalk(t, i, m),
         m.state \in InRest
  PROVE  MarkWalk(t, i + 1, Mark(m, i, t[i + 1]))
<1> DEFINE ch == t[i + 1]
           g == Mark(m, i, ch)
<1>1. m \in MarkType
  BY DEF MarkWalk
<1>2. /\ g \in MarkType /\ g.state = Onward(m.state, ch)
      /\ g.schema = IF g.state = "Schema" THEN Extend(TRUE, i, m.schema) ELSE m.schema
      /\ g.authority = IF g.state \in {"Server", "ServerWithAt"}
                       THEN Extend(TRUE, i, m.authority) ELSE m.authority
      /\ g.path = IF g.state = "Path" THEN Extend(TRUE, i, m.path) ELSE m.path
      /\ g.foundAt <=> m.foundAt \/ g.state = "ServerWithAt"
  <2> HIDE DEF ch
  <2>1. Stepped(m, i, ch, g)
    BY <1>1, MarkFields
  <2> HIDE DEF g
  <2> QED
    BY <2>1 DEF Stepped
<1> HIDE DEF g, ch
<1>3. IF ch \in RestChars THEN g.state \in InRest /\ (g.state = "Path" => m.state = "Path")
      ELSE g.state = "Dead"
  BY <1>2, RestOn
<1>4. g.schema = m.schema /\ g.authority = m.authority /\ (g.foundAt <=> m.foundAt)
  BY <1>2, <1>3 DEF InRest
<1>5. CASE m.schema = None /\ i > 0 /\ t[1] \in {"/", "*"}
  <2>1. MarkWalk(t, i + 1, g)
    <3>1. CASE ch \in RestChars
      <4>1. i + 1 > 0
        BY <1>5
      <4> QED
        BY <1>2, <1>3, <1>4, <1>5, <3>1, <4>1, MarkNoScheme
    <3>2. CASE ch \notin RestChars
      BY <1>2, <1>3, <1>5, <3>2, NoLetter, MarkDies
    <3> QED
      BY <3>1, <3>2
  <2> QED
    BY <2>1 DEF g, ch
<1>6. ASSUME NEW k \in Nat, NEW a \in Nat, RestWalk(t, i, m, k, a) PROVE MarkWalk(t, i + 1, g)
  <2>1. /\ SchemeAt(t, k) /\ m.schema = Span(0, k) /\ k + 3 <= a /\ a < i
        /\ All(t, k + 3, a, ServerChars) /\ t[a + 1] \in {"/", "?"} /\ All(t, a, i, RestChars)
        /\ m.authority = IF k + 3 = a THEN None ELSE Span(k + 3, a)
        /\ m.foundAt <=> Named(t, k + 3, a)
        /\ IF t[a + 1] = "/" THEN m.path # None /\ m.path.start = a ELSE m.path = None
        /\ m.state = "Path" => t[a + 1] = "/"
    BY <1>6 DEF RestWalk
  <2>2. CASE ch \in RestChars
    <3>1. All(t, a, i + 1, RestChars)
      BY <2>1, <2>2, AllMore DEF ch
    <3>2. IF t[a + 1] = "/" THEN g.path # None /\ g.path.start = a ELSE g.path = None
      <4>1. CASE g.state = "Path"
        <5>1. t[a + 1] = "/" /\ m.path # None /\ m.path.start = a
          BY <1>3, <2>1, <2>2, <4>1
        <5>2. Extend(TRUE, i, m.path) = [start |-> a, end |-> i + 1]
          BY <5>1 DEF Extend
        <5>3. g.path = [start |-> a, end |-> i + 1]
          BY <1>2, <4>1, <5>2
        <5>4. g.path # None /\ g.path.start = a
          BY <5>3 DEF None
        <5> QED
          BY <5>1, <5>4
      <4>2. CASE g.state # "Path"
        BY <1>2, <2>1, <4>2
      <4> QED
        BY <4>1, <4>2
    <3>3. a < i + 1
      BY <2>1
    <3>4. g.state = "Path" => t[a + 1] = "/"
      BY <1>3, <2>1, <2>2
    <3>5. RestWalk(t, i + 1, g, k, a)
      BY <1>4, <2>1, <3>1, <3>2, <3>3, <3>4 DEF RestWalk
    <3> QED
      BY <1>2, <1>3, <2>2, <3>5, MarkInRest
  <2>3. CASE ch \notin RestChars
    <3>1. a <= Len(t) /\ Len(t) \in Nat /\ i + 1 \in a + 1 .. Len(t)
      BY <2>1
    <3>2. AuthorityAt(t, k, a)
      BY <2>1, <3>1, AuthorityEnds
    <3>3. ~All(t, a, Len(t), RestChars)
      BY <2>3, <3>1 DEF All, ch
    <3>4. \A h, lo, hi, e \in Nat : ~UrlAt(t, k, a, h, lo, hi, e)
      BY <3>3 DEF UrlAt
    <3>5. ByGrammar(t) = NoUrl
      BY <2>1, <3>2, <3>4, NotUrl
    <3> QED
      BY <1>2, <1>3, <2>3, <3>5, MarkDies
  <2> QED
    BY <2>2, <2>3
<1>7. \/ m.schema = None /\ i > 0 /\ t[1] \in {"/", "*"}
      \/ \E k, a \in Nat : RestWalk(t, i, m, k, a)
  BY DEF MarkWalk
<1> QED
  BY <1>5, <1>6, <1>7 DEF g, ch

-----------------------------------------------------------------------------
(* Every round of the main machine. *)

\* Every round of the loop goes on with what it has read.
LEMMA MarkStep ==
  ASSUME NEW S, NEW t \in Seq(S), NEW i \in Nat, i < Len(t), NEW m, MarkWalk(t, i, m)
  PROVE  MarkWalk(t, i + 1, Mark(m, i, t[i + 1]))
<1>1. m \in MarkType /\ m.state \in States
  BY DEF MarkWalk, MarkType
<1>2. CASE m.state = "SpacesBeforeUrl"
  BY <1>2, MarkSpaces
<1>3. CASE m.state \in InScheme
  BY <1>3, MarkScheme
<1>4. CASE m.state \in InServer
  BY <1>4, MarkServer
<1>5. CASE m.state \in InRest
  BY <1>5, MarkRest
<1>6. CASE m.state = "Dead"
  <2> DEFINE ch == t[i + 1]
             g == Mark(m, i, ch)
  <2> HIDE DEF ch
  <2>1. Stepped(m, i, ch, g)
    BY <1>1, MarkFields
  <2> HIDE DEF g
  <2>2. g \in MarkType /\ g.state = "Dead"
    BY <1>6, <2>1 DEF Stepped, Onward, InServer, InQuery
  <2>3. ByGrammar(t) = NoUrl
    BY <1>6 DEF MarkWalk
  <2>4. MarkWalk(t, i + 1, g)
    BY <2>2, <2>3, MarkDies
  <2> QED
    BY <2>4 DEF g, ch
<1> QED
  BY <1>1, <1>2, <1>3, <1>4, <1>5, <1>6 DEF States, InScheme, InServer, InRest

\* At the end of the text parse_url has read what the grammar reads.
LEMMA MarkDone ==
  ASSUME NEW S, NEW t \in Seq(S), NEW m, MarkWalk(t, Len(t), m)
  PROVE  Parts(t, m) = ByGrammar(t)
<1> DEFINE n == Len(t)
<1>1. n \in Nat /\ m \in MarkType /\ m.state \in States
  BY DEF MarkWalk, MarkType
<1>2. m.state = "Dead" \/ m.schema = None \/ m.authority = None => Parts(t, m) = NoUrl
  BY DEF Parts
<1>3. CASE m.state = "Dead"
  BY <1>2, <1>3 DEF MarkWalk
<1>4. CASE m.state = "SpacesBeforeUrl"
  <2>1. n = 0 /\ m.schema = None
    BY <1>4 DEF MarkWalk, NoMarks
  <2>2. \A k \in Nat : ~SchemeAt(t, k)
    BY <2>1 DEF SchemeAt
  <2> QED
    BY <1>2, <2>1, <2>2, SchemeMissed
<1>5. CASE m.state \in InScheme
  <2>1. PICK k \in Nat : SchemeWalk(t, n, m, k)
    BY <1>5 DEF MarkWalk
  <2>2. /\ All(t, 0, k, Letters) /\ n = k + Separator(m.state)
        /\ m.state # "Schema" => t[k + 1] = ":"
        /\ m.authority = None
    BY <2>1 DEF SchemeWalk
  <2>3. n < k + 3 /\ (m.state = "Schema" => n = k)
    BY <1>5, <2>2 DEF Separator, InScheme
  <2>4. \A j \in Nat : ~SchemeAt(t, j)
    <3> SUFFICES ASSUME NEW j \in Nat, SchemeAt(t, j) PROVE FALSE
      OBVIOUS
    <3>1. k <= j /\ (k # j => t[k + 1] \in Letters) /\ j + 3 <= n
      BY <2>2, SchemeHere DEF SchemeAt
    <3> QED
      BY <1>1, <2>2, <2>3, <3>1, CharFacts
  <2> QED
    BY <1>2, <2>2, <2>4, SchemeMissed
<1>6. CASE m.state \in InServer
  <2>1. PICK k \in Nat : AuthorityWalk(t, n, m, k)
    BY <1>6 DEF MarkWalk
  <2>2. /\ SchemeAt(t, k) /\ m.schema = Span(0, k) /\ k + 3 <= n
        /\ All(t, k + 3, n, ServerChars)
        /\ m.authority = IF k + 3 = n THEN None ELSE Span(k + 3, n)
        /\ m.foundAt <=> Named(t, k + 3, n)
        /\ m.path = None
    BY <2>1 DEF AuthorityWalk
  <2>3. AuthorityAt(t, k, n)
    BY <1>1, <2>2, AuthorityEnds
  <2>4. All(t, n, n, RestChars) /\ m.state # "Dead"
    BY <1>6 DEF All, InServer
  <2>5. MarkedUrl(t, k, n, m)
    BY <1>1, <2>2, <2>3, <2>4 DEF MarkedUrl
  <2> QED
    BY <1>1, <2>5, PartsAreUrl
<1>7. CASE m.state \in InRest
  <2>1. CASE m.schema = None /\ t[1] \in {"/", "*"}
    BY <1>2, <2>1, NoLetter
  <2>2. ASSUME NEW k \in Nat, NEW a \in Nat, RestWalk(t, n, m, k, a) PROVE Parts(t, m) = ByGrammar(t)
    <3>1. /\ SchemeAt(t, k) /\ m.schema = Span(0, k) /\ k + 3 <= a /\ a < n
          /\ All(t, k + 3, a, ServerChars) /\ t[a + 1] \in {"/", "?"} /\ All(t, a, n, RestChars)
          /\ m.authority = IF k + 3 = a THEN None ELSE Span(k + 3, a)
          /\ m.foundAt <=> Named(t, k + 3, a)
          /\ IF t[a + 1] = "/" THEN m.path # None /\ m.path.start = a ELSE m.path = None
      BY <2>2 DEF RestWalk
    <3>2. a <= n
      BY <1>1, <3>1
    <3>3. AuthorityAt(t, k, a)
      BY <1>1, <3>1, <3>2, AuthorityEnds
    <3>4. m.state # "Dead"
      BY <1>7 DEF InRest
    <3>5. MarkedUrl(t, k, a, m)
      BY <3>1, <3>3, <3>4 DEF MarkedUrl
    <3> QED
      BY <3>5, PartsAreUrl
  <2>3. \/ m.schema = None /\ t[1] \in {"/", "*"}
        \/ \E k, a \in Nat : RestWalk(t, n, m, k, a)
    BY <1>7 DEF MarkWalk
  <2> QED
    BY <2>1, <2>2, <2>3
<1> QED
  BY <1>1, <1>3, <1>4, <1>5, <1>6, <1>7 DEF States, InScheme, InServer, InRest

-----------------------------------------------------------------------------
(* The walk over a text that grows. *)

\* Two texts begin alike.
Alike(t, u, i) == \A j \in 1 .. i : t[j] = u[j]

\* What was read of a text is read of any that begins alike.
LEMMA MarkCarries ==
  ASSUME NEW t, NEW u, NEW i \in Nat, Len(t) \in Nat, Len(u) \in Nat,
         i <= Len(t), i <= Len(u), Alike(t, u, i), NEW m, MarkWalk(t, i, m), m.state # "Dead"
  PROVE  MarkWalk(u, i, m)
<1>1. \A lo \in Nat, hi \in Nat : \A chars : hi <= i /\ All(t, lo, hi, chars) => All(u, lo, hi, chars)
  BY DEF All, Alike
<1>2. \A j \in Nat : j > 0 /\ j <= i => t[j] = u[j]
  BY DEF Alike
<1>3. \A lo \in Nat, hi \in Nat : hi <= i => (Named(t, lo, hi) <=> Named(u, lo, hi))
  BY DEF Named, Alike
<1>4. m \in MarkType
  BY DEF MarkWalk
<1>5. \A k \in Nat : SchemeAt(t, k) /\ k + 3 <= i => SchemeAt(u, k)
  <2> SUFFICES ASSUME NEW k \in Nat, SchemeAt(t, k), k + 3 <= i PROVE SchemeAt(u, k)
    OBVIOUS
  <2>1. t[k + 1] = u[k + 1] /\ t[k + 2] = u[k + 2] /\ t[k + 3] = u[k + 3]
    BY <1>2
  <2>2. All(u, 0, k, Letters)
    BY <1>1 DEF SchemeAt
  <2> QED
    BY <2>1, <2>2 DEF SchemeAt
<1>6. ASSUME NEW k \in Nat, SchemeWalk(t, i, m, k) PROVE m.state \in InScheme => SchemeWalk(u, i, m, k)
  <2> SUFFICES ASSUME m.state \in InScheme PROVE SchemeWalk(u, i, m, k)
    OBVIOUS
  <2>1. i = k + Separator(m.state) /\ All(t, 0, k, Letters)
    BY <1>6 DEF SchemeWalk
  <2>2. /\ k <= i /\ (m.state # "Schema" => k + 1 <= i) /\ (m.state = "SchemaSlashSlash" => k + 2 <= i)
    BY <2>1 DEF Separator, InScheme
  <2>3. All(u, 0, k, Letters)
    BY <1>1, <2>1, <2>2
  <2>4. (m.state # "Schema" => t[k + 1] = u[k + 1]) /\ (m.state = "SchemaSlashSlash" => t[k + 2] = u[k + 2])
    BY <1>2, <2>2
  <2> QED
    BY <1>6, <2>3, <2>4 DEF SchemeWalk
<1>7. ASSUME NEW k \in Nat, AuthorityWalk(t, i, m, k) PROVE AuthorityWalk(u, i, m, k)
  <2>1. SchemeAt(t, k) /\ k + 3 <= i /\ k + 3 \in Nat /\ All(t, k + 3, i, ServerChars)
    BY <1>7 DEF AuthorityWalk
  <2>2. SchemeAt(u, k) /\ All(u, k + 3, i, ServerChars) /\ (Named(t, k + 3, i) <=> Named(u, k + 3, i))
    BY <1>1, <1>3, <1>5, <2>1
  <2>3. k + 3 < i => t[i] = u[i]
    BY <1>2
  <2> QED
    BY <1>7, <2>2, <2>3 DEF AuthorityWalk
<1>8. ASSUME NEW k \in Nat, NEW a \in Nat, RestWalk(t, i, m, k, a) PROVE RestWalk(u, i, m, k, a)
  <2>1. /\ SchemeAt(t, k) /\ k + 3 <= a /\ a < i /\ k + 3 \in Nat
        /\ All(t, k + 3, a, ServerChars) /\ All(t, a, i, RestChars)
    BY <1>8 DEF RestWalk
  <2>2. a <= i /\ k + 3 <= i
    BY <2>1
  <2>3. /\ SchemeAt(u, k) /\ All(u, k + 3, a, ServerChars) /\ All(u, a, i, RestChars)
        /\ Named(t, k + 3, a) <=> Named(u, k + 3, a)
    BY <1>1, <1>3, <1>5, <2>1, <2>2
  <2>4. t[a + 1] = u[a + 1]
    BY <1>2, <2>1
  <2> QED
    BY <1>8, <2>3, <2>4 DEF RestWalk
<1>9. i > 0 => t[1] = u[1]
  BY <1>2
<1>10. m.state \in InRest => \/ m.schema = None /\ i > 0 /\ u[1] \in {"/", "*"}
                             \/ \E k, a \in Nat : RestWalk(u, i, m, k, a)
  BY <1>8, <1>9 DEF MarkWalk
<1>11. /\ m.state \in InScheme => \E k \in Nat : SchemeWalk(u, i, m, k)
       /\ m.state \in InServer => \E k \in Nat : AuthorityWalk(u, i, m, k)
       /\ m.state = "SpacesBeforeUrl" => i = 0 /\ m = NoMarks
  BY <1>6, <1>7 DEF MarkWalk
<1> QED
  BY <1>4, <1>10, <1>11 DEF MarkWalk

\* The walk the run of the specification takes.
WalkInv == url \in Seq(Char) /\ MarkWalk(url, Len(url), marks)

\* It holds of the empty text ...
LEMMA WalkInvInit == UrlInit => WalkInv
<1>1. <<>> \in Seq(Char) /\ Len(<<>>) = 0
  OBVIOUS
<1>2. MarkWalk(<<>>, 0, NoMarks)
  BY MarkStart
<1> QED
  BY <1>1, <1>2 DEF UrlInit, WalkInv

\* ... and of one character more.
LEMMA WalkInvStep == WalkInv /\ [UrlNext]_urlVars => WalkInv'
<1> SUFFICES ASSUME WalkInv, [UrlNext]_urlVars PROVE WalkInv'
  OBVIOUS
<1>1. CASE UNCHANGED urlVars
  BY <1>1 DEF WalkInv, urlVars
<1>2. ASSUME NEW ch \in Char, Read(ch) PROVE WalkInv'
  <2> DEFINE i == Len(url)
             u == Append(url, ch)
  <2>1. url \in Seq(Char) /\ MarkWalk(url, i, marks) /\ marks.state # "Dead"
    BY <1>2 DEF WalkInv, Read
  <2>2. url' = u /\ marks' = Mark(marks, i, ch)
    BY <1>2 DEF Read
  <2>3. u \in Seq(Char) /\ Len(u) = i + 1 /\ i \in Nat /\ u[i + 1] = ch /\ \A j \in 1 .. i : url[j] = u[j]
    BY <2>1
  <2> HIDE DEF u
  <2>4. Alike(url, u, i)
    BY <2>3 DEF Alike
  <2> HIDE DEF i
  <2>5. Len(url) = i
    BY DEF i
  <2>6. i < Len(u) /\ i <= Len(u) /\ Len(u) \in Nat /\ i <= i
    BY <2>3
  <2>7. MarkWalk(u, i, marks)
    BY <2>1, <2>3, <2>4, <2>5, <2>6, MarkCarries
  <2>8. MarkWalk(u, i + 1, Mark(marks, i, u[i + 1]))
    BY <2>3, <2>6, <2>7, MarkStep
  <2> QED
    BY <2>2, <2>3, <2>8 DEF WalkInv
<1> QED
  BY <1>1, <1>2 DEF UrlNext

\* Whatever the text, parse_url cuts it where the grammar does, and refuses what it refuses.
THEOREM TextsParsed == UrlSpec => []ParseMatchesGrammar
<1>1. WalkInv => ParseMatchesGrammar
  BY MarkDone DEF WalkInv, ParseMatchesGrammar
<1> QED
  BY WalkInvInit, WalkInvStep, <1>1, PTL DEF UrlSpec

-----------------------------------------------------------------------------
(* All the rounds at once. *)

\* parse_url reads a text as the grammar does.
LEMMA TextRead ==
  ASSUME NEW S, NEW t \in Seq(S)
  PROVE  ParseUrl(t) = ByGrammar(t)
<1> DEFINE n == Len(t)
           G == [p \in (0 .. n) \X MarkType |->
                   IF p[1] = 0 THEN NoMarks ELSE Mark(p[2], p[1] - 1, t[p[1]])]
           Is(g) == g = [i \in 0 .. n |-> IF i = 0 THEN NoMarks ELSE Mark(g[i - 1], i - 1, t[i])]
<1>1. n \in Nat /\ NoMarks \in MarkType
  BY DEF MarkType, NoMarks, States, Ranges, None
<1> HIDE DEF n
<1>2. G \in [(0 .. n) \X MarkType -> MarkType]
  <2> SUFFICES ASSUME NEW i \in 0 .. n, NEW m \in MarkType, i # 0
               PROVE  Mark(m, i - 1, t[i]) \in MarkType
    BY <1>1
  <2>1. i - 1 \in Nat
    BY <1>1
  <2> QED
    BY <2>1, MarkTyped
<1>3. PICK g : g \in [0 .. n -> MarkType] /\ g[0] = NoMarks /\ \A i \in 0 + 1 .. n : g[i] = G[<<i, g[i - 1]>>]
  <2> HIDE DEF G, Is
  <2>1. IsLoop(0, n, MarkType, NoMarks, G)
    BY <1>1, <1>2 DEF IsLoop
  <2>2. \E g : RunOf(0, n, MarkType, NoMarks, G, g)
    BY <2>1, LoopExists
  <2> QED
    BY <2>2 DEF RunOf
<1>4. \A i \in 1 .. n : g[i] = Mark(g[i - 1], i - 1, t[i])
  <2> SUFFICES ASSUME NEW i \in 1 .. n PROVE g[i] = Mark(g[i - 1], i - 1, t[i])
    OBVIOUS
  <2> DEFINE p == <<i, g[i - 1]>>
  <2>1. p \in (0 .. n) \X MarkType /\ p[1] = i /\ p[2] = g[i - 1] /\ i # 0
    BY <1>1, <1>3
  <2>2. g[i] = G[p]
    <3>1. i \in 0 + 1 .. n
      BY <1>1
    <3> HIDE DEF G
    <3> QED
      BY <1>3, <3>1
  <2> HIDE DEF p
  <2>3. G[p] = Mark(p[2], p[1] - 1, t[p[1]])
    BY <2>1
  <2> QED
    BY <2>1, <2>2, <2>3
<1>5. Is(g)
  BY <1>1, <1>3, <1>4
<1> DEFINE upTo == CHOOSE g_ : Is(g_)
<1>6. Is(upTo)
  BY <1>5, Zenon
<1>7. MarksOf(t) = upTo[n]
  BY DEF MarksOf, n
<1>8. upTo[0] = NoMarks /\ \A i \in 1 .. n : upTo[i] = Mark(upTo[i - 1], i - 1, t[i])
  <2> HIDE DEF upTo
  <2> QED
    BY <1>1, <1>6
<1> HIDE DEF upTo
<1> DEFINE T == {i \in 0 .. n : ~MarkWalk(t, i, upTo[i])}
<1>9. T = {}
  <2> SUFFICES ASSUME T # {} PROVE FALSE
    OBVIOUS
  <2>1. PICK i \in T : \A k \in T : i <= k
    <3>1. T \in SUBSET Nat
      BY <1>1
    <3> HIDE DEF T
    <3> QED
      BY <3>1, Least
  <2>2. i \in 0 .. n /\ ~MarkWalk(t, i, upTo[i])
    OBVIOUS
  <2>3. i # 0
    BY <1>8, <2>2, MarkStart
  <2> DEFINE j == i - 1
  <2>4. j \in 0 .. n /\ j \in Nat /\ j < n /\ j + 1 = i /\ ~(i <= j) /\ i \in 1 .. n
    BY <1>1, <2>2, <2>3
  <2>5. MarkWalk(t, j, upTo[j])
    <3>1. j \notin T
      BY <2>1, <2>4
    <3> QED
      BY <2>4, <3>1
  <2>6. upTo[i] = Mark(upTo[j], j, t[i])
    BY <1>8, <2>4
  <2> HIDE DEF j, T
  <2>7. MarkWalk(t, j + 1, Mark(upTo[j], j, t[j + 1]))
    <3>1. j < Len(t)
      BY <2>4 DEF n
    <3> QED
      BY <2>4, <2>5, <3>1, MarkStep
  <2> QED
    BY <2>2, <2>4, <2>6, <2>7
<1>10. MarkWalk(t, n, MarksOf(t))
  <2>1. n \in 0 .. n
    BY <1>1
  <2> QED
    BY <1>7, <1>9, <2>1
<1> QED
  BY <1>10, MarkDone DEF n, ParseUrl

-----------------------------------------------------------------------------
(* The Host header. *)

\* What parse_url gives as a host and as a port, as far as host_header() can tell.
IsHost(host) ==
    /\ 0 < Len(host)
    /\ IF Contains(host, ":") THEN V6At(host, 0, Len(host)) ELSE All(host, 0, Len(host), HostChars)

IsPortText(port) ==
    /\ All(port, 0, Len(port), DOMAIN Digit)
    /\ port # <<>> => Value(port) <= MaxPort

\* Where the host and the port lie in a URL of the Host header: the host behind o, the
\* port behind the colon at e.
LaidOut(x, host, port, o, e) ==
    /\ Len(x) = IF port = <<>> THEN e ELSE e + 1 + Len(port)
    /\ x[1] = "a" /\ x[2] = ":" /\ x[3] = "/" /\ x[4] = "/"
    /\ \A i \in 1 .. Len(host) : x[o + i] = host[i]
    /\ port # <<>> => x[e + 1] = ":"
    /\ \A i \in 1 .. Len(port) : x[e + 1 + i] = port[i]
    /\ IF Contains(host, ":") THEN o = 5 /\ e = 6 + Len(host) /\ x[5] = "[" /\ x[e] = "]"
       ELSE o = 4 /\ e = 4 + Len(host)

\* One text behind another.
IsJoin(p, q, r) ==
    /\ Len(r) = Len(p) + Len(q)
    /\ \A i \in 1 .. Len(p) : r[i] = p[i]
    /\ \A i \in 1 .. Len(q) : r[Len(p) + i] = q[i]

\* Both are in it.
LEMMA Joined ==
  ASSUME NEW S, NEW p \in Seq(S), NEW q \in Seq(S)
  PROVE  p \o q \in Seq(S) /\ IsJoin(p, q, p \o q)
BY DEF IsJoin

\* A Host header has them there.
LEMMA HeaderLaidOut ==
  ASSUME NEW S, {"a", ":", "/", "[", "]"} \subseteq S, NEW host \in Seq(S), NEW port \in Seq(S)
  PROVE  LET x == <<"a", ":", "/", "/">> \o HostHeader(host, port)
         IN  x \in Seq(S) /\ \E o, e \in Nat : LaidOut(x, host, port, o, e)
<1> DEFINE pre == <<"a", ":", "/", "/">>
           tail == IF port = <<>> THEN <<>> ELSE <<":">> \o port
           n == Len(host)
           p == Len(port)
<1>1. n \in Nat /\ p \in Nat /\ (port = <<>> <=> p = 0)
  OBVIOUS
<1>2. pre \in Seq(S) /\ Len(pre) = 4 /\ pre[1] = "a" /\ pre[2] = ":" /\ pre[3] = "/" /\ pre[4] = "/"
  OBVIOUS
<1>3. /\ tail \in Seq(S)
      /\ Len(tail) = IF p = 0 THEN 0 ELSE 1 + p
      /\ p # 0 => tail[1] = ":"
      /\ \A i \in 1 .. p : tail[1 + i] = port[i]
  <2>1. CASE p = 0
    BY <1>1, <2>1
  <2>2. CASE p # 0
    <3>1. <<":">> \in Seq(S) /\ tail = <<":">> \o port
      BY <1>1, <2>2
    <3> QED
      BY <1>1, <2>2, <3>1
  <2> QED
    BY <2>1, <2>2
<1>4. CASE Contains(host, ":")
  <2> DEFINE x == pre \o ((<<"[">> \o host \o <<"]">>) \o tail)
             inner == <<"[">> \o host \o <<"]">>
  <2>1. x = pre \o HostHeader(host, port)
    BY <1>4 DEF HostHeader
  <2>2. /\ inner \in Seq(S) /\ Len(inner) = n + 2 /\ inner[1] = "[" /\ inner[n + 2] = "]"
        /\ \A i \in 1 .. n : inner[1 + i] = host[i]
    <3>1. <<"[">> \in Seq(S) /\ <<"]">> \in Seq(S)
      OBVIOUS
    <3> DEFINE left == <<"[">> \o host
    <3>2. left \in Seq(S) /\ Len(left) = n + 1 /\ left[1] = "[" /\ \A i \in 1 .. n : left[1 + i] = host[i]
      BY <3>1
    <3> HIDE DEF left
    <3>3. /\ left \o <<"]">> \in Seq(S) /\ Len(left \o <<"]">>) = n + 2
          /\ \A i \in 1 .. n + 1 : (left \o <<"]">>)[i] = left[i]
          /\ (left \o <<"]">>)[n + 2] = "]"
      BY <1>1, <3>1, <3>2
    <3>4. inner = left \o <<"]">>
      BY DEF left
    <3>5. 1 \in 1 .. n + 1 /\ \A i \in 1 .. n : 1 + i \in 1 .. n + 1
      BY <1>1
    <3> HIDE DEF inner, n
    <3> QED
      BY <3>2, <3>3, <3>4, <3>5
  <2> DEFINE h == inner \o tail
  <2> HIDE DEF inner, tail, n, p
  <2>3. /\ h \in Seq(S) /\ Len(h) = n + 2 + Len(tail)
        /\ \A i \in 1 .. n + 2 : h[i] = inner[i]
        /\ \A i \in 1 .. Len(tail) : h[n + 2 + i] = tail[i]
    <3>1. inner \in Seq(S) /\ Len(inner) = n + 2 /\ tail \in Seq(S)
      BY <1>3, <2>2
    <3>2. inner \o tail \in Seq(S) /\ IsJoin(inner, tail, inner \o tail)
      BY <3>1, Joined
    <3> QED
      BY <3>1, <3>2 DEF IsJoin, h
  <2>4. x = pre \o h
    BY DEF h, inner
  <2> HIDE DEF h, pre, x
  <2>5. /\ x \in Seq(S) /\ Len(x) = 4 + Len(h)
        /\ \A i \in 1 .. 4 : x[i] = pre[i]
        /\ \A i \in 1 .. Len(h) : x[4 + i] = h[i]
    <3>1. pre \in Seq(S) /\ Len(pre) = 4 /\ h \in Seq(S)
      BY <1>2, <2>3
    <3>2. pre \o h \in Seq(S) /\ IsJoin(pre, h, pre \o h)
      BY <3>1, Joined
    <3> QED
      BY <2>4, <3>1, <3>2 DEF IsJoin
  <2>6. LaidOut(x, host, port, 5, 6 + n)
    <3>1. x[1] = "a" /\ x[2] = ":" /\ x[3] = "/" /\ x[4] = "/"
      BY <1>2, <2>5
    <3>2. Len(x) = IF p = 0 THEN 6 + n ELSE 6 + n + 1 + p
      BY <1>1, <1>3, <2>3, <2>5
    <3>3. ASSUME NEW i \in 1 .. n + 2 PROVE x[4 + i] = inner[i]
      BY <1>1, <1>3, <2>3, <2>5
    <3>4. ASSUME NEW i \in 1 .. n PROVE x[5 + i] = host[i]
      <4>1. 1 + i \in 1 .. n + 2 /\ 4 + (1 + i) = 5 + i
        BY <1>1
      <4>2. x[4 + (1 + i)] = inner[1 + i]
        BY <3>3, <4>1
      <4> QED
        BY <2>2, <4>1, <4>2
    <3>5. x[5] = "[" /\ x[6 + n] = "]"
      <4>1. 1 \in 1 .. n + 2 /\ n + 2 \in 1 .. n + 2 /\ 4 + 1 = 5 /\ 4 + (n + 2) = 6 + n
        BY <1>1
      <4>2. x[4 + 1] = inner[1] /\ x[4 + (n + 2)] = inner[n + 2]
        BY <3>3, <4>1
      <4> QED
        BY <2>2, <4>1, <4>2
    <3>6. ASSUME NEW j \in 1 .. Len(tail) PROVE x[6 + n + j] = tail[j]
      <4>1. n + 2 + j \in 1 .. Len(h) /\ 4 + (n + 2 + j) = 6 + n + j
        BY <1>1, <1>3, <2>3
      <4>2. x[4 + (n + 2 + j)] = h[n + 2 + j]
        BY <2>5, <4>1
      <4> QED
        BY <2>3, <4>1, <4>2
    <3>7. p # 0 => x[6 + n + 1] = ":"
      <4>1. p # 0 => 1 \in 1 .. Len(tail)
        BY <1>1, <1>3
      <4> QED
        BY <1>3, <3>6, <4>1
    <3>8. ASSUME NEW i \in 1 .. p PROVE x[6 + n + 1 + i] = port[i]
      <4>1. 1 + i \in 1 .. Len(tail) /\ 6 + n + (1 + i) = 6 + n + 1 + i
        BY <1>1, <1>3
      <4>2. x[6 + n + (1 + i)] = tail[1 + i]
        BY <3>6, <4>1
      <4> QED
        BY <1>3, <4>1, <4>2
    <3> QED
      BY <1>1, <1>4, <3>1, <3>2, <3>4, <3>5, <3>7, <3>8 DEF LaidOut, n, p
  <2>7. 5 \in Nat /\ 6 + n \in Nat
    BY <1>1
  <2> QED
    BY <2>1, <2>5, <2>6, <2>7 DEF pre
<1>5. CASE ~Contains(host, ":")
  <2> DEFINE h == host \o tail
             x == pre \o h
  <2> HIDE DEF n
  <2>1. x = pre \o HostHeader(host, port)
    BY <1>5 DEF HostHeader
  <2> HIDE DEF tail, p
  <2>2. /\ h \in Seq(S) /\ Len(h) = n + Len(tail)
        /\ \A i \in 1 .. n : h[i] = host[i]
        /\ \A i \in 1 .. Len(tail) : h[n + i] = tail[i]
    <3>1. host \in Seq(S) /\ tail \in Seq(S) /\ Len(host) = n
      BY <1>3 DEF n
    <3>2. host \o tail \in Seq(S) /\ IsJoin(host, tail, host \o tail)
      BY <3>1, Joined
    <3> QED
      BY <3>1, <3>2 DEF IsJoin, h
  <2> HIDE DEF h, pre, n, x
  <2>3. /\ x \in Seq(S) /\ Len(x) = 4 + Len(h)
        /\ \A i \in 1 .. 4 : x[i] = pre[i]
        /\ \A i \in 1 .. Len(h) : x[4 + i] = h[i]
    <3>1. pre \in Seq(S) /\ Len(pre) = 4 /\ h \in Seq(S)
      BY <1>2, <2>2
    <3>2. pre \o h \in Seq(S) /\ IsJoin(pre, h, pre \o h)
      BY <3>1, Joined
    <3> QED
      BY <3>1, <3>2 DEF IsJoin, x
  <2>4. LaidOut(x, host, port, 4, 4 + n)
    <3>1. x[1] = "a" /\ x[2] = ":" /\ x[3] = "/" /\ x[4] = "/"
      BY <1>2, <2>3
    <3>2. Len(x) = IF p = 0 THEN 4 + n ELSE 4 + n + 1 + p
      BY <1>1, <1>3, <2>2, <2>3
    <3>3. ASSUME NEW i \in 1 .. n PROVE x[4 + i] = host[i]
      BY <1>1, <1>3, <2>2, <2>3
    <3>4. ASSUME NEW j \in 1 .. Len(tail) PROVE x[4 + n + j] = tail[j]
      <4>1. n + j \in 1 .. Len(h) /\ 4 + (n + j) = 4 + n + j
        BY <1>1, <1>3, <2>2
      <4>2. x[4 + (n + j)] = h[n + j]
        BY <2>3, <4>1
      <4> QED
        BY <2>2, <4>1, <4>2
    <3>5. p # 0 => x[4 + n + 1] = ":"
      <4>1. p # 0 => 1 \in 1 .. Len(tail)
        BY <1>1, <1>3
      <4> QED
        BY <1>3, <3>4, <4>1
    <3>6. ASSUME NEW i \in 1 .. p PROVE x[4 + n + 1 + i] = port[i]
      <4>1. 1 + i \in 1 .. Len(tail) /\ 4 + n + (1 + i) = 4 + n + 1 + i
        BY <1>1, <1>3
      <4>2. x[4 + n + (1 + i)] = tail[1 + i]
        BY <3>4, <4>1
      <4> QED
        BY <1>3, <4>1, <4>2
    <3> QED
      BY <1>1, <1>5, <3>1, <3>2, <3>3, <3>5, <3>6 DEF LaidOut, n, p
  <2>5. 4 \in Nat /\ 4 + n \in Nat
    BY <1>1
  <2> QED
    BY <2>1, <2>3, <2>4, <2>5 DEF pre
<1> QED
  BY <1>4, <1>5

\* A text is a piece of another.
IsCut(t, lo, hi, c) ==
    Len(c) = hi - lo /\ \A i \in 1 .. hi - lo : c[i] = t[lo + i]

\* A piece between two positions is one.
LEMMA PieceIs ==
  ASSUME NEW S, NEW t \in Seq(S), NEW lo \in Nat, NEW hi \in Nat, lo <= hi, hi <= Len(t)
  PROVE  Cutout(t, lo, hi) \in Seq(S) /\ IsCut(t, lo, hi, Cutout(t, lo, hi))
BY CutFacts DEF IsCut

\* Such a URL is one of the grammar, and has the host and the port and no path.
LEMMA HeaderIsUrl ==
  ASSUME NEW S, NEW x \in Seq(S), NEW host \in Seq(S), NEW port \in Seq(S), NEW o \in Nat, NEW e \in Nat,
         LaidOut(x, host, port, o, e), IsHost(host), IsPortText(port)
  PROVE  \E a, hi \in Nat :
            /\ UrlAt(x, 1, a, 4, o, hi, e)
            /\ UrlIs(x, 1, a, o, hi, e)
                 = [scheme |-> <<"a">>, host |-> host, port |-> port, path |-> <<"/">>]
<1> DEFINE n == Len(host)
           p == Len(port)
           N == Len(x)
<1>1. n \in Nat /\ p \in Nat /\ N \in Nat /\ (port = <<>> <=> p = 0) /\ n > 0
  BY DEF IsHost
<1>2. /\ N = IF p = 0 THEN e ELSE e + 1 + p
      /\ x[1] = "a" /\ x[2] = ":" /\ x[3] = "/" /\ x[4] = "/"
      /\ \A i \in 1 .. n : x[o + i] = host[i]
      /\ p # 0 => x[e + 1] = ":"
      /\ \A i \in 1 .. p : x[e + 1 + i] = port[i]
      /\ IF Contains(host, ":") THEN o = 5 /\ e = 6 + n /\ x[5] = "[" /\ x[e] = "]"
         ELSE o = 4 /\ e = 4 + n
  BY <1>1 DEF LaidOut
<1> HIDE DEF n, p, N
<1>3. o + n <= e /\ 4 < e /\ e <= N /\ 4 <= o /\ 4 \in Nat /\ 0 \in Nat /\ 1 \in Nat /\ o + n \in Nat /\ o <= o + n
      /\ o + n <= N
  BY <1>1, <1>2
<1>4. ASSUME NEW chars, NEW lo \in Nat, NEW hi \in Nat, hi <= n, All(host, lo, hi, chars)
      PROVE  All(x, o + lo, o + hi, chars)
  <2> SUFFICES ASSUME NEW i \in o + lo + 1 .. o + hi PROVE x[i] \in chars
    BY DEF All
  <2>1. i - o \in lo + 1 .. hi /\ i - o \in 1 .. n /\ o + (i - o) = i
    BY <1>1, <1>4
  <2>2. x[o + (i - o)] = host[i - o]
    BY <1>2, <2>1
  <2> QED
    BY <1>4, <2>1, <2>2 DEF All
<1>5. HostAt(x, 4, N, o, o + n, e)
  <2>1. e \in 4 + 1 .. N
    BY <1>1, <1>3
  <2>2. CASE Contains(host, ":")
    <3>1. o = 4 + 1 /\ o + n = e - 1 /\ x[4 + 1] = "[" /\ x[e] = "]"
      BY <1>1, <1>2, <2>2
    <3>2. V6At(x, o, o + n)
      <4>1. PICK z \in 0 + 1 .. n :
              /\ All(host, 0, z, V6Chars)
              /\ z = n \/ (host[z + 1] = "%" /\ z + 2 <= n /\ All(host, z + 1, n, ZoneChars))
        BY <2>2 DEF IsHost, V6At, n
      <4>2. All(x, o + 0, o + z, V6Chars)
        <5>1. z \in Nat /\ z <= n /\ 0 \in Nat
          BY <1>1
        <5> QED
          BY <1>4, <4>1, <5>1
      <4>3. o + 0 = o /\ o + z \in o + 1 .. o + n
        BY <1>1
      <4>4. CASE z = n
        BY <4>2, <4>3, <4>4 DEF V6At
      <4>5. CASE z # n
        <5>1. host[z + 1] = "%" /\ z + 2 <= n /\ All(host, z + 1, n, ZoneChars)
          BY <4>1, <4>5
        <5>2. z + 1 \in Nat /\ n \in Nat /\ n <= n /\ z + 1 \in 1 .. n /\ o + (z + 1) = o + z + 1 /\ o + z + 2 <= o + n
          BY <1>1, <5>1
        <5>3. All(x, o + (z + 1), o + n, ZoneChars)
          BY <1>4, <5>1, <5>2
        <5>4. x[o + (z + 1)] = "%"
          BY <1>2, <5>1, <5>2
        <5>5. x[o + z + 1] = "%" /\ All(x, o + z + 1, o + n, ZoneChars)
          BY <5>2, <5>3, <5>4
        <5> QED
          BY <4>2, <4>3, <5>2, <5>5 DEF V6At
      <4> QED
        BY <4>4, <4>5
    <3> QED
      BY <2>1, <3>1, <3>2 DEF HostAt
  <2>3. CASE ~Contains(host, ":")
    <3>1. o = 4 /\ o + n = e
      BY <1>2, <2>3
    <3>2. All(x, o + 0, o + n, HostChars)
      <4>1. All(host, 0, n, HostChars) /\ n <= n
        BY <1>1, <2>3 DEF IsHost, n
      <4> QED
        BY <1>1, <1>3, <1>4, <4>1
    <3>3. o + 0 = o
      OBVIOUS
    <3> QED
      BY <2>1, <3>1, <3>2, <3>3 DEF HostAt
  <2> QED
    BY <2>2, <2>3
<1>6. PortAt(x, e, N)
  <2>1. CASE p = 0
    BY <1>2, <2>1 DEF PortAt
  <2>2. CASE p # 0
    <3>1. x[e + 1] = ":" /\ N = e + 1 + p /\ e + 1 < N
      BY <1>1, <1>2, <2>2
    <3>2. All(x, e + 1, N, DOMAIN Digit)
      <4> SUFFICES ASSUME NEW i \in e + 1 + 1 .. N PROVE x[i] \in DOMAIN Digit
        BY DEF All
      <4>1. i - (e + 1) \in 1 .. p /\ i - (e + 1) \in 0 + 1 .. p /\ e + 1 + (i - (e + 1)) = i
        BY <1>1, <3>1
      <4>2. x[e + 1 + (i - (e + 1))] = port[i - (e + 1)]
        BY <1>2, <4>1
      <4>3. port[i - (e + 1)] \in DOMAIN Digit
        BY <4>1 DEF IsPortText, All, p
      <4> QED
        BY <4>1, <4>2, <4>3
    <3> QED
      BY <3>1, <3>2 DEF PortAt
  <2> QED
    BY <2>1, <2>2
<1>7. Cutout(x, e + 1, N) = port
  <2>1. CASE p = 0
    <3>1. N <= e + 1 /\ e + 1 \in Nat /\ N \in Nat /\ N <= Len(x)
      BY <1>1, <1>2, <2>1 DEF N
    <3> QED
      BY <1>1, <2>1, <3>1, CutNone
  <2>2. CASE p # 0
    <3>1. N = e + 1 + p /\ e + 1 \in Nat /\ e + 1 <= N /\ N <= Len(x) /\ N - (e + 1) = p
      BY <1>1, <1>2, <2>2 DEF N
    <3> DEFINE c == Cutout(x, e + 1, N)
    <3>2. c \in Seq(S) /\ IsCut(x, e + 1, N, c)
      BY <1>1, <3>1, PieceIs
    <3> HIDE DEF c
    <3>3. Len(c) = Len(port) /\ \A i \in 1 .. Len(c) : c[i] = port[i]
      BY <1>2, <3>1, <3>2 DEF p, IsCut
    <3> QED
      BY <3>2, <3>3, SameText DEF c
  <2> QED
    BY <2>1, <2>2
<1>8. PortFits(x, e, N)
  <2>1. p # 0 => Value(port) <= MaxPort
    BY <1>1 DEF IsPortText
  <2> QED
    BY <1>2, <1>7, <2>1 DEF PortFits
<1>9. Cutout(x, o, o + n) = host
  <2> DEFINE c == Cutout(x, o, o + n)
  <2>1. o + n - o = n /\ o + n <= Len(x)
    BY <1>1, <1>3 DEF N
  <2>2. c \in Seq(S) /\ IsCut(x, o, o + n, c)
    BY <1>3, <2>1, PieceIs
  <2> HIDE DEF c
  <2>3. Len(c) = Len(host) /\ \A i \in 1 .. Len(c) : c[i] = host[i]
    BY <1>2, <2>1, <2>2, SMTT(30) DEF n, IsCut
  <2> QED
    BY <2>2, <2>3, SameText DEF c
<1>10. Cutout(x, 0, 1) = <<"a">>
  <2> DEFINE c == Cutout(x, 0, 1)
  <2>1. 0 <= 1 /\ 1 <= Len(x) /\ 1 - 0 = 1
    BY <1>1, <1>3 DEF N
  <2>2. c \in Seq(S) /\ IsCut(x, 0, 1, c)
    BY <1>3, <2>1, PieceIs
  <2> HIDE DEF c
  <2>3. 1 \in 1 .. 1 - 0 /\ 0 + 1 = 1
    OBVIOUS
  <2>4. Len(c) = 1 /\ c[1] = "a"
    BY <1>2, <2>1, <2>2, <2>3 DEF IsCut
  <2>5. c = <<"a">>
    BY <2>2, <2>4
  <2> QED
    BY <2>5 DEF c
<1>11. SchemeAt(x, 1)
  <2>1. 1 + 3 <= Len(x) /\ 1 \in Nat \ {0}
    BY <1>1, <1>3 DEF N
  <2>2. All(x, 0, 1, Letters)
    <3>1. \A i \in 0 + 1 .. 1 : i = 1
      OBVIOUS
    <3> QED
      BY <1>2, <3>1 DEF All, Letters
  <2>3. x[1 + 1] = ":" /\ x[1 + 2] = "/" /\ x[1 + 3] = "/"
    BY <1>2
  <2> QED
    BY <2>1, <2>2, <2>3 DEF SchemeAt
<1>12. ServerAt(x, 4, N, 4) /\ All(x, 4, N, ServerChars)
  <2>1. All(x, 4, N, ServerChars) /\ NoneOf(x, 4, N, {"@"})
    <3>1. \A i \in 4 + 1 .. N : x[i] \in ServerChars \ {"@"}
      <4> SUFFICES ASSUME NEW i \in 4 + 1 .. N PROVE x[i] \in ServerChars \ {"@"}
        OBVIOUS
      <4>1. CASE i \in e + 1 .. N
        <5>1. e # N
          BY <1>1, <4>1
        <5>2. x[e + 1] = ":" /\ All(x, e + 1, N, DOMAIN Digit)
          BY <1>6, <5>1 DEF PortAt
        <5>3. i = e + 1 \/ i \in e + 1 + 1 .. N
          BY <1>1, <4>1
        <5> QED
          BY <5>2, <5>3, CharFacts DEF All, ServerChars
      <4>2. CASE i \notin e + 1 .. N
        <5>1. i \in 4 + 1 .. e
          BY <1>1, <1>3, <4>2
        <5>2. CASE All(x, 4, e, HostChars)
          BY <5>1, <5>2, CharFacts DEF All, ServerChars
        <5>3. CASE ~All(x, 4, e, HostChars)
          <6>1. o = 4 + 1 /\ o + n = e - 1 /\ x[4 + 1] = "[" /\ x[e] = "]" /\ V6At(x, o, o + n)
            BY <1>5, <5>3 DEF HostAt
          <6>2. PICK z \in o + 1 .. o + n :
                  /\ All(x, o, z, V6Chars)
                  /\ z = o + n \/ (x[z + 1] = "%" /\ z + 2 <= o + n /\ All(x, z + 1, o + n, ZoneChars))
            BY <6>1 DEF V6At
          <6>3. \/ i = 4 + 1 \/ i = e \/ i \in o + 1 .. z
                \/ (z # o + n /\ (i = z + 1 \/ i \in z + 1 + 1 .. o + n))
            BY <1>1, <5>1, <6>1
          <6> QED
            BY <6>1, <6>2, <6>3, CharFacts DEF All, ServerChars
        <5> QED
          BY <5>2, <5>3
      <4> QED
        BY <4>1, <4>2
    <3> QED
      BY <3>1 DEF All, NoneOf
  <2>2. ~Named(x, 4, N)
    BY <2>1 DEF Named, NoneOf
  <2> QED
    BY <2>1, <2>2 DEF ServerAt
<1>13. AuthorityAt(x, 1, N)
  <2>1. 1 + 3 = 4 /\ N \in 4 .. N
    BY <1>1, <1>3
  <2>2. NoneOf(x, 4, N, {"/", "?"})
    BY <1>12, CharFacts DEF All, NoneOf
  <2>3. CutAt(x, 4, N, {"/", "?"}, N)
    BY <1>1, <2>1, <2>2 DEF CutAt
  <2> QED
    BY <2>1, <2>3 DEF AuthorityAt, N
<1>14. UrlAt(x, 1, N, 4, o, o + n, e)
  <2>1. All(x, N, Len(x), RestChars)
    BY <1>1 DEF All, N
  <2>2. 1 + 3 = 4
    OBVIOUS
  <2> QED
    BY <1>5, <1>6, <1>8, <1>11, <1>12, <1>13, <2>1, <2>2 DEF UrlAt
<1>15. UrlIs(x, 1, N, o, o + n, e)
         = [scheme |-> <<"a">>, host |-> host, port |-> port, path |-> <<"/">>]
  <2>1. ~(N < Len(x))
    BY <1>1 DEF N
  <2> QED
    BY <1>7, <1>9, <1>10, <2>1 DEF UrlIs
<1> QED
  BY <1>1, <1>3, <1>14, <1>15

\* The grammar reads it so.
LEMMA HeaderReads ==
  ASSUME NEW S, NEW x \in Seq(S), NEW o \in Nat, NEW e \in Nat, NEW r,
         \E a, hi \in Nat : UrlAt(x, 1, a, 4, o, hi, e) /\ UrlIs(x, 1, a, o, hi, e) = r
  PROVE  ByGrammar(x) = r
BY GrammarReads, SMTT(30)

\* What parse_url returns for a URL it takes.
LEMMA UrlHasHost ==
  ASSUME NEW S, NEW t \in Seq(S), ByGrammar(t) # NoUrl,
         Contains(ByGrammar(t).host, "%") => Contains(ByGrammar(t).host, ":")
  PROVE  LET p == ByGrammar(t)
         IN  /\ p = [scheme |-> p.scheme, host |-> p.host, port |-> p.port, path |-> p.path]
             /\ p.host \in Seq(S) /\ IsHost(p.host) /\ p.port \in Seq(S) /\ IsPortText(p.port)
<1>1. PICK k, a, h, lo, hi, e \in Nat : UrlAt(t, k, a, h, lo, hi, e)
  BY GrammarFound
<1>2. ByGrammar(t) = UrlIs(t, k, a, lo, hi, e)
  BY <1>1, GrammarReads, SMTT(30)
<1> DEFINE host == Cutout(t, lo, hi)
           port == Cutout(t, e + 1, a)
           scheme == Cutout(t, 0, k)
           path == IF a < Len(t) /\ t[a + 1] = "/" THEN Cutout(t, a, Len(t)) ELSE <<"/">>
<1>3. ByGrammar(t) = [scheme |-> scheme, host |-> host, port |-> port, path |-> path]
  BY <1>2 DEF UrlIs
<1> HIDE DEF host, port, scheme, path
<1>4. /\ HostAt(t, h, a, lo, hi, e) /\ PortAt(t, e, a) /\ PortFits(t, e, a)
      /\ a <= Len(t)
  BY <1>1 DEF UrlAt, AuthorityAt, CutAt
<1>5. e \in h + 1 .. a /\ lo < hi /\ hi <= e
  BY <1>4 DEF HostAt, V6At
<1> DEFINE n == Len(host)
<1>6. /\ host \in Seq(S) /\ n = hi - lo /\ \A i \in 1 .. hi - lo : host[i] = t[lo + i]
  <2>1. lo <= hi /\ hi <= Len(t)
    BY <1>4, <1>5
  <2> QED
    BY <2>1, CutFacts, ZenonT(60) DEF host
<1>7. n \in Nat /\ 0 < n /\ lo + n = hi
  BY <1>5, <1>6, SMTT(30)
<1>8. Contains(host, "%") => Contains(host, ":")
  BY <1>3
<1>9. ASSUME NEW chars, NEW p \in Nat, NEW q \in Nat, q <= n, All(t, lo + p, lo + q, chars)
      PROVE  All(host, p, q, chars)
  <2> SUFFICES ASSUME NEW i \in p + 1 .. q PROVE host[i] \in chars
    BY DEF All
  <2>1. i \in 1 .. hi - lo /\ lo + i \in lo + p + 1 .. lo + q
    BY <1>6, <1>7, <1>9
  <2> QED
    BY <1>6, <1>9, <2>1 DEF All
<1> HIDE DEF n
<1>10. IsHost(host)
  <2>1. CASE All(t, lo, hi, HostChars)
    <3>1. All(t, lo + 0, lo + n, HostChars)
      BY <1>7, <2>1
    <3>2. All(host, 0, n, HostChars)
      BY <1>7, <1>9, <3>1
    <3>3. ~Contains(host, ":")
      <4>1. \A i \in 1 .. n : host[i] # ":"
        BY <3>2, CharFacts DEF All
      <4> QED
        BY <1>6, <4>1 DEF Contains, n
    <3> QED
      BY <1>7, <3>2, <3>3 DEF IsHost, n
  <2>2. CASE ~All(t, lo, hi, HostChars)
    <3>1. V6At(t, lo, hi)
      BY <1>4, <2>2 DEF HostAt
    <3>2. PICK y \in lo + 1 .. hi :
            /\ All(t, lo, y, V6Chars)
            /\ y = hi \/ (t[y + 1] = "%" /\ y + 2 <= hi /\ All(t, y + 1, hi, ZoneChars))
      BY <3>1 DEF V6At
    <3> DEFINE z == y - lo
    <3>3. z \in 0 + 1 .. n /\ z \in Nat /\ z <= n /\ lo + z = y /\ lo + 0 = lo /\ (z = n <=> y = hi)
      BY <1>7
    <3> HIDE DEF z
    <3>4. All(host, 0, z, V6Chars)
      <4>1. All(t, lo + 0, lo + z, V6Chars)
        BY <3>2, <3>3
      <4> QED
        BY <1>9, <3>3, <4>1
    <3>5. y # hi => host[z + 1] = "%" /\ z + 2 <= n /\ z + 1 \in 1 .. n /\ All(host, z + 1, n, ZoneChars)
      <4> SUFFICES ASSUME y # hi
                   PROVE  host[z + 1] = "%" /\ z + 2 <= n /\ z + 1 \in 1 .. n /\ All(host, z + 1, n, ZoneChars)
        OBVIOUS
      <4>1. t[y + 1] = "%" /\ y + 2 <= hi /\ All(t, y + 1, hi, ZoneChars)
        BY <3>2
      <4>2. z + 2 <= n /\ z + 1 \in 1 .. hi - lo /\ lo + (z + 1) = y + 1 /\ z + 1 \in 1 .. n
            /\ z + 1 \in Nat /\ n <= n
        BY <1>6, <1>7, <3>3, <4>1
      <4>3. All(t, lo + (z + 1), lo + n, ZoneChars)
        BY <1>7, <4>1, <4>2
      <4>4. All(host, z + 1, n, ZoneChars)
        BY <1>7, <1>9, <4>2, <4>3
      <4>5. host[z + 1] = "%"
        BY <1>6, <4>1, <4>2
      <4> QED
        BY <4>2, <4>4, <4>5
    <3>6. V6At(host, 0, n)
      BY <3>3, <3>4, <3>5 DEF V6At
    <3>7. CASE Contains(host, ":")
      BY <1>7, <3>6, <3>7 DEF IsHost, n
    <3>8. CASE ~Contains(host, ":")
      <4>1. \A i \in 1 .. n : host[i] # ":" /\ host[i] # "%"
        BY <1>6, <1>8, <3>8 DEF Contains, n
      <4>2. z = n
        BY <3>3, <3>5, <4>1
      <4>3. V6Chars \ {":"} \subseteq HostChars
        BY DEF V6Chars, HostChars, Hexadecimal, Letters
      <4>4. All(host, 0, n, HostChars)
        <5> SUFFICES ASSUME NEW i \in 0 + 1 .. n PROVE host[i] \in HostChars
          BY DEF All
        <5>1. host[i] \in V6Chars
          BY <3>4, <4>2 DEF All
        <5>2. i \in 1 .. n
          OBVIOUS
        <5> QED
          BY <4>1, <4>3, <5>1, <5>2
      <4> QED
        BY <1>7, <3>8, <4>4 DEF IsHost, n
    <3> QED
      BY <3>7, <3>8
  <2> QED
    BY <2>1, <2>2
<1>11. port \in Seq(S) /\ IsPortText(port)
  <2>1. CASE e = a
    <3>1. a <= e + 1 /\ e + 1 \in Nat
      BY <2>1
    <3>2. port = <<>>
      BY <1>4, <3>1, CutNone DEF port
    <3>3. Len(port) = 0 /\ port \in Seq(S)
      BY <3>2
    <3>4. All(port, 0, Len(port), DOMAIN Digit)
      <4>1. 0 + 1 .. 0 = {}
        OBVIOUS
      <4> QED
        BY <3>3, <4>1 DEF All
    <3> QED
      BY <3>2, <3>3, <3>4 DEF IsPortText
  <2>2. CASE e # a
    <3>1. t[e + 1] = ":" /\ e + 1 < a /\ All(t, e + 1, a, DOMAIN Digit)
      BY <1>4, <2>2 DEF PortAt
    <3>2. e + 1 \in Nat /\ e + 1 <= a
      BY <3>1
    <3>3. port \in Seq(S) /\ Len(port) = a - (e + 1) /\ \A i \in 1 .. a - (e + 1) : port[i] = t[e + 1 + i]
      BY <1>4, <3>2, CutFacts, ZenonT(60) DEF port
    <3>4. All(port, 0, Len(port), DOMAIN Digit)
      <4> SUFFICES ASSUME NEW i \in 0 + 1 .. Len(port) PROVE port[i] \in DOMAIN Digit
        BY DEF All
      <4>1. i \in 1 .. a - (e + 1) /\ e + 1 + i \in e + 1 + 1 .. a
        BY <3>2, <3>3
      <4> QED
        BY <3>1, <3>3, <4>1 DEF All
    <3>5. Value(port) <= MaxPort
      BY <1>4, <2>2 DEF PortFits, port
    <3> QED
      BY <3>3, <3>4, <3>5 DEF IsPortText
  <2> QED
    BY <2>1, <2>2
<1>12. /\ ByGrammar(t).scheme = scheme /\ ByGrammar(t).host = host
       /\ ByGrammar(t).port = port /\ ByGrammar(t).path = path
  BY <1>3
<1> QED
  BY <1>3, <1>6, <1>10, <1>11, <1>12, Zenon

\* A URL with another scheme and another path.
WithEnds(p, first, last) == [p EXCEPT !.scheme = first, !.path = last]

\* The host and the port stay.
LEMMA EndsReplaced ==
  ASSUME NEW scheme, NEW host, NEW port, NEW path, NEW first, NEW last
  PROVE  WithEnds([scheme |-> scheme, host |-> host, port |-> port, path |-> path], first, last)
           = [scheme |-> first, host |-> host, port |-> port, path |-> last]
<1> DEFINE p == [scheme |-> scheme, host |-> host, port |-> port, path |-> path]
           p1 == [p EXCEPT !.scheme = first]
           p2 == [p EXCEPT !.scheme = first, !.path = last]
<1>1. p2 = [p1 EXCEPT !.path = last]
  OBVIOUS
<1>2. p1 = [scheme |-> first, host |-> host, port |-> port, path |-> path]
  OBVIOUS
<1> HIDE DEF p1
<1>3. [p1 EXCEPT !.path = last] = [scheme |-> first, host |-> host, port |-> port, path |-> last]
  BY <1>2
<1>4. WithEnds(p, first, last) = p2
  BY DEF WithEnds
<1> HIDE DEF p2
<1> QED
  BY <1>1, <1>3, <1>4

\* Whatever the text, the Host header that is built from what parse_url makes of it
\* names the host and the port that it was built from.
THEOREM HeadersReadBack == UrlSpec => []HostHeaderReadsBack
<1>1. WalkInv => HostHeaderReadsBack
  <2> SUFFICES ASSUME WalkInv PROVE HostHeaderReadsBack
    OBVIOUS
  <2> DEFINE p == Parts(url, marks)
             x == <<"a", ":", "/", "/">> \o HostHeader(p.host, p.port)
             S == Char \union {"a", ":", "/", "[", "]"}
  <2> SUFFICES ASSUME p # NoUrl, Contains(p.host, "%") => Contains(p.host, ":")
               PROVE  ParseUrl(x) = [p EXCEPT !.scheme = <<"a">>, !.path = <<"/">>]
    BY DEF HostHeaderReadsBack
  <2>1. url \in Seq(Char) /\ p = ByGrammar(url)
    BY MarkDone DEF WalkInv
  <2>2. url \in Seq(S) /\ {"a", ":", "/", "[", "]"} \subseteq S
    BY <2>1
  <2> HIDE DEF S, p
  <2>3. /\ p = [scheme |-> p.scheme, host |-> p.host, port |-> p.port, path |-> p.path]
        /\ p.host \in Seq(S) /\ IsHost(p.host) /\ p.port \in Seq(S) /\ IsPortText(p.port)
    BY <2>1, <2>2, UrlHasHost
  <2>4. x \in Seq(S) /\ \E o, e \in Nat : LaidOut(x, p.host, p.port, o, e)
    BY <2>2, <2>3, HeaderLaidOut
  <2> HIDE DEF x
  <2>5. PICK o, e \in Nat : LaidOut(x, p.host, p.port, o, e)
    BY <2>4
  <2>6. ByGrammar(x) = [scheme |-> <<"a">>, host |-> p.host, port |-> p.port, path |-> <<"/">>]
    <3> DEFINE r == [scheme |-> <<"a">>, host |-> p.host, port |-> p.port, path |-> <<"/">>]
    <3>1. \E a, hi \in Nat : UrlAt(x, 1, a, 4, o, hi, e) /\ UrlIs(x, 1, a, o, hi, e) = r
      BY <2>3, <2>4, <2>5, HeaderIsUrl
    <3> HIDE DEF r
    <3>2. ByGrammar(x) = r
      BY <2>4, <3>1, HeaderReads
    <3> QED
      BY <3>2 DEF r
  <2>7. [p EXCEPT !.scheme = <<"a">>, !.path = <<"/">>]
          = [scheme |-> <<"a">>, host |-> p.host, port |-> p.port, path |-> <<"/">>]
    <3> DEFINE q == [scheme |-> p.scheme, host |-> p.host, port |-> p.port, path |-> p.path]
    <3>1. WithEnds(q, <<"a">>, <<"/">>)
            = [scheme |-> <<"a">>, host |-> p.host, port |-> p.port, path |-> <<"/">>]
      BY EndsReplaced
    <3>2. p = q
      BY <2>3
    <3> HIDE DEF q
    <3>3. WithEnds(p, <<"a">>, <<"/">>) = WithEnds(q, <<"a">>, <<"/">>)
      BY <3>2
    <3> QED
      BY <3>1, <3>3 DEF WithEnds
  <2>8. ParseUrl(x) = ByGrammar(x)
    BY <2>4, TextRead
  <2> QED
    BY <2>6, <2>7, <2>8
<1> QED
  BY WalkInvInit, WalkInvStep, <1>1, PTL DEF UrlSpec

-----------------------------------------------------------------------------
(* The command line. *)

\* What holds at zero and goes on to the next holds up to n.
LEMMA Climb ==
  ASSUME NEW n \in Nat, NEW T, 0 \in T,
         ASSUME NEW i \in 1 .. n, i - 1 \in T PROVE i \in T
  PROVE  \A i \in 0 .. n : i \in T
<1> DEFINE M == {i \in 0 .. n : i \notin T}
<1> SUFFICES ASSUME M # {} PROVE FALSE
  OBVIOUS
<1>1. M \in SUBSET Nat
  OBVIOUS
<1>2. PICK i \in M : \A k \in M : i <= k
  <2> HIDE DEF M
  <2> QED
    BY <1>1, Least
<1>3. i \in 0 .. n /\ i \notin T
  OBVIOUS
<1>4. i # 0
  BY <1>3
<1>5. i \in 1 .. n /\ i - 1 \in 0 .. n /\ ~(i <= i - 1)
  <2> HIDE DEF M
  <2> QED
    BY <1>3, <1>4
<1>6. i - 1 \in T
  BY <1>2, <1>5
<1> QED
  BY <1>3, <1>5, <1>6

\* What getopt may return as an option: a value if and only if the option takes one.
OptionOf(short, value) == [short |-> short, value |-> value]
Flags == {s \in DOMAIN Options : ~Options[s].value}
Typed ==
    {OptionOf(s, Nil) : s \in Flags}
      \union {OptionOf(s, v) : s \in DOMAIN Options \ Flags, v \in Seq(Symbol)}

Words == Seq(Seq(Symbol))

LEMMA OptionFacts ==
  /\ DOMAIN Options = {"c", "d", "t", "s", "H", "L", "T", "o", "O", "e", "E", "h", "v"}
  /\ Flags = {"L", "E", "h", "v"}
  /\ \A s \in DOMAIN Options : Options[s].value \in BOOLEAN
<1>1. DOMAIN Options = {"c", "d", "t", "s", "H", "L", "T", "o", "O", "e", "E", "h", "v"}
  BY DEF Options
<1>2. \A s \in {"L", "E", "h", "v"} : Options[s].value = FALSE
  BY DEF Options
<1>3. \A s \in {"c", "d", "t", "s", "H", "T", "o", "O", "e"} : Options[s].value = TRUE
  BY DEF Options
<1>4. \A s \in DOMAIN Options : Options[s].value = (s \notin {"L", "E", "h", "v"})
  BY <1>1, <1>2, <1>3
<1> QED
  BY <1>1, <1>4 DEF Flags

LEMMA TypedFacts ==
  ASSUME NEW o \in Typed
  PROVE  /\ o = OptionOf(o.short, o.value)
         /\ o.short \in DOMAIN Options
         /\ o.short \in Flags => o.value = Nil
         /\ o.short \notin Flags => o.value \in Seq(Symbol)
  BY DEF Typed, OptionOf, Flags

LEMMA TypedIs ==
  /\ \A s \in Flags : OptionOf(s, Nil) \in Typed
  /\ \A s \in DOMAIN Options \ Flags, v \in Seq(Symbol) : OptionOf(s, v) \in Typed
  BY DEF Typed

\* The first of some places, and the last.
LEMMA MinFacts ==
  ASSUME NEW n \in Nat, NEW T \in SUBSET (1 .. n), T # {}
  PROVE  Min(T) \in T /\ \A k \in T : Min(T) <= k
<1>1. \E m \in T : \A k \in T : m <= k
  BY Least
<1> QED
  BY <1>1 DEF Min

LEMMA MaxFacts ==
  ASSUME NEW n \in Nat, NEW T \in SUBSET (1 .. n), T # {}
  PROVE  Max(T) \in T /\ \A k \in T : Max(T) >= k
<1> DEFINE U == {n - k : k \in T}
<1>1. U \in SUBSET Nat /\ U # {}
  <2>1. \A k \in T : n - k \in Nat
    OBVIOUS
  <2>2. PICK k \in T : TRUE
    OBVIOUS
  <2>3. n - k \in U
    OBVIOUS
  <2> QED
    BY <2>1, <2>3
<1>2. PICK u \in U : \A w \in U : u <= w
  <2> HIDE DEF U
  <2> QED
    BY <1>1, Least
<1>3. PICK m \in T : u = n - m
  OBVIOUS
<1>4. \A k \in T : m >= k
  BY <1>2, <1>3, SMTT(30)
<1>5. \E x \in T : \A k \in T : x >= k
  BY <1>4
<1> QED
  BY <1>5 DEF Max

LEMMA NextValueFacts ==
  ASSUME NEW words \in Words, NEW i \in 1 .. Len(words), NextValue(words, i) # Nil
  PROVE  NextValue(words, i) \in Seq(Symbol)
<1>1. i < Len(words)
  BY DEF NextValue
<1>2. NextValue(words, i) = words[i + 1] /\ i + 1 \in 1 .. Len(words)
  BY <1>1 DEF NextValue
<1> QED
  BY <1>2 DEF Words

\* What an option of a word, or its options, may be.
IsTook(took) ==
    \/ took.error \in Errors
    \/ \E options \in Seq(Typed), more \in {0, 1} : took = Took(options, more)

LEMMA Failing == ASSUME NEW e \in Errors PROVE IsTook(Failed(e))
  BY DEF IsTook, Failed

LEMMA TookOne ==
  ASSUME NEW short, NEW value, OptionOf(short, value) \in Typed, NEW more \in {0, 1}
  PROVE  IsTook(Took(Given(short, value), more))
<1>1. Given(short, value) = <<OptionOf(short, value)>>
  BY DEF Given, OptionOf
<1>2. Given(short, value) \in Seq(Typed)
  BY <1>1
<1> QED
  BY <1>2 DEF IsTook

\* A name means options that exist.
LEMMA MatchFacts ==
  ASSUME NEW name
  PROVE  Matches(name) \subseteq DOMAIN Options
<1> DEFINE D == DOMAIN Options
           exact == {s \in D : name = <<Options[s].long>>}
<1>1. CASE exact # {}
  BY <1>1 DEF Matches
<1>2. CASE exact = {} /\ name \in DOMAIN Completions
  <2>1. Matches(name) = {ShortOf(long) : long \in Completions[name]}
    BY <1>2 DEF Matches
  <2>2. ASSUME NEW long \in Completions[name] PROVE ShortOf(long) \in D
    <3>1. PICK s \in D : long = Options[s].long
      BY <1>2, CommandLineOK
    <3> QED
      BY <3>1 DEF ShortOf
  <2> QED
    BY <2>1, <2>2
<1>3. CASE exact = {} /\ name \notin DOMAIN Completions
  BY <1>3 DEF Matches
<1> QED
  BY <1>1, <1>2, <1>3

LEMMA LongIs ==
  ASSUME NEW words \in Words, NEW i \in 1 .. Len(words),
         IsLong(words[i])
  PROVE  IsTook(ParseLong(words, i))
<1> DEFINE body == SubSeq(words[i], 3, Len(words[i]))
           T == {k \in 1 .. Len(body) : body[k] = "="}
           equals == IF T # {} THEN Min(T) ELSE 0
           name == IF equals = 0 THEN body ELSE SubSeq(body, 1, equals - 1)
           attached == SubSeq(body, equals + 1, Len(body))
           meant == Matches(name)
           short == CHOOSE s \in meant : TRUE
           value == NextValue(words, i)
<1>1. words[i] \in Seq(Symbol) /\ Len(words[i]) \in Nat /\ Len(words[i]) > 2
  BY DEF Words, IsLong
<1>2. body \in Seq(Symbol) /\ Len(body) \in Nat
  BY <1>1
<1> HIDE DEF body
<1>3. equals \in 0 .. Len(body)
  <2>1. T \in SUBSET (1 .. Len(body))
    OBVIOUS
  <2> HIDE DEF T
  <2>2. T # {} => Min(T) \in 1 .. Len(body)
    BY <1>2, <2>1, MinFacts
  <2> QED
    BY <1>2, <2>2
<1>4. ParseLong(words, i) =
        IF meant # {short}
        THEN Failed(IF meant = {} THEN "unrecognized-option" ELSE "ambiguous-option")
        ELSE IF ~Options[short].value
        THEN IF equals # 0 THEN Failed("doesnt-allow-argument")
             ELSE Took(Given(short, Nil), 0)
        ELSE IF equals # 0 THEN Took(Given(short, attached), 0)
        ELSE IF value = Nil THEN Failed("requires-argument")
        ELSE Took(Given(short, value), 1)
  BY DEF ParseLong, SelectInSeq, body
<1> HIDE DEF T, equals
<1>5. attached \in Seq(Symbol)
  BY <1>2, <1>3
<1>6. value # Nil => value \in Seq(Symbol)
  BY NextValueFacts
<1>7. meant \subseteq DOMAIN Options
  BY MatchFacts
<1>8. meant = {short} => short \in DOMAIN Options
  BY <1>7
<1> HIDE DEF attached, value, meant, short
<1>9. ASSUME short \in DOMAIN Options, Options[short].value,
             NEW v \in Seq(Symbol), NEW more \in {0, 1}
      PROVE  IsTook(Took(Given(short, v), more))
  <2>1. OptionOf(short, v) \in Typed
    BY <1>9, TypedIs DEF Flags
  <2> QED
    BY <2>1, TookOne
<1>10. CASE meant # {short}
  <2> DEFINE e == IF meant = {} THEN "unrecognized-option" ELSE "ambiguous-option"
  <2>1. e \in Errors
    BY DEF Errors
  <2>2. ParseLong(words, i) = Failed(e)
    BY <1>4, <1>10
  <2> HIDE DEF e
  <2> QED
    BY <2>1, <2>2, Failing
<1>11. CASE meant = {short} /\ ~Options[short].value
  <2>1. OptionOf(short, Nil) \in Typed
    BY <1>8, <1>11, TypedIs DEF Flags
  <2>2. IsTook(Took(Given(short, Nil), 0))
    BY <2>1, TookOne
  <2>3. IsTook(Failed("doesnt-allow-argument"))
    BY Failing DEF Errors
  <2> QED
    BY <1>4, <1>11, <2>2, <2>3
<1>12. CASE meant = {short} /\ Options[short].value
  <2>1. IsTook(Failed("requires-argument"))
    BY Failing DEF Errors
  <2>2. IsTook(Took(Given(short, attached), 0))
    BY <1>5, <1>8, <1>9, <1>12
  <2>3. value # Nil => IsTook(Took(Given(short, value), 1))
    BY <1>6, <1>8, <1>9, <1>12
  <2> QED
    BY <1>4, <1>12, <2>1, <2>2, <2>3
<1> QED
  BY <1>10, <1>11, <1>12

LEMMA ClusterIs ==
  ASSUME NEW words \in Words, NEW i \in 1 .. Len(words),
         IsCluster(words[i])
  PROVE  IsTook(ParseCluster(words, i))
<1> DEFINE cluster == Tail(words[i])
           T == {k \in 1 .. Len(cluster) :
                   cluster[k] \notin DOMAIN Options \/ Options[cluster[k]].value}
           at == IF T # {} THEN Min(T) ELSE 0
           last == IF at = 0 THEN Len(cluster) ELSE at - 1
           flags == [k \in 1 .. last |-> [short |-> cluster[k], value |-> Nil]]
           attached == SubSeq(cluster, at + 1, Len(cluster))
           value == NextValue(words, i)
<1>1. words[i] \in Seq(Symbol) /\ Len(words[i]) \in Nat /\ Len(words[i]) > 1
  BY DEF Words, IsCluster
<1>2. cluster \in Seq(Symbol) /\ Len(cluster) \in Nat
  BY <1>1
<1> HIDE DEF cluster
<1>3. ParseCluster(words, i) =
        IF at = 0 THEN Took(flags, 0)
        ELSE IF cluster[at] \notin DOMAIN Options THEN Failed("invalid-option")
        ELSE IF at < Len(cluster)
        THEN Took(flags \o Given(cluster[at], attached), 0)
        ELSE IF value = Nil THEN Failed("requires-argument")
        ELSE Took(flags \o Given(cluster[at], value), 1)
  BY DEF ParseCluster, SelectInSeq, cluster
<1>4. T \in SUBSET (1 .. Len(cluster))
  OBVIOUS
<1>5. /\ at \in 0 .. Len(cluster) /\ last \in 0 .. Len(cluster)
      /\ at # 0 => at \in T
      /\ \A k \in 1 .. last : k \in 1 .. Len(cluster) /\ k \notin T
  <2> HIDE DEF T
  <2>1. CASE T = {}
    BY <1>2, <2>1
  <2>2. CASE T # {}
    <3>1. Min(T) \in T /\ \A k \in T : Min(T) <= k
      BY <1>2, <1>4, <2>2, MinFacts
    <3> HIDE DEF T
    <3>2. at = Min(T) /\ at \in 1 .. Len(cluster) /\ last = at - 1
      <4>1. at = Min(T)
        BY <2>2
      <4> HIDE DEF at
      <4>2. at \in 1 .. Len(cluster)
        BY <1>4, <3>1, <4>1
      <4>3. at # 0
        BY <1>2, <4>2
      <4> QED
        BY <4>1, <4>2, <4>3
    <3>3. \A k \in 1 .. at - 1 : k \in 1 .. Len(cluster) /\ ~(at <= k)
      BY <1>2, <3>2
    <3> QED
      BY <1>2, <3>1, <3>2, <3>3
  <2> QED
    BY <2>1, <2>2
<1> HIDE DEF at, last
<1>6. \A k \in 1 .. last : OptionOf(cluster[k], Nil) \in Typed
  <2>1. \A k \in 1 .. last : cluster[k] \in Flags
    BY <1>5 DEF Flags
  <2> QED
    BY <2>1, TypedIs
<1>7. at # 0 /\ cluster[at] \in DOMAIN Options => cluster[at] \in DOMAIN Options \ Flags
  BY <1>5 DEF Flags
<1> HIDE DEF T
<1>8. flags \in Seq(Typed)
  <2>1. flags = [k \in 1 .. last |-> OptionOf(cluster[k], Nil)]
    BY DEF OptionOf
  <2>2. last \in Nat
    BY <1>2, <1>5
  <2> HIDE DEF flags
  <2>3. flags \in [1 .. last -> Typed]
    BY <1>6, <2>1
  <2> QED
    BY <2>2, <2>3
<1>9. attached \in Seq(Symbol)
  BY <1>2, <1>5
<1>10. value # Nil => value \in Seq(Symbol)
  BY NextValueFacts
<1> HIDE DEF flags, attached, value
<1>11. ASSUME at # 0, cluster[at] \in DOMAIN Options, NEW v \in Seq(Symbol), NEW more \in {0, 1}
       PROVE  IsTook(Took(flags \o Given(cluster[at], v), more))
  <2>1. OptionOf(cluster[at], v) \in Typed
    BY <1>7, <1>11, TypedIs
  <2>2. Given(cluster[at], v) = <<OptionOf(cluster[at], v)>>
    BY DEF Given, OptionOf
  <2>3. <<OptionOf(cluster[at], v)>> \in Seq(Typed)
    BY <2>1
  <2>4. flags \o Given(cluster[at], v) \in Seq(Typed)
    BY <1>8, <2>2, <2>3
  <2> DEFINE os == flags \o Given(cluster[at], v)
  <2>5. os \in Seq(Typed)
    BY <2>4
  <2> HIDE DEF os
  <2>6. \E options \in Seq(Typed), m \in {0, 1} : Took(os, more) = Took(options, m)
    BY <2>5
  <2>7. IsTook(Took(os, more))
    BY <2>6 DEF IsTook
  <2> QED
    BY <2>7 DEF os
<1>12. IsTook(Took(flags, 0))
  BY <1>8 DEF IsTook
<1>13. IsTook(Failed("invalid-option"))
  BY Failing DEF Errors
<1>14. IsTook(Failed("requires-argument"))
  BY Failing DEF Errors
<1>15. CASE at = 0
  BY <1>3, <1>12, <1>15
<1>16. CASE at # 0 /\ cluster[at] \notin DOMAIN Options
  BY <1>3, <1>13, <1>16
<1>17. CASE at # 0 /\ cluster[at] \in DOMAIN Options
  <2>1. IsTook(Took(flags \o Given(cluster[at], attached), 0))
    BY <1>9, <1>11, <1>17
  <2>2. value # Nil => IsTook(Took(flags \o Given(cluster[at], value), 1))
    BY <1>10, <1>11, <1>17
  <2> QED
    BY <1>3, <1>14, <1>17, <2>1, <2>2
<1> QED
  BY <1>15, <1>16, <1>17

\* What getopt has read, in any round.
Readings ==
    [error : {Nil} \union Errors, options : Seq(Typed), positional : Words, next : Nat]

LEMMA BroughtType ==
  ASSUME NEW s \in Readings, NEW options \in Seq(Typed), NEW positional \in Words,
         NEW next \in Nat
  PROVE  Brought(s, options, positional, next) \in Readings
<1>1. s.options \o options \in Seq(Typed) /\ s.positional \o positional \in Words
  BY DEF Readings, Words
<1> QED
  BY <1>1 DEF Brought, Readings

LEMMA RoundType ==
  ASSUME NEW words \in Words, NEW i \in 1 .. Len(words),
         NEW s \in Readings
  PROVE  Round(words, i, s) \in Readings
<1> DEFINE took == IF IsLong(words[i]) THEN ParseLong(words, i)
                   ELSE ParseCluster(words, i)
<1>1. Round(words, i, s) =
        IF s.error # Nil \/ i < s.next THEN s
        ELSE IF words[i] = DashDash
        THEN Brought(s, <<>>, SubSeq(words, i + 1, Len(words)), Len(words) + 1)
        ELSE IF ~IsLong(words[i]) /\ ~IsCluster(words[i])
        THEN Brought(s, <<>>, <<words[i]>>, i + 1)
        ELSE IF took.error # Nil THEN [s EXCEPT !.error = took.error]
        ELSE Brought(s, took.options, <<>>, i + 1 + took.more)
  BY DEF Round
<1>2. /\ i \in Nat /\ Len(words) \in Nat /\ i + 1 \in Nat /\ Len(words) + 1 \in Nat
      /\ words[i] \in Seq(Symbol) /\ <<>> \in Seq(Typed) /\ <<>> \in Words
      /\ SubSeq(words, i + 1, Len(words)) \in Words /\ <<words[i]>> \in Words
  BY DEF Words
<1>3. IsLong(words[i]) \/ IsCluster(words[i]) => IsTook(took)
  BY LongIs, ClusterIs
<1> HIDE DEF took
<1>4. ASSUME IsTook(took), took.error # Nil PROVE [s EXCEPT !.error = took.error] \in Readings
  <2>1. took.error \in Errors
    BY <1>4 DEF IsTook, Took
  <2> QED
    BY <2>1 DEF Readings
<1>5. ASSUME IsTook(took), took.error = Nil
      PROVE  Brought(s, took.options, <<>>, i + 1 + took.more) \in Readings
  <2>1. took.error \notin Errors
    BY <1>5, CommandLineOK
  <2>2. took.options \in Seq(Typed) /\ took.more \in {0, 1}
    BY <1>5, <2>1 DEF IsTook, Took
  <2>3. i + 1 + took.more \in Nat
    BY <1>2, <2>2
  <2> QED
    BY <1>2, <2>2, <2>3, BroughtType
<1>6. \A positional \in Words, next \in Nat :
        Brought(s, <<>>, positional, next) \in Readings
  BY <1>2, BroughtType
<1>7. /\ Brought(s, <<>>, SubSeq(words, i + 1, Len(words)), Len(words) + 1) \in Readings
      /\ Brought(s, <<>>, <<words[i]>>, i + 1) \in Readings
  BY <1>2, <1>6
<1> QED
  BY <1>1, <1>3, <1>4, <1>5, <1>7

LEMMA StartType == Start \in Readings
  BY DEF Start, Readings, Words

\* The loop of getopt, over words of any alphabet.
LEMMA GetOptLoop ==
  ASSUME NEW words \in Words
  PROVE  \E u :
            /\ u[0] = Start
            /\ \A i \in 1 .. Len(words) : u[i] = Round(words, i, u[i - 1])
            /\ \A i \in 0 .. Len(words) : u[i] \in Readings
            /\ GetOpt(words) = IF u[Len(words)].error # Nil
                                    THEN Failed(u[Len(words)].error)
                                    ELSE Parsed(u[Len(words)].options,
                                                     u[Len(words)].positional)
<1> DEFINE n == Len(words)
           start == Start
           Turned(s, i) == Round(words, i, s)
           G == [p \in (0 .. n) \X Readings |-> IF p[1] = 0 THEN start
                                                 ELSE Turned(p[2], p[1])]
           Is(g) == g = [i \in 0 .. n |-> IF i = 0 THEN start ELSE Turned(g[i - 1], i)]
<1>1. n \in Nat
  BY DEF Words
<1>2. \A s \in Readings, i \in 1 .. n : Turned(s, i) \in Readings
  BY RoundType
<1> HIDE DEF n, Turned, start
<1>3. G \in [(0 .. n) \X Readings -> Readings]
  BY <1>1, <1>2, StartType DEF start
<1>4. \A i \in 1 .. n, s \in Readings : G[<<i, s>>] = Turned(s, i)
  BY <1>1
<1> HIDE DEF G
<1>5. \E g : RunOf(0, n, Readings, start, G, g)
  <2>1. IsLoop(0, n, Readings, start, G)
    BY <1>1, <1>3, StartType DEF IsLoop, start
  <2> QED
    BY <2>1, LoopExists
<1>6. PICK g : RunOf(0, n, Readings, start, G, g)
  BY <1>5
<1>7. /\ g \in [0 .. n -> Readings] /\ g[0] = start
      /\ \A i \in 1 .. n : i \in 0 .. n /\ i # 0 /\ i - 1 \in 0 .. n /\ g[i] = G[<<i, g[i - 1]>>]
  BY <1>1, <1>6 DEF RunOf
<1>8. \A i \in 1 .. n : g[i] = Turned(g[i - 1], i)
  <2>1. \A i \in 1 .. n : g[i - 1] \in Readings
    BY <1>7
  <2> QED
    BY <1>4, <1>7, <2>1
<1>9. Is(g)
  BY <1>1, <1>7, <1>8
<1> DEFINE upTo == CHOOSE g_ : Is(g_)
<1>10. Is(upTo)
  BY <1>9, Zenon
<1>11. GetOpt(words) = IF upTo[n].error # Nil THEN Failed(upTo[n].error)
                            ELSE Parsed(upTo[n].options, upTo[n].positional)
  BY DEF GetOpt, n, Turned, start
<1> HIDE DEF upTo
<1>12. upTo[0] = start /\ \A i \in 1 .. n : upTo[i] = Turned(upTo[i - 1], i)
  BY <1>1, <1>10
<1> DEFINE T == {i \in 0 .. n : upTo[i] \in Readings}
<1>13. 0 \in T
  BY <1>1, <1>12, StartType DEF start
<1>14. ASSUME NEW i \in 1 .. n, i - 1 \in T PROVE i \in T
  BY <1>1, <1>2, <1>12, <1>14
<1>15. \A i \in 0 .. n : i \in T
  <2> HIDE DEF T
  <2> QED
    BY <1>1, <1>13, <1>14, Climb
<1> QED
  BY <1>11, <1>12, <1>15 DEF n, Turned, start

\* getopt returns options as they may be, or nothing but an error.
LEMMA GetOptType ==
  ASSUME NEW words \in Words, GetOpt(words).error = Nil
  PROVE  /\ GetOpt(words).options \in Seq(Typed)
         /\ GetOpt(words).positional \in Words
         /\ GetOpt(words) = Parsed(GetOpt(words).options,
                                             GetOpt(words).positional)
<1> DEFINE n == Len(words)
<1>1. PICK u : /\ \A i \in 0 .. n : u[i] \in Readings
               /\ GetOpt(words) = IF u[n].error # Nil THEN Failed(u[n].error)
                                       ELSE Parsed(u[n].options, u[n].positional)
  BY GetOptLoop
<1>2. n \in 0 .. n
  BY DEF Words
<1> HIDE DEF n
<1>3. u[n].options \in Seq(Typed) /\ u[n].positional \in Words
  BY <1>1, <1>2 DEF Readings
<1>4. u[n].error = Nil
  BY <1>1 DEF Failed
<1> QED
  BY <1>1, <1>3, <1>4 DEF Parsed

-----------------------------------------------------------------------------
(* A command line that is spelled out is read as what it spells. *)

\* A sequence goes on where another ends.
Begins(a, b) == Len(a) <= Len(b) /\ \A i \in 1 .. Len(a) : a[i] = b[i]

LEMMA PairCat == ASSUME NEW S, NEW a \in S, NEW b \in S PROVE <<a>> \o <<b>> = <<a, b>>
<1>1. <<a>> \in Seq(S) /\ <<b>> \in Seq(S) /\ <<a, b>> \in Seq(S)
  OBVIOUS
<1>2. Len(<<a>> \o <<b>>) = 2 /\ (<<a>> \o <<b>>)[1] = a /\ (<<a>> \o <<b>>)[2] = b
  BY <1>1
<1>3. <<a>> \o <<b>> \in Seq(S)
  BY <1>1
<1>4. Len(<<a, b>>) = 2 /\ <<a, b>>[1] = a /\ <<a, b>>[2] = b
  OBVIOUS
<1> DEFINE p == <<a>> \o <<b>>
           q == <<a, b>>
<1>5. p \in Seq(S) /\ q \in Seq(S) /\ Len(p) = Len(q)
  BY <1>1, <1>2, <1>3, <1>4
<1>6. \A i \in 1 .. Len(p) : p[i] = q[i]
  BY <1>2, <1>4
<1> HIDE DEF p, q
<1>7. p = q
  BY <1>5, <1>6, SameText
<1> QED
  BY <1>7 DEF p, q

LEMMA SpelledWord ==
  ASSUME NEW o \in Typed
  PROVE  /\ SpelledOption(o) \in Words
         /\ SpelledOption(o)[1] = <<"-", o.short>>
         /\ o.value = Nil => Len(SpelledOption(o)) = 1
         /\ o.value # Nil => /\ Len(SpelledOption(o)) = 2
                             /\ SpelledOption(o)[2] = o.value
<1> DEFINE first == <<"-", o.short>>
<1>1. first \in Seq(Symbol)
  <2>1. "-" \in Symbol /\ o.short \in Symbol
    BY TypedFacts, CommandLineOK
  <2> QED
    BY <2>1
<1>2. SpelledOption(o) = <<first>> \o (IF o.value = Nil THEN <<>> ELSE <<o.value>>)
  BY DEF SpelledOption
<1> HIDE DEF first
<1>3. o.value # Nil => o.value \in Seq(Symbol)
  BY TypedFacts
<1>4. CASE o.value = Nil
  BY <1>1, <1>2, <1>4 DEF Words, first
<1>5. CASE o.value # Nil
  <2>1. <<first>> \o <<o.value>> = <<first, o.value>>
    BY <1>1, <1>3, <1>5, PairCat
  <2>2. SpelledOption(o) = <<first>> \o <<o.value>>
    BY <1>2, <1>5
  <2>3. SpelledOption(o) = <<first, o.value>>
    BY <2>1, <2>2
  <2> QED
    BY <1>1, <1>3, <1>5, <2>3 DEF Words, first
<1> QED
  BY <1>4, <1>5

\* The words of the options, one option after the other.
LEMMA SpelledLoop ==
  ASSUME NEW got, got.options \in Seq(Typed)
  PROVE  \E v :
            /\ v[0] = <<>>
            /\ \A k \in 1 .. Len(got.options) :
                 v[k] = v[k - 1] \o SpelledOption(got.options[k])
            /\ \A k \in 0 .. Len(got.options) : v[k] \in Words
            /\ Spelled(got)
                 = v[Len(got.options)] \o <<DashDash>> \o got.positional
<1> DEFINE n == Len(got.options)
           none == <<>>
           Turned(s, k) == s \o SpelledOption(got.options[k])
           G == [p \in (0 .. n) \X Words |-> IF p[1] = 0 THEN none ELSE Turned(p[2], p[1])]
           Is(g) == g = [k \in 0 .. n |-> IF k = 0 THEN none ELSE Turned(g[k - 1], k)]
<1>1. n \in Nat /\ none \in Words
  BY DEF Words
<1>2. ASSUME NEW s \in Words, NEW k \in 1 .. n PROVE Turned(s, k) \in Words
  <2>1. got.options[k] \in Typed
    OBVIOUS
  <2>2. SpelledOption(got.options[k]) \in Words
    BY <2>1, SpelledWord
  <2> QED
    BY <2>2 DEF Words
<1>3. Spelled(got)
        = (CHOOSE g_ : Is(g_))[n] \o <<DashDash>> \o got.positional
  BY DEF Spelled
<1> HIDE DEF n, Turned, none
<1>4. G \in [(0 .. n) \X Words -> Words]
  BY <1>1, <1>2
<1>5. \A k \in 1 .. n, s \in Words : G[<<k, s>>] = Turned(s, k)
  BY <1>1
<1> HIDE DEF G
<1>6. PICK g : RunOf(0, n, Words, none, G, g)
  <2>1. IsLoop(0, n, Words, none, G)
    BY <1>1, <1>4 DEF IsLoop
  <2> QED
    BY <2>1, LoopExists
<1>7. /\ g \in [0 .. n -> Words] /\ g[0] = none
      /\ \A k \in 1 .. n : k \in 0 .. n /\ k # 0 /\ k - 1 \in 0 .. n /\ g[k] = G[<<k, g[k - 1]>>]
  BY <1>1, <1>6 DEF RunOf
<1>8. \A k \in 1 .. n : g[k] = Turned(g[k - 1], k)
  <2>1. \A k \in 1 .. n : g[k - 1] \in Words
    BY <1>7
  <2> QED
    BY <1>5, <1>7, <2>1
<1>9. Is(g)
  BY <1>1, <1>7, <1>8
<1> DEFINE upTo == CHOOSE g_ : Is(g_)
<1>10. Is(upTo)
  BY <1>9, Zenon
<1>11. Spelled(got) = upTo[n] \o <<DashDash>> \o got.positional
  BY <1>3
<1> HIDE DEF upTo
<1>12. upTo[0] = none /\ \A k \in 1 .. n : upTo[k] = Turned(upTo[k - 1], k)
  BY <1>1, <1>10
<1> DEFINE T == {k \in 0 .. n : upTo[k] \in Words}
<1>13. 0 \in T
  BY <1>1, <1>12
<1>14. ASSUME NEW k \in 1 .. n, k - 1 \in T PROVE k \in T
  BY <1>1, <1>2, <1>12, <1>14
<1>15. \A k \in 0 .. n : k \in T
  <2> HIDE DEF T
  <2> QED
    BY <1>1, <1>13, <1>14, Climb
<1> QED
  BY <1>11, <1>12, <1>15 DEF n, Turned, none

LEMMA CatFacts ==
  ASSUME NEW a \in Words, NEW b \in Words
  PROVE  /\ a \o b \in Words /\ Len(a) \in Nat /\ Len(b) \in Nat
         /\ Len(a \o b) = Len(a) + Len(b)
         /\ \A i \in 1 .. Len(a) : (a \o b)[i] = a[i]
         /\ \A i \in 1 .. Len(b) : (a \o b)[Len(a) + i] = b[i]
         /\ SubSeq(a \o b, Len(a) + 1, Len(a \o b)) = b
<1> DEFINE S == Seq(Symbol)
<1>1. a \in Seq(S) /\ b \in Seq(S)
  BY DEF Words
<1> HIDE DEF S
<1>2. a \o b \in Seq(S) /\ Len(a) \in Nat /\ Len(b) \in Nat /\ Len(a \o b) = Len(a) + Len(b)
  BY <1>1
<1>3. /\ \A i \in 1 .. Len(a) : (a \o b)[i] = a[i]
      /\ \A i \in 1 .. Len(b) : (a \o b)[Len(a) + i] = b[i]
  BY <1>1, <1>2
<1> DEFINE c == a \o b
           d == SubSeq(c, Len(a) + 1, Len(c))
<1> HIDE DEF c
<1>4. c \in Seq(S) /\ Len(c) = Len(a) + Len(b)
  BY <1>2 DEF c
<1>5. d \in Seq(S) /\ Len(d) = Len(b) /\ \A i \in 1 .. Len(b) : d[i] = c[Len(a) + i]
  BY <1>2, <1>4
<1>6. \A i \in 1 .. Len(d) : d[i] = b[i]
  BY <1>3, <1>5 DEF c
<1> HIDE DEF d
<1>7. d = b
  BY <1>1, <1>5, <1>6, SameText
<1> QED
  BY <1>2, <1>3, <1>7 DEF c, d, Words, S

LEMMA BeginsFacts ==
  ASSUME NEW a \in Words, NEW b \in Words, NEW c \in Words
  PROVE  /\ Begins(a, a)
         /\ Begins(a, a \o b)
         /\ Begins(a, b) /\ Begins(b, c) => Begins(a, c)
<1>1. Len(a) \in Nat /\ Len(b) \in Nat /\ Len(c) \in Nat
  BY DEF Words
<1>2. Len(a \o b) = Len(a) + Len(b) /\ \A i \in 1 .. Len(a) : (a \o b)[i] = a[i]
  BY DEF Words
<1> QED
  BY <1>1, <1>2 DEF Begins

\* What getopt has read when the first p words were options and their values.
Behind(os, p) == [error |-> Nil, options |-> os, positional |-> <<>>, next |-> p + 1]

\* A word with one short option.
LEMMA ShortWord ==
  ASSUME NEW s \in DOMAIN Options
  PROVE  /\ <<"-", s>> # DashDash /\ ~IsLong(<<"-", s>>) /\ IsCluster(<<"-", s>>)
         /\ Tail(<<"-", s>>) = <<s>>
<1>1. s # "-"
  BY OptionFacts
<1> QED
  BY <1>1 DEF DashDash, IsLong, IsCluster

LEMMA ShortCluster ==
  ASSUME NEW words, NEW i, NEW o \in Typed, words[i] = <<"-", o.short>>,
         o.value # Nil => NextValue(words, i) = o.value
  PROVE  ParseCluster(words, i) = Took(<<o>>, IF o.value = Nil THEN 0 ELSE 1)
<1> DEFINE s == o.short
           cluster == Tail(words[i])
           T == {k \in 1 .. Len(cluster) :
                   cluster[k] \notin DOMAIN Options \/ Options[cluster[k]].value}
           at == IF T # {} THEN Min(T) ELSE 0
           last == IF at = 0 THEN Len(cluster) ELSE at - 1
           flags == [k \in 1 .. last |-> [short |-> cluster[k], value |-> Nil]]
           attached == SubSeq(cluster, at + 1, Len(cluster))
           value == NextValue(words, i)
<1>1. ParseCluster(words, i) =
        IF at = 0 THEN Took(flags, 0)
        ELSE IF cluster[at] \notin DOMAIN Options THEN Failed("invalid-option")
        ELSE IF at < Len(cluster)
        THEN Took(flags \o Given(cluster[at], attached), 0)
        ELSE IF value = Nil THEN Failed("requires-argument")
        ELSE Took(flags \o Given(cluster[at], value), 1)
  BY DEF ParseCluster, SelectInSeq
<1>2. /\ o = OptionOf(s, o.value) /\ s \in DOMAIN Options
      /\ s \in Flags => o.value = Nil
      /\ s \notin Flags => o.value \in Seq(Symbol) /\ o.value # Nil
  BY TypedFacts, CommandLineOK
<1>3. cluster = <<s>>
  BY <1>2, ShortWord
<1>4. Len(cluster) = 1 /\ cluster[1] = s /\ 1 .. Len(cluster) = {1}
  BY <1>3
<1> HIDE DEF cluster, s
<1>5. CASE s \in Flags
  <2>1. T = {}
    BY <1>2, <1>4, <1>5 DEF Flags
  <2>2. at = 0
    BY <2>1
  <2> HIDE DEF T, at
  <2>3. flags = [k \in {1} |-> OptionOf(s, Nil)]
    BY <1>4, <2>2 DEF OptionOf
  <2>4. flags = <<o>>
    BY <1>2, <1>5, <2>3
  <2> HIDE DEF flags
  <2> QED
    BY <1>1, <1>2, <1>5, <2>2, <2>4
<1>6. CASE s \notin Flags
  <2>1. T = {1}
    BY <1>2, <1>4, <1>6 DEF Flags
  <2>2. Min(T) \in T
    <3>1. T \in SUBSET (1 .. 1) /\ T # {} /\ 1 \in Nat
      BY <2>1
    <3> HIDE DEF T
    <3> QED
      BY <3>1, MinFacts
  <2>3. at = 1
    BY <2>1, <2>2
  <2> HIDE DEF T, at
  <2>4. last = 0
    BY <2>3
  <2>5. flags = <<>>
    BY <2>4
  <2>6. value = o.value
    BY <1>2, <1>6
  <2>7. Given(cluster[at], value) = <<o>>
    BY <1>2, <1>4, <2>3, <2>6 DEF Given, OptionOf
  <2>8. flags \o <<o>> = <<o>>
    <3>1. <<o>> \in Seq(Typed)
      OBVIOUS
    <3>2. \A x \in Seq(Typed) : <<>> \o x = x
      OBVIOUS
    <3> QED
      BY <2>5, <3>1, <3>2
  <2>9. at # 0 /\ cluster[at] \in DOMAIN Options /\ ~(at < Len(cluster))
    BY <1>2, <1>4, <2>3
  <2>10. value # Nil
    BY <1>2, <1>6, <2>6
  <2> HIDE DEF flags, value, attached
  <2> QED
    BY <1>1, <1>2, <1>6, <2>7, <2>8, <2>9, <2>10
<1> QED
  BY <1>5, <1>6

\* A round on an option that is spelled out, and the round that leaves its value out.
LEMMA ReadOption ==
  ASSUME NEW words \in Words, NEW p \in Nat, NEW os \in Seq(Typed), NEW o \in Typed,
         p + Len(SpelledOption(o)) <= Len(words),
         \A j \in 1 .. Len(SpelledOption(o)) : words[p + j] = SpelledOption(o)[j]
  PROVE  LET q == p + Len(SpelledOption(o))
             s == Behind(Append(os, o), q)
         IN  /\ Round(words, p + 1, Behind(os, p)) = s
             /\ q = p + 1 \/ (q = p + 2 /\ Round(words, p + 2, s) = s)
<1> DEFINE m == Len(SpelledOption(o))
           q == p + m
           took == ParseCluster(words, p + 1)
<1>1. /\ o.value = Nil => m = 1
      /\ o.value # Nil => m = 2 /\ SpelledOption(o)[2] = o.value
      /\ SpelledOption(o)[1] = <<"-", o.short>>
  BY SpelledWord
<1>2. m \in {1, 2}
  BY <1>1
<1>3. words[p + 1] = <<"-", o.short>>
  BY <1>1, <1>2
<1>4. o.value # Nil => words[p + 2] = o.value
  BY <1>1
<1> HIDE DEF m
<1>5. p + m <= Len(words) /\ Len(words) \in Nat
  BY DEF m, Words
<1>6. o.value # Nil => NextValue(words, p + 1) = o.value
  <2>1. (p + 1) + 1 = p + 2
    OBVIOUS
  <2> QED
    BY <1>1, <1>4, <1>5, <2>1 DEF NextValue
<1>7. took = Took(<<o>>, IF o.value = Nil THEN 0 ELSE 1)
  BY <1>3, <1>6, ShortCluster
<1>8. took.error = Nil /\ took.options = <<o>> /\ p + 1 + 1 + took.more = q + 1
  BY <1>1, <1>7 DEF Took
<1>9. o.short \in DOMAIN Options
  BY TypedFacts
<1>10. Round(words, p + 1, Behind(os, p))
         = Brought(Behind(os, p), took.options, <<>>, p + 1 + 1 + took.more)
  <2>1. /\ words[p + 1] # DashDash /\ ~IsLong(words[p + 1])
        /\ IsCluster(words[p + 1])
    BY <1>3, <1>9, ShortWord
  <2>2. Behind(os, p).error = Nil /\ ~(p + 1 < Behind(os, p).next)
    BY DEF Behind
  <2> HIDE DEF took
  <2> QED
    BY <1>8, <2>1, <2>2 DEF Round, took
<1>11. Round(words, p + 1, Behind(os, p)) = Behind(Append(os, o), q)
  <2>1. os \o <<o>> = Append(os, o) /\ <<>> \o <<>> = <<>>
    OBVIOUS
  <2> HIDE DEF took, q
  <2> QED
    BY <1>8, <1>10, <2>1 DEF Brought, Behind
<1>12. CASE m = 1
  BY <1>11, <1>12 DEF m
<1>13. CASE m = 2
  <2>1. p + 2 < q + 1 /\ q = p + 2
    BY <1>13
  <2> HIDE DEF q
  <2>2. Round(words, p + 2, Behind(Append(os, o), q)) = Behind(Append(os, o), q)
    BY <2>1 DEF Round, Behind
  <2> QED
    BY <1>11, <2>1, <2>2 DEF m, q
<1> QED
  BY <1>2, <1>12, <1>13

LEMMA SubSeqGrows ==
  ASSUME NEW S, NEW s \in Seq(S), NEW k \in 1 .. Len(s)
  PROVE  Append(SubSeq(s, 1, k - 1), s[k]) = SubSeq(s, 1, k)
<1>1. SubSeq(s, 1, k - 1) \in Seq(S) /\ Len(SubSeq(s, 1, k - 1)) = k - 1 /\ s[k] \in S
  OBVIOUS
<1>2. SubSeq(s, 1, k) \in Seq(S) /\ Len(SubSeq(s, 1, k)) = k
  OBVIOUS
<1>3. \A i \in 1 .. k - 1 : SubSeq(s, 1, k - 1)[i] = s[i]
  OBVIOUS
<1>4. \A i \in 1 .. k : SubSeq(s, 1, k)[i] = s[i]
  OBVIOUS
<1> DEFINE a == SubSeq(s, 1, k - 1)
           b == SubSeq(s, 1, k)
<1> HIDE DEF a, b
<1>5. Append(a, s[k]) \in Seq(S) /\ Len(Append(a, s[k])) = k
  BY <1>1 DEF a
<1>6. \A i \in 1 .. k : Append(a, s[k])[i] = b[i]
  BY <1>1, <1>3, <1>4 DEF a, b
<1>7. Append(a, s[k]) = b
  BY <1>2, <1>5, <1>6 DEF b
<1> QED
  BY <1>7 DEF a, b

\* The words of the first options are at the beginning of all of them.
LEMMA SpelledGrows ==
  ASSUME NEW n \in Nat, NEW v, NEW w,
         \A k \in 0 .. n : v[k] \in Words,
         \A k \in 1 .. n : w[k] \in Words /\ v[k] = v[k - 1] \o w[k]
  PROVE  \A k \in 0 .. n : Begins(v[k], v[n])
<1> DEFINE T == {k \in 0 .. n : \A j \in 0 .. k : Begins(v[j], v[k])}
<1>1. 0 \in T
  <2>1. Begins(v[0], v[0])
    BY BeginsFacts
  <2> QED
    BY <2>1
<1>2. ASSUME NEW k \in 1 .. n, k - 1 \in T PROVE k \in T
  <2> HIDE DEF T
  <2>1. v[k - 1] \in Words /\ v[k] \in Words /\ w[k] \in Words /\ v[k] = v[k - 1] \o w[k]
    <3>1. k - 1 \in 0 .. n /\ k \in 0 .. n
      OBVIOUS
    <3> QED
      BY <3>1
  <2>2. Begins(v[k - 1], v[k]) /\ Begins(v[k], v[k])
    BY <2>1, BeginsFacts
  <2>3. ASSUME NEW j \in 0 .. k PROVE Begins(v[j], v[k])
    <3>1. CASE j = k
      BY <2>2, <3>1
    <3>2. CASE j # k
      <4>1. j \in 0 .. k - 1 /\ v[j] \in Words
        BY <3>2
      <4>2. Begins(v[j], v[k - 1])
        BY <1>2, <4>1 DEF T
      <4> QED
        BY <2>1, <2>2, <4>1, <4>2, BeginsFacts
    <3> QED
      BY <3>1, <3>2
  <2> QED
    BY <2>3 DEF T
<1>3. \A k \in 0 .. n : k \in T
  <2> HIDE DEF T
  <2> QED
    BY <1>1, <1>2, Climb
<1>4. n \in T
  BY <1>3
<1> QED
  BY <1>4

Laid(a, b, c, w) == w = a \o b \o c

\* Two dashes behind some words, and words behind the dashes.
LEMMA DashesBehind ==
  ASSUME NEW a \in Words, NEW positional \in Words, NEW dash, <<dash>> \in Words,
         NEW W, Laid(a, <<dash>>, positional, W)
  PROVE  /\ W \in Words /\ Len(W) \in Nat /\ Len(a) \in Nat
         /\ Len(W) = Len(a) + 1 + Len(positional) /\ Begins(a, W) /\ W[Len(a) + 1] = dash
         /\ SubSeq(W, Len(a) + 1 + 1, Len(W)) = positional
<1> DEFINE d == <<dash>>
<1>1. Len(d) = 1 /\ d[1] = dash /\ d \in Words
  OBVIOUS
<1> HIDE DEF d
<1> DEFINE c == a \o d
<1>2. c \in Words /\ Len(a) \in Nat /\ Len(c) = Len(a) + 1 /\ Begins(a, c)
  <2>1. a \o d \in Words /\ Len(a) \in Nat /\ Len(a \o d) = Len(a) + Len(d)
    BY <1>1, CatFacts
  <2>2. Begins(a, a \o d)
    BY <1>1, BeginsFacts
  <2> QED
    BY <1>1, <2>1, <2>2
<1>3. c[Len(a) + 1] = dash
  <2>1. \A i \in 1 .. Len(d) : (a \o d)[Len(a) + i] = d[i]
    BY <1>1, CatFacts
  <2>2. 1 \in 1 .. Len(d)
    BY <1>1
  <2>3. (a \o d)[Len(a) + 1] = d[1]
    BY <2>1, <2>2
  <2> QED
    BY <1>1, <2>3
<1> HIDE DEF c
<1>4. W = c \o positional
  BY DEF c, d, Laid
<1>5. /\ W \in Words /\ Len(W) = Len(c) + Len(positional) /\ Len(positional) \in Nat
      /\ Begins(c, W) /\ SubSeq(W, Len(c) + 1, Len(W)) = positional
  <2>1. /\ c \o positional \in Words /\ Len(positional) \in Nat
        /\ Len(c \o positional) = Len(c) + Len(positional)
        /\ SubSeq(c \o positional, Len(c) + 1, Len(c \o positional)) = positional
    BY <1>2, CatFacts
  <2>2. Begins(c, c \o positional)
    BY <1>2, BeginsFacts
  <2> QED
    BY <1>4, <2>1, <2>2
<1>6. W[Len(a) + 1] = dash
  <2>1. Len(a) + 1 \in 1 .. Len(c)
    BY <1>2
  <2> QED
    BY <1>3, <1>5, <2>1 DEF Begins
<1>7. Begins(a, W)
  BY <1>2, <1>5, BeginsFacts
<1> QED
  BY <1>2, <1>5, <1>6, <1>7

\* The round behind p words.
LEMMA RoundAt ==
  ASSUME NEW N \in Nat, NEW W, NEW u, \A i \in 1 .. N : u[i] = Round(W, i, u[i - 1]),
         NEW p \in Nat, p + 1 <= N
  PROVE  u[p + 1] = Round(W, p + 1, u[p])
<1> DEFINE i == p + 1
<1>1. i \in 1 .. N /\ i - 1 = p
  OBVIOUS
<1> HIDE DEF i
<1>2. u[i] = Round(W, i, u[p])
  BY <1>1
<1> QED
  BY <1>2 DEF i

\* What is spelled out is read back.
LEMMA ReadBack ==
  ASSUME NEW options \in Seq(Typed), NEW positional \in Words
  PROVE  LET got == Parsed(options, positional)
         IN  GetOpt(Spelled(got)) = got
<1> DEFINE got == Parsed(options, positional)
           n == Len(options)
           W == Spelled(got)
           N == Len(W)
           dashes == <<DashDash>>
<1>1. got.options = options /\ got.positional = positional
  BY DEF Parsed
<1>2. n \in Nat
  OBVIOUS
<1> HIDE DEF got
<1>3. PICK v : /\ v[0] = <<>>
               /\ \A k \in 1 .. n : v[k] = v[k - 1] \o SpelledOption(options[k])
               /\ \A k \in 0 .. n : v[k] \in Words
               /\ W = v[n] \o dashes \o positional
  BY <1>1, SpelledLoop
<1>4. \A k \in 1 .. n : SpelledOption(options[k]) \in Words
  <2>1. \A k \in 1 .. n : options[k] \in Typed
    OBVIOUS
  <2> QED
    BY <2>1, SpelledWord
<1> DEFINE L == Len(v[n])
<1>5. /\ v[n] \in Words /\ dashes \in Words /\ W \in Words /\ N \in Nat /\ L \in Nat
      /\ N = L + 1 + Len(positional) /\ Begins(v[n], W) /\ W[L + 1] = DashDash
      /\ SubSeq(W, L + 1 + 1, N) = positional
  <2>1. v[n] \in Words
    BY <1>2, <1>3
  <2>2. dashes \in Words
    <3>1. "-" \in Symbol
      BY CommandLineOK
    <3>2. DashDash \in Seq(Symbol)
      BY <3>1 DEF DashDash
    <3> QED
      BY <3>2 DEF Words
  <2> DEFINE a == v[n]
             dash == DashDash
  <2> HIDE DEF W, a, dash
  <2>3. a \in Words /\ Laid(a, <<dash>>, positional, W) /\ <<dash>> \in Words
    BY <1>3, <2>1, <2>2 DEF a, dash, Laid
  <2>4. /\ W \in Words /\ Len(W) \in Nat /\ Len(a) \in Nat
        /\ Len(W) = Len(a) + 1 + Len(positional) /\ Begins(a, W)
        /\ W[Len(a) + 1] = dash /\ SubSeq(W, Len(a) + 1 + 1, Len(W)) = positional
    BY <2>3, DashesBehind
  <2> QED
    BY <2>1, <2>2, <2>4 DEF a, dash
<1>6. \A k \in 0 .. n : Begins(v[k], W) /\ v[k] \in Words
  <2> DEFINE w == [k \in 1 .. n |-> SpelledOption(options[k])]
  <2>1. \A k \in 1 .. n : w[k] \in Words /\ v[k] = v[k - 1] \o w[k]
    BY <1>3, <1>4
  <2> HIDE DEF w, W
  <2>2. \A k \in 0 .. n : Begins(v[k], v[n])
    BY <1>2, <1>3, <2>1, SpelledGrows
  <2> QED
    BY <1>3, <1>5, <2>2, BeginsFacts
<1> HIDE DEF W, dashes
<1>7. PICK u : /\ u[0] = Start
               /\ \A i \in 1 .. N : u[i] = Round(W, i, u[i - 1])
               /\ GetOpt(W) = IF u[N].error # Nil THEN Failed(u[N].error)
                                   ELSE Parsed(u[N].options, u[N].positional)
  BY <1>5, GetOptLoop
<1> DEFINE T == {k \in 0 .. n : u[Len(v[k])] = Behind(SubSeq(options, 1, k), Len(v[k]))}
<1>8. 0 \in T
  <2>1. Len(v[0]) = 0 /\ SubSeq(options, 1, 0) = <<>> /\ 0 \in 0 .. n
    BY <1>2, <1>3
  <2>2. u[0] = Behind(<<>>, 0)
    BY <1>7 DEF Start, Behind
  <2> QED
    BY <2>1, <2>2
<1>9. ASSUME NEW k \in 1 .. n, k - 1 \in T PROVE k \in T
  <2> DEFINE p == Len(v[k - 1])
             o == options[k]
             so == SpelledOption(o)
             os == SubSeq(options, 1, k - 1)
             s == Behind(SubSeq(options, 1, k), p + Len(so))
  <2>1. k - 1 \in 0 .. n /\ k \in 0 .. n /\ k - 1 \in Nat
    BY <1>2
  <2>2. v[k - 1] \in Words /\ so \in Words /\ v[k] = v[k - 1] \o so /\ v[k] \in Words
    BY <1>3, <1>4, <2>1
  <2>3. /\ p \in Nat /\ Len(so) \in Nat /\ Len(v[k]) = p + Len(so)
        /\ \A j \in 1 .. Len(so) : v[k][p + j] = so[j] /\ p + j \in 1 .. Len(v[k])
    <3>1. /\ v[k - 1] \o so \in Words /\ p \in Nat /\ Len(so) \in Nat
          /\ Len(v[k - 1] \o so) = p + Len(so)
          /\ \A j \in 1 .. Len(so) : (v[k - 1] \o so)[p + j] = so[j]
      BY <2>2, CatFacts
    <3> HIDE DEF p, so
    <3>2. \A j \in 1 .. Len(so) : p + j \in 1 .. p + Len(so)
      BY <3>1
    <3> QED
      BY <2>2, <3>1, <3>2
  <2>4. Begins(v[k], W)
    BY <1>6, <2>1
  <2>5. p + Len(so) <= N /\ \A j \in 1 .. Len(so) : W[p + j] = so[j]
    BY <2>3, <2>4 DEF Begins
  <2>6. o \in Typed /\ os \in Seq(Typed) /\ Append(os, o) = SubSeq(options, 1, k)
    BY <2>1, SubSeqGrows
  <2>7. u[p] = Behind(os, p)
    BY <1>9
  <2> HIDE DEF p, o, os, T
  <2>8. /\ Round(W, p + 1, Behind(os, p)) = s
        /\ Len(so) = 1 \/ (Len(so) = 2 /\ Round(W, p + 2, s) = s)
    <3>1. W \in Words /\ p \in Nat /\ os \in Seq(Typed) /\ o \in Typed
      BY <1>5, <2>3, <2>6
    <3>2. p + Len(so) <= Len(W) /\ \A j \in 1 .. Len(so) : W[p + j] = so[j]
      BY <2>5
    <3>3. s = Behind(Append(os, o), p + Len(so))
      BY <2>6
    <3> HIDE DEF s
    <3>4. /\ Round(W, p + 1, Behind(os, p)) = s
          /\ p + Len(so) = p + 1 \/ (p + Len(so) = p + 2 /\ Round(W, p + 2, s) = s)
      BY <3>1, <3>2, <3>3, ReadOption
    <3> HIDE DEF so
    <3>5. /\ p + Len(so) = p + 1 => Len(so) = 1
          /\ p + Len(so) = p + 2 => Len(so) = 2
      <4> DEFINE m == Len(so)
      <4>1. p \in Nat /\ m \in Nat
        BY <2>3
      <4> HIDE DEF m
      <4>2. /\ p + m = p + 1 => m = 1
            /\ p + m = p + 2 => m = 2
        BY <4>1
      <4> QED
        BY <4>2 DEF m
    <3> QED
      BY <3>4, <3>5
  <2> HIDE DEF s, so
  <2>9. Len(so) \in {1, 2} /\ p + 1 <= N
    BY <1>5, <2>3, <2>5, <2>8
  <2>10. u[p + 1] = s
    <3>1. u[p + 1] = Round(W, p + 1, u[p])
      BY <1>5, <1>7, <2>3, <2>9, RoundAt
    <3> QED
      BY <2>7, <2>8, <3>1
  <2>11. u[p + Len(so)] = s
    <3>1. CASE Len(so) = 1
      BY <2>10, <3>1
    <3>2. CASE Len(so) = 2
      <4>1. p + 1 \in Nat /\ p + 1 + 1 <= N /\ p + 1 + 1 = p + 2
        BY <1>5, <2>3, <2>5, <3>2
      <4> DEFINE q == p + 1
      <4> HIDE DEF q
      <4>2. u[q + 1] = Round(W, q + 1, u[q])
        BY <1>5, <1>7, <4>1, RoundAt DEF q
      <4>3. q + 1 = p + 2 /\ u[q] = s
        BY <2>10, <4>1 DEF q
      <4> QED
        BY <2>8, <3>2, <4>2, <4>3
    <3> QED
      BY <2>9, <3>1, <3>2
  <2> QED
    BY <2>1, <2>3, <2>11 DEF T, s
<1>10. u[L] = Behind(options, L)
  <2>1. \A k \in 0 .. n : k \in T
    <3> HIDE DEF T
    <3> QED
      BY <1>2, <1>8, <1>9, Climb
  <2>2. n \in T
    BY <1>2, <2>1
  <2>3. SubSeq(options, 1, n) = options
    OBVIOUS
  <2> QED
    BY <2>2, <2>3
<1> HIDE DEF T
<1> DEFINE end == [error |-> Nil, options |-> options, positional |-> positional,
                   next |-> N + 1]
<1> HIDE DEF L
<1>11. u[L + 1] = end
  <2>1. L + 1 <= N
    BY <1>5 DEF Words
  <2>2. u[L + 1] = Round(W, L + 1, Behind(options, L))
    <3>1. u[L + 1] = Round(W, L + 1, u[L])
      BY <1>5, <1>7, <2>1, RoundAt
    <3> QED
      BY <1>10, <3>1
  <2>3. Behind(options, L).error = Nil /\ ~(L + 1 < Behind(options, L).next)
    BY <1>5 DEF Behind
  <2>4. u[L + 1] = Brought(Behind(options, L), <<>>, SubSeq(W, L + 1 + 1, N), N + 1)
    BY <1>5, <2>2, <2>3 DEF Round
  <2>5. options \o <<>> = options /\ <<>> \o positional = positional
    BY DEF Words
  <2> QED
    BY <1>5, <2>4, <2>5 DEF Brought, Behind
<1> DEFINE E == {i \in 0 .. N : i <= L \/ u[i] = end}
<1>12. 0 \in E
  BY <1>5
<1>13. ASSUME NEW i \in 1 .. N, i - 1 \in E PROVE i \in E
  <2>1. CASE i <= L
    BY <2>1
  <2>2. CASE i = L + 1
    BY <1>11, <2>2
  <2>3. CASE i > L + 1
    <3>1. u[i - 1] = end
      BY <1>5, <1>13, <2>3
    <3>2. u[i] = Round(W, i, end)
      BY <1>7, <3>1
    <3>3. i < end.next
      BY <1>5
    <3>4. Round(W, i, end) = end
      BY <3>3 DEF Round
    <3> QED
      BY <3>2, <3>4
  <2> QED
    BY <1>5, <2>1, <2>2, <2>3
<1>14. u[N] = end
  <2>1. \A i \in 0 .. N : i \in E
    <3> HIDE DEF E
    <3> QED
      BY <1>5, <1>12, <1>13, Climb
  <2>2. N \in 0 .. N /\ ~(N <= L)
    BY <1>5
  <2> QED
    BY <2>1, <2>2
<1>15. GetOpt(W) = Parsed(options, positional)
  BY <1>7, <1>14
<1> QED
  BY <1>15 DEF W, got

\* The arguments of a process are words.
LEMMA ArgsAreWords == LineSpec => [](args \in Words)
<1>1. LineInit => args \in Words
  BY DEF LineInit, Words
<1>2. args \in Words /\ [LineNext]_(lineVars) => (args \in Words)'
  <2> SUFFICES ASSUME args \in Words, [LineNext]_(lineVars) PROVE args' \in Words
    OBVIOUS
  <2>1. CASE AddWord
    <3>1. PICK word \in Word : args' = Append(args, word)
      BY <2>1 DEF AddWord
    <3>2. word \in Seq(Symbol)
      BY CommandLineOK
    <3> QED
      BY <3>1, <3>2 DEF Words
  <2>2. CASE UNCHANGED lineVars
    BY <2>2 DEF lineVars
  <2> QED
    BY <2>1, <2>2 DEF LineNext
<1> QED
  BY <1>1, <1>2, PTL DEF LineSpec

\* However a command line is spelled, getopt reads it as the one that spells the same
\* options and arguments out.
THEOREM LinesReadBack == LineSpec => []RereadsAsParsed
<1>1. args \in Words => RereadsAsParsed
  <2> SUFFICES ASSUME args \in Words PROVE RereadsAsParsed
    OBVIOUS
  <2> DEFINE got == GetOpt(args)
  <2> SUFFICES ASSUME got.error = Nil PROVE GetOpt(Spelled(got)) = got
    BY DEF RereadsAsParsed
  <2>1. /\ got.options \in Seq(Typed) /\ got.positional \in Words
        /\ got = Parsed(got.options, got.positional)
    BY GetOptType
  <2> HIDE DEF got
  <2>2. GetOpt(Spelled(Parsed(got.options, got.positional)))
          = Parsed(got.options, got.positional)
    BY <2>1, ReadBack
  <2> QED
    BY <2>1, <2>2
<1> QED
  BY <1>1, ArgsAreWords, PTL

-----------------------------------------------------------------------------
(* A benchmark is the one that was asked for. *)

\* A number that is read, in any round.
Scans ==
    [at : {"start", "digits", "gap", "unit", "end"}, negative : BOOLEAN, read : BOOLEAN,
     value : Nat, unit : Seq(Symbol)]

LEMMA WrapType == ASSUME NEW x \in Int PROVE Wrap(x) \in Nat
  BY CommandLineOK DEF Wrap

LEMMA ScanCharType ==
  ASSUME NEW s \in Scans, NEW ch \in Symbol
  PROVE  ScanChar(s, ch) \in Scans
<1> DEFINE digits == s.value * 10 + DigitOf[ch]
<1>1. ch \in DOMAIN DigitOf => Wrap(digits) \in Nat
  <2>1. ch \in DOMAIN DigitOf => DigitOf[ch] \in 0 .. 9
    BY CommandLineOK
  <2>2. s.value \in Nat
    BY DEF Scans
  <2>3. ch \in DOMAIN DigitOf => digits \in Int
    BY <2>1, <2>2
  <2> HIDE DEF digits
  <2> QED
    BY <2>3, WrapType
<1>2. Append(s.unit, ch) \in Seq(Symbol)
  BY DEF Scans
<1>3. /\ [s EXCEPT !.at = "digits", !.negative = ch = "-"] \in Scans
      /\ [s EXCEPT !.at = "gap"] \in Scans
      /\ [s EXCEPT !.at = "end"] \in Scans
      /\ [s EXCEPT !.at = "unit", !.unit = Append(s.unit, ch)] \in Scans
  BY <1>2 DEF Scans
<1>4. ch \in DOMAIN DigitOf =>
        [s EXCEPT !.at = "digits", !.read = TRUE, !.value = Wrap(digits)] \in Scans
  BY <1>1 DEF Scans
<1> QED
  BY <1>3, <1>4 DEF ScanChar

\* The two loops of scan_units.
IsScan(input, scan) ==
    scan = CHOOSE g : g = [i \in 0 .. Len(input) |->
                             IF i = 0 THEN ScanStart
                             ELSE ScanChar(g[i - 1], input[i])]

IsTimes(power, value, scale, times) ==
    times = CHOOSE g : g = [k \in 0 .. power |->
                              IF k = 0 THEN value ELSE Wrap(g[k - 1] * scale)]

\* What was read from a whole text.
LEMMA ScanLoop ==
  ASSUME NEW input \in Seq(Symbol), NEW scan, IsScan(input, scan)
  PROVE  scan[Len(input)] \in Scans
<1> DEFINE n == Len(input)
           start == ScanStart
           Turned(s, i) == ScanChar(s, input[i])
           G == [p \in (0 .. n) \X Scans |-> IF p[1] = 0 THEN start ELSE Turned(p[2], p[1])]
           Is(g) == g = [i \in 0 .. n |-> IF i = 0 THEN start ELSE Turned(g[i - 1], i)]
<1>1. n \in Nat /\ start \in Scans
  BY DEF ScanStart, Scans
<1>2. \A s \in Scans, i \in 1 .. n : Turned(s, i) \in Scans
  <2>1. \A i \in 1 .. n : input[i] \in Symbol
    OBVIOUS
  <2> QED
    BY <2>1, ScanCharType
<1>3. scan = CHOOSE g_ : Is(g_)
  BY DEF IsScan
<1> HIDE DEF n, start, Turned
<1>4. G \in [(0 .. n) \X Scans -> Scans]
  BY <1>1, <1>2
<1>5. \A i \in 1 .. n, s \in Scans : G[<<i, s>>] = Turned(s, i)
  BY <1>1
<1> HIDE DEF G
<1>6. PICK g : RunOf(0, n, Scans, start, G, g)
  <2>1. IsLoop(0, n, Scans, start, G)
    BY <1>1, <1>4 DEF IsLoop
  <2> QED
    BY <2>1, LoopExists
<1>7. /\ g \in [0 .. n -> Scans] /\ g[0] = start
      /\ \A i \in 1 .. n : i \in 0 .. n /\ i # 0 /\ i - 1 \in 0 .. n /\ g[i] = G[<<i, g[i - 1]>>]
  BY <1>1, <1>6 DEF RunOf
<1>8. \A i \in 1 .. n : g[i] = Turned(g[i - 1], i)
  <2>1. \A i \in 1 .. n : g[i - 1] \in Scans
    BY <1>7
  <2> QED
    BY <1>5, <1>7, <2>1
<1>9. Is(g)
  BY <1>1, <1>7, <1>8
<1>10. Is(CHOOSE g_ : Is(g_))
  BY <1>9, Zenon
<1>11. Is(scan)
  BY <1>3, <1>10, Zenon
<1> DEFINE T == {i \in 0 .. n : scan[i] \in Scans}
<1>12. scan[0] = start /\ \A i \in 1 .. n : scan[i] = Turned(scan[i - 1], i)
  <2>1. 0 \in 0 .. n /\ \A i \in 1 .. n : i \in 0 .. n /\ i # 0
    BY <1>1
  <2>2. \A i \in 0 .. n : scan[i] = IF i = 0 THEN start ELSE Turned(scan[i - 1], i)
    BY <1>11, Zenon
  <2> QED
    BY <2>1, <2>2
<1>13. 0 \in T
  BY <1>1, <1>12
<1>14. ASSUME NEW i \in 1 .. n, i - 1 \in T PROVE i \in T
  BY <1>1, <1>2, <1>12, <1>14
<1>15. \A i \in 0 .. n : i \in T
  <2> HIDE DEF T
  <2> QED
    BY <1>1, <1>13, <1>14, Climb
<1>16. n \in T
  BY <1>1, <1>15
<1> QED
  BY <1>16 DEF n

\* A number that was multiplied is one.
LEMMA TimesLoop ==
  ASSUME NEW power \in Nat, NEW value \in Nat, NEW scale \in Nat, NEW times,
         IsTimes(power, value, scale, times)
  PROVE  times[power] \in Nat
<1> DEFINE Turned(x, k) == Wrap(x * scale)
           G == [p \in (0 .. power) \X Nat |-> IF p[1] = 0 THEN value ELSE Turned(p[2], p[1])]
           Is(g) == g = [k \in 0 .. power |-> IF k = 0 THEN value ELSE Turned(g[k - 1], k)]
<1>1. \A x \in Nat, k \in 1 .. power : Turned(x, k) \in Nat
  <2>1. \A x \in Nat : x * scale \in Int
    OBVIOUS
  <2> QED
    BY <2>1, WrapType
<1>2. times = CHOOSE g_ : Is(g_)
  BY DEF IsTimes
<1> HIDE DEF Turned
<1>3. G \in [(0 .. power) \X Nat -> Nat]
  BY <1>1
<1>4. \A k \in 1 .. power, x \in Nat : G[<<k, x>>] = Turned(x, k)
  OBVIOUS
<1> HIDE DEF G
<1>5. PICK g : RunOf(0, power, Nat, value, G, g)
  <2>1. IsLoop(0, power, Nat, value, G)
    BY <1>3 DEF IsLoop
  <2> QED
    BY <2>1, LoopExists
<1>6. /\ g \in [0 .. power -> Nat] /\ g[0] = value
      /\ \A k \in 1 .. power :
           k \in 0 .. power /\ k # 0 /\ k - 1 \in 0 .. power /\ g[k] = G[<<k, g[k - 1]>>]
  BY <1>5 DEF RunOf
<1>7. \A k \in 1 .. power : g[k] = Turned(g[k - 1], k)
  <2>1. \A k \in 1 .. power : g[k - 1] \in Nat
    BY <1>6
  <2> QED
    BY <1>4, <1>6, <2>1
<1>8. Is(g)
  BY <1>6, <1>7
<1>9. Is(CHOOSE g_ : Is(g_))
  BY <1>8, Zenon
<1>10. Is(times)
  BY <1>2, <1>9, Zenon
<1> DEFINE T == {k \in 0 .. power : times[k] \in Nat}
<1>11. times[0] = value /\ \A k \in 1 .. power : times[k] = Turned(times[k - 1], k)
  BY <1>10
<1>12. 0 \in T
  BY <1>11
<1>13. ASSUME NEW k \in 1 .. power, k - 1 \in T PROVE k \in T
  BY <1>1, <1>11, <1>13
<1>14. \A k \in 0 .. power : k \in T
  <2> HIDE DEF T
  <2> QED
    BY <1>12, <1>13, Climb
<1> QED
  BY <1>14

LEMMA ScanType ==
  ASSUME NEW input \in Seq(Symbol), NEW base, NEW units, Len(units) \in Nat,
         NEW scale \in Nat
  PROVE  ScanUnits(input, base, units, scale) \in Nat \union {Nil}
<1> DEFINE upTo == CHOOSE g : g = [i \in 0 .. Len(input) |->
                                     IF i = 0 THEN ScanStart
                                     ELSE ScanChar(g[i - 1], input[i])]
           s == upTo[Len(input)]
           named == AnyCase(s.unit)
           T == {k \in 1 .. Len(units) : AnyCase(units[k]) = named}
           power == IF T # {} THEN Min(T) ELSE 0
           times == CHOOSE g : g = [k \in 0 .. power |->
                                      IF k = 0 THEN s.value ELSE Wrap(g[k - 1] * scale)]
           scaled == times[power]
<1>1. ScanUnits(input, base, units, scale) =
        IF ~s.read \/ (power = 0 /\ named \notin {<<>>, AnyCase(base)}) THEN Nil
        ELSE IF s.negative THEN Wrap(Modulus - scaled) ELSE scaled
  BY DEF ScanUnits, SelectInSeq
<1>2. s \in Scans
  <2>1. IsScan(input, upTo)
    BY DEF IsScan
  <2> HIDE DEF upTo
  <2> QED
    BY <2>1, ScanLoop
<1> HIDE DEF s
<1>3. power \in Nat
  <2>1. T \in SUBSET (1 .. Len(units))
    OBVIOUS
  <2> HIDE DEF T
  <2>2. T # {} => Min(T) \in 1 .. Len(units)
    BY <2>1, MinFacts
  <2> QED
    BY <2>2
<1> HIDE DEF T, power
<1>4. s.value \in Nat
  BY <1>2 DEF Scans
<1>5. scaled \in Nat
  <2>1. IsTimes(power, s.value, scale, times)
    BY DEF IsTimes
  <2> HIDE DEF times
  <2> QED
    BY <1>3, <1>4, <2>1, TimesLoop
<1> HIDE DEF scaled
<1>6. Wrap(Modulus - scaled) \in Nat
  <2>1. Modulus - scaled \in Int
    BY <1>5, CommandLineOK
  <2> QED
    BY <2>1, WrapType
<1> QED
  BY <1>1, <1>5, <1>6

LEMMA ScansType ==
  ASSUME NEW input \in Seq(Symbol)
  PROVE  /\ ScanMetric(input) \in Nat \union {Nil}
         /\ ScanTime(input) \in Nat \union {Nil}
  BY ScanType DEF ScanMetric, ScanTime

\* The settings, behind any of the options.
Text == Seq(Symbol) \union {Nil}

Configs ==
    [threads : Nat, connections : Nat, duration : Nat, timeout : Nat, latency : BOOLEAN,
     script : Text, headers : Seq(Seq(Symbol)), engine : Text, list : BOOLEAN,
     output : OutputModes, file : Text, versions : Nat, failure : Errors \union {Nil}]

LEMMA DefaultsType == Defaults \in Configs
  BY DEF Defaults, Configs, Text, OutputModes

\* The number an option stands for.
NumberIn(option) ==
    IF option.short \in {"d", "T"} THEN ScanTime(option.value)
    ELSE ScanMetric(option.value)

LEMMA NumberType ==
  ASSUME NEW o \in Typed, o.short \in {"t", "c", "d", "T"}
  PROVE  NumberIn(o) \in Nat \union {Nil}
<1>1. o.value \in Seq(Symbol)
  BY TypedFacts, OptionFacts
<1> QED
  BY <1>1, ScansType DEF NumberIn

\* An option that is a number sets it, or fails.
LEMMA ApplyNumber ==
  ASSUME NEW c \in Configs, NEW o \in Typed, c.failure = Nil,
         o.short \in {"t", "c", "d", "T"}
  PROVE  Apply(c, o) =
           IF NumberIn(o) = Nil THEN [c EXCEPT !.failure = "no-message"]
           ELSE IF o.short = "t" THEN [c EXCEPT !.threads = NumberIn(o)]
           ELSE IF o.short = "c" THEN [c EXCEPT !.connections = NumberIn(o)]
           ELSE IF o.short = "d" THEN [c EXCEPT !.duration = NumberIn(o)]
           ELSE [c EXCEPT !.timeout = Saturating(NumberIn(o))]
  BY DEF Apply, NumberIn, Scanned

\* What the options that are no numbers do.
LEMMA ApplyOther ==
  ASSUME NEW c \in Configs, NEW o \in Typed, c.failure = Nil,
         o.short \notin {"t", "c", "d", "T"}
  PROVE  \/ Apply(c, o) = [c EXCEPT !.script = o.value] /\ o.value \in Seq(Symbol)
         \/ Apply(c, o) = [c EXCEPT !.headers = Append(c.headers, o.value)]
              /\ o.value \in Seq(Symbol)
         \/ Apply(c, o) = [c EXCEPT !.latency = TRUE]
         \/ Apply(c, o) = [c EXCEPT !.engine = o.value] /\ o.value \in Seq(Symbol)
         \/ Apply(c, o) = [c EXCEPT !.list = TRUE]
         \/ \E mode \in OutputModes : Apply(c, o) = [c EXCEPT !.output = mode]
         \/ Apply(c, o) = [c EXCEPT !.failure = "invalid-output-mode"]
         \/ Apply(c, o) = [c EXCEPT !.file = o.value] /\ o.value \in Seq(Symbol)
         \/ Apply(c, o) = [c EXCEPT !.versions = c.versions + 1]
         \/ Apply(c, o) = [c EXCEPT !.failure = "no-message"]
<1>1. o.short \in {"s", "H", "L", "o", "O", "e", "E", "h", "v"}
  BY TypedFacts, OptionFacts
<1>2. o.short \in {"s", "H", "o", "O", "e"} => o.value \in Seq(Symbol)
  BY TypedFacts, OptionFacts
<1>3. o.short \notin DOMAIN Scanned
  BY DEF Scanned
<1>4. CASE o.short = "s"
  BY <1>2, <1>3, <1>4 DEF Apply
<1>5. CASE o.short = "H"
  BY <1>2, <1>3, <1>5 DEF Apply
<1>6. CASE o.short = "L"
  BY <1>3, <1>6 DEF Apply
<1>7. CASE o.short = "e"
  BY <1>2, <1>3, <1>7 DEF Apply
<1>8. CASE o.short = "E"
  BY <1>3, <1>8 DEF Apply
<1>9. CASE o.short = "o"
  <2>1. CASE \E mode \in OutputModes : o.value = <<mode>>
    <3>1. Apply(c, o) = [c EXCEPT !.output = o.value[1]]
      BY <1>3, <1>9, <2>1 DEF Apply
    <3>2. o.value[1] \in OutputModes
      BY <2>1
    <3> QED
      BY <3>1, <3>2
  <2>2. CASE ~ \E mode \in OutputModes : o.value = <<mode>>
    BY <1>3, <1>9, <2>2 DEF Apply
  <2> QED
    BY <2>1, <2>2
<1>10. CASE o.short = "O"
  BY <1>2, <1>3, <1>10 DEF Apply
<1>11. CASE o.short = "v"
  BY <1>3, <1>11 DEF Apply
<1>12. CASE o.short = "h"
  BY <1>3, <1>12 DEF Apply
<1> QED
  BY <1>1, <1>4, <1>5, <1>6, <1>7, <1>8, <1>9, <1>10, <1>11, <1>12

\* What an option does to the three numbers a benchmark depends on.
Same(c, d) ==
    d.threads = c.threads /\ d.connections = c.connections /\ d.duration = c.duration

LEMMA OtherKeeps ==
  ASSUME NEW c \in Configs, NEW o \in Typed, c.failure = Nil,
         o.short \notin {"t", "c", "d", "T"}
  PROVE  Apply(c, o) \in Configs /\ Same(c, Apply(c, o))
<1>1. /\ "invalid-output-mode" \in Errors
      /\ "no-message" \in Errors
  BY DEF Errors
<1>2. \A v \in Seq(Symbol) :
        /\ v \in Text
        /\ [c EXCEPT !.script = v] \in Configs /\ Same(c, [c EXCEPT !.script = v])
        /\ [c EXCEPT !.engine = v] \in Configs /\ Same(c, [c EXCEPT !.engine = v])
        /\ [c EXCEPT !.file = v] \in Configs /\ Same(c, [c EXCEPT !.file = v])
  BY DEF Configs, Same, Text
<1>3. \A v \in Seq(Symbol) :
        /\ [c EXCEPT !.headers = Append(c.headers, v)] \in Configs
        /\ Same(c, [c EXCEPT !.headers = Append(c.headers, v)])
  <2> SUFFICES ASSUME NEW v \in Seq(Symbol)
               PROVE  /\ [c EXCEPT !.headers = Append(c.headers, v)] \in Configs
                      /\ Same(c, [c EXCEPT !.headers = Append(c.headers, v)])
    OBVIOUS
  <2>1. Append(c.headers, v) \in Seq(Seq(Symbol))
    BY DEF Configs
  <2> QED
    BY <2>1 DEF Configs, Same
<1>4. /\ [c EXCEPT !.latency = TRUE] \in Configs /\ Same(c, [c EXCEPT !.latency = TRUE])
      /\ [c EXCEPT !.list = TRUE] \in Configs /\ Same(c, [c EXCEPT !.list = TRUE])
  BY DEF Configs, Same
<1>7. /\ [c EXCEPT !.versions = c.versions + 1] \in Configs
      /\ Same(c, [c EXCEPT !.versions = c.versions + 1])
  <2>1. c.versions + 1 \in Nat
    BY DEF Configs
  <2> QED
    BY <2>1 DEF Configs, Same
<1>5. \A mode \in OutputModes :
        [c EXCEPT !.output = mode] \in Configs /\ Same(c, [c EXCEPT !.output = mode])
  BY DEF Configs, Same
<1>6. \A e \in Errors :
        [c EXCEPT !.failure = e] \in Configs /\ Same(c, [c EXCEPT !.failure = e])
  BY DEF Configs, Same
<1> DEFINE d == Apply(c, o)
<1>8. \/ d = [c EXCEPT !.script = o.value] /\ o.value \in Seq(Symbol)
      \/ d = [c EXCEPT !.headers = Append(c.headers, o.value)] /\ o.value \in Seq(Symbol)
      \/ d = [c EXCEPT !.latency = TRUE]
      \/ d = [c EXCEPT !.engine = o.value] /\ o.value \in Seq(Symbol)
      \/ d = [c EXCEPT !.list = TRUE]
      \/ \E mode \in OutputModes : d = [c EXCEPT !.output = mode]
      \/ d = [c EXCEPT !.failure = "invalid-output-mode"]
      \/ d = [c EXCEPT !.file = o.value] /\ o.value \in Seq(Symbol)
      \/ d = [c EXCEPT !.versions = c.versions + 1]
      \/ d = [c EXCEPT !.failure = "no-message"]
  BY ApplyOther
<1> HIDE DEF d
<1>9. d \in Configs /\ Same(c, d)
  <2>1. CASE d = [c EXCEPT !.script = o.value] /\ o.value \in Seq(Symbol)
    BY <1>2, <2>1
  <2>2. CASE d = [c EXCEPT !.headers = Append(c.headers, o.value)] /\ o.value \in Seq(Symbol)
    BY <1>3, <2>2
  <2>3. CASE d = [c EXCEPT !.latency = TRUE]
    BY <1>4, <2>3
  <2>4. CASE d = [c EXCEPT !.engine = o.value] /\ o.value \in Seq(Symbol)
    BY <1>2, <2>4
  <2>5. CASE d = [c EXCEPT !.list = TRUE]
    BY <1>4, <2>5
  <2>6. CASE \E mode \in OutputModes : d = [c EXCEPT !.output = mode]
    BY <1>5, <2>6
  <2>7. CASE d = [c EXCEPT !.failure = "invalid-output-mode"]
    BY <1>1, <1>6, <2>7
  <2>8. CASE d = [c EXCEPT !.file = o.value] /\ o.value \in Seq(Symbol)
    BY <1>2, <2>8
  <2>9. CASE d = [c EXCEPT !.versions = c.versions + 1]
    BY <1>7, <2>9
  <2>10. CASE d = [c EXCEPT !.failure = "no-message"]
    BY <1>1, <1>6, <2>10
  <2> QED
    BY <1>8, <2>1, <2>2, <2>3, <2>4, <2>5, <2>6, <2>7, <2>8, <2>9, <2>10
<1> QED
  BY <1>9 DEF d

LEMMA NumberSets ==
  ASSUME NEW c \in Configs, NEW o \in Typed, c.failure = Nil,
         o.short \in {"t", "c", "d", "T"}
  PROVE  LET d == Apply(c, o)
         IN  /\ d \in Configs
             /\ d.failure = Nil
                  => /\ d.threads = IF o.short = "t" THEN NumberIn(o) ELSE c.threads
                     /\ d.connections = IF o.short = "c" THEN NumberIn(o) ELSE c.connections
                     /\ d.duration = IF o.short = "d" THEN NumberIn(o) ELSE c.duration
<1>1. "no-message" \in Errors /\ "no-message" # Nil
  BY CommandLineOK DEF Errors
<1>2. CASE NumberIn(o) = Nil
  <2>1. Apply(c, o) = [c EXCEPT !.failure = "no-message"]
    BY <1>2, ApplyNumber
  <2>2. /\ [c EXCEPT !.failure = "no-message"] \in Configs
        /\ [c EXCEPT !.failure = "no-message"].failure # Nil
    BY <1>1 DEF Configs
  <2> QED
    BY <2>1, <2>2
<1>3. CASE NumberIn(o) # Nil
  <2>1. NumberIn(o) \in Nat
    BY <1>3, NumberType
  <2>2. Saturating(NumberIn(o)) \in Nat
    <3>1. Modulus \in Nat /\ Modulus > 4000
      BY CommandLineOK
    <3> QED
      BY <2>1, <3>1 DEF Saturating
  <2> DEFINE x == NumberIn(o)
             y == Saturating(NumberIn(o))
  <2>3. Apply(c, o) =
          IF o.short = "t" THEN [c EXCEPT !.threads = x]
          ELSE IF o.short = "c" THEN [c EXCEPT !.connections = x]
          ELSE IF o.short = "d" THEN [c EXCEPT !.duration = x]
          ELSE [c EXCEPT !.timeout = y]
    BY <1>3, ApplyNumber
  <2> HIDE DEF x, y
  <2>4. x \in Nat /\ y \in Nat
    BY <2>1, <2>2 DEF x, y
  <2>5. CASE o.short = "t"
    BY <2>3, <2>4, <2>5, ZenonT(60) DEF Configs, x
  <2>6. CASE o.short = "c"
    BY <2>3, <2>4, <2>6, ZenonT(60) DEF Configs, x
  <2>7. CASE o.short = "d"
    BY <2>3, <2>4, <2>7, SMTT(30) DEF Configs, x
  <2>8. CASE o.short = "T"
    BY <2>3, <2>4, <2>8, SMTT(30) DEF Configs, x
  <2> QED
    BY <2>5, <2>6, <2>7, <2>8
<1> QED
  BY <1>2, <1>3

LEMMA ApplyFacts ==
  ASSUME NEW c \in Configs, NEW o \in Typed
  PROVE  LET d == Apply(c, o)
         IN  /\ d \in Configs
             /\ d.failure = Nil
                  => /\ c.failure = Nil
                     /\ d.threads = IF o.short = "t" THEN NumberIn(o) ELSE c.threads
                     /\ d.connections = IF o.short = "c" THEN NumberIn(o) ELSE c.connections
                     /\ d.duration = IF o.short = "d" THEN NumberIn(o) ELSE c.duration
<1>1. CASE c.failure # Nil
  <2>1. Apply(c, o) = c
    BY <1>1 DEF Apply
  <2> QED
    BY <1>1, <2>1
<1>2. CASE c.failure = Nil /\ o.short \in {"t", "c", "d", "T"}
  BY <1>2, NumberSets
<1>3. CASE c.failure = Nil /\ o.short \notin {"t", "c", "d", "T"}
  BY <1>3, OtherKeeps DEF Same
<1> QED
  BY <1>1, <1>2, <1>3

\* A setting behind the first k options: the last of them that sets it, or the default.
IsSetting(options, k, short, x, default) ==
    LET given == {i \in 1 .. k : options[i].short = short}
    IN  \/ given = {} /\ x = default
        \/ \E i \in given : (\A j \in given : j <= i) /\ x = NumberIn(options[i])

LEMMA SettingStep ==
  ASSUME NEW options, NEW k \in Nat, k # 0, NEW short, NEW x, NEW y, NEW default,
         IsSetting(options, k - 1, short, x, default),
         y = IF options[k].short = short THEN NumberIn(options[k]) ELSE x
  PROVE  IsSetting(options, k, short, y, default)
<1> DEFINE before == {i \in 1 .. k - 1 : options[i].short = short}
           now == {i \in 1 .. k : options[i].short = short}
<1>1. CASE options[k].short = short
  <2>1. k \in now /\ \A j \in now : j <= k
    BY <1>1
  <2>2. y = NumberIn(options[k])
    BY <1>1
  <2> QED
    BY <2>1, <2>2 DEF IsSetting
<1>2. CASE options[k].short # short
  <2>1. now = before
    <3>1. \A i \in 1 .. k : i = k \/ i \in 1 .. k - 1
      OBVIOUS
    <3>2. \A i \in 1 .. k - 1 : i \in 1 .. k
      OBVIOUS
    <3> QED
      BY <1>2, <3>1, <3>2
  <2>2. y = x
    BY <1>2
  <2>3. \/ before = {} /\ x = default
        \/ \E i \in before : (\A j \in before : j <= i) /\ x = NumberIn(options[i])
    BY DEF IsSetting
  <2> HIDE DEF before
  <2>4. \/ now = {} /\ y = default
        \/ \E i \in now : (\A j \in now : j <= i) /\ y = NumberIn(options[i])
    <3> HIDE DEF now
    <3> QED
      BY <2>1, <2>2, <2>3
  <2> QED
    BY <2>4 DEF IsSetting
<1> QED
  BY <1>1, <1>2

\* The loop of cli::parse.
IsSettings(options, loop) ==
    loop = CHOOSE g : g = [i \in 0 .. Len(options) |->
                             IF i = 0 THEN Defaults
                             ELSE Apply(g[i - 1], options[i])]

AsAsked(options, k, c) ==
    /\ c \in Configs
    /\ c.failure = Nil
         => /\ IsSetting(options, k, "t", c.threads, 2)
            /\ IsSetting(options, k, "c", c.connections, 10)
            /\ IsSetting(options, k, "d", c.duration, 10)

LEMMA AsAskedStart == ASSUME NEW options PROVE AsAsked(options, 0, Defaults)
<1>1. \A i \in 1 .. 0 : FALSE
  OBVIOUS
<1>2. \A short, x : IsSetting(options, 0, short, x, x)
  BY <1>1 DEF IsSetting
<1>3. /\ Defaults.threads = 2 /\ Defaults.connections = 10
      /\ Defaults.duration = 10
  BY DEF Defaults
<1> QED
  BY <1>2, <1>3, DefaultsType DEF AsAsked

LEMMA AsAskedStep ==
  ASSUME NEW options \in Seq(Typed), NEW k \in 1 .. Len(options), NEW c,
         AsAsked(options, k - 1, c)
  PROVE  AsAsked(options, k, Apply(c, options[k]))
<1> DEFINE d == Apply(c, options[k])
           o == options[k]
<1>1. c \in Configs /\ o \in Typed /\ k \in Nat /\ k # 0
  BY DEF AsAsked
<1>2. /\ d \in Configs
      /\ d.failure = Nil
           => /\ c.failure = Nil
              /\ d.threads = IF o.short = "t" THEN NumberIn(o) ELSE c.threads
              /\ d.connections = IF o.short = "c" THEN NumberIn(o) ELSE c.connections
              /\ d.duration = IF o.short = "d" THEN NumberIn(o) ELSE c.duration
  BY <1>1, ApplyFacts
<1> HIDE DEF d
<1>3. ASSUME d.failure = Nil
      PROVE  /\ IsSetting(options, k, "t", d.threads, 2)
             /\ IsSetting(options, k, "c", d.connections, 10)
             /\ IsSetting(options, k, "d", d.duration, 10)
  <2>1. /\ IsSetting(options, k - 1, "t", c.threads, 2)
        /\ IsSetting(options, k - 1, "c", c.connections, 10)
        /\ IsSetting(options, k - 1, "d", c.duration, 10)
    BY <1>2, <1>3 DEF AsAsked
  <2>2. IsSetting(options, k, "t", d.threads, 2)
    BY <1>1, <1>2, <1>3, <2>1, SettingStep
  <2>3. IsSetting(options, k, "c", d.connections, 10)
    BY <1>1, <1>2, <1>3, <2>1, SettingStep
  <2>4. IsSetting(options, k, "d", d.duration, 10)
    BY <1>1, <1>2, <1>3, <2>1, SettingStep
  <2> QED
    BY <2>2, <2>3, <2>4
<1>4. AsAsked(options, k, d)
  BY <1>2, <1>3 DEF AsAsked
<1> QED
  BY <1>4 DEF d

LEMMA SettingsLoop ==
  ASSUME NEW options \in Seq(Typed), NEW loop, IsSettings(options, loop)
  PROVE  AsAsked(options, Len(options), loop[Len(options)])
<1> DEFINE n == Len(options)
           start == Defaults
           Turned(c, i) == Apply(c, options[i])
           G == [p \in (0 .. n) \X Configs |-> IF p[1] = 0 THEN start ELSE Turned(p[2], p[1])]
           Is(g) == g = [i \in 0 .. n |-> IF i = 0 THEN start ELSE Turned(g[i - 1], i)]
<1>1. n \in Nat /\ start \in Configs
  BY DefaultsType
<1>2. \A c \in Configs, i \in 1 .. n : Turned(c, i) \in Configs
  <2>1. \A i \in 1 .. n : options[i] \in Typed
    OBVIOUS
  <2> QED
    BY <2>1, ApplyFacts
<1>3. loop = CHOOSE g_ : Is(g_)
  BY DEF IsSettings
<1>4. AsAsked(options, 0, start)
  BY AsAskedStart
<1>5. \A i \in 1 .. n : \A c : AsAsked(options, i - 1, c) => AsAsked(options, i, Turned(c, i))
  BY AsAskedStep
<1> HIDE DEF n, start, Turned
<1>6. G \in [(0 .. n) \X Configs -> Configs]
  BY <1>1, <1>2
<1>7. \A i \in 1 .. n, c \in Configs : G[<<i, c>>] = Turned(c, i)
  BY <1>1
<1> HIDE DEF G
<1>8. PICK g : RunOf(0, n, Configs, start, G, g)
  <2>1. IsLoop(0, n, Configs, start, G)
    BY <1>1, <1>6 DEF IsLoop
  <2> QED
    BY <2>1, LoopExists
<1>9. /\ g \in [0 .. n -> Configs] /\ g[0] = start
      /\ \A i \in 1 .. n : i \in 0 .. n /\ i # 0 /\ i - 1 \in 0 .. n /\ g[i] = G[<<i, g[i - 1]>>]
  BY <1>1, <1>8 DEF RunOf
<1>10. \A i \in 1 .. n : g[i] = Turned(g[i - 1], i)
  <2>1. \A i \in 1 .. n : g[i - 1] \in Configs
    BY <1>9
  <2> QED
    BY <1>7, <1>9, <2>1
<1>11. Is(g)
  BY <1>1, <1>9, <1>10
<1>12. Is(CHOOSE g_ : Is(g_))
  BY <1>11, Zenon
<1>13. Is(loop)
  BY <1>3, <1>12, Zenon
<1>14. loop[0] = start /\ \A i \in 1 .. n : loop[i] = Turned(loop[i - 1], i)
  <2>1. 0 \in 0 .. n /\ \A i \in 1 .. n : i \in 0 .. n /\ i # 0
    BY <1>1
  <2>2. \A i \in 0 .. n : loop[i] = IF i = 0 THEN start ELSE Turned(loop[i - 1], i)
    BY <1>13, Zenon
  <2> QED
    BY <2>1, <2>2
<1> DEFINE T == {i \in 0 .. n : AsAsked(options, i, loop[i])}
<1>15. 0 \in T
  BY <1>1, <1>4, <1>14
<1>16. ASSUME NEW i \in 1 .. n, i - 1 \in T PROVE i \in T
  <2>1. AsAsked(options, i - 1, loop[i - 1]) /\ i \in 0 .. n
    BY <1>1, <1>16
  <2> QED
    BY <1>5, <1>14, <2>1
<1>17. \A i \in 0 .. n : i \in T
  <2> HIDE DEF T
  <2> QED
    BY <1>1, <1>15, <1>16, Climb
<1>18. n \in T
  BY <1>1, <1>17
<1> QED
  BY <1>18 DEF n

LEMMA SettingsFacts ==
  ASSUME NEW options \in Seq(Typed)
  PROVE  AsAsked(options, Len(options), Settings(options))
<1> DEFINE loop == CHOOSE g : g = [i \in 0 .. Len(options) |->
                                     IF i = 0 THEN Defaults
                                     ELSE Apply(g[i - 1], options[i])]
<1>1. Settings(options) = loop[Len(options)]
  BY DEF Settings
<1>2. IsSettings(options, loop)
  BY DEF IsSettings
<1> HIDE DEF loop
<1> QED
  BY <1>1, <1>2, SettingsLoop

\* The setting behind all options is what the last of them says.
LEMMA SettingIs ==
  ASSUME NEW options \in Seq(Typed), NEW short \in {"t", "c", "d"}, NEW x, NEW default,
         IsSetting(options, Len(options), short, x, default)
  PROVE  LET value == LastValue(options, short)
         IN  x = IF value = Nil THEN default
                 ELSE IF short = "d" THEN ScanTime(value) ELSE ScanMetric(value)
<1> DEFINE n == Len(options)
           given == {i \in 1 .. n : options[i].short = short}
           value == LastValue(options, short)
<1>1. given \in SUBSET (1 .. n) /\ n \in Nat
  OBVIOUS
<1>2. value = IF given # {} THEN options[Max(given)].value ELSE Nil
  <2>1. given # {} => Max(given) # 0
    <3> HIDE DEF given, n
    <3>1. given # {} => Max(given) \in given
      BY <1>1, MaxFacts
    <3> QED
      BY <1>1, <3>1
  <2> QED
    BY <2>1 DEF LastValue, SelectLastInSeq
<1>3. CASE given = {}
  BY <1>2, <1>3 DEF IsSetting
<1>4. CASE given # {}
  <2>1. PICK i \in given : (\A j \in given : j <= i) /\ x = NumberIn(options[i])
    BY <1>4 DEF IsSetting
  <2>2. Max(given) \in given /\ \A k \in given : Max(given) >= k
    <3> HIDE DEF given, n
    <3> QED
      BY <1>1, <1>4, MaxFacts
  <2>3. i = Max(given)
    <3> HIDE DEF given
    <3>1. i \in Int /\ Max(given) \in Int
      <4> DEFINE m == Max(given)
      <4>1. m \in given /\ i \in given
        BY <2>2
      <4> HIDE DEF m, n
      <4>2. \A k \in 1 .. n : k \in Int
        BY <1>1
      <4>3. m \in 1 .. n /\ i \in 1 .. n
        BY <1>1, <4>1
      <4>4. i \in Int /\ m \in Int
        BY <4>2, <4>3
      <4> QED
        BY <4>4 DEF m
    <3>2. i <= Max(given) /\ Max(given) <= i
      BY <2>1, <2>2, <3>1
    <3> QED
      BY <3>1, <3>2
  <2>4. options[i] \in Typed /\ options[i].short = short
    OBVIOUS
  <2>5. options[i].value \in Seq(Symbol)
    BY <2>4, TypedFacts, OptionFacts
  <2>6. options[i].value # Nil
    BY <2>5, CommandLineOK
  <2>7. value = options[i].value
    BY <1>2, <1>4, <2>3
  <2>8. x = IF short = "d" THEN ScanTime(value) ELSE ScanMetric(value)
    BY <2>1, <2>4, <2>7 DEF NumberIn
  <2> QED
    BY <2>6, <2>7, <2>8
<1> QED
  BY <1>3, <1>4

\* The engine that is found first is one of those that are looked for.
LEMMA EngineFacts ==
  ASSUME NEW T \in SUBSET (1 .. Len(build)), Len(build) \in Nat, NEW name,
         name = EngineAt(IF T # {} THEN Min(T) ELSE 0), name # Nil
  PROVE  \E i \in T : name = build[i]
<1>1. T # {}
  BY DEF EngineAt
<1>2. Min(T) \in T /\ Min(T) # 0
  <2> DEFINE n == Len(build)
  <2>1. n \in Nat /\ T \in SUBSET (1 .. n)
    OBVIOUS
  <2> HIDE DEF n
  <2>2. Min(T) \in T
    BY <1>1, <2>1, MinFacts
  <2> QED
    BY <2>1, <2>2
<1>3. name = build[Min(T)]
  BY <1>1, <1>2 DEF EngineAt
<1> QED
  BY <1>2, <1>3

Has(engine) == Contains(build, engine)

LEMMA HasFacts ==
  ASSUME NEW i \in 1 .. Len(build), NEW engine, engine = build[i]
  PROVE  Has(engine)
  BY DEF Has, Contains

LEMMA FindFacts ==
  ASSUME Len(build) \in Nat, NEW engine, NEW name, name = Find(engine), name # Nil
  PROVE  Has(name) /\ engine = <<name>>
<1> DEFINE T == {i \in 1 .. Len(build) : engine = <<build[i]>>}
<1>1. name = EngineAt(IF T # {} THEN Min(T) ELSE 0)
  BY DEF Find, SelectInSeq
<1>2. PICK i \in T : name = build[i]
  <2>1. T \in SUBSET (1 .. Len(build))
    OBVIOUS
  <2> HIDE DEF T
  <2> QED
    BY <1>1, <2>1, EngineFacts
<1> QED
  BY <1>2, HasFacts

LEMMA ExtensionFacts ==
  ASSUME Len(build) \in Nat, NEW extension, NEW name,
         name = FindByExtension(extension), name # Nil
  PROVE  Has(name) /\ extension \in Handles[name]
<1> DEFINE T == {i \in 1 .. Len(build) : extension \in Handles[build[i]]}
<1>1. name = EngineAt(IF T # {} THEN Min(T) ELSE 0)
  BY DEF FindByExtension, SelectInSeq
<1>2. PICK i \in T : name = build[i]
  <2>1. T \in SUBSET (1 .. Len(build))
    OBVIOUS
  <2> HIDE DEF T
  <2> QED
    BY <1>1, <2>1, EngineFacts
<1> QED
  BY <1>2, HasFacts

\* A run without a script does not get the engine of data files.
LEMMA DefaultFacts ==
  ASSUME Len(build) \in Nat, NEW name, name = DefaultEngine, name # Nil
  PROVE  Has(name) /\ name # "config"
<1>1. CASE FindByExtension("lua") # Nil
  <2>1. name = FindByExtension("lua")
    BY <1>1 DEF DefaultEngine
  <2>2. Has(name) /\ "lua" \in Handles[name]
    BY <2>1, ExtensionFacts
  <2>3. "lua" \notin Handles["config"]
    BY DEF Handles
  <2> QED
    BY <2>2, <2>3
<1>2. CASE FindByExtension("lua") = Nil
  <2> DEFINE T == {i \in 1 .. Len(build) : build[i] # "config"}
  <2>1. name = EngineAt(IF T # {} THEN Min(T) ELSE 0)
    BY <1>2 DEF DefaultEngine, SelectInSeq
  <2>2. PICK i \in T : name = build[i]
    <3>1. T \in SUBSET (1 .. Len(build))
      OBVIOUS
    <3> HIDE DEF T
    <3> QED
      BY <2>1, <3>1, EngineFacts
  <2> QED
    BY <2>2, HasFacts
<1> QED
  BY <1>1, <1>2

\* What select chooses when it chooses.
LEMMA SelectFacts ==
  ASSUME Len(build) \in Nat, NEW script, NEW engine, NEW choice,
         choice = Select(script, engine), choice.error = Nil
  PROVE  /\ Has(choice.engine)
         /\ engine # Nil => script # Nil /\ engine = <<choice.engine>>
         /\ engine = Nil /\ script # Nil
              => Extension[script] \in Handles[choice.engine]
         /\ script = Nil => choice.engine # "config"
<1> DEFINE forced == Find(engine)
           matching == FindByExtension(Extension[script])
           default == DefaultEngine
<1>1. choice =
        IF engine # Nil /\ forced = Nil THEN Refused("not-compiled-in")
        ELSE IF script = Nil
        THEN IF engine # Nil THEN Refused("requires-script")
             ELSE IF default = Nil THEN Refused("no-engine")
             ELSE Chosen(default)
        ELSE IF engine # Nil THEN Chosen(forced)
        ELSE IF script \notin DOMAIN Extension THEN Refused("no-extension")
        ELSE IF matching = Nil THEN Refused("not-handled")
        ELSE Chosen(matching)
  BY DEF Select
<1>2. \A e \in Errors : Refused(e).error # Nil
  BY CommandLineOK DEF Refused
<1>3. {"not-compiled-in", "requires-script", "no-engine", "no-extension", "not-handled"}
        \subseteq Errors
  BY DEF Errors
<1>4. \A name : Chosen(name).engine = name
  BY DEF Chosen
<1>5. forced # Nil => Has(forced) /\ engine = <<forced>>
  BY FindFacts
<1>6. matching # Nil => Has(matching) /\ Extension[script] \in Handles[matching]
  BY ExtensionFacts
<1>7. default # Nil => Has(default) /\ default # "config"
  BY DefaultFacts
<1> HIDE DEF forced, matching, default
<1>8. CASE engine # Nil
  <2>1. forced # Nil /\ script # Nil /\ choice = Chosen(forced)
    BY <1>1, <1>2, <1>3, <1>8
  <2> QED
    BY <1>4, <1>5, <1>8, <2>1
<1>9. CASE engine = Nil /\ script = Nil
  <2>1. default # Nil /\ choice = Chosen(default)
    BY <1>1, <1>2, <1>3, <1>9
  <2> QED
    BY <1>4, <1>7, <1>9, <2>1
<1>10. CASE engine = Nil /\ script # Nil
  <2>1. matching # Nil /\ choice = Chosen(matching)
    BY <1>1, <1>2, <1>3, <1>10
  <2> QED
    BY <1>4, <1>6, <1>10, <2>1
<1> QED
  BY <1>8, <1>9, <1>10

\* What the checks behind the loop let through.
LEMMA CheckedFacts ==
  ASSUME NEW c \in Configs, NEW positional, NEW outcome,
         outcome = Checked(c, positional), outcome.asks = "run"
  PROVE  /\ outcome.config = c /\ c.failure = Nil
         /\ c.threads > 0 /\ c.connections >= c.threads /\ c.duration > 0
         /\ positional[1] \in Addresses
<1>1. \A message : Usage(message).asks # "run"
  BY DEF Usage
<1>2. [asks |-> "list"].asks # "run"
  OBVIOUS
<1>3. c.threads \in Nat /\ c.connections \in Nat /\ c.duration \in Nat
  BY DEF Configs
<1> DEFINE run == [asks |-> "run", config |-> c, url |-> positional[1], initArgs |-> positional]
<1>4. outcome =
        IF c.failure # Nil THEN Usage(c.failure)
        ELSE IF c.list THEN [asks |-> "list"]
        ELSE IF positional = <<>> \/ c.threads = 0 \/ c.duration = 0
        THEN Usage("no-message")
        ELSE IF positional[1] \notin Addresses THEN Usage("invalid-URL")
        ELSE IF c.connections = 0 \/ c.connections < c.threads
        THEN Usage("too-few-connections")
        ELSE run
  BY DEF Checked
<1>5. run.config = c
  OBVIOUS
<1> HIDE DEF run
<1>6. /\ c.failure = Nil /\ c.threads # 0 /\ c.duration # 0
      /\ positional[1] \in Addresses /\ ~(c.connections < c.threads) /\ outcome = run
  BY <1>1, <1>2, <1>4
<1> QED
  BY <1>3, <1>5, <1>6

LEMMA Quotient == ASSUME NEW x \in Nat, NEW y \in Nat, y > 0, x >= y PROVE x \div y > 0
  OBVIOUS

\* A build is one of those there are.
LEMMA BuildIsOne == LineSpec => [](build \in Builds)
<1>1. LineInit => build \in Builds
  BY DEF LineInit
<1>2. build \in Builds /\ [LineNext]_(lineVars) => (build \in Builds)'
  BY DEF LineNext, AddWord, lineVars
<1> QED
  BY <1>1, <1>2, PTL DEF LineSpec

\* A benchmark that starts is the one that was asked for and one that can run.
THEOREM BenchmarksAsAsked == LineSpec => []RunsAsAsked
<1>1. args \in Words /\ build \in Builds => RunsAsAsked
  <2> SUFFICES ASSUME args \in Words, build \in Builds PROVE RunsAsAsked
    OBVIOUS
  <2> DEFINE got == GetOpt(args)
             outcome == Parse(got)
             main == Main(outcome)
             c == outcome.config
             last(short) == LastValue(got.options, short)
  <2> SUFFICES ASSUME main.does = "run"
               PROVE  /\ c.threads = IF last("t") = Nil THEN 2 ELSE ScanMetric(last("t"))
                      /\ c.connections = IF last("c") = Nil THEN 10 ELSE ScanMetric(last("c"))
                      /\ c.duration = IF last("d") = Nil THEN 10 ELSE ScanTime(last("d"))
                      /\ c.threads > 0 /\ c.connections \div c.threads > 0 /\ c.duration > 0
                      /\ got.positional[1] \in Addresses
                      /\ Contains(build, main.engine)
                      /\ c.engine # Nil => c.script # Nil /\ c.engine = <<main.engine>>
                      /\ c.engine = Nil /\ c.script # Nil
                           => Extension[c.script] \in Handles[main.engine]
                      /\ c.script = Nil => main.engine # "config"
    BY DEF RunsAsAsked
  <2>1. Len(build) \in Nat
    BY CommandLineOK
  <2>2. outcome.asks = "run"
    BY DEF Main
  <2> DEFINE choice == Select(c.script, c.engine)
  <2>3. choice.error = Nil /\ main.engine = choice.engine
    BY <2>2 DEF Main
  <2>4. /\ Has(main.engine)
        /\ c.engine # Nil => c.script # Nil /\ c.engine = <<main.engine>>
        /\ c.engine = Nil /\ c.script # Nil
             => Extension[c.script] \in Handles[main.engine]
        /\ c.script = Nil => main.engine # "config"
    <3> DEFINE script == c.script
               engine == c.engine
               name == choice.engine
    <3>1. /\ Has(name)
          /\ engine # Nil => script # Nil /\ engine = <<name>>
          /\ engine = Nil /\ script # Nil => Extension[script] \in Handles[name]
          /\ script = Nil => name # "config"
      BY <2>1, <2>3, SelectFacts
    <3> QED
      BY <2>3, <3>1
  <2>5. got.error = Nil /\ outcome = Checked(Settings(got.options), got.positional)
    <3>1. \A message : Usage(message).asks # "run"
      BY DEF Usage
    <3> QED
      BY <2>2, <3>1 DEF Parse
  <2>6. got.options \in Seq(Typed)
    BY <2>5, GetOptType
  <2>7. AsAsked(got.options, Len(got.options), Settings(got.options))
    BY <2>6, SettingsFacts
  <2>8. /\ c = Settings(got.options) /\ c.failure = Nil
        /\ c.threads > 0 /\ c.connections >= c.threads /\ c.duration > 0
        /\ got.positional[1] \in Addresses
    BY <2>2, <2>5, <2>7, CheckedFacts DEF AsAsked
  <2> HIDE DEF got, outcome, main, choice
  <2>9. /\ c \in Configs
        /\ IsSetting(got.options, Len(got.options), "t", c.threads, 2)
        /\ IsSetting(got.options, Len(got.options), "c", c.connections, 10)
        /\ IsSetting(got.options, Len(got.options), "d", c.duration, 10)
    BY <2>7, <2>8 DEF AsAsked
  <2>10. c.threads = IF last("t") = Nil THEN 2 ELSE ScanMetric(last("t"))
    BY <2>6, <2>9, SettingIs
  <2>11. c.connections = IF last("c") = Nil THEN 10 ELSE ScanMetric(last("c"))
    BY <2>6, <2>9, SettingIs
  <2>12. c.duration = IF last("d") = Nil THEN 10 ELSE ScanTime(last("d"))
    BY <2>6, <2>9, SettingIs
  <2>13. c.connections \div c.threads > 0
    <3>1. c.connections \in Nat /\ c.threads \in Nat
      BY <2>9 DEF Configs
    <3> QED
      BY <2>8, <3>1, Quotient
  <2> QED
    BY <2>4, <2>8, <2>10, <2>11, <2>12, <2>13 DEF Has
<1> QED
  BY <1>1, ArgsAreWords, BuildIsOne, PTL
=============================================================================
