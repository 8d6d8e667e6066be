----------------------------- MODULE DCellsProofs -----------------------------
(***************************************************************************)
(* Lemmas about the free cells of the default heap: what linking, taking   *)
(* out, splitting and merging cells do to the lists, the hints and the     *)
(* tiles of a block, for any number and size of blocks.                    *)
(***************************************************************************)
EXTENDS DCells, FiniteSetTheorems, NaturalsInduction, TLAPS

\* Some numbers up to n have a least one.
LEMMA LeastExists ==
  ASSUME NEW n \in Nat, NEW S \in SUBSET (1 .. n), S # {}
  PROVE  \E x \in S : \A y \in S : x <= y
<1> DEFINE R == OpToRel(<, Nat)
<1>1. S \subseteq Nat
  OBVIOUS
<1>2. PICK x \in S : \A y \in S : <<y, x>> \notin R
  BY <1>1, NatLessThanWellFounded, WFMin, Zenon
<1>3. \A y \in S : ~(y < x)
  BY <1>1, <1>2 DEF OpToRel
<1> QED
  BY <1>1, <1>3

\* The places of mcells.
LEMMA CellsFacts ==
  /\ CellsPerBlock \in Nat \ {0} /\ BlockCount \in Nat \ {0} /\ MinCells \in 1 .. CellsPerBlock
  /\ MCells \subseteq Nat /\ Null \notin MCells
  /\ Offs = 0 .. CellsPerBlock - 1
<1>1. CellsPerBlock \in Nat \ {0} /\ BlockCount \in Nat \ {0}
  BY DCellsAssumption
<1> DEFINE top == CellsPerBlock * (BlockCount + 1)
<1>2. top \in Int
  BY <1>1
<1> HIDE DEF top
<1> QED
  BY <1>1, <1>2, DCellsAssumption DEF MCells, Null, Offs, top

-----------------------------------------------------------------------------
(* One list, the key it is sorted by, and its array of hints. *)

\* What a list can be.  (Hidden, because provers that know a list to be a
\* sequence lose their way in steps about single places of it.)
Lists == Seq(MCells)

\* The cells of a list.
Listed(list) == {list[i] : i \in 1 .. Len(list)}

\* No cell is on the list twice, and their keys increase.
Ordered(list, key) ==
  /\ \A i, j \in 1 .. Len(list) : list[i] = list[j] => i = j
  /\ \A i, j \in 1 .. Len(list) : i <= j => key[list[i]] <= key[list[j]]
  /\ \A i \in 1 .. Len(list) : key[list[i]] \in 1 .. CellsPerBlock

\* c is the first cell of the list whose key is above n.
IsFirst(list, key, n, c) ==
  \/ c = Null /\ \A i \in 1 .. Len(list) : key[list[i]] <= n
  \/ \E i \in 1 .. Len(list) : /\ c = list[i] /\ key[c] > n
                               /\ \A j \in 1 .. i - 1 : key[list[j]] <= n

Indexed(list, key, array) ==
  /\ Ordered(list, key)
  /\ \A n \in Offs : IsFirst(list, key, n, array[n])

\* longer is list with m put in at place p.
Inserted(list, p, m, longer) ==
  /\ Len(longer) = Len(list) + 1
  /\ longer[p] = m
  /\ \A i \in 1 .. p - 1 : longer[i] = list[i]
  /\ \A i \in p .. Len(list) : longer[i + 1] = list[i]

\* The places of two lists put together.
LEMMA Joined ==
  ASSUME NEW s \in Seq(MCells), NEW t \in Seq(MCells), NEW k, NEW l, Len(s) = k, Len(t) = l
  PROVE  /\ s \o t \in Seq(MCells) /\ Len(s \o t) = k + l
         /\ \A i \in 1 .. k : (s \o t)[i] = s[i]
         /\ \A i \in k + 1 .. k + l : (s \o t)[i] = t[i - k]
  OBVIOUS

\* What inserting does to the places of a list.
LEMMA InsertAtInserts ==
  ASSUME NEW list \in Seq(MCells), NEW m \in MCells, NEW p \in 1 .. Len(list) + 1
  PROVE  /\ InsertAt(list, p, m) \in Seq(MCells)
         /\ Inserted(list, p, m, InsertAt(list, p, m))
<1> DEFINE n == Len(list)
           a == SubSeq(list, 1, p - 1)
           c == SubSeq(list, p, n)
<1>1. n \in Nat /\ p \in 1 .. n + 1
  OBVIOUS
<1>2. a \in Seq(MCells) /\ Len(a) = p - 1 /\ \A i \in 1 .. p - 1 : a[i] = list[i]
  BY <1>1
<1>3. c \in Seq(MCells) /\ Len(c) = n - p + 1 /\ \A i \in 1 .. n - p + 1 : c[i] = list[p + i - 1]
  BY <1>1
<1>4. InsertAt(list, p, m) = (a \o <<m>>) \o c
  BY DEF InsertAt
<1> HIDE DEF n, a, c
<1> DEFINE d == a \o <<m>>
<1>6. d \in Seq(MCells) /\ Len(d) = p /\ d[p] = m /\ \A i \in 1 .. p - 1 : d[i] = list[i]
  BY <1>1, <1>2
<1> HIDE DEF d
<1>7. /\ d \o c \in Seq(MCells) /\ Len(d \o c) = p + (n - p + 1)
      /\ \A i \in 1 .. p : (d \o c)[i] = d[i]
      /\ \A i \in p + 1 .. p + (n - p + 1) : (d \o c)[i] = c[i - p]
  BY <1>3, <1>6, Joined
<1> DEFINE e == d \o c
<1> HIDE DEF e
<1>8. e \in Seq(MCells) /\ Len(e) = n + 1 /\ e[p] = m /\ \A i \in 1 .. p - 1 : e[i] = list[i]
  BY <1>1, <1>6, <1>7 DEF e
<1>9. ASSUME NEW i \in p .. n PROVE e[i + 1] = list[i]
  <2>1. i + 1 \in p + 1 .. p + (n - p + 1) /\ i + 1 - p \in 1 .. n - p + 1 /\ p + (i + 1 - p) - 1 = i
    BY <1>1
  <2>2. e[i + 1] = c[i + 1 - p]
    BY <2>1, <1>7 DEF e
  <2> QED
    BY <2>1, <2>2, <1>3
<1> QED
  BY <1>4, <1>8, <1>9 DEF Inserted, n, d, e

\* And what removing does.
LEMMA RemoveAtRemoves ==
  ASSUME NEW list \in Seq(MCells), NEW p \in 1 .. Len(list)
  PROVE  /\ RemoveAt(list, p) \in Seq(MCells)
         /\ Inserted(RemoveAt(list, p), p, list[p], list)
<1> DEFINE n == Len(list)
           a == SubSeq(list, 1, p - 1)
           c == SubSeq(list, p + 1, n)
<1>1. n \in Nat /\ p \in 1 .. n
  OBVIOUS
<1>2. a \in Seq(MCells) /\ Len(a) = p - 1 /\ \A i \in 1 .. p - 1 : a[i] = list[i]
  BY <1>1
<1>3. c \in Seq(MCells) /\ Len(c) = n - p /\ \A i \in 1 .. n - p : c[i] = list[p + i]
  BY <1>1
<1>4. RemoveAt(list, p) = a \o c
  BY DEF RemoveAt
<1> DEFINE k == p - 1
           l == n - p
<1>5. a \in Seq(MCells) /\ Len(a) = k /\ c \in Seq(MCells) /\ Len(c) = l
  BY <1>2, <1>3
<1> HIDE DEF n, a, c, k, l
<1> DEFINE e == a \o c
<1>6. /\ e \in Seq(MCells) /\ Len(e) = k + l
      /\ \A i \in 1 .. k : e[i] = a[i]
      /\ \A i \in k + 1 .. k + l : e[i] = c[i - k]
  BY <1>5, Joined
<1> HIDE DEF e
<1>7. e \in Seq(MCells) /\ Len(e) = n - 1 /\ \A i \in 1 .. p - 1 : e[i] = list[i]
  BY <1>1, <1>2, <1>6 DEF k, l
<1>8. ASSUME NEW i \in p .. n - 1 PROVE e[i] = list[i + 1]
  <2>1. i \in k + 1 .. k + l /\ i - k \in 1 .. n - p /\ p + (i - k) = i + 1
    BY <1>1 DEF k, l
  <2> QED
    BY <2>1, <1>3, <1>6
<1>9. Len(list) = Len(e) + 1 /\ \A i \in p .. Len(e) : list[i + 1] = e[i]
  BY <1>1, <1>7, <1>8 DEF n
<1> QED
  BY <1>4, <1>7, <1>9 DEF Inserted, e

\* On a list without duplicates Place finds a cell.
LEMMA PlaceFinds ==
  ASSUME NEW list \in Lists, NEW p \in 1 .. Len(list),
         \A i, j \in 1 .. Len(list) : list[i] = list[j] => i = j
  PROVE  Place(list, list[p]) = p
<1>1. {i \in 1 .. Len(list) : list[i] = list[p]} = {p}
  OBVIOUS
<1>2. Min({p}) = p
  BY DEF Min
<1> QED
  BY <1>1, <1>2 DEF Place, SelectInSeq

\* The largest of the numbers up to n.
LEMMA LastOfAll ==
  ASSUME NEW n \in Nat
  PROVE  n > 0 => Max(1 .. n) = n
<1> SUFFICES ASSUME n > 0 PROVE Max(1 .. n) = n
  OBVIOUS
<1>1. n \in 1 .. n /\ \A y \in 1 .. n : n >= y
  OBVIOUS
<1> QED
  BY <1>1 DEF Max

\* Where the cells of a list are after one was put in at place p.
Shift(n, p) == [q \in 1 .. n |-> IF q < p THEN q ELSE q + 1]

\* The other cells keep their order and fill every place but p.
LEMMA ShiftFacts ==
  ASSUME NEW n \in Nat, NEW p \in 1 .. n + 1
  PROVE  LET up == Shift(n, p) IN
         /\ \A q \in 1 .. n : up[q] \in 1 .. n + 1 /\ up[q] # p /\ (q < p <=> up[q] < p)
         /\ \A q, r \in 1 .. n : q < r <=> up[q] < up[r]
         /\ \A i \in 1 .. n + 1 : i = p \/ \E q \in 1 .. n : up[q] = i
<1> DEFINE up == Shift(n, p)
<1>1. \A q \in 1 .. n : up[q] = IF q < p THEN q ELSE q + 1
  BY DEF Shift
<1> HIDE DEF up
<1>2. \A q \in 1 .. n : up[q] \in 1 .. n + 1 /\ up[q] # p /\ (q < p <=> up[q] < p)
  BY <1>1
<1>3. ASSUME NEW q \in 1 .. n, NEW r \in 1 .. n PROVE q < r <=> up[q] < up[r]
  BY <1>1
<1>4. ASSUME NEW i \in 1 .. n + 1, i # p PROVE \E q \in 1 .. n : up[q] = i
  <2>1. CASE i < p
    <3>1. i \in 1 .. n /\ up[i] = i
      BY <1>1, <2>1
    <3> QED
      BY <3>1
  <2>2. CASE i > p
    <3>1. i - 1 \in 1 .. n /\ ~(i - 1 < p) /\ (i - 1) + 1 = i
      BY <2>2
    <3>2. up[i - 1] = i
      BY <1>1, <3>1
    <3> QED
      BY <3>1, <3>2
  <2> QED
    BY <1>4, <2>1, <2>2
<1> QED
  BY <1>2, <1>3, <1>4 DEF up

\* What is inserted and what was there.
LEMMA InsertedFacts ==
  ASSUME NEW list \in Lists, NEW longer \in Lists, NEW m \in MCells,
         NEW p \in 1 .. Len(list) + 1, Inserted(list, p, m, longer)
  PROVE  LET n == Len(list) IN
         /\ n \in Nat /\ Len(longer) = n + 1 /\ longer[p] = m
         /\ \A i \in 1 .. n : list[i] \in MCells
         /\ \A q \in 1 .. n : longer[Shift(n, p)[q]] = list[q]
         /\ Listed(longer) = Listed(list) \cup {m}
<1> DEFINE n == Len(list)
           up == Shift(n, p)
<1>1. /\ n \in Nat /\ Len(longer) = n + 1 /\ p \in 1 .. n + 1
      /\ \A i \in 1 .. n : list[i] \in MCells
  BY DEF Inserted, Lists
<1>2. \A q \in 1 .. n : longer[up[q]] = list[q]
  <2>1. ASSUME NEW q \in 1 .. n PROVE longer[up[q]] = list[q]
    <3>1. CASE q < p
      BY <1>1, <3>1 DEF Shift, Inserted
    <3>2. CASE q >= p
      BY <1>1, <3>2 DEF Shift, Inserted
    <3> QED
      BY <1>1, <3>1, <3>2
  <2> QED
    BY <2>1
<1>3. longer[p] = m /\ Len(longer) = n + 1
  BY DEF Inserted
<1>4. /\ \A q \in 1 .. n : up[q] \in 1 .. n + 1
      /\ \A i \in 1 .. n + 1 : i = p \/ \E q \in 1 .. n : up[q] = i
  BY <1>1, ShiftFacts
<1> HIDE DEF n, up
<1>5. {longer[i] : i \in 1 .. n + 1} = {list[q] : q \in 1 .. n} \cup {m}
  <2>1. ASSUME NEW i \in 1 .. n + 1 PROVE longer[i] \in {list[q] : q \in 1 .. n} \cup {m}
    BY <1>2, <1>3, <1>4
  <2>2. ASSUME NEW q \in 1 .. n PROVE list[q] \in {longer[i] : i \in 1 .. n + 1}
    BY <1>2, <1>4
  <2>3. m \in {longer[i] : i \in 1 .. n + 1}
    BY <1>1, <1>3
  <2> QED
    BY <2>1, <2>2, <2>3
<1> QED
  BY <1>1, <1>2, <1>3, <1>5 DEF Listed, n, up

Cells == MCells \cup {Null}

\* hr_memset32 over a range of hints.
LEMMA FillFacts ==
  ASSUME NEW array \in [Offs -> Cells], NEW m \in Cells, NEW from, NEW to
  PROVE  /\ Fill(array, from, to, m) \in [Offs -> Cells]
         /\ \A n \in Offs :
              Fill(array, from, to, m)[n] = IF n \in from .. to THEN m ELSE array[n]
  BY DEF Fill

\* A hint is known by what it is the first of.
LEMMA FirstIsUnique ==
  ASSUME NEW list \in Lists, NEW key \in [MCells -> Int], NEW n \in Int,
         NEW c, NEW d, IsFirst(list, key, n, c), IsFirst(list, key, n, d)
  PROVE  c = d
<1>1. Len(list) \in Nat /\ \A i \in 1 .. Len(list) : list[i] \in MCells /\ key[list[i]] \in Int
  BY DEF Lists
<1>2. CASE c = Null /\ \A i \in 1 .. Len(list) : key[list[i]] <= n
  BY <1>1, <1>2 DEF IsFirst
<1>3. ASSUME NEW i \in 1 .. Len(list), c = list[i], key[c] > n,
             \A k \in 1 .. i - 1 : key[list[k]] <= n
      PROVE  c = d
  <2>1. PICK j \in 1 .. Len(list) : d = list[j] /\ key[d] > n /\ \A k \in 1 .. j - 1 : key[list[k]] <= n
    BY <1>1, <1>3 DEF IsFirst
  <2>2. ~(j < i) /\ ~(i < j)
    BY <1>1, <1>3, <2>1
  <2> QED
    BY <1>3, <2>1, <2>2
<1> QED
  BY <1>2, <1>3 DEF IsFirst

\* The key of the cell in front of place p, and the cell behind it.
KeyBefore(list, key, p) == IF p = 1 THEN 0 ELSE key[list[p - 1]]
CellAfter(list, p)      == IF p = Len(list) THEN Null ELSE list[p + 1]

\* Linking a cell: it goes behind the smaller keys and before the larger ones,
\* and becomes the hint from the key before it up to its own.
THEOREM InsertKeepsHints ==
  ASSUME NEW list \in Lists, NEW longer \in Lists,
         NEW key \in [MCells -> Int], NEW array \in [Offs -> Cells],
         NEW m \in MCells, NEW p \in 1 .. Len(list) + 1,
         Indexed(list, key, array), Inserted(list, p, m, longer),
         m \notin Listed(list), key[m] \in 1 .. CellsPerBlock,
         \A i \in 1 .. p - 1 : key[list[i]] <= key[m],
         \A i \in p .. Len(list) : key[m] <= key[list[i]]
  PROVE  Indexed(longer, key, Fill(array, KeyBefore(list, key, p), key[m] - 1, m))
<1> DEFINE n == Len(list)
           up == Shift(n, p)
           from == KeyBefore(list, key, p)
           filled == Fill(array, from, key[m] - 1, m)
<1>1. /\ n \in Nat /\ Len(longer) = n + 1 /\ p \in 1 .. n + 1 /\ longer[p] = m
      /\ \A q \in 1 .. n : longer[up[q]] = list[q]
  BY InsertedFacts
<1>2. \A q \in 1 .. n : key[list[q]] \in Int
  BY InsertedFacts
<1>3. /\ \A q \in 1 .. n : up[q] \in 1 .. n + 1 /\ up[q] # p /\ (q < p <=> up[q] < p)
      /\ \A q, r \in 1 .. n : q < r <=> up[q] < up[r]
      /\ \A i \in 1 .. n + 1 : i = p \/ \E q \in 1 .. n : up[q] = i
  BY <1>1, ShiftFacts
<1>4. /\ \A i, j \in 1 .. n : list[i] = list[j] => i = j
      /\ \A i, j \in 1 .. n : i <= j => key[list[i]] <= key[list[j]]
      /\ \A i \in 1 .. n : key[list[i]] \in 1 .. CellsPerBlock
      /\ \A k \in Offs : IsFirst(list, key, k, array[k])
  BY DEF Indexed, Ordered
<1>5. /\ \A i \in 1 .. n : list[i] # m
      /\ \A i \in 1 .. p - 1 : key[list[i]] <= key[m]
      /\ \A i \in p .. n : key[m] <= key[list[i]]
  BY DEF Listed
<1>6. \A k \in Offs : filled[k] = IF k \in from .. key[m] - 1 THEN m ELSE array[k]
  BY FillFacts DEF Cells
<1>7. CellsPerBlock \in Nat \ {0} /\ Offs = 0 .. CellsPerBlock - 1 /\ key[m] \in 1 .. CellsPerBlock
  BY CellsFacts
<1>8. from = IF p = 1 THEN 0 ELSE key[list[p - 1]]
  BY DEF KeyBefore
<1> HIDE DEF n, up, filled, from
<1>9. Ordered(longer, key)
  <2>1. ASSUME NEW i \in 1 .. n + 1, NEW j \in 1 .. n + 1
        PROVE  /\ longer[i] = longer[j] => i = j
               /\ i <= j => key[longer[i]] <= key[longer[j]]
               /\ key[longer[i]] \in 1 .. CellsPerBlock
    <3>1. CASE i = p /\ j = p
      BY <1>1, <1>7, <3>1
    <3>2. ASSUME NEW q \in 1 .. n, up[q] = i, j = p
          PROVE  longer[i] # longer[j] /\ (i <= j => key[longer[i]] <= key[longer[j]])
                 /\ key[longer[i]] \in 1 .. CellsPerBlock
      <4>1. longer[i] = list[q] /\ longer[j] = m /\ (i <= j => q \in 1 .. p - 1)
        BY <1>1, <1>3, <3>2
      <4> QED
        BY <1>4, <1>5, <4>1
    <3>3. ASSUME NEW q \in 1 .. n, up[q] = j, i = p
          PROVE  longer[i] # longer[j] /\ (i <= j => key[longer[i]] <= key[longer[j]])
                 /\ key[longer[i]] \in 1 .. CellsPerBlock
      <4>1. longer[j] = list[q] /\ longer[i] = m /\ (i <= j => q \in p .. n)
        BY <1>1, <1>3, <3>3
      <4> QED
        BY <1>5, <1>7, <4>1
    <3>4. ASSUME NEW q \in 1 .. n, NEW r \in 1 .. n, up[q] = i, up[r] = j
          PROVE  /\ longer[i] = longer[j] => i = j
                 /\ i <= j => key[longer[i]] <= key[longer[j]]
                 /\ key[longer[i]] \in 1 .. CellsPerBlock
      <4>1. longer[i] = list[q] /\ longer[j] = list[r] /\ (i <= j => q <= r)
        BY <1>1, <1>3, <3>4
      <4> QED
        BY <1>4, <3>4, <4>1
    <3> QED
      BY <1>3, <3>1, <3>2, <3>3, <3>4
  <2> QED
    BY <1>1, <2>1 DEF Ordered
<1>10. ASSUME NEW k \in Offs PROVE IsFirst(longer, key, k, filled[k])
  <2>1. IsFirst(list, key, k, array[k]) /\ k \in Int /\ k >= 0
    BY <1>4, <1>7
  <2>2. CASE k \in from .. key[m] - 1
    <3>1. filled[k] = m /\ key[m] > k
      BY <1>6, <1>7, <2>1, <2>2
    <3>2. ASSUME NEW j \in 1 .. p - 1 PROVE key[longer[j]] <= k
      <4>1. PICK q \in 1 .. n : up[q] = j
        BY <1>1, <1>3
      <4>2. q < p /\ p - 1 \in 1 .. n /\ q <= p - 1 /\ p # 1
        BY <1>1, <1>3, <4>1
      <4>3. longer[j] = list[q] /\ key[list[q]] <= key[list[p - 1]] /\ from = key[list[p - 1]]
        BY <1>1, <1>4, <1>8, <4>1, <4>2
      <4> QED
        BY <1>2, <1>7, <2>1, <2>2, <4>2, <4>3, SMTT(30)
    <3> QED
      BY <1>1, <3>1, <3>2 DEF IsFirst
  <2>3. ASSUME NEW q \in 1 .. n, filled[k] = list[q], key[list[q]] > k,
               \A r \in 1 .. q - 1 : key[list[r]] <= k,
               up[q] < p \/ key[m] <= k
        PROVE  IsFirst(longer, key, k, filled[k])
    <3>1. ASSUME NEW j \in 1 .. up[q] - 1 PROVE key[longer[j]] <= k
      <4>1. up[q] \in 1 .. n + 1 /\ j \in 1 .. n + 1 /\ j < up[q]
        BY <1>1, <1>3
      <4>2. CASE j = p
        BY <1>1, <2>3, <4>1, <4>2
      <4>3. ASSUME NEW r \in 1 .. n, up[r] = j PROVE key[longer[j]] <= k
        <5>1. r < q
          BY <1>3, <4>1, <4>3
        <5>2. r \in 1 .. q - 1
          BY <5>1
        <5> QED
          BY <1>1, <2>3, <4>3, <5>2
      <4> QED
        BY <1>3, <4>1, <4>2, <4>3
    <3> QED
      BY <1>1, <1>3, <2>3, <3>1, ZenonT(60) DEF IsFirst
  <2>4. CASE k \notin from .. key[m] - 1 /\ k < key[m]
    <3>1. p # 1 /\ p - 1 \in 1 .. n /\ from = key[list[p - 1]]
      BY <1>1, <1>7, <1>8, <2>1, <2>4
    <3>2. k < key[list[p - 1]] /\ filled[k] = array[k]
      BY <1>2, <1>6, <1>7, <2>1, <2>4, <3>1
    <3>3. ~(\A r \in 1 .. n : key[list[r]] <= k)
      BY <1>2, <2>1, <3>1, <3>2
    <3>4. PICK q \in 1 .. n : /\ array[k] = list[q] /\ key[array[k]] > k
                              /\ \A j \in 1 .. q - 1 : key[list[j]] <= k
      BY <2>1, <3>3 DEF IsFirst, n
    <3>5. ~(p - 1 \in 1 .. q - 1)
      BY <1>2, <2>1, <3>1, <3>2, <3>4
    <3>6. q < p
      BY <1>1, <3>1, <3>5
    <3> QED
      BY <1>3, <2>3, <3>2, <3>4, <3>6
  <2>5. CASE k >= key[m]
    <3>1. filled[k] = array[k]
      BY <1>6, <1>7, <2>1, <2>5
    <3>2. CASE array[k] = Null /\ \A i \in 1 .. n : key[list[i]] <= k
      <4>1. ASSUME NEW i \in 1 .. n + 1 PROVE key[longer[i]] <= k
        <5>1. CASE i = p
          BY <1>1, <2>5, <5>1
        <5>2. ASSUME NEW q \in 1 .. n, up[q] = i PROVE key[longer[i]] <= k
          BY <1>1, <3>2, <5>2
        <5> QED
          BY <1>3, <5>1, <5>2
      <4> QED
        BY <1>1, <3>1, <3>2, <4>1 DEF IsFirst
    <3>3. ASSUME NEW q \in 1 .. n, array[k] = list[q], key[array[k]] > k,
                 \A j \in 1 .. q - 1 : key[list[j]] <= k
          PROVE  IsFirst(longer, key, k, filled[k])
      BY <2>3, <2>5, <3>1, <3>3
    <3> QED
      BY <2>1, <3>2, <3>3 DEF IsFirst, n
  <2> QED
    BY <1>7, <2>1, <2>2, <2>4, <2>5
<1> QED
  BY <1>9, <1>10 DEF Indexed, filled, from

\* Taking a cell out: the cell behind it becomes the hint wherever it was.
THEOREM RemoveKeepsHints ==
  ASSUME NEW list \in Lists, NEW shorter \in Lists,
         NEW key \in [MCells -> Int], NEW array \in [Offs -> Cells],
         NEW p \in 1 .. Len(list),
         Indexed(list, key, array), Inserted(shorter, p, list[p], list)
  PROVE  LET from == KeyBefore(list, key, p)
             to   == key[list[p]] - 1
             next == CellAfter(list, p) IN
         /\ Indexed(shorter, key, Fill(array, from, to, next))
         /\ next \in Cells
         /\ \A k \in Offs : k \in from .. to => array[k] = list[p]
<1> DEFINE n == Len(list)
           m == list[p]
           up == Shift(n - 1, p)
           from == KeyBefore(list, key, p)
           next == CellAfter(list, p)
           filled == Fill(array, from, key[m] - 1, next)
<1>1. /\ n \in Nat /\ Len(shorter) = n - 1 /\ n - 1 \in Nat /\ p \in 1 .. n /\ list[p] = m
      /\ \A i \in 1 .. n : list[i] \in MCells
  BY DEF Inserted, Lists
<1>2. /\ \A q \in 1 .. n - 1 : list[up[q]] = shorter[q]
      /\ \A i \in 1 .. n : key[list[i]] \in Int
  <2>1. p \in 1 .. Len(shorter) + 1 /\ m \in MCells
    BY <1>1
  <2>2. Inserted(shorter, p, m, list)
    OBVIOUS
  <2> HIDE DEF m
  <2>3. \A q \in 1 .. Len(shorter) : list[Shift(Len(shorter), p)[q]] = shorter[q]
    BY <2>1, <2>2, InsertedFacts
  <2> QED
    BY <1>1, <2>3
<1>3. /\ \A q \in 1 .. n - 1 : up[q] \in 1 .. n /\ up[q] # p /\ (q < p <=> up[q] < p)
      /\ \A q, r \in 1 .. n - 1 : q < r <=> up[q] < up[r]
      /\ \A i \in 1 .. n : i = p \/ \E q \in 1 .. n - 1 : up[q] = i
  <2>1. n - 1 \in Nat /\ (n - 1) + 1 = n /\ p \in 1 .. (n - 1) + 1
    BY <1>1
  <2> HIDE DEF n
  <2> QED
    BY <2>1, ShiftFacts, ZenonT(60)
<1>4. /\ \A i, j \in 1 .. n : list[i] = list[j] => i = j
      /\ \A i, j \in 1 .. n : i <= j => key[list[i]] <= key[list[j]]
      /\ \A i \in 1 .. n : key[list[i]] \in 1 .. CellsPerBlock
      /\ \A k \in Offs : IsFirst(list, key, k, array[k])
  BY DEF Indexed, Ordered
<1>5. next \in Cells /\ next = IF p = n THEN Null ELSE list[p + 1]
  BY <1>1 DEF Cells, CellAfter
<1>6. \A k \in Offs : filled[k] = IF k \in from .. key[m] - 1 THEN next ELSE array[k]
  BY <1>5, FillFacts
<1>7. CellsPerBlock \in Nat \ {0} /\ Offs = 0 .. CellsPerBlock - 1 /\ key[m] \in 1 .. CellsPerBlock
  BY <1>4, CellsFacts
<1>8. from = IF p = 1 THEN 0 ELSE key[list[p - 1]]
  BY DEF KeyBefore
<1> HIDE DEF n, m, up, from, next, filled
<1>9. Ordered(shorter, key)
  <2>1. ASSUME NEW i \in 1 .. n - 1, NEW j \in 1 .. n - 1
        PROVE  /\ shorter[i] = shorter[j] => i = j
               /\ i <= j => key[shorter[i]] <= key[shorter[j]]
               /\ key[shorter[i]] \in 1 .. CellsPerBlock
    <3>1. /\ up[i] \in 1 .. n /\ up[j] \in 1 .. n /\ (i <= j => up[i] <= up[j])
          /\ up[i] = up[j] => i = j
      BY <1>3
    <3> QED
      BY <1>2, <1>4, <3>1
  <2> QED
    BY <1>1, <2>1 DEF Ordered
<1>10. ASSUME NEW k \in Offs, k \in from .. key[m] - 1
       PROVE  array[k] = m /\ \A j \in 1 .. p - 1 : key[list[j]] <= k
  <2>1. \A j \in 1 .. p - 1 : key[list[j]] <= k
    <3>1. ASSUME NEW j \in 1 .. p - 1 PROVE key[list[j]] <= k
      <4>1. p # 1 /\ p - 1 \in 1 .. n /\ j \in 1 .. n /\ j <= p - 1
        BY <1>1
      <4>2. key[list[j]] <= key[list[p - 1]] /\ from = key[list[p - 1]]
        BY <1>4, <1>8, <4>1
      <4> QED
        BY <1>2, <1>7, <1>10, <4>1, <4>2
    <3> QED
      BY <3>1
  <2>2. key[list[p]] > k /\ k \in Int
    BY <1>1, <1>7, <1>10
  <2>3. IsFirst(list, key, k, m)
    BY <1>1, <2>1, <2>2 DEF IsFirst, n
  <2> QED
    BY <1>4, <1>10, <2>1, <2>2, <2>3, FirstIsUnique
<1>11. ASSUME NEW k \in Offs PROVE IsFirst(shorter, key, k, filled[k])
  <2>1. IsFirst(list, key, k, array[k]) /\ k \in Int /\ k >= 0
    BY <1>4, <1>7
  <2>2. ASSUME NEW i \in 1 .. n, i # p, filled[k] = list[i], key[list[i]] > k,
               \A r \in 1 .. i - 1 : r # p => key[list[r]] <= k
        PROVE  IsFirst(shorter, key, k, filled[k])
    <3>1. PICK q \in 1 .. n - 1 : up[q] = i
      BY <1>3, <2>2
    <3>2. ASSUME NEW j \in 1 .. q - 1 PROVE key[shorter[j]] <= k
      <4>1. j \in 1 .. n - 1 /\ j < q
        BY <1>1
      <4>2. up[j] \in 1 .. n /\ up[j] # p /\ up[j] < i
        BY <1>3, <3>1, <4>1
      <4>3. up[j] \in 1 .. i - 1
        BY <4>2
      <4> QED
        BY <1>2, <2>2, <4>1, <4>2, <4>3
    <3> QED
      BY <1>1, <1>2, <2>2, <3>1, <3>2 DEF IsFirst
  <2>3. CASE k \in from .. key[m] - 1
    <3>1. filled[k] = next /\ key[m] > k /\ \A j \in 1 .. p - 1 : key[list[j]] <= k
      BY <1>6, <1>7, <1>10, <2>1, <2>3
    <3>2. CASE p = n
      <4>1. ASSUME NEW q \in 1 .. n - 1 PROVE key[shorter[q]] <= k
        <5>1. q < p
          BY <1>1, <3>2
        <5>2. up[q] \in 1 .. n /\ up[q] < p
          BY <1>3, <5>1
        <5>3. up[q] \in 1 .. p - 1
          BY <1>1, <5>2
        <5> QED
          BY <1>2, <3>1, <5>3
      <4> QED
        BY <1>1, <1>5, <3>1, <3>2, <4>1 DEF IsFirst
    <3>3. CASE p # n
      <4>1. p + 1 \in 1 .. n /\ p + 1 # p /\ next = list[p + 1]
        BY <1>1, <1>5, <3>3
      <4>2. key[m] <= key[list[p + 1]]
        BY <1>1, <1>4, <4>1
      <4>3. key[list[p + 1]] > k
        BY <1>2, <1>7, <2>1, <3>1, <4>1, <4>2
      <4>4. \A r \in 1 .. (p + 1) - 1 : r # p => key[list[r]] <= k
        BY <1>1, <3>1
      <4> QED
        BY <2>2, <3>1, <4>1, <4>3, <4>4
    <3> QED
      BY <3>2, <3>3
  <2>4. CASE k \notin from .. key[m] - 1 /\ k < key[m]
    <3>1. p # 1 /\ p - 1 \in 1 .. n /\ from = key[list[p - 1]]
      BY <1>1, <1>7, <1>8, <2>1, <2>4
    <3>2. k < key[list[p - 1]] /\ filled[k] = array[k]
      BY <1>2, <1>6, <1>7, <2>1, <2>4, <3>1
    <3>3. ~(\A r \in 1 .. n : key[list[r]] <= k)
      BY <1>2, <2>1, <3>1, <3>2
    <3>4. PICK q \in 1 .. n : /\ array[k] = list[q] /\ key[array[k]] > k
                              /\ \A j \in 1 .. q - 1 : key[list[j]] <= k
      BY <2>1, <3>3 DEF IsFirst, n
    <3>5. ~(p - 1 \in 1 .. q - 1)
      BY <1>2, <2>1, <3>1, <3>2, <3>4
    <3>6. q < p
      BY <1>1, <3>1, <3>5
    <3> QED
      BY <2>2, <3>2, <3>4, <3>6
  <2>5. CASE k >= key[m]
    <3>1. filled[k] = array[k]
      BY <1>6, <1>7, <2>1, <2>5
    <3>2. CASE array[k] = Null /\ \A i \in 1 .. n : key[list[i]] <= k
      <4>1. ASSUME NEW i \in 1 .. n - 1 PROVE key[shorter[i]] <= k
        BY <1>2, <1>3, <3>2
      <4> QED
        BY <1>1, <3>1, <3>2, <4>1 DEF IsFirst
    <3>3. ASSUME NEW q \in 1 .. n, array[k] = list[q], key[array[k]] > k,
                 \A j \in 1 .. q - 1 : key[list[j]] <= k
          PROVE  IsFirst(shorter, key, k, filled[k])
      <4>1. q # p
        BY <1>1, <1>7, <2>1, <2>5, <3>3
      <4> QED
        BY <2>2, <3>1, <3>3, <4>1
    <3> QED
      BY <2>1, <3>2, <3>3 DEF IsFirst, n
  <2> QED
    BY <1>7, <2>1, <2>3, <2>4, <2>5
<1> QED
  BY <1>5, <1>9, <1>10, <1>11 DEF Indexed, filled, m, from, next

\* Nothing is written to an empty range.
LEMMA FillNothing ==
  ASSUME NEW array \in [Offs -> Cells], NEW m, NEW from \in Int, NEW to \in Int, from > to
  PROVE  Fill(array, from, to, m) = array
<1>1. from .. to = {}
  OBVIOUS
<1> QED
  BY <1>1 DEF Fill

\* The hint for the last smaller key shows where a cell belongs.
LEMMA HintShowsPlace ==
  ASSUME NEW list \in Lists, NEW key \in [MCells -> Int], NEW m \in MCells, NEW elem,
         Ordered(list, key), key[m] \in 1 .. CellsPerBlock, IsFirst(list, key, key[m] - 1, elem)
  PROVE  \E p \in 1 .. Len(list) + 1 :
           /\ InsertBefore(list, m, elem) = InsertAt(list, p, m)
           /\ \A i \in 1 .. p - 1 : key[list[i]] <= key[m] - 1
           /\ \A i \in p .. Len(list) : key[m] <= key[list[i]]
           /\ elem # Null => p \in 1 .. Len(list) /\ list[p] = elem /\ Place(list, elem) = p
<1>1. /\ Len(list) \in Nat /\ \A i \in 1 .. Len(list) : list[i] \in MCells /\ list[i] # Null /\ key[list[i]] \in Int
      /\ key[m] \in Int
  <2>1. Len(list) \in Nat /\ \A i \in 1 .. Len(list) : list[i] \in MCells
    BY DEF Lists
  <2>2. \A k \in MCells : k # Null /\ key[k] \in Int
    BY CellsFacts
  <2> QED
    BY <2>1, <2>2
<1>2. CASE elem = Null
  <2>1. \A i \in 1 .. Len(list) : key[list[i]] <= key[m] - 1
    BY <1>1, <1>2 DEF IsFirst
  <2>2. Len(list) + 1 \in 1 .. Len(list) + 1
    BY <1>1
  <2>3. InsertBefore(list, m, elem) = InsertAt(list, Len(list) + 1, m)
    BY <1>2 DEF InsertBefore
  <2>4. \A i \in 1 .. (Len(list) + 1) - 1 : key[list[i]] <= key[m] - 1
    BY <1>1, <2>1
  <2>5. \A i \in Len(list) + 1 .. Len(list) : key[m] <= key[list[i]]
    BY <1>1
  <2> QED
    BY <1>2, <2>2, <2>3, <2>4, <2>5
<1>3. ASSUME elem # Null
      PROVE  \E p \in 1 .. Len(list) :
           /\ InsertBefore(list, m, elem) = InsertAt(list, p, m)
           /\ \A i \in 1 .. p - 1 : key[list[i]] <= key[m] - 1
           /\ \A i \in p .. Len(list) : key[m] <= key[list[i]]
           /\ list[p] = elem /\ Place(list, elem) = p
  <2>1. PICK p \in 1 .. Len(list) : /\ elem = list[p] /\ key[elem] > key[m] - 1
                                    /\ \A j \in 1 .. p - 1 : key[list[j]] <= key[m] - 1
    BY <1>3 DEF IsFirst
  <2>2. Place(list, elem) = p
    BY <2>1, PlaceFinds DEF Ordered
  <2>3. InsertBefore(list, m, elem) = InsertAt(list, p, m)
    BY <1>3, <2>2 DEF InsertBefore
  <2>4. ASSUME NEW i \in p .. Len(list) PROVE key[m] <= key[list[i]]
    <3>1. i \in 1 .. Len(list) /\ p <= i
      BY <1>1
    <3>2. key[list[p]] <= key[list[i]] /\ key[m] <= key[list[p]]
      BY <1>1, <2>1, <3>1 DEF Ordered
    <3> QED
      BY <1>1, <3>1, <3>2
  <2> QED
    BY <2>1, <2>2, <2>3, <2>4
<1> QED
  <2>1. 1 .. Len(list) \subseteq 1 .. Len(list) + 1
    BY <1>1
  <2> QED
    BY <1>2, <1>3, <2>1

\* The nearest cell in front of m that is not larger is the one before it.
LEMMA NearestBefore ==
  ASSUME NEW longer \in Lists, NEW key \in [MCells -> Int], NEW m \in MCells,
         NEW p \in 1 .. Len(longer), Ordered(longer, key), longer[p] = m
  PROVE  LET I == {i \in 1 .. Place(longer, m) - 1 : key[m] >= key[longer[i]]} IN
         (IF I # {} THEN Max(I) ELSE 0) = p - 1
<1>1. Place(longer, m) = p
  BY PlaceFinds DEF Ordered
<1>2. /\ Len(longer) \in Nat /\ \A i \in 1 .. Len(longer) : longer[i] \in MCells /\ key[longer[i]] \in Int
  BY DEF Lists
<1>3. \A i \in 1 .. p - 1 : i \in 1 .. Len(longer) /\ i <= p
  BY <1>2
<1>4. {i \in 1 .. p - 1 : key[m] >= key[longer[i]]} = 1 .. p - 1
  BY <1>2, <1>3 DEF Ordered
<1>5. p - 1 \in Nat /\ (1 .. p - 1 # {} <=> p - 1 > 0)
  <2>1. p - 1 \in Nat
    BY <1>2
  <2> DEFINE k == p - 1
  <2> HIDE DEF k
  <2>2. k \in Nat => (1 .. k # {} <=> k > 0)
    <3>1. k \in Nat /\ k > 0 => k \in 1 .. k
      OBVIOUS
    <3>2. k \in Nat /\ ~(k > 0) => 1 .. k = {}
      OBVIOUS
    <3> QED
      BY <3>1, <3>2
  <2> QED
    BY <2>1, <2>2 DEF k
<1>6. p - 1 > 0 => Max(1 .. p - 1) = p - 1
  BY <1>5, LastOfAll
<1>7. ~(p - 1 > 0) => p - 1 = 0
  BY <1>5
<1> QED
  BY <1>1, <1>4, <1>5, <1>6, <1>7

-----------------------------------------------------------------------------
(* The two ways into the free cells. *)

Heaps ==
  [desc       : [MCells -> [addr : Nat, size : Nat, index : Blocks]],
   size_list  : Lists,
   size_array : [Offs -> Cells],
   addr_list  : [Blocks -> Lists],
   addr_array : [Blocks -> {<<>>} \cup [Offs -> Cells]],
   block_addr : [Blocks -> Nat]]

\* Keys are places in the arrays, counted from 1.
SizeKey(h)    == [m \in MCells |-> h.desc[m].size]
AddrKey(h, b) == [m \in MCells |-> h.desc[m].addr - h.block_addr[b] + 1]

FreeOf(h) == Listed(h.size_list)

SizeOK(h) == Indexed(h.size_list, SizeKey(h), h.size_array)

\* The list of a block has cells of it only, and none if it has no array.
AddrOK(h) ==
  \A b \in Blocks :
    /\ \A m \in Listed(h.addr_list[b]) : h.desc[m].index = b
    /\ h.addr_array[b] = <<>> => Listed(h.addr_list[b]) = {}
    /\ h.addr_array[b] # <<>> => Indexed(h.addr_list[b], AddrKey(h, b), h.addr_array[b])

\* The types of the parts of a heap, and the keys of its cells.
LEMMA HeapFacts ==
  ASSUME NEW h \in Heaps
  PROVE  /\ h.size_list \in Lists /\ h.size_array \in [Offs -> Cells]
         /\ SizeKey(h) \in [MCells -> Int]
         /\ \A m \in MCells : /\ h.desc[m].addr \in Nat /\ h.desc[m].size \in Nat /\ h.desc[m].index \in Blocks
                              /\ SizeKey(h)[m] = h.desc[m].size /\ SizeIndex(h, m) = SizeKey(h)[m] - 1
                              /\ AddrIndex(h, m) = AddrKey(h, h.desc[m].index)[m] - 1
         /\ \A b \in Blocks : /\ h.addr_list[b] \in Lists /\ h.addr_array[b] \in {<<>>} \cup [Offs -> Cells]
                              /\ h.block_addr[b] \in Nat /\ AddrKey(h, b) \in [MCells -> Int]
                              /\ \A m \in MCells : AddrKey(h, b)[m] = h.desc[m].addr - h.block_addr[b] + 1
<1>1. \A m \in MCells : h.desc[m].addr \in Nat /\ h.desc[m].size \in Nat /\ h.desc[m].index \in Blocks
  BY DEF Heaps
<1>2. \A b \in Blocks : h.block_addr[b] \in Nat
  BY DEF Heaps
<1> QED
  BY <1>1, <1>2 DEF Heaps, SizeKey, AddrKey, SizeIndex, AddrIndex

\* What does not touch the size list, and what touches nothing else.
SameBySize(h, g) == g.size_list = h.size_list /\ g.size_array = h.size_array
SameByAddr(h, g) == g.addr_list = h.addr_list /\ g.addr_array = h.addr_array
SameCells(h, g)  == g.desc = h.desc /\ g.block_addr = h.block_addr

LinkBySize(h, m)   == AddCellToSizeArray(AddCellToSizeList(h, m), m)
LinkByAddr(h, m)   == AddCellToAddrArray(AddCellToAddrList(h, m), m)
UnlinkBySize(h, m) == RmvFromSizeList(RmvCellFromSizeArray(h, m), m)

\* A heap with other lists is a heap.
LEMMA NewSizeLists ==
  ASSUME NEW h \in Heaps, NEW list \in Lists, NEW array \in [Offs -> Cells]
  PROVE  LET g == [h EXCEPT !.size_list = list, !.size_array = array] IN
         /\ g \in Heaps /\ g.size_list = list /\ g.size_array = array
         /\ SameByAddr(h, g) /\ SameCells(h, g) /\ SizeKey(g) = SizeKey(h)
  BY DEF Heaps, SameByAddr, SameCells, SizeKey

\* Linking by size, as one change of list and array at some place.
LEMMA LinkBySizeIs ==
  ASSUME NEW h \in Heaps, NEW m \in MCells, SizeOK(h), m \notin FreeOf(h),
         h.desc[m].size \in 1 .. CellsPerBlock
  PROVE  \E p \in 1 .. Len(h.size_list) + 1 :
           LET list == h.size_list
               key  == SizeKey(h)
               longer == InsertAt(list, p, m)
               filled == Fill(h.size_array, KeyBefore(list, key, p), key[m] - 1, m) IN
           /\ \A i \in 1 .. p - 1 : key[list[i]] <= key[m]
           /\ \A i \in p .. Len(list) : key[m] <= key[list[i]]
           /\ LinkBySize(h, m) = [h EXCEPT !.size_list = longer, !.size_array = filled]
<1> DEFINE list == h.size_list
           key  == SizeKey(h)
           array == h.size_array
           elem == array[key[m] - 1]
<1>1. /\ list \in Lists /\ key \in [MCells -> Int] /\ array \in [Offs -> Cells]
      /\ key[m] \in 1 .. CellsPerBlock /\ key[m] - 1 \in Offs
      /\ Ordered(list, key) /\ IsFirst(list, key, key[m] - 1, elem)
      /\ elem = h.size_array[SizeIndex(h, m)]
  <2>1. list \in Lists /\ key \in [MCells -> Int] /\ array \in [Offs -> Cells]
        /\ key[m] = h.desc[m].size /\ SizeIndex(h, m) = key[m] - 1
    BY HeapFacts
  <2>2. key[m] \in 1 .. CellsPerBlock /\ key[m] - 1 \in Offs
    BY <2>1, CellsFacts
  <2> QED
    BY <2>1, <2>2 DEF SizeOK, Indexed
<1>2. /\ \A k \in MCells : key[k] = h.desc[k].size /\ key[k] \in Int /\ k # Null
      /\ \A i \in 1 .. Len(list) : list[i] \in MCells
      /\ Len(list) \in Nat
  BY HeapFacts, CellsFacts DEF Lists
<1>3. CASE elem # Null /\ h.desc[elem].size = h.desc[m].size
  <2>1. PICK i \in 1 .. Len(list) : elem = list[i] /\ \A j \in 1 .. i - 1 : key[list[j]] <= key[m] - 1
    BY <1>1, <1>3 DEF IsFirst
  <2>2. key[list[i]] = key[m] /\ Place(list, elem) = i
    BY <1>1, <1>2, <1>3, <2>1, PlaceFinds DEF Ordered
  <2>3. i + 1 \in 1 .. Len(list) + 1
    BY <1>2
  <2>4. \A j \in 1 .. (i + 1) - 1 : key[list[j]] <= key[m]
    BY <1>2, <2>1, <2>2
  <2>5. \A j \in i + 1 .. Len(list) : key[m] <= key[list[j]]
    <3>1. \A j \in i + 1 .. Len(list) : j \in 1 .. Len(list) /\ i <= j
      BY <1>2
    <3> QED
      BY <1>1, <2>2, <3>1 DEF Ordered
  <2>6. KeyBefore(list, key, i + 1) = key[m]
    <3>1. (i + 1) # 1 /\ (i + 1) - 1 = i
      BY <1>2
    <3> QED
      BY <2>2, <3>1 DEF KeyBefore
  <2>7. Fill(array, KeyBefore(list, key, i + 1), key[m] - 1, m) = array
    BY <1>1, <1>2, <2>6, FillNothing
  <2>8. LinkBySize(h, m) = [h EXCEPT !.size_list = InsertAt(list, i + 1, m)]
    <3>1. AddCellToSizeList(h, m) = [h EXCEPT !.size_list = InsertAt(list, i + 1, m)]
      BY <1>1, <1>3, <2>2 DEF AddCellToSizeList
    <3> DEFINE h1 == [h EXCEPT !.size_list = InsertAt(list, i + 1, m)]
    <3>2. h1.size_array = array /\ h1.desc = h.desc /\ SizeIndex(h1, m) = SizeIndex(h, m)
      BY DEF Heaps, SizeIndex
    <3>3. AddCellToSizeArray(h1, m) = h1
      <4> HIDE DEF h1
      <4> QED
        BY <1>1, <1>3, <3>2 DEF AddCellToSizeArray
    <3> QED
      BY <3>1, <3>3 DEF LinkBySize
  <2>9. [h EXCEPT !.size_list = InsertAt(list, i + 1, m)]
          = [h EXCEPT !.size_list = InsertAt(list, i + 1, m), !.size_array = array]
    BY DEF Heaps
  <2> QED
    BY <2>3, <2>4, <2>5, <2>7, <2>8, <2>9
<1>4. CASE ~(elem # Null /\ h.desc[elem].size = h.desc[m].size)
  <2>1. PICK p \in 1 .. Len(list) + 1 :
           /\ InsertBefore(list, m, elem) = InsertAt(list, p, m)
           /\ \A i \in 1 .. p - 1 : key[list[i]] <= key[m] - 1
           /\ \A i \in p .. Len(list) : key[m] <= key[list[i]]
    BY <1>1, HintShowsPlace, SMTT(30)
  <2>2. \A i \in 1 .. p - 1 : key[list[i]] <= key[m]
    BY <1>1, <1>2, <2>1
  <2> DEFINE longer == InsertAt(list, p, m)
             h1 == [h EXCEPT !.size_list = longer]
             from == KeyBefore(list, key, p)
  <2>3. longer \in Lists /\ Inserted(list, p, m, longer)
    BY <1>1, InsertAtInserts DEF Lists
  <2>4. AddCellToSizeList(h, m) = h1
    BY <1>1, <1>4, <2>1 DEF AddCellToSizeList
  <2>5. h1.size_list = longer /\ h1.size_array = array /\ h1.desc = h.desc
        /\ \A k : SizeIndex(h1, k) = SizeIndex(h, k)
    BY DEF Heaps, SizeIndex
  <2>6. Indexed(longer, key, Fill(array, from, key[m] - 1, m))
    BY <1>1, <2>1, <2>2, <2>3, InsertKeepsHints DEF SizeOK, FreeOf
  <2>7. /\ p \in 1 .. Len(longer) /\ Len(longer) = Len(list) + 1 /\ longer[p] = m
        /\ \A i \in 1 .. p - 1 : longer[i] = list[i]
        /\ \A i \in 1 .. Len(longer) : longer[i] \in MCells
    BY <1>2, <2>3 DEF Inserted, Lists
  <2> DEFINE I == {i \in 1 .. Place(longer, m) - 1 : key[m] >= key[longer[i]]}
             curr == SelectLastInSubSeq(h1.size_list, 1, Place(h1.size_list, m) - 1,
                       LAMBDA k : h1.desc[m].size >= h1.desc[k].size)
  <2>8. Place(longer, m) = p
    BY <2>3, <2>6, <2>7, PlaceFinds DEF Indexed, Ordered
  <2>9. I = {i \in 1 .. Place(h1.size_list, m) - 1 : h1.desc[m].size >= h1.desc[h1.size_list[i]].size}
    <3>1. \A i \in 1 .. p - 1 : i \in 1 .. Len(longer) /\ longer[i] \in MCells
      BY <1>2, <2>7
    <3> HIDE DEF h1, longer, key
    <3> QED
      BY <1>2, <2>5, <2>8, <3>1
  <2>10. curr = p - 1
    <3>1. (IF I # {} THEN Max(I) ELSE 0) = p - 1
      <4>1. longer \in Lists /\ key \in [MCells -> Int] /\ p \in 1 .. Len(longer)
            /\ Ordered(longer, key) /\ longer[p] = m
        BY <1>1, <2>3, <2>6, <2>7 DEF Indexed
      <4> HIDE DEF longer, key
      <4> QED
        BY <4>1, NearestBefore
    <3>2. curr = IF I # {} THEN Max(I) ELSE 0
      <4> HIDE DEF h1, I
      <4> QED
        BY <2>9 DEF SelectLastInSubSeq
    <3> QED
      BY <3>1, <3>2
  <2>11. (IF curr = 0 THEN 0 ELSE SizeIndex(h1, h1.size_list[curr]) + 1) = from
    <3>1. CASE p = 1
      BY <2>10, <3>1 DEF KeyBefore
    <3>2. CASE p # 1
      <4>1. p - 1 \in 1 .. p - 1 /\ p - 1 \in 1 .. Len(list) /\ p - 1 # 0
        BY <1>2, <3>2
      <4>2. longer[p - 1] = list[p - 1] /\ list[p - 1] \in MCells
        BY <1>2, <2>7, <4>1
      <4>3. SizeIndex(h1, list[p - 1]) = key[list[p - 1]] - 1
        BY <1>2, <2>5, <4>2 DEF SizeIndex
      <4>4. h1.size_list[curr] = list[p - 1] /\ curr # 0
        BY <2>5, <2>10, <4>1, <4>2
      <4> HIDE DEF h1, key, list, curr
      <4>5. key[list[p - 1]] \in Int
        BY <1>2, <4>2
      <4> QED
        BY <3>2, <4>3, <4>4, <4>5 DEF KeyBefore
    <3> QED
      BY <3>1, <3>2
  <2>12. AddCellToSizeArray(h1, m) = [h1 EXCEPT !.size_array = Fill(array, from, key[m] - 1, m)]
    <3>1. h1.size_array[SizeIndex(h1, m)] = elem /\ SizeIndex(h1, m) = key[m] - 1
      BY <1>1, <2>5, HeapFacts
    <3> HIDE DEF h1, key, list, array, elem, from
    <3> QED
      BY <1>4, <2>5, <2>11, <3>1 DEF AddCellToSizeArray, curr
  <2>13. [h1 EXCEPT !.size_array = Fill(array, from, key[m] - 1, m)]
           = [h EXCEPT !.size_list = longer, !.size_array = Fill(array, from, key[m] - 1, m)]
    OBVIOUS
  <2> QED
    BY <2>1, <2>2, <2>4, <2>12, <2>13 DEF LinkBySize
<1> QED
  BY <1>3, <1>4

\* dheap_add_free_cell_size keeps the size list sorted and its hints exact.
LEMMA SizeLinked ==
  ASSUME NEW h \in Heaps, NEW m \in MCells, SizeOK(h), m \notin FreeOf(h),
         h.desc[m].size \in 1 .. CellsPerBlock
  PROVE  LET g == LinkBySize(h, m) IN
         /\ g \in Heaps /\ SizeOK(g) /\ FreeOf(g) = FreeOf(h) \cup {m}
         /\ SameByAddr(h, g) /\ SameCells(h, g)
<1> DEFINE list == h.size_list
           key  == SizeKey(h)
<1>1. PICK p \in 1 .. Len(list) + 1 :
         /\ \A i \in 1 .. p - 1 : key[list[i]] <= key[m]
         /\ \A i \in p .. Len(list) : key[m] <= key[list[i]]
         /\ LinkBySize(h, m) = [h EXCEPT !.size_list = InsertAt(list, p, m),
                                        !.size_array = Fill(h.size_array, KeyBefore(list, key, p), key[m] - 1, m)]
  BY LinkBySizeIs
<1> DEFINE longer == InsertAt(list, p, m)
           filled == Fill(h.size_array, KeyBefore(list, key, p), key[m] - 1, m)
<1>2. /\ list \in Lists /\ key \in [MCells -> Int] /\ h.size_array \in [Offs -> Cells]
      /\ key[m] \in 1 .. CellsPerBlock
  BY HeapFacts
<1>3. longer \in Lists /\ Inserted(list, p, m, longer)
  BY <1>2, InsertAtInserts DEF Lists
<1>4. Indexed(longer, key, filled)
  BY <1>1, <1>2, <1>3, InsertKeepsHints DEF SizeOK, FreeOf
<1>5. filled \in [Offs -> Cells] /\ Listed(longer) = Listed(list) \cup {m}
  BY <1>2, <1>3, FillFacts, InsertedFacts DEF Cells
<1>6. LinkBySize(h, m) = [h EXCEPT !.size_list = longer, !.size_array = filled]
  BY <1>1
<1> HIDE DEF longer, filled, list
<1> DEFINE g == [h EXCEPT !.size_list = longer, !.size_array = filled]
<1>7. /\ g \in Heaps /\ g.size_list = longer /\ g.size_array = filled
      /\ SameByAddr(h, g) /\ SameCells(h, g) /\ SizeKey(g) = SizeKey(h)
  BY <1>3, <1>5, NewSizeLists
<1> HIDE DEF g
<1>8. SizeOK(g) /\ FreeOf(g) = FreeOf(h) \cup {m}
  BY <1>4, <1>5, <1>7 DEF SizeOK, FreeOf, list
<1> QED
  BY <1>6, <1>7, <1>8 DEF g

\* What is left of a list without duplicates.
LEMMA UnlinkedFacts ==
  ASSUME NEW list \in Lists, NEW p \in 1 .. Len(list),
         \A i, j \in 1 .. Len(list) : list[i] = list[j] => i = j
  PROVE  /\ Unlink(list, list[p]) = RemoveAt(list, p)
         /\ RemoveAt(list, p) \in Lists
         /\ Inserted(RemoveAt(list, p), p, list[p], list)
         /\ Listed(RemoveAt(list, p)) = Listed(list) \ {list[p]}
<1> DEFINE m == list[p]
           shorter == RemoveAt(list, p)
           k == Len(shorter)
<1>1. shorter \in Lists /\ Inserted(shorter, p, m, list)
  BY RemoveAtRemoves DEF Lists
<1>2. k \in Nat /\ Len(list) = k + 1 /\ p \in 1 .. k + 1 /\ m \in MCells
  BY <1>1 DEF Inserted, Lists
<1>3. Place(list, m) = p
  BY PlaceFinds
<1>4. /\ \A q \in 1 .. k : list[Shift(k, p)[q]] = shorter[q]
      /\ Listed(list) = Listed(shorter) \cup {m}
  <2> HIDE DEF shorter, m
  <2> QED
    BY <1>1, <1>2, InsertedFacts
<1>5. \A q \in 1 .. k : Shift(k, p)[q] \in 1 .. k + 1 /\ Shift(k, p)[q] # p
  <2> HIDE DEF k
  <2> QED
    BY <1>2, ShiftFacts
<1>6. \A q \in 1 .. k : shorter[q] # m
  BY <1>2, <1>4, <1>5
<1> HIDE DEF shorter, m
<1>7. m \notin Listed(shorter)
  BY <1>6 DEF Listed
<1>8. Listed(shorter) = Listed(list) \ {m}
  BY <1>4, <1>7
<1> QED
  BY <1>1, <1>3, <1>8 DEF Unlink, shorter, m

\* Taking a cell out of the size list and its hints.
LEMMA SizeHintsWithout ==
  ASSUME NEW h \in Heaps, NEW m \in FreeOf(h), SizeOK(h)
  PROVE  \E list \in Lists, array \in [Offs -> Cells] :
           /\ Unlink(h.size_list, m) = list
           /\ RmvCellFromSizeArray(h, m) = [h EXCEPT !.size_array = array]
           /\ Indexed(list, SizeKey(h), array)
           /\ Listed(list) = FreeOf(h) \ {m}
<1> DEFINE list == h.size_list
           key  == SizeKey(h)
           array == h.size_array
<1>1. /\ list \in Lists /\ key \in [MCells -> Int] /\ array \in [Offs -> Cells]
      /\ Indexed(list, key, array) /\ Ordered(list, key)
  BY HeapFacts DEF SizeOK, Indexed
<1>2. PICK p \in 1 .. Len(list) : list[p] = m
  BY DEF FreeOf, Listed
<1>3. /\ Len(list) \in Nat /\ \A i \in 1 .. Len(list) : list[i] \in MCells
      /\ \A k \in MCells : key[k] = h.desc[k].size /\ key[k] \in Int /\ k # Null /\ SizeIndex(h, k) = key[k] - 1
  BY HeapFacts, CellsFacts DEF Lists
<1>4. /\ Unlink(list, m) = RemoveAt(list, p) /\ RemoveAt(list, p) \in Lists
      /\ Inserted(RemoveAt(list, p), p, list[p], list)
      /\ Listed(RemoveAt(list, p)) = Listed(list) \ {m}
  BY <1>1, <1>2, UnlinkedFacts DEF Ordered
<1> DEFINE from == KeyBefore(list, key, p)
           next == CellAfter(list, p)
           filled == Fill(array, from, key[m] - 1, next)
<1>5. /\ Indexed(RemoveAt(list, p), key, filled) /\ next \in Cells
      /\ \A k \in Offs : k \in from .. key[m] - 1 => array[k] = m
  BY <1>1, <1>2, <1>4, RemoveKeepsHints
<1>6. filled \in [Offs -> Cells]
  BY <1>1, <1>5, FillFacts
<1>7. Place(list, m) = p
  BY <1>1, <1>2, PlaceFinds DEF Ordered
<1>8. NextIn(list, m) = next
  BY <1>7 DEF NextIn, CellAfter
<1>9. (IF PrevIn(list, m) = Null THEN 0 ELSE SizeIndex(h, PrevIn(list, m)) + 1) = from
  <2>1. CASE p = 1
    BY <1>7, <2>1 DEF PrevIn, KeyBefore
  <2>2. CASE p # 1
    <3>1. p - 1 \in 1 .. Len(list)
      BY <1>3, <2>2
    <3>2. PrevIn(list, m) = list[p - 1] /\ list[p - 1] \in MCells /\ from = key[list[p - 1]]
      BY <1>3, <1>7, <2>2, <3>1 DEF PrevIn, KeyBefore
    <3> HIDE DEF list, key, from
    <3> QED
      BY <1>3, <3>2
  <2> QED
    BY <2>1, <2>2
<1>10. from \in Int /\ from >= 0 /\ key[m] \in 1 .. CellsPerBlock
  <2>1. \A i \in 1 .. Len(list) : key[list[i]] \in 1 .. CellsPerBlock
    BY <1>1 DEF Ordered
  <2>2. p # 1 => p - 1 \in 1 .. Len(list)
    BY <1>3
  <2> QED
    BY <1>2, <2>1, <2>2, CellsFacts DEF KeyBefore
<1>11. RmvCellFromSizeArray(h, m) =
         IF from \in Offs /\ h.size_array[from] = m THEN [h EXCEPT !.size_array = filled] ELSE h
  <2>1. SizeIndex(h, m) = key[m] - 1
    BY <1>2, <1>3
  <2> HIDE DEF from, key, next
  <2> QED
    BY <1>8, <1>9, <2>1 DEF RmvCellFromSizeArray
<1>12. CASE from \in Offs /\ h.size_array[from] = m
  BY <1>4, <1>5, <1>6, <1>11, <1>12 DEF FreeOf
<1>13. CASE ~(from \in Offs /\ h.size_array[from] = m)
  <2>1. from > key[m] - 1
    <3>1. SUFFICES ASSUME from <= key[m] - 1 PROVE FALSE
      BY <1>10
    <3>2. from \in Offs /\ from \in from .. key[m] - 1
      BY <1>10, <3>1, CellsFacts
    <3> QED
      BY <1>5, <1>13, <3>2
  <2>2. filled = array
    BY <1>1, <1>10, <2>1, FillNothing
  <2>3. [h EXCEPT !.size_array = filled] = h
    BY <2>2 DEF Heaps
  <2> QED
    BY <1>4, <1>5, <1>6, <1>11, <1>13, <2>3 DEF FreeOf
<1> QED
  BY <1>12, <1>13

\* Taking a cell off the size list keeps it sorted and the hints exact.
LEMMA SizeUnlinked ==
  ASSUME NEW h \in Heaps, NEW m \in FreeOf(h), SizeOK(h)
  PROVE  LET g == UnlinkBySize(h, m) IN
         /\ g \in Heaps /\ SizeOK(g) /\ FreeOf(g) = FreeOf(h) \ {m}
         /\ SameByAddr(h, g) /\ SameCells(h, g)
<1>1. PICK list \in Lists, array \in [Offs -> Cells] :
           /\ Unlink(h.size_list, m) = list
           /\ RmvCellFromSizeArray(h, m) = [h EXCEPT !.size_array = array]
           /\ Indexed(list, SizeKey(h), array)
           /\ Listed(list) = FreeOf(h) \ {m}
  BY SizeHintsWithout
<1> DEFINE g == [h EXCEPT !.size_list = list, !.size_array = array]
<1>2. UnlinkBySize(h, m) = g
  BY <1>1 DEF UnlinkBySize, RmvFromSizeList, Heaps
<1>3. /\ g \in Heaps /\ g.size_list = list /\ g.size_array = array
      /\ SameByAddr(h, g) /\ SameCells(h, g) /\ SizeKey(g) = SizeKey(h)
  BY NewSizeLists
<1> HIDE DEF g
<1> QED
  BY <1>1, <1>2, <1>3 DEF SizeOK, FreeOf

\* The same for the list of a block.
LEMMA AddrLinked ==
  ASSUME NEW h \in Heaps, NEW m \in MCells, AddrOK(h),
         NEW b \in Blocks, h.desc[m].index = b, h.addr_array[b] # <<>>,
         m \notin Listed(h.addr_list[b]), AddrKey(h, b)[m] \in 1 .. CellsPerBlock
  PROVE  LET g == LinkByAddr(h, m) IN
         /\ g \in Heaps /\ AddrOK(g)
         /\ Listed(g.addr_list[b]) = Listed(h.addr_list[b]) \cup {m}
         /\ \A c \in Blocks : /\ c # b => g.addr_list[c] = h.addr_list[c]
                              /\ g.addr_array[c] = <<>> <=> h.addr_array[c] = <<>>
         /\ SameBySize(h, g) /\ SameCells(h, g)
<1> DEFINE list == h.addr_list[b]
           key  == AddrKey(h, b)
           array == h.addr_array[b]
           elem == array[key[m] - 1]
<1>1. /\ list \in Lists /\ key \in [MCells -> Int] /\ array \in [Offs -> Cells]
      /\ key[m] \in 1 .. CellsPerBlock /\ key[m] - 1 \in Offs
      /\ Indexed(list, key, array) /\ Ordered(list, key) /\ IsFirst(list, key, key[m] - 1, elem)
      /\ AddrIndex(h, m) = key[m] - 1
  <2>1. list \in Lists /\ key \in [MCells -> Int] /\ array \in [Offs -> Cells]
        /\ AddrIndex(h, m) = key[m] - 1
    BY HeapFacts
  <2>2. key[m] \in 1 .. CellsPerBlock /\ key[m] - 1 \in Offs
    BY CellsFacts
  <2> QED
    BY <2>1, <2>2 DEF AddrOK, Indexed
<1>2. /\ \A k \in MCells : key[k] = h.desc[k].addr - h.block_addr[b] + 1 /\ key[k] \in Int /\ h.desc[k].addr \in Nat
      /\ \A i \in 1 .. Len(list) : list[i] \in MCells /\ h.desc[list[i]].index = b
      /\ Len(list) \in Nat /\ h.block_addr[b] \in Nat
  <2>1. /\ \A i \in 1 .. Len(list) : list[i] \in MCells
        /\ Len(list) \in Nat /\ h.block_addr[b] \in Nat
    BY HeapFacts DEF Lists
  <2>2. \A i \in 1 .. Len(list) : h.desc[list[i]].index = b
    BY DEF AddrOK, Listed
  <2> QED
    BY <2>1, <2>2, HeapFacts
<1>3. PICK p \in 1 .. Len(list) + 1 :
         /\ InsertBefore(list, m, elem) = InsertAt(list, p, m)
         /\ \A i \in 1 .. p - 1 : key[list[i]] <= key[m] - 1
         /\ \A i \in p .. Len(list) : key[m] <= key[list[i]]
  <2> HIDE DEF list, key, elem
  <2> QED
    BY <1>1, HintShowsPlace
<1>4. \A i \in 1 .. p - 1 : key[list[i]] <= key[m]
  BY <1>1, <1>2, <1>3
<1> DEFINE longer == InsertAt(list, p, m)
           h1 == [h EXCEPT !.addr_list[b] = longer]
           from == KeyBefore(list, key, p)
           filled == Fill(array, from, key[m] - 1, m)
<1>5. longer \in Lists /\ Inserted(list, p, m, longer)
  BY <1>1, InsertAtInserts DEF Lists
<1>6. AddCellToAddrList(h, m) = h1
  BY <1>1, <1>3 DEF AddCellToAddrList
<1>7. /\ h1.addr_list[b] = longer /\ h1.addr_array[b] = array /\ h1.desc = h.desc
      /\ h1.block_addr = h.block_addr /\ \A k : AddrIndex(h1, k) = AddrIndex(h, k)
  BY DEF Heaps, AddrIndex
<1>8. Indexed(longer, key, filled)
  BY <1>1, <1>3, <1>4, <1>5, InsertKeepsHints
<1>9. /\ p \in 1 .. Len(longer) /\ Len(longer) = Len(list) + 1 /\ longer[p] = m
      /\ \A i \in 1 .. p - 1 : longer[i] = list[i]
      /\ \A i \in 1 .. Len(longer) : longer[i] \in MCells
  BY <1>2, <1>5 DEF Inserted, Lists
<1> DEFINE I == {i \in 1 .. Place(longer, m) - 1 : key[m] >= key[longer[i]]}
           curr == SelectLastInSubSeq(h1.addr_list[b], 1, Place(h1.addr_list[b], m) - 1,
                     LAMBDA k : h1.desc[m].addr >= h1.desc[k].addr)
<1>10. Place(longer, m) = p
  BY <1>5, <1>8, <1>9, PlaceFinds, SMTT(30) DEF Indexed, Ordered
<1>11. I = {i \in 1 .. Place(h1.addr_list[b], m) - 1 : h1.desc[m].addr >= h1.desc[h1.addr_list[b][i]].addr}
  <2>1. \A i \in 1 .. p - 1 : i \in 1 .. Len(longer) /\ longer[i] \in MCells
    BY <1>2, <1>9
  <2> HIDE DEF h1, longer, key
  <2>2. \A k \in MCells : key[m] >= key[k] <=> h.desc[m].addr >= h.desc[k].addr
    BY <1>2, SMTT(30)
  <2> QED
    BY <1>7, <1>10, <2>1, <2>2
<1>12. curr = p - 1
  <2>1. (IF I # {} THEN Max(I) ELSE 0) = p - 1
    <3>1. longer \in Lists /\ key \in [MCells -> Int] /\ p \in 1 .. Len(longer)
          /\ Ordered(longer, key) /\ longer[p] = m
      BY <1>1, <1>5, <1>8, <1>9 DEF Indexed
    <3> HIDE DEF longer, key
    <3> QED
      BY <3>1, NearestBefore
  <2>2. curr = IF I # {} THEN Max(I) ELSE 0
    <3> HIDE DEF h1, I
    <3> QED
      BY <1>11 DEF SelectLastInSubSeq
  <2> QED
    BY <2>1, <2>2
<1>13. (IF curr = 0 THEN 0 ELSE AddrIndex(h1, h1.addr_list[b][curr]) + 1) = from
  <2>1. CASE p = 1
    BY <1>12, <2>1 DEF KeyBefore
  <2>2. CASE p # 1
    <3>1. p - 1 \in 1 .. p - 1 /\ p - 1 \in 1 .. Len(list) /\ p - 1 # 0
      BY <1>2, <2>2
    <3>2. longer[p - 1] = list[p - 1] /\ list[p - 1] \in MCells /\ h.desc[list[p - 1]].index = b
      BY <1>2, <1>9, <3>1
    <3>3. AddrIndex(h1, list[p - 1]) = key[list[p - 1]] - 1
      <4>1. AddrIndex(h, list[p - 1]) = key[list[p - 1]] - 1
        BY <3>2, HeapFacts, SMTT(30)
      <4> HIDE DEF h1
      <4> QED
        BY <1>7, <4>1
    <3>4. h1.addr_list[b][curr] = list[p - 1] /\ curr # 0
      BY <1>7, <1>12, <3>1, <3>2
    <3> HIDE DEF h1, key, list, curr
    <3>5. key[list[p - 1]] \in Int
      BY <1>2, <3>2
    <3> QED
      BY <2>2, <3>3, <3>4, <3>5 DEF KeyBefore
  <2> QED
    BY <2>1, <2>2
<1>14. AddCellToAddrArray(h1, m) = [h1 EXCEPT !.addr_array[b] = filled]
  <2>1. AddrIndex(h1, m) = key[m] - 1 /\ h1.desc[m].index = b
    BY <1>1, <1>7
  <2> HIDE DEF h1, key, list, from
  <2> QED
    BY <1>7, <1>13, <2>1 DEF AddCellToAddrArray, curr
<1>15. LinkByAddr(h, m) = [h EXCEPT !.addr_list[b] = longer, !.addr_array[b] = filled]
  BY <1>6, <1>14 DEF LinkByAddr
<1>16. filled \in [Offs -> Cells] /\ Listed(longer) = Listed(list) \cup {m}
  <2>1. filled \in [Offs -> Cells]
    BY <1>1, FillFacts DEF Cells
  <2> HIDE DEF longer, list, filled
  <2>2. Listed(longer) = Listed(list) \cup {m}
    BY <1>1, <1>5, InsertedFacts
  <2> QED
    BY <2>1, <2>2
<1> HIDE DEF longer, filled, list, array, key
<1> DEFINE g == [h EXCEPT !.addr_list[b] = longer, !.addr_array[b] = filled]
<1>17. /\ g \in Heaps /\ g.addr_list[b] = longer /\ g.addr_array[b] = filled
       /\ \A c \in Blocks \ {b} : g.addr_list[c] = h.addr_list[c] /\ g.addr_array[c] = h.addr_array[c]
       /\ SameBySize(h, g) /\ SameCells(h, g) /\ \A c \in Blocks : AddrKey(g, c) = AddrKey(h, c)
  BY <1>5, <1>16 DEF Heaps, SameBySize, SameCells, AddrKey
<1> HIDE DEF g
<1>18. filled # <<>>
  BY <1>16, CellsFacts
<1>19. AddrOK(g)
  <2>1. ASSUME NEW c \in Blocks, c # b
        PROVE  /\ \A k \in Listed(g.addr_list[c]) : g.desc[k].index = c
               /\ g.addr_array[c] = <<>> => Listed(g.addr_list[c]) = {}
               /\ g.addr_array[c] # <<>> => Indexed(g.addr_list[c], AddrKey(g, c), g.addr_array[c])
    BY <1>17, <2>1 DEF AddrOK, SameCells
  <2>2. \A k \in Listed(g.addr_list[b]) : g.desc[k].index = b
    BY <1>16, <1>17 DEF AddrOK, SameCells, list
  <2>3. Indexed(g.addr_list[b], AddrKey(g, b), g.addr_array[b])
    BY <1>8, <1>17 DEF key
  <2> QED
    BY <1>17, <1>18, <2>1, <2>2, <2>3 DEF AddrOK
<1> QED
  BY <1>15, <1>16, <1>17, <1>18, <1>19 DEF g, list

\* Taking a cell out of the list of its block and its hints.
LEMMA AddrHintsWithout ==
  ASSUME NEW h \in Heaps, NEW b \in Blocks, NEW m \in Listed(h.addr_list[b]), AddrOK(h)
  PROVE  \E list \in Lists, array \in [Offs -> Cells] :
           /\ Unlink(h.addr_list[b], m) = list
           /\ RmvCellFromAddrArray(h, m) = [h EXCEPT !.addr_array[b] = array]
           /\ Indexed(list, AddrKey(h, b), array)
           /\ Listed(list) = Listed(h.addr_list[b]) \ {m}
           /\ h.addr_array[b] # <<>>
<1> DEFINE list == h.addr_list[b]
           key  == AddrKey(h, b)
           array == h.addr_array[b]
<1>1. /\ list \in Lists /\ key \in [MCells -> Int] /\ array \in [Offs -> Cells] /\ array # <<>>
      /\ Indexed(list, key, array) /\ Ordered(list, key) /\ h.desc[m].index = b
  BY HeapFacts DEF AddrOK, Indexed
<1>2. PICK p \in 1 .. Len(list) : list[p] = m
  BY DEF Listed
<1>3. /\ Len(list) \in Nat /\ \A i \in 1 .. Len(list) : list[i] \in MCells /\ h.desc[list[i]].index = b
      /\ \A k \in MCells : key[k] \in Int /\ k # Null /\ (h.desc[k].index = b => AddrIndex(h, k) = key[k] - 1)
  <2>1. Len(list) \in Nat /\ \A i \in 1 .. Len(list) : list[i] \in MCells
    BY HeapFacts DEF Lists
  <2>2. \A i \in 1 .. Len(list) : h.desc[list[i]].index = b
    BY DEF AddrOK, Listed
  <2>3. \A k \in MCells : key[k] \in Int /\ k # Null
    BY <1>1, CellsFacts
  <2>4. \A k \in MCells : h.desc[k].index = b => AddrIndex(h, k) = key[k] - 1
    BY HeapFacts
  <2> QED
    BY <2>1, <2>2, <2>3, <2>4
<1>4. /\ Unlink(list, m) = RemoveAt(list, p) /\ RemoveAt(list, p) \in Lists
      /\ Inserted(RemoveAt(list, p), p, list[p], list)
      /\ Listed(RemoveAt(list, p)) = Listed(list) \ {m}
  BY <1>1, <1>2, UnlinkedFacts DEF Ordered
<1> DEFINE from == KeyBefore(list, key, p)
           next == CellAfter(list, p)
           filled == Fill(array, from, key[m] - 1, next)
<1>5. Indexed(RemoveAt(list, p), key, filled) /\ next \in Cells
  BY <1>1, <1>2, <1>4, RemoveKeepsHints
<1>6. filled \in [Offs -> Cells]
  BY <1>1, <1>5, FillFacts
<1>7. Place(list, m) = p
  BY <1>1, <1>2, PlaceFinds DEF Ordered
<1>8. NextIn(list, m) = next
  BY <1>7 DEF NextIn, CellAfter
<1>9. (IF PrevIn(list, m) = Null THEN 0 ELSE AddrIndex(h, PrevIn(list, m)) + 1) = from
  <2>1. CASE p = 1
    BY <1>7, <2>1 DEF PrevIn, KeyBefore
  <2>2. CASE p # 1
    <3>1. p - 1 \in 1 .. Len(list)
      BY <1>3, <2>2
    <3>2. PrevIn(list, m) = list[p - 1] /\ list[p - 1] \in MCells /\ from = key[list[p - 1]]
          /\ h.desc[list[p - 1]].index = b
      BY <1>3, <1>7, <2>2, <3>1 DEF PrevIn, KeyBefore
    <3> HIDE DEF list, key, from
    <3> QED
      BY <1>3, <3>2
  <2> QED
    BY <2>1, <2>2
<1>10. RmvCellFromAddrArray(h, m) = [h EXCEPT !.addr_array[b] = filled]
  <2>1. AddrIndex(h, m) = key[m] - 1
    BY <1>1, <1>2, <1>3
  <2> HIDE DEF from, key, next
  <2> QED
    BY <1>1, <1>8, <1>9, <2>1 DEF RmvCellFromAddrArray
<1> QED
  BY <1>1, <1>4, <1>5, <1>6, <1>10

-----------------------------------------------------------------------------
(* All lists together. *)

FreeOK(h) ==
  /\ SizeOK(h) /\ AddrOK(h)
  /\ \A b \in Blocks : Listed(h.addr_list[b]) = {m \in FreeOf(h) : h.desc[m].index = b}

\* The same while the cells S are being split: they are off the size list, but
\* keep their places in the address lists.
PartFree(h, S) ==
  /\ SizeOK(h) /\ AddrOK(h)
  /\ \A b \in Blocks : Listed(h.addr_list[b]) = {m \in FreeOf(h) \cup S : h.desc[m].index = b}
  /\ FreeOf(h) \cap S = {}

\* Most of the time no cell is being split.
LEMMA FreeIsPart ==
  ASSUME NEW h
  PROVE  FreeOK(h) <=> PartFree(h, {})
<1>1. FreeOf(h) \cup {} = FreeOf(h) /\ FreeOf(h) \cap {} = {}
  OBVIOUS
<1> QED
  BY <1>1 DEF FreeOK, PartFree

\* The blocks that have an array keep one.
SameArrays(h, g) == \A b \in Blocks : g.addr_array[b] = <<>> <=> h.addr_array[b] = <<>>

\* The cells of a list are mcells.
LEMMA ListedFacts ==
  ASSUME NEW list \in Lists
  PROVE  /\ Listed(list) \subseteq MCells
         /\ \A i \in 1 .. Len(list) : list[i] \in Listed(list) /\ list[i] \in MCells
         /\ Len(list) \in Nat
  BY DEF Lists, Listed

\* A list knows nothing of keys but those of its cells.
LEMMA SameKeys ==
  ASSUME NEW list \in Lists, NEW key, NEW other, NEW array, Indexed(list, key, array),
         \A m \in Listed(list) : other[m] = key[m]
  PROVE  Indexed(list, other, array)
<1>1. \A i \in 1 .. Len(list) : other[list[i]] = key[list[i]]
  BY ListedFacts
<1>2. Len(list) \in Nat /\ \A i \in 1 .. Len(list) : \A j \in 1 .. i - 1 : j \in 1 .. Len(list)
  BY ListedFacts
<1>3. Ordered(list, other)
  BY <1>1 DEF Indexed, Ordered
<1>4. ASSUME NEW n \in Offs PROVE IsFirst(list, other, n, array[n])
  <2>1. IsFirst(list, key, n, array[n])
    BY DEF Indexed
  <2> QED
    BY <1>1, <1>2, <2>1 DEF IsFirst
<1> QED
  BY <1>3, <1>4 DEF Indexed

\* The size list depends on the sizes of free cells only.
LEMMA SizeOKKept ==
  ASSUME NEW h \in Heaps, NEW g \in Heaps, SizeOK(h), SameBySize(h, g),
         \A m \in FreeOf(h) : g.desc[m].size = h.desc[m].size
  PROVE  SizeOK(g) /\ FreeOf(g) = FreeOf(h)
<1>1. \A m \in FreeOf(h) : m \in MCells /\ SizeKey(g)[m] = SizeKey(h)[m]
  BY HeapFacts, ListedFacts DEF FreeOf
<1>2. Indexed(h.size_list, SizeKey(g), h.size_array)
  BY <1>1, HeapFacts, SameKeys DEF FreeOf, SizeOK
<1> QED
  BY <1>2 DEF SizeOK, SameBySize, FreeOf

\* The address lists depend on the places of free cells only.
LEMMA AddrOKKept ==
  ASSUME NEW h \in Heaps, NEW g \in Heaps, AddrOK(h), SameByAddr(h, g),
         \A b \in Blocks : Listed(h.addr_list[b]) # {} => g.block_addr[b] = h.block_addr[b],
         \A b \in Blocks : \A m \in Listed(h.addr_list[b]) :
           g.desc[m].addr = h.desc[m].addr /\ g.desc[m].index = h.desc[m].index
  PROVE  AddrOK(g)
<1> SUFFICES ASSUME NEW b \in Blocks
             PROVE  /\ \A m \in Listed(g.addr_list[b]) : g.desc[m].index = b
                    /\ g.addr_array[b] = <<>> => Listed(g.addr_list[b]) = {}
                    /\ g.addr_array[b] # <<>> => Indexed(g.addr_list[b], AddrKey(g, b), g.addr_array[b])
  BY DEF AddrOK
<1>1. g.addr_list[b] = h.addr_list[b] /\ g.addr_array[b] = h.addr_array[b] /\ h.addr_list[b] \in Lists
  BY HeapFacts DEF SameByAddr
<1>2. \A m \in Listed(h.addr_list[b]) : AddrKey(g, b)[m] = AddrKey(h, b)[m]
  <2>1. ASSUME NEW m \in Listed(h.addr_list[b]) PROVE AddrKey(g, b)[m] = AddrKey(h, b)[m]
    <3>1. m \in MCells
      BY <1>1, ListedFacts
    <3>2. g.block_addr[b] = h.block_addr[b] /\ g.desc[m].addr = h.desc[m].addr
      OBVIOUS
    <3> QED
      BY <3>1, <3>2, HeapFacts
  <2> QED
    BY <2>1
<1>3. h.addr_array[b] # <<>> => Indexed(h.addr_list[b], AddrKey(g, b), h.addr_array[b])
  BY <1>1, <1>2, SameKeys DEF AddrOK
<1> QED
  BY <1>1, <1>3 DEF AddrOK

\* Linking a cell makes it free and changes nothing else.
LEMMA PartLinked ==
  ASSUME NEW h \in Heaps, NEW m \in MCells, NEW S, PartFree(h, S), m \notin FreeOf(h) \cup S,
         h.desc[m].size \in 1 .. CellsPerBlock,
         NEW b \in Blocks, h.desc[m].index = b, h.addr_array[b] # <<>>,
         h.desc[m].addr - h.block_addr[b] \in Offs
  PROVE  LET g == LinkFreeCell(h, m) IN
         /\ g \in Heaps /\ PartFree(g, S) /\ FreeOf(g) = FreeOf(h) \cup {m}
         /\ SameCells(h, g) /\ SameArrays(h, g)
<1> DEFINE h1 == LinkByAddr(h, m)
           g  == LinkBySize(h1, m)
<1>1. AddrKey(h, b)[m] \in 1 .. CellsPerBlock
  BY HeapFacts, CellsFacts
<1>2. m \notin Listed(h.addr_list[b])
  BY DEF PartFree
<1>3. /\ h1 \in Heaps /\ AddrOK(h1)
      /\ Listed(h1.addr_list[b]) = Listed(h.addr_list[b]) \cup {m}
      /\ \A c \in Blocks : /\ c # b => h1.addr_list[c] = h.addr_list[c]
                           /\ h1.addr_array[c] = <<>> <=> h.addr_array[c] = <<>>
      /\ SameBySize(h, h1) /\ SameCells(h, h1)
  <2>1. AddrOK(h)
    BY DEF PartFree
  <2> QED
    BY <1>1, <1>2, <2>1, AddrLinked, ZenonT(60)
<1> HIDE DEF h1
<1>4. SizeOK(h1) /\ FreeOf(h1) = FreeOf(h) /\ h1.desc = h.desc
  BY <1>3, SizeOKKept DEF PartFree, SameCells
<1>5. /\ g \in Heaps /\ SizeOK(g) /\ FreeOf(g) = FreeOf(h1) \cup {m}
      /\ SameByAddr(h1, g) /\ SameCells(h1, g)
  BY <1>3, <1>4, SizeLinked
<1>6. LinkFreeCell(h, m) = g
  BY DEF LinkFreeCell, LinkBySize, LinkByAddr, h1
<1> HIDE DEF g
<1>7. g.desc = h.desc /\ g.block_addr = h.block_addr /\ g.addr_list = h1.addr_list /\ g.addr_array = h1.addr_array
  BY <1>3, <1>5 DEF SameCells, SameByAddr
<1>8. AddrOK(g)
  BY <1>3, <1>5, <1>7, AddrOKKept DEF SameCells
<1>9. ASSUME NEW c \in Blocks PROVE Listed(g.addr_list[c]) = {k \in FreeOf(g) \cup S : g.desc[k].index = c}
  <2>1. Listed(h.addr_list[c]) = {k \in FreeOf(h) \cup S : h.desc[k].index = c}
    BY DEF PartFree
  <2>2. FreeOf(g) = FreeOf(h) \cup {m}
    BY <1>4, <1>5
  <2>3. CASE c = b
    <3>1. Listed(g.addr_list[c]) = Listed(h.addr_list[c]) \cup {m}
      BY <1>3, <1>7, <2>3
    <3> QED
      BY <1>7, <2>1, <2>2, <2>3, <3>1
  <2>4. CASE c # b
    <3>1. Listed(g.addr_list[c]) = Listed(h.addr_list[c])
      BY <1>3, <1>7, <2>4
    <3> QED
      BY <1>7, <2>1, <2>2, <2>4, <3>1
  <2> QED
    BY <2>3, <2>4
<1>10. PartFree(g, S)
  BY <1>4, <1>5, <1>8, <1>9 DEF PartFree
<1>11. SameCells(h, g) /\ SameArrays(h, g)
  BY <1>3, <1>7 DEF SameCells, SameArrays
<1> QED
  BY <1>4, <1>5, <1>6, <1>10, <1>11

\* The same when no cell is being split.
THEOREM FreeCellLinked ==
  ASSUME NEW h \in Heaps, NEW m \in MCells, FreeOK(h), m \notin FreeOf(h),
         h.desc[m].size \in 1 .. CellsPerBlock,
         NEW b \in Blocks, h.desc[m].index = b, h.addr_array[b] # <<>>,
         h.desc[m].addr - h.block_addr[b] \in Offs
  PROVE  LET g == LinkFreeCell(h, m) IN
         /\ g \in Heaps /\ FreeOK(g) /\ FreeOf(g) = FreeOf(h) \cup {m}
         /\ SameCells(h, g) /\ SameArrays(h, g)
<1>1. PartFree(h, {}) /\ m \notin FreeOf(h) \cup {}
  BY FreeIsPart
<1> QED
  BY <1>1, FreeIsPart, PartLinked

\* Taking a cell out makes it not free, and changes nothing else.
LEMMA PartRemoved ==
  ASSUME NEW h \in Heaps, NEW m \in FreeOf(h), NEW S, PartFree(h, S)
  PROVE  LET g == RmvFreeCell(h, m) IN
         /\ g \in Heaps /\ PartFree(g, S) /\ FreeOf(g) = FreeOf(h) \ {m}
         /\ SameCells(h, g) /\ SameArrays(h, g)
<1> DEFINE b == h.desc[m].index
<1>1. m \in MCells /\ b \in Blocks /\ m \in Listed(h.addr_list[b])
  BY HeapFacts, ListedFacts DEF FreeOf, PartFree
<1>2. PICK slist \in Lists, sarray \in [Offs -> Cells] :
        /\ Unlink(h.size_list, m) = slist
        /\ RmvCellFromSizeArray(h, m) = [h EXCEPT !.size_array = sarray]
        /\ Indexed(slist, SizeKey(h), sarray)
        /\ Listed(slist) = FreeOf(h) \ {m}
  BY SizeHintsWithout DEF PartFree
<1> DEFINE h1 == [h EXCEPT !.size_array = sarray]
<1>3. h1 \in Heaps /\ SameByAddr(h, h1) /\ SameCells(h, h1) /\ h1.size_array = sarray /\ h1.size_list = h.size_list
  BY DEF Heaps, SameByAddr, SameCells
<1> HIDE DEF h1
<1>4. AddrOK(h1) /\ h1.desc = h.desc /\ h1.addr_list = h.addr_list /\ h1.addr_array = h.addr_array
      /\ h1.block_addr = h.block_addr
  BY <1>3, AddrOKKept DEF PartFree, SameCells, SameByAddr
<1>5. PICK alist \in Lists, aarray \in [Offs -> Cells] :
        /\ Unlink(h1.addr_list[b], m) = alist
        /\ RmvCellFromAddrArray(h1, m) = [h1 EXCEPT !.addr_array[b] = aarray]
        /\ Indexed(alist, AddrKey(h1, b), aarray)
        /\ Listed(alist) = Listed(h1.addr_list[b]) \ {m}
        /\ h1.addr_array[b] # <<>>
  <2>1. m \in Listed(h1.addr_list[b])
    BY <1>1, <1>4
  <2> HIDE DEF b
  <2> QED
    BY <1>1, <1>3, <1>4, <2>1, AddrHintsWithout
<1> DEFINE g == [h1 EXCEPT !.addr_array[b] = aarray, !.size_list = slist, !.addr_list[b] = alist]
<1>6. RmvFreeCell(h, m) = g
  <2>1. RmvCellFromSizeArray(h, m) = h1
    BY <1>2 DEF h1
  <2> DEFINE h2 == [h1 EXCEPT !.addr_array[b] = aarray]
  <2>2. h2.size_list = h.size_list /\ h2.addr_list = h1.addr_list /\ h2.desc = h.desc
    BY <1>3, <1>4 DEF Heaps
  <2>3. RmvFromSizeList(h2, m) = [h2 EXCEPT !.size_list = slist]
    BY <1>2, <2>2 DEF RmvFromSizeList
  <2> DEFINE h3 == [h2 EXCEPT !.size_list = slist]
  <2>4. h3.addr_list = h1.addr_list /\ h3.desc = h.desc
    BY <1>3, <1>4 DEF Heaps
  <2>5. RmvFromAddrList(h3, m) = [h3 EXCEPT !.addr_list[b] = alist]
    <3> HIDE DEF h3
    <3> QED
      BY <1>5, <2>4 DEF RmvFromAddrList
  <2>6. [h3 EXCEPT !.addr_list[b] = alist] = g
    BY <1>3 DEF Heaps
  <2> QED
    BY <1>5, <2>1, <2>3, <2>5, <2>6 DEF RmvFreeCell
<1>7. /\ g \in Heaps /\ g.size_list = slist /\ g.size_array = sarray
      /\ g.addr_list[b] = alist /\ g.addr_array[b] = aarray
      /\ \A c \in Blocks \ {b} : g.addr_list[c] = h.addr_list[c] /\ g.addr_array[c] = h.addr_array[c]
      /\ g.desc = h.desc /\ g.block_addr = h.block_addr
  BY <1>1, <1>3, <1>4 DEF Heaps
<1> HIDE DEF g, b
<1>8. SizeKey(g) = SizeKey(h) /\ \A c \in Blocks : AddrKey(g, c) = AddrKey(h, c) /\ AddrKey(h1, c) = AddrKey(h, c)
  BY <1>4, <1>7 DEF SizeKey, AddrKey
<1>9. SizeOK(g) /\ FreeOf(g) = FreeOf(h) \ {m} /\ m \notin S /\ FreeOf(g) \cap S = {}
  <2>1. SizeOK(g) /\ FreeOf(g) = FreeOf(h) \ {m}
    BY <1>2, <1>7, <1>8 DEF SizeOK, FreeOf
  <2> QED
    BY <2>1 DEF PartFree
<1>10. aarray # <<>> /\ h.addr_array[b] # <<>>
  BY <1>4, <1>5, CellsFacts
<1>11. ASSUME NEW c \in Blocks
       PROVE  /\ \A k \in Listed(g.addr_list[c]) : g.desc[k].index = c
              /\ g.addr_array[c] = <<>> => Listed(g.addr_list[c]) = {}
              /\ g.addr_array[c] # <<>> => Indexed(g.addr_list[c], AddrKey(g, c), g.addr_array[c])
              /\ Listed(g.addr_list[c]) = {k \in FreeOf(g) \cup S : g.desc[k].index = c}
              /\ g.addr_array[c] = <<>> <=> h.addr_array[c] = <<>>
  <2>1. Listed(h.addr_list[c]) = {k \in FreeOf(h) \cup S : h.desc[k].index = c}
    BY DEF PartFree
  <2>2. CASE c = b
    <3>1. Listed(g.addr_list[c]) = Listed(h.addr_list[c]) \ {m}
      BY <1>4, <1>5, <1>7, <2>2
    <3>2. Indexed(g.addr_list[c], AddrKey(g, c), g.addr_array[c])
      BY <1>1, <1>5, <1>7, <1>8, <2>2
    <3> QED
      BY <1>7, <1>9, <1>10, <2>1, <2>2, <3>1, <3>2
  <2>3. CASE c # b
    <3>1. g.addr_list[c] = h.addr_list[c] /\ g.addr_array[c] = h.addr_array[c] /\ h.desc[m].index # c
      BY <1>7, <2>3 DEF b
    <3>2. /\ g.addr_array[c] = <<>> => Listed(g.addr_list[c]) = {}
          /\ g.addr_array[c] # <<>> => Indexed(g.addr_list[c], AddrKey(g, c), g.addr_array[c])
      BY <1>8, <3>1 DEF PartFree, AddrOK
    <3> QED
      BY <1>7, <1>9, <2>1, <3>1, <3>2
  <2> QED
    BY <2>2, <2>3
<1> QED
  BY <1>6, <1>7, <1>9, <1>11 DEF PartFree, AddrOK, SameCells, SameArrays

\* The same when no cell is being split.
THEOREM FreeCellRemoved ==
  ASSUME NEW h \in Heaps, NEW m \in FreeOf(h), FreeOK(h)
  PROVE  LET g == RmvFreeCell(h, m) IN
         /\ g \in Heaps /\ FreeOK(g) /\ FreeOf(g) = FreeOf(h) \ {m}
         /\ SameCells(h, g) /\ SameArrays(h, g)
  BY FreeIsPart, PartRemoved

\* What changes cells that are not free changes nothing for those that are.
LEMMA PartFreeKept ==
  ASSUME NEW h \in Heaps, NEW g \in Heaps, NEW S, PartFree(h, S), SameBySize(h, g), SameByAddr(h, g),
         \A b \in Blocks : h.addr_array[b] # <<>> => g.block_addr[b] = h.block_addr[b],
         \A m \in FreeOf(h) \cup S : g.desc[m] = h.desc[m]
  PROVE  PartFree(g, S) /\ FreeOf(g) = FreeOf(h)
<1>1. \A b \in Blocks : Listed(h.addr_list[b]) = {m \in FreeOf(h) \cup S : h.desc[m].index = b}
  BY DEF PartFree
<1>2. \A b \in Blocks : Listed(h.addr_list[b]) # {} => h.addr_array[b] # <<>>
  BY DEF PartFree, AddrOK
<1>3. SizeOK(g) /\ FreeOf(g) = FreeOf(h)
  BY SizeOKKept DEF PartFree
<1>4. \A b \in Blocks : Listed(h.addr_list[b]) # {} => g.block_addr[b] = h.block_addr[b]
  BY <1>2
<1>5. \A b \in Blocks : \A m \in Listed(h.addr_list[b]) :
         g.desc[m].addr = h.desc[m].addr /\ g.desc[m].index = h.desc[m].index
  BY <1>1
<1>6. AddrOK(g)
  BY <1>4, <1>5, AddrOKKept DEF PartFree
<1>7. ASSUME NEW b \in Blocks PROVE Listed(g.addr_list[b]) = {m \in FreeOf(g) \cup S : g.desc[m].index = b}
  BY <1>1, <1>3 DEF SameByAddr
<1> QED
  BY <1>3, <1>6, <1>7 DEF PartFree

\* The same when no cell is being split.
LEMMA FreeOKKept ==
  ASSUME NEW h \in Heaps, NEW g \in Heaps, FreeOK(h), SameBySize(h, g), SameByAddr(h, g),
         \A b \in Blocks : h.addr_array[b] # <<>> => g.block_addr[b] = h.block_addr[b],
         \A m \in FreeOf(h) : g.desc[m] = h.desc[m]
  PROVE  FreeOK(g) /\ FreeOf(g) = FreeOf(h)
<1>1. PartFree(h, {}) /\ FreeOf(h) \cup {} = FreeOf(h)
  BY FreeIsPart
<1> QED
  BY <1>1, FreeIsPart, PartFreeKept

-----------------------------------------------------------------------------
(* The cells and the blocks they tile. *)

\* Where blocks may lie: side by side.
Places == {CellsPerBlock * k : k \in 1 .. BlockCount}

BlocksOK(h) ==
  /\ \A b \in Blocks : h.block_addr[b] \in Places \cup {0}
  /\ \A b \in Blocks : h.addr_array[b] # <<>> => h.block_addr[b] # 0
  /\ \A b, c \in Blocks : h.block_addr[b] # 0 /\ h.block_addr[b] = h.block_addr[c] => b = c

\* A cell lies in its block, which has its arrays.
InBlock(h, m) ==
  LET d == h.desc[m] IN
  /\ h.addr_array[d.index] # <<>>
  /\ d.size > 0 /\ h.block_addr[d.index] <= d.addr
  /\ d.addr + d.size <= h.block_addr[d.index] + CellsPerBlock

Apart(d, e) == d.addr + d.size <= e.addr \/ e.addr + e.size <= d.addr

Has(d, u) == d.addr <= u /\ u < d.addr + d.size

TilesOK(h) ==
  /\ \A m \in Allocated(h) : InBlock(h, m)
  /\ \A m, k \in Allocated(h) :
       m # k /\ h.desc[m].index = h.desc[k].index => Apart(h.desc[m], h.desc[k])
  /\ \A m \in Allocated(h) : \A i \in Offs : \E k \in Allocated(h) :
       h.desc[k].index = h.desc[m].index /\ Has(h.desc[k], h.block_addr[h.desc[m].index] + i)

HeapOK(h) ==
  /\ h \in Heaps /\ FreeOK(h) /\ BlocksOK(h) /\ TilesOK(h)
  /\ FreeOf(h) \subseteq Allocated(h)

\* The same while the cells S are being split.
PartOK(h, S) ==
  /\ h \in Heaps /\ PartFree(h, S) /\ BlocksOK(h) /\ TilesOK(h)
  /\ FreeOf(h) \cup S \subseteq Allocated(h)

\* Most of the time no cell is being split.
LEMMA HeapIsPart ==
  ASSUME NEW h
  PROVE  HeapOK(h) <=> PartOK(h, {})
<1>1. FreeOf(h) \cup {} = FreeOf(h)
  OBVIOUS
<1> QED
  BY <1>1, FreeIsPart DEF HeapOK, PartOK

\* An mcell is allocated if its cell has a size.
LEMMA AllocatedFacts ==
  ASSUME NEW h \in Heaps
  PROVE  /\ Allocated(h) \subseteq MCells
         /\ \A m \in MCells : h.desc[m].size > 0 => m \in Allocated(h)
         /\ \A m \in MCells : h.desc[m] = NoDesc => m \notin Allocated(h)
  BY DEF Allocated, NoDesc

\* Blocks do not overlap.
LEMMA PlacesApart ==
  /\ \A x, y \in Places : x < y => x + CellsPerBlock <= y
  /\ \A x \in Places : x \in Nat \ {0} /\ \A i \in Offs : x + i \in MCells
<1>1. ASSUME NEW k \in Nat, NEW l \in Nat, NEW c \in Nat, c * k < c * l PROVE c * k + c <= c * l
  <2>1. k + 1 <= l
    <3>1. SUFFICES ASSUME l <= k PROVE FALSE
      OBVIOUS
    <3>2. c * l <= c * k
      BY <3>1
    <3>3. c * k \in Nat /\ c * l \in Nat
      OBVIOUS
    <3> QED
      BY <1>1, <3>2, <3>3
  <2>2. c * (k + 1) <= c * l
    BY <2>1
  <2>3. c * (k + 1) = c * k + c
    OBVIOUS
  <2> QED
    BY <2>2, <2>3
<1>2. \A x, y \in Places : x < y => x + CellsPerBlock <= y
  BY <1>1, CellsFacts DEF Places
<1>3. ASSUME NEW k \in 1 .. BlockCount
      PROVE  /\ CellsPerBlock * k \in Nat \ {0}
             /\ \A i \in Offs : CellsPerBlock * k + i \in MCells
  <2>1. CellsPerBlock \in Nat \ {0} /\ BlockCount \in Nat \ {0} /\ Offs = 0 .. CellsPerBlock - 1
    BY CellsFacts
  <2> DEFINE x == CellsPerBlock * k
             top == CellsPerBlock * (BlockCount + 1)
  <2>2. x \in Nat /\ top \in Nat /\ CellsPerBlock <= x
    BY <2>1
  <2>3. x + CellsPerBlock <= top
    <3>1. x + CellsPerBlock = CellsPerBlock * (k + 1)
      BY <2>1
    <3>2. k + 1 <= BlockCount + 1
      BY <2>1
    <3>3. CellsPerBlock * (k + 1) <= CellsPerBlock * (BlockCount + 1)
      BY <2>1, <3>2
    <3> QED
      BY <3>1, <3>3
  <2>4. MCells = CellsPerBlock .. top - 1
    BY DEF MCells
  <2> HIDE DEF x, top
  <2>5. \A i \in Offs : x + i \in MCells
    BY <2>1, <2>2, <2>3, <2>4
  <2> QED
    BY <2>1, <2>2, <2>5 DEF x
<1> QED
  BY <1>2, <1>3 DEF Places

-----------------------------------------------------------------------------
(* What the operations do to the tiles. *)

\* Where the cell of an allocated mcell is.
LEMMA HeldFacts ==
  ASSUME NEW h \in Heaps, TilesOK(h), BlocksOK(h), NEW m \in Allocated(h)
  PROVE  LET d == h.desc[m]
             a == h.block_addr[d.index] IN
         /\ m \in MCells /\ d.index \in Blocks /\ h.addr_array[d.index] # <<>>
         /\ a \in Places /\ a \in Nat
         /\ d.addr \in Nat /\ d.size \in 1 .. CellsPerBlock /\ d.addr - a \in Offs
         /\ a <= d.addr /\ d.addr + d.size <= a + CellsPerBlock
<1> DEFINE d == h.desc[m]
           a == h.block_addr[d.index]
<1>1. m \in MCells /\ InBlock(h, m)
  BY AllocatedFacts DEF TilesOK
<1>2. d.addr \in Nat /\ d.size \in Nat /\ d.index \in Blocks /\ a \in Nat
  BY <1>1, HeapFacts
<1>3. h.addr_array[d.index] # <<>> /\ d.size > 0 /\ a <= d.addr /\ d.addr + d.size <= a + CellsPerBlock
  BY <1>1 DEF InBlock
<1>4. a \in Places
  BY <1>2, <1>3 DEF BlocksOK
<1> DEFINE n == d.size
           s == d.addr
<1>5. n \in 1 .. CellsPerBlock /\ s - a \in Offs
  <2>1. n \in Nat /\ s \in Nat /\ a \in Nat /\ n > 0 /\ a <= s /\ s + n <= a + CellsPerBlock
    BY <1>2, <1>3
  <2> HIDE DEF a, d, n, s
  <2> QED
    BY <2>1, CellsFacts
<1> QED
  BY <1>1, <1>2, <1>3, <1>4, <1>5

\* Two tiles are apart if no unit is in both.
LEMMA ApartIsDisjoint ==
  ASSUME NEW d, NEW e, d.addr \in Nat, d.size \in Nat \ {0}, e.addr \in Nat, e.size \in Nat \ {0}
  PROVE  Apart(d, e) <=> \A u \in Nat : ~(Has(d, u) /\ Has(e, u))
<1>1. CASE d.addr <= e.addr
  BY <1>1 DEF Apart, Has
<1>2. CASE e.addr <= d.addr
  BY <1>2 DEF Apart, Has
<1> QED
  BY <1>1, <1>2

\* No two cells start at the same unit.
LEMMA StartsDiffer ==
  ASSUME NEW h \in Heaps, TilesOK(h), BlocksOK(h), NEW m \in Allocated(h), NEW k \in Allocated(h),
         h.desc[k].addr \in h.desc[m].addr .. EndOf(h.desc[m]) - 1
  PROVE  k = m
<1> DEFINE d == h.desc[m]
           e == h.desc[k]
           a == h.block_addr[d.index]
           b == h.block_addr[e.index]
<1>1. /\ d.index \in Blocks /\ a \in Places /\ a \in Nat /\ d.addr \in Nat /\ d.size \in 1 .. CellsPerBlock
      /\ a <= d.addr /\ d.addr + d.size <= a + CellsPerBlock
  BY HeldFacts
<1>2. /\ e.index \in Blocks /\ b \in Places /\ b \in Nat /\ e.addr \in Nat /\ e.size \in 1 .. CellsPerBlock
      /\ b <= e.addr /\ e.addr + e.size <= b + CellsPerBlock
  BY HeldFacts
<1>3. CellsPerBlock \in Nat /\ d.addr <= e.addr /\ e.addr < d.addr + d.size
  <2>1. e.addr \in d.addr .. (d.addr + d.size) - 1
    BY DEF EndOf
  <2> HIDE DEF d, e
  <2> QED
    BY <1>1, <1>2, <2>1, CellsFacts
<1>4. CASE d.index = e.index
  BY <1>1, <1>2, <1>3, <1>4 DEF TilesOK, Apart
<1>5. CASE d.index # e.index
  <2>1. a # b
    BY <1>1, <1>2, <1>5, PlacesApart DEF BlocksOK
  <2>2. a + CellsPerBlock <= b \/ b + CellsPerBlock <= a
    BY <1>1, <1>2, <2>1, PlacesApart
  <2> HIDE DEF a, b, d, e
  <2> QED
    BY <1>1, <1>2, <1>3, <2>2
<1> QED
  BY <1>4, <1>5

\* Where no cell starts, hr_malloc finds an mcell for a new one.
LEMMA NewCellIsNew ==
  ASSUME NEW h \in Heaps, TilesOK(h), BlocksOK(h), NEW a \in MCells,
         \A m \in Allocated(h) : h.desc[m].addr # a
  PROVE  NewCell(h, a) \in MCells \ Allocated(h)
<1> DEFINE free == MCells \ Allocated(h)
           lo   == CellsPerBlock
           hi   == CellsPerBlock * (BlockCount + 1) - 1
<1>1. lo \in Nat /\ hi \in Int /\ MCells = lo .. hi
  BY CellsFacts DEF MCells
<1>2. IsFiniteSet(MCells)
  BY <1>1, FS_Interval
<1>3. Allocated(h) \subseteq MCells
  BY AllocatedFacts
<1>4. free # {}
  <2>1. SUFFICES ASSUME Allocated(h) = MCells PROVE FALSE
    BY <1>3
  <2> DEFINE f == [m \in MCells |-> h.desc[m].addr]
  <2>2. ASSUME NEW m \in MCells PROVE f[m] \in MCells \ {a}
    <3>1. h.block_addr[h.desc[m].index] \in Places /\ h.desc[m].addr \in Nat
          /\ h.desc[m].addr - h.block_addr[h.desc[m].index] \in Offs
      BY <2>1, HeldFacts
    <3>2. h.block_addr[h.desc[m].index] + (h.desc[m].addr - h.block_addr[h.desc[m].index]) \in MCells
      BY <3>1, PlacesApart
    <3>3. h.block_addr[h.desc[m].index] \in Nat
      BY <3>1, PlacesApart
    <3> QED
      BY <2>1, <3>1, <3>2, <3>3
  <2>3. f \in [MCells -> MCells \ {a}]
    BY <2>2
  <2>4. IsFiniteSet(MCells \ {a}) /\ Cardinality(MCells \ {a}) = Cardinality(MCells) - 1
        /\ Cardinality(MCells) \in Nat
    BY <1>2, FS_RemoveElement, FS_CardinalityType
  <2>5. Cardinality(MCells \ {a}) < Cardinality(MCells)
    BY <2>4
  <2> HIDE DEF f
  <2>6. PICK x \in MCells, y \in MCells : x # y /\ f[x] = f[y]
    BY <1>2, <2>3, <2>4, <2>5, FS_PigeonHole
  <2>7. h.desc[x].addr = h.desc[y].addr
    BY <2>6 DEF f
  <2>8. h.desc[x].addr \in Nat /\ h.desc[x].size \in 1 .. CellsPerBlock
    BY <2>1, HeldFacts
  <2>9. h.desc[y].addr \in h.desc[x].addr .. EndOf(h.desc[x]) - 1
    BY <2>7, <2>8 DEF EndOf
  <2> QED
    BY <2>1, <2>6, <2>9, StartsDiffer
<1>5. \E m \in free : \A k \in free : m <= k
  <2>1. hi \in Nat /\ free \subseteq 1 .. hi
    BY <1>1, <1>4, CellsFacts
  <2> HIDE DEF free, hi
  <2> QED
    BY <1>4, <2>1, LeastExists
<1> QED
  BY <1>5 DEF NewCell

\* Cells X of block b give way to cells Y that cover the same units.
Retile(h, g, b, X, Y) ==
  /\ h \in Heaps /\ g \in Heaps /\ TilesOK(h) /\ BlocksOK(h)
  /\ SameArrays(h, g) /\ g.block_addr = h.block_addr
  /\ b \in Blocks /\ X \subseteq Allocated(h) /\ Y \subseteq Allocated(g)
  /\ Allocated(g) = (Allocated(h) \ X) \cup Y
  /\ \A x \in X : h.desc[x].index = b
  /\ \A y \in Y : g.desc[y].index = b /\ InBlock(g, y)
  /\ \A y, z \in Y : y # z => Apart(g.desc[y], g.desc[z])
  /\ \A k \in Allocated(h) \ X : k \notin Y /\ g.desc[k] = h.desc[k]
  /\ \A u \in Nat : (\E x \in X : Has(h.desc[x], u)) <=> (\E y \in Y : Has(g.desc[y], u))

\* Then the blocks are still tiled.
LEMMA Retiled ==
  ASSUME NEW h, NEW g, NEW b, NEW X, NEW Y, Retile(h, g, b, X, Y)
  PROVE  TilesOK(g)
<1> USE DEF Retile
<1>1. ASSUME NEW m \in Allocated(g) PROVE InBlock(g, m)
  <2>1. CASE m \in Y
    BY <2>1
  <2>2. CASE m \in Allocated(h) \ X
    <3>1. InBlock(h, m) /\ g.desc[m] = h.desc[m] /\ h.desc[m].index \in Blocks
      BY <2>2, HeldFacts DEF TilesOK
    <3> QED
      BY <3>1 DEF InBlock, SameArrays
  <2> QED
    BY <2>1, <2>2
<1>2. \A m \in Allocated(h) : h.desc[m].addr \in Nat /\ h.desc[m].size \in Nat \ {0}
                              /\ h.block_addr[h.desc[m].index] \in Nat
  <2>1. ASSUME NEW m \in Allocated(h) PROVE h.desc[m].addr \in Nat /\ h.desc[m].size \in Nat \ {0}
                              /\ h.block_addr[h.desc[m].index] \in Nat
    BY HeldFacts, CellsFacts
  <2> QED
    BY <2>1
<1>3. \A m \in Y : g.desc[m].addr \in Nat /\ g.desc[m].size \in Nat \ {0}
  <2>1. Y \subseteq MCells
    BY AllocatedFacts
  <2> QED
    BY <2>1, HeapFacts DEF InBlock
<1>4. ASSUME NEW y \in Y, NEW k \in Allocated(h) \ X, h.desc[k].index = b
      PROVE  Apart(g.desc[y], h.desc[k]) /\ Apart(h.desc[k], g.desc[y])
  <2>1. ASSUME NEW u \in Nat, Has(g.desc[y], u), Has(h.desc[k], u) PROVE FALSE
    <3>1. PICK x \in X : Has(h.desc[x], u)
      BY <2>1
    <3>2. Apart(h.desc[x], h.desc[k])
      BY <1>4 DEF TilesOK
    <3> QED
      BY <1>2, <2>1, <3>1, <3>2, ApartIsDisjoint
  <2>2. Apart(g.desc[y], h.desc[k])
    BY <1>2, <1>3, <2>1, ApartIsDisjoint
  <2> QED
    BY <2>2 DEF Apart
<1>5. ASSUME NEW m \in Allocated(g), NEW k \in Allocated(g), m # k, g.desc[m].index = g.desc[k].index
      PROVE  Apart(g.desc[m], g.desc[k])
  BY <1>4, <1>5 DEF TilesOK
<1>6. ASSUME NEW m \in Allocated(g), NEW i \in Offs
      PROVE  \E k \in Allocated(g) :
               g.desc[k].index = g.desc[m].index /\ Has(g.desc[k], g.block_addr[g.desc[m].index] + i)
  <2> DEFINE c == g.desc[m].index
             u == g.block_addr[c] + i
  <2>1. c \in Blocks /\ u \in Nat
    <3>1. m \in MCells /\ c \in Blocks /\ g.block_addr[c] \in Nat
      BY AllocatedFacts, HeapFacts, SMTT(30)
    <3> QED
      BY <3>1, CellsFacts, SMTT(30)
  <2>2. \E k \in Allocated(h) : h.desc[k].index = c
    <3>1. CASE m \in Y
      <4>1. g.desc[m].size \in Nat \ {0} /\ g.desc[m].addr \in Nat /\ c = b
        BY <1>3, <3>1
      <4>2. Has(g.desc[m], g.desc[m].addr)
        BY <4>1 DEF Has
      <4> QED
        BY <3>1, <4>1, <4>2
    <3>2. CASE m \in Allocated(h) \ X
      BY <3>2
    <3> QED
      BY <3>1, <3>2
  <2>3. PICK k \in Allocated(h) : h.desc[k].index = c /\ Has(h.desc[k], u)
    BY <2>2 DEF TilesOK
  <2> HIDE DEF c, u
  <2>4. \E l \in Allocated(g) : g.desc[l].index = c /\ Has(g.desc[l], u)
    BY <2>1, <2>3
  <2> QED
    BY <2>4 DEF c, u
<1> QED
  BY <1>1, <1>5, <1>6 DEF TilesOK

\* Nothing but the lists and the hints has changed.
LEMMA SameTiles ==
  ASSUME NEW h \in Heaps, BlocksOK(h), TilesOK(h), NEW g \in Heaps, SameCells(h, g), SameArrays(h, g)
  PROVE  BlocksOK(g) /\ TilesOK(g) /\ Allocated(g) = Allocated(h)
<1>1. h \in Heaps /\ BlocksOK(h) /\ TilesOK(h) /\ g.desc = h.desc /\ g.block_addr = h.block_addr
      /\ \A b \in Blocks : g.addr_array[b] = <<>> <=> h.addr_array[b] = <<>>
  BY DEF SameCells, SameArrays
<1>2. BlocksOK(g)
  BY <1>1 DEF BlocksOK
<1>3. Allocated(g) = Allocated(h)
  BY <1>1 DEF Allocated
<1>4. \A m \in Allocated(h) : h.desc[m].index \in Blocks
  BY <1>1, HeapFacts, AllocatedFacts
<1> QED
  BY <1>1, <1>2, <1>3, <1>4 DEF TilesOK, InBlock

\* Two tiles side by side make one.
LEMMA TilesJoin ==
  ASSUME NEW d, NEW e, NEW f, d.addr \in Nat, d.size \in Nat \ {0}, e.addr \in Nat, e.size \in Nat \ {0},
         EndOf(d) = e.addr, f.addr = d.addr, f.size = d.size + e.size
  PROVE  /\ \A u \in Nat : Has(f, u) <=> Has(d, u) \/ Has(e, u)
         /\ Apart(d, e) /\ EndOf(f) = EndOf(e)
  BY DEF Has, EndOf, Apart

\* Cells that are allocated and not free.
Held(h) == Allocated(h) \ FreeOf(h)

\* A cell swallows a free neighbour.
LEMMA Merged ==
  ASSUME NEW h, HeapOK(h), NEW m \in Held(h), NEW o \in FreeOf(h), NEW a,
         h.desc[o].index = h.desc[m].index,
         \/ EndOf(h.desc[o]) = h.desc[m].addr /\ a = h.desc[o].addr
         \/ EndOf(h.desc[m]) = h.desc[o].addr /\ a = h.desc[m].addr
  PROVE  LET g == Merge(h, m, o, a) IN
         /\ HeapOK(g) /\ SameArrays(h, g) /\ g.block_addr = h.block_addr
         /\ FreeOf(g) = FreeOf(h) \ {o} /\ Allocated(g) = Allocated(h) \ {o}
         /\ g.desc[m].index = h.desc[m].index
         /\ g.desc[m].addr = a /\ g.desc[m].size = h.desc[m].size + h.desc[o].size
         /\ \A k \in MCells \ {m, o} : g.desc[k] = h.desc[k]
<1> DEFINE h1 == RmvFreeCell(h, o)
           g  == Merge(h, m, o, a)
           b  == h.desc[m].index
<1>1. h \in Heaps /\ FreeOK(h) /\ BlocksOK(h) /\ TilesOK(h) /\ o \in FreeOf(h)
  BY DEF HeapOK
<1>2. h1 \in Heaps /\ FreeOK(h1) /\ FreeOf(h1) = FreeOf(h) \ {o} /\ SameCells(h, h1) /\ SameArrays(h, h1)
  BY <1>1, FreeCellRemoved
<1>3. m \in Allocated(h) /\ o \in Allocated(h) /\ m # o /\ m \notin FreeOf(h)
  BY DEF Held, HeapOK
<1>4. /\ m \in MCells /\ b \in Blocks /\ h.addr_array[b] # <<>> /\ h.block_addr[b] \in Nat
      /\ h.desc[m].addr \in Nat /\ h.desc[m].size \in 1 .. CellsPerBlock
      /\ h.block_addr[b] <= h.desc[m].addr /\ h.desc[m].addr + h.desc[m].size <= h.block_addr[b] + CellsPerBlock
  BY <1>1, <1>3, HeldFacts
<1>5. /\ o \in MCells /\ h.desc[o].addr \in Nat /\ h.desc[o].size \in 1 .. CellsPerBlock
      /\ h.block_addr[b] <= h.desc[o].addr /\ h.desc[o].addr + h.desc[o].size <= h.block_addr[b] + CellsPerBlock
  BY <1>1, <1>3, HeldFacts
<1>6. h1.desc = h.desc /\ h1.block_addr = h.block_addr
  BY <1>2 DEF SameCells
<1>7. 0 \in Blocks /\ CellsPerBlock \in Nat
  BY CellsFacts, DCellsAssumption DEF Blocks
<1> HIDE DEF h1, b
<1> DEFINE new == [addr |-> a, size |-> h.desc[m].size + h.desc[o].size, index |-> h.desc[m].index]
<1>8. a \in Nat /\ new \in [addr : Nat, size : Nat, index : Blocks]
  BY <1>4, <1>5, SMTT(30) DEF b
<1>9. g = [h1 EXCEPT !.desc = [h.desc EXCEPT ![m] = new, ![o] = NoDesc]]
  <2> DEFINE D == h.desc
             n == h.desc[o].size
             E == [D EXCEPT ![m].addr = a, ![m].size = @ + n, ![o] = NoDesc]
  <2>1. D \in [MCells -> [addr : Nat, size : Nat, index : Blocks]] /\ h1.desc = D
    BY <1>1, <1>6 DEF Heaps
  <2>2. g = [h1 EXCEPT !.desc[m].addr = a, !.desc[m].size = @ + n, !.desc[o] = NoDesc]
    BY DEF Merge, h1
  <2>3. [h1 EXCEPT !.desc[m].addr = a, !.desc[m].size = @ + n, !.desc[o] = NoDesc] = [h1 EXCEPT !.desc = E]
    <3> HIDE DEF D, n
    <3> QED
      BY <1>2, <2>1, ZenonT(60) DEF Heaps
  <2>4. new = [addr |-> a, size |-> D[m].size + n, index |-> D[m].index]
    OBVIOUS
  <2>5. E = [D EXCEPT ![m] = new, ![o] = NoDesc]
    <3>1. D[m] \in [addr : Nat, size : Nat, index : Blocks]
      BY <1>4, <2>1
    <3> DEFINE E1 == [D EXCEPT ![m].addr = a]
               E2 == [E1 EXCEPT ![m].size = @ + n]
    <3> HIDE DEF D, n, new
    <3>2. E1[m] = [addr |-> a, size |-> D[m].size, index |-> D[m].index] /\ DOMAIN E1 = MCells
          /\ \A k \in MCells \ {m} : E1[k] = D[k]
      BY <1>4, <2>1, <3>1
    <3> HIDE DEF E1
    <3>3. E2[m] = new /\ DOMAIN E2 = MCells /\ \A k \in MCells \ {m} : E2[k] = D[k]
      BY <1>4, <2>4, <3>2
    <3>4. E2 = [k \in MCells |-> IF k = m THEN new ELSE D[k]]
      <4>1. E2 = [k \in MCells |-> E2[k]]
        BY <3>2
      <4> HIDE DEF E2
      <4> QED
        BY <3>3, <4>1
    <3>5. [D EXCEPT ![m] = new] = [k \in MCells |-> IF k = m THEN new ELSE D[k]]
      BY <2>1
    <3>6. E = [E2 EXCEPT ![o] = NoDesc]
      BY DEF E1
    <3> QED
      BY <3>4, <3>5, <3>6
  <2> QED
    BY <2>2, <2>3, <2>5
<1>10. /\ g \in Heaps /\ SameBySize(h1, g) /\ SameByAddr(h1, g) /\ g.block_addr = h.block_addr
       /\ g.desc[m] = new /\ g.desc[o] = NoDesc
       /\ \A k \in MCells \ {m, o} : g.desc[k] = h.desc[k]
  <2> DEFINE D == h.desc
             F == [D EXCEPT ![m] = new, ![o] = NoDesc]
  <2>1. D \in [MCells -> [addr : Nat, size : Nat, index : Blocks]]
    BY <1>1 DEF Heaps
  <2>2. NoDesc \in [addr : Nat, size : Nat, index : Blocks]
    BY <1>7 DEF NoDesc
  <2> HIDE DEF D, new
  <2>3. /\ F \in [MCells -> [addr : Nat, size : Nat, index : Blocks]]
        /\ F[m] = new /\ F[o] = NoDesc /\ \A k \in MCells \ {m, o} : F[k] = D[k]
    BY <1>3, <1>4, <1>5, <1>8, <2>1, <2>2
  <2>4. g = [h1 EXCEPT !.desc = F]
    BY <1>9 DEF D
  <2> HIDE DEF g, F
  <2>5. g \in Heaps /\ g.desc = F /\ SameBySize(h1, g) /\ SameByAddr(h1, g) /\ g.block_addr = h.block_addr
    BY <1>2, <1>6, <2>3, <2>4 DEF Heaps, SameBySize, SameByAddr
  <2> QED
    BY <2>3, <2>5 DEF D
<1> HIDE DEF g
<1>11. new.addr = a /\ new.size = h.desc[m].size + h.desc[o].size /\ new.index = b
  BY DEF b
<1> HIDE DEF new
<1>12. FreeOf(h) \subseteq MCells
  BY <1>1, HeapFacts, ListedFacts DEF FreeOf
<1>13. FreeOK(g) /\ FreeOf(g) = FreeOf(h) \ {o}
  <2>1. \A k \in FreeOf(h1) : g.desc[k] = h1.desc[k]
    BY <1>2, <1>3, <1>6, <1>10, <1>12
  <2>2. FreeOK(g) /\ FreeOf(g) = FreeOf(h1)
    BY <1>2, <1>6, <1>10, <2>1, FreeOKKept
  <2> QED
    BY <1>2, <2>2
<1>14. Allocated(g) = Allocated(h) \ {o}
  <2>1. m \in Allocated(g)
    <3>1. new.size \in Nat \ {0}
      BY <1>4, <1>5, <1>11, SMTT(30)
    <3> QED
      BY <1>4, <1>10, <3>1, AllocatedFacts
  <2> QED
    BY <1>3, <1>4, <1>10, <2>1 DEF Allocated
<1>15. SameArrays(h, g)
  BY <1>2, <1>10 DEF SameArrays, SameByAddr
<1>16. BlocksOK(g)
  BY <1>1, <1>10, <1>15 DEF BlocksOK, SameArrays
<1>17. TilesOK(g)
  <2>1. InBlock(g, m)
    <3>1. g.addr_array[b] # <<>>
      BY <1>4, <1>15 DEF SameArrays
    <3>2. /\ new.size > 0 /\ h.block_addr[b] <= new.addr
          /\ new.addr + new.size <= h.block_addr[b] + CellsPerBlock
      <4> DEFINE ds == h.desc[m].addr
                 dn == h.desc[m].size
                 es == h.desc[o].addr
                 en == h.desc[o].size
                 lo == h.block_addr[b]
      <4>1. /\ ds \in Nat /\ dn \in 1 .. CellsPerBlock /\ es \in Nat /\ en \in 1 .. CellsPerBlock /\ lo \in Nat
            /\ lo <= ds /\ ds + dn <= lo + CellsPerBlock /\ lo <= es /\ es + en <= lo + CellsPerBlock
            /\ (es + en = ds /\ a = es) \/ (ds + dn = es /\ a = ds)
        BY <1>4, <1>5 DEF EndOf
      <4> HIDE DEF ds, dn, es, en, lo
      <4>2. dn + en > 0 /\ lo <= a /\ a + (dn + en) <= lo + CellsPerBlock
        BY <1>7, <4>1
      <4> QED
        BY <1>11, <4>2 DEF ds, dn, es, en, lo
    <3> QED
      BY <1>10, <1>11, <3>1, <3>2 DEF InBlock
  <2>2. ASSUME NEW u \in Nat
        PROVE  Has(h.desc[m], u) \/ Has(h.desc[o], u) <=> Has(g.desc[m], u)
    <3>1. /\ h.desc[m].addr \in Nat /\ h.desc[m].size \in Nat \ {0}
          /\ h.desc[o].addr \in Nat /\ h.desc[o].size \in Nat \ {0}
          /\ g.desc[m].addr = a /\ g.desc[m].size = h.desc[m].size + h.desc[o].size
      BY <1>4, <1>5, <1>10, <1>11
    <3>2. CASE EndOf(h.desc[o]) = h.desc[m].addr /\ a = h.desc[o].addr
      <4>1. g.desc[m].size = h.desc[o].size + h.desc[m].size
        BY <3>1
      <4> QED
        BY <3>1, <3>2, <4>1, TilesJoin
    <3>3. CASE EndOf(h.desc[m]) = h.desc[o].addr /\ a = h.desc[m].addr
      BY <3>1, <3>3, TilesJoin, SMTT(30)
    <3> QED
      BY <3>2, <3>3
  <2>3. \A x \in {m, o} : h.desc[x].index = b
    BY DEF b
  <2>4. Allocated(g) = (Allocated(h) \ {m, o}) \cup {m}
    BY <1>3, <1>14
  <2>5. \A u \in Nat : (\E x \in {m, o} : Has(h.desc[x], u)) <=> (\E y \in {m} : Has(g.desc[y], u))
    BY <2>2
  <2>6. \A k \in Allocated(h) \ {m, o} : k \notin {m} /\ g.desc[k] = h.desc[k]
    BY <1>1, <1>10, AllocatedFacts
  <2>7. \A y \in {m} : g.desc[y].index = b /\ InBlock(g, y)
    BY <1>10, <1>11, <2>1
  <2>8. \A y, z \in {m} : y # z => Apart(g.desc[y], g.desc[z])
    OBVIOUS
  <2>9. {m, o} \in SUBSET Allocated(h) /\ {m} \in SUBSET Allocated(g)
    BY <1>3, <1>14
  <2> QED
    BY <1>1, <1>4, <1>10, <1>15, <2>3, <2>4, <2>5, <2>6, <2>7, <2>8, <2>9, Retiled DEF Retile
<1>18. FreeOf(g) \subseteq Allocated(g)
  BY <1>13, <1>14 DEF HeapOK
<1>19. HeapOK(g)
  BY <1>10, <1>13, <1>16, <1>17, <1>18 DEF HeapOK
<1> QED
  BY <1>10, <1>11, <1>13, <1>14, <1>15, <1>19 DEF g, b

\* The first cell behind some key, and the last one before it.
LEMMA AroundKey ==
  ASSUME NEW list \in Lists, NEW key \in [MCells -> Int], NEW n \in Int, NEW c,
         Ordered(list, key), IsFirst(list, key, n, c)
  PROVE  LET p == PrevIn(list, c) IN
         /\ c = Null => \A k \in Listed(list) : key[k] <= n
         /\ c # Null =>
              /\ c \in Listed(list) /\ key[c] > n
              /\ \A k \in Listed(list) : key[k] > n => key[c] <= key[k]
              /\ p = Null => \A k \in Listed(list) : key[k] > n
              /\ p # Null => /\ p \in Listed(list) /\ key[p] <= n
                             /\ \A k \in Listed(list) : key[k] <= n => key[k] <= key[p]
<1> DEFINE p == PrevIn(list, c)
<1>1. /\ Len(list) \in Nat /\ \A i \in 1 .. Len(list) : list[i] \in MCells /\ list[i] # Null /\ key[list[i]] \in Int
      /\ \A i, j \in 1 .. Len(list) : i <= j => key[list[i]] <= key[list[j]]
      /\ \A i, j \in 1 .. Len(list) : list[i] = list[j] => i = j
  BY CellsFacts, ListedFacts DEF Ordered
<1>2. CASE c = Null /\ \A i \in 1 .. Len(list) : key[list[i]] <= n
  BY <1>2 DEF Listed
<1>3. ASSUME NEW i \in 1 .. Len(list), c = list[i], key[c] > n, \A j \in 1 .. i - 1 : key[list[j]] <= n
      PROVE  /\ c # Null /\ c \in Listed(list) /\ key[c] > n
             /\ \A k \in Listed(list) : key[k] > n => key[c] <= key[k]
             /\ p = Null => \A k \in Listed(list) : key[k] > n
             /\ p # Null => /\ p \in Listed(list) /\ key[p] <= n
                            /\ \A k \in Listed(list) : key[k] <= n => key[k] <= key[p]
  <2>1. Place(list, c) = i
    BY <1>1, <1>3, PlaceFinds
  <2>2. p = IF i = 1 THEN Null ELSE list[i - 1]
    BY <2>1 DEF PrevIn
  <2> HIDE DEF p
  <2>3. ASSUME NEW j \in 1 .. Len(list) PROVE key[list[j]] > n <=> j >= i
    <3>1. CASE j >= i
      <4>1. key[list[i]] <= key[list[j]]
        BY <1>1, <1>3, <3>1
      <4> QED
        BY <1>1, <1>3, <3>1, <4>1
    <3>2. CASE j < i
      <4>1. j \in 1 .. i - 1
        BY <3>2
      <4> QED
        BY <1>1, <1>3, <3>2, <4>1
    <3> QED
      BY <3>1, <3>2
  <2>4. ASSUME NEW k \in Listed(list), key[k] > n PROVE key[c] <= key[k]
    <3>1. PICK j \in 1 .. Len(list) : k = list[j]
      BY DEF Listed
    <3> QED
      BY <1>1, <1>3, <2>3, <2>4, <3>1
  <2>5. CASE i = 1
    <3>1. \A k \in Listed(list) : key[k] > n
      BY <1>1, <2>3, <2>5 DEF Listed
    <3> QED
      BY <1>1, <1>3, <2>2, <2>4, <2>5, <3>1 DEF Listed
  <2>6. CASE i # 1
    <3>1. i - 1 \in 1 .. Len(list) /\ i - 1 \in 1 .. i - 1
      BY <1>1, <2>6
    <3>2. p = list[i - 1] /\ p # Null /\ p \in Listed(list) /\ key[p] <= n
      BY <1>1, <1>3, <2>2, <2>6, <3>1 DEF Listed
    <3>3. ASSUME NEW k \in Listed(list), key[k] <= n PROVE key[k] <= key[p]
      <4>1. PICK j \in 1 .. Len(list) : k = list[j]
        BY DEF Listed
      <4>2. j <= i - 1
        BY <1>1, <1>3, <2>3, <3>3, <4>1
      <4> QED
        BY <1>1, <3>1, <3>2, <4>1, <4>2
    <3> QED
      BY <1>1, <1>3, <2>4, <3>2, <3>3 DEF Listed
  <2> QED
    BY <2>5, <2>6
<1> QED
  BY <1>2, <1>3 DEF IsFirst

\* What dheap_add_free_cell finds on both sides of a cell.
NextOf(h, m) == h.addr_array[h.desc[m].index][AddrIndex(h, m)]
PrevOf(h, m) == IF NextOf(h, m) = Null THEN Null ELSE PrevIn(h.addr_list[h.desc[m].index], NextOf(h, m))

\* dheap_add_free_cell looks at the right neighbours: the free cells next to m,
\* where the one in front is found if a free cell lies behind.
LEMMA Neighbours ==
  ASSUME NEW h, HeapOK(h), NEW m \in Held(h)
  PROVE  LET next == NextOf(h, m)
             prev == PrevOf(h, m)
             d    == h.desc[m]
             Near == {k \in FreeOf(h) : h.desc[k].index = d.index} IN
         /\ next # Null => next \in Near /\ EndOf(d) <= h.desc[next].addr
         /\ prev # Null => prev \in Near /\ EndOf(h.desc[prev]) <= d.addr /\ next # Null
         /\ next = Null => \A k \in Near : h.desc[k].addr < d.addr
         /\ \A k \in Near : h.desc[k].addr = EndOf(d) => k = next
         /\ next # Null => \A k \in Near : EndOf(h.desc[k]) = d.addr => k = prev
<1> DEFINE next == NextOf(h, m)
           prev == PrevOf(h, m)
           d    == h.desc[m]
           b    == d.index
           list == h.addr_list[b]
           key  == AddrKey(h, b)
           n    == AddrIndex(h, m)
           Near == {k \in FreeOf(h) : h.desc[k].index = b}
<1>1. h \in Heaps /\ FreeOK(h) /\ BlocksOK(h) /\ TilesOK(h) /\ FreeOf(h) \subseteq Allocated(h)
      /\ m \in Allocated(h) /\ m \notin FreeOf(h)
  BY DEF HeapOK, Held
<1>2. /\ m \in MCells /\ b \in Blocks /\ h.addr_array[b] # <<>> /\ h.block_addr[b] \in Nat
      /\ d.addr \in Nat /\ d.size \in 1 .. CellsPerBlock /\ d.addr - h.block_addr[b] \in Offs
  BY <1>1, HeldFacts
<1>3. Listed(list) = Near
  BY <1>1, <1>2 DEF FreeOK
<1>4. /\ list \in Lists /\ key \in [MCells -> Int] /\ n = d.addr - h.block_addr[b]
      /\ \A k \in MCells : key[k] = h.desc[k].addr - h.block_addr[b] + 1
  BY <1>1, <1>2, HeapFacts DEF AddrIndex
<1>5. Ordered(list, key) /\ IsFirst(list, key, n, next)
  <2>1. Indexed(list, key, h.addr_array[b]) /\ n \in Offs
    BY <1>1, <1>2, <1>4 DEF FreeOK, AddrOK
  <2> QED
    BY <2>1 DEF Indexed, NextOf
<1>6. ASSUME NEW k \in Near
      PROVE  /\ k \in MCells /\ k # m /\ k # Null /\ h.desc[k].addr \in Nat /\ h.desc[k].size \in Nat \ {0}
             /\ Apart(d, h.desc[k])
             /\ key[k] > n <=> h.desc[k].addr >= d.addr
  <2>1. k \in Allocated(h) /\ k # m /\ h.desc[k].index = b
    BY <1>1
  <2>2. k \in MCells /\ h.desc[k].addr \in Nat /\ h.desc[k].size \in Nat \ {0}
    BY <1>1, <2>1, HeldFacts
  <2>3. Apart(d, h.desc[k])
    BY <1>1, <2>1 DEF TilesOK
  <2>4. key[k] = h.desc[k].addr - h.block_addr[b] + 1
    BY <1>4, <2>2
  <2>5. key[k] > n <=> h.desc[k].addr >= d.addr
    <3> HIDE DEF key, n
    <3> DEFINE x == h.desc[k].addr
               y == d.addr
               z == h.block_addr[b]
    <3>1. x \in Nat /\ y \in Nat /\ z \in Nat /\ key[k] = x - z + 1 /\ n = y - z
      BY <1>2, <1>4, <2>2, <2>4
    <3> HIDE DEF x, y, z
    <3>2. key[k] > n <=> x >= y
      BY <3>1
    <3> QED
      BY <3>2 DEF x, y
  <2> QED
    BY <2>1, <2>2, <2>3, <2>5, CellsFacts
<1>7. \A k, l \in Near : key[k] <= key[l] <=> h.desc[k].addr <= h.desc[l].addr
  <2>1. ASSUME NEW k \in Near, NEW l \in Near PROVE key[k] <= key[l] <=> h.desc[k].addr <= h.desc[l].addr
    <3> DEFINE x == h.desc[k].addr
               y == h.desc[l].addr
               z == h.block_addr[b]
    <3>1. x \in Nat /\ y \in Nat /\ z \in Nat /\ key[k] = x - z + 1 /\ key[l] = y - z + 1
      BY <1>2, <1>4, <1>6
    <3> HIDE DEF x, y, z, key
    <3>2. key[k] <= key[l] <=> x <= y
      BY <3>1
    <3> QED
      BY <3>2 DEF x, y
  <2> QED
    BY <2>1
<1>8. ASSUME NEW k \in Near, NEW l \in Near, h.desc[k].addr = h.desc[l].addr PROVE k = l
  <2>1. k \in Allocated(h) /\ l \in Allocated(h)
    BY <1>1
  <2>2. h.desc[l].addr \in h.desc[k].addr .. EndOf(h.desc[k]) - 1
    BY <1>6, <1>8 DEF EndOf
  <2> QED
    BY <1>1, <2>1, <2>2, StartsDiffer
<1>9. ASSUME NEW k \in Near, NEW l \in Near, h.desc[k].addr < h.desc[l].addr
      PROVE  EndOf(h.desc[k]) <= h.desc[l].addr
  <2>1. k \in Allocated(h) /\ l \in Allocated(h) /\ k # l
    BY <1>1, <1>6, <1>9
  <2>2. Apart(h.desc[k], h.desc[l])
    BY <1>1, <2>1 DEF TilesOK
  <2> QED
    BY <1>6, <1>9, <2>2 DEF Apart, EndOf
<1>10. prev = IF next = Null THEN Null ELSE PrevIn(list, next)
  BY DEF PrevOf
<1>11. /\ next = Null => \A k \in Near : key[k] <= n
       /\ next # Null =>
            /\ next \in Near /\ key[next] > n
            /\ \A k \in Near : key[k] > n => key[next] <= key[k]
            /\ prev = Null => \A k \in Near : key[k] > n
            /\ prev # Null => /\ prev \in Near /\ key[prev] <= n
                              /\ \A k \in Near : key[k] <= n => key[k] <= key[prev]
  <2>1. n \in Int
    BY <1>2, <1>4
  <2> HIDE DEF Near, list, key, n, next, prev
  <2> QED
    BY <1>3, <1>4, <1>5, <1>10, <2>1, AroundKey
<1>12. \A k \in Near : key[k] \in Int /\ n \in Int
  BY <1>2, <1>4, <1>6, SMTT(30)
<1> HIDE DEF Near, list, key, n, next, prev
<1>13. next # Null => next \in Near /\ EndOf(d) <= h.desc[next].addr
  BY <1>2, <1>6, <1>11 DEF Apart, EndOf
<1>14. prev # Null => prev \in Near /\ EndOf(h.desc[prev]) <= d.addr /\ next # Null
  <2>1. SUFFICES ASSUME prev # Null PROVE prev \in Near /\ EndOf(h.desc[prev]) <= d.addr /\ next # Null
    OBVIOUS
  <2>2. next # Null /\ prev \in Near /\ key[prev] <= n
    BY <1>10, <1>11, <2>1
  <2>3. ~(h.desc[prev].addr >= d.addr)
    BY <1>6, <1>12, <2>2
  <2> QED
    BY <1>2, <1>6, <2>2, <2>3 DEF Apart, EndOf
<1>15. ASSUME next = Null, NEW k \in Near PROVE h.desc[k].addr < d.addr
  BY <1>2, <1>6, <1>11, <1>12, <1>15
<1>16. ASSUME NEW k \in Near, h.desc[k].addr = EndOf(d) PROVE k = next
  <2>1. EndOf(d) \in Nat /\ d.addr < EndOf(d)
    BY <1>2 DEF EndOf
  <2>2. key[k] > n /\ next # Null
    BY <1>2, <1>6, <1>11, <1>12, <1>16, <2>1
  <2>3. h.desc[next].addr <= h.desc[k].addr
    BY <1>7, <1>11, <2>2
  <2>4. h.desc[next].addr = h.desc[k].addr
    BY <1>6, <1>13, <1>16, <2>1, <2>2, <2>3
  <2> QED
    BY <1>8, <1>13, <2>2, <2>4
<1>17. ASSUME next # Null, NEW k \in Near, EndOf(h.desc[k]) = d.addr PROVE k = prev
  <2>1. h.desc[k].addr < d.addr
    BY <1>6, <1>17 DEF EndOf
  <2>2. key[k] <= n
    BY <1>2, <1>6, <1>12, <2>1
  <2>3. prev # Null /\ key[k] <= key[prev] /\ key[prev] <= n
    BY <1>11, <1>12, <1>17, <2>2
  <2>4. h.desc[k].addr <= h.desc[prev].addr /\ h.desc[prev].addr < d.addr
    BY <1>2, <1>6, <1>7, <1>12, <1>14, <2>3
  <2>5. ~(h.desc[k].addr < h.desc[prev].addr)
    <3>1. prev \in Near
      BY <1>14, <2>3
    <3>2. h.desc[prev].addr \in Nat /\ d.addr \in Nat
      BY <1>2, <1>6, <3>1
    <3>3. h.desc[k].addr < h.desc[prev].addr => d.addr <= h.desc[prev].addr
      BY <1>9, <1>17, <3>1
    <3> QED
      BY <2>4, <3>2, <3>3
  <2> QED
    BY <1>6, <1>8, <1>14, <2>3, <2>4, <2>5
<1> QED
  BY <1>13, <1>14, <1>15, <1>16, <1>17 DEF Near, next, prev

\* The held cell m has swallowed the free cells X.
Swallowed(h, m, X, g) ==
  /\ HeapOK(g) /\ SameArrays(h, g) /\ g.block_addr = h.block_addr
  /\ X \subseteq FreeOf(h) /\ FreeOf(g) = FreeOf(h) \ X /\ Allocated(g) = Allocated(h) \ X
  /\ g.desc[m].index = h.desc[m].index
  /\ g.desc[m].addr <= h.desc[m].addr /\ EndOf(h.desc[m]) <= EndOf(g.desc[m])
  /\ \A k \in MCells \ (X \cup {m}) : g.desc[k] = h.desc[k]

\* One step of it, if there is something to swallow.
LEMMA Swallow ==
  ASSUME NEW h, HeapOK(h), NEW m \in Held(h), NEW o, NEW a,
         o # Null => o \in FreeOf(h) /\ h.desc[o].index = h.desc[m].index,
         NEW cond, cond <=> o # Null /\ \/ EndOf(h.desc[o]) = h.desc[m].addr /\ a = h.desc[o].addr
                                        \/ EndOf(h.desc[m]) = h.desc[o].addr /\ a = h.desc[m].addr
  PROVE  LET g == IF cond THEN Merge(h, m, o, a) ELSE h
             X == IF cond THEN {o} ELSE {} IN
         Swallowed(h, m, X, g)
<1> DEFINE g == IF cond THEN Merge(h, m, o, a) ELSE h
           X == IF cond THEN {o} ELSE {}
<1>1. h \in Heaps /\ FreeOK(h) /\ BlocksOK(h) /\ TilesOK(h) /\ FreeOf(h) \subseteq Allocated(h)
      /\ m \in Allocated(h) /\ m \notin FreeOf(h)
  BY DEF HeapOK, Held
<1>2. m \in MCells /\ h.desc[m].addr \in Nat /\ h.desc[m].size \in Nat
  BY <1>1, HeapFacts, AllocatedFacts
<1>3. CASE cond
  <2>1. o \in FreeOf(h) /\ h.desc[o].index = h.desc[m].index
        /\ (\/ EndOf(h.desc[o]) = h.desc[m].addr /\ a = h.desc[o].addr
            \/ EndOf(h.desc[m]) = h.desc[o].addr /\ a = h.desc[m].addr)
    BY <1>3
  <2>2. g = Merge(h, m, o, a) /\ X = {o}
    BY <1>3
  <2> HIDE DEF g, X
  <2>3. /\ HeapOK(g) /\ SameArrays(h, g) /\ g.block_addr = h.block_addr
        /\ FreeOf(g) = FreeOf(h) \ {o} /\ Allocated(g) = Allocated(h) \ {o}
        /\ g.desc[m].index = h.desc[m].index
        /\ g.desc[m].addr = a /\ g.desc[m].size = h.desc[m].size + h.desc[o].size
        /\ \A k \in MCells \ {m, o} : g.desc[k] = h.desc[k]
    BY <2>1, <2>2, Merged
  <2>4. o \in MCells /\ h.desc[o].addr \in Nat /\ h.desc[o].size \in Nat
    BY <1>1, <2>1, HeapFacts, AllocatedFacts
  <2>5. g.desc[m].addr <= h.desc[m].addr /\ EndOf(h.desc[m]) <= EndOf(g.desc[m])
    BY <1>2, <2>1, <2>3, <2>4 DEF EndOf
  <2> QED
    BY <2>1, <2>2, <2>3, <2>5 DEF Swallowed, g, X
<1>4. CASE ~cond
  <2>1. g = h /\ X = {}
    BY <1>4
  <2> HIDE DEF g, X
  <2>2. SameArrays(h, g) /\ EndOf(h.desc[m]) <= EndOf(g.desc[m]) /\ g.desc[m].addr <= h.desc[m].addr
    BY <1>2, <2>1 DEF SameArrays, EndOf
  <2> QED
    BY <2>1, <2>2 DEF Swallowed, g, X
<1> QED
  BY <1>3, <1>4

\* The blocks that have cells.
Occupied(h) == {h.desc[m].index : m \in Allocated(h)}

\* What dheap_add_free_cell does to the heap.
CellFreed(h, m, g) ==
  /\ HeapOK(g) /\ SameArrays(h, g) /\ g.block_addr = h.block_addr
  /\ Held(g) = Held(h) \ {m} /\ m \in FreeOf(g) /\ FreeOf(g) \subseteq FreeOf(h) \cup {m}
  /\ \A k \in Allocated(g) \ {m} : g.desc[k] = h.desc[k]
  /\ h.desc[m].size <= g.desc[m].size
  /\ Occupied(g) \subseteq Occupied(h)

\* A free cell of the block lies behind m.
Behind(h, m) == \E k \in FreeOf(h) : /\ h.desc[k].index = h.desc[m].index
                                     /\ h.desc[k].addr > h.desc[m].addr

\* dheap_add_free_cell: m is free afterwards, the heap is in order, all other
\* cells that are held are what they were; no free cell is left right behind
\* it, and none in front of it provided a free cell of the block lies behind.
THEOREM AddFreeCellFrees ==
  ASSUME NEW h, HeapOK(h), NEW m \in Held(h)
  PROVE  LET g == AddFreeCell(h, m)
             d == h.desc[m] IN
         /\ CellFreed(h, m, g)
         /\ \A k \in FreeOf(g) : g.desc[k].index = d.index =>
              /\ g.desc[k].addr # EndOf(d)
              /\ Behind(h, m) => EndOf(g.desc[k]) # d.addr
<1> DEFINE next == NextOf(h, m)
           prev == PrevOf(h, m)
           d    == h.desc[m]
           Near == {k \in FreeOf(h) : h.desc[k].index = d.index}
           c1   == prev # Null /\ Precedes(h, prev, m)
           h1   == IF c1 THEN Merge(h, m, prev, StartBefore(h, m, prev)) ELSE h
           X1   == IF c1 THEN {prev} ELSE {}
           c2   == next # Null /\ Precedes(h1, m, next)
           h2   == IF c2 THEN Merge(h1, m, next, h1.desc[m].addr) ELSE h1
           X2   == IF c2 THEN {next} ELSE {}
           g    == AddFreeCell(h, m)
<1>1. h \in Heaps /\ FreeOK(h) /\ BlocksOK(h) /\ TilesOK(h) /\ FreeOf(h) \subseteq Allocated(h)
      /\ m \in Allocated(h) /\ m \notin FreeOf(h)
  BY DEF HeapOK, Held
<1>2. m \in MCells /\ d.addr \in Nat /\ d.size \in Nat \ {0} /\ d.index \in Blocks
  BY <1>1, HeldFacts
<1>3. /\ next # Null => next \in Near /\ EndOf(d) <= h.desc[next].addr
      /\ prev # Null => prev \in Near /\ EndOf(h.desc[prev]) <= d.addr /\ next # Null
      /\ next = Null => \A k \in Near : h.desc[k].addr < d.addr
      /\ \A k \in Near : h.desc[k].addr = EndOf(d) => k = next
      /\ next # Null => \A k \in Near : EndOf(h.desc[k]) = d.addr => k = prev
  BY Neighbours
<1>4. g = LinkFreeCell(h2, m)
  BY DEF AddFreeCell, NextOf, PrevOf
<1>5. \A k \in FreeOf(h) : k \in MCells /\ h.desc[k].addr \in Nat /\ h.desc[k].size \in Nat \ {0}
  <2>1. ASSUME NEW k \in FreeOf(h) PROVE k \in MCells /\ h.desc[k].addr \in Nat /\ h.desc[k].size \in Nat \ {0}
    BY <1>1, HeldFacts
  <2> QED
    BY <2>1
<1>6. Swallowed(h, m, X1, h1)
  <2> DEFINE a == StartBefore(h, m, prev)
  <2>1. c1 <=> prev # Null /\ (\/ EndOf(h.desc[prev]) = h.desc[m].addr /\ a = h.desc[prev].addr
                               \/ EndOf(h.desc[m]) = h.desc[prev].addr /\ a = h.desc[m].addr)
    <3>1. prev # Null => ~(EndOf(h.desc[m]) = h.desc[prev].addr)
      BY <1>2, <1>3, <1>5 DEF EndOf
    <3> QED
      BY <3>1 DEF Precedes, StartBefore
  <2>2. prev # Null => prev \in FreeOf(h) /\ h.desc[prev].index = h.desc[m].index
    BY <1>3
  <2> HIDE DEF c1, prev, a
  <2> QED
    BY <2>1, <2>2, Swallow DEF a
<1>7. HeapOK(h1) /\ m \in Held(h1) /\ h1 \in Heaps /\ TilesOK(h1) /\ BlocksOK(h1)
      /\ X1 \subseteq FreeOf(h) /\ FreeOf(h1) = FreeOf(h) \ X1 /\ Allocated(h1) = Allocated(h) \ X1
      /\ h1.block_addr = h.block_addr /\ SameArrays(h, h1)
      /\ h1.desc[m].index = d.index /\ h1.desc[m].addr <= d.addr /\ EndOf(d) <= EndOf(h1.desc[m])
      /\ \A k \in MCells \ (X1 \cup {m}) : h1.desc[k] = h.desc[k]
  <2> HIDE DEF h1, X1
  <2> QED
    BY <1>1, <1>6 DEF Swallowed, Held, HeapOK
<1>8. EndOf(h1.desc[m]) = EndOf(d)
  <2>1. CASE c1
    <3>1. prev \in FreeOf(h) /\ h.desc[prev].index = d.index /\ EndOf(h.desc[prev]) = d.addr
      BY <1>3, <2>1 DEF Precedes
    <3>2. h1 = Merge(h, m, prev, h.desc[prev].addr)
      BY <2>1 DEF StartBefore
    <3> HIDE DEF h1, prev
    <3>3. h1.desc[m].addr = h.desc[prev].addr /\ h1.desc[m].size = d.size + h.desc[prev].size
      BY <3>1, <3>2, Merged
    <3> QED
      BY <1>2, <1>5, <3>1, <3>3 DEF EndOf
  <2>2. CASE ~c1
    BY <2>2
  <2> QED
    BY <2>1, <2>2
<1>9. next # Null => /\ next \in FreeOf(h1) /\ h1.desc[next] = h.desc[next]
                     /\ h1.desc[next].index = h1.desc[m].index
  <2>1. SUFFICES ASSUME next # Null PROVE next \in FreeOf(h1) /\ h1.desc[next] = h.desc[next]
                     /\ h1.desc[next].index = h1.desc[m].index
    OBVIOUS
  <2>2. next \in FreeOf(h) /\ h.desc[next].index = d.index /\ EndOf(d) <= h.desc[next].addr
    BY <1>3, <2>1
  <2>3. next \notin X1
    <3>1. SUFFICES ASSUME prev # Null, next = prev PROVE FALSE
      OBVIOUS
    <3>2. EndOf(h.desc[next]) <= d.addr
      BY <1>3, <3>1
    <3> QED
      BY <1>2, <1>5, <2>2, <3>2 DEF EndOf
  <2>4. next \in MCells /\ next # m
    BY <1>1, <1>5, <2>2
  <2> HIDE DEF X1, h1, next
  <2> QED
    BY <1>7, <2>2, <2>3, <2>4
<1>10. Swallowed(h1, m, X2, h2)
  <2> DEFINE a == h1.desc[m].addr
  <2>1. c2 <=> next # Null /\ (\/ EndOf(h1.desc[next]) = h1.desc[m].addr /\ a = h1.desc[next].addr
                               \/ EndOf(h1.desc[m]) = h1.desc[next].addr /\ a = h1.desc[m].addr)
    <3>1. next # Null => ~(EndOf(h1.desc[next]) = h1.desc[m].addr)
      <4>1. SUFFICES ASSUME next # Null, EndOf(h1.desc[next]) = h1.desc[m].addr PROVE FALSE
        OBVIOUS
      <4>2. /\ h.desc[next].addr \in Nat /\ h.desc[next].size \in Nat /\ EndOf(d) <= h.desc[next].addr
            /\ h1.desc[next] = h.desc[next]
        BY <1>3, <1>5, <1>9, <4>1
      <4>3. h1.desc[m].addr \in Nat
        BY <1>2, <1>7, HeapFacts
      <4> HIDE DEF h1, next
      <4> QED
        BY <1>2, <1>7, <4>1, <4>2, <4>3 DEF EndOf
    <3> QED
      BY <3>1 DEF Precedes
  <2>2. next # Null => next \in FreeOf(h1) /\ h1.desc[next].index = h1.desc[m].index
    BY <1>9
  <2>3. HeapOK(h1) /\ m \in Held(h1)
    BY <1>7
  <2> HIDE DEF c2, next, a, h1
  <2> QED
    BY <2>1, <2>2, <2>3, Swallow DEF a
<1>11. X2 \subseteq {next}
  OBVIOUS
<1>12. next # Null /\ h.desc[next].addr = EndOf(d) => next \in X2
  BY <1>8, <1>9 DEF Precedes
<1>13. prev # Null /\ EndOf(h.desc[prev]) = d.addr => prev \in X1
  BY DEF Precedes
<1> HIDE DEF X1, h1, X2, h2, next, prev, g
<1>14. HeapOK(h2) /\ m \in Held(h2) /\ h2 \in Heaps /\ FreeOK(h2) /\ TilesOK(h2) /\ BlocksOK(h2)
      /\ FreeOf(h2) = FreeOf(h) \ (X1 \cup X2) /\ Allocated(h2) = Allocated(h) \ (X1 \cup X2)
      /\ X1 \cup X2 \subseteq FreeOf(h)
      /\ h2.block_addr = h.block_addr /\ SameArrays(h, h2)
      /\ h2.desc[m].index = d.index
      /\ \A k \in MCells \ (X1 \cup X2 \cup {m}) : h2.desc[k] = h.desc[k]
  <2>1. HeapOK(h2) /\ SameArrays(h1, h2) /\ h2.block_addr = h1.block_addr
        /\ X2 \subseteq FreeOf(h1) /\ FreeOf(h2) = FreeOf(h1) \ X2 /\ Allocated(h2) = Allocated(h1) \ X2
        /\ h2.desc[m].index = h1.desc[m].index
        /\ \A k \in MCells \ (X2 \cup {m}) : h2.desc[k] = h1.desc[k]
    BY <1>10 DEF Swallowed
  <2>2. SameArrays(h, h2)
    BY <1>7, <2>1 DEF SameArrays
  <2> QED
    BY <1>7, <2>1, <2>2 DEF Held, HeapOK
<1>15. h2.desc[m].addr <= d.addr /\ EndOf(d) <= EndOf(h2.desc[m]) /\ d.size <= h2.desc[m].size
       /\ h2.desc[m].addr \in Nat /\ h2.desc[m].size \in Nat
  <2>1. h2.desc[m].addr <= h1.desc[m].addr /\ EndOf(h1.desc[m]) <= EndOf(h2.desc[m])
    BY <1>10 DEF Swallowed
  <2>2. h1.desc[m].addr \in Nat /\ h1.desc[m].size \in Nat /\ h2.desc[m].addr \in Nat /\ h2.desc[m].size \in Nat
    BY <1>2, <1>7, <1>14, HeapFacts
  <2> DEFINE s0 == d.addr
             s1 == h1.desc[m].addr
             s2 == h2.desc[m].addr
             n0 == d.size
             n1 == h1.desc[m].size
             n2 == h2.desc[m].size
  <2>3. /\ s0 \in Nat /\ s1 \in Nat /\ s2 \in Nat /\ n0 \in Nat /\ n1 \in Nat /\ n2 \in Nat
        /\ s2 <= s1 /\ s1 <= s0 /\ s0 + n0 <= s1 + n1 /\ s1 + n1 <= s2 + n2
    BY <1>2, <1>7, <2>1, <2>2 DEF EndOf
  <2> HIDE DEF s0, s1, s2, n0, n1, n2
  <2>4. s2 <= s0 /\ s0 + n0 <= s2 + n2 /\ n0 <= n2
    BY <2>3
  <2> QED
    BY <2>2, <2>4 DEF EndOf, s0, s2, n0, n2
<1>16. /\ g \in Heaps /\ FreeOK(g) /\ FreeOf(g) = FreeOf(h2) \cup {m}
       /\ SameCells(h2, g) /\ SameArrays(h2, g)
  <2> DEFINE b == d.index
  <2>1. m \in MCells /\ m \notin FreeOf(h2) /\ h2.desc[m].size \in 1 .. CellsPerBlock
        /\ h2.addr_array[h2.desc[m].index] # <<>>
        /\ h2.desc[m].addr - h2.block_addr[h2.desc[m].index] \in Offs
    <3>1. m \in Allocated(h2) /\ m \notin FreeOf(h2)
      BY <1>14 DEF Held
    <3> QED
      BY <1>14, <3>1, HeldFacts
  <2>2. b \in Blocks /\ h2.desc[m].index = b
    BY <1>2, <1>14
  <2> HIDE DEF b
  <2> QED
    BY <1>4, <1>14, <2>1, <2>2, FreeCellLinked
<1>17. BlocksOK(g) /\ TilesOK(g) /\ Allocated(g) = Allocated(h2) /\ g.desc = h2.desc /\ g.block_addr = h2.block_addr
  BY <1>14, <1>16, SameTiles DEF SameCells, HeapOK
<1>18. HeapOK(g)
  <2>1. m \in Allocated(h2) /\ FreeOf(h2) \subseteq Allocated(h2)
    BY <1>14 DEF Held, HeapOK
  <2> QED
    BY <1>16, <1>17, <2>1 DEF HeapOK
<1>19. CellFreed(h, m, g)
  <2>1. SameArrays(h, g)
    BY <1>14, <1>16 DEF SameArrays
  <2>2. \A k \in Allocated(g) \ {m} : g.desc[k] = h.desc[k]
    BY <1>1, <1>14, <1>17, AllocatedFacts
  <2>3. Held(g) = Held(h) \ {m}
    BY <1>14, <1>16, <1>17 DEF Held
  <2>4. Occupied(g) \subseteq Occupied(h)
    <3>1. Allocated(g) \subseteq Allocated(h) /\ g.desc[m].index = h.desc[m].index
      BY <1>14, <1>17
    <3> QED
      BY <1>1, <2>2, <3>1 DEF Occupied
  <2> QED
    BY <1>14, <1>15, <1>16, <1>17, <1>18, <2>1, <2>2, <2>3, <2>4 DEF CellFreed
<1>20. ASSUME NEW k \in FreeOf(g), g.desc[k].index = d.index
       PROVE  /\ g.desc[k].addr # EndOf(d)
              /\ Behind(h, m) => EndOf(g.desc[k]) # d.addr
  <2>1. CASE k = m
    BY <1>2, <1>15, <1>17, <2>1 DEF EndOf
  <2>2. CASE k # m
    <3>1. k \in FreeOf(h) /\ k \notin X1 /\ k \notin X2 /\ g.desc[k] = h.desc[k]
      BY <1>5, <1>14, <1>16, <1>17, <2>2
    <3>2. k \in Near
      BY <1>20, <3>1
    <3>3. ASSUME Behind(h, m) PROVE next # Null
      <4>1. PICK l \in FreeOf(h) : h.desc[l].index = d.index /\ h.desc[l].addr > d.addr
        BY <3>3 DEF Behind
      <4> QED
        BY <1>2, <1>3, <1>5, <4>1
    <3>4. h.desc[k].addr # EndOf(d)
      <4>1. SUFFICES ASSUME h.desc[k].addr = EndOf(d) PROVE FALSE
        OBVIOUS
      <4>2. k = next
        BY <1>3, <3>2, <4>1
      <4>3. next # Null
        BY <1>5, <3>1, <4>2, CellsFacts
      <4> QED
        BY <1>12, <3>1, <4>1, <4>2, <4>3
    <3>5. ASSUME Behind(h, m), EndOf(h.desc[k]) = d.addr PROVE FALSE
      <4>1. k = prev
        BY <1>3, <3>2, <3>3, <3>5
      <4>2. prev # Null
        BY <1>5, <3>1, <4>1, CellsFacts
      <4> QED
        BY <1>13, <3>1, <3>5, <4>1, <4>2
    <3> QED
      BY <3>1, <3>4, <3>5
  <2> QED
    BY <2>1, <2>2
<1> QED
  BY <1>19, <1>20 DEF g

\* What dheap_get_free_cell does to the heap when it takes c from the free cell m.
CellTaken(h, m, n, g, c) ==
  /\ HeapOK(g) /\ SameArrays(h, g) /\ g.block_addr = h.block_addr
  /\ c \in MCells \ Held(h) /\ Held(g) = Held(h) \cup {c}
  /\ \A k \in Held(h) : g.desc[k] = h.desc[k]
  /\ n <= g.desc[c].size /\ g.desc[c].size < n + MinCells
  /\ g.desc[c].index = h.desc[m].index
  /\ g.desc[c].addr \in h.desc[m].addr .. EndOf(h.desc[m]) - 1
  /\ Occupied(g) \subseteq Occupied(h)

\* dheap_get_free_cell when too little would remain to split the cell.
LEMMA WholeCellTaken ==
  ASSUME NEW h, HeapOK(h), NEW m \in FreeOf(h), NEW n \in Nat \ {0},
         n <= h.desc[m].size, h.desc[m].size - n < MinCells
  PROVE  CellTaken(h, m, n, RmvFreeCell(h, m), m)
<1> DEFINE g == RmvFreeCell(h, m)
<1>1. h \in Heaps /\ FreeOK(h) /\ BlocksOK(h) /\ TilesOK(h) /\ FreeOf(h) \subseteq Allocated(h)
  BY DEF HeapOK
<1>2. /\ g \in Heaps /\ FreeOK(g) /\ FreeOf(g) = FreeOf(h) \ {m}
      /\ SameCells(h, g) /\ SameArrays(h, g)
  BY <1>1, FreeCellRemoved
<1> HIDE DEF g
<1>3. BlocksOK(g) /\ TilesOK(g) /\ Allocated(g) = Allocated(h) /\ g.desc = h.desc /\ g.block_addr = h.block_addr
  BY <1>1, <1>2, SameTiles DEF SameCells
<1>4. m \in MCells /\ h.desc[m].addr \in Nat /\ h.desc[m].size \in Nat \ {0}
  BY <1>1, HeldFacts
<1>5. HeapOK(g)
  BY <1>1, <1>2, <1>3 DEF HeapOK
<1>6. Held(g) = Held(h) \cup {m} /\ m \notin Held(h)
  BY <1>1, <1>2, <1>3 DEF Held
<1>7. n <= h.desc[m].size /\ h.desc[m].size < n + MinCells
      /\ h.desc[m].addr \in h.desc[m].addr .. EndOf(h.desc[m]) - 1
  BY <1>4, CellsFacts DEF EndOf
<1>8. Occupied(g) \subseteq Occupied(h)
  BY <1>3 DEF Occupied
<1> QED
  BY <1>2, <1>3, <1>4, <1>5, <1>6, <1>7, <1>8 DEF CellTaken, g

\* A cell that is to be split goes off the size list.
LEMMA PartUnlisted ==
  ASSUME NEW h, NEW S, PartOK(h, S), NEW m \in FreeOf(h)
  PROVE  LET g == UnlinkBySize(h, m) IN
         /\ PartOK(g, S \cup {m}) /\ FreeOf(g) = FreeOf(h) \ {m} /\ Allocated(g) = Allocated(h)
         /\ SameByAddr(h, g) /\ SameCells(h, g)
<1> DEFINE g == UnlinkBySize(h, m)
<1>1. h \in Heaps /\ PartFree(h, S) /\ BlocksOK(h) /\ TilesOK(h) /\ FreeOf(h) \cup S \subseteq Allocated(h)
  BY DEF PartOK
<1>2. g \in Heaps /\ SizeOK(g) /\ FreeOf(g) = FreeOf(h) \ {m} /\ SameByAddr(h, g) /\ SameCells(h, g)
  BY <1>1, SizeUnlinked DEF PartFree
<1> HIDE DEF g
<1>3. g.desc = h.desc /\ g.block_addr = h.block_addr /\ g.addr_list = h.addr_list /\ g.addr_array = h.addr_array
  BY <1>2 DEF SameCells, SameByAddr
<1>4. BlocksOK(g) /\ TilesOK(g) /\ Allocated(g) = Allocated(h)
  BY <1>1, <1>2, <1>3, SameTiles DEF SameArrays
<1>5. AddrOK(g)
  BY <1>1, <1>2, <1>3, AddrOKKept DEF PartFree
<1>6. FreeOf(g) \cup (S \cup {m}) = FreeOf(h) \cup S /\ FreeOf(g) \cap (S \cup {m}) = {}
  BY <1>1, <1>2 DEF PartFree
<1>7. PartFree(g, S \cup {m})
  BY <1>1, <1>2, <1>3, <1>5, <1>6 DEF PartFree
<1> QED
  BY <1>1, <1>2, <1>4, <1>6, <1>7 DEF PartOK, g

\* What mcell_split does when it cuts c, of n units, off the end of m, which
\* then goes back on the size list.
CellSplit(h, S, m, n, g, c) ==
  LET d    == h.desc[m]
      rest == d.size - n IN
  /\ PartOK(g, S \ {m}) /\ FreeOf(g) = FreeOf(h) \cup {m}
  /\ c \in MCells \ Allocated(h) /\ Allocated(g) = Allocated(h) \cup {c}
  /\ SameArrays(h, g) /\ g.block_addr = h.block_addr /\ g.addr_array = h.addr_array
  /\ g.desc = Split(h, m, n).desc
  /\ \A k \in MCells \ {m, c} : g.desc[k] = h.desc[k]
  /\ g.desc[m].addr = d.addr /\ g.desc[m].size = rest /\ g.desc[m].index = d.index
  /\ g.desc[c].addr = d.addr + rest /\ g.desc[c].size = n /\ g.desc[c].index = d.index
  /\ d.addr \in Nat /\ EndOf(d) \in Nat /\ d.addr + rest \in MCells
  /\ d.addr < d.addr + rest /\ d.addr + rest < EndOf(d)

\* The split keeps the heap in order.
LEMMA PartSplit ==
  ASSUME NEW h, NEW S, PartOK(h, S), NEW m \in S, NEW n \in Nat \ {0},
         h.desc[m].size - n >= MinCells
  PROVE  CellSplit(h, S, m, n, LinkBySize(Split(h, m, n), m), NewTail(h, m, n))
<1> DEFINE d    == h.desc[m]
           b    == d.index
           rest == d.size - n
           at   == d.addr + rest
           c    == NewTail(h, m, n)
           new  == [addr |-> at, size |-> n, index |-> b]
           old  == [addr |-> d.addr, size |-> rest, index |-> b]
           h2   == Split(h, m, n)
           g    == LinkBySize(h2, m)
<1>1. h \in Heaps /\ PartFree(h, S) /\ BlocksOK(h) /\ TilesOK(h) /\ FreeOf(h) \cup S \subseteq Allocated(h)
      /\ m \in Allocated(h) /\ SizeOK(h) /\ m \notin FreeOf(h)
  BY DEF PartOK, PartFree
<1>2. /\ m \in MCells /\ b \in Blocks /\ h.addr_array[b] # <<>>
      /\ h.block_addr[b] \in Places /\ h.block_addr[b] \in Nat
      /\ d.addr \in Nat /\ d.size \in 1 .. CellsPerBlock /\ d.addr - h.block_addr[b] \in Offs
      /\ h.block_addr[b] <= d.addr /\ d.addr + d.size <= h.block_addr[b] + CellsPerBlock
  BY <1>1, HeldFacts
<1>3. /\ rest \in Nat \ {0} /\ rest < d.size /\ n < d.size /\ at \in Nat /\ d.addr < at /\ at < EndOf(d)
      /\ at = EndOf(d) - n /\ at - h.block_addr[b] \in Offs /\ rest + n = d.size
      /\ rest \in 1 .. CellsPerBlock
  <2> DEFINE s == d.addr
             z == d.size
             lo == h.block_addr[b]
  <2>1. /\ s \in Nat /\ z \in 1 .. CellsPerBlock /\ lo \in Nat /\ lo <= s /\ s + z <= lo + CellsPerBlock
        /\ z - n >= MinCells
    BY <1>2
  <2> HIDE DEF s, z, lo
  <2>2. /\ z - n \in Nat \ {0} /\ z - n < z /\ n < z /\ s + (z - n) \in Nat /\ s < s + (z - n)
        /\ s + (z - n) < s + z /\ s + (z - n) = s + z - n /\ s + (z - n) - lo \in Offs /\ z - n + n = z
        /\ z - n \in 1 .. CellsPerBlock
    BY <2>1, CellsFacts, SMTT(30)
  <2>3. rest = z - n /\ at = s + (z - n) /\ EndOf(d) = s + z /\ z = d.size /\ s = d.addr /\ lo = h.block_addr[b]
    BY DEF s, z, lo, EndOf
  <2> HIDE DEF d, rest, at
  <2> QED
    BY <2>1, <2>2, <2>3
<1>4. c \in MCells \ Allocated(h) /\ at \in MCells
  <2>1. at \in MCells
    <3>1. h.block_addr[b] + (at - h.block_addr[b]) = at
      BY <1>2, <1>3
    <3> QED
      BY <1>2, <1>3, <3>1, PlacesApart
  <2>2. ASSUME NEW k \in Allocated(h), h.desc[k].addr = at PROVE FALSE
    <3>1. h.desc[k].addr \in d.addr .. EndOf(d) - 1
      <4>1. EndOf(d) \in Nat
        BY <1>2 DEF EndOf
      <4> QED
        BY <1>2, <1>3, <2>2, <4>1
    <3>2. k = m
      BY <1>1, <3>1, StartsDiffer
    <3> QED
      BY <1>2, <1>3, <2>2, <3>2
  <2>3. c = NewCell(h, at)
    BY <1>3 DEF NewTail
  <2> HIDE DEF at, c
  <2> QED
    BY <1>1, <2>1, <2>2, <2>3, NewCellIsNew
<1>8. h2 = [h EXCEPT !.desc[m].size = rest, !.desc[c] = new]
  BY DEF Split
<1> DEFINE D == h.desc
           F == [D EXCEPT ![m] = old, ![c] = new]
<1>9. D \in [MCells -> [addr : Nat, size : Nat, index : Blocks]] /\ D[m] = d
  BY <1>1 DEF Heaps
<1>10. m # c /\ c \in MCells /\ c \notin FreeOf(h)
  BY <1>1, <1>4
<1>11. new \in [addr : Nat, size : Nat, index : Blocks] /\ old \in [addr : Nat, size : Nat, index : Blocks]
       /\ new.addr = at /\ new.size = n /\ new.index = b /\ old.addr = d.addr /\ old.size = rest /\ old.index = b
  BY <1>2, <1>3
<1>12. h2 = [h EXCEPT !.desc = F]
  <2> DEFINE E1 == [D EXCEPT ![m].size = rest]
  <2>1. h.desc = D
    OBVIOUS
  <2>2. d \in [addr : Nat, size : Nat, index : Blocks]
    BY <1>2, <1>9
  <2> HIDE DEF D, rest, new, c, h2
  <2>3. h2 = [h EXCEPT !.desc = [E1 EXCEPT ![c] = new]]
    BY <1>1, <1>8, <2>1 DEF Heaps
  <2>4. E1 = [D EXCEPT ![m] = old]
    <3>1. b = d.index
      OBVIOUS
    <3> HIDE DEF d, b
    <3>2. E1[m] = old
      BY <1>2, <1>9, <2>2, <3>1
    <3>3. E1 = [k \in MCells |-> IF k = m THEN E1[m] ELSE D[k]]
      BY <1>2, <1>9
    <3>4. [D EXCEPT ![m] = old] = [k \in MCells |-> IF k = m THEN old ELSE D[k]]
      BY <1>9
    <3> HIDE DEF E1, old
    <3> QED
      BY <3>2, <3>3, <3>4
  <2> QED
    BY <2>3, <2>4
<1> HIDE DEF D, new, old, c, h2, at, rest
<1>13. /\ F \in [MCells -> [addr : Nat, size : Nat, index : Blocks]]
       /\ F[m] = old /\ F[c] = new /\ \A k \in MCells \ {m, c} : F[k] = D[k]
  BY <1>2, <1>9, <1>10, <1>11
<1> HIDE DEF F
<1>14. /\ h2 \in Heaps /\ h2.desc = F /\ SameBySize(h, h2) /\ SameByAddr(h, h2) /\ h2.block_addr = h.block_addr
  BY <1>1, <1>12, <1>13 DEF Heaps, SameBySize, SameByAddr
<1>15. FreeOf(h) \subseteq MCells /\ FreeOf(h) \cup S \subseteq MCells
  BY <1>1, AllocatedFacts
<1>16. SizeOK(h2) /\ FreeOf(h2) = FreeOf(h)
  <2>1. \A k \in FreeOf(h) : h2.desc[k].size = h.desc[k].size
    BY <1>1, <1>10, <1>13, <1>14, <1>15 DEF D
  <2> QED
    BY <1>1, <1>14, <2>1, SizeOKKept
<1>17. /\ g \in Heaps /\ SizeOK(g) /\ FreeOf(g) = FreeOf(h) \cup {m} /\ SameByAddr(h2, g) /\ SameCells(h2, g)
  <2>1. m \notin FreeOf(h2) /\ h2.desc[m].size \in 1 .. CellsPerBlock
    BY <1>1, <1>3, <1>11, <1>13, <1>14, <1>16
  <2> QED
    BY <1>2, <1>14, <1>16, <2>1, SizeLinked
<1> HIDE DEF g
<1>18. /\ g.desc = F /\ g.desc = h2.desc /\ g.block_addr = h.block_addr
       /\ g.addr_array = h.addr_array /\ SameByAddr(h, g) /\ SameArrays(h, g)
  BY <1>14, <1>17 DEF SameCells, SameByAddr, SameArrays
<1>19. \A k \in MCells \ {m, c} : g.desc[k] = h.desc[k]
  BY <1>13, <1>18 DEF D
<1>20. \A x \in Blocks : Listed(h.addr_list[x]) = {k \in FreeOf(h) \cup S : h.desc[k].index = x}
  BY <1>1 DEF PartFree
<1>21. \A k \in FreeOf(h) \cup S : g.desc[k].addr = h.desc[k].addr /\ g.desc[k].index = h.desc[k].index
  BY <1>1, <1>4, <1>11, <1>13, <1>15, <1>18, <1>19
<1>22. PartFree(g, S \ {m})
  <2>1. \A x \in Blocks : \A k \in Listed(h.addr_list[x]) :
            g.desc[k].addr = h.desc[k].addr /\ g.desc[k].index = h.desc[k].index
    BY <1>20, <1>21
  <2>2. \A x \in Blocks : Listed(h.addr_list[x]) # {} => g.block_addr[x] = h.block_addr[x]
    BY <1>18
  <2>3. AddrOK(g)
    BY <1>1, <1>17, <1>18, <2>1, <2>2, AddrOKKept DEF PartFree
  <2>4. FreeOf(g) \cup (S \ {m}) = FreeOf(h) \cup S /\ FreeOf(g) \cap (S \ {m}) = {}
    BY <1>1, <1>17 DEF PartFree
  <2>5. ASSUME NEW x \in Blocks PROVE Listed(g.addr_list[x]) = {k \in FreeOf(g) \cup (S \ {m}) : g.desc[k].index = x}
    BY <1>18, <1>20, <1>21, <2>4 DEF SameByAddr
  <2> QED
    BY <1>17, <2>3, <2>4, <2>5 DEF PartFree
<1>23. Allocated(g) = Allocated(h) \cup {c}
  <2>1. m \in Allocated(g) /\ c \in Allocated(g)
    <3>1. g.desc[m].size > 0 /\ g.desc[c].size > 0
      BY <1>3, <1>11, <1>13, <1>18
    <3> QED
      BY <1>2, <1>10, <1>17, <3>1, AllocatedFacts
  <2> QED
    BY <1>1, <1>10, <1>19, <2>1 DEF Allocated
<1>24. BlocksOK(g)
  BY <1>1, <1>18 DEF BlocksOK, SameArrays
<1>25. g.desc[m].addr = d.addr /\ g.desc[m].size = rest /\ g.desc[m].index = b
       /\ g.desc[c].addr = at /\ g.desc[c].size = n /\ g.desc[c].index = b
  BY <1>11, <1>13, <1>18
<1>26. /\ \A u \in Nat : Has(d, u) <=> Has(g.desc[m], u) \/ Has(g.desc[c], u)
       /\ Apart(g.desc[m], g.desc[c])
  <2>1. EndOf(g.desc[m]) = g.desc[c].addr
    BY <1>25 DEF EndOf, at
  <2>2. d.addr = g.desc[m].addr /\ d.size = g.desc[m].size + g.desc[c].size
    BY <1>3, <1>25
  <2> HIDE DEF d
  <2> QED
    BY <1>2, <1>3, <1>25, <2>1, <2>2, TilesJoin
<1>27. TilesOK(g)
  <2>1. g.addr_array[b] # <<>>
    BY <1>2, <1>18 DEF SameArrays
  <2>2. InBlock(g, m) /\ InBlock(g, c)
    <3> DEFINE s == d.addr
               z == d.size
               lo == h.block_addr[b]
    <3>1. /\ s \in Nat /\ z \in Nat /\ lo \in Nat /\ lo <= s /\ s + z <= lo + CellsPerBlock
          /\ rest \in Nat \ {0} /\ rest + n = z /\ at = s + rest
      BY <1>2, <1>3 DEF at
    <3> HIDE DEF s, z, lo
    <3>2. /\ rest > 0 /\ n > 0 /\ lo <= s /\ s + rest <= lo + CellsPerBlock
          /\ lo <= at /\ at + n <= lo + CellsPerBlock
      BY <3>1, CellsFacts
    <3> QED
      BY <1>18, <1>25, <2>1, <3>2 DEF InBlock, s, z, lo
  <2> DEFINE X == {m}
             Y == {m, c}
  <2>3. \A x \in X : h.desc[x].index = b
    OBVIOUS
  <2>4. Allocated(g) = (Allocated(h) \ X) \cup Y
    BY <1>1, <1>23
  <2>5. \A u \in Nat : (\E x \in X : Has(h.desc[x], u)) <=> (\E y \in Y : Has(g.desc[y], u))
    BY <1>26
  <2>6. \A k \in Allocated(h) \ X : k \notin Y /\ g.desc[k] = h.desc[k]
    BY <1>1, <1>4, <1>19, AllocatedFacts
  <2>7. \A y \in Y : g.desc[y].index = b /\ InBlock(g, y)
    BY <1>25, <2>2
  <2>8. \A y, z \in Y : y # z => Apart(g.desc[y], g.desc[z])
    BY <1>26 DEF Apart
  <2>9. X \in SUBSET Allocated(h) /\ Y \in SUBSET Allocated(g)
    BY <1>1, <1>23
  <2>10. /\ h \in Heaps /\ g \in Heaps /\ TilesOK(h) /\ BlocksOK(h) /\ SameArrays(h, g)
         /\ g.block_addr = h.block_addr /\ b \in Blocks
    BY <1>1, <1>2, <1>17, <1>18
  <2> HIDE DEF b, d, X, Y
  <2> QED
    <3>1. Retile(h, g, b, X, Y)
      BY <2>3, <2>4, <2>5, <2>6, <2>7, <2>8, <2>9, <2>10 DEF Retile
    <3> QED
      BY <3>1, Retiled
<1>28. PartOK(g, S \ {m})
  BY <1>1, <1>17, <1>22, <1>23, <1>24, <1>27 DEF PartOK
<1>29. d.addr \in Nat /\ EndOf(d) \in Nat
  BY <1>2 DEF EndOf
<1> QED
  BY <1>3, <1>4, <1>17, <1>18, <1>19, <1>23, <1>25, <1>28, <1>29 DEF CellSplit, g, c, at, rest, h2

\* dheap_get_free_cell when it splits the cell: the end of it is taken.
LEMMA SplitCellTaken ==
  ASSUME NEW h, HeapOK(h), NEW m \in FreeOf(h), NEW n \in Nat \ {0},
         h.desc[m].size - n >= MinCells
  PROVE  CellTaken(h, m, n, SplitFreeCell(h, m, n), NewTail(h, m, n))
<1> DEFINE d    == h.desc[m]
           rest == d.size - n
           c    == NewTail(h, m, n)
           h1   == UnlinkBySize(h, m)
           g    == SplitFreeCell(h, m, n)
<1>1. h \in Heaps /\ FreeOf(h) \subseteq Allocated(h) /\ PartOK(h, {}) /\ m \in Allocated(h)
  BY HeapIsPart DEF HeapOK
<1>2. /\ PartOK(h1, {} \cup {m}) /\ FreeOf(h1) = FreeOf(h) \ {m} /\ Allocated(h1) = Allocated(h)
      /\ SameByAddr(h, h1) /\ SameCells(h, h1)
  BY <1>1, PartUnlisted
<1>3. h1.desc = h.desc /\ h1.block_addr = h.block_addr /\ SameArrays(h, h1) /\ {} \cup {m} = {m} /\ {m} \ {m} = {}
  BY <1>2 DEF SameCells, SameByAddr, SameArrays
<1>4. NewTail(h1, m, n) = c
  BY <1>3 DEF NewTail, NewCell, Allocated
<1>5. g = LinkBySize(Split(h1, m, n), m)
  BY DEF SplitFreeCell, LinkBySize, UnlinkBySize
<1> HIDE DEF h1, c, g
<1>6. /\ PartOK(g, {}) /\ FreeOf(g) = FreeOf(h1) \cup {m}
      /\ c \in MCells \ Allocated(h1) /\ Allocated(g) = Allocated(h1) \cup {c}
      /\ SameArrays(h1, g) /\ g.block_addr = h1.block_addr
      /\ \A k \in MCells \ {m, c} : g.desc[k] = h1.desc[k]
      /\ g.desc[m].index = d.index
      /\ g.desc[c].addr = d.addr + rest /\ g.desc[c].size = n /\ g.desc[c].index = d.index
      /\ d.addr < d.addr + rest /\ d.addr + rest < EndOf(d) /\ d.addr \in Nat /\ EndOf(d) \in Nat
      /\ d.addr + rest \in MCells
  <2>1. PartOK(h1, {m}) /\ m \in {m} /\ h1.desc[m] = d /\ d.size - n >= MinCells
    BY <1>2, <1>3
  <2>2. CellSplit(h1, {m}, m, n, g, c)
    BY <1>4, <1>5, <2>1, PartSplit
  <2> HIDE DEF d
  <2> QED
    BY <1>3, <2>1, <2>2 DEF CellSplit, rest
<1>7. FreeOf(g) = FreeOf(h) /\ c \notin Allocated(h) /\ Allocated(g) = Allocated(h) \cup {c} /\ SameArrays(h, g)
  BY <1>2, <1>3, <1>6 DEF SameArrays
<1>8. HeapOK(g)
  BY <1>6, HeapIsPart
<1>9. c \in MCells \ Held(h) /\ Held(g) = Held(h) \cup {c}
  BY <1>1, <1>6, <1>7 DEF Held
<1>10. \A k \in Held(h) : g.desc[k] = h.desc[k]
  BY <1>1, <1>3, <1>6, <1>7, AllocatedFacts DEF Held
<1>11. n <= g.desc[c].size /\ g.desc[c].size < n + MinCells
  BY <1>6, CellsFacts
<1>12. g.desc[c].addr \in d.addr .. EndOf(d) - 1
  <2> DEFINE x == d.addr + rest
  <2>1. x \in Nat /\ d.addr < x /\ x < EndOf(d) /\ g.desc[c].addr = x /\ d.addr \in Nat /\ EndOf(d) \in Nat
    BY <1>6, CellsFacts
  <2> HIDE DEF x, d
  <2> QED
    BY <2>1
<1>13. Occupied(g) \subseteq Occupied(h)
  <2>1. ASSUME NEW k \in Allocated(g) PROVE \E l \in Allocated(h) : g.desc[k].index = h.desc[l].index
    <3>1. k \in {m, c} \/ (k \in Allocated(h) /\ k \in MCells \ {m, c})
      BY <1>1, <1>7, AllocatedFacts
    <3> QED
      BY <1>1, <1>3, <1>6, <3>1
  <2> QED
    BY <2>1 DEF Occupied
<1> QED
  BY <1>3, <1>6, <1>7, <1>8, <1>9, <1>10, <1>11, <1>12, <1>13 DEF CellTaken, g, c

\* dheap_get_free_cell takes a cell that is large enough and not much larger,
\* out of the free cell it was given, and keeps the heap in order.
THEOREM TakeCellTakes ==
  ASSUME NEW h, HeapOK(h), NEW m \in FreeOf(h), NEW n \in Nat \ {0}, n <= h.desc[m].size
  PROVE  CellTaken(h, m, n, TakeCell(h, m, n).heap, TakeCell(h, m, n).cell)
<1>1. h.desc[m].size \in Nat /\ MinCells \in Nat
  <2>1. h \in Heaps /\ m \in MCells
    BY AllocatedFacts DEF HeapOK
  <2> QED
    BY <2>1, HeapFacts, CellsFacts
<1>2. CASE h.desc[m].size - n < MinCells
  BY <1>2, WholeCellTaken DEF TakeCell
<1>3. CASE h.desc[m].size - n >= MinCells
  <2>1. ~(h.desc[m].size - n < MinCells)
    BY <1>1, <1>3
  <2>2. TakeCell(h, m, n) = [heap |-> SplitFreeCell(h, m, n), cell |-> NewTail(h, m, n)]
    BY <2>1 DEF TakeCell
  <2> QED
    BY <1>3, <2>2, SplitCellTaken
<1> QED
  BY <1>1, <1>2, <1>3

\* The first of some indices, or the one behind all of them.
LEMMA FirstIndex ==
  ASSUME NEW n \in Nat, NEW S \in SUBSET (0 .. n - 1)
  PROVE  \E b \in 0 .. n : (b < n => b \in S) /\ \A c \in 0 .. b - 1 : c \notin S
<1>1. CASE S = {}
  <2>1. n \in 0 .. n /\ ~(n < n)
    OBVIOUS
  <2> QED
    BY <1>1, <2>1
<1>2. CASE S # {}
  <2> DEFINE T == {s + 1 : s \in S}
  <2>1. T \in SUBSET (1 .. n) /\ T # {}
    BY <1>2
  <2> HIDE DEF T
  <2>2. PICK x \in T : \A y \in T : x <= y
    BY <2>1, LeastExists
  <2>3. PICK b \in S : x = b + 1
    BY DEF T
  <2>4. ASSUME NEW c \in 0 .. b - 1, c \in S PROVE FALSE
    <3>1. c + 1 \in T
      BY <2>4 DEF T
    <3> QED
      BY <2>2, <2>3, <2>4, <3>1
  <2> QED
    BY <2>4
<1> QED
  BY <1>1, <1>2

\* The lowest index that is not in use, if there is one.
LEMMA NextFreeBlockIndexFacts ==
  ASSUME NEW h \in Heaps
  PROVE  LET b == NextFreeBlockIndex(h) IN
         /\ b \in 0 .. BlockCount
         /\ b # BlockCount => b \in Blocks /\ h.block_addr[b] = 0
<1> DEFINE S == {b \in 0 .. BlockCount - 1 : h.block_addr[b] = 0}
           Is(b) == /\ b < BlockCount => h.block_addr[b] = 0
                    /\ \A c \in 0 .. b - 1 : h.block_addr[c] # 0
<1>1. BlockCount \in Nat
  BY CellsFacts
<1>2. PICK b \in 0 .. BlockCount : (b < BlockCount => b \in S) /\ \A c \in 0 .. b - 1 : c \notin S
  <2>1. S \in SUBSET (0 .. BlockCount - 1)
    OBVIOUS
  <2> HIDE DEF S
  <2> QED
    BY <1>1, <2>1, FirstIndex
<1>3. Is(b)
  BY <1>1, <1>2
<1>4. NextFreeBlockIndex(h) \in 0 .. BlockCount /\ Is(NextFreeBlockIndex(h))
  BY <1>3 DEF NextFreeBlockIndex
<1> HIDE DEF S
<1> QED
  BY <1>1, <1>4 DEF Blocks

\* A block is registered, and perhaps it gets its array.
Registered(h, b, addr, array) == [h EXCEPT !.block_addr[b] = addr, !.addr_array[b] = array]

\* What it takes for the heap to have one block more, and nothing else.
BlockIsNew(h, S, b, addr, array, g) ==
  /\ PartOK(g, S) /\ FreeOf(g) = FreeOf(h) /\ Allocated(g) = Allocated(h) /\ g.desc = h.desc
  /\ g.block_addr = [h.block_addr EXCEPT ![b] = addr]
  /\ g.addr_array = [h.addr_array EXCEPT ![b] = array]
  /\ \A m \in Allocated(h) : h.desc[m].index # b
  /\ SameBySize(h, g)

\* A block that is registered without a cell disturbs nothing.
LEMMA PartRegistered ==
  ASSUME NEW h, NEW S, PartOK(h, S), NEW b \in Blocks, h.block_addr[b] = 0,
         NEW addr \in Places, \A c \in Blocks : h.block_addr[c] # addr,
         NEW array, array = <<>> \/ array = Blank
  PROVE  BlockIsNew(h, S, b, addr, array, Registered(h, b, addr, array))
<1> DEFINE g == Registered(h, b, addr, array)
<1>1. h \in Heaps /\ PartFree(h, S) /\ BlocksOK(h) /\ TilesOK(h) /\ FreeOf(h) \cup S \subseteq Allocated(h)
  BY DEF PartOK
<1>2. addr \in Nat \ {0} /\ 0 \notin Places
  BY PlacesApart
<1>3. Blank \in [Offs -> Cells] /\ Blank # <<>> /\ \A n \in Offs : Blank[n] = Null
  <2>1. 0 \in Offs /\ DOMAIN Blank = Offs /\ DOMAIN <<>> = {}
    BY CellsFacts DEF Blank
  <2> QED
    BY <2>1 DEF Blank, Cells
<1>4. /\ g \in Heaps /\ g.desc = h.desc /\ SameBySize(h, g) /\ g.addr_list = h.addr_list
      /\ g.block_addr = [h.block_addr EXCEPT ![b] = addr]
      /\ g.addr_array = [h.addr_array EXCEPT ![b] = array]
  BY <1>1, <1>2, <1>3 DEF Heaps, SameBySize, Registered
<1> HIDE DEF g
<1>5. /\ g.block_addr[b] = addr /\ g.addr_array[b] = array
      /\ \A c \in Blocks \ {b} : g.block_addr[c] = h.block_addr[c] /\ g.addr_array[c] = h.addr_array[c]
  BY <1>1, <1>4 DEF Heaps
<1>6. h.addr_array[b] = <<>> /\ Listed(h.addr_list[b]) = {}
  BY <1>1 DEF BlocksOK, PartFree, AddrOK
<1>7. Allocated(g) = Allocated(h)
  BY <1>4 DEF Allocated
<1>8. \A m \in Allocated(h) : h.desc[m].index # b /\ h.desc[m].index \in Blocks
  <2>1. ASSUME NEW m \in Allocated(h) PROVE h.desc[m].index # b /\ h.desc[m].index \in Blocks
    BY <1>1, <1>6, HeldFacts
  <2> QED
    BY <2>1
<1>9. BlocksOK(g)
  BY <1>1, <1>2, <1>5 DEF BlocksOK
<1>10. SizeOK(g) /\ FreeOf(g) = FreeOf(h)
  BY <1>1, <1>4, SizeOKKept DEF PartFree
<1>11. AddrOK(g)
  <2>1. ASSUME NEW c \in Blocks
        PROVE  /\ \A m \in Listed(g.addr_list[c]) : g.desc[m].index = c
               /\ g.addr_array[c] = <<>> => Listed(g.addr_list[c]) = {}
               /\ g.addr_array[c] # <<>> => Indexed(g.addr_list[c], AddrKey(g, c), g.addr_array[c])
    <3>1. CASE c = b
      <4>1. \A i \in 1 .. Len(h.addr_list[b]) : FALSE
        BY <1>6 DEF Listed
      <4>2. Indexed(g.addr_list[b], AddrKey(g, b), Blank)
        BY <1>3, <1>4, <4>1 DEF Indexed, Ordered, IsFirst
      <4> QED
        BY <1>4, <1>5, <1>6, <3>1, <4>2
    <3>2. CASE c # b
      <4>1. AddrKey(g, c) = AddrKey(h, c)
        BY <1>4, <1>5, <3>2 DEF AddrKey
      <4> QED
        BY <1>1, <1>4, <1>5, <3>2, <4>1 DEF PartFree, AddrOK
    <3> QED
      BY <3>1, <3>2
  <2> QED
    BY <2>1 DEF AddrOK
<1>12. PartFree(g, S)
  BY <1>1, <1>4, <1>10, <1>11 DEF PartFree
<1>13. TilesOK(g)
  <2>1. \A m \in Allocated(h) : InBlock(h, m)
    BY <1>1 DEF TilesOK
  <2>2. \A m \in Allocated(h) : InBlock(g, m)
    BY <1>4, <1>5, <1>8, <2>1 DEF InBlock
  <2> QED
    BY <1>1, <1>4, <1>5, <1>7, <1>8, <2>2 DEF TilesOK
<1>14. PartOK(g, S)
  BY <1>1, <1>4, <1>7, <1>9, <1>10, <1>12, <1>13 DEF PartOK
<1> QED
  BY <1>4, <1>7, <1>8, <1>10, <1>14 DEF g, BlockIsNew

\* The same when no cell is being split.
LEMMA BlockRegistered ==
  ASSUME NEW h, HeapOK(h), NEW b \in Blocks, h.block_addr[b] = 0,
         NEW addr \in Places, \A c \in Blocks : h.block_addr[c] # addr,
         NEW array, array = <<>> \/ array = Blank
  PROVE  LET g == Registered(h, b, addr, array) IN
         /\ HeapOK(g) /\ FreeOf(g) = FreeOf(h) /\ Allocated(g) = Allocated(h) /\ g.desc = h.desc
         /\ g.block_addr = [h.block_addr EXCEPT ![b] = addr]
         /\ g.addr_array = [h.addr_array EXCEPT ![b] = array]
         /\ \A m \in Allocated(h) : h.desc[m].index # b
         /\ SameBySize(h, g)
<1>1. BlockIsNew(h, {}, b, addr, array, Registered(h, b, addr, array))
  BY HeapIsPart, PartRegistered
<1> QED
  BY <1>1, HeapIsPart DEF BlockIsNew

\* What it takes for block b, which has no cells, to become one cell m that is
\* not free yet.
BlockIsCell(h, S, b, m, g) ==
  /\ m \in MCells \ Allocated(h)
  /\ PartOK(g, S) /\ FreeOf(g) = FreeOf(h) /\ Allocated(g) = Allocated(h) \cup {m}
  /\ g.block_addr = h.block_addr /\ g.addr_array = h.addr_array
  /\ \A k \in MCells \ {m} : g.desc[k] = h.desc[k]
  /\ g.desc[m] = [addr |-> h.block_addr[b], size |-> CellsPerBlock, index |-> b]

\* A block without cells becomes one.
LEMMA CellPlaced ==
  ASSUME NEW h, NEW S, PartOK(h, S), NEW b \in Blocks, h.addr_array[b] # <<>>,
         \A k \in Allocated(h) : h.desc[k].index # b
  PROVE  LET m == NewCell(h, h.block_addr[b])
             new == [addr |-> h.block_addr[b], size |-> CellsPerBlock, index |-> b] IN
         BlockIsCell(h, S, b, m, [h EXCEPT !.desc[m] = new])
<1> DEFINE addr == h.block_addr[b]
           m    == NewCell(h, addr)
           new  == [addr |-> addr, size |-> CellsPerBlock, index |-> b]
           g    == [h EXCEPT !.desc[m] = new]
<1>1. h \in Heaps /\ PartFree(h, S) /\ BlocksOK(h) /\ TilesOK(h) /\ FreeOf(h) \cup S \subseteq Allocated(h)
  BY DEF PartOK
<1>2. addr \in Places
  BY <1>1 DEF BlocksOK
<1>3. addr \in Nat \ {0} /\ addr \in MCells /\ \A i \in Offs : addr + i \in MCells
  <2>1. addr \in Nat \ {0} /\ \A i \in Offs : addr + i \in MCells
    BY <1>2, PlacesApart
  <2>2. 0 \in Offs /\ addr + 0 = addr
    BY <2>1, CellsFacts
  <2> QED
    BY <2>1, <2>2
<1>4. ASSUME NEW k \in Allocated(h), h.desc[k].addr = addr PROVE FALSE
  <2> DEFINE a == h.block_addr[h.desc[k].index]
  <2>1. /\ h.desc[k].index \in Blocks /\ a \in Places /\ a \in Nat /\ h.desc[k].addr \in Nat
        /\ h.desc[k].size \in 1 .. CellsPerBlock
        /\ a <= h.desc[k].addr /\ h.desc[k].addr + h.desc[k].size <= a + CellsPerBlock
    BY <1>1, HeldFacts
  <2>2. a # addr
    BY <1>1, <1>3, <2>1 DEF BlocksOK
  <2>3. a + CellsPerBlock <= addr \/ addr + CellsPerBlock <= a
    BY <1>2, <1>3, <2>1, <2>2, PlacesApart
  <2> DEFINE z == h.desc[k].size
  <2>4. a \in Nat /\ z \in 1 .. CellsPerBlock /\ a <= addr /\ addr + z <= a + CellsPerBlock
    BY <1>4, <2>1
  <2> HIDE DEF a, z
  <2> QED
    BY <1>3, <2>3, <2>4, CellsFacts
<1>5. m \in MCells \ Allocated(h)
  BY <1>1, <1>3, <1>4, NewCellIsNew
<1> HIDE DEF m
<1>6. new \in [addr : Nat, size : Nat, index : Blocks]
      /\ new.addr = addr /\ new.size = CellsPerBlock /\ new.index = b
  BY <1>3, CellsFacts
<1> HIDE DEF new
<1>7. /\ g \in Heaps /\ SameBySize(h, g) /\ SameByAddr(h, g) /\ g.block_addr = h.block_addr
      /\ g.desc[m] = new /\ \A k \in MCells \ {m} : g.desc[k] = h.desc[k]
  BY <1>1, <1>5, <1>6 DEF Heaps, SameBySize, SameByAddr
<1> HIDE DEF g
<1>8. PartFree(g, S) /\ FreeOf(g) = FreeOf(h)
  <2>1. \A k \in FreeOf(h) \cup S : g.desc[k] = h.desc[k]
    BY <1>1, <1>5, <1>7, AllocatedFacts
  <2> QED
    BY <1>1, <1>7, <2>1, PartFreeKept
<1>9. Allocated(g) = Allocated(h) \cup {m}
  <2>1. m \in Allocated(g)
    BY <1>5, <1>6, <1>7, CellsFacts, AllocatedFacts
  <2> QED
    BY <1>1, <1>5, <1>7, <2>1 DEF Allocated
<1>10. BlocksOK(g)
  BY <1>1, <1>7 DEF BlocksOK, SameByAddr
<1>11. g.addr_array = h.addr_array
  BY <1>7 DEF SameByAddr
<1>12. TilesOK(g)
  <2>1. InBlock(g, m)
    BY <1>3, <1>6, <1>7, <1>11, CellsFacts DEF InBlock
  <2>2. \A k \in Allocated(h) : g.desc[k] = h.desc[k] /\ k # m
    BY <1>1, <1>5, <1>7, AllocatedFacts
  <2>3. \A k \in Allocated(h) : InBlock(g, k)
    BY <1>1, <1>7, <1>11, <2>2 DEF TilesOK, InBlock
  <2>4. \A i \in Offs : Has(g.desc[m], g.block_addr[b] + i)
    BY <1>3, <1>6, <1>7, CellsFacts DEF Has
  <2>5. ASSUME NEW k \in Allocated(g), NEW i \in Offs
        PROVE  \E l \in Allocated(g) : /\ g.desc[l].index = g.desc[k].index
                                       /\ Has(g.desc[l], g.block_addr[g.desc[k].index] + i)
    <3>1. CASE k = m
      BY <1>6, <1>7, <1>9, <2>4, <3>1
    <3>2. CASE k \in Allocated(h)
      <4>1. PICK l \in Allocated(h) : /\ h.desc[l].index = h.desc[k].index
                                      /\ Has(h.desc[l], h.block_addr[h.desc[k].index] + i)
        BY <1>1, <3>2 DEF TilesOK
      <4> QED
        BY <1>7, <1>9, <2>2, <3>2, <4>1
    <3> QED
      BY <1>9, <3>1, <3>2
  <2>6. ASSUME NEW k \in Allocated(g), NEW l \in Allocated(g), k # l, g.desc[k].index = g.desc[l].index
        PROVE  Apart(g.desc[k], g.desc[l])
    <3>1. k \in Allocated(h) /\ l \in Allocated(h)
      BY <1>6, <1>7, <1>9, <2>2, <2>6
    <3> QED
      BY <1>1, <2>2, <2>6, <3>1 DEF TilesOK
  <2> QED
    BY <1>9, <2>1, <2>3, <2>5, <2>6 DEF TilesOK
<1>13. PartOK(g, S)
  BY <1>1, <1>7, <1>8, <1>9, <1>10, <1>12 DEF PartOK
<1> QED
  BY <1>5, <1>7, <1>8, <1>9, <1>11, <1>13 DEF BlockIsCell, g, m, new

\* A block that is registered becomes one cell that is not free yet.
LEMMA BlockFilled ==
  ASSUME NEW h, HeapOK(h), NextFreeBlockIndex(h) # BlockCount,
         NEW addr \in Places, \A c \in Blocks : h.block_addr[c] # addr
  PROVE  LET b == NextFreeBlockIndex(h)
             m == NewCell(h, addr)
             g == FillBlock(RegisterBlock(h, addr), b, m) IN
         /\ b \in Blocks /\ h.block_addr[b] = 0 /\ h.addr_array[b] = <<>>
         /\ m \in MCells \ Allocated(h)
         /\ HeapOK(g) /\ FreeOf(g) = FreeOf(h) /\ Allocated(g) = Allocated(h) \cup {m}
         /\ g.block_addr = [h.block_addr EXCEPT ![b] = addr]
         /\ g.addr_array = [h.addr_array EXCEPT ![b] = Blank]
         /\ \A k \in MCells \ {m} : g.desc[k] = h.desc[k]
         /\ \A k \in Allocated(h) : h.desc[k].index # b
         /\ g.desc[m] = [addr |-> addr, size |-> CellsPerBlock, index |-> b]
<1> DEFINE b   == NextFreeBlockIndex(h)
           m   == NewCell(h, addr)
           new == [addr |-> addr, size |-> CellsPerBlock, index |-> b]
           h1  == Registered(h, b, addr, Blank)
           g   == FillBlock(RegisterBlock(h, addr), b, m)
<1>1. h \in Heaps /\ BlocksOK(h) /\ addr \in Nat \ {0}
  BY PlacesApart DEF HeapOK
<1>2. b \in Blocks /\ h.block_addr[b] = 0
  BY <1>1, NextFreeBlockIndexFacts
<1> HIDE DEF b
<1>3. /\ HeapOK(h1) /\ FreeOf(h1) = FreeOf(h) /\ Allocated(h1) = Allocated(h) /\ h1.desc = h.desc
      /\ h1.block_addr = [h.block_addr EXCEPT ![b] = addr]
      /\ h1.addr_array = [h.addr_array EXCEPT ![b] = Blank]
      /\ \A k \in Allocated(h) : h.desc[k].index # b
  BY <1>2, BlockRegistered
<1>4. h1 = [h EXCEPT !.block_addr[b] = addr, !.addr_array[b] = Blank]
  BY DEF Registered
<1> HIDE DEF h1
<1>5. h.addr_array[b] = <<>> /\ h1.addr_array[b] # <<>> /\ h1.block_addr[b] = addr
  <2>1. 0 \in Offs /\ DOMAIN Blank = Offs /\ DOMAIN <<>> = {}
    BY CellsFacts DEF Blank
  <2>2. h1.addr_array[b] = Blank /\ h1.block_addr[b] = addr
    BY <1>1, <1>2, <1>3 DEF Heaps
  <2> QED
    BY <1>1, <1>2, <2>1, <2>2 DEF BlocksOK
<1>6. NewCell(h1, addr) = m
  BY <1>3 DEF NewCell
<1> HIDE DEF m
<1>7. g = [h1 EXCEPT !.desc[m] = new]
  <2>1. RegisterBlock(h, addr) = [h EXCEPT !.block_addr[b] = addr]
    BY DEF RegisterBlock, b
  <2>2. [h EXCEPT !.block_addr[b] = addr].block_addr[b] = addr
    BY <1>1, <1>2 DEF Heaps
  <2>3. g = [[h EXCEPT !.block_addr[b] = addr] EXCEPT !.addr_array[b] = Blank, !.desc[m] = new]
    BY <2>1, <2>2 DEF FillBlock
  <2> HIDE DEF new
  <2> QED
    BY <1>1, <1>4, <2>3 DEF Heaps
<1> HIDE DEF g
<1>8. BlockIsCell(h1, {}, b, m, g)
  <2>1. PartOK(h1, {})
    BY <1>3, HeapIsPart
  <2> QED
    BY <1>2, <1>3, <1>5, <1>6, <1>7, <2>1, CellPlaced
<1> QED
  BY <1>2, <1>3, <1>5, <1>8, HeapIsPart DEF BlockIsCell, g, m, b, new

\* The hint is a free cell of the least sufficient size.
LEMMA SizeHintFits ==
  ASSUME NEW h \in Heaps, SizeOK(h), NEW n \in 1 .. CellsPerBlock
  PROVE  LET m == h.size_array[n - 1] IN
         /\ m = Null => \A k \in FreeOf(h) : h.desc[k].size < n
         /\ m # Null => /\ m \in FreeOf(h) /\ n <= h.desc[m].size
                        /\ \A k \in FreeOf(h) : n <= h.desc[k].size => h.desc[m].size <= h.desc[k].size
<1> DEFINE list == h.size_list
           key  == SizeKey(h)
           m    == h.size_array[n - 1]
<1>1. FreeOf(h) = Listed(list)
  BY DEF FreeOf
<1>2. list \in Lists /\ key \in [MCells -> Int] /\ \A k \in MCells : key[k] = h.desc[k].size /\ h.desc[k].size \in Nat
  BY <1>1, HeapFacts
<1>3. n - 1 \in Offs /\ n - 1 \in Int /\ m = h.size_array[n - 1]
  BY CellsFacts
<1>4. Ordered(list, key) /\ IsFirst(list, key, n - 1, m)
  BY <1>1, <1>3 DEF SizeOK, Indexed
<1> HIDE DEF list, key, m
<1>5. /\ m = Null => \A k \in Listed(list) : key[k] <= n - 1
      /\ m # Null =>
           /\ m \in Listed(list) /\ key[m] > n - 1
           /\ \A k \in Listed(list) : key[k] > n - 1 => key[m] <= key[k]
  BY <1>2, <1>3, <1>4, AroundKey
<1>6. \A k \in Listed(list) : k \in MCells
  BY <1>2, ListedFacts
<1> QED
  BY <1>1, <1>2, <1>5, <1>6 DEF m

\* The heap after dheap_init is in order.
LEMMA EmptyIsOK == HeapOK(Empty) /\ Allocated(Empty) = {} /\ FreeOf(Empty) = {}
<1>1. 0 \in Blocks /\ Blank \in [Offs -> Cells] /\ BlockCount \in Nat
  BY CellsFacts DEF Blocks, Blank, Cells
<1>2. <<>> \in Lists /\ Len(<<>>) = 0 /\ Listed(<<>>) = {}
  BY DEF Lists, Listed
<1>3. Empty \in Heaps
  <2>1. NoDesc \in [addr : Nat, size : Nat, index : Blocks]
    BY <1>1 DEF NoDesc
  <2> QED
    BY <1>1, <1>2, <2>1 DEF Empty, Heaps
<1>4. Empty.size_list = <<>> /\ Empty.size_array = Blank
      /\ \A b \in Blocks : Empty.addr_list[b] = <<>> /\ Empty.addr_array[b] = <<>> /\ Empty.block_addr[b] = 0
  BY DEF Empty
<1>5. Allocated(Empty) = {} /\ FreeOf(Empty) = {}
  BY <1>2, <1>4 DEF Allocated, Empty, FreeOf
<1>6. SizeOK(Empty)
  <2> DEFINE key == SizeKey(Empty)
  <2> HIDE DEF key
  <2>1. Ordered(<<>>, key) /\ \A n \in Offs : IsFirst(<<>>, key, n, Null)
    BY <1>2 DEF Ordered, IsFirst
  <2>2. \A n \in Offs : Blank[n] = Null
    BY DEF Blank
  <2> QED
    BY <1>4, <2>1, <2>2 DEF SizeOK, Indexed, key
<1>7. AddrOK(Empty)
  BY <1>2, <1>4 DEF AddrOK
<1>8. \A b \in Blocks : Listed(Empty.addr_list[b]) = {m \in FreeOf(Empty) : Empty.desc[m].index = b}
  BY <1>2, <1>4, <1>5
<1>9. BlocksOK(Empty)
  BY <1>4 DEF BlocksOK
<1>10. TilesOK(Empty)
  BY <1>5 DEF TilesOK
<1> QED
  BY <1>3, <1>5, <1>6, <1>7, <1>8, <1>9, <1>10 DEF HeapOK, FreeOK
==============================================================================
