------------------------- MODULE CachePersistProofs -------------------------
(***************************************************************************)
(* Proofs about CachePersist: for any keys and encoded lengths, any number  *)
(* of writers and of reloads, the cache file decodes to the entries that    *)
(* were written to it, at every step of a save, a crash or a restart.       *)
(***************************************************************************)
EXTENDS CachePersist, WellFoundedInduction, TLAPS

\* One turn of deserialize_many at cell i, where g is what the turns after it make of
\* the rest of the file.
Turn(f, g, i) ==
  IF i = Len(f) + 1 THEN <<>>
  ELSE IF ~Whole(f, i) THEN Torn
  ELSE IF g[i + Size[f[i][1]]] = Torn THEN Torn
  ELSE <<[key |-> f[i][1], left |-> f[i][2]]>> \o g[i + Size[f[i][1]]]

\* g is what decoding from cell m on, or any later one, gives.
DecodesFrom(f, g, m) == g = [i \in m..Len(f) + 1 |-> Turn(f, g, i)]

\* The file f is the entries es, one encoded after the other: entry n starts at pos[n].
Laid(f, es, pos) ==
  /\ pos \in [1..Len(es) + 1 -> 1..Len(f) + 1]
  /\ pos[1] = 1 /\ pos[Len(es) + 1] = Len(f) + 1
  /\ \A n \in 1..Len(es) :
       /\ pos[n + 1] = pos[n] + Size[es[n].key]
       /\ \A m \in 1..Size[es[n].key] : f[pos[n] + m - 1] = <<es[n].key, es[n].left, m>>

-----------------------------------------------------------------------------
\* A set of naturals has a least element.
LEMMA LeastNat ==
  ASSUME NEW S, S \subseteq Nat, S # {}
  PROVE  \E x \in S : \A y \in S : x <= y
<1>1. PICK x \in S : \A y \in S : ~(<<y, x>> \in OpToRel(<, Nat))
  BY NatLessThanWellFounded, WFMin, Zenon
<1>2. \A y \in S : ~(y < x)
  BY <1>1, Zenon DEF OpToRel
<1> QED BY <1>2

\* An entry that is whole ends within the file, after the cell it starts at.
LEMMA WholeEnds ==
  ASSUME NEW f \in Seq(Cell), NEW i \in 1..Len(f), Whole(f, i)
  PROVE  /\ f[i][1] \in Key /\ f[i][2] \in 0..TTL
         /\ Size[f[i][1]] \in Nat \ {0}
         /\ i + Size[f[i][1]] \in i + 1..Len(f) + 1
<1>1. f[i] \in Cell /\ f[i] # Hole
  BY DEF Whole
<1>2. f[i][1] \in Key /\ f[i][2] \in 0..TTL
  BY <1>1 DEF Cell
<1>3. Size[f[i][1]] \in Nat \ {0}
  BY <1>2, PersistAssumption
<1>4. i + Size[f[i][1]] - 1 <= Len(f)
  BY DEF Whole
<1> QED BY <1>2, <1>3, <1>4

\* A turn looks only at what later turns give.
LEMMA TurnLooksAhead ==
  ASSUME NEW f \in Seq(Cell), NEW g, NEW h, NEW i \in 1..Len(f) + 1,
         \A j \in i + 1..Len(f) + 1 : g[j] = h[j]
  PROVE  Turn(f, g, i) = Turn(f, h, i)
<1>1. CASE i = Len(f) + 1 \/ ~Whole(f, i)
  BY <1>1 DEF Turn
<1>2. CASE i # Len(f) + 1 /\ Whole(f, i)
  <2>1. i \in 1..Len(f)
    BY <1>2
  <2>2. i + Size[f[i][1]] \in i + 1..Len(f) + 1
    BY <1>2, <2>1, WholeEnds
  <2>3. g[i + Size[f[i][1]]] = h[i + Size[f[i][1]]]
    BY <2>2
  <2> QED BY <2>3 DEF Turn
<1> QED BY <1>1, <1>2

\* What decoding from one cell later gives can be extended by a turn.
LEMMA DecodeOneMore ==
  ASSUME NEW f \in Seq(Cell), NEW m \in 1..Len(f), NEW g, DecodesFrom(f, g, m + 1)
  PROVE  \E h : DecodesFrom(f, h, m)
<1>1. PICK h : h = [i \in m..Len(f) + 1 |-> IF i = m THEN Turn(f, g, m) ELSE g[i]]
  BY Zenon
<1>2. \A i \in m + 1..Len(f) + 1 : h[i] = g[i] /\ g[i] = Turn(f, g, i)
  <2>1. \A i \in m + 1..Len(f) + 1 : g[i] = Turn(f, g, i)
    BY DEF DecodesFrom
  <2>2. \A i \in m + 1..Len(f) + 1 : i \in m..Len(f) + 1 /\ i # m
    OBVIOUS
  <2> QED BY <1>1, <2>1, <2>2
<1>3. \A i \in m..Len(f) + 1 : h[i] = Turn(f, h, i)
  <2> SUFFICES ASSUME NEW i \in m..Len(f) + 1 PROVE h[i] = Turn(f, h, i)
    OBVIOUS
  <2>1. i \in 1..Len(f) + 1 /\ \A j \in i + 1..Len(f) + 1 : j \in m + 1..Len(f) + 1
    OBVIOUS
  <2>2. Turn(f, g, i) = Turn(f, h, i)
    BY <1>2, <2>1, TurnLooksAhead
  <2>3. CASE i = m
    BY <1>1, <2>2, <2>3, Zenon
  <2>4. CASE i # m
    <3>1. i \in m + 1..Len(f) + 1
      BY <2>4
    <3> QED BY <1>2, <2>2, <3>1
  <2> QED BY <2>3, <2>4
<1>4. h = [i \in m..Len(f) + 1 |-> Turn(f, h, i)]
  BY <1>1, <1>3
<1> QED BY <1>4 DEF DecodesFrom

\* Decoding a file is defined from every cell on, by extending it from the end.
LEMMA DecodeDefined ==
  ASSUME NEW f \in Seq(Cell)
  PROVE  \E g : DecodesFrom(f, g, 1)
<1>1. PICK B : B = {n \in Nat : n <= Len(f) /\ ~\E g : DecodesFrom(f, g, Len(f) + 1 - n)}
  BY Zenon
<1>2. CASE B = {}
  <2>1. Len(f) \in Nat /\ Len(f) + 1 - Len(f) = 1
    OBVIOUS
  <2> QED BY <1>1, <1>2, <2>1
<1>3. CASE B # {}
  <2>1. PICK n \in B : \A y \in B : n <= y
    BY <1>1, <1>3, LeastNat, Zenon
  <2>2. n \in Nat /\ n <= Len(f) /\ ~\E g : DecodesFrom(f, g, Len(f) + 1 - n)
    BY <1>1, <2>1
  <2>3. n # 0
    <3>1. PICK g : g = [i \in {Len(f) + 1} |-> <<>>]
      BY Zenon
    <3>2. Len(f) + 1..Len(f) + 1 = {Len(f) + 1} /\ Len(f) + 1 - 0 = Len(f) + 1
      OBVIOUS
    <3>3. Turn(f, g, Len(f) + 1) = <<>>
      BY DEF Turn
    <3>4. DecodesFrom(f, g, Len(f) + 1)
      BY <3>1, <3>2, <3>3 DEF DecodesFrom
    <3> QED BY <2>2, <3>2, <3>4
  <2>4. n - 1 \in Nat /\ ~(n <= n - 1) /\ n - 1 <= Len(f)
    BY <2>2, <2>3
  <2>5. n - 1 \notin B
    BY <2>1, <2>4
  <2>6. PICK m \in 1..Len(f) : m = Len(f) + 1 - n /\ m + 1 = Len(f) + 1 - (n - 1)
    <3>1. Len(f) \in Nat
      OBVIOUS
    <3>2. Len(f) + 1 - n \in 1..Len(f) /\ (Len(f) + 1 - n) + 1 = Len(f) + 1 - (n - 1)
      BY <2>2, <2>3, <3>1
    <3> QED BY <3>2
  <2>7. \E g : DecodesFrom(f, g, m + 1)
    <3>1. \E g : DecodesFrom(f, g, Len(f) + 1 - (n - 1))
      BY <1>1, <2>4, <2>5, Zenon
    <3> QED BY <2>6, <3>1, Zenon
  <2>8. \E h : DecodesFrom(f, h, m)
    BY <2>7, DecodeOneMore
  <2> QED BY <2>2, <2>6, <2>8
<1> QED BY <1>2, <1>3

\* Decode is where decoding from the first cell leads.
LEMMA DecodeIs ==
  ASSUME NEW f \in Seq(Cell)
  PROVE  \E g : DecodesFrom(f, g, 1) /\ Decode(f) = g[1]
<1>1. PICK g : g = CHOOSE from : from = [i \in 1..Len(f) + 1 |-> Turn(f, from, i)]
  OBVIOUS
<1>2. \E from : from = [i \in 1..Len(f) + 1 |-> Turn(f, from, i)]
  BY DecodeDefined DEF DecodesFrom
<1>3. g = [i \in 1..Len(f) + 1 |-> Turn(f, g, i)]
  BY <1>1, <1>2, Zenon
<1>4. Decode(f) = g[1]
  BY <1>1, Zenon DEF Decode, Turn
<1> QED BY <1>3, <1>4, Zenon DEF DecodesFrom

\* What a decoding gives at a cell, in terms of what it gives after it.
LEMMA TurnAt ==
  ASSUME NEW f \in Seq(Cell), NEW g, DecodesFrom(f, g, 1), NEW i \in 1..Len(f) + 1
  PROVE  g[i] = Turn(f, g, i)
BY DEF DecodesFrom

\* A decoding gives entries, or that the file is torn.
LEMMA DecodedTypes ==
  ASSUME NEW f \in Seq(Cell), NEW g, DecodesFrom(f, g, 1), NEW i \in 1..Len(f) + 1
  PROVE  g[i] \in Seq(Entry) \cup {Torn}
<1>0. Len(f) \in Nat
  OBVIOUS
<1>1. PICK B : B = {n \in Nat : n <= Len(f) /\ g[Len(f) + 1 - n] \notin Seq(Entry) \cup {Torn}}
  BY Zenon
<1>2. CASE B = {}
  <2>1. PICK n \in Nat : n = Len(f) + 1 - i /\ n <= Len(f) /\ Len(f) + 1 - n = i
    <3>1. Len(f) + 1 - i \in Nat /\ Len(f) + 1 - i <= Len(f) /\ Len(f) + 1 - (Len(f) + 1 - i) = i
      BY <1>0
    <3> QED BY <3>1, Zenon
  <2> QED BY <1>1, <1>2, <2>1, Zenon
<1>3. CASE B # {}
  <2>1. PICK n \in B : \A y \in B : n <= y
    BY <1>1, <1>3, LeastNat, Zenon
  <2>2. n \in Nat /\ n <= Len(f) /\ g[Len(f) + 1 - n] \notin Seq(Entry) \cup {Torn}
    BY <1>1, <2>1
  <2>3. PICK m \in 1..Len(f) + 1 : m = Len(f) + 1 - n
    <3>1. Len(f) + 1 - n \in 1..Len(f) + 1
      BY <1>0, <2>2
    <3> QED BY <3>1
  <2>4. g[m] = Turn(f, g, m) /\ g[m] \notin Seq(Entry) \cup {Torn}
    BY <2>2, <2>3, TurnAt
  <2>5. m # Len(f) + 1 /\ Whole(f, m)
    <3>1. <<>> \in Seq(Entry)
      OBVIOUS
    <3> QED BY <2>4, <3>1 DEF Turn
  <2>6. m \in 1..Len(f)
    BY <2>5
  <2>7. PICK k \in Int : k = m + Size[f[m][1]] /\ k \in m + 1..Len(f) + 1
    BY <2>5, <2>6, WholeEnds
  <2>8. g[k] \in Seq(Entry) \cup {Torn}
    <3>1. Len(f) + 1 - k \in Nat /\ Len(f) + 1 - k <= Len(f) /\ Len(f) + 1 - (Len(f) + 1 - k) = k
          /\ ~(n <= Len(f) + 1 - k)
      BY <1>0, <2>2, <2>3, <2>7
    <3>2. Len(f) + 1 - k \notin B
      BY <2>1, <3>1
    <3> QED BY <1>1, <3>1, <3>2
  <2>9. [key |-> f[m][1], left |-> f[m][2]] \in Entry
    BY <2>5, <2>6, WholeEnds DEF Entry
  <2>10. \A s \in Seq(Entry) : \A e \in Entry : <<e>> \o s \in Seq(Entry)
    OBVIOUS
  <2>11. g[k] # Torn => <<[key |-> f[m][1], left |-> f[m][2]]>> \o g[k] \in Seq(Entry)
    BY <2>8, <2>9, <2>10
  <2>12. g[m] \in Seq(Entry) \cup {Torn}
    BY <2>4, <2>5, <2>7, <2>11 DEF Turn
  <2> QED BY <2>4, <2>12
<1> QED BY <1>2, <1>3

\* The same of Decode, which never makes nothing of something.
LEMMA DecodeTypes ==
  ASSUME NEW f \in Seq(Cell)
  PROVE  /\ Decode(f) \in Seq(Entry) \cup {Torn}
         /\ f # <<>> => Decode(f) # <<>> \/ Decode(f) = Torn
<1>1. PICK g : DecodesFrom(f, g, 1) /\ Decode(f) = g[1]
  BY DecodeIs
<1>2. 1 \in 1..Len(f) + 1
  OBVIOUS
<1>3. g[1] \in Seq(Entry) \cup {Torn}
  BY <1>1, <1>2, DecodedTypes
<1>4. ASSUME f # <<>>, g[1] # Torn PROVE g[1] # <<>>
  <2>1. 1 \in 1..Len(f) /\ 1 # Len(f) + 1
    BY <1>4
  <2>2. Whole(f, 1) /\ g[1] = Turn(f, g, 1)
    BY <1>1, <1>2, <1>4, <2>1, TurnAt DEF Turn
  <2>3. PICK k \in 1..Len(f) + 1 : k = 1 + Size[f[1][1]]
    BY <2>1, <2>2, WholeEnds
  <2>4. g[k] \in Seq(Entry) \cup {Torn}
    BY <1>1, DecodedTypes
  <2>5. [key |-> f[1][1], left |-> f[1][2]] \in Entry
    BY <2>1, <2>2, WholeEnds DEF Entry
  <2>6. g[1] = <<[key |-> f[1][1], left |-> f[1][2]]>> \o g[k] /\ g[k] # Torn
    BY <1>4, <2>1, <2>2, <2>3 DEF Turn
  <2>7. \A s \in Seq(Entry) : \A e \in Entry : <<e>> \o s # <<>>
    OBVIOUS
  <2> QED BY <2>4, <2>5, <2>6, <2>7
<1> QED BY <1>1, <1>3, <1>4

\* An entry of a file that is laid out is whole where it starts.
LEMMA LaidWhole ==
  ASSUME NEW f \in Seq(Cell), NEW es \in Seq(Entry), NEW pos, Laid(f, es, pos),
         NEW n \in 1..Len(es)
  PROVE  /\ pos[n] \in 1..Len(f) /\ Whole(f, pos[n])
         /\ f[pos[n]][1] = es[n].key /\ f[pos[n]][2] = es[n].left
         /\ pos[n + 1] = pos[n] + Size[es[n].key]
<1>0. Len(es) \in Nat /\ n \in 1..Len(es) + 1 /\ n + 1 \in 1..Len(es) + 1
  OBVIOUS
<1>1. PICK i \in 1..Len(f) + 1 : i = pos[n]
  BY <1>0 DEF Laid
<1>2. pos[n + 1] \in 1..Len(f) + 1
  BY <1>0 DEF Laid
<1>3. es[n] \in Entry /\ es[n].key \in Key /\ es[n].left \in 0..TTL
  <2>1. es[n] \in Entry
    OBVIOUS
  <2> QED BY <2>1 DEF Entry
<1>4. PICK s \in Nat \ {0} : s = Size[es[n].key]
  BY <1>3, PersistAssumption
<1>5. pos[n + 1] = i + s /\ \A m \in 1..s : f[i + m - 1] = <<es[n].key, es[n].left, m>>
  BY <1>1, <1>4, Zenon DEF Laid
<1>6. i \in 1..Len(f) /\ i + s - 1 <= Len(f)
  BY <1>2, <1>5
<1>7. f[i] = <<es[n].key, es[n].left, 1>>
  <2>1. 1 \in 1..s /\ i + 1 - 1 = i
    OBVIOUS
  <2> QED BY <1>5, <2>1
<1>8. f[i] # Hole /\ f[i][1] = es[n].key /\ f[i][2] = es[n].left
  BY <1>7 DEF Hole
<1>9. Whole(f, i)
  BY <1>4, <1>5, <1>6, <1>8 DEF Whole
<1> QED BY <1>1, <1>4, <1>5, <1>6, <1>8, <1>9

\* The first entry of the rest of a sequence, and what follows it.
LEMMA RestOf ==
  ASSUME NEW es \in Seq(Entry), NEW n \in 1..Len(es)
  PROVE  /\ SubSeq(es, n + 1, Len(es)) \in Seq(Entry)
         /\ <<es[n]>> \o SubSeq(es, n + 1, Len(es)) = SubSeq(es, n, Len(es))
<1>1. SubSeq(es, n + 1, Len(es)) \in Seq(Entry) /\ SubSeq(es, n, Len(es)) \in Seq(Entry)
  OBVIOUS
<1>2. /\ Len(SubSeq(es, n + 1, Len(es))) = Len(es) - n
      /\ Len(SubSeq(es, n, Len(es))) = Len(es) - n + 1
  OBVIOUS
<1>3. PICK r \in Seq(Entry) : r = SubSeq(es, n + 1, Len(es)) /\ Len(r) = Len(es) - n
  BY <1>1, <1>2, Zenon
<1>4. <<es[n]>> \o r \in Seq(Entry) /\ Len(<<es[n]>> \o r) = Len(es) - n + 1
  BY <1>3
<1>5. \A i \in 1..Len(es) - n : r[i] = es[n + i]
  BY <1>3
<1>6. \A i \in 1..Len(es) - n + 1 : SubSeq(es, n, Len(es))[i] = es[n + i - 1]
  OBVIOUS
<1>7. \A i \in 1..Len(es) - n + 1 : (<<es[n]>> \o r)[i] = es[n + i - 1]
  <2> SUFFICES ASSUME NEW i \in 1..Len(es) - n + 1 PROVE (<<es[n]>> \o r)[i] = es[n + i - 1]
    BY Zenon
  <2>1. CASE i = 1
    BY <2>1
  <2>2. CASE i # 1
    <3>1. i - 1 \in 1..Len(es) - n /\ n + (i - 1) = n + i - 1
      BY <2>2
    <3>2. (<<es[n]>> \o r)[i] = r[i - 1]
      BY <1>3, <2>2
    <3> QED BY <1>5, <3>1, <3>2, Zenon
  <2> QED BY <2>1, <2>2, Zenon
<1> QED BY <1>1, <1>2, <1>3, <1>4, <1>6, <1>7

\* A file that is laid out decodes, from the start of each entry on, to the rest of the
\* entries.
LEMMA DecodedFromEntry ==
  ASSUME NEW f \in Seq(Cell), NEW es \in Seq(Entry), NEW pos, Laid(f, es, pos),
         NEW g, DecodesFrom(f, g, 1)
  PROVE  g[pos[1]] = SubSeq(es, 1, Len(es))
<1>0. Len(es) \in Nat
  OBVIOUS
<1>1. PICK B : B = {n \in Nat : n <= Len(es) /\
                      g[pos[Len(es) + 1 - n]] # SubSeq(es, Len(es) + 1 - n, Len(es))}
  BY Zenon
<1>2. CASE B = {}
  <2>1. Len(es) + 1 - Len(es) = 1 /\ Len(es) <= Len(es)
    BY <1>0
  <2> QED BY <1>0, <1>1, <1>2, <2>1, Zenon
<1>3. CASE B # {}
  <2>1. PICK n \in B : \A y \in B : n <= y
    BY <1>1, <1>3, LeastNat, Zenon
  <2>2. n \in Nat /\ n <= Len(es)
        /\ g[pos[Len(es) + 1 - n]] # SubSeq(es, Len(es) + 1 - n, Len(es))
    BY <1>1, <2>1
  <2>3. n # 0
    <3>1. pos[Len(es) + 1] = Len(f) + 1 /\ Len(f) + 1 \in 1..Len(f) + 1
      BY DEF Laid
    <3>2. g[Len(f) + 1] = <<>>
      BY <3>1, TurnAt, Zenon DEF Turn
    <3>3. SubSeq(es, Len(es) + 1, Len(es)) = <<>>
      OBVIOUS
    <3>4. Len(es) + 1 - 0 = Len(es) + 1
      BY <1>0
    <3> QED BY <2>2, <3>1, <3>2, <3>3, <3>4, Zenon
  <2>4. PICK q \in 1..Len(es) : q = Len(es) + 1 - n /\ q + 1 = Len(es) + 1 - (n - 1)
    <3>1. Len(es) + 1 - n \in 1..Len(es) /\ (Len(es) + 1 - n) + 1 = Len(es) + 1 - (n - 1)
      BY <1>0, <2>2, <2>3
    <3> QED BY <3>1
  <2>5. g[pos[q + 1]] = SubSeq(es, q + 1, Len(es))
    <3>1. n - 1 \in Nat /\ n - 1 <= Len(es) /\ ~(n <= n - 1)
      BY <1>0, <2>2, <2>3
    <3>2. n - 1 \notin B
      BY <2>1, <3>1
    <3>3. g[pos[Len(es) + 1 - (n - 1)]] = SubSeq(es, Len(es) + 1 - (n - 1), Len(es))
      BY <1>1, <3>1, <3>2, Zenon
    <3> QED BY <2>4, <3>3, Zenon
  <2>6. /\ pos[q] \in 1..Len(f) /\ Whole(f, pos[q])
        /\ f[pos[q]][1] = es[q].key /\ f[pos[q]][2] = es[q].left
        /\ pos[q + 1] = pos[q] + Size[es[q].key]
    BY LaidWhole
  <2>7. PICK i \in 1..Len(f) : i = pos[q]
    BY <2>6
  <2>8. g[i] = Turn(f, g, i) /\ i # Len(f) + 1
    BY TurnAt
  <2>9. SubSeq(es, q + 1, Len(es)) \in Seq(Entry)
        /\ <<es[q]>> \o SubSeq(es, q + 1, Len(es)) = SubSeq(es, q, Len(es))
    BY RestOf
  <2>10. g[i + Size[f[i][1]]] = SubSeq(es, q + 1, Len(es))
    BY <2>5, <2>6, <2>7
  <2>11. g[i + Size[f[i][1]]] # Torn
    BY <2>9, <2>10, PersistAssumption, Zenon
  <2>12. [key |-> f[i][1], left |-> f[i][2]] = es[q]
    <3>1. es[q] \in Entry
      OBVIOUS
    <3> QED BY <2>6, <2>7, <3>1 DEF Entry
  <2>13. g[i] = SubSeq(es, q, Len(es))
    BY <2>6, <2>7, <2>8, <2>9, <2>10, <2>11, <2>12 DEF Turn
  <2> QED BY <2>2, <2>4, <2>7, <2>13
<1> QED BY <1>2, <1>3

\* A file that is laid out decodes to its entries, whatever they are.
LEMMA DecodeLaid ==
  ASSUME NEW f \in Seq(Cell), NEW es \in Seq(Entry), NEW pos, Laid(f, es, pos)
  PROVE  Decode(f) = es
<1>1. PICK g : DecodesFrom(f, g, 1) /\ Decode(f) = g[1]
  BY DecodeIs
<1>2. pos[1] = 1
  BY DEF Laid
<1>3. g[1] = SubSeq(es, 1, Len(es))
  BY <1>1, <1>2, DecodedFromEntry
<1>4. SubSeq(es, 1, Len(es)) = es
  OBVIOUS
<1> QED BY <1>1, <1>3, <1>4

-----------------------------------------------------------------------------
\* What the types leave out: how many caches there are, and that a task has something to
\* load, or to look at, when it does.
Tidy ==
  /\ Len(cache) <= changes + 1
  /\ \A c \in DOMAIN task : /\ task[c].pc = "push" => task[c].todo # <<>>
                            /\ task[c].pc = "snap" => task[c].at \in 1..Len(Shards)

\* What the writers keep of the file: unless it was opened over another writer, a single
\* one has it open; and unless a write was cut short it is laid out as the entries
\* written since, with that writer at its end.
WellWritten ==
  /\ \A j \in Writer : job[j].st = "queued" => job[j].off = 0
  /\ \A j \in Writer : job[j].st = "open" => file # Absent
  /\ ~mixed => \A i, j \in Writer : job[i].st = "open" /\ job[j].st = "open" => i = j
  /\ file # Absent /\ ~mixed /\ ~broken =>
       /\ \E pos : Laid(file, wrote, pos)
       /\ \A j \in Writer : job[j].st = "open" => job[j].off = Len(file)

\* The inductive invariant.
IInv == TypeOK /\ Tidy /\ WellWritten

-----------------------------------------------------------------------------
\* A function on 1..n is a sequence.
LEMMA SeqOf ==
  ASSUME NEW T, NEW n \in Nat, NEW t \in [1..n -> T]
  PROVE  t \in Seq(T) /\ Len(t) = n /\ DOMAIN t = 1..n
OBVIOUS

\* A sequence with one element replaced.
LEMMA SeqPut ==
  ASSUME NEW T, NEW s \in Seq(T), NEW c \in DOMAIN s, NEW x \in T
  PROVE  /\ [s EXCEPT ![c] = x] \in Seq(T)
         /\ Len([s EXCEPT ![c] = x]) = Len(s) /\ DOMAIN [s EXCEPT ![c] = x] = DOMAIN s
         /\ \A d \in DOMAIN s : [s EXCEPT ![c] = x][d] = IF d = c THEN x ELSE s[d]
<1>1. [s EXCEPT ![c] = x] \in [1..Len(s) -> T]
  OBVIOUS
<1>2. [s EXCEPT ![c] = x] \in Seq(T) /\ Len([s EXCEPT ![c] = x]) = Len(s)
  BY <1>1, SeqOf
<1> QED BY <1>2

\* The length of an encoded entry, and the constants.
LEMMA Constants ==
  /\ \A k \in Key : Size[k] \in Nat \ {0}
  /\ \A i \in 1..Len(Shards) : Shards[i] \in Key
  /\ Len(Shards) \in Nat \ {0}
  /\ TTL \in Nat \ {0} /\ MAX_CHANGES \in Nat /\ Absent \notin 0..TTL /\ Absent \notin Seq(Cell)
<1>1. Shards \in Seq(Key) /\ Shards # <<>>
  BY PersistAssumption
<1>2. Len(Shards) \in Nat \ {0} /\ \A i \in 1..Len(Shards) : Shards[i] \in Key
  BY <1>1
<1> QED BY <1>2, PersistAssumption

\* The records the steps build.
LEMMA Records ==
  /\ NoJob \in Jobs
  /\ \A p \in {"load", "push", "wait", "signalled", "snap", "await", "done"} : Idle(p) \in Tasks
  /\ Empty \in Caches
<1>1. <<>> \in Seq(Entry) /\ 0 \in 0..Len(Shards) /\ 0 \in 0..MAX_CHANGES + 1
  BY Constants
<1>2. NoJob \in Jobs
  BY <1>1 DEF NoJob, Jobs
<1>3. \A p \in {"load", "push", "wait", "signalled", "snap", "await", "done"} : Idle(p) \in Tasks
  BY <1>1 DEF Idle, Tasks
<1> QED BY <1>2, <1>3 DEF Empty, Caches

\* A second less is still a number of seconds that may be left.
LEMMA OlderTypes ==
  /\ \A l \in 0..TTL : Older(l) \in 0..TTL
  /\ Older(Absent) = Absent
  /\ \A es \in Seq(Entry) : AllOlder(es) \in Seq(Entry) /\ Len(AllOlder(es)) = Len(es)
<1>1. \A l \in 0..TTL : Older(l) \in 0..TTL
  BY Constants DEF Older
<1>2. ASSUME NEW es \in Seq(Entry) PROVE AllOlder(es) \in Seq(Entry) /\ Len(AllOlder(es)) = Len(es)
  <2>1. \A i \in DOMAIN es : es[i] \in Entry
    OBVIOUS
  <2>2. \A i \in DOMAIN es : [es[i] EXCEPT !.left = Older(@)] \in Entry
    BY <1>1, <2>1 DEF Entry
  <2>3. AllOlder(es) \in [1..Len(es) -> Entry] /\ Len(es) \in Nat
    BY <2>2 DEF AllOlder
  <2> QED BY <2>3, SeqOf
<1> QED BY <1>1, <1>2 DEF Older

-----------------------------------------------------------------------------
\* The cells of an encoded entry.
LEMMA Encoded ==
  ASSUME NEW e \in Entry, NEW m \in 1..Size[e.key]
  PROVE  Encode(e)[m] = <<e.key, e.left, m>> /\ Encode(e)[m] \in Cell
<1>1. e.key \in Key /\ e.left \in 0..TTL
  BY DEF Entry
<1>2. Size[e.key] \in Nat
  BY <1>1, Constants
<1>3. m \in Nat \ {0}
  BY <1>2
<1> QED BY <1>1, <1>3 DEF Encode, Cell

\* The file after a write, cell by cell.
LEMMA OverwriteIs ==
  ASSUME file \in Seq(Cell), NEW off \in Nat, NEW e \in Entry, NEW n \in 0..Size[e.key]
  PROVE  /\ Overwrite(off, e, n) \in Seq(Cell)
         /\ Len(Overwrite(off, e, n)) = IF off + n > Len(file) THEN off + n ELSE Len(file)
         /\ \A i \in 1..Len(Overwrite(off, e, n)) :
              Overwrite(off, e, n)[i] = IF i > off /\ i <= off + n THEN Encode(e)[i - off]
                                        ELSE IF i <= Len(file) THEN file[i] ELSE Hole
<1>1. Size[e.key] \in Nat /\ n \in Nat /\ Len(file) \in Nat
  BY Constants DEF Entry
<1>2. PICK N \in Nat : N = IF off + n > Len(file) THEN off + n ELSE Len(file)
  BY <1>1
<1>3. Overwrite(off, e, n) = [i \in 1..N |-> IF i > off /\ i <= off + n THEN Encode(e)[i - off]
                                             ELSE IF i <= Len(file) THEN file[i] ELSE Hole]
  BY <1>2 DEF Overwrite
<1>4. ASSUME NEW i \in 1..N
      PROVE  (IF i > off /\ i <= off + n THEN Encode(e)[i - off]
              ELSE IF i <= Len(file) THEN file[i] ELSE Hole) \in Cell
  <2>1. CASE i > off /\ i <= off + n
    <3>1. i - off \in 1..Size[e.key]
      BY <1>1, <2>1
    <3> QED BY <2>1, <3>1, Encoded
  <2>2. CASE ~(i > off /\ i <= off + n) /\ i <= Len(file)
    BY <1>1, <2>2
  <2>3. CASE ~(i > off /\ i <= off + n) /\ ~(i <= Len(file))
    BY <2>3 DEF Cell
  <2> QED BY <2>1, <2>2, <2>3
<1>5. Overwrite(off, e, n) \in [1..N -> Cell]
  BY <1>3, <1>4
<1>6. Overwrite(off, e, n) \in Seq(Cell) /\ Len(Overwrite(off, e, n)) = N
  BY <1>5, SeqOf
<1> QED BY <1>2, <1>3, <1>6

\* An entry written at the end of a file that is laid out is laid out after the others.
LEMMA LaidAppend ==
  ASSUME file \in Seq(Cell), NEW es \in Seq(Entry), NEW pos, Laid(file, es, pos),
         NEW e \in Entry
  PROVE  /\ Len(Overwrite(Len(file), e, Size[e.key])) = Len(file) + Size[e.key]
         /\ \E p : Laid(Overwrite(Len(file), e, Size[e.key]), Append(es, e), p)
<1>1. PICK s \in Nat \ {0} : s = Size[e.key]
  BY Constants DEF Entry
<1>2. PICK f : f = Overwrite(Len(file), e, s)
  OBVIOUS
<1>3. PICK L \in Nat : L = Len(file)
  OBVIOUS
<1>4. PICK N \in Nat : N = Len(es)
  OBVIOUS
<1>5. /\ f \in Seq(Cell) /\ Len(f) = L + s
      /\ \A i \in 1..L + s : f[i] = IF i > L /\ i <= L + s THEN Encode(e)[i - L]
                                    ELSE IF i <= L THEN file[i] ELSE Hole
  <2>1. s \in 0..Size[e.key] /\ Len(file) \in Nat
    BY <1>1
  <2>2. L + s > L
    BY <1>1
  <2>3. /\ f \in Seq(Cell) /\ Len(f) = IF L + s > L THEN L + s ELSE L
        /\ \A i \in 1..Len(f) : f[i] = IF i > L /\ i <= L + s THEN Encode(e)[i - L]
                                        ELSE IF i <= L THEN file[i] ELSE Hole
    <3>1. Len(file) \in Nat /\ s \in 0..Size[e.key]
      BY <2>1
    <3>2. /\ Overwrite(Len(file), e, s) \in Seq(Cell)
          /\ Len(Overwrite(Len(file), e, s))
               = IF Len(file) + s > Len(file) THEN Len(file) + s ELSE Len(file)
          /\ \A i \in 1..Len(Overwrite(Len(file), e, s)) :
               Overwrite(Len(file), e, s)[i]
                 = IF i > Len(file) /\ i <= Len(file) + s THEN Encode(e)[i - Len(file)]
                   ELSE IF i <= Len(file) THEN file[i] ELSE Hole
      BY <3>1, OverwriteIs, Zenon
    <3> QED BY <1>2, <1>3, <3>2, Zenon
  <2> QED BY <2>2, <2>3
<1>6. \A i \in 1..L : f[i] = file[i]
  BY <1>1, <1>5
<1>7. \A m \in 1..s : f[L + 1 + m - 1] = <<e.key, e.left, m>>
  <2> SUFFICES ASSUME NEW m \in 1..s PROVE f[L + 1 + m - 1] = <<e.key, e.left, m>>
    OBVIOUS
  <2>1. L + 1 + m - 1 \in 1..L + s /\ L + 1 + m - 1 > L /\ L + 1 + m - 1 <= L + s
        /\ L + 1 + m - 1 - L = m
    BY <1>1
  <2>2. f[L + 1 + m - 1] = Encode(e)[m]
    BY <1>5, <2>1
  <2> QED BY <1>1, <2>2, Encoded
<1>8. PICK a \in Seq(Entry) : a = Append(es, e) /\ Len(a) = N + 1 /\ a[N + 1] = e
                              /\ \A n \in 1..N : a[n] = es[n]
  <2>1. Append(es, e) \in Seq(Entry) /\ Len(Append(es, e)) = N + 1 /\ Append(es, e)[N + 1] = e
        /\ \A n \in 1..N : Append(es, e)[n] = es[n]
    BY <1>4
  <2> QED BY <2>1, Zenon
<1>9. PICK p : p = [n \in 1..N + 2 |-> IF n <= N + 1 THEN pos[n] ELSE L + s + 1]
  BY Zenon
<1>10. /\ pos \in [1..N + 1 -> 1..L + 1] /\ pos[1] = 1 /\ pos[N + 1] = L + 1
       /\ \A n \in 1..N :
            /\ pos[n + 1] = pos[n] + Size[es[n].key]
            /\ \A m \in 1..Size[es[n].key] : file[pos[n] + m - 1] = <<es[n].key, es[n].left, m>>
  BY <1>3, <1>4, Zenon DEF Laid
<1>11. /\ p \in [1..N + 2 -> 1..L + s + 1]
       /\ p[N + 2] = L + s + 1 /\ \A n \in 1..N + 1 : p[n] = pos[n]
  <2>1. \A n \in 1..N + 2 : n <= N + 1 => n \in 1..N + 1
    OBVIOUS
  <2>2. \A n \in 1..N + 1 : pos[n] \in 1..L + s + 1
    BY <1>1, <1>10
  <2>3. L + s + 1 \in 1..L + s + 1
    BY <1>1
  <2>4. \A n \in 1..N + 1 : n \in 1..N + 2 /\ n <= N + 1
    OBVIOUS
  <2>5. N + 2 \in 1..N + 2 /\ ~(N + 2 <= N + 1)
    OBVIOUS
  <2> QED BY <1>9, <2>1, <2>2, <2>3, <2>4, <2>5
<1>12. p[1] = 1 /\ p[N + 1] = L + 1
  <2>1. 1 \in 1..N + 1 /\ N + 1 \in 1..N + 1
    OBVIOUS
  <2> QED BY <1>10, <1>11, <2>1
<1>13. ASSUME NEW n \in 1..N + 1
       PROVE  /\ p[n + 1] = p[n] + Size[a[n].key]
              /\ \A m \in 1..Size[a[n].key] : f[p[n] + m - 1] = <<a[n].key, a[n].left, m>>
  <2>1. CASE n = N + 1
    <3>0. n + 1 = N + 2 /\ L + 1 + s = L + s + 1
      <4>1. L + 1 + s = L + s + 1
        OBVIOUS
      <4>2. N + 1 + 1 = N + 2
        OBVIOUS
      <4> QED BY <2>1, <4>1, <4>2
    <3>1. p[n + 1] = L + 1 + s
      <4>1. p[N + 2] = L + s + 1
        BY <1>11
      <4> QED BY <3>0, <4>1
    <3>2. p[n] = L + 1 /\ a[n] = e
      BY <1>8, <1>12, <2>1
    <3> QED BY <1>1, <1>7, <3>1, <3>2, Zenon
  <2>2. CASE n # N + 1
    <3>1. n \in 1..N /\ n + 1 \in 1..N + 1
      BY <2>2
    <3>2. a[n] = es[n] /\ p[n] = pos[n] /\ p[n + 1] = pos[n + 1]
      BY <1>8, <1>11, <3>1
    <3>3. PICK z \in Nat \ {0} : z = Size[es[n].key]
      <4>1. es[n] \in Entry
        BY <1>4, <3>1
      <4>2. es[n].key \in Key
        BY <4>1 DEF Entry
      <4> QED BY <4>2, Constants
    <3>4. pos[n] \in 1..L + 1 /\ pos[n + 1] \in 1..L + 1 /\ pos[n + 1] = pos[n] + z
      BY <1>10, <3>1, <3>3
    <3>5. \A m \in 1..z : pos[n] + m - 1 \in 1..L
      BY <3>4
    <3>6. \A m \in 1..z : file[pos[n] + m - 1] = <<es[n].key, es[n].left, m>>
      BY <1>10, <3>1, <3>3, Zenon
    <3>7. \A m \in 1..z : f[pos[n] + m - 1] = <<es[n].key, es[n].left, m>>
      BY <1>6, <3>5, <3>6, Zenon
    <3> QED BY <3>2, <3>3, <3>4, <3>7
  <2> QED BY <2>1, <2>2
<1>14. Laid(f, a, p)
  <2>1. Len(a) + 1 = N + 2 /\ Len(f) + 1 = L + s + 1
    BY <1>5, <1>8
  <2> QED BY <1>8, <1>11, <1>12, <1>13, <2>1, Zenon DEF Laid
<1> QED BY <1>1, <1>2, <1>3, <1>5, <1>8, <1>14

\* A write that fails before its first cell leaves the file as it is.
LEMMA NothingWritten ==
  ASSUME file \in Seq(Cell), NEW e \in Entry
  PROVE  Overwrite(Len(file), e, 0) = file
<1>1. Len(file) \in Nat /\ 0 \in 0..Size[e.key]
  BY Constants DEF Entry
<1>2. PICK f : f = Overwrite(Len(file), e, 0)
  OBVIOUS
<1>3. f \in Seq(Cell) /\ Len(f) = Len(file)
  BY <1>1, <1>2, OverwriteIs
<1>4. \A i \in 1..Len(f) : f[i] = file[i]
  <2>1. \A i \in 1..Len(f) : f[i] = IF i > Len(file) /\ i <= Len(file) + 0 THEN Encode(e)[i - Len(file)]
                                    ELSE IF i <= Len(file) THEN file[i] ELSE Hole
    BY <1>1, <1>2, OverwriteIs
  <2>2. \A i \in 1..Len(f) : ~(i > Len(file) /\ i <= Len(file) + 0) /\ i <= Len(file)
    BY <1>1, <1>3
  <2> QED BY <2>1, <2>2
<1> QED BY <1>2, <1>3, <1>4

\* An empty file is laid out as no entries.
LEMMA LaidEmpty == \E pos : Laid(<<>>, <<>>, pos)
<1>1. PICK pos : pos = [n \in {1} |-> 1]
  BY Zenon
<1>2. pos \in [1..Len(<<>>) + 1 -> 1..Len(<<>>) + 1] /\ pos[1] = 1 /\ Len(<<>>) = 0
      /\ 1..0 = {}
  BY <1>1
<1> QED BY <1>2 DEF Laid

-----------------------------------------------------------------------------
\* A step that does not touch the file, opens it for nobody and moves nobody's offset.
LEMMA WritersRest ==
  ASSUME WellWritten, UNCHANGED <<file, history>>,
         \A j \in Writer : /\ job'[j].st = "open" => job[j].st = "open" /\ job'[j].off = job[j].off
                           /\ job'[j].st = "queued" => job'[j].off = 0
  PROVE  WellWritten'
<1>1. UNCHANGED <<file, mixed, broken, wrote>>
  BY DEF history
<1>2. ~mixed' => \A i, j \in Writer : job'[i].st = "open" /\ job'[j].st = "open" => i = j
  BY <1>1 DEF WellWritten
<1>3. \A j \in Writer : job'[j].st = "open" => file' # Absent
  BY <1>1 DEF WellWritten
<1>4. file' # Absent /\ ~mixed' /\ ~broken' =>
        /\ \E pos : Laid(file', wrote', pos)
        /\ \A j \in Writer : job'[j].st = "open" => job'[j].off = Len(file')
  BY <1>1 DEF WellWritten
<1> QED BY <1>2, <1>3, <1>4 DEF WellWritten

\* A job that waits for its writer has written nothing.
LEMMA QueuedIsFresh ==
  ASSUME IInv
  PROVE  WellWritten /\ \A j \in Writer : job[j].st = "queued" => job[j].off = 0
BY DEF IInv, WellWritten

\* A writer truncates the file: nothing is written yet, and it is alone unless another
\* one has it open.
LEMMA OpenStep ==
  ASSUME IInv, NEW j \in Writer, Open(j)
  PROVE  IInv'
<1>1. TypeOK'
  <2>1. <<>> \in Seq(Cell) /\ <<>> \in Seq(Entry)
    OBVIOUS
  <2>2. job' \in [Writer -> Jobs]
    BY Zenon DEF IInv, TypeOK, Open, Jobs
  <2> QED BY <2>1, <2>2, Zenon DEF IInv, TypeOK, Open
<1>2. Tidy'
  BY DEF IInv, Tidy, Open
<1>3. /\ job'[j].st = "open" /\ job'[j].off = 0
      /\ \A i \in Writer : i # j => job'[i] = job[i]
  BY DEF IInv, TypeOK, WellWritten, Open, Jobs
<1>4. file' = <<>> /\ wrote' = <<>> /\ <<>> # Absent /\ Len(<<>>) = 0
  <2>1. <<>> \in Seq(Cell)
    OBVIOUS
  <2> QED BY <2>1, Constants, Zenon DEF Open
<1>5. ~mixed' => \A i \in Writer : job[i].st # "open"
  BY DEF Open
<1>6. WellWritten'
  <2>1. \A i \in Writer : job'[i].st = "queued" => job'[i].off = 0
    BY <1>3 DEF IInv, WellWritten
  <2>2. ~mixed' => \A i \in Writer : job'[i].st = "open" => i = j
    BY <1>3, <1>5
  <2>3. \E pos : Laid(file', wrote', pos)
    BY <1>4, LaidEmpty
  <2> QED BY <1>3, <1>4, <2>1, <2>2, <2>3 DEF WellWritten
<1> QED BY <1>1, <1>2, <1>6 DEF IInv

\* What a writer is about to write.
LEMMA NextEntry ==
  ASSUME IInv, NEW j \in Writer, job[j].st = "open", job[j].entries # <<>>
  PROVE  /\ Head(job[j].entries) \in Entry /\ Tail(job[j].entries) \in Seq(Entry)
         /\ job[j].off \in Nat /\ file \in Seq(Cell)
<1>1. job[j] \in Jobs
  BY DEF IInv, TypeOK
<1>2. job[j].entries \in Seq(Entry) /\ job[j].off \in Nat
  BY <1>1 DEF Jobs
<1>3. file \in Seq(Cell)
  BY DEF IInv, TypeOK, WellWritten
<1> QED BY <1>2, <1>3

\* A write of n cells, all of an entry or fewer: the types.
LEMMA WriteTypes ==
  ASSUME IInv, NEW j \in Writer, job[j].st = "open", job[j].entries # <<>>,
         NEW e, e = Head(job[j].entries), NEW n \in 0..Size[e.key],
         file' = Overwrite(job[j].off, e, n),
         job' = [job EXCEPT ![j].off = @ + n, ![j].entries = Tail(@)],
         wrote' \in Seq(Entry), broken' \in BOOLEAN,
         UNCHANGED <<process, cache, task, changes, mixed>>
  PROVE  /\ TypeOK' /\ Tidy'
         /\ job'[j].st = "open" /\ job'[j].off = job[j].off + n
         /\ \A i \in Writer : i # j => job'[i] = job[i]
<1>1. e \in Entry /\ Tail(job[j].entries) \in Seq(Entry) /\ job[j].off \in Nat /\ file \in Seq(Cell)
  BY NextEntry
<1>2. n \in Nat
  BY <1>1, Constants DEF Entry
<1>3. job' \in [Writer -> Jobs]
  <2>1. PICK k : k = job[j]
    OBVIOUS
  <2>2. k \in Jobs /\ job \in [Writer -> Jobs]
    BY <2>1 DEF IInv, TypeOK
  <2>3. PICK u : u = [k EXCEPT !.off = k.off + n]
    BY Zenon
  <2>4. k.off + n \in Nat
    BY <1>1, <1>2, <2>1
  <2>5. u \in Jobs
    BY <2>2, <2>3, <2>4, Zenon DEF Jobs
  <2>6. PICK v : v = [u EXCEPT !.entries = Tail(k.entries)]
    BY Zenon
  <2>7. v \in Jobs
    BY <1>1, <2>1, <2>5, <2>6, Zenon DEF Jobs
  <2>8. u.entries = k.entries
    BY <2>2, <2>3 DEF Jobs
  <2>9. job' = [job EXCEPT ![j] = v]
    BY <2>1, <2>2, <2>3, <2>6, <2>8, Zenon
  <2> QED BY <2>2, <2>7, <2>9, Zenon
<1>4. file' \in Seq(Cell)
  BY <1>1, OverwriteIs
<1>5. TypeOK'
  BY <1>3, <1>4 DEF IInv, TypeOK
<1>6. Tidy'
  BY DEF IInv, Tidy
<1>7. job'[j].st = "open" /\ job'[j].off = job[j].off + n
      /\ \A i \in Writer : i # j => job'[i] = job[i]
  BY DEF IInv, TypeOK, Jobs
<1> QED BY <1>5, <1>6, <1>7, Zenon

\* A writer writes an entry, at the end of the file if it is alone.
LEMMA WriteStep ==
  ASSUME IInv, NEW j \in Writer, Write(j)
  PROVE  IInv'
<1>1. job[j].st = "open" /\ job[j].entries # <<>>
  BY DEF Write
<1>2. PICK e \in Entry : e = Head(job[j].entries)
  BY <1>1, NextEntry
<1>3. job[j].off \in Nat /\ file \in Seq(Cell)
  BY <1>1, NextEntry
<1>4. PICK s \in Nat \ {0} : s = Size[e.key]
  BY Constants DEF Entry
<1>5. /\ file' = Overwrite(job[j].off, e, s)
      /\ job' = [job EXCEPT ![j].off = @ + s, ![j].entries = Tail(@)]
      /\ wrote' = (IF mixed \/ broken THEN wrote ELSE Append(wrote, e))
      /\ UNCHANGED <<process, cache, task, changes, mixed, broken>>
  BY <1>2, <1>4 DEF Write
<1>6. wrote' \in Seq(Entry) /\ broken' \in BOOLEAN
  BY <1>5 DEF IInv, TypeOK
<1>7. s \in 0..Size[e.key]
  BY <1>4
<1>8. /\ TypeOK' /\ Tidy'
      /\ job'[j].st = "open" /\ job'[j].off = job[j].off + s
      /\ \A i \in Writer : i # j => job'[i] = job[i]
  BY <1>1, <1>2, <1>5, <1>6, <1>7, WriteTypes, Zenon
<1>9. file' # Absent
  BY <1>3, <1>5, <1>7, OverwriteIs, Constants
<1>10. \A i \in Writer : job'[i].st = "queued" => job'[i].off = 0
  BY <1>8 DEF IInv, WellWritten
<1>11. ~mixed' => \A i \in Writer : job'[i].st = "open" => i = j
  BY <1>1, <1>5, <1>8 DEF IInv, WellWritten
<1>12. ASSUME ~mixed', ~broken'
       PROVE  (\E pos : Laid(file', wrote', pos)) /\ job'[j].off = Len(file')
  <2>1. file # Absent /\ ~mixed /\ ~broken
    BY <1>3, <1>5, <1>12, Constants
  <2>2. job[j].off = Len(file)
    BY <1>1, <2>1 DEF IInv, WellWritten
  <2>3. PICK pos : Laid(file, wrote, pos)
    BY <2>1 DEF IInv, WellWritten
  <2>4. file' = Overwrite(Len(file), e, Size[e.key]) /\ wrote' = Append(wrote, e)
    BY <1>4, <1>5, <2>1, <2>2
  <2>5. wrote \in Seq(Entry)
    BY DEF IInv, TypeOK
  <2>6. Len(file') = Len(file) + Size[e.key] /\ \E p : Laid(file', wrote', p)
    BY <1>3, <2>3, <2>4, <2>5, LaidAppend
  <2> QED BY <1>4, <1>8, <2>2, <2>6
<1>13. WellWritten'
  BY <1>8, <1>9, <1>10, <1>11, <1>12 DEF WellWritten
<1> QED BY <1>8, <1>13 DEF IInv

\* A write is cut short: before its first cell nothing happens to the file, later the
\* file is no longer vouched for.
LEMMA WriteFailsStep ==
  ASSUME IInv, NEW j \in Writer, NEW n \in Nat, WriteFails(j, n)
  PROVE  IInv'
<1>1. job[j].st = "open" /\ job[j].entries # <<>>
  BY DEF WriteFails
<1>2. PICK e \in Entry : e = Head(job[j].entries)
  BY <1>1, NextEntry
<1>3. job[j].off \in Nat /\ file \in Seq(Cell)
  BY <1>1, NextEntry
<1>4. /\ n < Size[e.key]
      /\ file' = Overwrite(job[j].off, e, n)
      /\ job' = [job EXCEPT ![j].off = @ + n, ![j].entries = Tail(@)]
      /\ broken' = (broken \/ (n > 0 /\ ~mixed))
      /\ wrote' = (IF broken' THEN <<>> ELSE wrote)
      /\ UNCHANGED <<process, cache, task, changes, mixed>>
  BY <1>2 DEF WriteFails
<1>5. n \in 0..Size[e.key]
  BY <1>4, Constants DEF Entry
<1>6. wrote' \in Seq(Entry) /\ broken' \in BOOLEAN
  <2>1. <<>> \in Seq(Entry)
    OBVIOUS
  <2> QED BY <1>4, <2>1 DEF IInv, TypeOK
<1>7. /\ TypeOK' /\ Tidy'
      /\ job'[j].st = "open" /\ job'[j].off = job[j].off + n
      /\ \A i \in Writer : i # j => job'[i] = job[i]
  BY <1>1, <1>2, <1>4, <1>5, <1>6, WriteTypes, Zenon
<1>8. file' # Absent
  BY <1>3, <1>4, <1>5, OverwriteIs, Constants
<1>9. \A i \in Writer : job'[i].st = "queued" => job'[i].off = 0
  BY <1>7 DEF IInv, WellWritten
<1>10. ~mixed' => \A i \in Writer : job'[i].st = "open" => i = j
  BY <1>1, <1>4, <1>7 DEF IInv, WellWritten
<1>11. ASSUME ~mixed', ~broken'
       PROVE  (\E pos : Laid(file', wrote', pos)) /\ job'[j].off = Len(file')
  <2>1. file # Absent /\ ~mixed /\ ~broken /\ ~(n > 0)
    BY <1>3, <1>4, <1>11, Constants, Zenon
  <2>2. n = 0
    BY <2>1
  <2>3. job[j].off = Len(file)
    BY <1>1, <2>1 DEF IInv, WellWritten
  <2>4. file' = file /\ wrote' = wrote
    BY <1>3, <1>4, <1>11, <2>2, <2>3, NothingWritten
  <2> QED BY <1>3, <1>7, <2>1, <2>2, <2>3, <2>4 DEF IInv, WellWritten
<1>12. WellWritten'
  BY <1>7, <1>8, <1>9, <1>10, <1>11 DEF WellWritten
<1> QED BY <1>7, <1>12 DEF IInv

-----------------------------------------------------------------------------
\* A step that leaves the file and the writers alone.
LEMMA NoWriter ==
  ASSUME IInv, TypeOK', Tidy', UNCHANGED <<file, job, history>>
  PROVE  IInv'
<1>1. WellWritten'
  BY QueuedIsFresh, WritersRest
<1> QED BY <1>1 DEF IInv

\* The tasks and caches, by number.
LEMMA Numbered ==
  ASSUME IInv, NEW c \in DOMAIN cache
  PROVE  /\ c \in DOMAIN task /\ task[c] \in Tasks /\ cache[c] \in Caches
         /\ c \in 1..MAX_CHANGES + 1
<1>1. cache \in Seq(Caches) /\ task \in Seq(Tasks) /\ Len(task) = Len(cache)
      /\ Len(cache) <= MAX_CHANGES + 1
  BY DEF IInv, TypeOK
<1>2. DOMAIN cache = 1..Len(cache) /\ DOMAIN task = 1..Len(task)
  BY <1>1
<1> QED BY <1>1, <1>2, Constants

\* A task moves on, and nothing else happens.
LEMMA TaskMoves ==
  ASSUME IInv, NEW c \in DOMAIN cache, NEW t \in Tasks, task' = [task EXCEPT ![c] = t],
         t.pc = "push" => t.todo # <<>>, t.pc = "snap" => t.at \in 1..Len(Shards),
         cache' \in Seq(Caches), Len(cache') = Len(cache),
         UNCHANGED <<file, process, job, changes, history>>
  PROVE  IInv'
<1>1. c \in DOMAIN task /\ task \in Seq(Tasks)
  BY Numbered DEF IInv, TypeOK
<1>2. /\ task' \in Seq(Tasks) /\ Len(task') = Len(task) /\ DOMAIN task' = DOMAIN task
      /\ \A d \in DOMAIN task : task'[d] = IF d = c THEN t ELSE task[d]
  BY <1>1, SeqPut
<1>3. TypeOK'
  BY <1>2 DEF IInv, TypeOK, history
<1>4. Tidy'
  BY <1>2 DEF IInv, Tidy
<1> QED BY <1>3, <1>4, NoWriter

\* An entry is cached or evicted.
LEMMA CacheChanges ==
  ASSUME IInv, NEW c \in DOMAIN cache, NEW k \in Key, Insert(c, k) \/ Remove(c, k)
  PROVE  IInv'
<1>1. PICK x \in 0..TTL \cup {Absent} : cache' = [cache EXCEPT ![c][k] = x]
  BY Constants DEF Insert, Remove
<1>2. cache[c] \in Caches /\ cache \in Seq(Caches)
  BY Numbered DEF IInv, TypeOK
<1>3. PICK y \in Caches : y = [cache[c] EXCEPT ![k] = x]
  BY <1>2, Zenon DEF Caches
<1>4. cache' = [cache EXCEPT ![c] = y]
  BY <1>1, <1>3
<1>5. cache' \in Seq(Caches) /\ Len(cache') = Len(cache)
  BY <1>2, <1>4, SeqPut
<1>6. changes' = changes + 1 /\ changes < MAX_CHANGES /\ changes \in 0..MAX_CHANGES
      /\ UNCHANGED <<file, process, task, job, history>>
  BY DEF Insert, Remove, IInv, TypeOK
<1>7. changes' \in 0..MAX_CHANGES /\ Len(cache') <= changes' + 1
  <2>1. Len(cache) \in Nat /\ Len(cache) <= changes + 1
    BY <1>2 DEF IInv, Tidy
  <2> QED BY <1>5, <1>6, <2>1, Constants
<1>8. TypeOK'
  BY <1>5, <1>6, <1>7 DEF IInv, TypeOK, history
<1>9. Tidy'
  BY <1>6, <1>7 DEF IInv, Tidy
<1> QED BY <1>6, <1>8, <1>9, NoWriter

\* The file is decoded; a torn one is left aside.
LEMMA LoadStep ==
  ASSUME IInv, NEW c \in DOMAIN cache, Load(c)
  PROVE  IInv'
<1>1. UNCHANGED <<file, process, cache, job, changes, history>> /\ cache \in Seq(Caches)
  BY DEF Load, IInv, TypeOK
<1>2. CASE file = Absent \/ file = <<>> \/ Decode(file) = Torn
  <2>1. task' = [task EXCEPT ![c] = Idle("wait")]
    BY <1>2, Zenon DEF Load
  <2>2. Idle("wait") \in Tasks /\ Idle("wait").pc = "wait"
    BY Records DEF Idle
  <2> QED BY <1>1, <2>1, <2>2, TaskMoves, Zenon
<1>3. CASE ~(file = Absent \/ file = <<>> \/ Decode(file) = Torn)
  <2>1. PICK t : t = [Idle("push") EXCEPT !.todo = Decode(file)]
    BY Zenon
  <2>2. task' = [task EXCEPT ![c] = t]
    BY <1>3, <2>1, Zenon DEF Load
  <2>3. file \in Seq(Cell)
    BY <1>3 DEF IInv, TypeOK
  <2>4. Decode(file) \in Seq(Entry) /\ Decode(file) # <<>>
    BY <1>3, <2>3, DecodeTypes
  <2>5. t \in Tasks /\ t.pc = "push" /\ t.todo # <<>>
    BY <2>1, <2>4, Records, Zenon DEF Idle, Tasks
  <2> QED BY <1>1, <2>2, <2>5, TaskMoves, Zenon
<1> QED BY <1>2, <1>3

\* A loaded entry goes into its shard.
LEMMA PushStep ==
  ASSUME IInv, NEW c \in DOMAIN cache, Push(c)
  PROVE  IInv'
<1>1. UNCHANGED <<file, process, job, changes, history>>
  BY DEF Push
<1>2. task[c] \in Tasks /\ task[c].pc = "push" /\ task[c].todo # <<>>
      /\ cache[c] \in Caches /\ cache \in Seq(Caches)
  BY Numbered DEF Push, IInv, Tidy, TypeOK
<1>3. PICK s \in Seq(Entry) : s = task[c].todo /\ s # <<>>
  BY <1>2 DEF Tasks
<1>4. PICK e \in Entry : e = Head(s)
  BY <1>3
<1>5. e.key \in Key /\ e.left \in 0..TTL
  BY DEF Entry
<1>6. PICK y \in Caches : y = [cache[c] EXCEPT ![e.key] = e.left]
  BY <1>2, <1>5, Zenon DEF Caches
<1>7. cache' = [cache EXCEPT ![c] = y]
  BY <1>3, <1>4, <1>6 DEF Push
<1>8. cache' \in Seq(Caches) /\ Len(cache') = Len(cache)
  BY <1>2, <1>7, SeqPut
<1>9. PICK t : t = IF Len(s) = 1 THEN Idle("wait") ELSE [task[c] EXCEPT !.todo = Tail(@)]
  BY Zenon
<1>10. task' = [task EXCEPT ![c] = t]
  <2>1. task' = [task EXCEPT ![c] =
          IF Len(task[c].todo) = 1 THEN Idle("wait") ELSE [task[c] EXCEPT !.todo = Tail(@)]]
    BY DEF Push
  <2> QED BY <1>3, <1>9, <2>1, Zenon
<1>11. CASE Len(s) = 1
  <2>1. t \in Tasks /\ t.pc = "wait"
    BY <1>9, <1>11, Records DEF Idle
  <2> QED BY <1>1, <1>8, <1>10, <2>1, TaskMoves, Zenon
<1>12. CASE Len(s) # 1
  <2>1. Tail(s) \in Seq(Entry) /\ Tail(s) # <<>>
    <3>1. Len(s) \in Nat /\ Len(s) # 0
      BY <1>3
    <3>2. Tail(s) \in Seq(Entry) /\ Len(Tail(s)) = Len(s) - 1
      BY <1>3
    <3>3. Len(Tail(s)) # 0
      BY <1>12, <3>1, <3>2
    <3>4. Len(<<>>) = 0
      OBVIOUS
    <3> QED BY <3>2, <3>3, <3>4, Zenon
  <2>2. t = [task[c] EXCEPT !.todo = Tail(s)]
    BY <1>3, <1>9, <1>12
  <2>3. t \in Tasks /\ t.pc = "push" /\ t.todo # <<>>
    BY <1>2, <2>1, <2>2, Zenon DEF Tasks
  <2> QED BY <1>1, <1>8, <1>10, <2>3, TaskMoves, Zenon
<1> QED BY <1>11, <1>12

\* A snapshot begins.
LEMMA BeginStep ==
  ASSUME IInv, NEW c \in DOMAIN cache, Interval(c) \/ Terminate(c)
  PROVE  IInv'
<1>1. UNCHANGED <<file, process, cache, job, changes, history>> /\ cache \in Seq(Caches)
  BY DEF Interval, Terminate, IInv, TypeOK
<1>2. PICK t : /\ task' = [task EXCEPT ![c] = t]
               /\ \/ t = [Idle("snap") EXCEPT !.at = 1]
                  \/ t = [Idle("snap") EXCEPT !.at = 1, !.last = TRUE]
  BY DEF Interval, Terminate
<1>3. 1 \in 0..Len(Shards) /\ 1 \in 1..Len(Shards)
  BY Constants
<1>4. t \in Tasks /\ t.pc = "snap" /\ t.at \in 1..Len(Shards)
  BY <1>2, <1>3, Records, Zenon DEF Idle, Tasks
<1> QED BY <1>1, <1>2, <1>4, TaskMoves, Zenon

\* A shard is copied; after the last one a free writer is given the entries.
LEMMA SnapshotStep ==
  ASSUME IInv, NEW c \in DOMAIN cache, Snapshot(c)
  PROVE  IInv'
<1>1. UNCHANGED <<file, process, cache, changes, history>> /\ cache \in Seq(Caches)
  BY DEF Snapshot, IInv, TypeOK
<1>2. PICK t \in Tasks : t = task[c] /\ t.pc = "snap" /\ t.at \in 1..Len(Shards)
  BY Numbered DEF Snapshot, IInv, Tidy
<1>3. c \in DOMAIN task /\ task \in Seq(Tasks) /\ cache[c] \in Caches /\ c \in 1..MAX_CHANGES + 1
  BY Numbered DEF IInv, TypeOK
<1>4. PICK k \in Key : k = Shards[t.at]
  BY <1>2, Constants
<1>5. t.todo \in Seq(Entry) /\ t.last \in BOOLEAN
  BY DEF Tasks
<1>6. PICK es \in Seq(Entry) : es = IF cache[c][k] = Absent THEN t.todo
                                    ELSE Append(t.todo, [key |-> k, left |-> cache[c][k]])
  <2>1. cache[c][k] # Absent => [key |-> k, left |-> cache[c][k]] \in Entry
    BY <1>3 DEF Caches, Entry
  <2>2. CASE cache[c][k] = Absent
    BY <1>5, <2>2
  <2>3. CASE cache[c][k] # Absent
    <3>1. \A e \in Entry : Append(t.todo, e) \in Seq(Entry)
      BY <1>5
    <3>2. Append(t.todo, [key |-> k, left |-> cache[c][k]]) \in Seq(Entry)
      BY <2>1, <2>3, <3>1, Zenon
    <3> QED BY <2>3, <3>2, Zenon
  <2> QED BY <2>2, <2>3
<1>7. \/ /\ t.at < Len(Shards)
         /\ task' = [task EXCEPT ![c] = [t EXCEPT !.todo = es, !.at = @ + 1]]
         /\ UNCHANGED job
      \/ \E j \in Writer :
           /\ job' = [job EXCEPT ![j] = [st |-> "queued", entries |-> es, off |-> 0,
                                         by |-> IF t.last THEN c ELSE 0]]
           /\ task' = [task EXCEPT ![c] = Idle(IF t.last THEN "await" ELSE "wait")]
  BY <1>2, <1>4, <1>6 DEF Snapshot
<1>8. CASE /\ t.at < Len(Shards)
           /\ task' = [task EXCEPT ![c] = [t EXCEPT !.todo = es, !.at = @ + 1]]
           /\ UNCHANGED job
  <2>1. PICK u : u = [t EXCEPT !.todo = es, !.at = @ + 1]
    OBVIOUS
  <2>2. t.at + 1 \in 1..Len(Shards) /\ t.at + 1 \in 0..Len(Shards)
    BY <1>2, <1>8, Constants
  <2>3. PICK v \in Tasks : v = [t EXCEPT !.todo = es] /\ v.pc = "snap"
    <3>1. PICK v : v = [t EXCEPT !.todo = es]
      BY Zenon
    <3>2. v \in Tasks /\ v.pc = "snap"
      BY <1>2, <3>1 DEF Tasks
    <3> QED BY <3>1, <3>2, Zenon
  <2>4. u = [v EXCEPT !.at = t.at + 1]
    BY <2>1, <2>3, Zenon
  <2>5. u \in Tasks /\ u.pc = "snap" /\ u.at \in 1..Len(Shards)
    BY <2>2, <2>3, <2>4, Zenon DEF Tasks
  <2>6. task' = [task EXCEPT ![c] = u]
    BY <1>8, <2>1, Zenon
  <2> QED BY <1>1, <1>8, <2>5, <2>6, TaskMoves, Zenon
<1>9. ASSUME NEW j \in Writer,
             job' = [job EXCEPT ![j] = [st |-> "queued", entries |-> es, off |-> 0,
                                        by |-> IF t.last THEN c ELSE 0]],
             task' = [task EXCEPT ![c] = Idle(IF t.last THEN "await" ELSE "wait")]
      PROVE  IInv'
  <2>1. PICK u \in Tasks : u = Idle(IF t.last THEN "await" ELSE "wait")
                           /\ u.pc # "push" /\ u.pc # "snap"
    BY Records DEF Idle
  <2>2. /\ task' \in Seq(Tasks) /\ Len(task') = Len(task) /\ DOMAIN task' = DOMAIN task
        /\ \A d \in DOMAIN task : task'[d] = IF d = c THEN u ELSE task[d]
    BY <1>3, <1>9, <2>1, SeqPut
  <2>3. [st |-> "queued", entries |-> es, off |-> 0, by |-> IF t.last THEN c ELSE 0] \in Jobs
    BY <1>3, Constants DEF Jobs
  <2>4. job' \in [Writer -> Jobs]
    BY <1>9, <2>3 DEF IInv, TypeOK
  <2>5. TypeOK'
    BY <1>1, <2>2, <2>4 DEF IInv, TypeOK, history
  <2>6. Tidy'
    BY <1>1, <2>1, <2>2 DEF IInv, Tidy
  <2>7. \A i \in Writer : job'[i] = IF i = j THEN [st |-> "queued", entries |-> es, off |-> 0,
                                                   by |-> IF t.last THEN c ELSE 0]
                                    ELSE job[i]
    BY <1>9 DEF IInv, TypeOK
  <2>8. WellWritten'
    <3>1. job'[j].st = "queued" /\ job'[j].off = 0
      BY <1>9, <2>7
    <3>2. \A i \in Writer : i # j => job'[i] = job[i]
      BY <2>7
    <3>3. \A i \in Writer : /\ job'[i].st = "open" => job[i].st = "open" /\ job'[i].off = job[i].off
                            /\ job'[i].st = "queued" => job'[i].off = 0
      BY <3>1, <3>2, QueuedIsFresh
    <3> QED BY <1>1, <3>3, QueuedIsFresh, WritersRest
  <2> QED BY <2>5, <2>6, <2>8 DEF IInv
<1> QED BY <1>7, <1>8, <1>9

\* A second passes: entries grow older where they are kept as instants, also in the hands
\* of a writer, and the file does not change.
LEMMA TickStep ==
  ASSUME IInv, Tick
  PROVE  IInv'
<1>1. UNCHANGED <<file, process, changes, history>>
  BY DEF Tick
<1>2. cache \in Seq(Caches) /\ task \in Seq(Tasks) /\ Len(task) = Len(cache) /\ job \in [Writer -> Jobs]
  BY DEF IInv, TypeOK
<1>3. cache' \in Seq(Caches) /\ Len(cache') = Len(cache)
  <2>1. \A d \in DOMAIN cache : cache[d] \in Caches
    BY <1>2
  <2>2. \A d \in DOMAIN cache : [k \in Key |-> Older(cache[d][k])] \in Caches
    BY <2>1, OlderTypes DEF Caches
  <2>3. cache' \in [1..Len(cache) -> Caches] /\ Len(cache) \in Nat
    BY <1>2, <2>2 DEF Tick
  <2> QED BY <2>3, SeqOf
<1>4. /\ task' \in Seq(Tasks) /\ Len(task') = Len(task) /\ DOMAIN task' = DOMAIN task
      /\ \A d \in DOMAIN task : /\ task'[d].pc = task[d].pc /\ task'[d].at = task[d].at
                                /\ task[d].todo # <<>> => task'[d].todo # <<>>
  <2>1. ASSUME NEW t \in Tasks, NEW u, u = [t EXCEPT !.todo = AllOlder(@)]
        PROVE  /\ u \in Tasks /\ u.pc = t.pc /\ u.at = t.at
               /\ t.todo # <<>> => u.todo # <<>>
    <3>1. t.todo \in Seq(Entry)
      BY DEF Tasks
    <3>2. AllOlder(t.todo) \in Seq(Entry) /\ Len(AllOlder(t.todo)) = Len(t.todo)
      BY <3>1, OlderTypes
    <3>3. t.todo # <<>> => AllOlder(t.todo) # <<>>
      BY <3>1, <3>2
    <3> QED BY <2>1, <3>2, <3>3 DEF Tasks
  <2>2. \A d \in DOMAIN task : task[d] \in Tasks /\ task'[d] = [task[d] EXCEPT !.todo = AllOlder(@)]
    BY <1>2 DEF Tick
  <2>3. \A d \in DOMAIN task : /\ task'[d] \in Tasks
                               /\ task'[d].pc = task[d].pc /\ task'[d].at = task[d].at
                               /\ task[d].todo # <<>> => task'[d].todo # <<>>
    BY <2>1, <2>2, Zenon
  <2>4. task' \in [1..Len(task) -> Tasks] /\ Len(task) \in Nat
    <3>1. DOMAIN task' = DOMAIN task /\ task' = [d \in DOMAIN task' |-> task'[d]]
      BY DEF Tick
    <3>2. DOMAIN task = 1..Len(task) /\ Len(task) \in Nat
      BY <1>2
    <3>3. task' = [d \in 1..Len(task) |-> task'[d]] /\ \A d \in 1..Len(task) : task'[d] \in Tasks
      BY <2>3, <3>1, <3>2, Zenon
    <3> QED BY <3>2, <3>3
  <2> QED BY <1>2, <2>3, <2>4, SeqOf
<1>5. /\ job' \in [Writer -> Jobs]
      /\ \A j \in Writer : job'[j].st = job[j].st /\ job'[j].off = job[j].off
  <2>1. \A j \in Writer : job[j] \in Jobs /\ AllOlder(job[j].entries) \in Seq(Entry)
    BY <1>2, OlderTypes DEF Jobs
  <2> QED BY <2>1, Zenon DEF Tick, Jobs
<1>6. TypeOK'
  BY <1>1, <1>2, <1>3, <1>4, <1>5 DEF IInv, TypeOK, history
<1>7. Tidy'
  BY <1>1, <1>3, <1>4 DEF IInv, Tidy
<1>8. WellWritten'
  BY QueuedIsFresh, <1>1, <1>5, WritersRest
<1> QED BY <1>6, <1>7, <1>8 DEF IInv

\* A writer ends, and who awaits it goes on.
LEMMA CloseStep ==
  ASSUME IInv, NEW j \in Writer, Close(j)
  PROVE  IInv'
<1>1. UNCHANGED <<file, process, cache, changes, history>> /\ job' = [job EXCEPT ![j] = NoJob]
  BY DEF Close
<1>2. job' \in [Writer -> Jobs] /\ \A i \in Writer : job'[i] = IF i = j THEN NoJob ELSE job[i]
  BY <1>1, Records DEF IInv, TypeOK
<1>3. task \in Seq(Tasks)
  BY DEF IInv, TypeOK
<1>4. PICK u \in Tasks : u = Idle("done") /\ u.pc = "done"
  BY Records DEF Idle
<1>5. /\ task' \in Seq(Tasks) /\ Len(task') = Len(task) /\ DOMAIN task' = DOMAIN task
      /\ \A d \in DOMAIN task : task'[d] = u \/ task'[d] = task[d]
  <2>1. CASE job[j].by = 0 \/ job[j].by \notin DOMAIN task
    <3>1. task' = task
      BY <1>3, <2>1 DEF Close
    <3> QED BY <1>3, <3>1
  <2>2. CASE job[j].by # 0 /\ job[j].by \in DOMAIN task
    <3>1. PICK d \in DOMAIN task : d = job[j].by
      BY <2>2
    <3>2. task' = [task EXCEPT ![d] = u]
      BY <1>4, <2>2, <3>1 DEF Close
    <3> QED BY <1>3, <3>2, SeqPut
  <2> QED BY <2>1, <2>2
<1>6. TypeOK'
  BY <1>1, <1>2, <1>5 DEF IInv, TypeOK, history
<1>7. Tidy'
  BY <1>1, <1>4, <1>5 DEF IInv, Tidy
<1>8. WellWritten'
  BY QueuedIsFresh, <1>1, <1>2, WritersRest DEF NoJob
<1> QED BY <1>6, <1>7, <1>8 DEF IInv

\* A reload adds a cache, with a task that is about to load the file.
LEMMA ReloadStep ==
  ASSUME IInv, Reload
  PROVE  IInv'
<1>1. UNCHANGED <<file, process, job, history>> /\ changes' = changes + 1 /\ changes < MAX_CHANGES
      /\ cache' = Append(cache, Empty) /\ task' = Append(task, Idle("load"))
  BY DEF Reload
<1>2. cache \in Seq(Caches) /\ task \in Seq(Tasks) /\ Len(task) = Len(cache)
      /\ Len(cache) <= changes + 1 /\ changes \in 0..MAX_CHANGES
  BY DEF IInv, TypeOK, Tidy
<1>3. PICK t \in Tasks : t = Idle("load") /\ t.pc = "load"
  BY Records DEF Idle
<1>4. /\ task' \in Seq(Tasks) /\ Len(task') = Len(task) + 1
      /\ \A d \in DOMAIN task' : task'[d] = t \/ (d \in DOMAIN task /\ task'[d] = task[d])
  BY <1>1, <1>2, <1>3
<1>5. cache' \in Seq(Caches) /\ Len(cache') = Len(cache) + 1
  BY <1>1, <1>2, Records
<1>6. changes' \in 0..MAX_CHANGES /\ Len(cache') <= changes' + 1 /\ Len(cache') <= MAX_CHANGES + 1
      /\ Len(task') = Len(cache')
  BY <1>1, <1>2, <1>4, <1>5, Constants
<1>7. TypeOK'
  BY <1>1, <1>4, <1>5, <1>6 DEF IInv, TypeOK, history
<1>8. Tidy'
  BY <1>3, <1>4, <1>6 DEF IInv, Tidy
<1> QED BY <1>1, <1>7, <1>8, NoWriter

\* The signal moves the tasks that listen, and no other.
LEMMA SignalStep ==
  ASSUME IInv, Signal
  PROVE  IInv'
<1>1. UNCHANGED <<file, cache, job, changes, history>> /\ process' = "stopping"
  BY DEF Signal
<1>2. task \in Seq(Tasks) /\ Len(task) \in Nat /\ DOMAIN task = 1..Len(task)
  BY DEF IInv, TypeOK
<1>3. PICK t \in Tasks : t = Idle("signalled") /\ t.pc = "signalled"
  BY Records DEF Idle
<1>4. task' = [c \in 1..Len(task) |-> IF task[c].pc = "wait" THEN t ELSE task[c]]
  BY <1>2, <1>3, Zenon DEF Signal
<1>5. /\ task' \in Seq(Tasks) /\ Len(task') = Len(task) /\ DOMAIN task' = DOMAIN task
      /\ \A d \in DOMAIN task : task'[d] = t \/ task'[d] = task[d]
  BY <1>2, <1>4, SeqOf
<1>6. TypeOK'
  BY <1>1, <1>5 DEF IInv, TypeOK, history
<1>7. Tidy'
  BY <1>1, <1>3, <1>5 DEF IInv, Tidy
<1> QED BY <1>1, <1>6, <1>7, NoWriter

\* Without caches and tasks, whatever writers are left.
LEMMA NoTasks ==
  ASSUME IInv, cache' = <<>>, task' = <<>>, UNCHANGED <<file, changes, history>>,
         process' \in {"up", "stopping", "draining", "down"}, job' \in [Writer -> Jobs],
         \A j \in Writer : job'[j] = NoJob \/ (job'[j].st = job[j].st /\ job'[j].off = job[j].off)
  PROVE  IInv'
<1>1. /\ cache' \in Seq(Caches) /\ task' \in Seq(Tasks) /\ Len(cache') = 0 /\ Len(task') = 0
      /\ DOMAIN task' = {}
  OBVIOUS
<1>2. changes' \in 0..MAX_CHANGES /\ 0 <= MAX_CHANGES + 1 /\ 0 <= changes' + 1
  BY Constants DEF IInv, TypeOK
<1>3. TypeOK'
  BY <1>1, <1>2 DEF IInv, TypeOK, history
<1>4. Tidy'
  BY <1>1, <1>2 DEF Tidy
<1>5. NoJob.st = "free"
  BY DEF NoJob
<1>6. WellWritten'
  BY QueuedIsFresh, <1>5, WritersRest
<1> QED BY <1>3, <1>4, <1>6 DEF IInv

\* The runtime is shut down, or the process is gone.
LEMMA ShutdownStep ==
  ASSUME IInv, Shutdown
  PROVE  IInv'
<1>1. PICK dropped \in SUBSET {j \in Writer : job[j].st = "queued"} :
        job' = [j \in Writer |-> IF j \in dropped THEN NoJob ELSE [job[j] EXCEPT !.by = 0]]
  BY Zenon DEF Shutdown
<1>2. \A j \in Writer : job[j] \in Jobs
  BY DEF IInv, TypeOK
<1>3. ASSUME NEW j \in Writer
      PROVE  /\ job'[j] \in Jobs
             /\ job'[j] = NoJob \/ (job'[j].st = job[j].st /\ job'[j].off = job[j].off)
  <2>1. job'[j] = NoJob \/ job'[j] = [job[j] EXCEPT !.by = 0]
    BY <1>1
  <2>2. 0 \in 0..MAX_CHANGES + 1
    BY Constants
  <2> QED BY <1>2, <2>1, <2>2, Records DEF Jobs
<1>4. job' \in [Writer -> Jobs]
  BY <1>1, <1>3
<1>5. cache' = <<>> /\ task' = <<>> /\ process' = "draining" /\ UNCHANGED <<file, changes, history>>
  BY DEF Shutdown
<1> QED BY <1>3, <1>4, <1>5, NoTasks

\* The process ends, with its writers.
LEMMA ExitStep ==
  ASSUME IInv, Exit
  PROVE  IInv'
<1>1. /\ cache' = <<>> /\ task' = <<>> /\ process' = "down" /\ UNCHANGED <<file, changes, history>>
      /\ job' = [j \in Writer |-> NoJob]
  BY DEF Exit
<1>2. job' \in [Writer -> Jobs] /\ \A j \in Writer : job'[j] = NoJob
  BY <1>1, Records
<1> QED BY <1>1, <1>2, NoTasks

\* One cache, with a task that is about to load the file.
LEMMA OneCache ==
  /\ <<Empty>> \in Seq(Caches) /\ Len(<<Empty>>) = 1
  /\ <<Idle("load")>> \in Seq(Tasks) /\ Len(<<Idle("load")>>) = 1
  /\ \A d \in DOMAIN <<Idle("load")>> : <<Idle("load")>>[d].pc = "load"
<1>1. Empty \in Caches /\ Idle("load") \in Tasks
  BY Records
<1>2. Idle("load").pc = "load"
  BY DEF Idle
<1> QED BY <1>1, <1>2

\* The process starts again.
LEMMA StartStep ==
  ASSUME IInv, Start
  PROVE  IInv'
<1>1. /\ cache' = <<Empty>> /\ task' = <<Idle("load")>> /\ process' = "up"
      /\ UNCHANGED <<file, job, changes, history>>
  BY DEF Start
<1>2. changes' \in 0..MAX_CHANGES /\ 1 <= MAX_CHANGES + 1 /\ 1 <= changes' + 1
  BY <1>1, Constants DEF IInv, TypeOK
<1>3. cache' \in Seq(Caches) /\ Len(cache') = 1 /\ task' \in Seq(Tasks) /\ Len(task') = 1
      /\ \A d \in DOMAIN task' : task'[d].pc = "load"
  BY <1>1, OneCache, Zenon
<1>4. TypeOK'
  BY <1>1, <1>2, <1>3 DEF IInv, TypeOK, history
<1>5. Tidy'
  BY <1>2, <1>3, Zenon DEF Tidy
<1> QED BY <1>1, <1>4, <1>5, NoWriter

-----------------------------------------------------------------------------
\* The invariant holds at the first start of the server, when there is no file.
LEMMA InitHolds ==
  ASSUME Init
  PROVE  IInv
<1>1. 0 \in 0..MAX_CHANGES /\ 1 <= MAX_CHANGES + 1 /\ <<>> \in Seq(Entry)
  BY Constants
<1>2. cache \in Seq(Caches) /\ Len(cache) = 1 /\ task \in Seq(Tasks) /\ Len(task) = 1
      /\ \A d \in DOMAIN task : task[d].pc = "load"
  BY OneCache, Zenon DEF Init
<1>3. job \in [Writer -> Jobs] /\ \A j \in Writer : job[j].st = "free"
  BY Records DEF Init, NoJob
<1>4. TypeOK
  BY <1>1, <1>2, <1>3, Zenon DEF Init, TypeOK
<1>5. Tidy
  BY <1>2 DEF Init, Tidy
<1>6. WellWritten
  BY <1>3 DEF Init, WellWritten
<1> QED BY <1>4, <1>5, <1>6 DEF IInv

\* Every step of the server keeps the invariant.
LEMMA StepHolds ==
  ASSUME IInv, [Next]_vars
  PROVE  IInv'
<1>1. CASE UNCHANGED vars
  <2>1. UNCHANGED <<file, process, cache, task, job, changes, mixed, broken, wrote>>
    BY <1>1 DEF vars, history
  <2>2. TypeOK'
    BY <2>1 DEF IInv, TypeOK
  <2>3. Tidy'
    BY <2>1 DEF IInv, Tidy
  <2> QED BY <2>1, <2>2, <2>3, NoWriter DEF history
<1>2. CASE Tick
  BY <1>2, TickStep
<1>3. ASSUME NEW c \in DOMAIN cache, Task(c)
      PROVE  IInv'
  BY <1>3, LoadStep, PushStep, BeginStep, SnapshotStep DEF Task
<1>4. ASSUME NEW c \in DOMAIN cache, NEW k \in Key, Insert(c, k) \/ Remove(c, k)
      PROVE  IInv'
  BY <1>4, CacheChanges
<1>5. ASSUME NEW j \in Writer, Job(j)
      PROVE  IInv'
  <2>1. CASE Open(j) \/ Write(j) \/ Close(j)
    BY <2>1, OpenStep, WriteStep, CloseStep
  <2>2. ASSUME NEW n \in UNION {0..Size[k] - 1 : k \in Key}, WriteFails(j, n)
        PROVE  IInv'
    <3>1. n \in Nat
      BY Constants
    <3> QED BY <2>2, <3>1, WriteFailsStep
  <2> QED BY <1>5, <2>1, <2>2 DEF Job
<1>6. CASE Reload \/ Signal \/ Shutdown \/ Exit \/ Start
  BY <1>6, ReloadStep, SignalStep, ShutdownStep, ExitStep, StartStep
<1> QED BY <1>1, <1>2, <1>3, <1>4, <1>5, <1>6 DEF Next

\* The invariant always holds: whatever is cached, saved, reloaded, cut short or crashed.
THEOREM Invariance == Spec => []IInv
<1>1. Init => IInv
  BY InitHolds
<1>2. IInv /\ [Next]_vars => IInv'
  BY StepHolds
<1> QED BY <1>1, <1>2, PTL DEF Spec

\* The state of the caches, the tasks, the writers and the file stays of its types: a
\* task has an index of a shard, an entry has between no and TTL seconds left, and there
\* are no more caches than reloads and starts made.
THEOREM PersistTypes == Spec => []TypeOK
<1>1. IInv => TypeOK
  BY DEF IInv
<1> QED BY <1>1, Invariance, PTL

\* The save of the cache is a prefix at any time: unless two writers had the file open or
\* a write was cut short, what PersistCache loads is what was written since the file was
\* last opened, for every number of shards, writers and sizes of an entry.
THEOREM FileIsWhatWasWritten == Spec => []WhatWasWritten
<1>1. IInv => WhatWasWritten
  <2> SUFFICES ASSUME IInv, file # Absent, ~mixed, ~broken
               PROVE  Decode(file) = wrote
    BY DEF WhatWasWritten
  <2>1. file \in Seq(Cell) /\ wrote \in Seq(Entry)
    BY DEF IInv, TypeOK
  <2>2. PICK pos : Laid(file, wrote, pos)
    BY DEF IInv, WellWritten
  <2> QED BY <2>1, <2>2, DecodeLaid
<1> QED BY <1>1, Invariance, PTL

=============================================================================
