-------------------------- MODULE VariableQueueProof --------------------------
(***************************************************************************)
(* Proofs about the variable queue, for any memory, lengths and contents.  *)
(* Positions are counted in words from front, in the direction of writing: *)
(* there records follow each other whether or not they wrap.               *)
(***************************************************************************)
EXTENDS VariableQueue, TLAPS, SequenceTheorems

W == Space \div 4

\* The place of word w as seen from word f.
Dist(f, w) == IF w >= f THEN w - f ELSE w - f + W

\* The words of a record: its header and its bytes.
Span(r) == Parts(r.len) + 1
End(f, r) == Dist(f, r.at \div 4) + Span(r)

Recs == [id : Ids, len : 0..Space, at : 0..Space - 1]
Cells == [pad : BOOLEAN, size : 0..Space, data : {<<>>} \cup (Ids \X (1..Space))]

-----------------------------------------------------------------------------
(* Arithmetic.                                                             *)

LEMMA SpaceIs == W \in Nat \ {0} /\ Space = 4 * W /\ Words = 0..W - 1
  BY QueueAssumption DEF W, Words

\* A length in words, as pack_size rounds it.
LEMMA PackIs ==
    ASSUME NEW n \in Nat
    PROVE  /\ Parts(n) \in Nat /\ Pack(n) = 4 * Parts(n)
           /\ n <= 4 * Parts(n) /\ 4 * Parts(n) < n + 4
           /\ Total(n) = 4 * (Parts(n) + 1)
  BY DEF Parts, Pack, Total, HeaderSize

\* Rounding up does not pass a whole number of words.
LEMMA PackFits ==
    ASSUME NEW n \in Nat, NEW w \in Int
    PROVE  /\ 4 * w >= n + 4 <=> w >= Parts(n) + 1
           /\ 4 * w - 4 < n => Pack(n - (4 * w - 4)) = 4 * (Parts(n) + 1 - w)
  BY DEF Parts, Pack

LEMMA ModIs ==
    ASSUME NEW N \in Nat \ {0}, NEW x \in Int, -N <= x, x < 2 * N
    PROVE  x % N = IF x < 0 THEN x + N ELSE IF x < N THEN x ELSE x - N
  OBVIOUS

\* The word at x, counted on past the end of the memory.
LEMMA WrapIs ==
    ASSUME NEW x \in Int, 0 <= x, x < 2 * W
    PROVE  /\ x % W = IF x < W THEN x ELSE x - W
           /\ x % W \in 0..W - 1
  <1>1. W \in Nat \ {0} /\ -W <= x /\ ~(x < 0)
    BY SpaceIs
  <1>2. x % W = IF x < W THEN x ELSE x - W
    BY <1>1, ModIs
  <1> QED BY <1>1, <1>2

LEMMA DistIs ==
    ASSUME NEW f \in 0..W - 1, NEW w \in 0..W - 1
    PROVE  /\ Dist(f, w) \in 0..W - 1
           /\ (f + Dist(f, w)) % W = w
           /\ \A v \in 0..W - 1 : Dist(f, v) = Dist(f, w) => v = w
  BY SpaceIs, ModIs DEF Dist

\* Word k of what begins at word a.
LEMMA DistMoved ==
    ASSUME NEW f \in 0..W - 1, NEW a \in 0..W - 1, NEW k \in Nat, Dist(f, a) + k < W
    PROVE  (a + k) % W \in 0..W - 1 /\ Dist(f, (a + k) % W) = Dist(f, a) + k
  <1>1. a + k < 2 * W
    BY SpaceIs DEF Dist
  <1>2. (a + k) % W = IF a + k < W THEN a + k ELSE a + k - W
    <2>1. a + k \in Int /\ -W <= a + k /\ W \in Nat \ {0} /\ ~(a + k < 0)
      BY <1>1, SpaceIs
    <2>2. PICK x \in Int : x = a + k
      BY <2>1
    <2>3. x % W = IF x < W THEN x ELSE x - W
      BY <1>1, <2>1, <2>2, ModIs
    <2> QED BY <2>1, <2>2, <2>3
  <1> QED BY <1>2, SpaceIs DEF Dist

\* How far word w is behind word a.
LEMMA DistBehind ==
    ASSUME NEW f \in 0..W - 1, NEW a \in 0..W - 1, NEW w \in 0..W - 1
    PROVE  (w - a) % W = IF Dist(f, w) >= Dist(f, a) THEN Dist(f, w) - Dist(f, a)
                         ELSE Dist(f, w) - Dist(f, a) + W
  <1>1. (w - a) % W = IF w < a THEN w - a + W ELSE w - a
    <2>1. /\ w - a \in Int /\ -W <= w - a /\ w - a < 2 * W /\ W \in Nat \ {0}
          /\ w - a < W /\ (w - a < 0 <=> w < a)
      BY SpaceIs
    <2> QED BY <2>1, ModIs
  <1> QED BY <1>1, SpaceIs DEF Dist

\* Seen from a word further on.
LEMMA DistFrom ==
    ASSUME NEW f \in 0..W - 1, NEW g \in 0..W - 1, NEW w \in 0..W - 1,
           NEW s \in 0..W, g = (f + s) % W, Dist(f, w) >= s
    PROVE  Dist(g, w) = Dist(f, w) - s
  <1>1. g = IF f + s < W THEN f + s ELSE f + s - W
    <2>1. /\ f + s \in Int /\ -W <= f + s /\ f + s < 2 * W /\ W \in Nat \ {0}
          /\ ~(f + s < 0)
      BY SpaceIs
    <2>2. PICK x \in Int : x = f + s
      BY <2>1
    <2>3. x % W = IF x < W THEN x ELSE x - W
      BY <2>1, <2>2, ModIs
    <2> QED BY <2>1, <2>2, <2>3
  <1> QED BY <1>1, SpaceIs DEF Dist

-----------------------------------------------------------------------------
(* The inductive invariant.                                                *)

FrontW == front \div 4
BackW == back \div 4
UsedW == W - remain \div 4

Shape ==
    /\ attached \in BOOLEAN /\ created \in BOOLEAN /\ continuous \in BOOLEAN
    /\ mem \in [Words -> Cells]
    /\ front \in 0..Space - 1 /\ back \in 0..Space - 1 /\ remain \in 0..Space
    /\ front % 4 = 0 /\ back % 4 = 0 /\ remain % 4 = 0
    /\ records \in Seq(Recs)

\* Record r lies in the words in use, in one piece if it must.
Within(f, u, r) ==
    /\ r.at % 4 = 0 /\ End(f, r) <= u
    /\ continuous => r.at \div 4 + Span(r) <= W

\* Each record lies behind the one before it, and the last one ends where the
\* words in use do.
Places ==
    /\ \A i \in DOMAIN records : Within(FrontW, UsedW, records[i])
    /\ \A i, j \in DOMAIN records :
         i < j => End(FrontW, records[i]) <= Dist(FrontW, records[j].at \div 4)
    /\ records # <<>> => End(FrontW, records[Len(records)]) = UsedW
    /\ records = <<>> => UsedW = 0
    /\ BackW = (FrontW + UsedW) % W

\* Memory m holds record r.
Holds(m, r) ==
    /\ m[r.at \div 4] = Header(FALSE, r.len)
    /\ \A k \in 1..Parts(r.len) : m[(r.at \div 4 + k) % W] = Part(r.id, k)
Contents == \A i \in DOMAIN records : Holds(mem, records[i])

\* The record behind the one that ends at word o begins at word p.
NextTo(m, c, o, p) ==
    p = o \/ (c /\ p = 0 /\ o # 0 /\ m[o] = Header(TRUE, 4 * (W - o) - 4))
After(r) == (r.at \div 4 + Span(r)) % W
Chain ==
    \A i \in DOMAIN records :
      NextTo(mem, continuous, IF i = 1 THEN FrontW ELSE After(records[i - 1]),
             records[i].at \div 4)

IInv == Shape /\ Places /\ Contents /\ Chain

LEMMA WordsAre ==
    ASSUME Shape
    PROVE  /\ FrontW \in 0..W - 1 /\ front = 4 * FrontW
           /\ BackW \in 0..W - 1 /\ back = 4 * BackW
           /\ UsedW \in 0..W /\ remain = 4 * (W - UsedW)
           /\ W \in Nat \ {0} /\ Space = 4 * W /\ Words = 0..W - 1
  BY SpaceIs DEF Shape, FrontW, BackW, UsedW

\* Nothing is in use.
LEMMA UnusedIs ==
    ASSUME Shape, UsedW = 0, BackW = (FrontW + UsedW) % W
    PROVE  BackW = FrontW
  <1>1. FrontW \in 0..W - 1 /\ W \in Nat \ {0}
    BY WordsAre
  <1>2. FrontW \in Int /\ 0 <= FrontW /\ FrontW < 2 * W /\ FrontW < W /\ FrontW + UsedW = FrontW
    BY <1>1
  <1>3. FrontW % W = FrontW
    BY <1>2, WrapIs
  <1> QED BY <1>2, <1>3

LEMMA RecordIs ==
    ASSUME NEW r \in Recs
    PROVE  /\ r.id \in Ids /\ r.len \in Nat /\ r.at \in Nat
           /\ r.at \div 4 \in 0..W - 1 /\ Span(r) \in Nat \ {0}
           /\ Parts(r.len) \in Nat /\ Span(r) = Parts(r.len) + 1
           /\ r.at % 4 = 0 => r.at = 4 * (r.at \div 4)
           /\ Total(r.len) = 4 * Span(r)
  <1>1. r.id \in Ids /\ r.len \in 0..Space /\ r.at \in 0..Space - 1
    BY DEF Recs
  <1>2. r.at \div 4 \in 0..W - 1 /\ (r.at % 4 = 0 => r.at = 4 * (r.at \div 4))
    BY <1>1, SpaceIs
  <1>3. r.len \in Nat /\ r.at \in Nat
    BY <1>1, SpaceIs
  <1>4. Parts(r.len) \in Nat /\ Total(r.len) = 4 * (Parts(r.len) + 1)
    BY <1>3, PackIs
  <1>5. Span(r) = Parts(r.len) + 1
    BY DEF Span
  <1>6. Span(r) \in Nat \ {0}
    BY <1>4, <1>5
  <1> QED BY <1>1, <1>2, <1>3, <1>4, <1>5, <1>6

\* Where a record that lies in use ends.
LEMMA EndIs ==
    ASSUME NEW f \in 0..W - 1, NEW r \in Recs
    PROVE  /\ Dist(f, r.at \div 4) \in 0..W - 1 /\ End(f, r) \in Nat
           /\ Dist(f, r.at \div 4) < End(f, r)
           /\ End(f, r) <= W => After(r) = (f + End(f, r)) % W
           /\ End(f, r) < W => After(r) \in 0..W - 1 /\ Dist(f, After(r)) = End(f, r)
  <1> DEFINE a == r.at \div 4
             d == Dist(f, a)
             k == Span(r)
  <1>1. a \in 0..W - 1 /\ k \in Nat \ {0} /\ W \in Nat \ {0}
    BY RecordIs, SpaceIs
  <1>2. d \in 0..W - 1 /\ (f + d) % W = a
    BY <1>1, DistIs
  <1>3. End(f, r) = d + k /\ After(r) = (a + k) % W
    BY DEF End, After
  <1> HIDE DEF a, k
  <1>4. d = IF a >= f THEN a - f ELSE a - f + W
    BY DEF Dist
  <1> HIDE DEF d
  <1>5. ASSUME d + k <= W PROVE (a + k) % W = (f + (d + k)) % W
    <2>1. PICK x \in Int, y \in Int : x = a + k /\ y = f + (d + k)
      BY <1>1, <1>2
    <2>2. 0 <= x /\ x < 2 * W /\ 0 <= y /\ y < 2 * W /\ (x = y \/ x + W = y)
      BY <1>1, <1>2, <1>4, <1>5, <2>1
    <2>3. /\ x % W = IF x < W THEN x ELSE x - W
          /\ y % W = IF y < W THEN y ELSE y - W
      BY <2>2, WrapIs
    <2>4. x % W = y % W
      BY <1>1, <2>2, <2>3
    <2> QED BY <2>1, <2>4
  <1>6. ASSUME d + k < W PROVE (a + k) % W \in 0..W - 1 /\ Dist(f, (a + k) % W) = d + k
    BY <1>1, <1>2, <1>6, DistMoved DEF d
  <1>7. d + k \in Nat /\ d < d + k
    BY <1>1, <1>2
  <1> QED BY <1>2, <1>3, <1>5, <1>6, <1>7 DEF a, d

\* The words that a record in use takes up lie in use.
LEMMA WordsOf ==
    ASSUME NEW f \in 0..W - 1, NEW u \in 0..W, NEW r \in Recs, Within(f, u, r),
           NEW k \in 0..Parts(r.len)
    PROVE  /\ (r.at \div 4 + k) % W \in 0..W - 1
           /\ Dist(f, (r.at \div 4 + k) % W) < u
  <1> DEFINE a == r.at \div 4
  <1>1. a \in 0..W - 1 /\ Span(r) = Parts(r.len) + 1 /\ Parts(r.len) \in Nat
    BY RecordIs
  <1>2. Dist(f, a) \in 0..W - 1 /\ Dist(f, a) + Span(r) <= u
    BY EndIs DEF Within, End
  <1> HIDE DEF a
  <1>3. k \in Nat /\ Dist(f, a) + k < u
    BY <1>1, <1>2
  <1>4. Dist(f, a) + k < W
    BY <1>2, <1>3, SpaceIs
  <1>5. (a + k) % W \in 0..W - 1 /\ Dist(f, (a + k) % W) = Dist(f, a) + k
    BY <1>1, <1>3, <1>4, DistMoved
  <1> QED BY <1>3, <1>5 DEF a

LEMMA HoldsKept ==
    ASSUME NEW f \in 0..W - 1, NEW u \in 0..W, NEW r \in Recs, Within(f, u, r),
           NEW m, NEW n, Holds(m, r),
           \A w \in 0..W - 1 : Dist(f, w) < u => n[w] = m[w]
    PROVE  Holds(n, r)
  <1>1. r.at \div 4 \in 0..W - 1 /\ Parts(r.len) \in Nat /\ W \in Nat \ {0}
    BY RecordIs, SpaceIs
  <1>2. (r.at \div 4 + 0) % W = r.at \div 4
    BY <1>1
  <1>3. n[r.at \div 4] = m[r.at \div 4]
    <2>1. 0 \in 0..Parts(r.len)
      BY <1>1
    <2> QED BY <1>2, <2>1, WordsOf
  <1>4. ASSUME NEW k \in 1..Parts(r.len)
        PROVE  n[(r.at \div 4 + k) % W] = m[(r.at \div 4 + k) % W]
    <2>1. k \in 0..Parts(r.len)
      BY <1>1
    <2> QED BY <2>1, WordsOf
  <1> QED BY <1>3, <1>4 DEF Holds

-----------------------------------------------------------------------------
(* Writing.                                                                *)

\* What the headers and the bytes of a record overwrite.
LEMMA StoredIs ==
    ASSUME Shape, NEW o \in 0..Space - 1, o % 4 = 0, NEW n \in 0..Space, NEW id \in Ids,
           Parts(n) + 1 <= W
    PROVE  LET m == Stored(mem, o, n, id) IN
           /\ m \in [Words -> Cells]
           /\ Holds(m, [id |-> id, len |-> n, at |-> o])
           /\ \A w \in Words : (w - o \div 4) % W > Parts(n) => m[w] = mem[w]
  <1> DEFINE m == Stored(mem, o, n, id)
             a == o \div 4
             p == Parts(n)
             r == [id |-> id, len |-> n, at |-> o]
  <1>0. /\ W \in Nat \ {0} /\ Space = 4 * W /\ Words = 0..W - 1
        /\ a \in 0..W - 1 /\ n \in Nat
    BY SpaceIs
  <1>1. p \in Nat /\ p + 1 <= W
    BY <1>0, PackIs
  <1>2. m = [w \in Words |-> IF (w - a) % W = 0 THEN Header(FALSE, n)
                             ELSE IF (w - a) % W <= p THEN Part(id, (w - a) % W)
                             ELSE mem[w]]
    BY DEF Stored, W
  <1> HIDE DEF m, a, p
  <1>3. \A w \in Words : (w - a) % W \in 0..W - 1
    BY <1>0
  <1>4. Header(FALSE, n) \in Cells
    BY DEF Header, Cells
  <1>5. ASSUME NEW k \in 1..p PROVE Part(id, k) \in Cells
    BY <1>0, <1>1 DEF Part, Cells
  <1>6. ASSUME NEW w \in Words PROVE m[w] \in Cells
    <2>1. mem[w] \in Cells
      BY DEF Shape
    <2>2. CASE (w - a) % W = 0
      BY <1>2, <1>4, <2>2
    <2>3. CASE (w - a) % W # 0 /\ (w - a) % W <= p
      <3>1. (w - a) % W \in 1..p
        BY <1>0, <1>1, <1>3, <2>3
      <3> QED BY <1>2, <1>5, <2>3, <3>1
    <2>4. CASE (w - a) % W # 0 /\ ~((w - a) % W <= p)
      BY <1>2, <2>1, <2>4
    <2> QED BY <2>2, <2>3, <2>4
  <1>7. m \in [Words -> Cells]
    BY <1>2, <1>6
  <1>8. ASSUME NEW k \in 0..p PROVE (a + k) % W \in Words /\ (((a + k) % W) - a) % W = k
    <2>1. PICK x \in Int : x = a + k
      BY <1>0, <1>1
    <2>2. 0 <= x /\ x < 2 * W /\ k \in 0..W - 1
      BY <1>0, <1>1, <2>1
    <2>3. x % W \in 0..W - 1 /\ x % W = IF x < W THEN x ELSE x - W
      BY <2>2, WrapIs
    <2>4. PICK y \in Int : y = (x % W) - a
      <3>1. PICK z \in 0..W - 1 : z = x % W
        BY <2>3
      <3>2. z - a \in Int
        BY <1>0
      <3> QED BY <3>1, <3>2
    <2>5. x % W \in 0..W - 1 /\ (y = k \/ y = k - W)
      BY <1>0, <2>1, <2>2, <2>3, <2>4
    <2>6. y % W = k
      <3>0. -W <= y /\ y < 2 * W
        BY <1>0, <2>2, <2>5
      <3>1. y % W = IF y < 0 THEN y + W ELSE IF y < W THEN y ELSE y - W
        BY <1>0, <3>0, ModIs
      <3> QED BY <1>0, <2>2, <2>5, <3>1
    <2> QED BY <1>0, <2>1, <2>4, <2>5, <2>6
  <1>9. m[a] = Header(FALSE, n)
    <2>1. (a - a) % W = 0
      BY <1>0
    <2> QED BY <1>0, <1>2, <2>1
  <1>10. ASSUME NEW k \in 1..p PROVE m[(a + k) % W] = Part(id, k)
    <2>1. k \in 0..p /\ k # 0 /\ k <= p
      BY <1>1
    <2> QED BY <1>2, <1>8, <2>1
  <1>11. Holds(m, r)
    <2>1. r.at = o /\ r.len = n /\ r.id = id
      OBVIOUS
    <2> HIDE DEF r
    <2> QED BY <1>9, <1>10, <2>1 DEF Holds, a, p
  <1>12. ASSUME NEW w \in Words, (w - a) % W > p PROVE m[w] = mem[w]
    <2>1. (w - a) % W # 0 /\ ~((w - a) % W <= p)
      BY <1>0, <1>1, <1>3, <1>12
    <2> QED BY <1>2, <2>1
  <1> QED BY <1>7, <1>11, <1>12 DEF m, a, p

\* remain, where e words are in use.
LEMMA RemainIs ==
    ASSUME NEW e \in 0..W
    PROVE  /\ 4 * (W - e) \in 0..Space /\ (4 * (W - e)) % 4 = 0
           /\ W - ((4 * (W - e)) \div 4) = e
  <1>1. W \in Nat /\ Space = 4 * W
    BY SpaceIs
  <1> QED BY <1>1

\* The offset of a word.
LEMMA OffsetIs ==
    ASSUME NEW g \in 0..W - 1
    PROVE  4 * g \in 0..Space - 1 /\ (4 * g) % 4 = 0 /\ (4 * g) \div 4 = g
  <1>1. W \in Nat /\ Space = 4 * W
    BY SpaceIs
  <1> QED BY <1>1

\* Where the record behind number i - 1 is looked for.
Begin(i) == IF i = 1 THEN FrontW ELSE After(records[i - 1])

\* That word lies in use.
LEMMA BeginIs ==
    ASSUME IInv, NEW i \in DOMAIN records
    PROVE  Begin(i) \in 0..W - 1 /\ Dist(FrontW, Begin(i)) < UsedW
  <1> USE DEF IInv
  <1>1. FrontW \in 0..W - 1 /\ UsedW \in 0..W /\ W \in Nat \ {0}
    BY WordsAre
  <1>2. records \in Seq(Recs) /\ records[i] \in Recs /\ i \in 1..Len(records)
    BY DEF Shape
  <1> DEFINE d == Dist(FrontW, records[i].at \div 4)
  <1>3. d \in 0..W - 1 /\ d < UsedW
    <2>1. d \in 0..W - 1 /\ End(FrontW, records[i]) \in Nat /\ d < End(FrontW, records[i])
      BY <1>1, <1>2, EndIs
    <2>2. End(FrontW, records[i]) <= UsedW
      BY DEF Places, Within
    <2> HIDE DEF d
    <2> QED BY <1>1, <2>1, <2>2
  <1> HIDE DEF d
  <1>4. CASE i = 1
    <2>1. Begin(i) = FrontW /\ Dist(FrontW, FrontW) = 0
      BY <1>1, <1>4 DEF Begin, Dist
    <2> QED BY <1>1, <1>3, <2>1
  <1>5. CASE i # 1
    <2>1. i - 1 \in DOMAIN records /\ i - 1 < i
      BY <1>2, <1>5
    <2>2. PICK q \in Recs : q = records[i - 1]
      BY <1>2, <2>1
    <2>3. End(FrontW, q) <= d
      BY <2>1, <2>2 DEF Places, d
    <2>4. End(FrontW, q) \in Nat
      BY <1>1, <2>2, EndIs
    <2>5. End(FrontW, q) < W /\ End(FrontW, q) < UsedW
      BY <1>1, <1>3, <2>3, <2>4
    <2>6. After(q) \in 0..W - 1 /\ Dist(FrontW, After(q)) = End(FrontW, q)
      BY <1>1, <2>5, EndIs
    <2>7. Begin(i) = After(q)
      BY <1>5, <2>2 DEF Begin
    <2> QED BY <2>5, <2>6, <2>7
  <1> QED BY <1>4, <1>5

\* A record is appended behind the words in use.
LEMMA Appended ==
    ASSUME IInv, NEW r \in Recs, r.at % 4 = 0,
           UsedW <= Dist(FrontW, r.at \div 4), End(FrontW, r) <= W,
           continuous => r.at \div 4 + Span(r) <= W,
           mem' \in [Words -> Cells],
           \A w \in 0..W - 1 : Dist(FrontW, w) < UsedW => mem'[w] = mem[w],
           Holds(mem', r), NextTo(mem', continuous, BackW, r.at \div 4),
           records' = Append(records, r),
           remain' = 4 * (W - End(FrontW, r)), back' = 4 * After(r),
           UNCHANGED <<attached, created, front, continuous>>
    PROVE  IInv'
  <1> DEFINE e == End(FrontW, r)
             L == Len(records)
  <1>1. /\ FrontW \in 0..W - 1 /\ UsedW \in 0..W /\ W \in Nat \ {0}
        /\ Space = 4 * W /\ BackW \in 0..W - 1
    BY WordsAre DEF IInv
  <1>2. records \in Seq(Recs) /\ L \in Nat /\ DOMAIN records = 1..L
    BY DEF IInv, Shape
  <1>3. /\ e \in Nat /\ e <= W /\ Dist(FrontW, r.at \div 4) \in 0..W - 1
        /\ Dist(FrontW, r.at \div 4) < e
    BY <1>1, EndIs
  <1>a. After(r) = (FrontW + e) % W
    BY <1>1, EndIs
  <1> HIDE DEF e
  <1>4. After(r) \in 0..W - 1
    <2>1. PICK x \in Int : x = FrontW + e
      BY <1>1, <1>3
    <2>2. 0 <= x /\ x < 2 * W
      BY <1>1, <1>3, <2>1
    <2> QED BY <1>a, <2>1, <2>2, WrapIs
  <1>5. /\ records' \in Seq(Recs) /\ DOMAIN records' = 1..L + 1 /\ Len(records') = L + 1
        /\ records'[L + 1] = r /\ \A i \in 1..L : records'[i] = records[i]
        /\ records' # <<>>
    BY <1>2
  <1> HIDE DEF L
  <1>6. FrontW' = FrontW
    BY DEF FrontW
  <1>b. remain' = 4 * (W - e) /\ e \in 0..W
    BY <1>1, <1>3 DEF e
  <1>7. UsedW' = e
    <2>1. UsedW' = W - (remain' \div 4)
      BY DEF UsedW, W
    <2> QED BY <1>b, <2>1, RemainIs
  <1>8. BackW' = After(r)
    BY <1>4 DEF BackW
  <1>9. Shape'
    <2>a. remain' \in 0..Space /\ remain' % 4 = 0
      BY <1>b, RemainIs
    <2>3. back' \in 0..Space - 1 /\ back' % 4 = 0
      BY <1>1, <1>4
    <2> QED BY <1>5, <2>a, <2>3 DEF IInv, Shape
  <1>10. \A i \in 1..L :
           /\ records[i] \in Recs /\ records[i].at % 4 = 0
           /\ End(FrontW, records[i]) \in Nat /\ End(FrontW, records[i]) <= UsedW
           /\ continuous => records[i].at \div 4 + Span(records[i]) <= W
    <2>1. ASSUME NEW i \in 1..L
          PROVE  records[i] \in Recs /\ Within(FrontW, UsedW, records[i])
      BY <1>2 DEF IInv, Places
    <2>2. ASSUME NEW i \in 1..L PROVE End(FrontW, records[i]) \in Nat
      BY <1>1, <2>1, EndIs
    <2> QED BY <2>1, <2>2 DEF Within
  <1>11. Places'
    <2>1. ASSUME NEW i \in 1..L + 1 PROVE Within(FrontW, e, records'[i])
      <3>1. CASE i \in 1..L
        <4>1. End(FrontW, records[i]) <= e
          BY <1>1, <1>3, <1>10, <3>1
        <4>2. records'[i] = records[i]
          BY <1>5, <3>1
        <4>3. Within(FrontW, e, records[i])
          BY <1>10, <3>1, <4>1 DEF Within
        <4> QED BY <4>2, <4>3
      <3>2. CASE i = L + 1
        BY <1>3, <1>5, <3>2 DEF Within, e
      <3> QED BY <1>2, <3>1, <3>2
    <2>2. ASSUME NEW i \in 1..L + 1, NEW j \in 1..L + 1, i < j
          PROVE  End(FrontW, records'[i]) <= Dist(FrontW, records'[j].at \div 4)
      <3>1. i \in 1..L /\ records'[i] = records[i]
        BY <1>2, <1>5, <2>2
      <3>2. CASE j \in 1..L
        BY <1>2, <1>5, <2>2, <3>1, <3>2 DEF IInv, Places
      <3>3. CASE j = L + 1
        BY <1>1, <1>3, <1>5, <1>10, <3>1, <3>3
      <3> QED BY <1>2, <3>2, <3>3
    <2>3. End(FrontW, records'[L + 1]) = e
      BY <1>5 DEF e
    <2> QED BY <1>5, <1>6, <1>7, <1>8, <1>a, <2>1, <2>2, <2>3 DEF Places, Within
  <1>12. Contents'
    <2>1. ASSUME NEW i \in 1..L PROVE Holds(mem', records[i])
      <3>1. Within(FrontW, UsedW, records[i]) /\ Holds(mem, records[i])
        BY <1>2 DEF IInv, Places, Contents
      <3> QED BY <1>1, <1>10, <3>1, HoldsKept
    <2> QED BY <1>2, <1>5, <2>1 DEF Contents
  <1>13. Chain'
    <2>1. ASSUME NEW i \in 1..L
          PROVE  NextTo(mem', continuous', IF i = 1 THEN FrontW' ELSE After(records'[i - 1]),
                        records'[i].at \div 4)
      <3>1. NextTo(mem, continuous, Begin(i), records[i].at \div 4)
        BY <1>2 DEF IInv, Chain, Begin
      <3>2. Begin(i) \in 0..W - 1 /\ Dist(FrontW, Begin(i)) < UsedW
        BY <1>2, BeginIs
      <3>3. mem'[Begin(i)] = mem[Begin(i)]
        BY <3>2
      <3>4. Begin(i) = IF i = 1 THEN FrontW' ELSE After(records'[i - 1])
        <4>1. i # 1 => i - 1 \in 1..L
          BY <1>2
        <4> QED BY <1>5, <1>6, <4>1 DEF Begin
      <3>5. NextTo(mem', continuous', Begin(i), records[i].at \div 4)
        BY <3>1, <3>3 DEF NextTo
      <3> QED BY <1>5, <3>4, <3>5
    <2>2. BackW = IF L + 1 = 1 THEN FrontW' ELSE After(records'[(L + 1) - 1])
      <3>1. BackW = (FrontW + UsedW) % W
        BY DEF IInv, Places
      <3>2. CASE L = 0
        <4>1. UsedW = 0
          BY <1>2, <3>2 DEF IInv, Places, L
        <4>2. BackW = FrontW
          BY <3>1, <4>1, UnusedIs DEF IInv
        <4> QED BY <1>6, <3>2, <4>2
      <3>3. CASE L # 0
        <4>1. records # <<>> /\ L \in 1..L /\ L + 1 # 1 /\ (L + 1) - 1 = L
          BY <1>2, <3>3 DEF L
        <4>2. End(FrontW, records[L]) = UsedW
          BY <4>1 DEF IInv, Places, L
        <4>3. records[L] \in Recs /\ End(FrontW, records[L]) <= W
          BY <1>1, <1>10, <4>1, <4>2
        <4>4. After(records[L]) = (FrontW + UsedW) % W
          BY <1>1, <4>2, <4>3, EndIs
        <4> QED BY <1>5, <3>1, <4>1, <4>4
      <3> QED BY <3>2, <3>3
    <2>3. NextTo(mem', continuous', BackW, records'[L + 1].at \div 4)
      BY <1>5
    <2>4. ASSUME NEW i \in 1..L + 1
          PROVE  NextTo(mem', continuous', IF i = 1 THEN FrontW' ELSE After(records'[i - 1]),
                        records'[i].at \div 4)
      <3>1. i \in 1..L \/ i = L + 1
        BY <1>2
      <3> QED BY <2>1, <2>2, <2>3, <3>1
    <2> QED BY <1>5, <2>4 DEF Chain
  <1> QED BY <1>9, <1>11, <1>12, <1>13 DEF IInv

\* back lies behind the words in use.
LEMMA BackIs ==
    ASSUME IInv, UsedW < W
    PROVE  Dist(FrontW, BackW) = UsedW
  <1>1. FrontW \in 0..W - 1 /\ UsedW \in 0..W /\ BackW = (FrontW + UsedW) % W
    BY WordsAre DEF IInv, Places
  <1>2. Dist(FrontW, FrontW) = 0 /\ UsedW \in Nat
    BY <1>1 DEF Dist
  <1>3. Dist(FrontW, FrontW) + UsedW < W
    BY <1>2
  <1> QED BY <1>1, <1>2, <1>3, DistMoved

\* What write has compared, in words.
LEMMA RoomIs ==
    ASSUME Shape, NEW n \in Lengths, Room(n)
    PROVE  /\ n \in Nat /\ n \in 0..Space /\ Parts(n) \in Nat
           /\ UsedW + Parts(n) + 1 <= W /\ Total(n) = 4 * (Parts(n) + 1)
           /\ Csz = 4 * (W - BackW) /\ (Csz >= Total(n) <=> BackW + Parts(n) + 1 <= W)
           /\ (Csz < Total(n) <=> BackW + Parts(n) + 1 > W)
           /\ Csz = Total(n) <=> BackW + Parts(n) + 1 = W
  <1>1. /\ n \in Nat /\ remain >= n + 4 /\ remain = 4 * (W - UsedW) /\ Space = 4 * W
        /\ W \in Nat \ {0} /\ UsedW \in 0..W /\ BackW \in 0..W - 1 /\ back = 4 * BackW
    BY QueueAssumption, WordsAre DEF Room, HeaderSize
  <1>2. Parts(n) \in Nat /\ Total(n) = 4 * (Parts(n) + 1)
    BY <1>1, PackIs
  <1>3. W - UsedW \in Int
    BY <1>1
  <1>4. W - UsedW >= Parts(n) + 1
    BY <1>1, <1>3, PackFits
  <1>5. Csz = 4 * (W - BackW)
    BY <1>1 DEF Csz
  <1> QED BY <1>1, <1>2, <1>4, <1>5

\* Words in use are not those of a record that begins at back.
LEMMA WritesBehind ==
    ASSUME IInv, NEW n \in Lengths, NEW id \in Ids, Room(n),
           continuous => BackW + Parts(n) + 1 <= W,
           mem' = Stored(mem, back, n, id),
           Written(n, id, back, 4 * ((BackW + Parts(n) + 1) % W), Total(n))
    PROVE  IInv'
  <1> DEFINE r == [id |-> id, len |-> n, at |-> back]
             p == Parts(n)
  <1>1. /\ FrontW \in 0..W - 1 /\ UsedW \in 0..W /\ BackW \in 0..W - 1
        /\ W \in Nat \ {0} /\ Words = 0..W - 1 /\ remain = 4 * (W - UsedW)
    BY WordsAre DEF IInv
  <1>2. n \in 0..Space /\ p \in Nat /\ UsedW + p + 1 <= W /\ Total(n) = 4 * (p + 1)
    BY RoomIs DEF IInv
  <1>3. back \in 0..Space - 1 /\ back % 4 = 0 /\ back \div 4 = BackW
    BY DEF IInv, Shape, BackW
  <1>4. /\ r \in Recs /\ r.at = back /\ r.len = n /\ r.id = id
        /\ r.at % 4 = 0 /\ r.at \div 4 = BackW
    BY <1>2, <1>3 DEF Recs
  <1>5. Span(r) = p + 1 /\ After(r) = (BackW + (p + 1)) % W
    BY <1>4 DEF Span, After
  <1>6. UsedW < W /\ p + 1 <= W
    <2>1. UsedW \in Nat /\ W \in Nat /\ p \in Nat /\ UsedW + p + 1 <= W
      BY <1>1, <1>2
    <2> HIDE DEF p
    <2> QED BY <2>1
  <1>7. Dist(FrontW, BackW) = UsedW
    BY <1>6, BackIs
  <1>8. End(FrontW, r) = UsedW + (p + 1)
    BY <1>4, <1>5, <1>7 DEF End
  <1> HIDE DEF r
  <1>9. /\ mem' \in [Words -> Cells] /\ Holds(mem', r)
        /\ \A w \in Words : (w - BackW) % W > p => mem'[w] = mem[w]
    BY <1>2, <1>3, <1>6, StoredIs DEF IInv, r
  <1> HIDE DEF p
  <1>10. ASSUME NEW w \in 0..W - 1, Dist(FrontW, w) < UsedW PROVE mem'[w] = mem[w]
    <2>1. Dist(FrontW, w) \in 0..W - 1
      BY <1>1, DistIs
    <2>2. (w - BackW) % W = Dist(FrontW, w) - UsedW + W
      <3>1. ~(Dist(FrontW, w) >= UsedW)
        BY <1>1, <1>10, <2>1
      <3> QED BY <1>1, <1>7, <3>1, DistBehind
    <2>3. Dist(FrontW, w) - UsedW + W > p
      BY <1>1, <1>2, <2>1
    <2> QED BY <1>1, <1>9, <2>2, <2>3
  <1>11. NextTo(mem', continuous, BackW, r.at \div 4)
    BY <1>4 DEF NextTo
  <1>12. continuous => r.at \div 4 + Span(r) <= W
    <2>1. continuous => BackW + p + 1 <= W
      BY DEF p
    <2> QED BY <1>1, <1>2, <1>4, <1>5, <2>1
  <1>13. UsedW <= Dist(FrontW, r.at \div 4) /\ End(FrontW, r) <= W
    BY <1>1, <1>2, <1>4, <1>7, <1>8
  <1>14. remain' = 4 * (W - End(FrontW, r))
    <2>1. remain' = remain - Total(n)
      BY DEF Written
    <2> QED BY <1>1, <1>2, <1>8, <2>1
  <1>15. back' = 4 * After(r)
    <2>1. back' = 4 * ((BackW + p + 1) % W) /\ BackW + p + 1 = BackW + (p + 1)
      BY <1>1, <1>2 DEF Written, p
    <2> QED BY <1>5, <2>1
  <1>16. /\ records' = Append(records, r)
         /\ UNCHANGED <<attached, created, front, continuous>>
    BY DEF Written, r
  <1> QED BY <1>4, <1>9, <1>10, <1>11, <1>12, <1>13, <1>14, <1>15, <1>16, Appended

LEMMA Straight ==
    ASSUME IInv, NEW n \in Lengths, NEW id \in Ids, WriteStraight(n, id)
    PROVE  IInv'
  <1>1. Room(n) /\ Csz >= Total(n) /\ mem' = Stored(mem, back, n, id)
    BY DEF WriteStraight
  <1>2. BackW \in 0..W - 1 /\ back = 4 * BackW /\ W \in Nat \ {0}
    BY WordsAre DEF IInv
  <1>3. /\ Parts(n) \in Nat /\ Total(n) = 4 * (Parts(n) + 1)
        /\ BackW + Parts(n) + 1 <= W /\ (Csz = Total(n) <=> BackW + Parts(n) + 1 = W)
    BY <1>1, RoomIs DEF IInv
  <1>4. (IF Csz = Total(n) THEN 0 ELSE back + Total(n)) = 4 * ((BackW + Parts(n) + 1) % W)
    <2>1. PICK x \in Int : x = BackW + Parts(n) + 1
      BY <1>2, <1>3
    <2>2. 0 <= x /\ x < 2 * W /\ x <= W /\ back + Total(n) = 4 * x
      BY <1>2, <1>3, <2>1
    <2>3. x % W = IF x < W THEN x ELSE x - W
      BY <2>2, WrapIs
    <2>4. (IF x = W THEN 0 ELSE 4 * x) = 4 * (x % W)
      BY <1>2, <2>2, <2>3
    <2> QED BY <1>3, <2>1, <2>2, <2>4
  <1>5. Written(n, id, back, 4 * ((BackW + Parts(n) + 1) % W), Total(n))
    BY <1>4 DEF WriteStraight
  <1> QED BY <1>1, <1>3, <1>5, WritesBehind

LEMMA Split ==
    ASSUME IInv, NEW n \in Lengths, NEW id \in Ids, WriteSplit(n, id)
    PROVE  IInv'
  <1>1. Room(n) /\ Csz < Total(n) /\ ~continuous /\ mem' = Stored(mem, back, n, id)
    BY DEF WriteSplit
  <1>2. BackW \in 0..W - 1 /\ UsedW \in 0..W /\ W \in Nat \ {0}
    BY WordsAre DEF IInv
  <1>3. /\ n \in Nat /\ Parts(n) \in Nat /\ UsedW + Parts(n) + 1 <= W
        /\ BackW + Parts(n) + 1 > W /\ Csz = 4 * (W - BackW)
    BY <1>1, RoomIs DEF IInv
  <1>4. Pack(n - (Csz - HeaderSize)) = 4 * ((BackW + Parts(n) + 1) % W)
    <2>1. PICK x \in Int : x = BackW + Parts(n) + 1
      BY <1>2, <1>3
    <2>2. 0 <= x /\ x < 2 * W /\ ~(x < W)
      BY <1>2, <1>3, <2>1
    <2>3. x % W = x - W
      BY <2>2, WrapIs
    <2>4. PICK v \in Int : v = W - BackW
      BY <1>2
    <2>5. ~(v >= Parts(n) + 1)
      BY <1>2, <1>3, <2>4
    <2>6. ~(4 * v >= n + 4)
      BY <1>3, <2>5, PackFits
    <2>7. 4 * v - 4 < n
      BY <1>3, <2>6
    <2>8. Pack(n - (4 * v - 4)) = 4 * (Parts(n) + 1 - v)
      BY <1>3, <2>7, PackFits
    <2>9. Parts(n) + 1 - v = x - W
      BY <1>2, <1>3, <2>1, <2>4
    <2> QED BY <1>3, <2>1, <2>3, <2>4, <2>8, <2>9 DEF HeaderSize
  <1>5. Written(n, id, back, 4 * ((BackW + Parts(n) + 1) % W), Total(n))
    BY <1>4 DEF WriteSplit
  <1> QED BY <1>1, <1>5, WritesBehind

\* Where there is room but not up to the end of the memory, the words in use
\* do not wrap.
LEMMA NotWrapped ==
    ASSUME IInv, NEW p \in Nat, UsedW + p + 1 <= W, BackW + p + 1 > W
    PROVE  BackW = FrontW + UsedW
  <1>1. FrontW \in 0..W - 1 /\ UsedW \in 0..W /\ W \in Nat \ {0}
    BY WordsAre DEF IInv
  <1>2. PICK x \in Int : x = FrontW + UsedW
    BY <1>1
  <1>3. 0 <= x /\ x < 2 * W
    BY <1>1, <1>2
  <1>4. BackW = x % W
    BY <1>2 DEF IInv, Places
  <1>5. BackW = IF x < W THEN x ELSE x - W
    BY <1>3, <1>4, WrapIs
  <1> QED BY <1>1, <1>2, <1>5

LEMMA Padded ==
    ASSUME IInv, NEW n \in Lengths, NEW id \in Ids, WritePadded(n, id)
    PROVE  IInv'
  <1> DEFINE r == [id |-> id, len |-> n, at |-> 0]
             p == Parts(n)
             m == Stored(mem, 0, n, id)
             h == Header(TRUE, Csz - HeaderSize)
  <1>1. /\ FrontW \in 0..W - 1 /\ UsedW \in 0..W /\ BackW \in 0..W - 1
        /\ W \in Nat \ {0} /\ Words = 0..W - 1 /\ remain = 4 * (W - UsedW)
        /\ front = 4 * FrontW /\ Space = 4 * W
    BY WordsAre DEF IInv
  <1>2. Room(n) /\ Csz < Total(n) /\ continuous /\ front >= Total(n)
    BY DEF WritePadded
  <1>3. /\ n \in 0..Space /\ p \in Nat /\ UsedW + p + 1 <= W /\ Total(n) = 4 * (p + 1)
        /\ Csz = 4 * (W - BackW) /\ BackW + p + 1 > W
    BY <1>2, RoomIs DEF IInv
  <1>4. p + 1 <= FrontW
    BY <1>1, <1>2, <1>3
  <1>5. BackW = FrontW + UsedW
    BY <1>3, NotWrapped
  <1>6. r \in Recs /\ r.at = 0 /\ r.len = n /\ r.id = id
    BY <1>1, <1>3 DEF Recs
  <1>7. r.at % 4 = 0 /\ r.at \div 4 = 0
    BY <1>6
  <1>8. Span(r) = p + 1 /\ After(r) = p + 1
    <2>1. Span(r) = p + 1
      BY <1>6 DEF Span
    <2>2. (0 + (p + 1)) % W = p + 1
      <3>1. PICK x \in Int : x = 0 + (p + 1) /\ x = p + 1
        BY <1>3
      <3>2. 0 <= x /\ x < W /\ x < 2 * W
        BY <1>1, <1>3, <1>4, <3>1, SMTT(30)
      <3>3. x % W = x
        BY <3>2, WrapIs
      <3> QED BY <3>1, <3>3
    <2> QED BY <1>7, <2>1, <2>2 DEF After
  <1>9. Dist(FrontW, 0) = W - FrontW
    BY <1>1, <1>3, <1>4 DEF Dist
  <1>10. End(FrontW, r) = W - FrontW + (p + 1)
    BY <1>7, <1>8, <1>9 DEF End
  <1>11. 0 \in 0..Space - 1 /\ 0 % 4 = 0 /\ 0 \div 4 = 0 /\ p + 1 <= W
    BY <1>1, <1>3, <1>4
  <1>12. /\ m \in [Words -> Cells] /\ Holds(m, r)
         /\ \A w \in Words : (w - 0) % W > p => m[w] = mem[w]
    <2>1. /\ m \in [Words -> Cells] /\ Holds(m, r)
          /\ \A w \in Words : (w - (0 \div 4)) % W > p => m[w] = mem[w]
      BY <1>3, <1>11, StoredIs DEF IInv
    <2> QED BY <1>11, <2>1
  <1>13. mem' = [m EXCEPT ![BackW] = h] /\ h = Header(TRUE, 4 * (W - BackW) - 4)
    BY <1>3 DEF WritePadded, BackW, HeaderSize
  <1>14. h \in Cells
    <2>1. 4 * (W - BackW) - 4 \in 0..Space
      BY <1>1
    <2> QED BY <1>13, <2>1 DEF Header, Cells
  <1> HIDE DEF r, p, m, h
  <1>15. mem' \in [Words -> Cells] /\ mem'[BackW] = h
    BY <1>1, <1>12, <1>13, <1>14
  <1>16. \A w \in Words : w # BackW => mem'[w] = m[w]
    BY <1>1, <1>12, <1>13
  <1>17. Holds(mem', r)
    <2>1. 0 \in Words /\ 0 # BackW
      BY <1>1, <1>3, <1>4, <1>5
    <2>2. ASSUME NEW k \in 1..Parts(r.len)
          PROVE  (0 + k) % W \in Words /\ (0 + k) % W # BackW
      <3>1. k \in 1..p
        BY <1>6 DEF p
      <3>2. k \in 0..W - 1 /\ k # BackW
        BY <1>1, <1>3, <1>4, <1>5, <3>1
      <3>3. (0 + k) % W = k
        BY <1>1, <3>2
      <3> QED BY <1>1, <3>2, <3>3
    <2> QED BY <1>7, <1>12, <1>16, <2>1, <2>2 DEF Holds
  <1>18. ASSUME NEW w \in 0..W - 1, Dist(FrontW, w) < UsedW PROVE mem'[w] = mem[w]
    <2>1. FrontW <= w /\ w < BackW
      BY <1>1, <1>5, <1>18 DEF Dist
    <2>2. (w - 0) % W = w /\ w > p /\ w # BackW
      BY <1>1, <1>3, <1>4, <2>1
    <2> QED BY <1>1, <1>12, <1>16, <2>2
  <1>19. NextTo(mem', continuous, BackW, r.at \div 4)
    <2>1. BackW # 0
      BY <1>1, <1>3, <1>4, <1>5
    <2> QED BY <1>2, <1>7, <1>13, <1>15, <2>1 DEF NextTo
  <1>20. r.at \div 4 + Span(r) <= W
    BY <1>1, <1>3, <1>4, <1>7, <1>8
  <1>21. UsedW <= Dist(FrontW, r.at \div 4) /\ End(FrontW, r) <= W
    BY <1>1, <1>3, <1>4, <1>5, <1>7, <1>9, <1>10
  <1>22. Written(n, id, 0, Total(n), Csz + Total(n))
    BY DEF WritePadded
  <1>23. remain' = 4 * (W - End(FrontW, r))
    <2>1. remain' = remain - (Csz + Total(n))
      BY <1>22 DEF Written
    <2> QED BY <1>1, <1>3, <1>5, <1>10, <2>1
  <1>24. back' = 4 * After(r)
    BY <1>3, <1>8, <1>22 DEF Written
  <1>25. /\ records' = Append(records, r)
         /\ UNCHANGED <<attached, created, front, continuous>>
    BY <1>22 DEF Written, r
  <1> QED BY <1>6, <1>7, <1>15, <1>17, <1>18, <1>19, <1>20, <1>21, <1>23, <1>24, <1>25,
             Appended

-----------------------------------------------------------------------------
(* Taking.                                                                 *)

\* The size of a padding record makes it reach the end of the memory.
LEMMA PadIs ==
    ASSUME NEW x \in Nat \ {0}
    PROVE  4 * x - 4 \in Nat /\ Total(4 * x - 4) = 4 * x
  BY DEF Total, Pack, HeaderSize

\* read, erase and peek find the first record, behind the padding if there is
\* some.
LEMMA FirstIs ==
    ASSUME IInv, records # <<>>
    PROVE  LET r == records[1]
               d == Dist(FrontW, r.at \div 4)
           IN  /\ First = r.at /\ At(First) = Header(FALSE, r.len)
               /\ Remain = 4 * (W - (UsedW - d)) /\ Remain # Space
               /\ Total(At(front).size) <= Space - remain
               /\ OnPad => front + Total(At(front).size) = Space
  <1>1. /\ FrontW \in 0..W - 1 /\ UsedW \in 0..W /\ W \in Nat \ {0}
        /\ Space = 4 * W /\ front = 4 * FrontW /\ remain = 4 * (W - UsedW)
    BY WordsAre DEF IInv
  <1>2. 1 \in DOMAIN records /\ records[1] \in Recs
    BY DEF IInv, Shape
  <1>3. PICK r \in Recs : r = records[1]
    BY <1>2
  <1> DEFINE a == r.at \div 4
             d == Dist(FrontW, a)
  <1>4. /\ a \in 0..W - 1 /\ r.at % 4 = 0 /\ r.at = 4 * a
        /\ Total(r.len) = 4 * Span(r) /\ Span(r) \in Nat \ {0}
    BY <1>2, <1>3, RecordIs DEF IInv, Places, Within
  <1>5. d \in 0..W - 1 /\ d + Span(r) <= UsedW
    BY <1>1, <1>2, <1>3, EndIs DEF IInv, Places, Within, End
  <1>6. mem[a] = Header(FALSE, r.len)
    BY <1>2, <1>3 DEF IInv, Contents, Holds
  <1>7. NextTo(mem, continuous, FrontW, a)
    BY <1>2, <1>3 DEF IInv, Chain
  <1>8. At(front) = mem[FrontW] /\ At(r.at) = mem[a] /\ At(0) = mem[0]
    BY DEF At, FrontW
  <1> HIDE DEF a
  <1>9. CASE a = FrontW
    <2>1. ~OnPad /\ At(front).size = r.len
      BY <1>6, <1>8, <1>9 DEF OnPad, Header
    <2>2. d = 0
      BY <1>1, <1>9 DEF Dist
    <2>3. First = r.at /\ Remain = remain
      BY <1>1, <1>4, <1>9, <2>1 DEF First, Remain
    <2>4. remain = 4 * (W - (UsedW - d)) /\ remain # Space
      BY <1>1, <1>4, <1>5, <2>2
    <2>5. 4 * Span(r) <= Space - remain
      BY <1>1, <1>4, <1>5, <2>2
    <2> QED BY <1>3, <1>4, <1>6, <1>8, <2>1, <2>3, <2>4, <2>5 DEF a, d
  <1>10. CASE a # FrontW
    <2>1. continuous /\ a = 0 /\ FrontW # 0 /\ mem[FrontW] = Header(TRUE, 4 * (W - FrontW) - 4)
      BY <1>7, <1>10 DEF NextTo
    <2>2. OnPad /\ At(front).size = 4 * (W - FrontW) - 4
      BY <1>8, <2>1 DEF OnPad, Header
    <2>3. d = W - FrontW
      BY <1>1, <2>1 DEF Dist
    <2>4. PICK x \in Nat \ {0} : x = W - FrontW
      BY <1>1
    <2>5. Total(At(front).size) = 4 * x
      BY <2>2, <2>4, PadIs
    <2>6. First = r.at /\ Remain = remain + 4 * x
      BY <1>4, <2>1, <2>2, <2>5 DEF First, Remain
    <2>7. remain + 4 * x = 4 * (W - (UsedW - d)) /\ remain + 4 * x # Space
      BY <1>1, <1>4, <1>5, <2>3, <2>4
    <2>8. 4 * x <= Space - remain /\ front + 4 * x = Space
      BY <1>1, <1>4, <1>5, <2>3, <2>4
    <2> QED BY <1>3, <1>6, <1>8, <2>5, <2>6, <2>7, <2>8 DEF a, d
  <1> QED BY <1>9, <1>10

\* Where a record ends.
LEMMA PastIs ==
    ASSUME Shape, NEW r \in Recs, r.at % 4 = 0, Holds(mem, r), Span(r) <= W,
           continuous => r.at \div 4 + Span(r) <= W
    PROVE  Past(r.at) = 4 * After(r) /\ After(r) \in 0..W - 1
  <1>1. /\ r.at \div 4 \in 0..W - 1 /\ r.at = 4 * (r.at \div 4)
        /\ Total(r.len) = 4 * Span(r) /\ Span(r) \in Nat \ {0}
        /\ W \in Nat \ {0} /\ Space = 4 * W
    BY RecordIs, SpaceIs
  <1>2. At(r.at).size = r.len
    BY DEF Holds, At, Header
  <1>3. PICK x \in Int : x = r.at \div 4 + Span(r)
    BY <1>1
  <1>4. 0 <= x /\ x < 2 * W
    BY <1>1, <1>3
  <1>5. After(r) = (IF x < W THEN x ELSE x - W) /\ After(r) \in 0..W - 1
    BY <1>3, <1>4, WrapIs DEF After
  <1>6. r.at + Total(At(r.at).size) = 4 * x
    BY <1>1, <1>2, <1>3
  <1>7. PICK y \in Int : y = 4 * x
    OBVIOUS
  <1>8. Past(r.at) = CASE y < Space -> y [] y = Space -> 0
                       [] y > Space -> IF continuous THEN y ELSE y - Space
    BY <1>6, <1>7 DEF Past
  <1>9. continuous => x <= W
    BY <1>3
  <1>10. CASE x < W
    BY <1>1, <1>5, <1>7, <1>8, <1>10
  <1>11. CASE x = W
    BY <1>1, <1>5, <1>7, <1>8, <1>11
  <1>12. CASE x > W
    BY <1>1, <1>5, <1>7, <1>8, <1>9, <1>12
  <1> QED BY <1>1, <1>10, <1>11, <1>12

\* The words in use, seen from a word further on, end at the same word.
LEMMA SameEnd ==
    ASSUME NEW f \in 0..W - 1, NEW u \in 0..W, NEW s \in 0..W, s <= u,
           NEW g \in 0..W - 1, g = (f + s) % W
    PROVE  (g + (u - s)) % W = (f + u) % W
  <1>1. W \in Nat \ {0}
    BY SpaceIs
  <1>2. PICK x \in Int, y \in Int, z \in Int : x = f + s /\ y = f + u /\ z = g + (u - s)
    BY <1>1
  <1>3. 0 <= x /\ x < 2 * W /\ 0 <= y /\ y < 2 * W /\ 0 <= z /\ z < 2 * W
    BY <1>1, <1>2
  <1>4. g = IF x < W THEN x ELSE x - W
    <2>1. g = x % W
      BY <1>2
    <2> QED BY <1>3, <2>1, WrapIs
  <1>5. z = y \/ z = y - W
    <2>1. z = g + (y - x)
      BY <1>1, <1>2
    <2>2. CASE x < W
      BY <1>1, <1>4, <2>1, <2>2
    <2>3. CASE ~(x < W)
      BY <1>1, <1>4, <2>1, <2>3
    <2> QED BY <2>2, <2>3
  <1>6. /\ y % W = IF y < W THEN y ELSE y - W
        /\ z % W = IF z < W THEN z ELSE z - W
    BY <1>3, WrapIs
  <1>7. z % W = y % W
    BY <1>1, <1>3, <1>5, <1>6
  <1> QED BY <1>2, <1>7

\* The first record is taken out.
LEMMA Dropped ==
    ASSUME IInv, records # <<>>,
           front' = 4 * After(records[1]),
           remain' = 4 * (W - (UsedW - End(FrontW, records[1]))),
           records' = Tail(records),
           UNCHANGED <<attached, created, mem, back, continuous>>
    PROVE  IInv'
  <1> DEFINE r == records[1]
             s == End(FrontW, r)
             g == After(r)
             u == UsedW - s
             L == Len(records)
  <1>1. /\ FrontW \in 0..W - 1 /\ UsedW \in 0..W /\ W \in Nat \ {0}
        /\ Space = 4 * W /\ BackW \in 0..W - 1
    BY WordsAre DEF IInv
  <1>2. /\ records \in Seq(Recs) /\ L \in Nat \ {0} /\ DOMAIN records = 1..L
        /\ 1 \in 1..L /\ r \in Recs
    BY DEF IInv, Shape
  <1>3. s \in Nat /\ s <= UsedW
    BY <1>1, <1>2, EndIs DEF IInv, Places, Within
  <1>4. s \in 0..W /\ u \in 0..W /\ s <= W
    BY <1>1, <1>3
  <1>5. g = (FrontW + s) % W
    BY <1>1, <1>2, <1>4, EndIs
  <1> HIDE DEF s, g
  <1>6. g \in 0..W - 1
    <2>1. PICK x \in Int : x = FrontW + s
      BY <1>1, <1>3
    <2>2. 0 <= x /\ x < 2 * W
      BY <1>1, <1>3, <2>1
    <2> QED BY <1>5, <2>1, <2>2, WrapIs
  <1>7. front' \in 0..Space - 1 /\ front' % 4 = 0 /\ front' \div 4 = g
    <2>1. front' = 4 * g
      BY DEF g
    <2> QED BY <1>6, <2>1, OffsetIs
  <1>8. FrontW' = g
    BY <1>7 DEF FrontW
  <1>9. remain' = 4 * (W - u)
    BY DEF s
  <1> HIDE DEF u
  <1>10. UsedW' = u
    <2>1. UsedW' = W - (remain' \div 4)
      BY DEF UsedW, W
    <2> QED BY <1>4, <1>9, <2>1, RemainIs
  <1>11. BackW' = BackW
    BY DEF BackW
  <1> HIDE DEF r
  <1>12. /\ records' \in Seq(Recs) /\ DOMAIN records' = 1..L - 1 /\ Len(records') = L - 1
         /\ \A i \in 1..L - 1 : records'[i] = records[i + 1] /\ i + 1 \in 1..L
         /\ records' = <<>> <=> L = 1
    <2>1. records' \in Seq(Recs) /\ DOMAIN records' = 1..L - 1 /\ Len(records') = L - 1
      BY <1>2
    <2>2. \A i \in 1..L - 1 : records'[i] = records[i + 1] /\ i + 1 \in 1..L
      BY <1>2
    <2>3. records' = <<>> <=> Len(records') = 0
      BY <2>1, EmptySeq
    <2> QED BY <1>2, <2>1, <2>2, <2>3
  <1> HIDE DEF L
  <1>13. Shape'
    <2>1. remain' \in 0..Space /\ remain' % 4 = 0
      BY <1>4, <1>9, RemainIs
    <2> QED BY <1>7, <1>12, <2>1 DEF IInv, Shape
  <1>14. ASSUME NEW i \in 1..L, i # 1
         PROVE  /\ records[i] \in Recs
                /\ Dist(FrontW, records[i].at \div 4) \in 0..W - 1
                /\ Dist(g, records[i].at \div 4) = Dist(FrontW, records[i].at \div 4) - s
                /\ End(FrontW, records[i]) \in Nat /\ End(FrontW, records[i]) <= UsedW
                /\ End(g, records[i]) = End(FrontW, records[i]) - s
    <2>1. PICK q \in Recs : q = records[i]
      BY <1>2, <1>14
    <2>2. /\ Dist(FrontW, q.at \div 4) \in 0..W - 1 /\ q.at \div 4 \in 0..W - 1
          /\ End(FrontW, q) \in Nat /\ Span(q) \in Nat
      BY <1>1, EndIs, RecordIs
    <2>3. s <= Dist(FrontW, q.at \div 4)
      <3>1. 1 < i /\ 1 \in 1..L
        BY <1>2, <1>14
      <3> QED BY <1>2, <2>1, <3>1 DEF IInv, Places, s, r
    <2>4. Dist(g, q.at \div 4) = Dist(FrontW, q.at \div 4) - s
      <3>1. Dist(FrontW, q.at \div 4) >= s
        BY <1>3, <2>2, <2>3
      <3>2. PICK w \in 0..W - 1 : w = q.at \div 4
        BY <2>2
      <3>3. Dist(g, w) = Dist(FrontW, w) - s
        BY <1>1, <1>4, <1>5, <1>6, <3>1, <3>2, DistFrom
      <3> QED BY <3>2, <3>3
    <2>5. End(g, q) = End(FrontW, q) - s
      BY <1>3, <2>2, <2>4 DEF End
    <2>6. End(FrontW, q) <= UsedW
      BY <1>2, <2>1 DEF IInv, Places, Within
    <2> QED BY <2>1, <2>2, <2>4, <2>5, <2>6
  <1>15. \A i \in 1..L - 1 : i + 1 \in 1..L /\ i + 1 # 1
    BY <1>2
  <1>16. Places'
    <2>1. ASSUME NEW i \in 1..L - 1 PROVE Within(g, u, records'[i])
      <3>1. End(g, records[i + 1]) <= u
        <4>1. /\ End(FrontW, records[i + 1]) \in Nat
              /\ End(FrontW, records[i + 1]) <= UsedW
              /\ End(g, records[i + 1]) = End(FrontW, records[i + 1]) - s
          BY <1>14, <1>15
        <4> QED BY <1>1, <1>3, <4>1 DEF u
      <3>2. Within(FrontW, UsedW, records[i + 1])
        BY <1>2, <1>15 DEF IInv, Places
      <3> QED BY <1>12, <3>1, <3>2 DEF Within
    <2>2. ASSUME NEW i \in 1..L - 1, NEW j \in 1..L - 1, i < j
          PROVE  End(g, records'[i]) <= Dist(g, records'[j].at \div 4)
      <3>1. i + 1 < j + 1
        BY <2>2
      <3>2. End(FrontW, records[i + 1]) <= Dist(FrontW, records[j + 1].at \div 4)
        BY <1>2, <1>15, <3>1 DEF IInv, Places
      <3>3. /\ End(FrontW, records[i + 1]) \in Nat
            /\ End(g, records[i + 1]) = End(FrontW, records[i + 1]) - s
            /\ Dist(FrontW, records[j + 1].at \div 4) \in 0..W - 1
            /\ Dist(g, records[j + 1].at \div 4)
                 = Dist(FrontW, records[j + 1].at \div 4) - s
        BY <1>14, <1>15
      <3>4. End(g, records[i + 1]) <= Dist(g, records[j + 1].at \div 4)
        BY <1>1, <1>3, <3>2, <3>3
      <3> QED BY <1>12, <3>4
    <2>3. End(FrontW, records[L]) = UsedW
      BY DEF IInv, Places, L
    <2>4. records' # <<>> => End(g, records'[L - 1]) = u
      <3>1. SUFFICES ASSUME L # 1 PROVE End(g, records'[L - 1]) = u
        BY <1>12
      <3>2. L - 1 \in 1..L - 1 /\ L \in 1..L /\ (L - 1) + 1 = L
        BY <1>2, <3>1
      <3>3. End(g, records[L]) = End(FrontW, records[L]) - s
        BY <1>14, <3>1, <3>2
      <3> QED BY <1>12, <2>3, <3>2, <3>3 DEF u
    <2>5. records' = <<>> => u = 0
      <3>1. L = 1 => s = UsedW
        BY <2>3 DEF s, r
      <3> QED BY <1>1, <1>12, <3>1 DEF u
    <2>6. BackW = (g + u) % W
      <3>1. BackW = (FrontW + UsedW) % W
        BY DEF IInv, Places
      <3>2. (g + (UsedW - s)) % W = (FrontW + UsedW) % W
        BY <1>1, <1>3, <1>4, <1>5, <1>6, SameEnd, ZenonT(60)
      <3> QED BY <3>1, <3>2 DEF u
    <2> QED BY <1>8, <1>10, <1>11, <1>12, <2>1, <2>2, <2>4, <2>5, <2>6
         DEF Places, Within
  <1>17. Contents'
    BY <1>2, <1>12, <1>15 DEF IInv, Contents
  <1>18. Chain'
    <2>1. ASSUME NEW i \in 1..L - 1
          PROVE  NextTo(mem', continuous', IF i = 1 THEN FrontW' ELSE After(records'[i - 1]),
                        records'[i].at \div 4)
      <3>1. NextTo(mem, continuous, After(records[i]), records[i + 1].at \div 4)
        <4>1. i + 1 \in 1..L /\ i + 1 # 1 /\ (i + 1) - 1 = i
          BY <1>15
        <4> QED BY <1>2, <4>1 DEF IInv, Chain
      <3>2. After(records[i]) = IF i = 1 THEN FrontW' ELSE After(records'[i - 1])
        <4>1. CASE i = 1
          BY <1>8, <4>1 DEF g, r
        <4>2. CASE i # 1
          <5>1. i - 1 \in 1..L - 1 /\ (i - 1) + 1 = i
            BY <1>2, <4>2
          <5> QED BY <1>12, <4>2, <5>1
        <4> QED BY <4>1, <4>2
      <3>3. records'[i] = records[i + 1]
        BY <1>12
      <3> QED BY <3>1, <3>2, <3>3
    <2> QED BY <1>12, <2>1 DEF Chain
  <1> QED BY <1>13, <1>16, <1>17, <1>18 DEF IInv

\* read and erase: an attached queue in use has a first record, and it goes.
LEMMA Taken ==
    ASSUME IInv, NEW res, Take(res)
    PROVE  IInv'
  <1>1. /\ FrontW \in 0..W - 1 /\ UsedW \in 0..W /\ W \in Nat \ {0}
        /\ Space = 4 * W /\ remain = 4 * (W - UsedW)
    BY WordsAre DEF IInv
  <1>2. records # <<>>
    <2>1. remain # Space
      BY DEF Take, Empty
    <2>2. UsedW # 0
      BY <1>1, <2>1
    <2> QED BY <2>2 DEF IInv, Places
  <1>3. 1 \in DOMAIN records /\ records[1] \in Recs
    BY <1>2 DEF IInv, Shape
  <1>4. PICK r \in Recs : r = records[1]
    BY <1>3
  <1> DEFINE d == Dist(FrontW, r.at \div 4)
  <1>5. /\ First = r.at /\ At(First) = Header(FALSE, r.len)
        /\ Remain = 4 * (W - (UsedW - d)) /\ Remain # Space
    BY <1>2, <1>4, FirstIs
  <1>6. /\ d \in 0..W - 1 /\ Span(r) \in Nat \ {0} /\ Total(r.len) = 4 * Span(r)
        /\ End(FrontW, r) = d + Span(r)
    BY <1>1, EndIs, RecordIs DEF End
  <1>7. /\ Within(FrontW, UsedW, r) /\ Holds(mem, r)
    BY <1>3, <1>4 DEF IInv, Places, Contents
  <1> HIDE DEF d
  <1>8. Span(r) <= W
    BY <1>1, <1>6, <1>7 DEF Within
  <1>9. Past(First) = 4 * After(r)
    BY <1>5, <1>7, <1>8, PastIs DEF IInv, Within
  <1>10. At(First).size = r.len
    BY <1>5 DEF Header
  <1>11. front' = 4 * After(r) /\ remain' = Remain + Total(r.len) /\ records' = Tail(records)
    BY <1>2, <1>5, <1>9, <1>10 DEF Take
  <1>12. remain' = 4 * (W - (UsedW - End(FrontW, r)))
    BY <1>1, <1>5, <1>6, <1>11
  <1>13. UNCHANGED <<attached, created, mem, back, continuous>>
    BY DEF Take
  <1> QED BY <1>2, <1>4, <1>11, <1>12, <1>13, Dropped

-----------------------------------------------------------------------------
(* The invariant and the theorems.                                         *)

\* What create and clear leave.
NoRecords ==
    /\ attached \in BOOLEAN /\ created \in BOOLEAN /\ continuous \in BOOLEAN
    /\ mem \in [Words -> Cells]
    /\ front = 0 /\ back = 0 /\ remain = Space /\ records = <<>>

LEMMA Emptied == NoRecords => IInv
  <1> SUFFICES ASSUME NoRecords PROVE IInv
    OBVIOUS
  <1> USE DEF NoRecords
  <1>1. W \in Nat \ {0} /\ Space = 4 * W
    BY SpaceIs
  <1>2. Shape
    <2>1. Space % 4 = 0 /\ 0 % 4 = 0 /\ Space \in 0..Space /\ 0 \in 0..Space - 1
      BY <1>1
    <2>2. records \in Seq(Recs)
      OBVIOUS
    <2> QED BY <2>1, <2>2 DEF Shape
  <1>3. FrontW = 0 /\ BackW = 0 /\ UsedW = 0
    BY <1>1 DEF FrontW, BackW, UsedW
  <1>4. (0 + 0) % W = 0
    BY <1>1
  <1>5. DOMAIN records = {}
    OBVIOUS
  <1> QED BY <1>2, <1>3, <1>4, <1>5 DEF IInv, Places, Contents, Chain

LEMMA InitIInv == Init => IInv
  <1> SUFFICES ASSUME Init PROVE IInv
    OBVIOUS
  <1>1. Unset \in Cells
    BY QueueAssumption DEF Unset, Cells
  <1>2. mem \in [Words -> Cells]
    BY <1>1 DEF Init
  <1> QED BY <1>2, Emptied DEF Init, NoRecords

LEMMA NextIInv == IInv /\ [Next]_vars => IInv'
  <1> SUFFICES ASSUME IInv, [Next]_vars PROVE IInv'
    OBVIOUS
  <1>1. ASSUME attached' \in BOOLEAN, UNCHANGED <<created, mem, control, records>>
        PROVE  IInv'
    BY <1>1 DEF IInv, Shape, Places, Contents, Chain, Within, FrontW, BackW, UsedW,
       control
  <1>2. ASSUME attached' = TRUE \/ attached' = attached, created' = TRUE \/ created' = created,
               continuous' \in BOOLEAN, front' = 0, back' = 0, remain' = Space,
               records' = <<>>, mem' = mem
        PROVE  IInv'
    <2>1. attached' \in BOOLEAN /\ created' \in BOOLEAN /\ mem' \in [Words -> Cells]
      BY <1>2 DEF IInv, Shape
    <2>2. NoRecords' => IInv'
      BY Emptied, PTL
    <2>3. NoRecords'
      BY <1>2, <2>1 DEF NoRecords
    <2> QED BY <2>2, <2>3
  <1>3. attached \in BOOLEAN
    BY DEF IInv, Shape
  <1>4. ASSUME NEW c \in BOOLEAN, Create(c) PROVE IInv'
    BY <1>2, <1>4 DEF Create
  <1>5. CASE Reuse
    BY <1>1, <1>5 DEF Reuse
  <1>6. CASE Close
    BY <1>1, <1>6 DEF Close
  <1>7. CASE Clear
    BY <1>2, <1>7 DEF Clear
  <1>8. ASSUME NEW n \in Lengths, NEW id \in Ids, Write(n, id) PROVE IInv'
    <2>1. CASE WriteStraight(n, id)
      BY <2>1, Straight
    <2>2. CASE WritePadded(n, id)
      BY <2>2, Padded
    <2>3. CASE WriteSplit(n, id)
      BY <2>3, Split
    <2>4. CASE WriteRefused(n)
      BY <1>1, <1>3, <2>4 DEF WriteRefused
    <2> QED BY <1>8, <2>1, <2>2, <2>3, <2>4 DEF Write
  <1>9. ASSUME NEW res, Returns(res) PROVE IInv'
    BY <1>1, <1>3, <1>9 DEF Returns
  <1>10. CASE Read
    BY <1>9, <1>10, Taken DEF Read
  <1>11. CASE Erase
    BY <1>9, <1>11, Taken DEF Erase
  <1>12. CASE Peek
    BY <1>9, <1>12 DEF Peek
  <1>13. CASE UNCHANGED vars
    BY <1>1, <1>3, <1>13 DEF vars, control
  <1> QED BY <1>4, <1>5, <1>6, <1>7, <1>8, <1>10, <1>11, <1>12, <1>13 DEF Next

LEMMA Invariance == Spec => []IInv
  BY InitIInv, NextIInv, PTL DEF Spec

-----------------------------------------------------------------------------

\* back, in bytes.
LEMMA BytesWrap ==
    ASSUME NEW x \in Int, 0 <= x, x < 2 * W
    PROVE  (4 * x) % Space = 4 * (x % W)
  <1>1. W \in Nat \ {0} /\ Space = 4 * W /\ Space \in Nat \ {0}
    BY SpaceIs, QueueAssumption
  <1>2. x % W = IF x < W THEN x ELSE x - W
    BY WrapIs
  <1>3. PICK y \in Int : y = 4 * x
    OBVIOUS
  <1>4. -Space <= y /\ y < 2 * Space /\ ~(y < 0) /\ (y < Space <=> x < W)
    BY <1>1, <1>3
  <1>5. y % Space = IF y < Space THEN y ELSE y - Space
    BY <1>1, <1>4, ModIs
  <1>6. y % Space = 4 * (x % W)
    BY <1>1, <1>2, <1>3, <1>4, <1>5
  <1> QED BY <1>3, <1>6

LEMMA IInvLayout == IInv => Layout
  <1> SUFFICES ASSUME IInv PROVE Layout
    OBVIOUS
  <1>1. /\ FrontW \in 0..W - 1 /\ front = 4 * FrontW
        /\ BackW \in 0..W - 1 /\ back = 4 * BackW
        /\ UsedW \in 0..W /\ remain = 4 * (W - UsedW)
        /\ W \in Nat \ {0} /\ Space = 4 * W
    BY WordsAre DEF IInv
  <1>2. records \in Seq(Recs) /\ DOMAIN records = 1..Len(records)
    BY DEF IInv, Shape
  <1>3. TypeOK
    <2>1. \A i \in DOMAIN records : records[i] \in Recs
      BY <1>2
    <2> QED BY <2>1 DEF IInv, Shape, TypeOK, Cells, Recs
  <1>4. back = (front + Space - remain) % Space
    <2>1. PICK x \in Int : x = FrontW + UsedW
      BY <1>1
    <2>2. 0 <= x /\ x < 2 * W /\ front + Space - remain = 4 * x
      BY <1>1, <2>1
    <2>3. BackW = x % W
      BY <2>1 DEF IInv, Places
    <2> QED BY <1>1, <2>2, <2>3, BytesWrap
  <1>5. {front % 4, back % 4, remain % 4} = {0}
    BY DEF IInv, Shape
  <1>6. remain = Space <=> records = <<>>
    <2>1. CASE records = <<>>
      BY <1>1, <2>1 DEF IInv, Places
    <2>2. CASE records # <<>>
      <3>1. 1 \in DOMAIN records /\ records[1] \in Recs
        BY <2>2 DEF IInv, Shape
      <3>2. End(FrontW, records[1]) \in Nat /\ End(FrontW, records[1]) # 0
        BY <1>1, <3>1, EndIs
      <3>3. End(FrontW, records[1]) <= UsedW
        BY <3>1 DEF IInv, Places, Within
      <3> QED BY <1>1, <2>2, <3>2, <3>3
    <2> QED BY <2>1, <2>2
  <1>7. ASSUME NEW i \in DOMAIN records
        PROVE  /\ records[i] \in Recs /\ Holds(mem, records[i])
               /\ Past(records[i].at) = 4 * After(records[i])
               /\ After(records[i]) \in 0..W - 1
    <2>1. PICK r \in Recs : r = records[i]
      BY <1>2
    <2>2. Within(FrontW, UsedW, r) /\ Holds(mem, r)
      BY <2>1 DEF IInv, Places, Contents
    <2>3. Dist(FrontW, r.at \div 4) \in 0..W - 1 /\ Span(r) \in Nat
      BY <1>1, EndIs, RecordIs
    <2>4. Span(r) <= W
      BY <1>1, <2>2, <2>3 DEF Within, End
    <2> QED BY <2>1, <2>2, <2>4, PastIs DEF IInv, Within
  <1>8. ASSUME NEW i \in DOMAIN records
        PROVE  Follows(IF i = 1 THEN front ELSE Past(records[i-1].at), records[i].at)
    <2>1. PICK r \in Recs : r = records[i]
      BY <1>2
    <2>2. r.at = 4 * (r.at \div 4)
      BY <2>1, RecordIs DEF IInv, Places, Within
    <2>3. NextTo(mem, continuous, Begin(i), r.at \div 4)
      BY <2>1 DEF IInv, Chain, Begin
    <2>4. Begin(i) \in 0..W - 1
      BY BeginIs
    <2>5. PICK o \in 0..W - 1 : o = Begin(i)
      BY <2>4
    <2>6. (IF i = 1 THEN front ELSE Past(records[i-1].at)) = 4 * o
      <3>1. CASE i = 1
        BY <1>1, <2>5, <3>1 DEF Begin
      <3>2. CASE i # 1
        <4>1. i - 1 \in DOMAIN records
          BY <1>2, <3>2
        <4> QED BY <1>7, <2>5, <3>2, <4>1 DEF Begin
      <3> QED BY <3>1, <3>2
    <2>7. Follows(4 * o, r.at)
      <3>1. CASE r.at \div 4 = o
        BY <2>2, <3>1 DEF Follows
      <3>2. CASE r.at \div 4 # o
        <4>1. /\ continuous /\ r.at \div 4 = 0 /\ o # 0
              /\ mem[o] = Header(TRUE, 4 * (W - o) - 4)
          BY <2>3, <2>5, <3>2 DEF NextTo
        <4>2. /\ Space - 4 * o - HeaderSize = 4 * (W - o) - 4
              /\ 4 * o # 0 /\ (4 * o) \div 4 = o
          BY <1>1, <4>1 DEF HeaderSize
        <4>3. r.at = 0
          BY <2>2, <4>1
        <4> QED BY <4>1, <4>2, <4>3 DEF Follows, At
      <3> QED BY <3>1, <3>2
    <2> QED BY <2>1, <2>6, <2>7
  <1>9. ASSUME NEW i \in DOMAIN records, i = Len(records)
        PROVE  back = Past(records[i].at)
    <2>1. records # <<>>
      BY <1>2
    <2>2. End(FrontW, records[i]) = UsedW
      BY <1>9, <2>1 DEF IInv, Places
    <2>3. After(records[i]) = (FrontW + UsedW) % W
      <3>1. records[i] \in Recs /\ End(FrontW, records[i]) <= W
        BY <1>1, <1>7, <2>2
      <3> QED BY <1>1, <2>2, <3>1, EndIs
    <2> QED BY <1>1, <1>7, <2>3 DEF IInv, Places
  <1>10. ASSUME NEW i \in DOMAIN records
         PROVE  LET r == records[i] IN
                /\ At(r.at) = Header(FALSE, r.len)
                /\ \A k \in 1..Parts(r.len) :
                     mem[(r.at \div 4 + k) % (Space \div 4)] = Part(r.id, k)
    BY <1>7 DEF Holds, At, W
  <1> QED BY <1>3, <1>4, <1>5, <1>6, <1>8, <1>9, <1>10 DEF Layout

LEMMA IInvAssertions == IInv => AssertionsHold
  <1> SUFFICES ASSUME IInv PROVE AssertionsHold
    OBVIOUS
  <1>1. /\ FrontW \in 0..W - 1 /\ front = 4 * FrontW
        /\ BackW \in 0..W - 1 /\ back = 4 * BackW
        /\ UsedW \in 0..W /\ remain = 4 * (W - UsedW)
        /\ W \in Nat \ {0} /\ Space = 4 * W
    BY WordsAre DEF IInv
  <1>2. ASSUME NEW n \in Lengths, Room(n)
        PROVE  /\ Csz > 0 /\ Csz % 4 = 0
               /\ Csz < Total(n) /\ continuous => back >= front
               /\ Csz < Total(n) /\ ~continuous => n - (Csz - HeaderSize) > 0
    <2>1. /\ n \in Nat /\ Parts(n) \in Nat /\ UsedW + Parts(n) + 1 <= W
          /\ Csz = 4 * (W - BackW) /\ (Csz < Total(n) <=> BackW + Parts(n) + 1 > W)
      BY <1>2, RoomIs DEF IInv
    <2>2. PICK v \in Nat \ {0} : v = W - BackW
      BY <1>1
    <2>3. Csz > 0 /\ Csz % 4 = 0
      BY <2>1, <2>2
    <2>4. ASSUME Csz < Total(n) PROVE back >= front
      <3>1. BackW = FrontW + UsedW
        BY <2>1, <2>4, NotWrapped
      <3> QED BY <1>1, <3>1
    <2>5. ASSUME Csz < Total(n) PROVE n - (Csz - HeaderSize) > 0
      <3>1. v \in Int /\ ~(v >= Parts(n) + 1)
        BY <1>1, <2>1, <2>2, <2>5
      <3>2. ~(4 * v >= n + 4)
        BY <2>1, <3>1, PackFits
      <3> QED BY <2>1, <2>2, <3>2 DEF HeaderSize
    <2> QED BY <2>3, <2>4, <2>5
  <1>3. ASSUME ~Empty
        PROVE  /\ Total(At(front).size) <= Space - remain
               /\ OnPad => front + Total(At(front).size) = Space
               /\ OnPad /\ Remain # Space =>
                    ~At(First).pad /\ Total(At(First).size) <= Space - Remain
    <2>1. remain # Space
      BY <1>3 DEF Empty
    <2>2. records # <<>>
      BY <1>1, <2>1 DEF IInv, Places
    <2>3. PICK r \in Recs : r = records[1] /\ 1 \in DOMAIN records
      BY <2>2 DEF IInv, Shape
    <2> DEFINE d == Dist(FrontW, r.at \div 4)
    <2>4. At(First) = Header(FALSE, r.len) /\ Remain = 4 * (W - (UsedW - d))
      BY <2>2, <2>3, FirstIs
    <2>5. ~At(First).pad /\ At(First).size = r.len
      BY <2>4 DEF Header
    <2>6. d \in 0..W - 1 /\ d + Span(r) <= UsedW
      <3>1. Within(FrontW, UsedW, r)
        BY <2>3 DEF IInv, Places
      <3> QED BY <1>1, <3>1, EndIs DEF Within, End
    <2>7. Total(r.len) = 4 * Span(r) /\ Span(r) \in Nat
      BY RecordIs
    <2> HIDE DEF d
    <2>8. Total(At(First).size) <= Space - Remain
      <3>1. Space - Remain = 4 * (UsedW - d)
        BY <1>1, <2>4, <2>6
      <3>2. 4 * Span(r) <= 4 * (UsedW - d)
        BY <1>1, <2>6, <2>7
      <3>3. Total(At(First).size) = 4 * Span(r)
        BY <2>5, <2>7
      <3> QED BY <3>1, <3>2, <3>3
    <2> QED BY <2>2, <2>5, <2>8, FirstIs
  <1> QED BY <1>2, <1>3 DEF AssertionsHold

\* Whatever is written, taken, cleared, closed and attached again, the records
\* lie end to end from front to back with their own headers and bytes, and
\* remain is what they and the padding leave (write, read, erase).
THEOREM RecordsLieEndToEnd == Spec => []Layout
  BY Invariance, IInvLayout, PTL

\* The assertions of write, read, erase and peek never fail.
THEOREM AssertionsNeverFail == Spec => []AssertionsHold
  BY Invariance, IInvAssertions, PTL

-----------------------------------------------------------------------------
(* VariableQueue implements RecordQueue.                                   *)

\* What a caller knows of record r, and of a sequence of records.
Known(r) == [id |-> r.id, len |-> r.len]
Knowns == [id : Ids, len : 0..Space]
Queue == [i \in DOMAIN records |-> [id |-> records[i].id, len |-> records[i].len]]
Bytes == Space - remain
Seen == <<attached, Queue, Bytes, continuous, result>>

LEMMA QueueIs ==
    ASSUME records \in Seq(Recs)
    PROVE  /\ Queue \in Seq(Knowns) /\ Len(Queue) = Len(records)
           /\ Queue = <<>> <=> records = <<>>
           /\ \A i \in 1..Len(records) : Queue[i] = Known(records[i])
           /\ records # <<>> => Head(Queue) = Known(records[1])
  <1>1. DOMAIN records = 1..Len(records) /\ Len(records) \in Nat
    OBVIOUS
  <1>2. \A i \in 1..Len(records) : Known(records[i]) \in Knowns
    <2>1. ASSUME NEW r \in Recs PROVE Known(r) \in Knowns
      BY DEF Recs, Known, Knowns
    <2> QED BY <1>1, <2>1
  <1>3. Queue = [i \in 1..Len(records) |-> Known(records[i])]
    BY <1>1 DEF Queue, Known
  <1>4. Queue \in Seq(Knowns) /\ Len(Queue) = Len(records)
    BY <1>1, <1>2, <1>3
  <1>5. Queue = <<>> <=> records = <<>>
    BY <1>1, <1>4, EmptySeq
  <1>6. \A i \in 1..Len(records) : Queue[i] = Known(records[i])
    BY <1>3
  <1>7. records # <<>> => Head(Queue) = Known(records[1])
    BY <1>1, <1>4, <1>6
  <1> QED BY <1>4, <1>5, <1>6, <1>7

LEMMA QueueAppended ==
    ASSUME records \in Seq(Recs), NEW r \in Recs, records' = Append(records, r)
    PROVE  Queue' = Append(Queue, Known(r))
  <1>1. /\ records' \in Seq(Recs) /\ Len(records') = Len(records) + 1
        /\ DOMAIN records' = 1..Len(records) + 1
        /\ \A i \in 1..Len(records) + 1 :
             records'[i] = IF i <= Len(records) THEN records[i] ELSE r
    OBVIOUS
  <1>2. /\ Queue \in Seq(Knowns) /\ Len(Queue) = Len(records)
        /\ \A i \in 1..Len(records) : Queue[i] = Known(records[i])
    BY QueueIs
  <1>3. Known(r) \in Knowns
    BY DEF Known, Recs, Knowns
  <1>4. PICK q \in Seq(Knowns) : q = Append(Queue, Known(r))
    <2>1. Append(Queue, Known(r)) \in Seq(Knowns)
      BY <1>2, <1>3, AppendProperties
    <2> QED BY <2>1
  <1>5. /\ DOMAIN q = 1..Len(records) + 1
        /\ \A i \in 1..Len(records) + 1 :
             q[i] = IF i <= Len(records) THEN Known(records[i]) ELSE Known(r)
    BY <1>2, <1>3, <1>4
  <1>6. Queue' = [i \in 1..Len(records) + 1 |-> Known(records'[i])]
    BY <1>1 DEF Queue, Known
  <1>7. \A i \in 1..Len(records) + 1 : Known(records'[i]) = q[i]
    BY <1>1, <1>5
  <1>8. q = [i \in 1..Len(records) + 1 |-> q[i]]
    BY <1>5
  <1> QED BY <1>4, <1>6, <1>7, <1>8

LEMMA QueueShortened ==
    ASSUME records \in Seq(Recs), records # <<>>, records' = Tail(records)
    PROVE  Queue' = Tail(Queue)
  <1> DEFINE L == Len(records)
  <1>0. L \in Nat \ {0}
    OBVIOUS
  <1>1. /\ DOMAIN records' = 1..L - 1
        /\ \A i \in 1..L - 1 : records'[i] = records[i + 1] /\ i + 1 \in 1..L
    OBVIOUS
  <1>2. /\ Queue \in Seq(Knowns) /\ Len(Queue) = L /\ Queue # <<>>
        /\ \A i \in 1..L : Queue[i] = Known(records[i])
    BY QueueIs
  <1> HIDE DEF L
  <1>3. PICK q \in Seq(Knowns) : q = Tail(Queue)
    <2>1. Tail(Queue) \in Seq(Knowns)
      BY <1>2, HeadTailProperties
    <2> QED BY <2>1
  <1>4. DOMAIN q = 1..L - 1 /\ \A i \in 1..L - 1 : q[i] = Queue[i + 1]
    BY <1>0, <1>2, <1>3
  <1>5. Queue' = [i \in 1..L - 1 |-> Known(records'[i])]
    BY <1>1 DEF Queue, Known
  <1>6. \A i \in 1..L - 1 : Known(records'[i]) = q[i]
    BY <1>1, <1>2, <1>4
  <1>7. q = [i \in 1..L - 1 |-> q[i]]
    BY <1>4
  <1> QED BY <1>3, <1>5, <1>6, <1>7

LEMMA FootprintIs ==
    ASSUME NEW n \in Nat
    PROVE  Abstract!Footprint(n) = Total(n) /\ Total(n) \in Nat /\ Total(n) >= n + 4
  BY DEF Abstract!Footprint, Total, Pack, HeaderSize

\* What read and peek return is the first record as it was written.
LEMMA ContentIs ==
    ASSUME IInv, records # <<>>
    PROVE  Content(First) = Abstract!Data(Known(records[1]))
  <1>1. 1 \in DOMAIN records /\ records[1] \in Recs
    BY DEF IInv, Shape
  <1>2. PICK r \in Recs : r = records[1]
    BY <1>1
  <1>3. First = r.at /\ At(First) = Header(FALSE, r.len)
    BY <1>2, FirstIs
  <1>4. At(First).size = r.len
    BY <1>3 DEF Header
  <1>5. Within(FrontW, UsedW, r) /\ Holds(mem, r)
    BY <1>1, <1>2 DEF IInv, Places, Contents
  <1>6. /\ r.at \div 4 \in 0..W - 1 /\ Parts(r.len) \in Nat /\ Span(r) = Parts(r.len) + 1
        /\ W \in Nat \ {0} /\ Words = 0..W - 1 /\ W = Space \div 4
    BY RecordIs, SpaceIs DEF W
  <1>7. Span(r) <= W
    <2>1. Dist(FrontW, r.at \div 4) \in 0..W - 1 /\ UsedW \in 0..W
      BY EndIs, WordsAre DEF IInv
    <2> QED BY <1>5, <1>6, <2>1 DEF Within, End
  <1>8. ASSUME NEW k \in 1..Parts(r.len)
        PROVE  (LET w == r.at \div 4 + k IN
                IF w \in Words THEN mem[w].data
                ELSE IF continuous THEN <<>> ELSE mem[w - Space \div 4].data) = <<r.id, k>>
    <2>1. mem[(r.at \div 4 + k) % W] = Part(r.id, k)
      BY <1>5 DEF Holds
    <2>2. mem[(r.at \div 4 + k) % W].data = <<r.id, k>>
      BY <2>1 DEF Part
    <2>3. PICK x \in Int : x = r.at \div 4 + k
      BY <1>6
    <2>4. 0 <= x /\ x < 2 * W /\ (x \in Words <=> x < W)
      BY <1>6, <1>7, <2>3
    <2>5. x % W = IF x < W THEN x ELSE x - W
      BY <2>4, WrapIs
    <2>6. continuous => x < W
      <3>1. continuous => r.at \div 4 + Span(r) <= W
        BY <1>5 DEF Within
      <3> QED BY <1>6, <2>3, <3>1
    <2>7. (IF x \in Words THEN mem[x].data
           ELSE IF continuous THEN <<>> ELSE mem[x - Space \div 4].data) = <<r.id, k>>
      BY <1>6, <2>2, <2>3, <2>4, <2>5, <2>6
    <2> QED BY <2>3, <2>7
  <1>9. Content(First) = Returned("data", r.len, [k \in 1..Parts(r.len) |-> <<r.id, k>>])
    BY <1>3, <1>4, <1>8 DEF Content
  <1>10. Known(records[1]).id = r.id /\ Known(records[1]).len = r.len
    BY <1>2 DEF Known
  <1> QED BY <1>9, <1>10 DEF Abstract!Data, Abstract!Returned, Returned, Parts

LEMMA WriteImplements ==
    ASSUME IInv, IInv', NEW n \in Lengths, NEW id \in Ids,
           WriteStraight(n, id) \/ WritePadded(n, id) \/ WriteSplit(n, id)
    PROVE  Abstract!Put
  <1>1. Room(n)
    BY DEF WriteStraight, WritePadded, WriteSplit
  <1>2. /\ n \in 0..Space /\ n \in Nat /\ Abstract!Footprint(n) = Total(n)
        /\ Total(n) \in Nat
    BY <1>1, RoomIs, FootprintIs DEF IInv
  <1>3. PICK o \in 0..Space - 1, s \in Nat :
          /\ \E b : Written(n, id, o, b, s)
          /\ s >= Total(n) /\ (~continuous => s = Total(n))
    <2>0. back \in 0..Space - 1 /\ Total(n) >= Total(n)
      BY <1>2 DEF IInv, Shape
    <2>1. CASE WriteStraight(n, id)
      <3>1. \E b : Written(n, id, back, b, Total(n))
        BY <2>1 DEF WriteStraight
      <3> QED BY <1>2, <2>0, <3>1
    <2>2. CASE WriteSplit(n, id)
      <3>1. \E b : Written(n, id, back, b, Total(n))
        BY <2>2 DEF WriteSplit
      <3> QED BY <1>2, <2>0, <3>1
    <2>3. CASE WritePadded(n, id)
      <3>1. 0 \in 0..Space - 1 /\ Csz \in Nat
        BY QueueAssumption DEF IInv, Shape, Csz
      <3>2. Csz + Total(n) \in Nat /\ Csz + Total(n) >= Total(n)
        BY <1>2, <3>1
      <3>3. continuous /\ \E b : Written(n, id, 0, b, Csz + Total(n))
        BY <2>3 DEF WritePadded
      <3> QED BY <3>1, <3>2, <3>3
    <2> QED BY <2>1, <2>2, <2>3
  <1>4. PICK r \in Recs : r = [id |-> id, len |-> n, at |-> o]
    BY <1>2 DEF Recs
  <1>5. Known(r) = [id |-> id, len |-> n]
    BY <1>4 DEF Known
  <1>6. Queue' = Append(Queue, [id |-> id, len |-> n])
    BY <1>3, <1>4, <1>5, QueueAppended DEF Written, IInv, Shape
  <1>7. /\ Bytes \in 0..Space /\ Bytes' \in 0..Space /\ Bytes' = Bytes + s
    BY <1>3, QueueAssumption DEF Written, IInv, Shape, Bytes
  <1>8. IF continuous THEN Bytes' >= Bytes + Abstract!Footprint(n)
        ELSE Bytes' = Bytes + Abstract!Footprint(n)
    BY <1>2, <1>3, <1>7
  <1>9. /\ attached /\ result' = Abstract!Accepted
        /\ UNCHANGED <<attached, continuous>>
    BY <1>1, <1>3 DEF Room, Written, Accepted, Returned, Abstract!Accepted,
                      Abstract!Returned
  <1> QED BY <1>6, <1>7, <1>8, <1>9 DEF Abstract!Put, Queue, Bytes

LEMMA RefusedImplements ==
    ASSUME IInv, NEW n \in Lengths, WriteRefused(n)
    PROVE  Abstract!Refuse
  <1>1. /\ FrontW \in 0..W - 1 /\ front = 4 * FrontW /\ Space = 4 * W
        /\ BackW \in 0..W - 1 /\ back = 4 * BackW /\ W \in Nat \ {0}
        /\ UsedW \in 0..W /\ remain = 4 * (W - UsedW)
    BY WordsAre DEF IInv
  <1>2. /\ n \in Nat /\ Abstract!Footprint(n) = Total(n) /\ Total(n) \in Nat
        /\ Total(n) >= n + 4
    BY FootprintIs, QueueAssumption
  <1>3. \/ ~attached \/ Bytes + Abstract!Footprint(n) > Space
        \/ continuous /\ Bytes + 2 * Abstract!Footprint(n) > Space
    <2>1. CASE ~Room(n)
      BY <1>1, <1>2, <2>1 DEF Room, HeaderSize, Bytes
    <2>2. CASE Room(n) /\ continuous /\ Csz < Total(n) /\ front < Total(n)
      <3>1. /\ Parts(n) \in Nat /\ UsedW + Parts(n) + 1 <= W
            /\ Csz = 4 * (W - BackW) /\ BackW + Parts(n) + 1 > W
        BY <2>2, RoomIs DEF IInv
      <3>2. BackW = FrontW + UsedW
        BY <3>1, NotWrapped
      <3>3. Bytes + 2 * Total(n) > Space
        BY <1>1, <1>2, <2>2, <3>1, <3>2 DEF Bytes
      <3> QED BY <1>2, <2>2, <3>3
    <2> QED BY <2>1, <2>2 DEF WriteRefused
  <1>4. result' = Abstract!Refused(n)
    BY DEF WriteRefused, Refused, Returned, Abstract!Refused, Abstract!Returned
  <1>5. UNCHANGED <<attached, Queue, Bytes, continuous>>
    BY DEF WriteRefused, control, Queue, Bytes
  <1> QED BY <1>3, <1>4, <1>5 DEF Abstract!Refuse, Queue, Bytes

LEMMA TakeImplements ==
    ASSUME IInv, IInv', NEW res, Take(res)
    PROVE  Abstract!Shorten /\ result' = res /\ records # <<>>
  <1>1. /\ UsedW \in 0..W /\ W \in Nat \ {0} /\ Space = 4 * W
        /\ remain = 4 * (W - UsedW) /\ FrontW \in 0..W - 1
    BY WordsAre DEF IInv
  <1>2. records # <<>> /\ attached
    <2>1. remain # Space /\ attached
      BY DEF Take, Empty
    <2>2. UsedW # 0
      BY <1>1, <2>1
    <2> QED BY <2>1, <2>2 DEF IInv, Places
  <1>3. PICK r \in Recs : r = records[1] /\ 1 \in DOMAIN records
    BY <1>2 DEF IInv, Shape
  <1> DEFINE d == Dist(FrontW, r.at \div 4)
  <1>4. /\ Remain = 4 * (W - (UsedW - d)) /\ Remain # Space
        /\ At(First) = Header(FALSE, r.len)
    BY <1>2, <1>3, FirstIs
  <1>5. At(First).size = r.len
    BY <1>4 DEF Header
  <1>6. /\ r.len \in Nat /\ Total(r.len) = Abstract!Footprint(r.len)
        /\ Total(r.len) \in Nat
    BY RecordIs, FootprintIs
  <1>7. d \in 0..W - 1 /\ (~continuous => d = 0)
    <2>1. d \in 0..W - 1
      BY <1>1, EndIs
    <2>2. NextTo(mem, continuous, FrontW, r.at \div 4)
      BY <1>3 DEF IInv, Chain
    <2>3. ~continuous => d = 0
      <3>1. ~continuous => r.at \div 4 = FrontW
        BY <2>2 DEF NextTo
      <3>2. Dist(FrontW, FrontW) = 0
        BY <1>1 DEF Dist
      <3> QED BY <3>1, <3>2
    <2> QED BY <2>1, <2>3
  <1> HIDE DEF d
  <1>8. remain' = Remain + Total(r.len) /\ records' = Tail(records) /\ result' = res
    BY <1>2, <1>4, <1>5 DEF Take
  <1>9. Bytes' = Bytes - 4 * d - Total(r.len) /\ Bytes \in Nat
    BY <1>1, <1>4, <1>6, <1>7, <1>8 DEF Bytes
  <1>10. Bytes' \in 0..Space
    <2>1. remain' \in 0..Space
      BY DEF IInv, Shape
    <2>2. Space \in Nat /\ Bytes' = Space - remain'
      BY QueueAssumption DEF Bytes
    <2>3. \A x \in 0..Space : Space - x \in 0..Space
      BY <2>2
    <2> QED BY <2>1, <2>2, <2>3
  <1>11. /\ Queue' = Tail(Queue) /\ Queue # <<>> /\ Head(Queue).len = r.len
    BY <1>2, <1>3, <1>8, QueueIs, QueueShortened DEF IInv, Shape, Known
  <1>12. Queue' = <<>> => Bytes' = 0
    <2>1. records' \in Seq(Recs)
      BY DEF IInv, Shape
    <2>2. (records \in Seq(Recs) => (Queue = <<>> <=> records = <<>>))'
      BY QueueIs, PTL
    <2>3. Layout'
      BY IInvLayout, PTL
    <2> QED BY <2>1, <2>2, <2>3, QueueAssumption DEF Layout, Bytes
  <1>13. IF continuous THEN Bytes' <= Bytes - Abstract!Footprint(Head(Queue).len)
         ELSE Bytes' = Bytes - Abstract!Footprint(Head(Queue).len)
    BY <1>6, <1>7, <1>9, <1>11
  <1>14. UNCHANGED <<attached, continuous>>
    BY DEF Take
  <1>15. Abstract!Shorten
    BY <1>2, <1>10, <1>11, <1>12, <1>13, <1>14 DEF Abstract!Shorten, Queue, Bytes
  <1> QED BY <1>2, <1>8, <1>15

LEMMA StepImplements ==
    ASSUME IInv, IInv', [Next]_vars
    PROVE  [Abstract!Next]_Seen
  <1> USE DEF Abstract!Next
  <1>0. records \in Seq(Recs) /\ attached \in BOOLEAN /\ continuous' \in BOOLEAN
    BY DEF IInv, Shape
  <1>1. ASSUME attached' = TRUE, records' = <<>>, remain' = Space, UNCHANGED result
        PROVE  Abstract!Clear
    <2>1. Queue' = <<>> /\ Bytes' = 0
      BY <1>1, QueueAssumption DEF Queue, Bytes
    <2> QED BY <1>0, <1>1, <2>1 DEF Abstract!Clear, Queue, Bytes
  <1>2. ASSUME attached' = ~attached, UNCHANGED <<control, result, records>>
        PROVE  Abstract!Leave
    BY <1>2 DEF Abstract!Leave, control
  <1>3. ASSUME NEW c \in BOOLEAN, Create(c) PROVE [Abstract!Next]_Seen
    BY <1>1, <1>3 DEF Create
  <1>4. CASE Reuse
    BY <1>0, <1>2, <1>4 DEF Reuse
  <1>5. CASE Close
    BY <1>0, <1>2, <1>5 DEF Close
  <1>6. CASE Clear
    BY <1>0, <1>1, <1>6 DEF Clear
  <1>7. ASSUME NEW n \in Lengths, NEW id \in Ids, Write(n, id)
        PROVE  [Abstract!Next]_Seen
    BY <1>7, WriteImplements, RefusedImplements DEF Write
  <1>8. Empty <=> ~attached \/ Queue = <<>>
    <2>1. Layout
      BY IInvLayout
    <2> QED BY <1>0, <2>1, QueueIs DEF Empty, Layout
  <1>9. ASSUME Returns(Nothing), Empty PROVE Abstract!None
    <2>1. result' = Abstract!Nothing /\ UNCHANGED <<attached, Queue, Bytes, continuous>>
      BY <1>9 DEF Returns, control, Nothing, Returned, Abstract!Nothing,
         Abstract!Returned,
                  Queue, Bytes
    <2> QED BY <1>8, <1>9, <2>1 DEF Abstract!None, Queue, Bytes
  <1>10. CASE Read
    <2>1. CASE Take(Content(First))
      <3>1. Abstract!Shorten /\ result' = Content(First) /\ records # <<>>
        BY <2>1, TakeImplements
      <3>2. Content(First) = Abstract!Data(Head(Queue))
        BY <1>0, <3>1, ContentIs, QueueIs
      <3>3. Abstract!Get
        BY <3>1, <3>2 DEF Abstract!Get, Queue
      <3> QED BY <3>3
    <2> QED BY <1>9, <1>10, <2>1 DEF Read
  <1>11. CASE Erase
    <2>1. CASE Take(Returned("erased", At(First).size, <<>>))
      <3>1. /\ Abstract!Shorten /\ records # <<>>
            /\ result' = Returned("erased", At(First).size, <<>>)
        BY <2>1, TakeImplements
      <3>2. At(First).size = Head(Queue).len
        BY <1>0, <3>1, FirstIs, QueueIs DEF Header, Known
      <3>3. Abstract!Drop
        BY <3>1, <3>2 DEF Abstract!Drop, Abstract!Returned, Returned, Queue
      <3> QED BY <3>3
    <2> QED BY <1>9, <1>11, <2>1 DEF Erase
  <1>12. CASE Peek
    <2>0. UNCHANGED <<attached, Queue, Bytes, continuous>>
      BY <1>12 DEF Peek, Returns, control, Queue, Bytes
    <2>1. CASE Empty \/ ~continuous
      <3>1. result' = Abstract!Null
        BY <1>12, <2>1 DEF Peek, Returns, Null, Returned, Abstract!Null,
           Abstract!Returned
      <3>2. Abstract!None
        BY <1>8, <2>0, <2>1, <3>1 DEF Abstract!None, Queue, Bytes
      <3> QED BY <3>2
    <2>2. CASE ~Empty /\ continuous
      <3>1. result' = Content(First)
        BY <1>12, <2>2 DEF Peek, Returns
      <3>2. records # <<>> /\ Queue # <<>> /\ attached
        BY <1>0, <1>8, <2>2, QueueIs
      <3>3. Content(First) = Abstract!Data(Head(Queue))
        BY <1>0, <3>2, ContentIs, QueueIs
      <3>4. Abstract!Peek
        BY <2>0, <2>2, <3>1, <3>2, <3>3 DEF Abstract!Peek, Queue, Bytes
      <3> QED BY <3>4
    <2> QED BY <2>1, <2>2
  <1>13. CASE UNCHANGED vars
    BY <1>13 DEF vars, Seen, Queue, Bytes
  <1> QED BY <1>3, <1>4, <1>5, <1>6, <1>7, <1>10, <1>11, <1>12, <1>13 DEF Next

\* The queue is a queue of records, whatever the size of the memory, the lengths
\* and the sequence of calls: what read, erase and peek return is the oldest record
\* as it was written, and write refuses a record only when it takes more than
\* what is free, or, in a continuous queue, more than half of that.
THEOREM QueueIsRecordQueue == Spec => IsRecordQueue
  <1>1. Init => Abstract!Init
    <2> SUFFICES ASSUME Init PROVE Abstract!Init
      OBVIOUS
    <2>1. Queue = <<>> /\ Bytes = 0
      BY QueueAssumption DEF Init, Queue, Bytes
    <2> QED BY <2>1 DEF Init, Abstract!Init, Nothing, Returned, Abstract!Nothing,
                       Abstract!Returned, Queue, Bytes
  <1>2. IInv /\ IInv' /\ [Next]_vars => [Abstract!Next]_Seen
    BY StepImplements
  <1> QED BY <1>1, <1>2, Invariance, PTL
          DEF Spec, IsRecordQueue, Abstract!Spec, Seen, Queue, Bytes
=============================================================================
