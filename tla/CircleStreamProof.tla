-------------------------- MODULE CircleStreamProof --------------------------
(***************************************************************************)
(* front, back and _remain_size of circle-stream.h agree for every         *)
(* capacity and every sequence of calls in which no write passes the end   *)
(* of the memory while the free space does not.  TypeOK and Agree together *)
(* are inductive; with Stored, that each byte in use is the one written at *)
(* its place in the stream, they show that peek returns what was written.  *)
(***************************************************************************)
EXTENDS CircleStream, TLAPS

\* A number below the modulus is its own remainder: uint32_t arithmetic that
\* neither overflows nor underflows is exact.
LEMMA Exact ==
    ASSUME NEW w \in Nat \ {0}, NEW x \in Int, 0 <= x, x < w
    PROVE  x % w = x
  OBVIOUS

\* A remainder is below the modulus.
LEMMA Remainder ==
    ASSUME NEW w \in Nat \ {0}, NEW x \in Int
    PROVE  x % w \in 0..w - 1
  OBVIOUS

\* A write of len bytes that end before the end of the memory.
LEMMA StraightAgrees ==
    ASSUME NEW c \in Nat \ {0}, NEW f \in 0..c, NEW b \in 0..c, NEW r \in Nat,
           InUse(c, f, b, r), r # 0,
           NEW len \in Nat, c - b >= len,
           NEW n \in Nat, n = IF len <= r THEN len ELSE r
    PROVE  /\ 0 <= r - n /\ r - n <= r
           /\ b + n \in 0..c
           /\ InUse(c, f, b + n, r - n)
  <1>1. CASE len <= r
    BY <1>1 DEF InUse
  <1>2. CASE r < len
    BY <1>2 DEF InUse
  <1> QED BY <1>1, <1>2

\* One that goes on from the beginning, up to front.
LEMMA WrappedAgrees ==
    ASSUME NEW c \in Nat \ {0}, NEW f \in 0..c, NEW b \in 0..c, NEW r \in Nat,
           InUse(c, f, b, r), r # 0, f <= b,
           NEW len \in Nat, c - b < len,
           NEW n \in Nat, n = IF len - (c - b) <= f THEN len - (c - b) ELSE f
    PROVE  /\ 0 <= r - ((c - b) + n) /\ r - ((c - b) + n) <= r
           /\ n \in 0..c
           /\ InUse(c, f, n, r - ((c - b) + n))
  <1>1. CASE len - (c - b) <= f
    BY <1>1 DEF InUse
  <1>2. CASE f < len - (c - b)
    BY <1>2 DEF InUse
  <1> QED BY <1>1, <1>2

\* A read of n bytes that leaves some.
LEMMA ReadAgrees ==
    ASSUME NEW c \in Nat \ {0}, NEW f \in 0..c, NEW b \in 0..c, NEW r \in Nat,
           InUse(c, f, b, r), r # c,
           NEW n \in Nat, n <= c - r, r + n # c,
           NEW g \in Int, g = IF n < c - f THEN f + n ELSE n - (c - f)
    PROVE  g \in 0..c /\ InUse(c, g, b, r + n)
  <1>1. CASE n < c - f
    BY <1>1 DEF InUse
  <1>2. CASE n >= c - f
    BY <1>2 DEF InUse
  <1> QED BY <1>1, <1>2

-----------------------------------------------------------------------------
LEMMA ConstantTypes ==
    /\ Capacity \in Nat \ {0} /\ Modulus \in Nat \ {0} /\ Word \in Nat \ {0}
    /\ Capacity < Word
    /\ \A n \in Lengths : n \in Nat
  BY StreamAssumption DEF Modulus

IInv == TypeOK /\ Agree

\* What the memory holds never leaves its type.
LEMMA DataType ==
    ASSUME sent \in Int, NEW n \in Int
    PROVE  Data(n) \in 0..Modulus - 1
  BY Remainder, ConstantTypes DEF Data

LEMMA CopiedType ==
    ASSUME sent \in Int,
           NEW m \in [Cells -> 0..Modulus - 1 \cup {Empty}],
           NEW at \in Int, NEW from \in Int, NEW n \in Int
    PROVE  Copied(m, at, from, n) \in [Cells -> 0..Modulus - 1 \cup {Empty}]
  <1>1. ASSUME NEW i \in Cells PROVE Data(from + i - at) \in 0..Modulus - 1
    BY DataType, ConstantTypes DEF Cells
  <1> QED BY <1>1 DEF Copied

LEMMA InitIInv == Init => IInv
  <1> SUFFICES ASSUME Init PROVE IInv
    OBVIOUS
  <1>1. mem \in [Cells -> 0..Modulus - 1 \cup {Empty}]
    BY DEF Init
  <1>2. /\ front \in 0..Capacity /\ back \in 0..Capacity /\ remain \in 0..Word - 1
        /\ sent \in 0..Modulus - 1 /\ offset \in 0..Modulus - 1
    BY ConstantTypes DEF Init
  <1>3. TypeOK
    BY <1>1, <1>2 DEF Init, TypeOK
  <1> QED BY <1>3 DEF Init, IInv, Agree

\* The part of the invariant that is about the indices, in the form the
\* lemmas above take it.
LEMMA Indices ==
    ASSUME IInv
    PROVE  /\ front \in 0..Capacity /\ back \in 0..Capacity
           /\ remain \in Nat /\ remain < Word
           /\ sent \in 0..Modulus - 1 /\ offset \in 0..Modulus - 1
           /\ open => InUse(Capacity, front, back, remain)
  BY ConstantTypes DEF IInv, TypeOK, Agree

\* What the two kinds of write and read do, without remainders.
LEMMA StraightEffect ==
    ASSUME IInv, NEW len \in Lengths, Write(len), WriteStraight(len),
           NEW n, n = Min2(len, remain)
    PROVE  /\ open /\ remain # 0 /\ Capacity - back >= len
           /\ n \in Nat /\ n = IF len <= remain THEN len ELSE remain
           /\ mem' = Copied(mem, back, 0, n) /\ back' = back + n /\ sent' = Data(n)
           /\ 0 <= remain - n /\ remain - n <= remain
           /\ back + n \in 0..Capacity
           /\ InUse(Capacity, front, back + n, remain - n)
           /\ remain' = remain - n /\ front' = front /\ open' = open /\ offset' = offset
           /\ result' = Result(len, n, <<>>)
  <1> USE ConstantTypes, Indices
  <1>1. open /\ remain # 0 /\ InUse(Capacity, front, back, remain)
    BY DEF Write
  <1>2. n \in Nat /\ n = IF len <= remain THEN len ELSE remain
    BY DEF Min2
  <1>3. Capacity - back >= len
    BY DEF WriteStraight
  <1>4. /\ 0 <= remain - n /\ remain - n <= remain
        /\ back + n \in 0..Capacity
        /\ InUse(Capacity, front, back + n, remain - n)
    BY <1>1, <1>2, <1>3, StraightAgrees
  <1>5. (remain - n) % Word = remain - n
    BY <1>2, <1>4, Exact
  <1>6. mem' = Copied(mem, back, 0, n) /\ back' = back + n /\ sent' = Data(n)
        /\ remain' = remain - n /\ front' = front /\ open' = open /\ offset' = offset
        /\ result' = Result(len, n, <<>>)
    BY <1>5 DEF WriteStraight, Write
  <1> QED BY <1>1, <1>2, <1>3, <1>4, <1>6

LEMMA WrappedEffect ==
    ASSUME IInv, Overrun = FALSE, NEW len \in Lengths, Write(len), WriteWrapped(len),
           NEW csz, csz = Capacity - back, NEW n, n = Min2(len - csz, front)
    PROVE  /\ open /\ remain # 0 /\ csz < len /\ front <= back
           /\ csz \in Nat /\ n \in Nat
           /\ n <= front
           /\ mem' = Copied(Copied(mem, back, 0, csz), 0, csz, n)
           /\ back' = n /\ sent' = Data(csz + n)
           /\ 0 <= remain - (csz + n) /\ remain - (csz + n) <= remain
           /\ n \in 0..Capacity
           /\ InUse(Capacity, front, n, remain - (csz + n))
           /\ remain' = remain - (csz + n) /\ front' = front /\ open' = open
           /\ offset' = offset
  <1> USE ConstantTypes, Indices
  <1>1. open /\ remain # 0 /\ InUse(Capacity, front, back, remain)
    BY DEF Write
  <1>2. csz \in Nat /\ csz < len
    BY DEF WriteWrapped
  <1>3. n \in Nat /\ n = IF len - csz <= front THEN len - csz ELSE front
    BY <1>2 DEF Min2
  <1>4. front <= back
    BY <1>2 DEF Write
  <1>5. /\ 0 <= remain - (csz + n) /\ remain - (csz + n) <= remain
        /\ n \in 0..Capacity
        /\ InUse(Capacity, front, n, remain - (csz + n))
    BY <1>1, <1>2, <1>3, <1>4, WrappedAgrees
  <1>6. (remain - (csz + n)) % Word = remain - (csz + n)
    BY <1>2, <1>3, <1>5, Exact, SMTT(30)
  <1>7. /\ mem' = Copied(Copied(mem, back, 0, csz), 0, csz, n)
        /\ back' = n /\ sent' = Data(csz + n)
        /\ remain' = remain - (csz + n) /\ front' = front /\ open' = open
        /\ offset' = offset
    BY <1>6 DEF WriteWrapped, Write
  <1>8. n <= front
    BY <1>2, <1>3
  <1> QED BY <1>1, <1>2, <1>3, <1>4, <1>5, <1>7, <1>8

\* A write that passes the end of the memory takes all there is room for.
LEMMA WrappedTakes ==
    ASSUME IInv, Overrun = FALSE, NEW len \in Lengths, Write(len), WriteWrapped(len)
    PROVE  LET m == IF len <= remain THEN len ELSE remain IN
           m = Capacity - back + Min2(len - (Capacity - back), front)
           /\ result' = Result(len, m, <<>>)
  <1> USE ConstantTypes, Indices
  <1> DEFINE csz == Capacity - back
  <1>1. open /\ remain # 0 /\ InUse(Capacity, front, back, remain)
    BY DEF Write
  <1>2. csz \in Nat /\ csz < len /\ len \in Nat
    BY DEF WriteWrapped
  <1>3. front <= back
    BY <1>2 DEF Write
  <1>4. remain = csz + front
    BY <1>1, <1>3 DEF InUse
  <1>5. result' = Result(len, csz + Min2(len - csz, front), <<>>)
    BY DEF WriteWrapped
  <1>6. csz + Min2(len - csz, front) = IF len <= remain THEN len ELSE remain
    BY <1>2, <1>4 DEF Min2
  <1> QED BY <1>5, <1>6

LEMMA ReadEffect ==
    ASSUME IInv, NEW bufsize \in Lengths, Read(bufsize),
           NEW n, n = Min2(Size, bufsize)
    PROVE  /\ open /\ remain # Capacity
           /\ n \in Nat /\ n <= Capacity - remain
           /\ remain' = remain + n /\ open' = open /\ mem' = mem /\ sent' = sent
           /\ offset' = (offset + n) % Modulus
           /\ IF remain + n = Capacity THEN front' = 0 /\ back' = 0
              ELSE front' = Advance(n) /\ back' = back
  <1>n. bufsize \in Nat
    BY ConstantTypes
  <1>1. open /\ remain # Capacity /\ InUse(Capacity, front, back, remain)
    BY Indices DEF Read, IsEmpty
  <1>2. Capacity - remain \in Nat /\ Capacity - remain < Word
    BY <1>1, Indices, ConstantTypes DEF InUse
  <1>3. Size = Capacity - remain
    BY <1>2, Exact, ConstantTypes DEF Size
  <1>4. n \in Nat /\ n <= Capacity - remain
    BY <1>n, <1>2, <1>3 DEF Min2
  <1>5. (remain + n) % Word = remain + n
    BY <1>4, Indices, ConstantTypes, Exact
  <1>6. /\ remain' = remain + n /\ open' = open /\ mem' = mem /\ sent' = sent
        /\ offset' = (offset + n) % Modulus
        /\ IF remain + n = Capacity THEN front' = 0 /\ back' = 0
           ELSE front' = Advance(n) /\ back' = back
    BY <1>5 DEF Read
  <1> QED BY <1>1, <1>4, <1>6

LEMMA AdvanceIs ==
    ASSUME IInv, NEW n \in Nat
    PROVE  /\ Advance(n) \in Int
           /\ Advance(n) = IF n < Capacity - front THEN front + n
                           ELSE n - (Capacity - front)
  BY Indices, ConstantTypes DEF Advance

LEMMA StepIInv ==
    ASSUME IInv, [Next]_vars, Overrun = FALSE
    PROVE  IInv'
  <1> USE ConstantTypes
  <1>t. TypeOK /\ Agree
    BY DEF IInv
  <1>1. CASE Create
    BY <1>1, <1>t DEF Create, IInv, TypeOK, Agree, InUse
  <1>2. CASE Close
    <2>1. 0 \in 0..Word - 1
      OBVIOUS
    <2> QED BY <1>2, <1>t, <2>1 DEF Close, IInv, TypeOK, Agree
  <1>3. CASE Clear
    BY <1>3, <1>t DEF Clear, IInv, TypeOK, Agree, InUse
  <1>4. ASSUME NEW len \in Lengths, Write(len) PROVE IInv'
    <2>1. CASE WriteStraight(len)
      <3>1. PICK n : n = Min2(len, remain)
        OBVIOUS
      <3>2. /\ n \in Nat
            /\ mem' = Copied(mem, back, 0, n) /\ back' = back + n /\ sent' = Data(n)
            /\ 0 <= remain - n /\ remain - n <= remain /\ back + n \in 0..Capacity
            /\ InUse(Capacity, front, back + n, remain - n)
            /\ remain' = remain - n /\ front' = front /\ open' = open
            /\ offset' = offset
        BY <1>4, <2>1, <3>1, StraightEffect
      <3>3. mem' \in [Cells -> 0..Modulus - 1 \cup {Empty}] /\ sent' \in 0..Modulus - 1
        BY <3>2, <1>t, CopiedType, DataType DEF TypeOK
      <3>4. TypeOK'
        BY <3>2, <3>3, <1>t DEF TypeOK
      <3>5. Agree'
        BY <3>2 DEF Agree
      <3> QED BY <3>4, <3>5 DEF IInv
    <2>2. CASE WriteWrapped(len)
      <3>1. PICK csz : csz = Capacity - back
        OBVIOUS
      <3>2. PICK n : n = Min2(len - csz, front)
        OBVIOUS
      <3>3. /\ csz \in Nat /\ n \in Nat
            /\ mem' = Copied(Copied(mem, back, 0, csz), 0, csz, n)
            /\ back' = n /\ sent' = Data(csz + n)
            /\ 0 <= remain - (csz + n) /\ remain - (csz + n) <= remain
            /\ n \in 0..Capacity
            /\ InUse(Capacity, front, n, remain - (csz + n))
            /\ remain' = remain - (csz + n) /\ front' = front /\ open' = open
            /\ offset' = offset
        BY <1>4, <2>2, <3>1, <3>2, WrappedEffect
      <3>4. Copied(mem, back, 0, csz) \in [Cells -> 0..Modulus - 1 \cup {Empty}]
        BY <3>3, <1>t, CopiedType DEF TypeOK
      <3>5. mem' \in [Cells -> 0..Modulus - 1 \cup {Empty}] /\ sent' \in 0..Modulus - 1
        BY <3>3, <3>4, <1>t, CopiedType, DataType DEF TypeOK
      <3>6. TypeOK'
        BY <3>3, <3>5, <1>t DEF TypeOK
      <3>7. Agree'
        BY <3>3 DEF Agree
      <3> QED BY <3>6, <3>7 DEF IInv
    <2> QED BY <1>4, <2>1, <2>2 DEF Write
  <1>5. ASSUME NEW bufsize \in Lengths, Read(bufsize) PROVE IInv'
    <2>1. PICK n : n = Min2(Size, bufsize)
      OBVIOUS
    <2>2. /\ open /\ remain # Capacity
          /\ n \in Nat /\ n <= Capacity - remain
          /\ remain' = remain + n /\ open' = open /\ mem' = mem /\ sent' = sent
          /\ offset' = (offset + n) % Modulus
          /\ IF remain + n = Capacity THEN front' = 0 /\ back' = 0
             ELSE front' = Advance(n) /\ back' = back
      BY <1>5, <2>1, ReadEffect
    <2>3. offset' \in 0..Modulus - 1
      <3>1. offset + n \in Int
        BY ONLY <2>2, Indices, IInv
      <3> QED BY ONLY <3>1, <2>2, Remainder, ConstantTypes
    <2>4. CASE remain + n = Capacity
      BY <2>2, <2>3, <2>4, <1>t DEF IInv, TypeOK, Agree, InUse
    <2>5. CASE remain + n # Capacity
      <3>1. Advance(n) \in 0..Capacity /\ InUse(Capacity, Advance(n), back, remain + n)
        BY <2>2, <2>5, AdvanceIs, Indices, ReadAgrees
      <3>2. TypeOK'
        BY <2>2, <2>3, <2>5, <3>1, <1>t DEF TypeOK
      <3>3. Agree'
        BY <2>2, <2>5, <3>1 DEF Agree
      <3> QED BY <3>2, <3>3 DEF IInv
    <2> QED BY <2>4, <2>5
  <1>6. ASSUME UNCHANGED <<open, mem, front, back, remain, sent, offset>> PROVE IInv'
    BY <1>6, <1>t DEF IInv, TypeOK, Agree
  <1> QED BY <1>1, <1>2, <1>3, <1>4, <1>5, <1>6
       DEF Next, WriteNothing, ReadNothing, vars

\* As long as no write passes the end of the memory while the free space does
\* not, front, back and _remain_size agree after every call, so that
\* _remain_size never underflows and no index leaves the memory.
THEOREM IndicesAgree == ASSUME Overrun = FALSE PROVE Spec => [](TypeOK /\ Agree)
  <1>1. Init => IInv
    BY InitIInv
  <1>2. IInv /\ [Next]_vars => IInv'
    BY StepIInv
  <1>3. IInv => TypeOK /\ Agree
    BY DEF IInv
  <1> QED BY <1>1, <1>2, <1>3, PTL DEF Spec

-----------------------------------------------------------------------------
\* Division with remainder determines both.
LEMMA DivideUnique ==
    ASSUME NEW w \in Nat \ {0}, NEW x \in Int, NEW q \in Int, NEW r \in 0..w - 1,
           x = q * w + r
    PROVE  x % w = r
  OBVIOUS

LEMMA Divide ==
    ASSUME NEW w \in Nat \ {0}, NEW x \in Int
    PROVE  x \div w \in Int /\ x = (x \div w) * w + (x % w)
  OBVIOUS

LEMMA Distribute ==
    ASSUME NEW p \in Int, NEW q \in Int, NEW w \in Int
    PROVE  (p + q) * w = p * w + q * w
  OBVIOUS

\* The remainder may be taken before or after adding.
LEMMA RemainderOfSum ==
    ASSUME NEW w \in Nat \ {0}, NEW x \in Int, NEW k \in Int
    PROVE  ((x % w) + k) % w = (x + k) % w
  <1> DEFINE r == x % w
             p == x \div w
             y == r + k
             q == y \div w
             t == y % w
  <1>1. r \in Int /\ p \in Int /\ x = p * w + r
    BY Divide, Remainder
  <1>2. y \in Int
    BY <1>1
  <1>3. q \in Int /\ t \in 0..w - 1 /\ y = q * w + t
    BY <1>2, Divide, Remainder
  <1> HIDE DEF r, p, q, t
  <1>4. p * w \in Int /\ q * w \in Int
    BY <1>1, <1>3
  <1>5. x + k = (p * w + q * w) + t
    BY ONLY <1>1, <1>3, <1>4, k \in Int, x \in Int DEF y
  <1>6. p + q \in Int /\ x + k = (p + q) * w + t
    BY <1>1, <1>3, <1>5, Distribute
  <1> DEFINE n == p + q
             z == x + k
  <1>7. n \in Int /\ z \in Int /\ z = n * w + t
    BY <1>6
  <1> HIDE DEF n, z
  <1>8. z % w = t
    BY ONLY <1>3, <1>7, DivideUnique, w \in Nat \ {0}
  <1> QED BY <1>8 DEF t, y, r, z

\* How many bytes lie between the front f and the cell i of c cells.
Age(c, f, i) == IF f <= i THEN i - f ELSE i - f + c

\* Where a write puts its bytes, and that it leaves the others in use alone.
LEMMA StraightAge ==
    ASSUME NEW c \in Nat \ {0}, NEW f \in 0..c, NEW b \in 0..c, NEW r \in Nat,
           InUse(c, f, b, r), r # 0,
           NEW n \in Nat, n <= c - b, n <= r,
           NEW i \in 0..c - 1
    PROVE  /\ Age(c, f, i) \in Nat
           /\ b <= i /\ i < b + n => Age(c, f, i) = (c - r) + (i - b)
           /\ ~(b <= i /\ i < b + n) /\ Age(c, f, i) < c - (r - n) => Age(c, f, i) < c - r
  <1>1. CASE f <= i
    BY <1>1 DEF InUse, Age
  <1>2. CASE i < f
    BY <1>2 DEF InUse, Age
  <1> QED BY <1>1, <1>2

LEMMA WrappedAge ==
    ASSUME NEW c \in Nat \ {0}, NEW f \in 0..c, NEW b \in 0..c, NEW r \in Nat,
           InUse(c, f, b, r), r # 0, f <= b,
           NEW n \in Nat, n <= f,
           NEW i \in 0..c - 1
    PROVE  /\ Age(c, f, i) \in Nat
           /\ i < n => Age(c, f, i) = (c - r) + ((c - b) + i)
           /\ n <= i /\ b <= i => Age(c, f, i) = (c - r) + (i - b)
           /\ n <= i /\ i < b /\ Age(c, f, i) < c - (r - ((c - b) + n)) => Age(c, f, i) < c - r
  <1>1. CASE f <= i
    BY <1>1 DEF InUse, Age
  <1>2. CASE i < f
    BY <1>2 DEF InUse, Age
  <1> QED BY <1>1, <1>2

\* A read makes every byte that it leaves younger by what it took.
LEMMA ReadAge ==
    ASSUME NEW c \in Nat \ {0}, NEW f \in 0..c, NEW b \in 0..c, NEW r \in Nat,
           InUse(c, f, b, r), r # c,
           NEW n \in Nat, n <= c - r, r + n # c,
           NEW g \in Int, g = IF n < c - f THEN f + n ELSE n - (c - f),
           NEW i \in 0..c - 1, Age(c, g, i) < c - (r + n)
    PROVE  /\ Age(c, g, i) \in Nat
           /\ Age(c, f, i) = Age(c, g, i) + n
           /\ Age(c, f, i) < c - r
  <1>1. CASE n < c - f
    BY <1>1 DEF InUse, Age
  <1>2. CASE n >= c - f
    BY <1>2 DEF InUse, Age
  <1> QED BY <1>1, <1>2

\* Each byte in use is the one sent at its place after offset, and the writer
\* goes on after the last.
Stored ==
    open => /\ sent = (offset + (Capacity - remain)) % Modulus
            /\ \A i \in Cells :
                 Age(Capacity, front, i) < Capacity - remain =>
                     mem[i] = (offset + Age(Capacity, front, i)) % Modulus

\* The n-th byte of the data, counted from offset.
LEMMA DataFromOffset ==
    ASSUME IInv, Stored, open, NEW n \in Int
    PROVE  Data(n) = (offset + ((Capacity - remain) + n)) % Modulus
  <1> DEFINE x == offset + (Capacity - remain)
  <1>1. x \in Int /\ x + n = offset + ((Capacity - remain) + n)
    BY Indices, ConstantTypes
  <1>2. sent = x % Modulus
    BY DEF Stored
  <1> HIDE DEF x
  <1>3. Data(n) = (x + n) % Modulus
    BY <1>1, <1>2, RemainderOfSum, ConstantTypes DEF Data
  <1> QED BY <1>1, <1>3

LEMMA InitStored == Init => Stored
  BY DEF Init, Stored

\* An empty stream, the reader and the writer at the same number.
LEMMA EmptyStored ==
    ASSUME IInv, IInv', offset' = sent', remain' = Capacity
    PROVE  Stored'
  <1>n. /\ front' \in 0..Capacity /\ offset' \in 0..Modulus - 1
        /\ Capacity - remain' = 0
    BY ConstantTypes DEF IInv, TypeOK
  <1>1. offset' + (Capacity - remain') = offset' /\ offset' % Modulus = offset'
    <2>1. offset' \in Int /\ 0 <= offset' /\ offset' < Modulus
      BY <1>n, ConstantTypes
    <2>2. \A x \in Int : 0 <= x /\ x < Modulus => x % Modulus = x
      BY Exact, ConstantTypes
    <2> QED BY ONLY <1>n, <2>1, <2>2
  <1>2. ASSUME NEW i \in Cells PROVE ~(Age(Capacity, front', i) < Capacity - remain')
    <2>1. i \in 0..Capacity - 1
      BY DEF Cells
    <2> QED BY ONLY <1>n, <2>1, ConstantTypes DEF Age
  <1> QED BY <1>1, <1>2 DEF Stored

LEMMA StraightStored ==
    ASSUME IInv, Stored, NEW len \in Lengths, Write(len), WriteStraight(len)
    PROVE  Stored'
  <1> USE ConstantTypes, Indices
  <1>1. PICK n : n = Min2(len, remain)
    OBVIOUS
  <1>2. /\ open /\ remain # 0 /\ Capacity - back >= len
        /\ n \in Nat /\ n = IF len <= remain THEN len ELSE remain
        /\ mem' = Copied(mem, back, 0, n) /\ sent' = Data(n)
        /\ remain' = remain - n /\ front' = front /\ offset' = offset
    BY <1>1, StraightEffect
  <1>3. sent' = (offset' + (Capacity - remain')) % Modulus
    <2>1. sent' = (offset + ((Capacity - remain) + n)) % Modulus
      BY <1>2, DataFromOffset
    <2>2. (Capacity - remain) + n = Capacity - remain'
      BY <1>2
    <2> QED BY <1>2, <2>1, <2>2
  <1>4. ASSUME NEW i \in Cells, Age(Capacity, front', i) < Capacity - remain'
        PROVE  mem'[i] = (offset' + Age(Capacity, front', i)) % Modulus
    <2> DEFINE age == Age(Capacity, front, i)
    <2>1. i \in 0..Capacity - 1
      BY DEF Cells
    <2>2. /\ age \in Nat
          /\ back <= i /\ i < back + n => age = (Capacity - remain) + (i - back)
          /\ ~(back <= i /\ i < back + n) /\ age < Capacity - (remain - n)
               => age < Capacity - remain
      <3>1. /\ Capacity \in Nat \ {0} /\ front \in 0..Capacity /\ back \in 0..Capacity
            /\ remain \in Nat /\ InUse(Capacity, front, back, remain)
            /\ n <= Capacity - back /\ n <= remain
        BY <1>2
      <3>2. n \in Nat /\ remain # 0
        BY <1>2
      <3> QED BY ONLY <2>1, <3>1, <3>2, StraightAge DEF age
    <2>3. age < Capacity - (remain - n)
      BY <1>2, <1>4
    <2> HIDE DEF age
    <2>4. CASE back <= i /\ i < back + n
      <3>1. mem'[i] = Data(0 + i - back)
        BY <1>2, <2>4 DEF Copied
      <3>2. 0 + i - back = i - back /\ i - back \in Int
        BY <2>1
      <3>3. mem'[i] = (offset + ((Capacity - remain) + (i - back))) % Modulus
        BY <1>2, <3>1, <3>2, DataFromOffset
      <3> QED BY <1>2, <2>2, <2>4, <3>3 DEF age
    <2>5. CASE ~(back <= i /\ i < back + n)
      <3>1. mem'[i] = mem[i]
        BY <1>2, <2>5 DEF Copied
      <3>2. mem[i] = (offset + age) % Modulus
        BY <1>2, <2>2, <2>3, <2>5 DEF Stored, age
      <3> QED BY <1>2, <3>1, <3>2 DEF age
    <2> QED BY <2>4, <2>5
  <1> QED BY <1>3, <1>4 DEF Stored

LEMMA WrappedStored ==
    ASSUME IInv, Stored, Overrun = FALSE,
           NEW len \in Lengths, Write(len), WriteWrapped(len)
    PROVE  Stored'
  <1>1. PICK csz : csz = Capacity - back
    OBVIOUS
  <1>2. PICK n : n = Min2(len - csz, front)
    OBVIOUS
  <1>3. /\ open /\ remain # 0 /\ csz < len /\ front <= back
        /\ csz \in Nat /\ n \in Nat
        /\ n <= front
        /\ mem' = Copied(Copied(mem, back, 0, csz), 0, csz, n)
        /\ sent' = Data(csz + n)
        /\ remain' = remain - (csz + n) /\ front' = front /\ offset' = offset
    BY <1>1, <1>2, WrappedEffect
  <1> USE ConstantTypes, Indices
  <1>4. n <= front
    BY <1>3
  <1>5. sent' = (offset' + (Capacity - remain')) % Modulus
    <2>1. csz + n \in Int
      BY <1>3
    <2>2. sent' = (offset + ((Capacity - remain) + (csz + n))) % Modulus
      BY <1>3, <2>1, DataFromOffset
    <2>3. (Capacity - remain) + (csz + n) = Capacity - remain'
      BY <1>3
    <2> QED BY <1>3, <2>2, <2>3
  <1>6. ASSUME NEW i \in Cells, Age(Capacity, front', i) < Capacity - remain'
        PROVE  mem'[i] = (offset' + Age(Capacity, front', i)) % Modulus
    <2> DEFINE age == Age(Capacity, front, i)
    <2>1. i \in 0..Capacity - 1
      BY DEF Cells
    <2>2. /\ age \in Nat
          /\ i < n => age = (Capacity - remain) + (csz + i)
          /\ n <= i /\ back <= i => age = (Capacity - remain) + (i - back)
          /\ n <= i /\ i < back /\ age < Capacity - (remain - (csz + n))
               => age < Capacity - remain
      <3>1. /\ Capacity \in Nat \ {0} /\ front \in 0..Capacity /\ back \in 0..Capacity
            /\ remain \in Nat /\ remain # 0 /\ InUse(Capacity, front, back, remain)
            /\ front <= back /\ n \in Nat
        BY <1>3
      <3>2. /\ age \in Nat
            /\ i < n => age = (Capacity - remain) + ((Capacity - back) + i)
            /\ n <= i /\ back <= i => age = (Capacity - remain) + (i - back)
            /\ n <= i /\ i < back /\ age < Capacity - (remain - ((Capacity - back) + n))
                 => age < Capacity - remain
        BY ONLY <1>4, <2>1, <3>1, WrappedAge DEF age
      <3> QED BY ONLY <1>1, <3>2
    <2>3. age < Capacity - (remain - (csz + n))
      BY <1>3, <1>6
    <2> HIDE DEF age
    <2>4. CASE i < n
      <3>1. mem'[i] = Data(csz + i - 0)
        BY <1>3, <2>1, <2>4 DEF Copied
      <3>2. csz + i - 0 = csz + i /\ csz + i \in Int
        BY <1>3, <2>1
      <3>3. mem'[i] = (offset + ((Capacity - remain) + (csz + i))) % Modulus
        BY <1>3, <3>1, <3>2, DataFromOffset
      <3> QED BY <1>3, <2>2, <2>4, <3>3 DEF age
    <2>5. CASE n <= i /\ back <= i
      <3>1. mem'[i] = Data(0 + i - back)
        BY <1>1, <1>3, <2>1, <2>5 DEF Copied
      <3>2. 0 + i - back = i - back /\ i - back \in Int
        BY <2>1
      <3>3. mem'[i] = (offset + ((Capacity - remain) + (i - back))) % Modulus
        BY <1>3, <3>1, <3>2, DataFromOffset
      <3> QED BY <1>3, <2>2, <2>5, <3>3 DEF age
    <2>6. CASE n <= i /\ i < back
      <3>1. mem'[i] = mem[i]
        BY <1>3, <2>1, <2>6 DEF Copied
      <3>2. mem[i] = (offset + age) % Modulus
        BY <1>3, <2>2, <2>3, <2>6 DEF Stored, age
      <3> QED BY <1>3, <3>1, <3>2 DEF age
    <2> QED BY <2>4, <2>5, <2>6, <2>1, <1>3
  <1> QED BY <1>5, <1>6 DEF Stored

LEMMA ReadStored ==
    ASSUME IInv, IInv', Stored, NEW bufsize \in Lengths, Read(bufsize)
    PROVE  Stored'
  <1> USE ConstantTypes, Indices
  <1>1. PICK n : n = Min2(Size, bufsize)
    OBVIOUS
  <1>2. /\ open /\ remain # Capacity
        /\ n \in Nat /\ n <= Capacity - remain
        /\ remain' = remain + n /\ open' = open /\ mem' = mem /\ sent' = sent
        /\ offset' = (offset + n) % Modulus
        /\ IF remain + n = Capacity THEN front' = 0 /\ back' = 0
           ELSE front' = Advance(n) /\ back' = back
    BY <1>1, ReadEffect
  <1>3. ASSUME NEW k \in Int
        PROVE  (offset' + k) % Modulus = (offset + (k + n)) % Modulus
    <2>1. PICK x : x = offset + n
      OBVIOUS
    <2>o. offset \in Int /\ n \in Int
      BY <1>2
    <2>2. x \in Int /\ offset + (k + n) = x + k
      BY ONLY <1>3, <2>o, <2>1
    <2>3. ((x % Modulus) + k) % Modulus = (x + k) % Modulus
      BY ONLY <2>2, <1>3, RemainderOfSum, ConstantTypes
    <2> QED BY ONLY <1>2, <2>1, <2>2, <2>3
  <1>4. sent' = (offset' + (Capacity - remain')) % Modulus
    <2>1. (Capacity - remain') \in Int /\ (Capacity - remain') + n = Capacity - remain
      BY <1>2
    <2>2. sent = (offset + (Capacity - remain)) % Modulus
      BY <1>2 DEF Stored
    <2> QED BY <1>2, <1>3, <2>1, <2>2
  <1>5. CASE remain + n = Capacity
    <2>1. offset' = sent'
      <3>1. sent' = offset' % Modulus
        <4>1. offset' \in Int /\ Capacity - remain' = 0
          BY <1>2, <1>5 DEF IInv, TypeOK
        <4> QED BY ONLY <1>4, <4>1
      <3>2. offset' \in Int /\ 0 <= offset' /\ offset' < Modulus
        BY DEF IInv, TypeOK
      <3>3. \A x \in Int : 0 <= x /\ x < Modulus => x % Modulus = x
        BY Exact
      <3> QED BY ONLY <3>1, <3>2, <3>3
    <2> QED BY <1>2, <1>5, <2>1, EmptyStored
  <1>6. CASE remain + n # Capacity
    <2>1. ASSUME NEW i \in Cells, Age(Capacity, front', i) < Capacity - remain'
          PROVE  mem'[i] = (offset' + Age(Capacity, front', i)) % Modulus
      <3>1. i \in 0..Capacity - 1
        BY DEF Cells
      <3>2. PICK g : g = Advance(n)
        OBVIOUS
      <3>3. g \in Int /\ g = IF n < Capacity - front THEN front + n
                             ELSE n - (Capacity - front)
        BY <1>2, <3>2, AdvanceIs
      <3>4. front' = g /\ Age(Capacity, g, i) < Capacity - (remain + n)
        BY <1>2, <1>6, <2>1, <3>2
      <3>5. /\ Age(Capacity, g, i) \in Nat
            /\ Age(Capacity, front, i) = Age(Capacity, g, i) + n
            /\ Age(Capacity, front, i) < Capacity - remain
        <4>1. /\ Capacity \in Nat \ {0} /\ front \in 0..Capacity /\ back \in 0..Capacity
              /\ remain \in Nat /\ InUse(Capacity, front, back, remain)
              /\ remain # Capacity /\ n \in Nat /\ n <= Capacity - remain
          BY <1>2
        <4> QED BY ONLY <1>6, <3>1, <3>3, <3>4, <4>1, ReadAge
      <3>6. mem[i] = (offset + Age(Capacity, front, i)) % Modulus
        BY <1>2, <3>5 DEF Stored
      <3>7. (offset' + Age(Capacity, g, i)) % Modulus
              = (offset + (Age(Capacity, g, i) + n)) % Modulus
        BY <1>3, <3>5
      <3> QED BY <1>2, <3>4, <3>5, <3>6, <3>7
    <2> QED BY <1>4, <2>1 DEF Stored
  <1> QED BY <1>5, <1>6

LEMMA StepStored ==
    ASSUME IInv, Stored, IInv', [Next]_vars, Overrun = FALSE
    PROVE  Stored'
  <1>1. CASE Create
    BY <1>1, EmptyStored DEF Create
  <1>2. CASE Close
    BY <1>2 DEF Close, Stored
  <1>3. CASE Clear
    BY <1>3, EmptyStored DEF Clear
  <1>4. ASSUME NEW len \in Lengths, Write(len) PROVE Stored'
    BY <1>4, StraightStored, WrappedStored DEF Write
  <1>5. ASSUME NEW bufsize \in Lengths, Read(bufsize) PROVE Stored'
    BY <1>5, ReadStored
  <1>6. ASSUME UNCHANGED <<open, mem, front, back, remain, sent, offset>> PROVE Stored'
    BY <1>6 DEF Stored
  <1> QED BY <1>1, <1>2, <1>3, <1>4, <1>5, <1>6
       DEF Next, WriteNothing, ReadNothing, vars

\* The run that peek returns begins at front and is the youngest by age.
LEMMA StoredIsPeeked ==
    ASSUME IInv, Stored
    PROVE  PeekedIsWritten
  <1> SUFFICES ASSUME NEW i \in 0..PeekSize - 1
               PROVE  mem[PeekAt + i] = (offset + i) % Modulus
    BY DEF PeekedIsWritten
  <1>1. CASE IsEmpty
    BY <1>1 DEF PeekSize
  <1>2. CASE ~IsEmpty
    <2>1. open /\ InUse(Capacity, front, back, remain)
      BY <1>2, Indices DEF IsEmpty
    <2>2. Capacity - remain \in Nat /\ Capacity - remain < Word
      BY <2>1, Indices, ConstantTypes DEF InUse
    <2>3. Size = Capacity - remain
      BY <2>2, Exact, ConstantTypes DEF Size
    <2>4. PeekAt = front
      BY <2>1, Indices, ConstantTypes DEF PeekAt, InUse
    <2>5. i \in Nat /\ i < Capacity - remain /\ i < Capacity - front
      BY <1>2, <2>2, <2>3, <2>4, Indices, ConstantTypes DEF PeekSize, Min2
    <2>6. front + i \in Cells /\ Age(Capacity, front, front + i) = i
      BY <2>5, Indices, ConstantTypes DEF Cells, Age
    <2> QED BY <2>1, <2>4, <2>5, <2>6 DEF Stored
  <1> QED BY <1>1, <1>2

\* What peek shows is what was written and not read yet, in order, whatever
\* the capacity and the lengths, as long as no write passes the end of the
\* memory while the free space does not.
THEOREM PeekShowsTheStream ==
    ASSUME Overrun = FALSE PROVE Spec => []PeekedIsWritten
  <1> DEFINE Inv == IInv /\ Stored
  <1>1. Init => Inv
    BY InitIInv, InitStored
  <1>2. Inv /\ [Next]_vars => Inv'
    <2> SUFFICES ASSUME Inv, [Next]_vars PROVE Inv'
      OBVIOUS
    <2>1. IInv'
      BY StepIInv
    <2> QED BY <2>1, StepStored
  <1>3. Inv => PeekedIsWritten
    BY StoredIsPeeked
  <1> QED BY <1>1, <1>2, <1>3, PTL DEF Spec

-----------------------------------------------------------------------------
(* CircleStream implements ByteQueue.                                      *)

\* The refinement mapping, and what it is in terms of what was sent: n bytes
\* from number o on.
Content == IF IsEmpty THEN <<>>
           ELSE [k \in 1..Size |-> mem[(front + k - 1) % Capacity]]
Sent(o, n) == [k \in 1..n |-> (o + k - 1) % Modulus]
Load == IF open THEN Capacity - remain ELSE 0
Seen == <<open, Content, result>>

\* The k-th byte from the front.
LEMMA Kth ==
    ASSUME NEW c \in Nat \ {0}, NEW f \in 0..c - 1, NEW k \in 1..c
    PROVE  LET i == (f + k - 1) % c IN i \in 0..c - 1 /\ Age(c, f, i) = k - 1
  <1>1. PICK x \in Int : x = f + k - 1
    OBVIOUS
  <1>2. 0 <= x /\ x < 2 * c
    BY <1>1
  <1>3. CASE x < c
    <2>1. x % c = x
      BY <1>2, <1>3, Exact
    <2> QED BY <1>1, <1>2, <1>3, <2>1 DEF Age
  <1>4. CASE x >= c
    <2>1. x - c \in 0..c - 1 /\ x = 1 * c + (x - c)
      BY <1>2, <1>4
    <2>2. x % c = x - c
      BY <2>1, DivideUnique
    <2> QED BY <1>1, <1>2, <1>4, <2>1, <2>2 DEF Age
  <1> QED BY <1>3, <1>4

LEMMA LoadIs ==
    ASSUME IInv
    PROVE  /\ Load \in 0..Capacity /\ (IsEmpty <=> Load = 0)
           /\ ~IsEmpty => Size = Load
  <1>1. open => Capacity - remain \in 0..Capacity
    BY Indices, ConstantTypes DEF InUse
  <1>2. open => Size = Capacity - remain
    BY <1>1, Exact, ConstantTypes DEF Size
  <1> QED BY <1>1, <1>2, Indices, ConstantTypes DEF Load, IsEmpty

LEMMA ContentIs == IInv /\ Stored => Content = Sent(offset, Load)
  <1> SUFFICES ASSUME IInv, Stored PROVE Content = Sent(offset, Load)
    OBVIOUS
  <1>1. CASE IsEmpty
    <2>1. 1..Load = {}
      BY <1>1, LoadIs
    <2>2. Sent(offset, Load) = <<>>
      BY <2>1 DEF Sent
    <2> QED BY <1>1, <2>2 DEF Content
  <1>2. CASE ~IsEmpty
    <2>1. Size = Load /\ Load \in 0..Capacity /\ open /\ Load = Capacity - remain
      BY <1>2, LoadIs DEF IsEmpty, Load
    <2>2. front \in 0..Capacity - 1 /\ offset \in Int
      BY <2>1, Indices, ConstantTypes DEF InUse
    <2>3. ASSUME NEW k \in 1..Load
          PROVE  mem[(front + k - 1) % Capacity] = (offset + k - 1) % Modulus
      <3>1. PICK i : i = (front + k - 1) % Capacity
        OBVIOUS
      <3>2. k \in 1..Capacity
        BY <2>1, ConstantTypes
      <3>3. i \in Cells /\ Age(Capacity, front, i) = k - 1
        BY <2>2, <3>1, <3>2, Kth, ConstantTypes DEF Cells
      <3>4. k - 1 < Capacity - remain /\ offset + (k - 1) = offset + k - 1
        BY <2>1, <2>2
      <3>5. mem[i] = (offset + (k - 1)) % Modulus
        BY <2>1, <3>3, <3>4 DEF Stored
      <3> QED BY <3>1, <3>4, <3>5
    <2> QED BY <1>2, <2>1, <2>3 DEF Content, Sent
  <1> QED BY <1>1, <1>2

LEMMA SentIs ==
    ASSUME NEW o \in Int, NEW n \in Nat
    PROVE  Sent(o, n) \in Seq(0..Modulus - 1) /\ Len(Sent(o, n)) = n
  <1>1. \A k \in 1..n : (o + k - 1) % Modulus \in 0..Modulus - 1
    BY Remainder, ConstantTypes
  <1> QED BY <1>1 DEF Sent

\* More is sent.
LEMMA SentMore ==
    ASSUME NEW o \in Int, NEW u \in Nat, NEW n \in Nat
    PROVE  Sent(o, u + n) = Sent(o, u) \o Sent((o + u) % Modulus, n)
  <1> DEFINE b == (o + u) % Modulus
             s == Sent(o, u)
             t == Sent(b, n)
  <1>1. b \in Int
    BY Remainder, ConstantTypes
  <1>2. /\ s \in Seq(0..Modulus - 1) /\ Len(s) = u
        /\ t \in Seq(0..Modulus - 1) /\ Len(t) = n
    BY <1>1, SentIs
  <1>3. ASSUME NEW k \in 1..u PROVE s[k] = (o + k - 1) % Modulus
    BY DEF Sent
  <1>4. ASSUME NEW k \in 1..u + n, k > u PROVE t[k - u] = (o + k - 1) % Modulus
    <2>1. k - u \in 1..n
      BY <1>4
    <2>2. t[k - u] = (b + (k - u) - 1) % Modulus
      BY <2>1 DEF Sent
    <2>3. PICK j \in Int : j = k - u - 1
      OBVIOUS
    <2>4. b + (k - u) - 1 = b + j /\ (o + u) + j = o + k - 1 /\ o + u \in Int
      BY <1>1, <2>3
    <2>5. (b + j) % Modulus = ((o + u) + j) % Modulus
      BY <2>4, RemainderOfSum, ConstantTypes
    <2> QED BY <2>2, <2>4, <2>5
  <1> HIDE DEF s, t, b
  <1>5. /\ DOMAIN (s \o t) = 1..u + n
        /\ \A k \in 1..u + n : (s \o t)[k] = IF k <= u THEN s[k] ELSE t[k - u]
        /\ s \o t \in Seq(0..Modulus - 1)
    BY <1>2
  <1>6. ASSUME NEW k \in 1..u + n PROVE (s \o t)[k] = (o + k - 1) % Modulus
    BY <1>3, <1>4, <1>5
  <1>7. s \o t = [k \in 1..u + n |-> (o + k - 1) % Modulus]
    <2>1. PICK q \in Seq(0..Modulus - 1) : q = s \o t
      BY <1>5
    <2>2. DOMAIN q = 1..u + n /\ \A k \in 1..u + n : q[k] = (o + k - 1) % Modulus
      BY <1>5, <1>6, <2>1
    <2>3. q = [k \in 1..u + n |-> q[k]]
      BY <2>2
    <2>4. q = [k \in 1..u + n |-> (o + k - 1) % Modulus]
      BY <2>2, <2>3
    <2> QED BY <2>1, <2>4
  <1> QED BY <1>7 DEF Sent, s, t, b

\* Some of it is read.
LEMMA SentRest ==
    ASSUME NEW o \in Int, NEW u \in Nat, NEW n \in 0..u
    PROVE  SubSeq(Sent(o, u), n + 1, u) = Sent((o + n) % Modulus, u - n)
  <1> DEFINE b == (o + n) % Modulus
             s == Sent(o, u)
  <1>1. b \in Int /\ u - n \in Nat
    BY Remainder, ConstantTypes
  <1>2. s \in Seq(0..Modulus - 1) /\ Len(s) = u
    BY SentIs
  <1>3. ASSUME NEW k \in 1..u PROVE s[k] = (o + k - 1) % Modulus
    BY DEF Sent
  <1> HIDE DEF s
  <1>4. SubSeq(s, n + 1, u) = [k \in 1..u - n |-> s[k + n]]
    BY <1>2
  <1>5. ASSUME NEW k \in 1..u - n PROVE s[k + n] = (b + k - 1) % Modulus
    <2>1. k + n \in 1..u
      OBVIOUS
    <2>2. s[k + n] = (o + (k + n) - 1) % Modulus
      BY <1>3, <2>1
    <2>3. PICK j \in Int : j = k - 1
      OBVIOUS
    <2>4. o + (k + n) - 1 = (o + n) + j /\ b + k - 1 = b + j /\ o + n \in Int
      BY <1>1, <2>3
    <2>5. (b + j) % Modulus = ((o + n) + j) % Modulus
      BY <2>4, RemainderOfSum, ConstantTypes
    <2> QED BY <2>2, <2>4, <2>5
  <1> QED BY <1>4, <1>5 DEF Sent, s, b

LEMMA OnceAround ==
    ASSUME NEW w \in Nat \ {0}, NEW x \in Int, w <= x, x < 2 * w
    PROVE  x % w = x - w
  <1>1. PICK r \in 0..w - 1 : r = x - w
    OBVIOUS
  <1>2. x = 1 * w + r
    BY <1>1
  <1>3. x % w = r
    BY <1>2, DivideUnique
  <1> QED BY <1>1, <1>3

\* What read copies is the first part of the content.
LEMMA GivenIs ==
    ASSUME IInv, ~IsEmpty, NEW n \in 0..Load, Content \in Seq(0..Modulus - 1),
           Len(Content) = Load
    PROVE  Given(n) = SubSeq(Content, 1, n)
  <1>1. /\ Size = Load /\ Load \in 0..Capacity /\ open /\ Capacity \in Nat \ {0}
        /\ n \in Nat
    BY LoadIs, ConstantTypes DEF IsEmpty
  <1>2. front \in 0..Capacity - 1
    BY <1>1, Indices DEF InUse
  <1>3. ASSUME NEW k \in 1..n
        PROVE  Content[k] = LET i == front + k - 1 IN
                            IF i < Capacity THEN mem[i] ELSE mem[i - Capacity]
    <2>1. PICK x \in Int : x = front + k - 1
      BY <1>1, <1>2
    <2>2. k \in 1..Size /\ 0 <= x /\ x < 2 * Capacity
      BY <1>1, <1>2, <2>1
    <2>3. Content[k] = mem[x % Capacity]
      BY <2>1, <2>2 DEF Content
    <2>4. x % Capacity = IF x < Capacity THEN x ELSE x - Capacity
      <3>1. CASE x < Capacity
        BY <1>1, <2>2, <3>1, Exact
      <3>2. CASE ~(x < Capacity)
        <4>1. Capacity <= x
          BY <1>1, <3>2
        <4> QED BY <1>1, <2>2, <3>2, <4>1, OnceAround
      <3> QED BY <3>1, <3>2
    <2> QED BY <2>1, <2>3, <2>4
  <1>4. SubSeq(Content, 1, n) = [k \in 1..n |-> Content[k]]
    <2>1. PICK c \in Seq(0..Modulus - 1) : c = Content
      OBVIOUS
    <2>2. n <= Len(c) /\ Len(c) \in Nat
      BY <1>1, <2>1
    <2>3. SubSeq(c, 1, n) = [k \in 1..n |-> c[k]]
      BY <1>1, <2>2
    <2> QED BY <2>1, <2>3
  <1> QED BY <1>3, <1>4 DEF Given

LEMMA WriteImplements ==
    ASSUME IInv, IInv', Stored, Stored', open, open', NEW len \in Lengths, NEW n \in Nat,
           n = IF len <= remain THEN len ELSE remain,
           remain' = remain - n, offset' = offset, result' = Result(len, n, <<>>)
    PROVE  Abstract!Write
  <1>0. remain \in Int /\ Capacity \in Int
    BY Indices, ConstantTypes
  <1>1. Content = Sent(offset, Load)
    BY ContentIs
  <1>2. Content' = Sent(offset', Load')
    <2>1. IInv' /\ Stored' => (Content = Sent(offset, Load))'
      BY ContentIs, PTL
    <2> QED BY <2>1 DEF Sent
  <1>3. /\ Load \in Nat /\ Load' = Load + n /\ Load = Capacity - remain
        /\ offset \in Int /\ sent = (offset + Load) % Modulus
    <2>1. Load \in Nat /\ Load = Capacity - remain /\ Load' = Capacity - (remain - n)
      BY LoadIs DEF Load
    <2>2. Load' = Load + n
      BY <1>0, <2>1
    <2> QED BY <2>1, <2>2, Indices DEF Stored
  <1>4. Content' = Content \o Sent(sent, n) /\ Len(Content) = Load
    BY <1>1, <1>2, <1>3, SentMore, SentIs
  <1>5. sent \in 0..Modulus - 1 /\ n = Abstract!AtMost(len, Capacity - Len(Content))
    <2>1. Capacity - Len(Content) = remain
      BY <1>0, <1>3, <1>4
    <2> QED BY <2>1, Indices DEF Abstract!AtMost
  <1>6. Content' = Content \o [k \in 1..n |-> (sent + k - 1) % (Capacity + 2)]
    BY <1>4 DEF Sent, Modulus
  <1>7. result' = Abstract!Result(len, n, <<>>) /\ open' = open
    <2>1. open \in BOOLEAN /\ open' \in BOOLEAN
      BY DEF IInv, TypeOK
    <2> QED BY <2>1 DEF Result, Abstract!Result
  <1> QED BY <1>5, <1>6, <1>7 DEF Abstract!Write, Content

LEMMA ReadImplements ==
    ASSUME IInv, IInv', Stored, Stored', NEW bufsize \in Lengths, Read(bufsize)
    PROVE  Abstract!Read
  <1>1. Content = Sent(offset, Load)
    BY ContentIs
  <1>2. Content' = Sent(offset', Load')
    <2>1. IInv' /\ Stored' => (Content = Sent(offset, Load))'
      BY ContentIs, PTL
    <2> QED BY <2>1 DEF Sent
  <1>3. PICK n : n = Min2(Size, bufsize)
    OBVIOUS
  <1>4. /\ open /\ open' = open /\ n \in Nat /\ n <= Capacity - remain
        /\ remain' = remain + n /\ offset' = (offset + n) % Modulus
    BY <1>3, ReadEffect
  <1>5. /\ Load \in Nat /\ Load' = Load - n /\ n \in 0..Load
        /\ offset \in 0..Modulus - 1 /\ offset \in Int
    BY <1>4, LoadIs, Indices, ConstantTypes DEF Load
  <1>6. /\ Content \in Seq(0..Modulus - 1) /\ Len(Content) = Load
        /\ Content' = SubSeq(Content, n + 1, Len(Content))
    BY <1>1, <1>2, <1>4, <1>5, SentRest, SentIs
  <1>7. n = Abstract!AtMost(bufsize, Len(Content)) /\ ~IsEmpty
    <2>1. Size = Load /\ ~IsEmpty /\ bufsize \in Nat
      BY LoadIs, ConstantTypes DEF Read
    <2> QED BY <1>3, <1>5, <1>6, <2>1 DEF Min2, Abstract!AtMost
  <1>8. \E data \in {SubSeq(Content, 1, n), <<>>} :
          result' = Abstract!Result(bufsize, n, data)
    <2>1. Given(n) = SubSeq(Content, 1, n)
      BY <1>5, <1>6, <1>7, GivenIs
    <2>2. \E data \in {Given(n), <<>>} : result' = Result(bufsize, n, data)
      BY <1>3 DEF Read
    <2> QED BY <2>1, <2>2 DEF Result, Abstract!Result
  <1> QED BY <1>4, <1>6, <1>7, <1>8 DEF Abstract!Read, Content

LEMMA StepImplements ==
    ASSUME IInv, IInv', Stored, Stored', [Next]_vars, Overrun = FALSE
    PROVE  [Abstract!Next]_Seen
  <1> USE DEF Abstract!Next
  <1>0. open \in BOOLEAN /\ open' \in BOOLEAN
    BY DEF IInv, TypeOK
  <1>1. ASSUME IsEmpty', UNCHANGED result PROVE Abstract!Clear
    <2>1. Content' = <<>>
      BY <1>1 DEF Content
    <2> QED BY <1>0, <1>1, <2>1 DEF Abstract!Clear, Content
  <1>2. CASE Create \/ Close \/ Clear
    BY <1>1, <1>2 DEF Create, Close, Clear, IsEmpty
  <1>3. ASSUME NEW len \in Lengths, Write(len) PROVE Abstract!Write
    <2>1. CASE WriteStraight(len)
      <3>1. PICK n : n = Min2(len, remain)
        OBVIOUS
      <3>2. /\ open /\ open' /\ n \in Nat /\ n = IF len <= remain THEN len ELSE remain
            /\ remain' = remain - n /\ offset' = offset /\ result' = Result(len, n, <<>>)
        BY <1>3, <2>1, <3>1, StraightEffect
      <3> QED BY <3>2, WriteImplements
    <2>2. CASE WriteWrapped(len)
      <3>1. PICK csz : csz = Capacity - back
        OBVIOUS
      <3>2. PICK n : n = Min2(len - csz, front)
        OBVIOUS
      <3>3. /\ open /\ open' = open /\ csz \in Nat /\ n \in Nat
            /\ remain' = remain - (csz + n) /\ offset' = offset
        BY <1>3, <2>2, <3>1, <3>2, WrappedEffect
      <3>4. PICK m \in Nat : m = csz + n
        BY <3>3
      <3>5. m = (IF len <= remain THEN len ELSE remain) /\ result' = Result(len, m, <<>>)
        BY <1>3, <2>2, <3>1, <3>2, <3>4, WrappedTakes
      <3> QED BY <3>3, <3>4, <3>5, WriteImplements
    <2> QED BY <1>3, <2>1, <2>2 DEF Write
  <1>4. ASSUME NEW bufsize \in Lengths, Read(bufsize) PROVE Abstract!Read
    BY <1>4, ReadImplements
  <1>5. UNCHANGED <<open, mem, front, remain>> => Content' = Content
    BY DEF Content, IsEmpty, Size
  <1>6. ASSUME NEW len \in Lengths, WriteNothing(len)
        PROVE  Abstract!Write \/ Abstract!Refuse
    <2>1. CASE open
      <3>1. 0 = IF len <= remain THEN len ELSE remain
        <4>1. len \in Nat /\ remain \in Nat /\ (len = 0 \/ remain = 0)
          BY <1>6, <2>1, Indices, ConstantTypes DEF WriteNothing
        <4> QED BY <4>1
      <3>2. open' /\ remain' = remain - 0 /\ offset' = offset
            /\ result' = Result(len, 0, <<>>)
        BY <1>6, <2>1, Indices DEF WriteNothing
      <3> QED BY <2>1, <3>1, <3>2, WriteImplements
    <2>2. CASE ~open
      BY <1>5, <1>6, <2>2 DEF WriteNothing, Result, Abstract!Refuse, Abstract!Result,
         Content
    <2> QED BY <2>1, <2>2
  <1>7. ASSUME NEW bufsize \in Lengths, ReadNothing(bufsize) PROVE Abstract!Read
    <2>1. Content = <<>> /\ Content' = <<>> /\ open' = open
          /\ result' = Result(bufsize, 0, <<>>)
      BY <1>5, <1>7 DEF ReadNothing, Content
    <2>2. /\ SubSeq(<<>>, 0 + 1, Len(<<>>)) = <<>> /\ SubSeq(<<>>, 1, 0) = <<>>
          /\ Len(<<>>) = 0
      OBVIOUS
    <2>3. Abstract!AtMost(bufsize, Len(<<>>)) = 0
      BY <2>2, ConstantTypes DEF Abstract!AtMost
    <2> QED BY <2>1, <2>2, <2>3 DEF Abstract!Read, Result, Abstract!Result, Content
  <1>8. CASE UNCHANGED vars
    BY <1>5, <1>8 DEF vars, Seen
  <1> QED BY <1>2, <1>3, <1>4, <1>6, <1>7, <1>8, <1>1 DEF Next

\* The stream is a queue of bytes: each write appends as much of the data as
\* there is room for, each read gives and each erase drops the oldest bytes that
\* are there, whatever the capacity and the lengths, as long as no write passes
\* the end of the memory while the free space does not.
THEOREM StreamIsByteQueue == ASSUME Overrun = FALSE PROVE Spec => IsByteQueue
  <1> DEFINE Inv == IInv /\ Stored
  <1>1. Init => Inv
    BY InitIInv, InitStored
  <1>2. Inv /\ [Next]_vars => Inv'
    <2> SUFFICES ASSUME Inv, [Next]_vars PROVE Inv'
      OBVIOUS
    <2>1. IInv'
      BY StepIInv
    <2> QED BY <2>1, StepStored
  <1>3. Init => Abstract!Init
    BY DEF Init, Abstract!Init, IsEmpty, Result, Abstract!Result
  <1>4. Inv /\ Inv' /\ [Next]_vars => [Abstract!Next]_Seen
    BY StepImplements
  <1> QED BY <1>1, <1>2, <1>3, <1>4, PTL
          DEF Spec, IsByteQueue, Abstract!Spec, Seen, Content
=============================================================================
