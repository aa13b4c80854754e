---------------------------- MODULE OspfsProofs ----------------------------
(* Proofs about Ospfs.                                                      *)
EXTENDS Ospfs, FiniteSetTheorems, WellFoundedInduction, TLAPS

LEMMA LeastNat ==
    ASSUME NEW T \in SUBSET Nat, T # {}
    PROVE  \E m \in T : \A n \in T : m <= n
<1> DEFINE R == {ss \in Nat \X Nat : ss[1] < ss[2]}
<1>1. IsWellFoundedOn(R, Nat)
  BY NatLessThanWellFounded DEF OpToRel
<1>2. PICK m \in T : \A n \in T : ~(<<n, m>> \in R)
  <2> HIDE DEF R
  <2> QED BY <1>1, WFMin
<1>3. \A n \in T : n < m => <<n, m>> \in R
  OBVIOUS
<1>4. m \in Nat /\ \A n \in T : n \in Nat /\ ~(n < m)
  <2> HIDE DEF R
  <2> QED BY <1>2, <1>3
<1> QED BY <1>4

LEMMA RemoveLoop ==
    ASSUME NEW d, NEW i, NEW r \in Nat
    PROVE  \E f : /\ f = [k \in 0..r |-> IF k = 0 THEN d ELSE remove_block(f[k - 1], i)]
                  /\ RemoveCounted(d, i, r) = f[r]
<1> DEFINE B(x) == remove_block(x, i)
           Loop(f, n) == f = [k \in 0..n |-> IF k = 0 THEN d ELSE B(f[k - 1])]
           Without == {n \in Nat : ~(\E f : Loop(f, n))}
<1>1. Without = {}
  <2> SUFFICES ASSUME Without # {} PROVE FALSE
    OBVIOUS
  <2>1. PICK n \in Without : \A m \in Without : n <= m
    BY LeastNat
  <2> HIDE DEF B
  <2>2. CASE n = 0
    <3>1. Loop([k \in 0..0 |-> d], 0)
      OBVIOUS
    <3> QED BY <2>1, <2>2, <3>1
  <2>3. CASE n # 0
    <3>1. n \in Nat /\ n - 1 \in Nat /\ n - 1 \notin Without
      <4>1. n \in Nat /\ \A m \in Nat : m \in Without => n <= m
        BY <2>1
      <4> HIDE DEF Without
      <4> QED BY <4>1, <2>3
    <3>2. PICK f : Loop(f, n - 1)
      BY <3>1
    <3> DEFINE g == [k \in 0..n |-> IF k = n THEN B(f[n - 1]) ELSE f[k]]
    <3>3. \A k \in 0..n : g[k] = IF k = 0 THEN d ELSE B(g[k - 1])
      BY <3>1, <3>2, <2>3
    <3>4. Loop(g, n)
      BY <3>3
    <3> QED BY <3>4, <2>1
  <2> QED BY <2>2, <2>3
<1>2. \E f : Loop(f, r)
  <2> HIDE DEF B
  <2> QED BY <1>1
<1>3. LET f == CHOOSE f : Loop(f, r) IN Loop(f, r) /\ RemoveCounted(d, i, r) = f[r]
  <2> HIDE DEF B
  <2>1. Loop(CHOOSE f : Loop(f, r), r)
    BY <1>2
  <2> USE DEF B
  <2>2. RemoveCounted(d, i, r) = (CHOOSE f : Loop(f, r))[r]
    BY DEF RemoveCounted
  <2> QED BY <2>1, <2>2
<1> QED BY <1>3

-----------------------------------------------------------------------------
(* Arithmetic: quotients, and the number of blocks of a file.               *)

LEMMA NextMultiple ==
    ASSUME NEW b \in Nat \ {0}, NEW x \in Int, NEW y \in Int, x < y
    PROVE  b * y >= b * x + b
<1>1. \A d \in Nat \ {0} : b * d >= b
  OBVIOUS
<1>2. b * (y - x) >= b
  BY <1>1
<1>3. b * y = b * x + b * (y - x)
  OBVIOUS
<1> QED BY <1>2, <1>3

LEMMA Division ==
    ASSUME NEW a \in Int, NEW b \in Nat \ {0}
    PROVE  /\ a = b * (a \div b) + (a % b)
           /\ a \div b \in Int /\ a % b \in 0..(b - 1)
  OBVIOUS

\* Quotient and remainder are what they are by their bounds.
LEMMA DivisionUnique ==
    ASSUME NEW b \in Nat \ {0}, NEW a \in Int, NEW q \in Int, NEW r \in 0..(b - 1),
           a = b * q + r
    PROVE  a \div b = q /\ a % b = r
<1> DEFINE x == a \div b
           s == a % b
<1>1. x \in Int /\ s \in 0..(b - 1) /\ a = b * x + s
  BY Division
<1> SUFFICES x = q /\ s = r
  OBVIOUS
<1> HIDE DEF x, s
<1>2. b * x \in Int /\ b * q \in Int
  BY <1>1
<1>3. ~(x < q)
  <2> SUFFICES ASSUME x < q PROVE FALSE
    OBVIOUS
  <2>1. b * q >= b * x + b
    BY <1>1, NextMultiple
  <2> QED BY <1>1, <1>2, <2>1
<1>4. ~(q < x)
  <2> SUFFICES ASSUME q < x PROVE FALSE
    OBVIOUS
  <2>1. b * x >= b * q + b
    BY <1>1, NextMultiple
  <2> QED BY <1>1, <1>2, <2>1
<1>5. x = q
  BY <1>1, <1>3, <1>4
<1> QED BY <1>1, <1>2, <1>5

LEMMA Constants ==
    /\ NDIRECT \in Nat \ {0} /\ NINDIRECT \in Nat \ {0} /\ DirGrow \in Nat \ {0}
    /\ FIRSTINOB \in Nat /\ FIRSTDATA \in Nat /\ NBLOCKS \in Nat /\ NINODES \in Nat
    /\ Width \in Nat /\ LIMIT \in Nat /\ NINDIRECT * NDIRECT \in Nat
    /\ 2 < FIRSTINOB /\ FIRSTINOB < FIRSTDATA /\ FIRSTDATA < NBLOCKS /\ 1 < NINODES
    /\ LIMIT = NINDIRECT * (NDIRECT + NINDIRECT) /\ LIMIT + NINDIRECT < Width
<1>1. /\ NDIRECT \in Nat \ {0} /\ NINDIRECT \in Nat \ {0} /\ DirGrow \in Nat \ {0}
      /\ FIRSTINOB \in Nat /\ FIRSTDATA \in Nat /\ NBLOCKS \in Nat /\ NINODES \in Nat
      /\ Width \in Nat
      /\ 2 < FIRSTINOB /\ FIRSTINOB < FIRSTDATA /\ FIRSTDATA < NBLOCKS /\ 1 < NINODES
      /\ (NDIRECT + NINDIRECT + 1) * NINDIRECT < Width
  BY LayoutAssumption
<1>2. \A a, b \in Nat : a * b \in Nat /\ a * b = b * a /\ (a + 1) * b = a * b + b
  OBVIOUS
<1>3. NDIRECT + NINDIRECT \in Nat
  BY <1>1
<1> QED BY <1>1, <1>2, <1>3 DEF LIMIT

\* A file of that many words has n blocks when n is the least number of blocks
\* that hold them.
LEMMA BlocksOf ==
    ASSUME NEW size \in Nat, size + NINDIRECT - 1 < Width
    PROVE  /\ size2nblocks(size) \in Nat
           /\ NINDIRECT * size2nblocks(size) \in Nat
           /\ size <= NINDIRECT * size2nblocks(size)
           /\ NINDIRECT * size2nblocks(size) < size + NINDIRECT
           /\ \A n \in Nat : size <= NINDIRECT * n /\ NINDIRECT * n < size + NINDIRECT
                 => size2nblocks(size) = n
<1> DEFINE N == NINDIRECT
           a == size + N - 1
<1>1. N \in Nat \ {0} /\ Width \in Nat \ {0} /\ a \in 0..Width-1
  BY Constants
<1>2. a % Width = a
  <2>1. a = Width * 0 + a
    BY <1>1
  <2> HIDE DEF a
  <2> QED BY <1>1, <2>1, DivisionUnique
<1>3. size2nblocks(size) = a \div N
  BY <1>2 DEF size2nblocks
<1>4. PICK q \in Int, r \in 0..(N - 1) : a = N * q + r /\ q = a \div N
  <2> HIDE DEF a, N
  <2>1. a \in Int
    BY <1>1
  <2>2. a = N * (a \div N) + (a % N) /\ a \div N \in Int /\ a % N \in 0..(N - 1)
    BY <1>1, <2>1, Division
  <2> QED BY <2>2
<1>5. N * q \in Int /\ q >= 0
  <2>1. N * q \in Int
    BY <1>1
  <2>2. ASSUME q < 0 PROVE FALSE
    <3>1. N * 0 >= N * q + N
      BY <1>1, <2>2, NextMultiple
    <3> QED BY <1>1, <1>4, <2>1, <3>1
  <2> QED BY <2>1, <2>2
<1>6. ASSUME NEW n \in Nat, size <= N * n, N * n < size + N
      PROVE  q = n
  <2>1. N * n \in Int
    BY <1>1
  <2>2. a - N * n \in 0..(N - 1)
    BY <1>1, <1>6, <2>1
  <2>3. a = N * n + (a - N * n)
    BY <1>1, <2>1
  <2>4. a \div N = n
    <3> HIDE DEF a, N
    <3> QED BY <1>1, <2>2, <2>3, DivisionUnique
  <2> QED BY <1>4, <2>4
<1> QED BY <1>1, <1>3, <1>4, <1>5, <1>6

\* One block more, and one less; the size may become less than nothing.
LEMMA BlocksMore ==
    ASSUME NEW size \in Nat, size <= LIMIT, size2nblocks(size) < NDIRECT + NINDIRECT
    PROVE  /\ (size + NINDIRECT) % Width = size + NINDIRECT
           /\ size + NINDIRECT <= LIMIT
           /\ size2nblocks(size + NINDIRECT) = size2nblocks(size) + 1
<1> DEFINE N == NINDIRECT
           n == size2nblocks(size)
           m == NDIRECT + NINDIRECT
<1>0. N \in Nat \ {0} /\ m \in Nat /\ LIMIT = N * m /\ LIMIT \in Nat /\ LIMIT + N < Width
      /\ Width \in Nat \ {0} /\ size + N \in Nat
  BY Constants
<1>1. n \in Nat /\ N * n \in Nat /\ size <= N * n /\ N * n < size + N /\ n < m
  BY <1>0, BlocksOf
<1> HIDE DEF N, n, m
<1>2. N * m >= N * n + N
  BY <1>0, <1>1, NextMultiple
<1>3. N * (n + 1) = N * n + N /\ n + 1 \in Nat
  BY <1>0, <1>1
<1>4. size + N <= LIMIT
  BY <1>0, <1>1, <1>2
<1>5. size2nblocks(size + N) = n + 1
  <2>1. size + N + NINDIRECT - 1 < Width
    BY <1>0, <1>4 DEF N
  <2>2. size + N <= NINDIRECT * (n + 1) /\ NINDIRECT * (n + 1) < size + N + NINDIRECT
    BY <1>0, <1>1, <1>3 DEF N
  <2> QED BY <1>0, <1>3, <2>1, <2>2, BlocksOf
<1>6. (size + N) % Width = size + N
  <2>1. size + N = Width * 0 + (size + N) /\ size + N \in 0..Width-1
    BY <1>0, <1>4
  <2> QED BY SMTT(30), <1>0, <2>1, DivisionUnique
<1> QED BY <1>4, <1>5, <1>6 DEF N, n

LEMMA BlocksLess ==
    ASSUME NEW size \in 0..Width-1, size2nblocks(size) # 0
    PROVE  /\ (size - NINDIRECT) % Width \in 0..Width-1
           /\ size2nblocks((size - NINDIRECT) % Width) = size2nblocks(size) - 1
           /\ size >= NINDIRECT => (size - NINDIRECT) % Width = size - NINDIRECT
           /\ size2nblocks(size) \in Nat
<1> DEFINE N == NINDIRECT
           n == size2nblocks(size)
<1>0. N \in Nat \ {0} /\ Width \in Nat \ {0} /\ N < Width /\ size \in Nat
  BY Constants
<1>1. size + N - 1 < Width
  <2> SUFFICES ASSUME size + N - 1 >= Width PROVE FALSE
    BY <1>0
  <2> DEFINE a == size + N - 1
             b == a - Width
  <2>1. a \in Int /\ b \in 0..Width-1 /\ b \in 0..N-1 /\ a = Width * 1 + b
    BY <1>0
  <2> HIDE DEF a, b
  <2>2. a % Width = b
    BY <1>0, <2>1, DivisionUnique
  <2>3. b = N * 0 + b
    BY <1>0, <2>1
  <2>4. b \div N = 0
    BY <1>0, <2>1, <2>3, DivisionUnique
  <2> QED BY <2>2, <2>4 DEF size2nblocks, a, N
<1>2. n \in Nat /\ N * n \in Nat /\ size <= N * n /\ N * n < size + N /\ n # 0
  BY <1>0, <1>1, BlocksOf DEF N
<1> HIDE DEF N, n
<1>3. n - 1 \in Nat /\ N * (n - 1) = N * n - N /\ size # 0
  BY <1>0, <1>2
<1>4. CASE size >= N
  <2>1. size - N = Width * 0 + (size - N) /\ size - N \in 0..Width-1
    BY <1>0, <1>4
  <2>2. (size - N) % Width = size - N
    <3>1. PICK a \in Int : a = size - N
      BY <1>0
    <3>2. a \in 0..Width-1 /\ a = Width * 0 + a
      BY <2>1, <3>1
    <3>3. a % Width = a
      BY <1>0, <3>2, DivisionUnique
    <3> QED BY <3>1, <3>3
  <2>3. size - N \in Nat /\ size - N + NINDIRECT - 1 < Width
        /\ size - N <= NINDIRECT * (n - 1) /\ NINDIRECT * (n - 1) < size - N + NINDIRECT
    BY <1>0, <1>1, <1>2, <1>3, <1>4 DEF N
  <2>4. size2nblocks(size - N) = n - 1
    BY <1>3, <2>3, BlocksOf
  <2> QED BY <1>2, <2>1, <2>2, <2>4 DEF N, n
<1>5. CASE size < N
  <2>1. size - N = Width * (-1) + (Width + size - N) /\ Width + size - N \in 0..Width-1
    BY <1>0, <1>5
  <2>2. (size - N) % Width = Width + size - N
    <3>1. PICK a \in Int, r \in 0..Width-1 : a = size - N /\ r = Width + size - N
      BY <1>0, <2>1
    <3>2. a = Width * (-1) + r
      BY <2>1, <3>1
    <3>3. a % Width = r
      BY <1>0, <3>2, DivisionUnique
    <3> QED BY <3>1, <3>3
  <2>3. Width + size - 1 = Width * 1 + (size - 1) /\ size - 1 \in 0..Width-1 /\ size - 1 \in 0..N-1
    BY <1>0, <1>3, <1>5
  <2>4. (Width + size - 1) % Width = size - 1
    <3>1. PICK a \in Int, r \in 0..Width-1 : a = Width + size - 1 /\ r = size - 1
      BY <1>0, <2>3
    <3>2. a = Width * 1 + r
      BY <2>3, <3>1
    <3>3. a % Width = r
      BY <1>0, <3>2, DivisionUnique
    <3> QED BY <3>1, <3>3
  <2>5. size - 1 = N * 0 + (size - 1)
    BY <1>0
  <2>6. (size - 1) \div N = 0
    BY <1>0, <2>3, <2>5, DivisionUnique
  <2>7. Width + size - N + N - 1 = Width + size - 1
    BY <1>0
  <2>8. size2nblocks(Width + size - N) = 0
    BY <2>4, <2>6, <2>7 DEF size2nblocks, N
  <2>9. n = 1
    <3>1. size <= NINDIRECT * 1 /\ NINDIRECT * 1 < size + NINDIRECT /\ size + NINDIRECT - 1 < Width
      BY <1>0, <1>1, <1>3, <1>5 DEF N
    <3> QED BY <1>0, <3>1, BlocksOf DEF n
  <2> QED BY <1>0, <2>1, <2>2, <2>8, <2>9, <1>5 DEF N, n
<1> QED BY <1>0, <1>4, <1>5

LEMMA BlocksBound ==
    ASSUME NEW size \in Nat, size <= LIMIT
    PROVE  size2nblocks(size) \in 0..(NDIRECT + NINDIRECT)
<1> DEFINE N == NINDIRECT
           n == size2nblocks(size)
           m == NDIRECT + NINDIRECT
<1>0. N \in Nat \ {0} /\ m \in Nat /\ LIMIT = N * m /\ LIMIT \in Nat /\ LIMIT + N < Width
      /\ Width \in Nat
  BY Constants
<1>1. n \in Nat /\ N * n \in Nat /\ N * n < size + N
  BY <1>0, BlocksOf
<1> HIDE DEF N, n, m
<1>2. ~(m < n)
  <2> SUFFICES ASSUME m < n PROVE FALSE
    OBVIOUS
  <2>1. N * n >= N * m + N
    BY <1>0, <1>1, NextMultiple
  <2> QED BY <1>0, <1>1, <2>1
<1> QED BY <1>0, <1>1, <1>2 DEF n, m

\* An offset is in one of the blocks of the file.
LEMMA OffsetBlock ==
    ASSUME NEW size \in Nat, size <= LIMIT, NEW off \in 0..size-1
    PROVE  /\ off \div NINDIRECT \in 0..size2nblocks(size)-1
           /\ off % NINDIRECT \in 0..NINDIRECT-1
           /\ off = NINDIRECT * (off \div NINDIRECT) + (off % NINDIRECT)
<1> DEFINE N == NINDIRECT
           n == size2nblocks(size)
           q == off \div N
           r == off % N
<1>0. N \in Nat \ {0} /\ LIMIT \in Nat /\ LIMIT + N < Width /\ Width \in Nat /\ off \in Nat
  BY Constants
<1>1. n \in Nat /\ N * n \in Nat /\ size <= N * n
  BY <1>0, BlocksOf
<1>2. off = N * q + r /\ q \in Int /\ r \in 0..(N - 1)
  BY <1>0, Division
<1> HIDE DEF N, n, q, r
<1>3. N * q \in Int
  BY <1>0, <1>2
<1>4. ~(q < 0)
  <2> SUFFICES ASSUME q < 0 PROVE FALSE
    OBVIOUS
  <2>1. N * 0 >= N * q + N
    BY <1>0, <1>2, NextMultiple
  <2> QED BY <1>0, <1>2, <1>3, <2>1
<1>5. ~(n <= q)
  <2> SUFFICES ASSUME n <= q PROVE FALSE
    OBVIOUS
  <2>1. N * q >= N * n
    <3>1. CASE n = q
      BY <3>1, <1>3
    <3>2. CASE n < q
      <4>1. N * q >= N * n + N
        BY <1>0, <1>1, <1>2, <3>2, NextMultiple
      <4> QED BY <1>0, <1>1, <1>3, <4>1
    <3> QED BY <1>1, <1>2, <3>1, <3>2
  <2> QED BY <1>0, <1>1, <1>2, <1>3, <2>1
<1>6. q \in 0..n-1 /\ r \in 0..(N - 1) /\ off = N * q + r
  BY <1>1, <1>2, <1>4, <1>5
<1> QED BY ONLY <1>6, Zenon DEF N, n, q, r

\* The block of an offset is the one that the file has at the offset's index.
LEMMA BlocknoIs ==
    ASSUME NEW d, NEW i \in Inode, d.inode[i].size \in Nat, d.inode[i].size <= LIMIT,
           NEW off \in 0..d.inode[i].size-1, d.inode[i].ftype # "SYMLINK"
    PROVE  inode_blockno(d, i, off) = Pointer(d, i, SlotOf(off \div NINDIRECT))
<1> DEFINE b == off \div NINDIRECT
           oi == d.inode[i]
<1>1. b \in 0..size2nblocks(oi.size)-1
  BY OffsetBlock
<1>2. size2nblocks(oi.size) \in 0..(NDIRECT + NINDIRECT)
  BY BlocksBound
<1>3. b \in Nat /\ b < NDIRECT + NINDIRECT
  BY <1>1, <1>2, Constants
<1>4. ~(off >= oi.size) /\ oi.ftype # "SYMLINK"
  OBVIOUS
<1>5. inode_blockno(d, i, off) = IF b >= NDIRECT THEN d.block[oi.w[IndirectAt]][b - NDIRECT]
                                 ELSE oi.w[DirectAt(b)]
  <2> HIDE DEF b, oi
  <2>1. ~(b >= NDIRECT + NINDIRECT)
    BY <1>3, Constants
  <2> QED BY <2>1, <1>4 DEF inode_blockno, b, oi
<1> HIDE DEF b
<1>6. CASE b >= NDIRECT
  <2>1. SlotOf(b) = b + 3 /\ ~(b + 3 <= NDIRECT + 2) /\ b + 3 - NDIRECT - 3 = b - NDIRECT
    BY <1>3, <1>6, Constants DEF SlotOf
  <2>2. Pointer(d, i, SlotOf(b)) = d.block[oi.w[IndirectAt]][b - NDIRECT]
    BY <2>1, <1>3, Constants DEF Pointer
  <2>3. inode_blockno(d, i, off) = Pointer(d, i, SlotOf(b))
    BY <1>5, <1>6, <2>2
  <2> QED BY ONLY <2>3, Zenon DEF b
<1>7. CASE b < NDIRECT
  <2>1. SlotOf(b) = b + 1 /\ b + 1 <= NDIRECT + 2 /\ DirectAt(b) = b + 1
    BY <1>3, <1>7, Constants DEF SlotOf, DirectAt
  <2> QED BY <1>5, <1>7, <2>1, <1>3, Constants DEF Pointer, b
<1> QED BY <1>3, <1>6, <1>7, Constants

\* There is none behind the end of a file, nor in a symbolic link.
LEMMA NoBlockno ==
    ASSUME NEW d, NEW i, NEW off, off >= d.inode[i].size \/ d.inode[i].ftype = "SYMLINK"
    PROVE  inode_blockno(d, i, off) = 0
  BY Zenon DEF inode_blockno

\* The indices with which add_block() and remove_block() work.
LEMMA Indexes ==
    ASSUME NEW n \in 0..(NDIRECT + NINDIRECT)
    PROVE  /\ n < NDIRECT => direct_index(n) = n /\ indir_index(n) = -1 /\ indir2_index(n) = -1
           /\ n >= NDIRECT /\ n < NDIRECT + NINDIRECT =>
                 direct_index(n) = n - NDIRECT /\ indir_index(n) = 0 /\ indir2_index(n) = -1
           /\ n = NDIRECT + NINDIRECT =>
                 direct_index(n) = 0 /\ indir_index(n) = 0 /\ indir2_index(n) = 0
<1> DEFINE N == NINDIRECT
<1>0. N \in Nat \ {0} /\ NDIRECT \in Nat \ {0} /\ n \in Nat
  BY Constants
<1>1. \A a \in 0..N-1 : a % N = a /\ a \div N = 0
  <2> SUFFICES ASSUME NEW a \in 0..N-1 PROVE a % N = a /\ a \div N = 0
    OBVIOUS
  <2>1. a = N * 0 + a /\ a \in Int
    BY <1>0
  <2> QED BY <1>0, <2>1, DivisionUnique
<1>2. N % N = 0
  <2>1. N = N * 1 + 0 /\ N \in Int /\ 0 \in 0..N-1
    BY <1>0
  <2> QED BY <1>0, <2>1, DivisionUnique
<1>3. CASE n < NDIRECT
  BY <1>0, <1>3 DEF direct_index, indir_index, indir2_index
<1>4. CASE n >= NDIRECT /\ n < NDIRECT + N
  <2>1. n - NDIRECT \in 0..N-1 /\ ~(n < NDIRECT)
    BY <1>0, <1>4
  <2>2. (n - NDIRECT) % N = n - NDIRECT
    BY <1>1, <2>1
  <2> QED BY <1>0, <1>4, <2>1, <2>2 DEF direct_index, indir_index, indir2_index
<1>5. CASE n = NDIRECT + N
  <2>1. n - NDIRECT = N /\ n - NDIRECT - N = 0 /\ ~(n < NDIRECT) /\ ~(n < NDIRECT + N)
    BY <1>0, <1>5
  <2>2. (n - NDIRECT) % N = 0 /\ (n - NDIRECT - N) \div N = 0
    BY <1>0, <1>1, <1>2, <2>1
  <2> QED BY <1>0, <1>5, <2>1, <2>2 DEF direct_index, indir_index, indir2_index
<1> QED BY <1>0, <1>3, <1>4, <1>5

-----------------------------------------------------------------------------
(* The elementary changes of a disk.                                        *)

Ind(d, i) == d.inode[i].w[IndirectAt]

\* A block that is neither free nor in a file.
Fresh(d, b) ==
    b \in DataBlock \ d.free /\ \A i \in Inode, k \in Slot : Pointer(d, i, k) # b

LEMMA DiskParts ==
    ASSUME NEW d \in Disk
    PROVE  /\ d.free \in SUBSET DataBlock
           /\ d.inode \in [Inode -> [size : 0..Width-1, ftype : {"REG", "DIR", "SYMLINK"},
                                     nlink : Nat, w : [InodeWord -> Nat]]]
           /\ d.block \in [Block -> [0..NINDIRECT-1 -> Nat]]
           /\ \A i \in Inode : /\ d.inode[i].size \in 0..Width-1 /\ d.inode[i].nlink \in Nat
                               /\ d.inode[i].ftype \in {"REG", "DIR", "SYMLINK"}
                               /\ d.inode[i].w \in [InodeWord -> Nat]
                               /\ \A k \in InodeWord : d.inode[i].w[k] \in Nat
           /\ \A b \in Block : d.block[b] \in [0..NINDIRECT-1 -> Nat]
           /\ \A b \in Block, k \in 0..NINDIRECT-1 : d.block[b][k] \in Nat
<1>1. /\ d.free \in SUBSET DataBlock
      /\ d.inode \in [Inode -> [size : 0..Width-1, ftype : {"REG", "DIR", "SYMLINK"},
                                nlink : Nat, w : [InodeWord -> Nat]]]
      /\ d.block \in [Block -> [0..NINDIRECT-1 -> Nat]]
  BY DEF Disk
<1>2. \A i \in Inode : d.inode[i] \in [size : 0..Width-1, ftype : {"REG", "DIR", "SYMLINK"},
                                       nlink : Nat, w : [InodeWord -> Nat]]
  BY <1>1
<1>3. \A i \in Inode : /\ d.inode[i].size \in 0..Width-1 /\ d.inode[i].nlink \in Nat
                       /\ d.inode[i].ftype \in {"REG", "DIR", "SYMLINK"}
                       /\ d.inode[i].w \in [InodeWord -> Nat]
  BY <1>2
<1>4. \A i \in Inode : \A k \in InodeWord : d.inode[i].w[k] \in Nat
  BY <1>3
<1>5. \A b \in Block : d.block[b] \in [0..NINDIRECT-1 -> Nat]
  BY <1>1
<1>6. \A b \in Block, k \in 0..NINDIRECT-1 : d.block[b][k] \in Nat
  BY <1>5
<1> QED BY ONLY <1>1, <1>3, <1>4, <1>5, <1>6, Zenon

\* y is d with word k of inode i being b.
FieldSet(d, y, i, k, b) ==
    /\ y \in Disk /\ y.free = d.free /\ y.block = d.block
    /\ \A j \in Inode : /\ j # i => y.inode[j] = d.inode[j]
                        /\ y.inode[j].size = d.inode[j].size
                        /\ y.inode[j].ftype = d.inode[j].ftype
                        /\ y.inode[j].nlink = d.inode[j].nlink
                        /\ \A l \in InodeWord : y.inode[j].w[l] =
                              IF j = i /\ l = k THEN b ELSE d.inode[j].w[l]

LEMMA SetFieldIs ==
    ASSUME NEW d \in Disk, NEW i \in Inode, NEW k \in InodeWord, NEW b \in Nat
    PROVE  FieldSet(d, SetField(d, i, k, b), i, k, b)
  BY DEF SetField, Disk, FieldSet

LEMMA SetWordIs ==
    ASSUME NEW d \in Disk, NEW b \in Block, NEW k \in 0..NINDIRECT-1, NEW v \in Nat
    PROVE  LET y == SetWord(d, b, k, v) IN
           /\ y \in Disk /\ y.free = d.free /\ y.inode = d.inode
           /\ \A c \in Block : c # b => y.block[c] = d.block[c]
           /\ \A l \in 0..NINDIRECT-1 : y.block[b][l] = IF l = k THEN v ELSE d.block[b][l]
  BY DEF SetWord, Disk

LEMMA TakeIs ==
    ASSUME NEW d \in Disk, NEW b \in Block
    PROVE  LET y == Take(d, b) IN
           /\ y \in Disk /\ y.free = d.free \ {b} /\ y.inode = d.inode
           /\ y.block[b] = ZeroBlock
           /\ \A c \in Block : c # b => y.block[c] = d.block[c]
<1>1. ZeroBlock \in [0..NINDIRECT-1 -> Nat]
  BY DEF ZeroBlock
<1> QED BY <1>1 DEF Take, Disk

LEMMA FreeIs ==
    ASSUME NEW d \in Disk, NEW b, b = 0 \/ b \in DataBlock
    PROVE  LET y == free_block(d, b) IN
           /\ y \in Disk /\ y.inode = d.inode /\ y.block = d.block
           /\ b = 0 => y = d
           /\ b # 0 => y.free = d.free \cup {b}
<1>1. CASE b = 0
  BY <1>1, Constants DEF free_block
<1>2. CASE b \in DataBlock
  <2>1. ~(b < FIRSTINOB) /\ b # 0
    BY <1>2, Constants DEF DataBlock
  <2> QED BY <1>2, <2>1 DEF free_block, Disk
<1> QED BY <1>1, <1>2

LEMMA SizedIs ==
    ASSUME NEW d \in Disk, NEW i \in Inode, NEW s \in 0..Width-1
    PROVE  LET y == [d EXCEPT !.inode[i].size = s] IN
           /\ y \in Disk /\ y.free = d.free /\ y.block = d.block
           /\ y.inode[i].size = s
           /\ \A j \in Inode : /\ j # i => y.inode[j] = d.inode[j]
                               /\ y.inode[j].ftype = d.inode[j].ftype
                               /\ y.inode[j].nlink = d.inode[j].nlink
                               /\ y.inode[j].w = d.inode[j].w
  BY DEF Disk

-----------------------------------------------------------------------------
(* Pointers, and which changes keep a disk sound.                           *)

\* Where a pointer is.
LEMMA PointerIs ==
    ASSUME NEW d, NEW i
    PROVE  /\ \A k \in 1..NDIRECT+2 : k \in Slot /\ k \in InodeWord /\ Pointer(d, i, k) = d.inode[i].w[k]
           /\ \A k \in Slot : ~(k <= NDIRECT + 2) =>
                 /\ k - NDIRECT - 3 \in 0..NINDIRECT-1
                 /\ Pointer(d, i, k) = d.block[Ind(d, i)][k - NDIRECT - 3]
           /\ \A l \in 0..NINDIRECT-1 :
                 /\ NDIRECT + 3 + l \in Slot /\ ~(NDIRECT + 3 + l <= NDIRECT + 2)
                 /\ Pointer(d, i, NDIRECT + 3 + l) = d.block[Ind(d, i)][l]
           /\ IndirectAt \in 1..NDIRECT+2 /\ Indirect2At \in 1..NDIRECT+2
           /\ Pointer(d, i, IndirectAt) = Ind(d, i)
<1>1. NDIRECT \in Nat /\ NINDIRECT \in Nat
  BY Constants
<1>2. IndirectAt = NDIRECT + 1 /\ Indirect2At = NDIRECT + 2
  BY DEF IndirectAt, Indirect2At
<1>3. \A l \in 0..NINDIRECT-1 : NDIRECT + 3 + l - NDIRECT - 3 = l
  BY <1>1
<1> QED BY <1>1, <1>2, <1>3 DEF Pointer, Slot, InodeWord, Ind

LEMMA SoundParts ==
    ASSUME NEW d, Sound(d)
    PROVE  /\ d \in Disk
           /\ 0 \in Block /\ DataBlock \subseteq Block \ {0}
           /\ \A b \in DataBlock : b \in Nat /\ b >= 2
           /\ \A i \in Inode, k \in Slot :
                 /\ Pointer(d, i, k) = 0 \/ Pointer(d, i, k) \in DataBlock \ d.free
                 /\ Pointer(d, i, k) \in Block
           /\ \A i \in Inode : /\ Ind(d, i) = 0 \/ Ind(d, i) \in DataBlock \ d.free
                               /\ Ind(d, i) \in Block
           /\ \A i, j \in Inode : Ind(d, i) # 0 /\ Ind(d, i) = Ind(d, j) => i = j
           /\ \A k \in 0..NINDIRECT-1 : d.block[0][k] = 0
<1>1. d \in Disk /\ d.block[0] = ZeroBlock
  BY DEF Sound
<1>2. 0 \in Block /\ DataBlock \subseteq Block \ {0} /\ \A b \in DataBlock : b \in Nat /\ b >= 2
  BY Constants DEF Block, DataBlock
<1>3. \A i \in Inode, k \in Slot :
          Pointer(d, i, k) = 0 \/ Pointer(d, i, k) \in DataBlock \ d.free
  BY DEF Sound
<1>4. IndirectAt \in Slot /\ \A i \in Inode : Pointer(d, i, IndirectAt) = Ind(d, i)
  BY PointerIs
<1>5. \A i, j \in Inode : Ind(d, i) # 0 /\ Ind(d, i) = Ind(d, j) => i = j
  BY <1>4 DEF Sound
<1>6. \A k \in 0..NINDIRECT-1 : d.block[0][k] = 0
  BY <1>1 DEF ZeroBlock
<1> QED BY <1>1, <1>2, <1>3, <1>4, <1>5, <1>6

\* What block 0 and the doubly indirect pointers have to be.
Based(y) ==
    y \in Disk /\ y.block[0] = ZeroBlock /\ \A i \in Inode : y.inode[i].w[Indirect2At] = 0

\* From d to y pointers are cleared, at most one, s of file p, gets the fresh
\* block new, and what becomes free has no pointer left.
Repoints(d, y, p, s, new) ==
    /\ \A i \in Inode, k \in Slot :
          \/ Pointer(y, i, k) = 0
          \/ Pointer(y, i, k) = Pointer(d, i, k)
          \/ i = p /\ k = s /\ Pointer(y, i, k) = new
    /\ new = 0 \/ new \in DataBlock \ y.free
    /\ \A i \in Inode, k \in Slot : Pointer(d, i, k) = new => new = 0
    /\ \A b \in y.free \ d.free : \A i \in Inode, k \in Slot : Pointer(y, i, k) # b

LEMMA SoundKept ==
    ASSUME NEW d, Sound(d), NEW y, Based(y),
           NEW p \in Inode, NEW s \in Slot, NEW new, Repoints(d, y, p, s, new)
    PROVE  Sound(y)
<1> USE DEF Based, Repoints
<1>1. ASSUME NEW i \in Inode, NEW k \in Slot, Pointer(y, i, k) # 0
      PROVE  Pointer(y, i, k) \in DataBlock \ y.free
  <2>1. CASE Pointer(y, i, k) = Pointer(d, i, k)
    <3>1. Pointer(d, i, k) \in DataBlock \ d.free
      BY <1>1, <2>1 DEF Sound
    <3> QED BY <2>1, <3>1
  <2>2. CASE Pointer(y, i, k) = new
    BY <1>1, <2>2
  <2> QED BY <1>1, <2>1, <2>2
<1>2. ASSUME NEW i \in Inode, NEW k \in Slot, Pointer(y, i, k) # 0,
             NEW j \in Inode, NEW l \in Slot, Pointer(y, j, l) = Pointer(y, i, k)
      PROVE  j = i /\ l = k
  <2>1. CASE Pointer(y, i, k) = Pointer(d, i, k) /\ Pointer(y, j, l) = Pointer(d, j, l)
    BY <1>2, <2>1 DEF Sound
  <2>2. CASE i = p /\ k = s /\ Pointer(y, i, k) = new
    BY <1>2, <2>2
  <2>3. CASE j = p /\ l = s /\ Pointer(y, j, l) = new
    BY <1>2, <2>3
  <2> QED BY <1>2, <2>1, <2>2, <2>3
<1> QED BY <1>1, <1>2 DEF Sound

\* Sizes, types, link counts and modes have nothing to do with it.
LEMMA SameSound ==
    ASSUME NEW d, Sound(d), NEW y \in Disk, y.block = d.block, y.free = d.free,
           \A i \in Inode : \A k \in 1..NDIRECT+2 : y.inode[i].w[k] = d.inode[i].w[k]
    PROVE  /\ Sound(y)
           /\ \A i \in Inode, k \in Slot : Pointer(y, i, k) = Pointer(d, i, k)
           /\ \A i \in Inode : Ind(y, i) = Ind(d, i)
<1>1. \A i \in Inode : Ind(y, i) = Ind(d, i) /\ y.inode[i].w[Indirect2At] = d.inode[i].w[Indirect2At]
  BY PointerIs DEF Ind
<1>2. ASSUME NEW i \in Inode, NEW k \in Slot PROVE Pointer(y, i, k) = Pointer(d, i, k)
  <2>1. CASE k <= NDIRECT + 2
    <3>1. k \in 1..NDIRECT+2
      BY <2>1, Constants DEF Slot
    <3> QED BY <3>1, PointerIs
  <2>2. CASE ~(k <= NDIRECT + 2)
    BY <1>1, <2>2, PointerIs
  <2> QED BY <2>1, <2>2
<1> QED BY <1>1, <1>2 DEF Sound

\* A block that was free has no pointers, and is fresh once it is taken.
LEMMA TakeSound ==
    ASSUME NEW d, Sound(d), NEW b \in d.free
    PROVE  /\ Sound(Take(d, b)) /\ Fresh(Take(d, b), b)
           /\ \A i \in Inode, k \in Slot : Pointer(Take(d, b), i, k) = Pointer(d, i, k)
<1> DEFINE y == Take(d, b)
<1>1. d \in Disk /\ b \in DataBlock /\ b \in Block /\ b # 0 /\ 0 \in Block
  BY SoundParts, DiskParts
<1>2. /\ y \in Disk /\ y.free = d.free \ {b} /\ y.inode = d.inode
      /\ \A c \in Block : c # b => y.block[c] = d.block[c]
  BY <1>1, TakeIs
<1> HIDE DEF y
<1>3. ASSUME NEW i \in Inode PROVE Ind(y, i) = Ind(d, i) /\ y.block[Ind(y, i)] = d.block[Ind(d, i)]
  <2>1. Ind(y, i) = Ind(d, i)
    BY <1>2 DEF Ind
  <2>2. Ind(d, i) \in Block /\ Ind(d, i) # b
    BY <1>1, SoundParts
  <2> QED BY <1>2, <2>1, <2>2
<1>4. ASSUME NEW i \in Inode, NEW k \in Slot PROVE Pointer(y, i, k) = Pointer(d, i, k)
  BY <1>2, <1>3 DEF Pointer, Ind
<1>5. \A i \in Inode, k \in Slot : Pointer(d, i, k) # b
  BY <1>1, SoundParts
<1>6. y.block[0] = ZeroBlock /\ \A i \in Inode : y.inode[i].w[Indirect2At] = 0
  BY <1>1, <1>2 DEF Sound
<1>7. Sound(y)
  BY <1>2, <1>4, <1>6 DEF Sound
<1>8. Fresh(y, b)
  BY <1>1, <1>2, <1>4, <1>5 DEF Fresh
<1> QED BY <1>4, <1>7, <1>8 DEF y

\* A direct pointer is cleared or gets a fresh block.
LEMMA SetDirectSound ==
    ASSUME NEW d, Sound(d), NEW i \in Inode, NEW n \in 1..NDIRECT, NEW b,
           b = 0 \/ Fresh(d, b)
    PROVE  LET y == SetField(d, i, n, b) IN
           /\ Sound(y)
           /\ \A j \in Inode, k \in Slot :
                 Pointer(y, j, k) = IF j = i /\ k = n THEN b ELSE Pointer(d, j, k)
           /\ \A j \in Inode : Ind(y, j) = Ind(d, j)
<1> DEFINE y == SetField(d, i, n, b)
<1>1. d \in Disk /\ b \in Nat /\ (b = 0 \/ b \in DataBlock \ d.free)
  BY SoundParts DEF Fresh
<1>2. n \in 1..NDIRECT+2 /\ n \in InodeWord /\ n # IndirectAt /\ n # Indirect2At /\ n \in Slot
      /\ IndirectAt \in InodeWord /\ Indirect2At \in InodeWord
  BY Constants DEF InodeWord, IndirectAt, Indirect2At, Slot
<1>3. /\ y \in Disk /\ y.free = d.free /\ y.block = d.block
      /\ \A j \in Inode : \A l \in InodeWord :
             y.inode[j].w[l] = IF j = i /\ l = n THEN b ELSE d.inode[j].w[l]
  <2>1. FieldSet(d, y, i, n, b)
    BY <1>1, <1>2, SetFieldIs
  <2> HIDE DEF y
  <2> QED BY <2>1 DEF FieldSet
<1> HIDE DEF y
<1>4. \A j \in Inode : Ind(y, j) = Ind(d, j) /\ y.inode[j].w[Indirect2At] = d.inode[j].w[Indirect2At]
  BY <1>2, <1>3 DEF Ind
<1>5. ASSUME NEW j \in Inode, NEW k \in Slot
      PROVE  Pointer(y, j, k) = IF j = i /\ k = n THEN b ELSE Pointer(d, j, k)
  <2>1. CASE k <= NDIRECT + 2
    <3>1. k \in 1..NDIRECT+2 /\ k \in InodeWord
      BY <2>1, Constants DEF Slot, InodeWord
    <3> QED BY <1>3, <3>1, PointerIs
  <2>2. CASE ~(k <= NDIRECT + 2)
    <3>1. k # n
      BY <1>2, <2>2, Constants
    <3> QED BY <1>3, <1>4, <2>2, <3>1, PointerIs
  <2> QED BY <2>1, <2>2
<1>6. Sound(y)
  <2>1. Based(y)
    BY <1>3, <1>4 DEF Sound, Based
  <2>2. \A j \in Inode, k \in Slot : Pointer(d, j, k) = b => b = 0
    BY DEF Fresh
  <2>3. \A j \in Inode, k \in Slot :
            \/ Pointer(y, j, k) = 0
            \/ Pointer(y, j, k) = Pointer(d, j, k)
            \/ j = i /\ k = n /\ Pointer(y, j, k) = b
    BY <1>5
  <2>4. (b = 0 \/ b \in DataBlock \ y.free) /\ y.free \ d.free = {}
    BY <1>1, <1>3
  <2>5. Repoints(d, y, i, n, b)
    BY <2>2, <2>3, <2>4 DEF Repoints
  <2> QED BY <1>2, <2>1, <2>5, SoundKept
<1> QED BY <1>4, <1>5, <1>6 DEF y

\* The pointer to the indirect block is cleared or gets an empty fresh block.
IndirectSet(d, y, i, b) ==
    /\ Sound(y)
    /\ \A j \in Inode, k \in Slot :
          Pointer(y, j, k) = IF j = i /\ k = IndirectAt THEN b
                             ELSE IF j = i /\ k > NDIRECT + 2 THEN 0
                             ELSE Pointer(d, j, k)
    /\ \A j \in Inode : Ind(y, j) = IF j = i THEN b ELSE Ind(d, j)
    /\ FieldSet(d, y, i, IndirectAt, b)

LEMMA SetIndirectSound ==
    ASSUME NEW d, Sound(d), NEW i \in Inode, NEW b,
           b = 0 \/ (Fresh(d, b) /\ d.block[b] = ZeroBlock)
    PROVE  IndirectSet(d, SetField(d, i, IndirectAt, b), i, b)
<1> DEFINE y == SetField(d, i, IndirectAt, b)
<1>1. d \in Disk /\ b \in Nat /\ (b = 0 \/ b \in DataBlock \ d.free) /\ d.block[b] = ZeroBlock
  BY SoundParts DEF Fresh, Sound
<1>2. /\ IndirectAt \in InodeWord /\ Indirect2At \in InodeWord /\ IndirectAt # Indirect2At
      /\ IndirectAt \in Slot /\ IndirectAt <= NDIRECT + 2 /\ IndirectAt \in Nat
  BY Constants DEF InodeWord, IndirectAt, Indirect2At, Slot
<1>7. FieldSet(d, y, i, IndirectAt, b)
  BY <1>1, <1>2, SetFieldIs
<1>3. /\ y \in Disk /\ y.free = d.free /\ y.block = d.block
      /\ \A j \in Inode : \A l \in InodeWord :
             y.inode[j].w[l] = IF j = i /\ l = IndirectAt THEN b ELSE d.inode[j].w[l]
  <2> HIDE DEF y
  <2> QED BY <1>7 DEF FieldSet
<1> HIDE DEF y
<1>4. \A j \in Inode : /\ Ind(y, j) = IF j = i THEN b ELSE Ind(d, j)
                       /\ y.inode[j].w[Indirect2At] = d.inode[j].w[Indirect2At]
  BY <1>2, <1>3 DEF Ind
<1>5. ASSUME NEW j \in Inode, NEW k \in Slot
      PROVE  Pointer(y, j, k) = IF j = i /\ k = IndirectAt THEN b
                                ELSE IF j = i /\ k > NDIRECT + 2 THEN 0
                                ELSE Pointer(d, j, k)
  <2>0. k \in Nat /\ NDIRECT \in Nat
    BY Constants DEF Slot
  <2>1. CASE k <= NDIRECT + 2
    <3>1. k \in 1..NDIRECT+2 /\ k \in InodeWord /\ ~(k > NDIRECT + 2)
      BY <2>0, <2>1, Constants DEF Slot, InodeWord
    <3> QED BY <1>3, <3>1, PointerIs
  <2>2. CASE ~(k <= NDIRECT + 2)
    <3>1. k # IndirectAt /\ k > NDIRECT + 2
      BY <1>2, <2>0, <2>2, Constants
    <3>2. k - NDIRECT - 3 \in 0..NINDIRECT-1 /\ Pointer(y, j, k) = y.block[Ind(y, j)][k - NDIRECT - 3]
          /\ Pointer(d, j, k) = d.block[Ind(d, j)][k - NDIRECT - 3]
      BY <2>2, PointerIs
    <3>3. \A l \in 0..NINDIRECT-1 : ZeroBlock[l] = 0
      BY DEF ZeroBlock
    <3> QED BY <1>1, <1>3, <1>4, <3>1, <3>2, <3>3
  <2> QED BY <2>1, <2>2
<1>6. Sound(y)
  <2>1. Based(y)
    BY <1>3, <1>4 DEF Sound, Based
  <2>2. \A j \in Inode, k \in Slot : Pointer(d, j, k) = b => b = 0
    BY DEF Fresh
  <2>3. \A j \in Inode, k \in Slot :
            \/ Pointer(y, j, k) = 0
            \/ Pointer(y, j, k) = Pointer(d, j, k)
            \/ j = i /\ k = IndirectAt /\ Pointer(y, j, k) = b
    BY <1>5
  <2>4. (b = 0 \/ b \in DataBlock \ y.free) /\ y.free \ d.free = {}
    BY <1>1, <1>3
  <2>5. Repoints(d, y, i, IndirectAt, b)
    BY <2>2, <2>3, <2>4 DEF Repoints
  <2> QED BY <1>2, <2>1, <2>5, SoundKept
<1> QED BY <1>4, <1>5, <1>6, <1>7 DEF y, IndirectSet

LEMMA ClearIndirectSound ==
    ASSUME NEW d, Sound(d), NEW i \in Inode
    PROVE  IndirectSet(d, SetField(d, i, IndirectAt, 0), i, 0)
<1> SUFFICES ASSUME NEW b, b = 0 PROVE IndirectSet(d, SetField(d, i, IndirectAt, b), i, b)
  OBVIOUS
<1> QED BY SetIndirectSound

\* So is a word of an indirect block.
LEMMA SetIndWordSound ==
    ASSUME NEW d, Sound(d), NEW i \in Inode, Ind(d, i) # 0, NEW n \in 0..NINDIRECT-1, NEW b,
           b = 0 \/ Fresh(d, b)
    PROVE  LET y == SetWord(d, Ind(d, i), n, b) IN
           /\ Sound(y)
           /\ \A j \in Inode, k \in Slot :
                 Pointer(y, j, k) = IF j = i /\ k = NDIRECT + 3 + n THEN b ELSE Pointer(d, j, k)
<1> DEFINE c == Ind(d, i)
           y == SetWord(d, c, n, b)
<1>1. d \in Disk /\ b \in Nat /\ (b = 0 \/ b \in DataBlock \ d.free) /\ c \in Block /\ c # 0
  BY SoundParts DEF Fresh
<1>2. /\ y \in Disk /\ y.free = d.free /\ y.inode = d.inode
      /\ \A e \in Block : e # c => y.block[e] = d.block[e]
      /\ \A l \in 0..NINDIRECT-1 : y.block[c][l] = IF l = n THEN b ELSE d.block[c][l]
  BY <1>1, SetWordIs
<1> HIDE DEF y
<1>3. \A j \in Inode : Ind(y, j) = Ind(d, j) /\ Ind(d, j) \in Block /\ (Ind(d, j) = c => j = i)
  BY <1>1, <1>2, SoundParts DEF Ind
<1> HIDE DEF c
<1>4. ASSUME NEW j \in Inode, NEW k \in Slot
      PROVE  Pointer(y, j, k) = IF j = i /\ k = NDIRECT + 3 + n THEN b ELSE Pointer(d, j, k)
  <2>0. k \in Nat /\ NDIRECT \in Nat /\ n \in Nat
    BY Constants DEF Slot
  <2>1. CASE k <= NDIRECT + 2
    <3>1. k \in 1..NDIRECT+2 /\ k # NDIRECT + 3 + n
      BY <2>0, <2>1 DEF Slot
    <3>2. Pointer(y, j, k) = y.inode[j].w[k] /\ Pointer(d, j, k) = d.inode[j].w[k]
      BY <3>1, PointerIs
    <3> QED BY <1>2, <3>1, <3>2
  <2>2. CASE ~(k <= NDIRECT + 2)
    <3> DEFINE l == k - NDIRECT - 3
    <3>1. l \in 0..NINDIRECT-1 /\ Pointer(y, j, k) = y.block[Ind(y, j)][l]
          /\ Pointer(d, j, k) = d.block[Ind(d, j)][l] /\ (l = n <=> k = NDIRECT + 3 + n)
      BY <2>0, <2>2, PointerIs
    <3> HIDE DEF l
    <3>2. CASE j = i
      BY <1>2, <1>3, <3>1, <3>2 DEF c
    <3>3. CASE j # i
      BY <1>2, <1>3, <3>1, <3>3
    <3> QED BY <3>2, <3>3
  <2> QED BY <2>1, <2>2
<1>5. Sound(y)
  <2>1. Based(y)
    BY <1>1, <1>2, SoundParts DEF Sound, Based
  <2>2. \A j \in Inode, k \in Slot : Pointer(d, j, k) = b => b = 0
    BY DEF Fresh
  <2>5. NDIRECT + 3 + n \in Slot
    BY Constants DEF Slot
  <2>3. \A j \in Inode, k \in Slot :
            \/ Pointer(y, j, k) = 0
            \/ Pointer(y, j, k) = Pointer(d, j, k)
            \/ j = i /\ k = NDIRECT + 3 + n /\ Pointer(y, j, k) = b
    BY <1>4
  <2>4. (b = 0 \/ b \in DataBlock \ y.free) /\ y.free \ d.free = {}
    BY <1>1, <1>2
  <2>6. Repoints(d, y, i, NDIRECT + 3 + n, b)
    BY <2>2, <2>3, <2>4 DEF Repoints
  <2> QED BY <2>1, <2>5, <2>6, SoundKept
<1> QED BY <1>4, <1>5 DEF y, c

\* The words of other blocks are no pointers.
LEMMA SameIndSound ==
    ASSUME NEW d, Sound(d), NEW y \in Disk, y.free = d.free, y.inode = d.inode,
           \A b \in Block : (b = 0 \/ \E j \in Inode : Ind(d, j) = b) => y.block[b] = d.block[b]
    PROVE  /\ Sound(y)
           /\ \A i \in Inode, k \in Slot : Pointer(y, i, k) = Pointer(d, i, k)
<1>1. \A i \in Inode : Ind(y, i) = Ind(d, i) /\ y.block[Ind(y, i)] = d.block[Ind(d, i)]
  BY SoundParts DEF Ind
<1>2. ASSUME NEW i \in Inode, NEW k \in Slot PROVE Pointer(y, i, k) = Pointer(d, i, k)
  BY <1>1 DEF Pointer, Ind
<1>3. y.block[0] = ZeroBlock
  BY SoundParts DEF Sound
<1> QED BY <1>2, <1>3 DEF Sound

\* A fresh block is given back.
LEMMA FreeSound ==
    ASSUME NEW d, Sound(d), NEW b, Fresh(d, b)
    PROVE  /\ Sound(free_block(d, b))
           /\ \A i \in Inode, k \in Slot : Pointer(free_block(d, b), i, k) = Pointer(d, i, k)
<1> DEFINE y == free_block(d, b)
<1>1. d \in Disk /\ b \in DataBlock /\ b # 0
  BY SoundParts DEF Fresh
<1>2. y \in Disk /\ y.inode = d.inode /\ y.block = d.block /\ y.free = d.free \cup {b}
  BY <1>1, FreeIs
<1> HIDE DEF y
<1>3. \A i \in Inode, k \in Slot : Pointer(y, i, k) = Pointer(d, i, k)
  BY <1>2 DEF Pointer
<1>4. Sound(y)
  <2>1. y.block[0] = ZeroBlock /\ \A i \in Inode : y.inode[i].w[Indirect2At] = 0
    BY <1>2 DEF Sound
  <2>2. ASSUME NEW i \in Inode, NEW k \in Slot, Pointer(d, i, k) # 0
        PROVE  /\ Pointer(d, i, k) \in DataBlock \ y.free
               /\ \A j \in Inode, l \in Slot :
                      Pointer(d, j, l) = Pointer(d, i, k) => j = i /\ l = k
    <3>1. Pointer(d, i, k) # b
      BY DEF Fresh
    <3> QED BY <1>2, <2>2, <3>1 DEF Sound
  <2> QED BY <1>2, <1>3, <2>1, <2>2 DEF Sound
<1> QED BY <1>3, <1>4 DEF y

\* A direct pointer is cleared and its block freed.
LEMMA DropFieldSound ==
    ASSUME NEW d, Sound(d), NEW i \in Inode, NEW n \in 1..NDIRECT
    PROVE  LET y == SetField(free_block(d, d.inode[i].w[n]), i, n, 0) IN
           /\ Sound(y)
           /\ \A j \in Inode, k \in Slot :
                 Pointer(y, j, k) = IF j = i /\ k = n THEN 0 ELSE Pointer(d, j, k)
           /\ y.block = d.block
           /\ \A j \in Inode : /\ j # i => y.inode[j] = d.inode[j]
                               /\ y.inode[j].size = d.inode[j].size
                               /\ y.inode[j].ftype = d.inode[j].ftype
                               /\ y.inode[j].nlink = d.inode[j].nlink
                               /\ y.inode[j].w[0] = d.inode[j].w[0]
                               /\ Ind(y, j) = Ind(d, j)
<1> DEFINE b == d.inode[i].w[n]
           x == free_block(d, b)
           y == SetField(x, i, n, 0)
<1>1. n \in 1..NDIRECT+2 /\ n \in InodeWord /\ n # IndirectAt /\ n # Indirect2At /\ n \in Slot /\ n # 0
      /\ IndirectAt \in InodeWord /\ Indirect2At \in InodeWord /\ 0 \in InodeWord
  BY Constants DEF InodeWord, IndirectAt, Indirect2At, Slot
<1>2. Pointer(d, i, n) = b /\ d \in Disk
  BY <1>1, PointerIs, SoundParts
<1>3. b = 0 \/ b \in DataBlock
  BY <1>1, <1>2, SoundParts
<1> HIDE DEF b
<1>4. x \in Disk /\ x.inode = d.inode /\ x.block = d.block /\ (b = 0 => x = d)
      /\ (b # 0 => x.free = d.free \cup {b})
  BY <1>2, <1>3, FreeIs
<1> HIDE DEF x
<1>5. /\ y \in Disk /\ y.free = x.free /\ y.block = x.block
      /\ \A j \in Inode : /\ j # i => y.inode[j] = x.inode[j]
                          /\ y.inode[j].size = x.inode[j].size
                          /\ y.inode[j].ftype = x.inode[j].ftype
                          /\ y.inode[j].nlink = x.inode[j].nlink
                          /\ \A l \in InodeWord :
                                y.inode[j].w[l] = IF j = i /\ l = n THEN 0 ELSE x.inode[j].w[l]
  <2>1. FieldSet(x, y, i, n, 0)
    <3>1. 0 \in Nat
      OBVIOUS
    <3> QED BY <1>1, <1>4, <3>1, SetFieldIs
  <2> QED BY <2>1 DEF FieldSet
<1> HIDE DEF y
<1>6. \A j \in Inode : /\ Ind(y, j) = Ind(d, j)
                       /\ y.inode[j].w[Indirect2At] = d.inode[j].w[Indirect2At]
                       /\ y.inode[j].w[0] = d.inode[j].w[0]
  BY <1>1, <1>4, <1>5 DEF Ind
<1>7. ASSUME NEW j \in Inode, NEW k \in Slot
      PROVE  Pointer(y, j, k) = IF j = i /\ k = n THEN 0 ELSE Pointer(d, j, k)
  <2>1. CASE k <= NDIRECT + 2
    <3>1. k \in 1..NDIRECT+2 /\ k \in InodeWord
      BY <2>1, Constants DEF Slot, InodeWord
    <3> QED BY <1>4, <1>5, <3>1, PointerIs
  <2>2. CASE ~(k <= NDIRECT + 2)
    <3>1. k # n
      BY <1>1, <2>2, Constants
    <3> QED BY <1>4, <1>5, <1>6, <2>2, <3>1, PointerIs
  <2> QED BY <2>1, <2>2
<1>8. Sound(y)
  <2>1. Based(y)
    BY <1>4, <1>5, <1>6 DEF Sound, Based
  <2>2. ASSUME NEW c \in y.free \ d.free PROVE \A j \in Inode, k \in Slot : Pointer(y, j, k) # c
    <3>1. c = b /\ b # 0
      BY <1>4, <1>5, <2>2
    <3>2. \A j \in Inode, k \in Slot : Pointer(d, j, k) = b => j = i /\ k = n
      BY <1>1, <1>2, <3>1 DEF Sound
    <3> QED BY <1>7, <3>1, <3>2
  <2>3. Repoints(d, y, i, n, 0)
    BY <1>7, <2>2 DEF Repoints
  <2> QED BY <1>1, <2>1, <2>3, SoundKept
<1> QED BY <1>4, <1>5, <1>6, <1>7, <1>8, Zenon DEF y, x, b

\* A word of the indirect block is cleared and its block freed.  Without an
\* indirect block this clears a word of block 0, which is zero.
LEMMA DropWordSound ==
    ASSUME NEW d, Sound(d), NEW i \in Inode, NEW n \in 0..NINDIRECT-1
    PROVE  LET y == DropWord(d, Ind(d, i), n) IN
           /\ Sound(y)
           /\ \A j \in Inode, k \in Slot :
                 Pointer(y, j, k) = IF j = i /\ k = NDIRECT + 3 + n THEN 0 ELSE Pointer(d, j, k)
           /\ y.inode = d.inode
           /\ \A c \in Block : c # Ind(d, i) => y.block[c] = d.block[c]
           /\ d.free \subseteq y.free
<1> DEFINE b == d.block[Ind(d, i)][n]
           x == free_block(d, b)
           y == SetWord(x, Ind(d, i), n, 0)
<1>0. NDIRECT + 3 + n \in Slot /\ Pointer(d, i, NDIRECT + 3 + n) = b
  BY PointerIs
<1>1. d \in Disk /\ (b = 0 \/ b \in DataBlock) /\ Ind(d, i) \in Block
  BY <1>0, SoundParts
<1> HIDE DEF b
<1>2. x \in Disk /\ x.inode = d.inode /\ x.block = d.block /\ (b = 0 => x = d)
      /\ (b # 0 => x.free = d.free \cup {b})
  BY <1>1, FreeIs
<1> HIDE DEF x
<1>3. /\ y \in Disk /\ y.free = x.free /\ y.inode = x.inode
      /\ \A c \in Block : c # Ind(d, i) => y.block[c] = x.block[c]
      /\ \A l \in 0..NINDIRECT-1 :
            y.block[Ind(d, i)][l] = IF l = n THEN 0 ELSE x.block[Ind(d, i)][l]
  BY SMTT(30), <1>1, <1>2, SetWordIs
<1> HIDE DEF y
<1>4. \A j \in Inode : Ind(y, j) = Ind(d, j) /\ Ind(d, j) \in Block
  BY <1>2, <1>3, SoundParts DEF Ind
<1>5. y.block[0] = ZeroBlock
  <2>1. CASE Ind(d, i) # 0
    BY <1>2, <1>3, <2>1, SoundParts DEF Sound
  <2>2. CASE Ind(d, i) = 0
    <3>1. \A l \in 0..NINDIRECT-1 : y.block[0][l] = 0
      BY <1>2, <1>3, <2>2, SoundParts
    <3>2. y.block[0] \in [0..NINDIRECT-1 -> Nat]
      BY <1>3, DiskParts, SoundParts
    <3> QED BY <3>1, <3>2 DEF ZeroBlock
  <2> QED BY <2>1, <2>2
<1>6. ASSUME NEW j \in Inode, NEW k \in Slot
      PROVE  Pointer(y, j, k) = IF j = i /\ k = NDIRECT + 3 + n THEN 0 ELSE Pointer(d, j, k)
  <2>0. k \in Nat /\ NDIRECT \in Nat /\ n \in Nat
    BY Constants DEF Slot
  <2>1. CASE k <= NDIRECT + 2
    <3>1. k \in 1..NDIRECT+2 /\ k # NDIRECT + 3 + n
      BY <2>0, <2>1 DEF Slot
    <3>2. Pointer(y, j, k) = y.inode[j].w[k] /\ Pointer(d, j, k) = d.inode[j].w[k]
      BY <3>1, PointerIs
    <3> QED BY <1>2, <1>3, <3>1, <3>2
  <2>2. CASE ~(k <= NDIRECT + 2)
    <3> DEFINE l == k - NDIRECT - 3
    <3>1. l \in 0..NINDIRECT-1 /\ Pointer(y, j, k) = y.block[Ind(y, j)][l]
          /\ Pointer(d, j, k) = d.block[Ind(d, j)][l] /\ (l = n <=> k = NDIRECT + 3 + n)
      BY <2>0, <2>2, PointerIs
    <3> HIDE DEF l
    <3>2. CASE Ind(d, j) # Ind(d, i)
      BY <1>2, <1>3, <1>4, <3>1, <3>2
    <3>3. CASE Ind(d, j) = Ind(d, i) /\ Ind(d, i) # 0
      <4>1. j = i
        BY <3>3, SoundParts
      <4> QED BY <1>2, <1>3, <1>4, <3>1, <4>1
    <3>4. CASE Ind(d, j) = 0
      <4>1. y.block[0][l] = 0 /\ d.block[0][l] = 0
        BY <1>5, <3>1, SoundParts DEF ZeroBlock
      <4> QED BY <1>4, <3>1, <3>4, <4>1
    <3> QED BY <3>2, <3>3, <3>4
  <2> QED BY <2>1, <2>2
<1>7. Sound(y)
  <2>1. Based(y)
    BY <1>2, <1>3, <1>5 DEF Sound, Based
  <2>2. ASSUME NEW c \in y.free \ d.free PROVE \A j \in Inode, k \in Slot : Pointer(y, j, k) # c
    <3>1. c = b /\ b # 0
      BY <1>2, <1>3, <2>2
    <3>2. \A j \in Inode, k \in Slot : Pointer(d, j, k) = b => j = i /\ k = NDIRECT + 3 + n
      BY <1>0, <3>1 DEF Sound
    <3> QED BY <1>6, <3>1, <3>2
  <2>3. Repoints(d, y, i, NDIRECT + 3 + n, 0)
    BY <1>6, <2>2 DEF Repoints
  <2> QED BY <1>0, <2>1, <2>3, SoundKept
<1>8. y = DropWord(d, Ind(d, i), n)
  BY DEF y, x, b, DropWord
<1>9. d.free \subseteq y.free
  BY <1>2, <1>3
<1>10. y.inode = d.inode /\ \A c \in Block : c # Ind(d, i) => y.block[c] = d.block[c]
  BY <1>2, <1>3
<1> QED BY <1>6, <1>7, <1>8, <1>9, <1>10

-----------------------------------------------------------------------------
(* add_block() and remove_block().                                          *)

LEMMA MinIs ==
    ASSUME NEW T \in SUBSET Nat, T # {}
    PROVE  Min(T) \in T /\ \A n \in T : Min(T) <= n
  BY LeastNat DEF Min

LEMMA AllocateIs ==
    ASSUME NEW d, Sound(d)
    PROVE  allocate_block(d) = 0 \/ allocate_block(d) \in d.free
<1> DEFINE T == {b \in d.free : b >= 2}
<1>1. T \in SUBSET Nat
  BY SoundParts, DiskParts
<1>2. T # {} => Min(T) \in T
  <2> HIDE DEF T
  <2> QED BY <1>1, MinIs
<1> QED BY <1>2 DEF allocate_block

\* Of the inodes only i differs, and there only pointers and size.
OnlyFile(d, y, i) ==
    /\ \A j \in Inode : j # i => y.inode[j] = d.inode[j]
    /\ y.inode[i].ftype = d.inode[i].ftype
    /\ y.inode[i].nlink = d.inode[i].nlink
    /\ y.inode[i].w[0] = d.inode[i].w[0]

\* What removing the block of index n does to the pointers of file i.
Trimmed(d, y, i, n) ==
    /\ Sound(y) /\ OnlyFile(d, y, i)
    /\ y.inode[i].size = d.inode[i].size
    /\ \A c \in Block : c # Ind(d, i) => y.block[c] = d.block[c]
    /\ \A b \in 0..n-1 : Pointer(y, i, SlotOf(b)) = Pointer(d, i, SlotOf(b))
    /\ Ind(y, i) = 0 \/ Ind(y, i) = Ind(d, i)

LEMMA SlotOfIs ==
    ASSUME NEW b \in 0..(NDIRECT + NINDIRECT - 1)
    PROVE  /\ SlotOf(b) \in Slot /\ SlotOf(b) # IndirectAt
           /\ b < NDIRECT => SlotOf(b) = DirectAt(b) /\ SlotOf(b) \in 1..NDIRECT
           /\ ~(b < NDIRECT) => /\ SlotOf(b) = NDIRECT + 3 + (b - NDIRECT)
                                /\ b - NDIRECT \in 0..NINDIRECT-1
                                /\ SlotOf(b) > NDIRECT + 2
           /\ \A c \in 0..(NDIRECT + NINDIRECT - 1) : SlotOf(c) = SlotOf(b) => c = b
  BY Constants DEF SlotOf, Slot, IndirectAt, DirectAt

\* Clearing a word of block 0 changes nothing.
LEMMA ZeroWord ==
    ASSUME NEW d, Sound(d), NEW k \in 0..NINDIRECT-1
    PROVE  LET y == SetWord(d, 0, k, 0) IN
           y \in Disk /\ y.free = d.free /\ y.inode = d.inode /\ y.block = d.block
<1> DEFINE y == SetWord(d, 0, k, 0)
<1>1. d \in Disk /\ 0 \in Block /\ 0 \in Nat
  BY SoundParts
<1>2. /\ y \in Disk /\ y.free = d.free /\ y.inode = d.inode
      /\ \A c \in Block : c # 0 => y.block[c] = d.block[c]
      /\ \A l \in 0..NINDIRECT-1 : y.block[0][l] = IF l = k THEN 0 ELSE d.block[0][l]
  BY <1>1, SetWordIs
<1> HIDE DEF y
<1>3. \A l \in 0..NINDIRECT-1 : y.block[0][l] = d.block[0][l]
  BY <1>2, SoundParts
<1>4. y.block[0] = d.block[0]
  <2>1. y.block[0] \in [0..NINDIRECT-1 -> Nat] /\ \A l \in 0..NINDIRECT-1 : y.block[0][l] = 0
    BY <1>1, <1>2, <1>3, DiskParts, SoundParts
  <2>2. y.block[0] = ZeroBlock
    BY <2>1 DEF ZeroBlock
  <2> QED BY <2>2 DEF Sound
<1>5. y.block = d.block
  <2>1. y.block \in [Block -> [0..NINDIRECT-1 -> Nat]] /\ d.block \in [Block -> [0..NINDIRECT-1 -> Nat]]
    BY <1>1, <1>2, DiskParts
  <2>2. \A c \in Block : y.block[c] = d.block[c]
    BY <1>2, <1>4
  <2> QED BY <2>1, <2>2
<1> QED BY <1>2, <1>5 DEF y

LEMMA CutDirect ==
    ASSUME NEW d, Sound(d), NEW i \in Inode, NEW n \in 0..NDIRECT-1
    PROVE  Trimmed(d, SetField(free_block(d, d.inode[i].w[DirectAt(n)]), i, DirectAt(n), 0), i, n)
<1> DEFINE y == SetField(free_block(d, d.inode[i].w[DirectAt(n)]), i, DirectAt(n), 0)
<1>1. DirectAt(n) \in 1..NDIRECT
  BY Constants DEF DirectAt
<1>2. /\ Sound(y)
      /\ \A j \in Inode, k \in Slot :
            Pointer(y, j, k) = IF j = i /\ k = DirectAt(n) THEN 0 ELSE Pointer(d, j, k)
      /\ y.block = d.block
      /\ \A j \in Inode : /\ j # i => y.inode[j] = d.inode[j]
                          /\ y.inode[j].size = d.inode[j].size
                          /\ y.inode[j].ftype = d.inode[j].ftype
                          /\ y.inode[j].nlink = d.inode[j].nlink
                          /\ y.inode[j].w[0] = d.inode[j].w[0]
                          /\ Ind(y, j) = Ind(d, j)
  <2> DEFINE m == DirectAt(n)
  <2> HIDE DEF m
  <2>1. m \in 1..NDIRECT
    BY <1>1 DEF m
  <2> QED BY <2>1, DropFieldSound DEF m
<1> HIDE DEF y
<1>3. ASSUME NEW b \in 0..n-1 PROVE Pointer(y, i, SlotOf(b)) = Pointer(d, i, SlotOf(b))
  <2>1. SlotOf(b) \in Slot /\ SlotOf(b) # DirectAt(n)
    BY Constants DEF SlotOf, DirectAt, Slot
  <2> QED BY <1>2, <2>1
<1> QED BY <1>2, <1>3 DEF Trimmed, OnlyFile, y

\* The last word of the indirect block goes with the indirect block.
LEMMA CutIndirect ==
    ASSUME NEW d, Sound(d), NEW i \in Inode, NEW n \in NDIRECT..(NDIRECT + NINDIRECT - 1)
    PROVE  LET d1 == DropWord(d, d.inode[i].w[IndirectAt], n - NDIRECT) IN
           /\ Trimmed(d, d1, i, n)
           /\ n = NDIRECT => Trimmed(d, SetField(d1, i, IndirectAt, 0), i, n)
<1> DEFINE m == n - NDIRECT
           d1 == DropWord(d, Ind(d, i), m)
           d2 == SetField(d1, i, IndirectAt, 0)
<1>0. m \in 0..NINDIRECT-1 /\ n \in Nat /\ NDIRECT \in Nat /\ m \in Nat /\ n = NDIRECT + m
  BY Constants
<1>1. /\ Sound(d1)
      /\ \A j \in Inode, k \in Slot :
            Pointer(d1, j, k) = IF j = i /\ k = NDIRECT + 3 + m THEN 0 ELSE Pointer(d, j, k)
      /\ d1.inode = d.inode
      /\ \A c \in Block : c # Ind(d, i) => d1.block[c] = d.block[c]
  BY <1>0, DropWordSound
<1> HIDE DEF d1, m
<1>2. ASSUME NEW b \in 0..n-1
      PROVE  SlotOf(b) \in Slot /\ Pointer(d1, i, SlotOf(b)) = Pointer(d, i, SlotOf(b))
  <2>1. SlotOf(b) \in Slot /\ SlotOf(b) # NDIRECT + 3 + m
    BY <1>0, Constants DEF SlotOf, Slot
  <2> QED BY <1>1, <2>1
<1>3. Trimmed(d, d1, i, n)
  BY <1>1, <1>2 DEF Trimmed, OnlyFile, Ind
<1>4. ASSUME n = NDIRECT PROVE Trimmed(d, d2, i, n)
  <2>1. IndirectSet(d1, d2, i, 0)
    BY <1>1, ClearIndirectSound
  <2>2. FieldSet(d1, d2, i, IndirectAt, 0)
    BY <2>1 DEF IndirectSet
  <2> HIDE DEF d2
  <2>3. ASSUME NEW b \in 0..n-1 PROVE Pointer(d2, i, SlotOf(b)) = Pointer(d, i, SlotOf(b))
    <3>1. SlotOf(b) \in Slot /\ SlotOf(b) # IndirectAt /\ ~(SlotOf(b) > NDIRECT + 2)
      BY <1>0, <1>4, Constants DEF SlotOf, Slot, IndirectAt
    <3> QED BY <1>2, <2>1, <3>1 DEF IndirectSet
  <2>4. OnlyFile(d, d2, i) /\ d2.inode[i].size = d.inode[i].size /\ d2.block = d1.block
    <3>1. 0 \in InodeWord /\ 0 # IndirectAt
      BY Constants DEF InodeWord, IndirectAt
    <3> QED BY <1>1, <2>2, <3>1 DEF FieldSet, OnlyFile
  <2> QED BY <1>1, <2>1, <2>3, <2>4 DEF Trimmed, IndirectSet
<1> QED BY <1>3, <1>4 DEF d1, d2, m, Ind

\* The doubly indirect block is not there: block 0 stands for it.
LEMMA CutIndirect2 ==
    ASSUME NEW d, Sound(d), NEW i \in Inode, NEW n \in Nat
    PROVE  Trimmed(d, SetField(SetWord(DropWord(d, 0, 0), 0, 0, 0), i, Indirect2At, 0), i, n)
<1> DEFINE d1 == DropWord(d, 0, 0)
           d2 == SetWord(d1, 0, 0, 0)
           d3 == SetField(d2, i, Indirect2At, 0)
<1>0. 0 \in 0..NINDIRECT-1 /\ 0 \in Nat /\ Indirect2At \in InodeWord
      /\ Indirect2At # 0 /\ 0 \in InodeWord /\ \A k \in 1..NDIRECT+2 : k \in InodeWord
  BY Constants DEF InodeWord, Indirect2At
<1>1. d \in Disk /\ d.block[0][0] = 0
  BY <1>0, SoundParts
<1>2. free_block(d, d.block[0][0]) = d
  BY <1>1, FreeIs
<1>3. d1 = SetWord(d, 0, 0, 0)
  BY <1>2 DEF DropWord
<1>4. d1 \in Disk /\ d1.free = d.free /\ d1.inode = d.inode /\ d1.block = d.block
  BY <1>0, <1>3, ZeroWord
<1> HIDE DEF d1
<1>5. Sound(d1)
  BY <1>4, SameSound
<1>6. d2 \in Disk /\ d2.free = d.free /\ d2.inode = d.inode /\ d2.block = d.block
  BY <1>0, <1>4, <1>5, ZeroWord
<1> HIDE DEF d2
<1>7. FieldSet(d2, d3, i, Indirect2At, 0)
  BY <1>0, <1>6, SetFieldIs
<1> HIDE DEF d3
<1>8. /\ d3 \in Disk /\ d3.free = d.free /\ d3.block = d.block /\ OnlyFile(d, d3, i)
      /\ d3.inode[i].size = d.inode[i].size
  BY <1>0, <1>6, <1>7 DEF FieldSet, OnlyFile
<1>9. \A j \in Inode : \A k \in 1..NDIRECT+2 : d3.inode[j].w[k] = d.inode[j].w[k]
  BY <1>0, <1>6, <1>7 DEF FieldSet, Sound
<1>10. /\ Sound(d3) /\ \A b \in Slot : Pointer(d3, i, b) = Pointer(d, i, b)
       /\ Ind(d3, i) = Ind(d, i)
  BY <1>8, <1>9, SameSound
<1>11. ASSUME NEW b \in 0..n-1 PROVE Pointer(d3, i, SlotOf(b)) = Pointer(d, i, SlotOf(b))
  <2>1. Ind(d3, i) = Ind(d, i) /\ d3.block = d.block
    BY <1>8, <1>10
  <2>2. CASE SlotOf(b) <= NDIRECT + 2
    <3>1. SlotOf(b) \in 1..NDIRECT+2
      BY <2>2, Constants DEF SlotOf
    <3> QED BY <1>9, <3>1, PointerIs
  <2>3. CASE ~(SlotOf(b) <= NDIRECT + 2)
    BY <2>1, <2>3 DEF Pointer, Ind
  <2> QED BY <2>2, <2>3
<1>12. Trimmed(d, d3, i, n)
  BY <1>8, <1>10, <1>11 DEF Trimmed
<1> QED BY <1>12 DEF d3, d2, d1

\* A file of n blocks has one less.
Removed(d, y, i, n) ==
    /\ Sound(y) /\ OnlyFile(d, y, i)
    /\ y.inode[i].size = (d.inode[i].size - NINDIRECT) % Width
    /\ Blocks(y, i) = n - 1
    /\ \A c \in Block : c # Ind(d, i) => y.block[c] = d.block[c]
    /\ \A b \in 0..n-1 : Pointer(y, i, SlotOf(b)) = Pointer(d, i, SlotOf(b))
    /\ Ind(y, i) = 0 \/ Ind(y, i) = Ind(d, i)

LEMMA SizeTrimmed ==
    ASSUME NEW d, Sound(d), NEW i \in Inode, NEW n, n = Blocks(d, i), n # 0,
           NEW c, Trimmed(d, c, i, n)
    PROVE  Removed(d, [c EXCEPT !.inode[i].size = (@ - NINDIRECT) % Width], i, n)
<1> DEFINE s == (d.inode[i].size - NINDIRECT) % Width
           y == [c EXCEPT !.inode[i].size = s]
<1>1. d \in Disk /\ d.inode[i].size \in 0..Width-1
  BY SoundParts, DiskParts
<1>2. s \in 0..Width-1 /\ size2nblocks(s) = n - 1
  BY <1>1, BlocksLess DEF Blocks
<1> HIDE DEF s
<1>3. Sound(c) /\ c \in Disk /\ c.inode[i].size = d.inode[i].size
  BY SoundParts DEF Trimmed
<1>4. /\ y \in Disk /\ y.free = c.free /\ y.block = c.block
      /\ y.inode[i].size = s
      /\ \A j \in Inode : /\ j # i => y.inode[j] = c.inode[j]
                          /\ y.inode[j].ftype = c.inode[j].ftype
                          /\ y.inode[j].nlink = c.inode[j].nlink
                          /\ y.inode[j].w = c.inode[j].w
  BY <1>2, <1>3, SizedIs
<1>5. y = [c EXCEPT !.inode[i].size = (@ - NINDIRECT) % Width]
  BY <1>3 DEF s
<1> HIDE DEF y
<1>6. Sound(y) /\ Ind(y, i) = Ind(c, i)
  BY <1>3, <1>4, SameSound
<1>7. \A k : Pointer(y, i, k) = Pointer(c, i, k)
  BY <1>4 DEF Pointer
<1>8. OnlyFile(d, y, i)
  BY <1>4 DEF OnlyFile, Trimmed
<1>9. Removed(d, y, i, n)
  BY <1>2, <1>4, <1>6, <1>7, <1>8 DEF Removed, Trimmed, Blocks, s
<1> QED BY <1>5, <1>9

LEMMA RemoveStep ==
    ASSUME NEW d, Sound(d), NEW i \in Inode, Blocks(d, i) \in 1..(NDIRECT + NINDIRECT)
    PROVE  Removed(d, remove_block(d, i), i, Blocks(d, i))
<1> DEFINE n == Blocks(d, i)
           w == d.inode[i].w
           d1 == DropWord(d, w[IndirectAt], n - NDIRECT)
           c == IF n = NDIRECT + NINDIRECT
                THEN SetField(SetWord(DropWord(d, 0, 0), 0, 0, 0), i, Indirect2At, 0)
                ELSE IF n < NDIRECT
                THEN SetField(free_block(d, w[DirectAt(n)]), i, DirectAt(n), 0)
                ELSE IF n # NDIRECT THEN d1 ELSE SetField(d1, i, IndirectAt, 0)
<1>0. NDIRECT \in Nat /\ NINDIRECT \in Nat \ {0} /\ n \in Nat /\ n # 0 /\ n \in 0..(NDIRECT + NINDIRECT)
  BY Constants
<1>1. w[Indirect2At] = 0 /\ d.block[0][0] = 0
  <2>1. 0 \in 0..NINDIRECT-1
    BY <1>0
  <2>2. d.block[0] = ZeroBlock /\ w[Indirect2At] = 0
    BY Zenon DEF Sound
  <2> QED BY <2>1, <2>2 DEF ZeroBlock
<1>2. remove_block(d, i) = [c EXCEPT !.inode[i].size = (@ - NINDIRECT) % Width]
  <2>1. CASE n = NDIRECT + NINDIRECT
    <3>1. direct_index(n) = 0 /\ indir_index(n) = 0 /\ indir2_index(n) = 0
      BY <1>0, <2>1, Indexes
    <3> QED BY <1>1, <2>1, <3>1 DEF remove_block, Blocks
  <2>2. CASE n < NDIRECT
    <3>1. direct_index(n) = n /\ indir_index(n) = -1 /\ indir2_index(n) = -1
      BY <1>0, <2>2, Indexes
    <3>2. n # NDIRECT + NINDIRECT /\ -1 # 0
      <4> HIDE DEF n
      <4> QED BY <1>0, <2>2
    <3> QED BY <2>2, <3>1, <3>2 DEF remove_block, Blocks
  <2>3. CASE ~(n < NDIRECT) /\ n # NDIRECT + NINDIRECT
    <3>1. direct_index(n) = n - NDIRECT /\ indir_index(n) = 0 /\ indir2_index(n) = -1
      BY <1>0, <2>3, Indexes
    <3>2. -1 # 0 /\ (n - NDIRECT # 0 <=> n # NDIRECT)
      BY <1>0
    <3> QED BY <2>3, <3>1, <3>2, Zenon DEF remove_block, Blocks
  <2> QED BY <2>1, <2>2, <2>3, Zenon
<1>3. Trimmed(d, c, i, n)
  <2> HIDE DEF n
  <2>1. CASE n = NDIRECT + NINDIRECT
    BY <1>0, <2>1, CutIndirect2
  <2>2. CASE n < NDIRECT
    <3>1. n \in 0..NDIRECT-1 /\ n # NDIRECT + NINDIRECT
      BY <1>0, <2>2
    <3> QED BY <2>2, <3>1, CutDirect
  <2>3. CASE ~(n < NDIRECT) /\ n # NDIRECT + NINDIRECT
    <3>1. n \in NDIRECT..(NDIRECT + NINDIRECT - 1)
      BY <1>0, <2>3
    <3>2. Trimmed(d, d1, i, n) /\ (n = NDIRECT => Trimmed(d, SetField(d1, i, IndirectAt, 0), i, n))
      BY <3>1, CutIndirect
    <3> QED BY <2>3, <3>2
  <2> QED BY <2>1, <2>2, <2>3
<1> HIDE DEF c
<1>4. Removed(d, [c EXCEPT !.inode[i].size = (@ - NINDIRECT) % Width], i, n)
  BY <1>0, <1>3, SizeTrimmed
<1> QED BY <1>2, <1>4

\* Of the blocks in use only the indirect block of file i is written to.
Spares(d, y, i) ==
    /\ Sound(y) /\ OnlyFile(d, y, i)
    /\ \A c \in Block \ d.free : c # Ind(d, i) => y.block[c] = d.block[c]
    /\ Ind(y, i) \in {0, Ind(d, i)} \cup d.free

\* Block new, taken from the free ones and erased, has become block n of file i,
\* but the size is not set yet; the file has one more block; no block was added.
Entered(d, y, i, n, new) ==
    /\ Spares(d, y, i) /\ y.free \subseteq d.free
    /\ y.inode[i].size = d.inode[i].size
    /\ \A b \in 0..n-1 : Pointer(y, i, SlotOf(b)) = Pointer(d, i, SlotOf(b))
    /\ new \in d.free /\ Pointer(y, i, SlotOf(n)) = new /\ y.block[new] = ZeroBlock

Grew(d, y, i, n) ==
    /\ Spares(d, y, i) /\ y.free \subseteq d.free
    /\ y.inode[i].size = d.inode[i].size + NINDIRECT /\ y.inode[i].size <= LIMIT
    /\ Blocks(y, i) = n + 1
    /\ \A b \in 0..n-1 : Pointer(y, i, SlotOf(b)) = Pointer(d, i, SlotOf(b))
    /\ \E new \in d.free : Pointer(y, i, SlotOf(n)) = new /\ y.block[new] = ZeroBlock

Stuck(d, y, i, n) ==
    /\ Spares(d, y, i) /\ y.free \subseteq d.free
    /\ y.inode[i].size = d.inode[i].size
    /\ \A b \in 0..n-1 : Pointer(y, i, SlotOf(b)) = Pointer(d, i, SlotOf(b))

LEMMA SizeGrown ==
    ASSUME NEW d, Sound(d), NEW i \in Inode, NEW n, n = Blocks(d, i), n < NDIRECT + NINDIRECT,
           d.inode[i].size <= LIMIT, NEW c, NEW new, Entered(d, c, i, n, new)
    PROVE  Grew(d, Grown(c, i), i, n)
<1> DEFINE s == d.inode[i].size + NINDIRECT
           y == [c EXCEPT !.inode[i].size = s]
<1>1. d \in Disk /\ d.inode[i].size \in Nat
  BY SoundParts, DiskParts
<1>2. s \in 0..Width-1 /\ size2nblocks(s) = n + 1 /\ s <= LIMIT
      /\ (d.inode[i].size + NINDIRECT) % Width = s
  BY <1>1, BlocksMore, Constants DEF Blocks
<1>3. Sound(c) /\ c \in Disk /\ c.inode[i].size = d.inode[i].size
  BY SoundParts DEF Entered, Spares
<1>5. y = Grown(c, i)
  BY <1>2, <1>3 DEF Grown
<1> HIDE DEF s
<1>4. /\ y \in Disk /\ y.free = c.free /\ y.block = c.block
      /\ y.inode[i].size = s
      /\ \A j \in Inode : /\ j # i => y.inode[j] = c.inode[j]
                          /\ y.inode[j].ftype = c.inode[j].ftype
                          /\ y.inode[j].nlink = c.inode[j].nlink
                          /\ y.inode[j].w = c.inode[j].w
  BY <1>2, <1>3, SizedIs
<1> HIDE DEF y
<1>6. Sound(y) /\ Ind(y, i) = Ind(c, i)
  BY <1>3, <1>4, SameSound
<1>7. \A k : Pointer(y, i, k) = Pointer(c, i, k)
  BY <1>4 DEF Pointer
<1>8. OnlyFile(d, y, i) /\ Spares(d, y, i)
  BY <1>4, <1>6 DEF OnlyFile, Entered, Spares
<1>9. Grew(d, y, i, n)
  BY <1>2, <1>4, <1>7, <1>8 DEF Grew, Entered, Blocks, s
<1> QED BY <1>5, <1>9

LEMMA TakenIs ==
    ASSUME NEW d, Sound(d), NEW i \in Inode, NEW new \in d.free, NEW d0, d0 = Take(d, new)
    PROVE  /\ Sound(d0) /\ Fresh(d0, new) /\ d0.block[new] = ZeroBlock /\ new # 0
           /\ \A j \in Inode, k \in Slot : Pointer(d0, j, k) = Pointer(d, j, k)
           /\ d0.inode = d.inode /\ d0.free = d.free \ {new}
           /\ \A c \in Block : c # new => d0.block[c] = d.block[c]
<1>1. d \in Disk /\ new \in Block /\ new # 0
  BY SoundParts, DiskParts
<1> QED BY <1>1, TakeIs, TakeSound

LEMMA EnterDirect ==
    ASSUME NEW d, Sound(d), NEW i \in Inode, NEW n \in 0..NDIRECT-1, NEW new \in d.free
    PROVE  Entered(d, SetField(Take(d, new), i, DirectAt(n), new), i, n, new)
<1> DEFINE d0 == Take(d, new)
           m == DirectAt(n)
           y == SetField(d0, i, m, new)
<1>1. /\ Sound(d0) /\ Fresh(d0, new) /\ d0.block[new] = ZeroBlock
      /\ \A j \in Inode, k \in Slot : Pointer(d0, j, k) = Pointer(d, j, k)
      /\ d0.inode = d.inode /\ d0.free = d.free \ {new}
      /\ \A c \in Block : c # new => d0.block[c] = d.block[c]
  BY TakenIs
<1> HIDE DEF d0
<1>2. m \in 1..NDIRECT /\ m \in InodeWord /\ m # 0 /\ 0 \in InodeWord /\ n \in Nat /\ NDIRECT \in Nat
      /\ SlotOf(n) = m /\ m \in Slot
  BY Constants DEF DirectAt, InodeWord, SlotOf, Slot
<1>3. \A b \in 0..n-1 : SlotOf(b) # m /\ SlotOf(b) \in Slot
  BY <1>2, Constants DEF SlotOf, DirectAt, Slot
<1> HIDE DEF m
<1>4. /\ Sound(y)
      /\ \A j \in Inode, k \in Slot :
            Pointer(y, j, k) = IF j = i /\ k = m THEN new ELSE Pointer(d0, j, k)
      /\ \A j \in Inode : Ind(y, j) = Ind(d0, j)
  BY <1>1, <1>2, SetDirectSound
<1>5. FieldSet(d0, y, i, m, new)
  <2>1. d0 \in Disk /\ new \in Nat
    BY <1>1, SoundParts DEF Fresh
  <2> QED BY <1>2, <2>1, SetFieldIs
<1> HIDE DEF y
<1>6. OnlyFile(d, y, i) /\ y.inode[i].size = d.inode[i].size /\ y.block = d0.block /\ y.free = d0.free
  BY <1>1, <1>2, <1>5 DEF FieldSet, OnlyFile
<1>7. Spares(d, y, i)
  <2>1. Ind(y, i) = Ind(d, i)
    BY <1>1, <1>4 DEF Ind
  <2> QED BY <1>1, <1>4, <1>6, <2>1 DEF Spares
<1>8. Entered(d, y, i, n, new)
  BY <1>1, <1>2, <1>3, <1>4, <1>6, <1>7 DEF Entered
<1> QED BY <1>8 DEF y, d0, m

LEMMA EnterIndirect ==
    ASSUME NEW d, Sound(d), NEW i \in Inode, NEW n \in NDIRECT..(NDIRECT + NINDIRECT - 1),
           NEW new \in d.free, NEW x, Sound(x), Fresh(x, new), x.block[new] = ZeroBlock,
           Ind(x, i) # 0, Spares(d, x, i), x.free \subseteq d.free,
           x.inode[i].size = d.inode[i].size,
           \A b \in 0..n-1 : Pointer(x, i, SlotOf(b)) = Pointer(d, i, SlotOf(b))
    PROVE  Entered(d, SetWord(x, Ind(x, i), n - NDIRECT, new), i, n, new)
<1> DEFINE m == n - NDIRECT
           y == SetWord(x, Ind(x, i), m, new)
<1>1. m \in 0..NINDIRECT-1 /\ n \in Nat /\ NDIRECT \in Nat /\ SlotOf(n) = NDIRECT + 3 + m
      /\ NDIRECT + 3 + m \in Slot /\ \A b \in 0..n-1 : SlotOf(b) \in Slot /\ SlotOf(b) # NDIRECT + 3 + m
  BY Constants DEF SlotOf, Slot
<1> HIDE DEF m
<1>2. /\ Sound(y)
      /\ \A j \in Inode, k \in Slot :
            Pointer(y, j, k) = IF j = i /\ k = NDIRECT + 3 + m THEN new ELSE Pointer(x, j, k)
  BY <1>1, SetIndWordSound
<1>3. x \in Disk /\ new \in Nat /\ Ind(x, i) \in Block /\ new # Ind(x, i) /\ new \in Block
  <2>1. new # Ind(x, i)
    BY PointerIs DEF Fresh
  <2> QED BY <2>1, SoundParts DEF Fresh
<1>4. /\ y \in Disk /\ y.free = x.free /\ y.inode = x.inode
      /\ \A c \in Block : c # Ind(x, i) => y.block[c] = x.block[c]
  <2>1. PICK e \in Block : e = Ind(x, i)
    BY <1>3
  <2>2. m \in 0..NINDIRECT-1
    BY <1>1
  <2> DEFINE z == SetWord(x, e, m, new)
  <2>3. /\ z \in Disk /\ z.free = x.free /\ z.inode = x.inode
        /\ \A c \in Block : c # e => z.block[c] = x.block[c]
    BY ONLY <1>3, <2>1, <2>2, SetWordIs
  <2> QED BY <2>1, <2>3
<1> HIDE DEF y
<1>5. OnlyFile(d, y, i) /\ Ind(y, i) = Ind(x, i)
  BY <1>4 DEF OnlyFile, Spares, Ind
<1>6. Spares(d, y, i)
  <2>1. ASSUME NEW c \in Block \ d.free, c # Ind(d, i) PROVE y.block[c] = d.block[c]
    <3>1. CASE c # Ind(x, i)
      BY <1>4, <2>1, <3>1 DEF Spares
    <3>2. CASE c = Ind(x, i)
      BY <2>1, <3>2 DEF Spares
    <3> QED BY <3>1, <3>2
  <2> QED BY <1>2, <1>5, <2>1 DEF Spares
<1>7. y.block[new] = ZeroBlock /\ y.free \subseteq d.free /\ y.inode[i].size = d.inode[i].size
  BY <1>3, <1>4
<1>8. Pointer(y, i, SlotOf(n)) = new
      /\ \A b \in 0..n-1 : Pointer(y, i, SlotOf(b)) = Pointer(d, i, SlotOf(b))
  BY <1>1, <1>2
<1>9. Entered(d, y, i, n, new)
  BY <1>6, <1>7, <1>8 DEF Entered
<1> QED BY <1>9 DEF y, m

AddResult(d, a, i, n) ==
    \/ a.ret = "ok" /\ Grew(d, a.disk, i, n)
    \/ a.ret = "ENOSPC" /\ Stuck(d, a.disk, i, n)

\* The block that was taken first is given back when there is none for the
\* indirect block.
LEMMA AddIndirectStep ==
    ASSUME NEW d, Sound(d), NEW i \in Inode, NEW n \in NDIRECT..(NDIRECT + NINDIRECT - 1),
           n = Blocks(d, i), d.inode[i].size <= LIMIT, NEW new \in d.free
    PROVE  AddResult(d, add_indirect(Take(d, new), i, n, new), i, n)
<1> DEFINE d0 == Take(d, new)
           old == Ind(d0, i)
           a == add_indirect(d0, i, n, new)
<1>0. n \in Nat /\ n < NDIRECT + NINDIRECT /\ direct_index(n) = n - NDIRECT
      /\ \A b \in 0..n-1 : SlotOf(b) \in Slot /\ SlotOf(b) # IndirectAt
  <2>1. n \in Nat /\ n \in 0..(NDIRECT + NINDIRECT) /\ n < NDIRECT + NINDIRECT /\ n >= NDIRECT
    BY Constants
  <2>2. \A b \in 0..n-1 : SlotOf(b) \in Slot /\ SlotOf(b) # IndirectAt
    BY Constants DEF SlotOf, Slot, IndirectAt
  <2> QED BY <2>1, <2>2, Indexes
<1>1. /\ Sound(d0) /\ Fresh(d0, new) /\ d0.block[new] = ZeroBlock /\ new # 0
      /\ \A j \in Inode, k \in Slot : Pointer(d0, j, k) = Pointer(d, j, k)
      /\ d0.inode = d.inode /\ d0.free = d.free \ {new}
      /\ \A c \in Block : c # new => d0.block[c] = d.block[c]
  BY TakenIs
<1>2. old = d0.inode[i].w[IndirectAt]
  BY DEF Ind
<1> HIDE DEF d0
<1>3. Spares(d, d0, i) /\ Ind(d0, i) = Ind(d, i)
  BY <1>1 DEF Spares, OnlyFile, Ind
<1>4. CASE old # 0
  <2>1. a = Done(Grown(SetWord(d0, old, n - NDIRECT, new), i))
    BY <1>0, <1>2, <1>4 DEF add_indirect
  <2>2. Entered(d, SetWord(d0, Ind(d0, i), n - NDIRECT, new), i, n, new)
    <3>1. \A b \in 0..n-1 : Pointer(d0, i, SlotOf(b)) = Pointer(d, i, SlotOf(b))
      BY <1>0, <1>1
    <3>2. d0.free \subseteq d.free /\ d0.inode[i].size = d.inode[i].size
      BY <1>1
    <3> QED BY <1>1, <1>3, <1>4, <3>1, <3>2, EnterIndirect
  <2>3. Grew(d, Grown(SetWord(d0, old, n - NDIRECT, new), i), i, n)
    BY <1>0, <2>2, SizeGrown
  <2> QED BY <2>1, <2>3 DEF Done, AddResult, d0
<1>5. CASE old = 0
  <2> DEFINE indir == allocate_block(d0)
  <2>1. CASE indir = 0
    <3>1. a = NoSpace(free_block(d0, new))
      BY <1>2, <1>5, <2>1 DEF add_indirect
    <3> DEFINE y == free_block(d0, new)
    <3>2. Sound(y) /\ \A j \in Inode, k \in Slot : Pointer(y, j, k) = Pointer(d0, j, k)
      BY <1>1, FreeSound
    <3>3. y.inode = d0.inode /\ y.block = d0.block /\ y.free = d0.free \cup {new}
      <4>1. d0 \in Disk /\ new \in DataBlock
        BY <1>1, SoundParts DEF Fresh
      <4> QED BY <1>1, <4>1, FreeIs
    <3> HIDE DEF y
    <3>4. Stuck(d, y, i, n)
      BY <1>0, <1>1, <1>3, <3>2, <3>3 DEF Stuck, Spares, OnlyFile, Ind
    <3> QED BY <3>1, <3>4 DEF NoSpace, AddResult, y, d0
  <2>2. CASE indir # 0
    <3> DEFINE t == Take(d0, indir)
               d1 == SetField(t, i, IndirectAt, indir)
    <3>1. a = Done(Grown(SetWord(d1, indir, n - NDIRECT, new), i))
      BY <1>0, <1>2, <1>5, <2>2 DEF add_indirect
    <3>2. indir \in d0.free
      BY <1>1, <2>2, AllocateIs
    <3> HIDE DEF indir
    <3>3. /\ Sound(t) /\ Fresh(t, indir) /\ t.block[indir] = ZeroBlock
          /\ \A j \in Inode, k \in Slot : Pointer(t, j, k) = Pointer(d0, j, k)
          /\ t.inode = d0.inode /\ t.free = d0.free \ {indir}
          /\ \A c \in Block : c # indir => t.block[c] = d0.block[c]
      BY <1>1, <3>2, TakenIs
    <3> HIDE DEF t
    <3>4. IndirectSet(t, d1, i, indir)
      BY <3>3, SetIndirectSound
    <3> HIDE DEF d1
    <3>5. FieldSet(t, d1, i, IndirectAt, indir) /\ Sound(d1) /\ Ind(d1, i) = indir
      BY <3>4 DEF IndirectSet
    <3>6. new # indir /\ new \in Block /\ new \in DataBlock
      BY <1>1, <3>2, SoundParts DEF Fresh
    <3>7. d1.free = t.free /\ d1.block = t.block /\ OnlyFile(d, d1, i)
          /\ d1.inode[i].size = d.inode[i].size
      <4>1. 0 \in InodeWord /\ 0 # IndirectAt
        BY Constants DEF InodeWord, IndirectAt
      <4> QED BY <1>1, <3>3, <3>5, <4>1 DEF FieldSet, OnlyFile
    <3>8. \A j \in Inode, k \in Slot : Pointer(d1, j, k) \in {0, indir, Pointer(d, j, k)}
      BY <1>1, <3>3, <3>4 DEF IndirectSet
    <3>9. Fresh(d1, new)
      <4>1. \A j \in Inode, k \in Slot : Pointer(d, j, k) # new
        BY <1>1 DEF Fresh
      <4>2. new \notin d1.free
        BY <1>1, <3>3, <3>7
      <4>3. \A j \in Inode, k \in Slot : Pointer(d1, j, k) # new
        BY <1>1, <3>6, <3>8, <4>1
      <4> QED BY <3>6, <4>2, <4>3 DEF Fresh
    <3>10. ASSUME NEW b \in 0..n-1 PROVE Pointer(d1, i, SlotOf(b)) = Pointer(d, i, SlotOf(b))
      <4>1. SlotOf(b) \in Slot /\ SlotOf(b) # IndirectAt
        BY <1>0
      <4>2. CASE SlotOf(b) > NDIRECT + 2
        <5>1. Pointer(d1, i, SlotOf(b)) = 0
          BY <3>4, <4>1, <4>2 DEF IndirectSet
        <5>2. ~(SlotOf(b) <= NDIRECT + 2)
          BY <4>1, <4>2, Constants DEF Slot
        <5>3. SlotOf(b) - NDIRECT - 3 \in 0..NINDIRECT-1
              /\ Pointer(d, i, SlotOf(b)) = d.block[Ind(d, i)][SlotOf(b) - NDIRECT - 3]
          BY <4>1, <5>2, PointerIs
        <5>4. Pointer(d, i, SlotOf(b)) = 0
          BY <1>3, <1>5, <5>3, SoundParts
        <5> QED BY <5>1, <5>4
      <4>3. CASE ~(SlotOf(b) > NDIRECT + 2)
        BY <1>1, <3>3, <3>4, <4>1, <4>3 DEF IndirectSet
      <4> QED BY <4>2, <4>3
    <3>11. Spares(d, d1, i) /\ d1.free \subseteq d.free /\ d1.block[new] = ZeroBlock
      <4>1. d1.free \subseteq d.free /\ indir \in d.free
        BY <1>1, <3>2, <3>3, <3>7
      <4>2. \A c \in Block \ d.free : d1.block[c] = d.block[c]
        BY <1>1, <3>3, <3>7, <4>1
      <4>3. d1.block[new] = ZeroBlock
        BY <1>1, <3>3, <3>6, <3>7
      <4> QED BY <3>5, <3>7, <4>1, <4>2, <4>3 DEF Spares
    <3>12. Ind(d1, i) # 0
      BY <2>2, <3>5
    <3>13. Entered(d, SetWord(d1, Ind(d1, i), n - NDIRECT, new), i, n, new)
      BY <1>1, <3>5, <3>7, <3>9, <3>10, <3>11, <3>12, EnterIndirect
    <3>14. Grew(d, Grown(SetWord(d1, indir, n - NDIRECT, new), i), i, n)
      BY <1>0, <3>5, <3>13, SizeGrown
    <3> QED BY <3>1, <3>14 DEF Done, AddResult, d0
  <2> QED BY <2>1, <2>2
<1> QED BY <1>4, <1>5

LEMMA AddStep ==
    ASSUME NEW d, Sound(d), NEW i \in Inode, d.inode[i].size <= LIMIT,
           Blocks(d, i) < NDIRECT + NINDIRECT
    PROVE  AddResult(d, add_block(d, i), i, Blocks(d, i))
<1> DEFINE n == Blocks(d, i)
           new == allocate_block(d)
<1>0. n \in Nat /\ n < NDIRECT + NINDIRECT /\ NDIRECT \in Nat
  <2>1. d.inode[i].size \in Nat
    BY SoundParts, DiskParts
  <2> QED BY <2>1, BlocksBound, Constants DEF Blocks
<1>1. CASE n > MAXFILEBLKS \/ new = 0
  <2>1. add_block(d, i) = NoSpace(d)
    BY <1>1 DEF add_block, Blocks
  <2>2. Stuck(d, d, i, n)
    BY DEF Stuck, Spares, OnlyFile
  <2> QED BY <2>1, <2>2 DEF NoSpace, AddResult
<1>2. CASE ~(n > MAXFILEBLKS \/ new = 0)
  <2>1. new \in d.free
    BY <1>2, AllocateIs
  <2>2. CASE n < NDIRECT
    <3>1. add_block(d, i) = Done(Grown(SetField(Take(d, new), i, DirectAt(n), new), i))
      BY <1>2, <2>2 DEF add_block, Blocks
    <3>2. n \in 0..NDIRECT-1
      BY <1>0, <2>2
    <3> HIDE DEF n, new
    <3>3. Entered(d, SetField(Take(d, new), i, DirectAt(n), new), i, n, new)
      BY <2>1, <3>2, EnterDirect
    <3>4. Grew(d, Grown(SetField(Take(d, new), i, DirectAt(n), new), i), i, n)
      BY <1>0, <3>3, SizeGrown DEF n
    <3> QED BY <3>1, <3>4 DEF Done, AddResult, n
  <2>3. CASE ~(n < NDIRECT)
    <3>1. add_block(d, i) = add_indirect(Take(d, new), i, n, new)
      BY <1>0, <1>2, <2>3 DEF add_block, Blocks
    <3>2. n \in NDIRECT..(NDIRECT + NINDIRECT - 1)
      BY <1>0, <2>3, Constants
    <3> HIDE DEF n, new
    <3>3. AddResult(d, add_indirect(Take(d, new), i, n, new), i, n)
      <4>1. n = Blocks(d, i)
        BY DEF n
      <4> QED BY <2>1, <3>2, <4>1, AddIndirectStep
    <3> QED BY <3>1, <3>3 DEF n
  <2> QED BY <2>2, <2>3
<1> QED BY <1>1, <1>2

-----------------------------------------------------------------------------
(* The loops of change_size().                                              *)

LEMMA ExtendLoop ==
    ASSUME NEW d, NEW i, NEW t, NEW r \in Nat, r = size2nblocks(t)
    PROVE  \E f : /\ f = [k \in 0..r |->
                         IF k = 0 THEN [disk |-> d, ret |-> "ok", r |-> 0]
                         ELSE IF f[k - 1].ret # "ok" \/ Blocks(f[k - 1].disk, i) >= size2nblocks(t)
                              THEN f[k - 1]
                              ELSE Added(f[k - 1], add_block(f[k - 1].disk, i))]
                  /\ Extend(d, i, t) = f[r]
<1> DEFINE B(x) == IF x.ret # "ok" \/ Blocks(x.disk, i) >= size2nblocks(t) THEN x
                   ELSE Added(x, add_block(x.disk, i))
           e == [disk |-> d, ret |-> "ok", r |-> 0]
           Loop(f, n) == f = [k \in 0..n |-> IF k = 0 THEN e ELSE B(f[k - 1])]
           Without == {n \in Nat : ~(\E f : Loop(f, n))}
<1>1. Without = {}
  <2> SUFFICES ASSUME Without # {} PROVE FALSE
    OBVIOUS
  <2>1. PICK n \in Without : \A m \in Without : n <= m
    BY LeastNat
  <2> HIDE DEF B, e
  <2>2. CASE n = 0
    <3>1. Loop([k \in 0..0 |-> e], 0)
      OBVIOUS
    <3> QED BY <2>1, <2>2, <3>1
  <2>3. CASE n # 0
    <3>1. n \in Nat /\ n - 1 \in Nat /\ n - 1 \notin Without
      <4>1. n \in Nat /\ \A m \in Nat : m \in Without => n <= m
        BY <2>1
      <4> HIDE DEF Without
      <4> QED BY <4>1, <2>3
    <3>2. PICK f : Loop(f, n - 1)
      BY <3>1
    <3> DEFINE g == [k \in 0..n |-> IF k = n THEN B(f[n - 1]) ELSE f[k]]
    <3>3. \A k \in 0..n : g[k] = IF k = 0 THEN e ELSE B(g[k - 1])
      BY <3>1, <3>2, <2>3
    <3>4. Loop(g, n)
      BY <3>3, Zenon
    <3> QED BY <3>4, <2>1
  <2> QED BY <2>2, <2>3
<1>2. \E f : Loop(f, r)
  <2> HIDE DEF B, e
  <2> QED BY <1>1
<1>3. LET f == CHOOSE f : Loop(f, r) IN Loop(f, r) /\ Extend(d, i, t) = f[r]
  <2> HIDE DEF B, e
  <2>1. Loop(CHOOSE f : Loop(f, r), r)
    BY <1>2
  <2> USE DEF B, e
  <2>2. Extend(d, i, t) = (CHOOSE f : Loop(f, r))[r]
    BY DEF Extend
  <2> QED BY <2>1, <2>2, Zenon
<1> QED BY <1>3, Zenon

Shrinking(f, d, i, t, r) ==
    f = [k \in 0..r |-> IF k = 0 THEN d
                        ELSE IF Blocks(f[k - 1], i) > size2nblocks(t)
                             THEN remove_block(f[k - 1], i) ELSE f[k - 1]]

LEMMA ShrinkLoop ==
    ASSUME NEW d, NEW i, NEW t, NEW r \in Nat, r = Blocks(d, i)
    PROVE  \E f : Shrinking(f, d, i, t, r) /\ Shrink(d, i, t) = f[r]
<1> DEFINE B(x) == IF Blocks(x, i) > size2nblocks(t) THEN remove_block(x, i) ELSE x
           Loop(f, n) == f = [k \in 0..n |-> IF k = 0 THEN d ELSE B(f[k - 1])]
           Without == {n \in Nat : ~(\E f : Loop(f, n))}
<1>1. Without = {}
  <2> SUFFICES ASSUME Without # {} PROVE FALSE
    OBVIOUS
  <2>1. PICK n \in Without : \A m \in Without : n <= m
    BY LeastNat
  <2> HIDE DEF B
  <2>2. CASE n = 0
    <3>1. Loop([k \in 0..0 |-> d], 0)
      OBVIOUS
    <3> QED BY <2>1, <2>2, <3>1
  <2>3. CASE n # 0
    <3>1. n \in Nat /\ n - 1 \in Nat /\ n - 1 \notin Without
      <4>1. n \in Nat /\ \A m \in Nat : m \in Without => n <= m
        BY <2>1
      <4> HIDE DEF Without
      <4> QED BY <4>1, <2>3
    <3>2. PICK f : Loop(f, n - 1)
      BY <3>1
    <3> DEFINE g == [k \in 0..n |-> IF k = n THEN B(f[n - 1]) ELSE f[k]]
    <3>3. \A k \in 0..n : g[k] = IF k = 0 THEN d ELSE B(g[k - 1])
      BY <3>1, <3>2, <2>3
    <3>4. Loop(g, n)
      BY <3>3
    <3> QED BY <3>4, <2>1
  <2> QED BY <2>2, <2>3
<1>2. \E f : Loop(f, r)
  <2> HIDE DEF B
  <2> QED BY <1>1
<1>3. LET f == CHOOSE f : Loop(f, r) IN Loop(f, r) /\ Shrink(d, i, t) = f[r]
  <2> HIDE DEF B
  <2>1. Loop(CHOOSE f : Loop(f, r), r)
    BY <1>2
  <2> USE DEF B
  <2>2. Shrink(d, i, t) = (CHOOSE f : Loop(f, r))[r]
    BY DEF Shrink
  <2> QED BY <2>1, <2>2
<1> QED BY <1>3 DEF Shrinking

\* File i has r blocks more, all zero.
Extended(d, y, i, r) ==
    /\ Spares(d, y, i) /\ y.free \subseteq d.free
    /\ Blocks(y, i) = Blocks(d, i) + r
    /\ y.inode[i].size = d.inode[i].size + NINDIRECT * r /\ y.inode[i].size <= LIMIT
    /\ \A b \in 0..Blocks(d, i)-1 : Pointer(y, i, SlotOf(b)) = Pointer(d, i, SlotOf(b))
    /\ \A b \in Blocks(d, i)..(Blocks(d, i) + r - 1) :
          \E new \in d.free : Pointer(y, i, SlotOf(b)) = new /\ y.block[new] = ZeroBlock

\* The blocks of a file are neither free nor its indirect block.
LEMMA DataBlockOf ==
    ASSUME NEW d, Sound(d), NEW i \in Inode, NEW b \in 0..(NDIRECT + NINDIRECT - 1),
           NEW p, p = Pointer(d, i, SlotOf(b)), p # 0
    PROVE  p \in Block \ d.free /\ p # Ind(d, i)
<1>1. SlotOf(b) \in Slot /\ SlotOf(b) # IndirectAt
  BY SlotOfIs
<1>2. IndirectAt \in Slot /\ Pointer(d, i, IndirectAt) = Ind(d, i)
  BY PointerIs
<1>3. p # Ind(d, i)
  BY <1>1, <1>2 DEF Sound
<1> QED BY <1>1, <1>3, SoundParts

LEMMA ExtendedOn ==
    ASSUME NEW d, Sound(d), NEW i \in Inode, NEW r \in Nat, NEW s, Extended(d, s, i, r),
           NEW y, Spares(s, y, i), y.free \subseteq s.free,
           \A b \in 0..Blocks(s, i)-1 : Pointer(y, i, SlotOf(b)) = Pointer(s, i, SlotOf(b))
    PROVE  /\ Spares(d, y, i) /\ y.free \subseteq d.free
           /\ \A b \in 0..Blocks(d, i)-1 : Pointer(y, i, SlotOf(b)) = Pointer(d, i, SlotOf(b))
           /\ \A b \in Blocks(d, i)..(Blocks(d, i) + r - 1) :
                 \E new \in d.free : Pointer(y, i, SlotOf(b)) = new /\ y.block[new] = ZeroBlock
<1> DEFINE n == Blocks(d, i)
           m == Blocks(s, i)
<1>0. n \in Nat /\ m = n + r /\ m \in 0..(NDIRECT + NINDIRECT) /\ Sound(s)
  <2>1. d.inode[i].size \in Nat /\ s.inode[i].size \in Nat /\ Sound(s)
    BY SoundParts, DiskParts DEF Extended, Spares
  <2>2. m = n + r /\ s.inode[i].size <= LIMIT /\ s.inode[i].size = d.inode[i].size + NINDIRECT * r
    BY DEF Extended
  <2>3. m \in 0..(NDIRECT + NINDIRECT)
    BY <2>1, <2>2, BlocksBound DEF Blocks
  <2>4. d.inode[i].size <= LIMIT
    <3>1. NINDIRECT * r \in Nat /\ LIMIT \in Nat
      BY Constants
    <3> QED BY <2>1, <2>2, <3>1
  <2>5. n \in 0..(NDIRECT + NINDIRECT)
    BY <2>1, <2>4, BlocksBound DEF Blocks
  <2> QED BY <2>1, <2>2, <2>3, <2>5
<1>1. Spares(d, y, i)
  <2>1. ASSUME NEW c \in Block \ d.free, c # Ind(d, i) PROVE y.block[c] = d.block[c]
    <3>1. s.block[c] = d.block[c] /\ c \notin s.free
      BY <2>1 DEF Extended, Spares
    <3>2. CASE c # Ind(s, i)
      BY <2>1, <3>1, <3>2 DEF Spares
    <3>3. CASE c = Ind(s, i)
      <4>1. c = 0
        BY <2>1, <3>3 DEF Extended, Spares
      <4> QED BY <4>1 DEF Sound, Spares
    <3> QED BY <3>2, <3>3
  <2>2. OnlyFile(d, y, i)
    BY DEF OnlyFile, Spares, Extended
  <2>3. Ind(y, i) \in {0, Ind(d, i)} \cup d.free
    BY DEF Spares, Extended
  <2> QED BY <2>1, <2>2, <2>3 DEF Spares
<1>2. y.free \subseteq d.free
  BY DEF Extended
<1>3. ASSUME NEW b \in 0..n-1 PROVE Pointer(y, i, SlotOf(b)) = Pointer(d, i, SlotOf(b))
  <2>1. b \in 0..m-1
    BY <1>0
  <2> QED BY <2>1 DEF Extended
<1>4. ASSUME NEW b \in n..(n + r - 1)
      PROVE  \E new \in d.free : Pointer(y, i, SlotOf(b)) = new /\ y.block[new] = ZeroBlock
  <2>1. b \in 0..m-1 /\ b \in 0..(NDIRECT + NINDIRECT - 1)
    BY <1>0, Constants
  <2>2. PICK new \in d.free : Pointer(s, i, SlotOf(b)) = new /\ s.block[new] = ZeroBlock
    BY <1>4 DEF Extended
  <2>3. new # 0
    BY SoundParts, DiskParts
  <2>4. new \in Block \ s.free /\ new # Ind(s, i)
    BY <1>0, <2>1, <2>2, <2>3, DataBlockOf
  <2>5. y.block[new] = ZeroBlock
    BY <2>2, <2>4 DEF Spares
  <2> QED BY <2>1, <2>2, <2>5
<1> QED BY <1>1, <1>2, <1>3, <1>4

LEMMA ExtendedMore ==
    ASSUME NEW d, Sound(d), NEW i \in Inode, NEW r \in Nat, NEW s, Extended(d, s, i, r),
           NEW y, Grew(s, y, i, Blocks(s, i)), Blocks(d, i) \in Nat
    PROVE  Extended(d, y, i, r + 1)
<1> DEFINE n == Blocks(d, i)
<1>1. Blocks(s, i) = n + r /\ Blocks(y, i) = n + (r + 1) /\ n \in Nat
  BY DEF Extended, Grew
<1>2. Spares(s, y, i) /\ y.free \subseteq s.free
      /\ \A b \in 0..Blocks(s, i)-1 : Pointer(y, i, SlotOf(b)) = Pointer(s, i, SlotOf(b))
  BY DEF Grew
<1>3. /\ Spares(d, y, i) /\ y.free \subseteq d.free
      /\ \A b \in 0..n-1 : Pointer(y, i, SlotOf(b)) = Pointer(d, i, SlotOf(b))
      /\ \A b \in n..(n + r - 1) :
            \E new \in d.free : Pointer(y, i, SlotOf(b)) = new /\ y.block[new] = ZeroBlock
  BY <1>2, ExtendedOn
<1>4. \E new \in d.free : Pointer(y, i, SlotOf(n + r)) = new /\ y.block[new] = ZeroBlock
  BY <1>1 DEF Grew, Extended
<1> HIDE DEF n
<1>5. ASSUME NEW b \in n..(n + (r + 1) - 1)
      PROVE  \E new \in d.free : Pointer(y, i, SlotOf(b)) = new /\ y.block[new] = ZeroBlock
  <2>1. b = n + r \/ b \in n..(n + r - 1)
    BY <1>1
  <2> QED BY <1>3, <1>4, <2>1
<1>6. y.inode[i].size = d.inode[i].size + NINDIRECT * (r + 1) /\ y.inode[i].size <= LIMIT
  <2>1. NINDIRECT * (r + 1) = NINDIRECT * r + NINDIRECT /\ NINDIRECT * r \in Nat /\ NINDIRECT \in Nat
    BY Constants
  <2>2. d.inode[i].size \in Nat
    BY SoundParts, DiskParts
  <2>3. y.inode[i].size = d.inode[i].size + NINDIRECT * r + NINDIRECT /\ y.inode[i].size <= LIMIT
    BY DEF Extended, Grew
  <2> QED BY <2>1, <2>2, <2>3
<1> QED BY <1>1, <1>3, <1>5, <1>6 DEF Extended, n

LEMMA ExtendedStuck ==
    ASSUME NEW d, Sound(d), NEW i \in Inode, NEW r \in Nat, NEW s, Extended(d, s, i, r),
           NEW y, Stuck(s, y, i, Blocks(s, i))
    PROVE  Extended(d, y, i, r)
<1>1. Spares(s, y, i) /\ y.free \subseteq s.free
      /\ \A b \in 0..Blocks(s, i)-1 : Pointer(y, i, SlotOf(b)) = Pointer(s, i, SlotOf(b))
  BY DEF Stuck
<1>2. /\ Spares(d, y, i) /\ y.free \subseteq d.free
      /\ \A b \in 0..Blocks(d, i)-1 : Pointer(y, i, SlotOf(b)) = Pointer(d, i, SlotOf(b))
      /\ \A b \in Blocks(d, i)..(Blocks(d, i) + r - 1) :
            \E new \in d.free : Pointer(y, i, SlotOf(b)) = new /\ y.block[new] = ZeroBlock
  BY <1>1, ExtendedOn
<1>3. y.inode[i].size = s.inode[i].size /\ Blocks(y, i) = Blocks(s, i)
  BY DEF Stuck, Blocks
<1> QED BY <1>2, <1>3 DEF Extended

\* What the first loop has come to after k rounds, t blocks being wanted.
Extending(d, i, t, s, k) ==
    /\ s.r \in Nat /\ Extended(d, s.disk, i, s.r)
    /\ s.ret \in {"ok", "ENOSPC"}
    /\ s.ret = "ok" => s.r >= k \/ Blocks(d, i) + s.r >= t
    /\ s.r # 0 \/ s.ret # "ok" => Blocks(d, i) + s.r <= t

LEMMA ExtendingStep ==
    ASSUME NEW d, Sound(d), NEW i \in Inode, Blocks(d, i) \in Nat,
           NEW t \in 0..(NDIRECT + NINDIRECT), NEW k \in Nat, NEW s, Extending(d, i, t, s, k)
    PROVE  Extending(d, i, t, IF s.ret # "ok" \/ Blocks(s.disk, i) >= t THEN s
                              ELSE Added(s, add_block(s.disk, i)), k + 1)
<1> DEFINE n == Blocks(d, i)
<1>0. s.r \in Nat /\ n \in Nat /\ Blocks(s.disk, i) = n + s.r /\ t \in Nat
      /\ Extended(d, s.disk, i, s.r) /\ s.disk.inode[i].size <= LIMIT /\ Sound(s.disk)
  <2>1. s.r \in Nat /\ Extended(d, s.disk, i, s.r)
    BY DEF Extending
  <2>2. Blocks(s.disk, i) = n + s.r /\ s.disk.inode[i].size <= LIMIT /\ Spares(d, s.disk, i)
    BY <2>1 DEF Extended
  <2>3. Sound(s.disk)
    BY <2>2 DEF Spares
  <2>4. t \in Nat
    BY Constants
  <2> QED BY <2>1, <2>2, <2>3, <2>4
<1>1. CASE s.ret # "ok" \/ Blocks(s.disk, i) >= t
  BY <1>0, <1>1 DEF Extending
<1>2. CASE ~(s.ret # "ok" \/ Blocks(s.disk, i) >= t)
  <2> DEFINE a == add_block(s.disk, i)
             z == Added(s, a)
  <2>1. n + s.r < t /\ s.ret = "ok" /\ s.r >= k /\ Blocks(s.disk, i) < NDIRECT + NINDIRECT
    BY <1>0, <1>2, Constants DEF Extending
  <2>2. AddResult(s.disk, a, i, Blocks(s.disk, i))
    BY <1>0, <2>1, AddStep
  <2> HIDE DEF a
  <2>3. CASE a.ret = "ok"
    <3>1. Grew(s.disk, a.disk, i, Blocks(s.disk, i))
      BY <2>2, <2>3 DEF AddResult
    <3>2. Extended(d, a.disk, i, s.r + 1)
      BY <1>0, <3>1, ExtendedMore
    <3>3. z.disk = a.disk /\ z.ret = "ok" /\ z.r = s.r + 1
      BY <2>3 DEF Added
    <3> HIDE DEF z
    <3>4. z.r \in Nat /\ z.r >= k + 1 /\ n + z.r <= t /\ Extended(d, z.disk, i, z.r)
      BY <1>0, <2>1, <3>2, <3>3
    <3>5. Extending(d, i, t, z, k + 1)
      BY <3>3, <3>4 DEF Extending
    <3> QED BY <1>2, <3>5 DEF z, a
  <2>4. CASE a.ret # "ok"
    <3>1. Stuck(s.disk, a.disk, i, Blocks(s.disk, i)) /\ a.ret = "ENOSPC"
      BY <2>2, <2>4 DEF AddResult
    <3>2. Extended(d, a.disk, i, s.r)
      BY <1>0, <3>1, ExtendedStuck
    <3>3. z.disk = a.disk /\ z.ret = "ENOSPC" /\ z.r = s.r
      BY <2>4, <3>1 DEF Added
    <3> HIDE DEF z
    <3>4. n + z.r <= t
      BY <1>0, <2>1, <3>3
    <3>5. Extending(d, i, t, z, k + 1)
      BY <1>0, <3>2, <3>3, <3>4 DEF Extending
    <3> QED BY <1>2, <3>5 DEF z, a
  <2> QED BY <2>3, <2>4
<1> QED BY <1>1, <1>2

\* The first loop: enough blocks are there, or add_block() failed.
LEMMA ExtendIs ==
    ASSUME NEW d, Sound(d), NEW i \in Inode, d.inode[i].size <= LIMIT,
           NEW t \in Nat, t <= LIMIT
    PROVE  Extending(d, i, size2nblocks(t), Extend(d, i, t), size2nblocks(t))
<1> DEFINE T == size2nblocks(t)
           n == Blocks(d, i)
<1>0. T \in 0..(NDIRECT + NINDIRECT) /\ T \in Nat /\ n \in Nat
  <2>1. d.inode[i].size \in Nat
    BY SoundParts, DiskParts
  <2> QED BY <2>1, BlocksBound, Constants DEF Blocks
<1>1. PICK f : /\ f = [k \in 0..T |->
                         IF k = 0 THEN [disk |-> d, ret |-> "ok", r |-> 0]
                         ELSE IF f[k - 1].ret # "ok" \/ Blocks(f[k - 1].disk, i) >= size2nblocks(t)
                              THEN f[k - 1]
                              ELSE Added(f[k - 1], add_block(f[k - 1].disk, i))]
               /\ Extend(d, i, t) = f[T]
  BY <1>0, ExtendLoop
<1>2. f[0] = [disk |-> d, ret |-> "ok", r |-> 0]
  BY <1>0, <1>1
<1>3. \A k \in 1..T : f[k] = IF f[k - 1].ret # "ok" \/ Blocks(f[k - 1].disk, i) >= T
                             THEN f[k - 1] ELSE Added(f[k - 1], add_block(f[k - 1].disk, i))
  BY <1>0, <1>1
<1> HIDE DEF T
<1>4. Extending(d, i, T, f[0], 0)
  <2>1. Extended(d, d, i, 0)
    <3>1. NINDIRECT * 0 = 0 /\ n + 0 = n /\ n + 0 - 1 = n - 1 /\ d.inode[i].size + 0 = d.inode[i].size
      BY <1>0, Constants, SoundParts, DiskParts
    <3>2. n..(n - 1) = {}
      BY <1>0
    <3>3. Spares(d, d, i)
      BY DEF Spares, OnlyFile
    <3> QED BY <3>1, <3>2, <3>3 DEF Extended
  <2> QED BY <1>2, <2>1 DEF Extending
<1> DEFINE Bad == {k \in 0..T : ~Extending(d, i, T, f[k], k)}
<1>5. Bad = {}
  <2> SUFFICES ASSUME Bad # {} PROVE FALSE
    OBVIOUS
  <2>1. PICK k \in Bad : \A m \in Bad : k <= m
    <3>1. Bad \in SUBSET Nat
      BY <1>0
    <3> HIDE DEF Bad
    <3> QED BY <3>1, LeastNat
  <2>2. k \in 1..T /\ k - 1 \in 0..T /\ k - 1 \in Nat /\ (k - 1) + 1 = k
    BY <1>0, <1>4, <2>1
  <2>3. Extending(d, i, T, f[k - 1], k - 1)
    <3>1. ~(k <= k - 1)
      BY <2>2
    <3> QED BY <2>1, <2>2, <3>1
  <2>4. Extending(d, i, T, f[k], (k - 1) + 1)
    <3> DEFINE s == f[k - 1]
    <3>1. f[k] = IF s.ret # "ok" \/ Blocks(s.disk, i) >= T THEN s ELSE Added(s, add_block(s.disk, i))
      BY <1>3, <2>2
    <3> HIDE DEF s
    <3>2. Extending(d, i, T, s, k - 1)
      BY <2>3 DEF s
    <3> QED BY <1>0, <2>2, <3>1, <3>2, ExtendingStep
  <2> QED BY <2>1, <2>2, <2>4
<1>6. Extending(d, i, T, f[T], T)
  <2>1. T \in 0..T
    BY <1>0
  <2> QED BY <1>5, <2>1
<1>7. Extend(d, i, t) = f[T]
  BY <1>1
<1>8. Extending(d, i, T, Extend(d, i, t), T)
  BY <1>6, <1>7
<1> QED BY ONLY <1>8, Zenon DEF T

\* y comes from e, and e from d, by removing blocks of file i.
Less(d, e, y, i) ==
    /\ Spares(d, y, i)
    /\ Blocks(y, i) \in 0..Blocks(e, i)
    /\ \A b \in 0..Blocks(y, i)-1 :
          LET p == Pointer(e, i, SlotOf(b))
          IN  Pointer(y, i, SlotOf(b)) = p /\ (p # 0 => y.block[p] = e.block[p])

LEMMA LessStep ==
    ASSUME NEW d, Sound(d), NEW i \in Inode, NEW e, Blocks(e, i) \in 0..(NDIRECT + NINDIRECT),
           NEW s, Less(d, e, s, i), Blocks(s, i) # 0
    PROVE  LET y == remove_block(s, i) IN
           /\ Less(d, e, y, i) /\ Blocks(y, i) = Blocks(s, i) - 1
           /\ y.inode[i].size = (s.inode[i].size - NINDIRECT) % Width
<1> DEFINE y == remove_block(s, i)
           n == Blocks(s, i)
<1>0. n \in 1..(NDIRECT + NINDIRECT) /\ n \in Nat /\ n <= Blocks(e, i) /\ Blocks(e, i) \in Nat
      /\ Sound(s) /\ NDIRECT \in Nat /\ NINDIRECT \in Nat
  BY Constants DEF Less, Spares
<1>1. Removed(s, y, i, n)
  BY <1>0, RemoveStep
<1> HIDE DEF y
<1>2. Blocks(y, i) = n - 1 /\ y.inode[i].size = (s.inode[i].size - NINDIRECT) % Width
      /\ Blocks(y, i) \in 0..Blocks(e, i)
  BY <1>0, <1>1 DEF Removed
<1>3. Spares(d, y, i)
  <2>1. ASSUME NEW c \in Block \ d.free, c # Ind(d, i) PROVE y.block[c] = d.block[c]
    <3>1. s.block[c] = d.block[c]
      BY <2>1 DEF Less, Spares
    <3>2. CASE c # Ind(s, i)
      BY <1>1, <3>1, <3>2 DEF Removed
    <3>3. CASE c = Ind(s, i)
      <4>1. c = 0
        BY <2>1, <3>3 DEF Less, Spares
      <4> QED BY <1>1, <4>1 DEF Sound, Removed
    <3> QED BY <3>2, <3>3
  <2>2. OnlyFile(d, y, i)
    BY <1>1 DEF OnlyFile, Less, Spares, Removed
  <2>3. Ind(y, i) \in {0, Ind(d, i)} \cup d.free
    BY <1>1 DEF Less, Spares, Removed
  <2> QED BY <1>1, <2>1, <2>2, <2>3 DEF Spares, Removed
<1>4. ASSUME NEW b \in 0..Blocks(y, i)-1, NEW p, p = Pointer(e, i, SlotOf(b))
      PROVE  Pointer(y, i, SlotOf(b)) = p /\ (p # 0 => y.block[p] = e.block[p])
  <2>1. b \in 0..n-1 /\ b \in 0..(NDIRECT + NINDIRECT - 1)
    BY <1>0, <1>2
  <2>2. Pointer(s, i, SlotOf(b)) = p /\ (p # 0 => s.block[p] = e.block[p])
    BY <1>4, <2>1 DEF Less
  <2>3. Pointer(y, i, SlotOf(b)) = p
    BY <1>1, <2>1, <2>2 DEF Removed
  <2>4. ASSUME p # 0 PROVE y.block[p] = e.block[p]
    <3>1. p \in Block /\ p # Ind(s, i)
      BY <1>0, <2>1, <2>2, <2>4, DataBlockOf
    <3> QED BY <1>1, <2>2, <2>4, <3>1 DEF Removed
  <2> QED BY <2>3, <2>4
<1>5. Less(d, e, y, i)
  BY <1>2, <1>3, <1>4 DEF Less
<1> QED BY <1>2, <1>5 DEF y

LEMMA LessRefl ==
    ASSUME NEW d, NEW i, NEW e, Spares(d, e, i), Blocks(e, i) \in Nat
    PROVE  Less(d, e, e, i)
  BY DEF Less

\* After -ENOSPC the blocks that were added are removed.
LEMMA RemoveCountedIs ==
    ASSUME NEW d, Sound(d), NEW i \in Inode, NEW r \in Nat, NEW e, Extended(d, e, i, r),
           d.inode[i].size <= LIMIT
    PROVE  LET y == RemoveCounted(e, i, r) IN
           /\ Less(d, e, y, i) /\ y.inode[i].size = d.inode[i].size
<1> DEFINE n == Blocks(d, i)
           size == d.inode[i].size
<1>0. size \in Nat /\ n \in Nat /\ Blocks(e, i) = n + r /\ Blocks(e, i) \in 0..(NDIRECT + NINDIRECT)
      /\ Spares(d, e, i) /\ e.inode[i].size = size + NINDIRECT * r
  <2>1. size \in Nat /\ e.inode[i].size \in Nat /\ e.inode[i].size <= LIMIT
    BY SoundParts, DiskParts DEF Extended, Spares
  <2> QED BY <2>1, BlocksBound DEF Blocks, Extended
<1>1. PICK f : /\ f = [k \in 0..r |-> IF k = 0 THEN e ELSE remove_block(f[k - 1], i)]
               /\ RemoveCounted(e, i, r) = f[r]
  BY RemoveLoop
<1>2. f[0] = e /\ \A k \in 1..r : f[k] = remove_block(f[k - 1], i)
  BY <1>1
<1> DEFINE P(k) == /\ Less(d, e, f[k], i) /\ Blocks(f[k], i) = n + r - k
                   /\ f[k].inode[i].size = size + NINDIRECT * (r - k)
<1> HIDE DEF n, size
<1>3. P(0)
  <2>1. n + r - 0 = n + r /\ r - 0 = r
    BY <1>0
  <2>2. Less(d, e, e, i)
    BY <1>0, LessRefl
  <2> QED BY <1>0, <1>2, <2>1, <2>2
<1>4. ASSUME NEW k \in 0..r-1, P(k) PROVE P(k + 1)
  <2> DEFINE s == f[k]
             m == r - (k + 1)
  <2>1. m \in Nat /\ n + r - k # 0 /\ k + 1 \in 1..r /\ (k + 1) - 1 = k /\ r - k = m + 1
        /\ n + r - k - 1 = n + r - (k + 1)
    BY <1>0
  <2>2. f[k + 1] = remove_block(s, i)
    BY <1>2, <2>1
  <2>3. Less(d, e, s, i) /\ Blocks(s, i) # 0 /\ Blocks(s, i) = n + r - k
        /\ s.inode[i].size = size + NINDIRECT * (m + 1)
    BY <1>4, <2>1
  <2> HIDE DEF s, m
  <2>4. NINDIRECT * (m + 1) = NINDIRECT * m + NINDIRECT /\ NINDIRECT * m \in Nat
        /\ NINDIRECT \in Nat
    BY <2>1, Constants
  <2>5. /\ Less(d, e, f[k + 1], i) /\ Blocks(f[k + 1], i) = n + r - k - 1
        /\ f[k + 1].inode[i].size = (s.inode[i].size - NINDIRECT) % Width
    BY <1>0, <2>2, <2>3, LessStep
  <2>6. s.inode[i].size \in 0..Width-1 /\ size2nblocks(s.inode[i].size) # 0
    <3>1. Sound(s)
      BY <2>3 DEF Less, Spares
    <3> QED BY <2>3, <3>1, SoundParts, DiskParts DEF Blocks
  <2>7. s.inode[i].size - NINDIRECT = size + NINDIRECT * m /\ s.inode[i].size >= NINDIRECT
    BY <1>0, <2>3, <2>4
  <2>8. f[k + 1].inode[i].size = size + NINDIRECT * m
    BY <2>5, <2>6, <2>7, BlocksLess
  <2> QED BY <2>1, <2>5, <2>8 DEF m
<1> DEFINE Bad == {k \in 0..r : ~P(k)}
<1> HIDE DEF P
<1>5. Bad = {}
  <2> SUFFICES ASSUME Bad # {} PROVE FALSE
    OBVIOUS
  <2>1. PICK k \in Bad : \A m \in Bad : k <= m
    <3>1. Bad \in SUBSET Nat
      OBVIOUS
    <3> HIDE DEF Bad
    <3> QED BY <3>1, LeastNat
  <2>2. k \in 1..r /\ k - 1 \in 0..r /\ k - 1 \in 0..r-1 /\ (k - 1) + 1 = k /\ ~(k <= k - 1)
    BY <1>3, <2>1
  <2>3. P(k - 1)
    BY <2>1, <2>2
  <2>4. P((k - 1) + 1)
    BY <1>4, <2>2, <2>3
  <2> QED BY <2>1, <2>2, <2>4
<1>6. P(r)
  BY <1>5
<1>7. Less(d, e, f[r], i) /\ f[r].inode[i].size = size
  <2>1. r - r = 0 /\ NINDIRECT * 0 = 0 /\ size + 0 = size
    BY <1>0, Constants
  <2> QED BY <1>6, <2>1 DEF P
<1> QED BY <1>1, <1>7 DEF size

LEMMA ShrinkIs ==
    ASSUME NEW d, Sound(d), NEW i \in Inode, NEW e, Spares(d, e, i),
           Blocks(e, i) \in 0..(NDIRECT + NINDIRECT), NEW t, size2nblocks(t) \in Nat
    PROVE  LET y == Shrink(e, i, t) IN
           /\ Less(d, e, y, i)
           /\ Blocks(y, i) = IF Blocks(e, i) > size2nblocks(t) THEN size2nblocks(t) ELSE Blocks(e, i)
<1> DEFINE n == Blocks(e, i)
           T == size2nblocks(t)
<1>0. n \in Nat /\ T \in Nat /\ n \in 0..(NDIRECT + NINDIRECT)
  BY Constants
<1>1. PICK f : Shrinking(f, e, i, t, n) /\ Shrink(e, i, t) = f[n]
  BY <1>0, ShrinkLoop
<1>2. f[0] = e /\ \A k \in 1..n : f[k] = IF Blocks(f[k - 1], i) > T THEN remove_block(f[k - 1], i)
                                         ELSE f[k - 1]
  BY <1>0, <1>1 DEF Shrinking
<1> DEFINE P(k) == /\ Less(d, e, f[k], i) /\ Blocks(f[k], i) \in Nat
                   /\ (Blocks(f[k], i) = n /\ ~(n > T)) \/ (Blocks(f[k], i) >= T /\ n > T)
                   /\ n > T => (Blocks(f[k], i) <= n - k \/ Blocks(f[k], i) = T)
<1> HIDE DEF n, T
<1>3. P(0)
  <2>1. Less(d, e, e, i)
    BY <1>0, LessRefl DEF n
  <2>2. Blocks(f[0], i) = n
    BY <1>2 DEF n
  <2> QED BY <1>0, <1>2, <2>1, <2>2
<1>4. ASSUME NEW k \in 0..n-1, P(k) PROVE P(k + 1)
  <2> DEFINE s == f[k]
             m == Blocks(s, i)
  <2>1. k + 1 \in 1..n /\ (k + 1) - 1 = k
    BY <1>0
  <2>2. f[k + 1] = IF m > T THEN remove_block(s, i) ELSE s
    BY <1>2, <2>1
  <2>3. Less(d, e, s, i) /\ m \in Nat
    BY <1>4
  <2>4. CASE ~(m > T)
    <3>1. f[k + 1] = f[k]
      BY <2>2, <2>4
    <3>2. n > T => m = T
      BY <1>0, <1>4, <2>3, <2>4
    <3> QED BY <1>0, <1>4, <3>1, <3>2
  <2>5. CASE m > T
    <3>1. f[k + 1] = remove_block(s, i) /\ m # 0 /\ Blocks(e, i) \in 0..(NDIRECT + NINDIRECT)
      BY <1>0, <2>2, <2>3, <2>5 DEF n
    <3> HIDE DEF s
    <3>2. Less(d, e, f[k + 1], i) /\ Blocks(f[k + 1], i) = m - 1
      BY <2>3, <3>1, LessStep
    <3> HIDE DEF m
    <3>3. m - 1 \in Nat /\ m - 1 >= T
      BY <1>0, <2>3, <2>5
    <3>4. n > T /\ m <= n - k
      <4>1. (m = n /\ ~(n > T)) \/ (m >= T /\ n > T)
        BY <1>4 DEF m, s
      <4>2. n > T => (m <= n - k \/ m = T)
        BY <1>4 DEF m, s
      <4> QED BY <1>0, <2>3, <2>5, <4>1, <4>2
    <3>5. m - 1 <= n - (k + 1)
      BY <1>0, <2>3, <3>4
    <3> QED BY <3>2, <3>3, <3>4, <3>5
  <2> QED BY <2>4, <2>5
<1> DEFINE Bad == {k \in 0..n : ~P(k)}
<1> HIDE DEF P
<1>5. Bad = {}
  <2> SUFFICES ASSUME Bad # {} PROVE FALSE
    OBVIOUS
  <2>1. PICK k \in Bad : \A m \in Bad : k <= m
    <3>1. Bad \in SUBSET Nat
      BY <1>0
    <3> HIDE DEF Bad
    <3> QED BY <3>1, LeastNat
  <2>2. k \in 1..n /\ k - 1 \in 0..n /\ k - 1 \in 0..n-1 /\ (k - 1) + 1 = k /\ ~(k <= k - 1)
    BY <1>0, <1>3, <2>1
  <2>3. P(k - 1)
    BY <2>1, <2>2
  <2>4. P((k - 1) + 1)
    BY <1>4, <2>2, <2>3
  <2> QED BY <2>1, <2>2, <2>4
<1>6. P(n)
  <2>1. n \in 0..n
    BY <1>0
  <2> QED BY <1>5, <2>1
<1>7. Less(d, e, f[n], i) /\ Blocks(f[n], i) = IF n > T THEN T ELSE n
  <2> DEFINE m == Blocks(f[n], i)
  <2>1. /\ Less(d, e, f[n], i) /\ m \in Nat
        /\ (m = n /\ ~(n > T)) \/ (m >= T /\ n > T)
        /\ n > T => (m <= n - n \/ m = T)
    BY <1>6 DEF P
  <2> HIDE DEF m
  <2>2. m = IF n > T THEN T ELSE n
    BY <1>0, <2>1
  <2> QED BY <2>1, <2>2 DEF m
<1>8. Shrink(e, i, t) = f[n]
  BY <1>1 DEF n
<1> QED BY ONLY <1>7, <1>8, Zenon DEF n, T

\* File i has the size t: its first blocks are as before, those it did not have
\* are zero.  Or there was no space, and its blocks and size are as before.
Resized(d, y, i, t) ==
    /\ Spares(d, y, i) /\ y.inode[i].size = t
    /\ \A b \in 0..size2nblocks(t)-1 :
          IF b < Blocks(d, i) THEN Pointer(y, i, SlotOf(b)) = Pointer(d, i, SlotOf(b))
          ELSE \E new \in d.free : Pointer(y, i, SlotOf(b)) = new /\ y.block[new] = ZeroBlock

Restored(d, y, i) ==
    /\ Spares(d, y, i) /\ y.inode[i].size = d.inode[i].size
    /\ \A b \in 0..Blocks(d, i)-1 : Pointer(y, i, SlotOf(b)) = Pointer(d, i, SlotOf(b))

SizeResult(d, c, i, t) ==
    \/ c.ret = "ok" /\ Resized(d, c.disk, i, t)
    \/ c.ret = "ENOSPC" /\ Restored(d, c.disk, i)

LEMMA ChangeSizeIs ==
    ASSUME NEW d, Sound(d), NEW i \in Inode, d.inode[i].size <= LIMIT, NEW t \in Nat, t <= LIMIT
    PROVE  SizeResult(d, change_size(d, i, t), i, t)
<1> DEFINE T == size2nblocks(t)
           n == Blocks(d, i)
           e == Extend(d, i, t)
           c == change_size(d, i, t)
<1>0. T \in Nat /\ n \in Nat /\ t \in 0..Width-1 /\ n \in 0..(NDIRECT + NINDIRECT)
      /\ T \in 0..(NDIRECT + NINDIRECT) /\ NDIRECT \in Nat /\ NINDIRECT \in Nat
  <2>1. d.inode[i].size \in Nat
    BY SoundParts, DiskParts
  <2> QED BY <2>1, BlocksBound, Constants DEF Blocks
<1>1. Extending(d, i, T, e, T)
  BY ExtendIs
<1>2. c = Settle(e, i, t)
  BY DEF change_size
<1> HIDE DEF e, T
<1>3. e.r \in Nat /\ Extended(d, e.disk, i, e.r) /\ Blocks(e.disk, i) = n + e.r
      /\ Spares(d, e.disk, i)
  BY <1>1 DEF Extending, Extended
<1>4. CASE e.ret # "ok"
  <2> DEFINE y == RemoveCounted(e.disk, i, e.r)
  <2>1. c = NoSpace(y)
    BY <1>2, <1>4 DEF Settle
  <2>2. Less(d, e.disk, y, i) /\ y.inode[i].size = d.inode[i].size
    BY <1>3, RemoveCountedIs
  <2> HIDE DEF y
  <2>3. Blocks(y, i) = n
    BY <2>2 DEF Blocks
  <2>4. Restored(d, y, i)
    <3>1. \A b \in 0..n-1 : Pointer(y, i, SlotOf(b)) = Pointer(d, i, SlotOf(b))
      BY <1>3, <2>2, <2>3 DEF Less, Extended
    <3> QED BY <2>2, <3>1 DEF Restored, Less
  <2> QED BY <2>1, <2>4 DEF SizeResult, NoSpace
<1>5. CASE e.ret = "ok"
  <2> DEFINE x == Shrink(e.disk, i, t)
             y == [x EXCEPT !.inode[i].size = t]
  <2>1. c = Done(y)
    BY <1>2, <1>5 DEF Settle
  <2>2. n + e.r >= T /\ (e.r # 0 => n + e.r <= T)
    BY <1>0, <1>1, <1>3, <1>5 DEF Extending
  <2>3. /\ Less(d, e.disk, x, i)
        /\ Blocks(x, i) = T
    <3>1. Blocks(e.disk, i) \in 0..(NDIRECT + NINDIRECT)
      <4>1. n + e.r \in Nat /\ n + e.r <= NDIRECT + NINDIRECT
        BY <1>0, <1>3, <2>2
      <4> QED BY <1>0, <1>3, <4>1
    <3>2. size2nblocks(t) \in Nat
      BY <1>0 DEF T
    <3>3. /\ Less(d, e.disk, x, i)
          /\ Blocks(x, i) = IF Blocks(e.disk, i) > size2nblocks(t) THEN size2nblocks(t)
                            ELSE Blocks(e.disk, i)
      BY <1>3, <3>1, <3>2, ShrinkIs
    <3> HIDE DEF x
    <3> QED BY <1>0, <1>3, <2>2, <3>3 DEF T
  <2> HIDE DEF x
  <2>4. Sound(x) /\ x \in Disk
    BY <2>3, SoundParts DEF Less, Spares
  <2>5. /\ y \in Disk /\ y.free = x.free /\ y.block = x.block
        /\ y.inode[i].size = t
        /\ \A j \in Inode : /\ j # i => y.inode[j] = x.inode[j]
                            /\ y.inode[j].ftype = x.inode[j].ftype
                            /\ y.inode[j].nlink = x.inode[j].nlink
                            /\ y.inode[j].w = x.inode[j].w
    BY <1>0, <2>4, SizedIs
  <2> HIDE DEF y
  <2>6. Sound(y) /\ Ind(y, i) = Ind(x, i)
    BY <2>4, <2>5, SameSound
  <2>7. \A k : Pointer(y, i, k) = Pointer(x, i, k)
    BY <2>5 DEF Pointer
  <2>8. Spares(d, y, i)
    BY <2>3, <2>5, <2>6 DEF OnlyFile, Less, Spares
  <2>9. ASSUME NEW b \in 0..T-1
        PROVE  IF b < n THEN Pointer(y, i, SlotOf(b)) = Pointer(d, i, SlotOf(b))
               ELSE \E new \in d.free : Pointer(y, i, SlotOf(b)) = new /\ y.block[new] = ZeroBlock
    <3>0. b \in Nat /\ b < n + e.r
      BY <1>0, <1>3, <2>2
    <3> DEFINE p == Pointer(e.disk, i, SlotOf(b))
    <3>1. Pointer(y, i, SlotOf(b)) = p /\ (p # 0 => y.block[p] = e.disk.block[p])
      BY <2>3, <2>5, <2>7 DEF Less
    <3>2. CASE b < n
      <4>1. b \in 0..n-1
        BY <1>0, <3>0, <3>2
      <4>2. p = Pointer(d, i, SlotOf(b))
        BY <1>3, <4>1 DEF Extended
      <4> QED BY <3>1, <3>2, <4>2
    <3>3. CASE ~(b < n)
      <4>1. b \in n..(n + e.r - 1)
        BY <1>0, <1>3, <3>0, <3>3
      <4>2. PICK new \in d.free : p = new /\ e.disk.block[new] = ZeroBlock
        BY <1>3, <4>1 DEF Extended
      <4>3. new # 0
        BY SoundParts, DiskParts
      <4> QED BY <3>1, <3>3, <4>2, <4>3
    <3> QED BY <3>2, <3>3
  <2>10. Resized(d, y, i, t)
    BY <2>5, <2>8, <2>9 DEF Resized, T
  <2> QED BY <2>1, <2>10 DEF SizeResult, Done
<1> QED BY <1>4, <1>5

-----------------------------------------------------------------------------
(* Contents of files.                                                       *)

\* Of every inode but i nothing changes that a file is made of.
LEMMA OthersSpared ==
    ASSUME NEW d, Sound(d), NEW i \in Inode, NEW y, Spares(d, y, i), NEW j \in Inode, j # i
    PROVE  /\ y.inode[j] = d.inode[j]
           /\ \A k \in Slot : /\ Pointer(y, j, k) = Pointer(d, j, k)
                              /\ y.block[Pointer(d, j, k)] = d.block[Pointer(d, j, k)]
<1>1. y.inode[j] = d.inode[j] /\ Sound(y)
  BY DEF Spares, OnlyFile
<1>2. ASSUME NEW k \in Slot
      PROVE  y.block[Pointer(d, j, k)] = d.block[Pointer(d, j, k)]
  <2> DEFINE p == Pointer(d, j, k)
  <2>1. CASE p = 0
    BY <1>1, <2>1 DEF Sound
  <2>2. CASE p # 0
    <3>1. p \in Block \ d.free
      BY <2>2, SoundParts
    <3>2. IndirectAt \in Slot /\ Pointer(d, i, IndirectAt) = Ind(d, i)
      BY PointerIs
    <3>3. p # Ind(d, i)
      BY <2>2, <3>2 DEF Sound
    <3> QED BY <3>1, <3>3 DEF Spares
  <2> QED BY <2>1, <2>2
<1>3. y.block[Ind(d, j)] = d.block[Ind(d, j)] /\ Ind(y, j) = Ind(d, j)
  <2>1. IndirectAt \in Slot /\ Pointer(d, j, IndirectAt) = Ind(d, j)
    BY PointerIs
  <2> QED BY <1>1, <1>2, <2>1 DEF Ind
<1>4. \A k \in Slot : Pointer(y, j, k) = Pointer(d, j, k)
  BY <1>1, <1>3 DEF Pointer, Ind
<1> QED BY <1>1, <1>2, <1>4

LEMMA DataIs ==
    ASSUME NEW d, NEW i \in Inode, d.inode[i].size \in Nat, d.inode[i].size <= LIMIT,
           NEW off \in 0..d.inode[i].size-1, d.inode[i].ftype # "SYMLINK"
    PROVE  LET b == off \div NINDIRECT IN
           /\ b \in 0..Blocks(d, i)-1 /\ b \in 0..(NDIRECT + NINDIRECT - 1)
           /\ SlotOf(b) \in Slot /\ off % NINDIRECT \in 0..NINDIRECT-1
           /\ off = NINDIRECT * b + (off % NINDIRECT)
           /\ inode_blockno(d, i, off) = Pointer(d, i, SlotOf(b))
           /\ inode_data(d, i, off) = d.block[Pointer(d, i, SlotOf(b))][off % NINDIRECT]
<1> DEFINE b == off \div NINDIRECT
<1>1. b \in 0..Blocks(d, i)-1 /\ off % NINDIRECT \in 0..NINDIRECT-1
      /\ off = NINDIRECT * b + (off % NINDIRECT)
  BY OffsetBlock DEF Blocks
<1>2. inode_blockno(d, i, off) = Pointer(d, i, SlotOf(b))
  BY BlocknoIs
<1>3. inode_data(d, i, off) = d.block[Pointer(d, i, SlotOf(b))][off % NINDIRECT]
  BY <1>2 DEF inode_data
<1>4. Blocks(d, i) \in 0..(NDIRECT + NINDIRECT)
  BY BlocksBound DEF Blocks
<1> HIDE DEF b
<1>5. b \in 0..(NDIRECT + NINDIRECT - 1)
  BY <1>1, <1>4, Constants
<1>6. SlotOf(b) \in Slot
  BY <1>5, SlotOfIs
<1>7. /\ b \in 0..Blocks(d, i)-1 /\ b \in 0..(NDIRECT + NINDIRECT - 1)
      /\ SlotOf(b) \in Slot /\ off % NINDIRECT \in 0..NINDIRECT-1
      /\ off = NINDIRECT * b + (off % NINDIRECT)
      /\ inode_blockno(d, i, off) = Pointer(d, i, SlotOf(b))
      /\ inode_data(d, i, off) = d.block[Pointer(d, i, SlotOf(b))][off % NINDIRECT]
  BY <1>1, <1>2, <1>3, <1>5, <1>6
<1> QED BY ONLY <1>7, Zenon DEF b

\* A file of the same size and type, with the same blocks, has the same words.
LEMMA SameContents ==
    ASSUME NEW d, Sound(d), NEW y, Sound(y), NEW i \in Inode, d.inode[i].size <= LIMIT,
           y.inode[i].size = d.inode[i].size, y.inode[i].ftype = d.inode[i].ftype,
           \A b \in 0..Blocks(d, i)-1 :
              /\ Pointer(y, i, SlotOf(b)) = Pointer(d, i, SlotOf(b))
              /\ y.block[Pointer(d, i, SlotOf(b))] = d.block[Pointer(d, i, SlotOf(b))]
    PROVE  Contents(y, i) = Contents(d, i)
<1>0. d.inode[i].size \in Nat
  BY SoundParts, DiskParts
<1> SUFFICES ASSUME NEW off \in 0..d.inode[i].size-1
             PROVE  inode_data(y, i, off) = inode_data(d, i, off)
  BY DEF Contents
<1>1. CASE d.inode[i].ftype = "SYMLINK"
  <2>1. inode_blockno(y, i, off) = 0 /\ inode_blockno(d, i, off) = 0
    BY <1>1, NoBlockno
  <2> QED BY <2>1 DEF inode_data, Sound
<1>2. CASE d.inode[i].ftype # "SYMLINK"
  <2> DEFINE b == off \div NINDIRECT
  <2>1. b \in 0..Blocks(d, i)-1
        /\ inode_data(d, i, off) = d.block[Pointer(d, i, SlotOf(b))][off % NINDIRECT]
    BY <1>0, <1>2, DataIs
  <2>2. inode_data(y, i, off) = y.block[Pointer(y, i, SlotOf(b))][off % NINDIRECT]
    BY <1>0, <1>2, DataIs
  <2> HIDE DEF b
  <2> QED BY <2>1, <2>2
<1> QED BY <1>1, <1>2

-----------------------------------------------------------------------------
(* What operations leave of the files.                                      *)

FilesOK(d) == Sound(d) /\ FilesInv(d)

\* Nothing but file i is touched.
Others(d, y, i) ==
    \A j \in Inode : j # i => y.inode[j] = d.inode[j] /\ Contents(y, j) = Contents(d, j)

LEMMA FilesParts ==
    ASSUME NEW d, FilesOK(d), NEW i \in Inode
    PROVE  /\ Sound(d) /\ d \in Disk /\ ROOT \in Inode
           /\ d.inode[i].size \in Nat /\ d.inode[i].size <= LIMIT
           /\ d.inode[i].size \in 0..Width-1 /\ d.inode[i].nlink \in Nat
           /\ d.inode[i].ftype = "DIR" <=> i = ROOT
           /\ d.inode[i].ftype # "SYMLINK" => Present(d, i)
           /\ Blocks(d, i) \in 0..(NDIRECT + NINDIRECT) /\ Blocks(d, i) \in Nat
           /\ d.inode[ROOT].size = NINDIRECT * Blocks(d, ROOT)
<1>1. Sound(d) /\ d \in Disk
  BY SoundParts DEF FilesOK
<1>2. d.inode[i].size \in 0..Width-1 /\ d.inode[i].size <= LIMIT /\ d.inode[i].nlink \in Nat
  BY <1>1, DiskParts DEF FilesOK, FilesInv
<1>3. d.inode[i].size \in Nat
  BY <1>2, Constants
<1>4. Blocks(d, i) \in 0..(NDIRECT + NINDIRECT)
  BY <1>2, <1>3, BlocksBound DEF Blocks
<1>5. ROOT \in Inode
  BY Constants DEF ROOT, Inode
<1> QED BY <1>1, <1>2, <1>3, <1>4, <1>5, Constants DEF FilesOK, FilesInv

LEMMA RootInode == ROOT \in Inode
  BY Constants DEF ROOT, Inode

LEMMA OthersKept ==
    ASSUME NEW d, FilesOK(d), NEW i \in Inode, NEW y, Spares(d, y, i)
    PROVE  /\ Others(d, y, i)
           /\ \A j \in Inode : j # i /\ Present(d, j) => Present(y, j)
<1> SUFFICES ASSUME NEW j \in Inode, j # i
             PROVE  /\ y.inode[j] = d.inode[j] /\ Contents(y, j) = Contents(d, j)
                    /\ Present(d, j) => Present(y, j)
  BY DEF Others
<1>1. /\ y.inode[j] = d.inode[j]
      /\ \A k \in Slot : /\ Pointer(y, j, k) = Pointer(d, j, k)
                         /\ y.block[Pointer(d, j, k)] = d.block[Pointer(d, j, k)]
  BY OthersSpared DEF FilesOK
<1>2. ASSUME NEW b \in 0..Blocks(d, j)-1 PROVE SlotOf(b) \in Slot
  <2>1. b \in 0..(NDIRECT + NINDIRECT - 1)
    BY FilesParts, Constants
  <2> QED BY <2>1, SlotOfIs
<1>3. Contents(y, j) = Contents(d, j)
  <2>1. Sound(d) /\ Sound(y) /\ d.inode[j].size <= LIMIT
    BY FilesParts DEF Spares
  <2> QED BY <1>1, <1>2, <2>1, SameContents
<1>4. Present(d, j) => Present(y, j)
  BY <1>1, <1>2 DEF Present, Blocks
<1> QED BY <1>1, <1>3, <1>4

LEMMA FilesFrom ==
    ASSUME NEW d, FilesOK(d), NEW i \in Inode, NEW y, Spares(d, y, i),
           y.inode[i].size <= LIMIT, y.inode[i].ftype # "SYMLINK" => Present(y, i),
           i = ROOT => y.inode[i].size = NINDIRECT * Blocks(y, i)
    PROVE  FilesOK(y)
<1>1. \A j \in Inode : j # i => y.inode[j] = d.inode[j] /\ (Present(d, j) => Present(y, j))
  BY OthersKept DEF Others
<1>2. y.inode[i].ftype = d.inode[i].ftype /\ Sound(y)
  BY DEF Spares, OnlyFile
<1>3. ROOT \in Inode
  BY FilesParts
<1>4. y.inode[ROOT].size = NINDIRECT * Blocks(y, ROOT)
  <2>1. CASE i = ROOT
    BY <2>1
  <2>2. CASE i # ROOT
    BY <1>1, <1>3, <2>2 DEF FilesOK, FilesInv, Blocks
  <2> QED BY <2>1, <2>2
<1>5. ASSUME NEW j \in Inode
      PROVE /\ y.inode[j].size <= LIMIT
            /\ y.inode[j].ftype = "DIR" <=> j = ROOT
            /\ y.inode[j].ftype # "SYMLINK" => Present(y, j)
  <2>1. CASE j = i
    BY <1>2, <2>1 DEF FilesOK, FilesInv
  <2>2. CASE j # i
    BY <1>1, <2>2 DEF FilesOK, FilesInv
  <2> QED BY <2>1, <2>2
<1> QED BY <1>2, <1>4, <1>5 DEF FilesOK, FilesInv

\* A change of the size of file i keeps everything else in order.
LEMMA ChangeSizeFiles ==
    ASSUME NEW d, FilesOK(d), NEW i \in Inode, NEW t \in Nat, t <= LIMIT,
           i = ROOT => t = NINDIRECT * size2nblocks(t),
           NEW c, c = change_size(d, i, t)
    PROVE  /\ FilesOK(c.disk) /\ Others(d, c.disk, i) /\ OnlyFile(d, c.disk, i)
           /\ SizeResult(d, c, i, t)
<1> DEFINE y == c.disk
<1>0. Sound(d) /\ d.inode[i].size \in Nat /\ d.inode[i].size <= LIMIT
      /\ Blocks(d, i) \in 0..(NDIRECT + NINDIRECT) /\ Blocks(d, i) \in Nat
      /\ (d.inode[i].ftype # "SYMLINK" => Present(d, i))
  BY FilesParts
<1>1. SizeResult(d, c, i, t)
  BY <1>0, ChangeSizeIs
<1>2. CASE c.ret = "ok" /\ Resized(d, y, i, t)
  <2>1. Spares(d, y, i) /\ y.inode[i].size = t /\ y.inode[i].ftype = d.inode[i].ftype
    BY <1>2 DEF Resized, Spares, OnlyFile
  <2>2. ASSUME d.inode[i].ftype # "SYMLINK", NEW b \in 0..Blocks(y, i)-1
        PROVE  Pointer(y, i, SlotOf(b)) # 0
    <3>1. b \in 0..size2nblocks(t)-1 /\ b \in Nat
      BY <2>1, <2>2 DEF Blocks
    <3>2. CASE b < Blocks(d, i)
      <4>1. b \in 0..Blocks(d, i)-1
        BY <1>0, <3>1, <3>2
      <4> QED BY <1>0, <1>2, <2>2, <3>1, <3>2, <4>1 DEF Resized, Present
    <3>3. CASE ~(b < Blocks(d, i))
      <4>1. PICK new \in d.free : Pointer(y, i, SlotOf(b)) = new
        BY <1>2, <3>1, <3>3 DEF Resized
      <4> QED BY <1>0, <4>1, SoundParts, DiskParts
    <3> QED BY <3>2, <3>3
  <2>3. i = ROOT => y.inode[i].size = NINDIRECT * Blocks(y, i)
    BY <2>1 DEF Blocks
  <2>4. FilesOK(y)
    BY <2>1, <2>2, <2>3, FilesFrom DEF Present
  <2> QED BY <1>1, <2>1, <2>4, OthersKept DEF Spares
<1>3. CASE c.ret = "ENOSPC" /\ Restored(d, y, i)
  <2>1. Spares(d, y, i) /\ y.inode[i].size = d.inode[i].size /\ y.inode[i].ftype = d.inode[i].ftype
    BY <1>3 DEF Restored, Spares, OnlyFile
  <2>2. Present(d, i) => Present(y, i)
    BY <1>3, <2>1 DEF Restored, Present, Blocks
  <2>3. i = ROOT => y.inode[i].size = NINDIRECT * Blocks(y, i)
    BY <2>1, FilesParts DEF Blocks
  <2>4. FilesOK(y)
    BY <1>0, <2>1, <2>2, <2>3, FilesFrom
  <2> QED BY <1>1, <2>1, <2>4, OthersKept DEF Spares
<1> QED BY <1>1, <1>2, <1>3 DEF SizeResult

\* The words that a file keeps when its size changes, and those it gets.
LEMMA ResizedData ==
    ASSUME NEW d, FilesOK(d), NEW i \in Inode, d.inode[i].ftype # "SYMLINK",
           NEW t \in Nat, t <= LIMIT, NEW y, Resized(d, y, i, t), NEW off \in 0..t-1
    PROVE  /\ off < d.inode[i].size => inode_data(y, i, off) = inode_data(d, i, off)
           /\ ~(off \div NINDIRECT < Blocks(d, i)) => inode_data(y, i, off) = 0
           /\ inode_blockno(y, i, off) # 0
<1> DEFINE b == off \div NINDIRECT
           l == off % NINDIRECT
<1>0. Sound(d) /\ d.inode[i].size \in Nat /\ d.inode[i].size <= LIMIT /\ Present(d, i)
      /\ Blocks(d, i) \in 0..(NDIRECT + NINDIRECT) /\ Blocks(d, i) \in Nat
  BY FilesParts
<1>1. y.inode[i].size = t /\ y.inode[i].ftype = d.inode[i].ftype /\ Sound(y) /\ Spares(d, y, i)
  BY DEF Resized, Spares, OnlyFile
<1>2. /\ b \in 0..Blocks(y, i)-1 /\ b \in 0..(NDIRECT + NINDIRECT - 1)
      /\ l \in 0..NINDIRECT-1
      /\ inode_blockno(y, i, off) = Pointer(y, i, SlotOf(b))
      /\ inode_data(y, i, off) = y.block[Pointer(y, i, SlotOf(b))][l]
  BY <1>1, DataIs
<1>3. b \in 0..size2nblocks(t)-1
  BY <1>1, <1>2 DEF Blocks
<1>4. ASSUME off < d.inode[i].size
      PROVE  b < Blocks(d, i) /\ inode_data(d, i, off) = d.block[Pointer(d, i, SlotOf(b))][l]
  <2>1. off \in 0..d.inode[i].size-1
    BY <1>0, <1>4
  <2>2. b \in 0..Blocks(d, i)-1 /\ inode_data(d, i, off) = d.block[Pointer(d, i, SlotOf(b))][l]
    BY <1>0, <2>1, DataIs
  <2> HIDE DEF b
  <2>3. b < Blocks(d, i)
    BY <1>0, <1>2, <2>2
  <2> QED BY <2>2, <2>3
<1> HIDE DEF b, l
<1>5. ASSUME b < Blocks(d, i)
      PROVE  /\ Pointer(y, i, SlotOf(b)) = Pointer(d, i, SlotOf(b)) /\ Pointer(d, i, SlotOf(b)) # 0
             /\ y.block[Pointer(d, i, SlotOf(b))] = d.block[Pointer(d, i, SlotOf(b))]
  <2> DEFINE p == Pointer(d, i, SlotOf(b))
  <2>1. Pointer(y, i, SlotOf(b)) = p
    BY <1>3, <1>5 DEF Resized
  <2>2. b \in 0..Blocks(d, i)-1
    BY <1>0, <1>2, <1>5
  <2>3. p # 0
    BY <1>0, <2>2 DEF Present
  <2>4. p \in Block \ d.free /\ p # Ind(d, i)
    BY <1>0, <1>2, <2>3, DataBlockOf
  <2>5. y.block[p] = d.block[p]
    BY <1>1, <2>4 DEF Spares
  <2> QED BY <2>1, <2>3, <2>5
<1>6. ASSUME ~(b < Blocks(d, i))
      PROVE  inode_data(y, i, off) = 0 /\ Pointer(y, i, SlotOf(b)) # 0
  <2>1. PICK new \in d.free : Pointer(y, i, SlotOf(b)) = new /\ y.block[new] = ZeroBlock
    BY <1>3, <1>6 DEF Resized
  <2>2. new # 0
    BY <1>0, SoundParts, DiskParts
  <2>3. inode_data(y, i, off) = ZeroBlock[l]
    BY <1>2, <2>1
  <2> QED BY <1>2, <2>1, <2>2, <2>3 DEF ZeroBlock
<1>7. inode_blockno(y, i, off) # 0
  BY <1>2, <1>5, <1>6
<1>8. off < d.inode[i].size => inode_data(y, i, off) = inode_data(d, i, off)
  BY <1>2, <1>4, <1>5
<1>9. ~(b < Blocks(d, i)) => inode_data(y, i, off) = 0
  BY <1>6
<1> QED BY <1>7, <1>8, <1>9 DEF b

LEMMA RestoredData ==
    ASSUME NEW d, FilesOK(d), NEW i \in Inode, NEW y, Restored(d, y, i)
    PROVE  d.inode[i].ftype # "SYMLINK" => Contents(y, i) = Contents(d, i)
<1> SUFFICES ASSUME d.inode[i].ftype # "SYMLINK" PROVE Contents(y, i) = Contents(d, i)
  OBVIOUS
<1>0. Sound(d) /\ d.inode[i].size <= LIMIT /\ Present(d, i)
      /\ Blocks(d, i) \in 0..(NDIRECT + NINDIRECT) /\ Blocks(d, i) \in Nat
  BY FilesParts
<1>1. y.inode[i].size = d.inode[i].size /\ y.inode[i].ftype = d.inode[i].ftype
      /\ Sound(y) /\ Spares(d, y, i)
  BY DEF Restored, Spares, OnlyFile
<1>2. ASSUME NEW b \in 0..Blocks(d, i)-1
      PROVE  /\ Pointer(y, i, SlotOf(b)) = Pointer(d, i, SlotOf(b))
             /\ y.block[Pointer(d, i, SlotOf(b))] = d.block[Pointer(d, i, SlotOf(b))]
  <2> DEFINE p == Pointer(d, i, SlotOf(b))
  <2>1. Pointer(y, i, SlotOf(b)) = p /\ p # 0 /\ b \in 0..(NDIRECT + NINDIRECT - 1)
    BY <1>0, Constants DEF Restored, Present
  <2>2. p \in Block \ d.free /\ p # Ind(d, i)
    BY <1>0, <2>1, DataBlockOf
  <2>3. y.block[p] = d.block[p]
    BY <1>1, <2>2 DEF Spares
  <2> QED BY <2>1, <2>3
<1> QED BY <1>0, <1>1, <1>2, SameContents

\* Writing to blocks of file i is no business of the other files.
Writes(d, y, i) ==
    /\ y \in Disk /\ y.free = d.free /\ y.inode = d.inode
    /\ \A c \in Block : y.block[c] = d.block[c]
                        \/ \E b \in 0..Blocks(d, i)-1 : c # 0 /\ c = Pointer(d, i, SlotOf(b))

LEMMA WrittenFiles ==
    ASSUME NEW d, FilesOK(d), NEW i \in Inode, NEW y, Writes(d, y, i)
    PROVE  /\ FilesOK(y) /\ Others(d, y, i)
           /\ \A j \in Inode, k \in Slot : Pointer(y, j, k) = Pointer(d, j, k)
<1>0. Sound(d) /\ \A b \in 0..Blocks(d, i)-1 : b \in 0..(NDIRECT + NINDIRECT - 1)
                    /\ SlotOf(b) \in Slot /\ SlotOf(b) # IndirectAt
  <2>1. Sound(d) /\ Blocks(d, i) \in 0..(NDIRECT + NINDIRECT)
    BY FilesParts
  <2>2. \A b \in 0..Blocks(d, i)-1 : b \in 0..(NDIRECT + NINDIRECT - 1)
    BY <2>1, Constants
  <2> QED BY <2>1, <2>2, SlotOfIs
<1>1. ASSUME NEW c \in Block, c = 0 \/ \E j \in Inode : Ind(d, j) = c
      PROVE  y.block[c] = d.block[c]
  <2>1. CASE c = 0
    BY <2>1 DEF Writes
  <2>2. CASE c # 0
    <3>1. PICK j \in Inode : Ind(d, j) = c
      BY <1>1, <2>2
    <3>2. IndirectAt \in Slot /\ Pointer(d, j, IndirectAt) = c
      BY <3>1, PointerIs
    <3>3. \A b \in 0..Blocks(d, i)-1 : Pointer(d, i, SlotOf(b)) # c
      BY <1>0, <2>2, <3>2 DEF Sound
    <3> QED BY <3>3 DEF Writes
  <2> QED BY <2>1, <2>2
<1>2. Sound(y) /\ \A j \in Inode, k \in Slot : Pointer(y, j, k) = Pointer(d, j, k)
  <2>1. y \in Disk /\ y.free = d.free /\ y.inode = d.inode
    BY DEF Writes
  <2> QED BY <1>0, <1>1, <2>1, SameIndSound
<1>3. ASSUME NEW j \in Inode, j # i PROVE Contents(y, j) = Contents(d, j)
  <2>1. ASSUME NEW b \in 0..Blocks(d, j)-1
        PROVE  /\ Pointer(y, j, SlotOf(b)) = Pointer(d, j, SlotOf(b))
               /\ y.block[Pointer(d, j, SlotOf(b))] = d.block[Pointer(d, j, SlotOf(b))]
    <3>1. SlotOf(b) \in Slot
      <4>1. b \in 0..(NDIRECT + NINDIRECT - 1)
        BY FilesParts, Constants
      <4> QED BY <4>1, SlotOfIs
    <3> DEFINE p == Pointer(d, j, SlotOf(b))
    <3>2. p \in Block
      BY <1>0, <3>1, SoundParts
    <3>3. p # 0 => \A a \in 0..Blocks(d, i)-1 : Pointer(d, i, SlotOf(a)) # p
      BY <1>0, <1>3, <3>1 DEF Sound
    <3>4. y.block[p] = d.block[p]
      BY <3>2, <3>3 DEF Writes
    <3> QED BY <1>2, <3>1, <3>4
  <2>2. y.inode[j].size = d.inode[j].size /\ y.inode[j].ftype = d.inode[j].ftype
        /\ d.inode[j].size <= LIMIT
    BY FilesParts DEF Writes
  <2> QED BY <1>0, <1>2, <2>1, <2>2, SameContents
<1>4. ASSUME NEW j \in Inode, Present(d, j) PROVE Present(y, j)
  <2>1. \A b \in 0..Blocks(d, j)-1 : SlotOf(b) \in Slot
    <3>1. \A b \in 0..Blocks(d, j)-1 : b \in 0..(NDIRECT + NINDIRECT - 1)
      BY FilesParts, Constants
    <3> QED BY <3>1, SlotOfIs
  <2> QED BY <1>2, <1>4, <2>1 DEF Present, Blocks, Writes
<1>5. FilesOK(y)
  BY <1>2, <1>4 DEF FilesOK, FilesInv, Writes, Blocks
<1> QED BY <1>2, <1>3, <1>5 DEF Others, Writes

\* An inode that keeps its block pointers, given a new head.
Headed(d, y, i) ==
    /\ y \in Disk /\ y.free = d.free /\ y.block = d.block
    /\ \A j \in Inode : j # i => y.inode[j] = d.inode[j]
    /\ \A k \in 1..NDIRECT+2 : y.inode[i].w[k] = d.inode[i].w[k]

LEMMA HeadedFiles ==
    ASSUME NEW d, FilesOK(d), NEW i \in Inode \ {ROOT}, NEW y, Headed(d, y, i),
           y.inode[i].ftype # "DIR",
           \/ y.inode[i].size = 0
           \/ y.inode[i].size <= 1 /\ y.inode[i].ftype = "SYMLINK"
           \/ y.inode[i].size = d.inode[i].size /\ y.inode[i].ftype = d.inode[i].ftype
    PROVE  /\ FilesOK(y) /\ Others(d, y, i)
           /\ \A j \in Inode, k \in Slot : Pointer(y, j, k) = Pointer(d, j, k)
           /\ y.inode[i].size = d.inode[i].size /\ y.inode[i].ftype = d.inode[i].ftype
              => Contents(y, i) = Contents(d, i)
<1>0. Sound(d)
  BY FilesParts
<1>1. Sound(y) /\ \A j \in Inode, k \in Slot : Pointer(y, j, k) = Pointer(d, j, k)
  <2>1. \A j \in Inode : \A k \in 1..NDIRECT+2 : y.inode[j].w[k] = d.inode[j].w[k]
    BY DEF Headed
  <2> QED BY <1>0, <2>1, SameSound DEF Headed
<1>2. \A j \in Inode : \A b \in 0..Blocks(d, j)-1 : SlotOf(b) \in Slot
  <2>1. \A j \in Inode : \A b \in 0..Blocks(d, j)-1 : b \in 0..(NDIRECT + NINDIRECT - 1)
    BY FilesParts, Constants
  <2> QED BY <2>1, SlotOfIs
<1>3. ASSUME NEW j \in Inode, y.inode[j].size = d.inode[j].size, y.inode[j].ftype = d.inode[j].ftype
      PROVE  Contents(y, j) = Contents(d, j) /\ (Present(d, j) => Present(y, j))
  <2>1. Contents(y, j) = Contents(d, j)
    BY <1>0, <1>1, <1>2, <1>3, SameContents, FilesParts DEF Headed
  <2>2. Present(d, j) => Present(y, j)
    BY <1>1, <1>2, <1>3 DEF Present, Blocks
  <2> QED BY <2>1, <2>2
<1>4. Others(d, y, i)
  BY <1>3 DEF Others, Headed
<1>5. y.inode[i].size <= LIMIT /\ (y.inode[i].ftype # "SYMLINK" => Present(y, i))
  <2>1. CASE y.inode[i].size = 0
    <3>1. Blocks(y, i) = 0
      <4>1. 0 <= NINDIRECT * 0 /\ NINDIRECT * 0 < 0 + NINDIRECT /\ 0 + NINDIRECT - 1 < Width /\ 0 \in Nat
        BY Constants
      <4> QED BY <2>1, <4>1, BlocksOf DEF Blocks
    <3>2. 0..(0 - 1) = {} /\ 0 <= LIMIT
      BY Constants
    <3> QED BY <2>1, <3>1, <3>2 DEF Present
  <2>2. CASE y.inode[i].size <= 1 /\ y.inode[i].ftype = "SYMLINK"
    <3>1. 1 <= LIMIT
      <4>1. \A a \in Nat \ {0}, b \in Nat \ {0} : a * b >= 1
        OBVIOUS
      <4> QED BY <4>1, Constants DEF LIMIT
    <3>2. y.inode[i].size \in Nat
      BY <1>1, SoundParts, DiskParts
    <3> QED BY <2>2, <3>1, <3>2, Constants
  <2>3. CASE y.inode[i].size = d.inode[i].size /\ y.inode[i].ftype = d.inode[i].ftype
    BY <1>3, <2>3, FilesParts
  <2> QED BY <2>1, <2>2, <2>3
<1>6. FilesOK(y)
  <2>1. ROOT \in Inode /\ y.inode[ROOT] = d.inode[ROOT]
    BY FilesParts DEF Headed
  <2>2. y.inode[ROOT].size = NINDIRECT * Blocks(y, ROOT)
    BY <2>1, FilesParts DEF Blocks
  <2>3. ASSUME NEW j \in Inode
        PROVE  /\ y.inode[j].size <= LIMIT
               /\ y.inode[j].ftype = "DIR" <=> j = ROOT
               /\ y.inode[j].ftype # "SYMLINK" => Present(y, j)
    <3>1. CASE j = i
      BY <1>5, <3>1
    <3>2. CASE j # i
      <4>1. y.inode[j] = d.inode[j]
        BY <3>2 DEF Headed
      <4> QED BY <1>3, <4>1, FilesParts
    <3> QED BY <3>1, <3>2
  <2> QED BY <1>1, <2>2, <2>3 DEF FilesOK, FilesInv
<1> QED BY <1>1, <1>3, <1>4, <1>6

-----------------------------------------------------------------------------
(* The directory.                                                           *)

\* Entry off becomes e.
EntrySet(d, y, off, e) ==
    /\ FilesOK(y) /\ Others(d, y, ROOT) /\ y.inode = d.inode /\ y.free = d.free
    /\ \A o \in Offset(d) : Entry(y, o) = IF o = off THEN e ELSE Entry(d, o)

LEMMA EntryIs ==
    ASSUME NEW d, FilesOK(d), NEW off \in Offset(d)
    PROVE  LET b == off \div NINDIRECT
               p == Pointer(d, ROOT, SlotOf(b)) IN
           /\ b \in 0..Blocks(d, ROOT)-1 /\ b \in 0..(NDIRECT + NINDIRECT - 1)
           /\ SlotOf(b) \in Slot /\ off % NINDIRECT \in 0..NINDIRECT-1
           /\ off = NINDIRECT * b + (off % NINDIRECT)
           /\ inode_blockno(d, ROOT, off) = p /\ p # 0 /\ p \in Block
           /\ Entry(d, off) = d.block[p][off % NINDIRECT] /\ Entry(d, off) \in Nat
<1> DEFINE b == off \div NINDIRECT
           p == Pointer(d, ROOT, SlotOf(b))
<1>0. /\ Sound(d) /\ d \in Disk /\ ROOT \in Inode
      /\ d.inode[ROOT].size \in Nat /\ d.inode[ROOT].size <= LIMIT
      /\ d.inode[ROOT].ftype # "SYMLINK" /\ Present(d, ROOT)
  BY FilesParts, RootInode
<1>1. /\ b \in 0..Blocks(d, ROOT)-1 /\ b \in 0..(NDIRECT + NINDIRECT - 1)
      /\ SlotOf(b) \in Slot /\ off % NINDIRECT \in 0..NINDIRECT-1
      /\ off = NINDIRECT * b + (off % NINDIRECT)
      /\ inode_blockno(d, ROOT, off) = p
      /\ inode_data(d, ROOT, off) = d.block[p][off % NINDIRECT]
  BY <1>0, DataIs DEF Offset
<1> HIDE DEF b
<1>2. p # 0 /\ p \in Block
  BY <1>0, <1>1, SoundParts DEF Present
<1> HIDE DEF p
<1>3. Entry(d, off) = d.block[p][off % NINDIRECT] /\ Entry(d, off) \in Nat
  BY <1>0, <1>1, <1>2, DiskParts DEF Entry
<1>4. /\ b \in 0..Blocks(d, ROOT)-1 /\ b \in 0..(NDIRECT + NINDIRECT - 1)
      /\ SlotOf(b) \in Slot /\ off % NINDIRECT \in 0..NINDIRECT-1
      /\ off = NINDIRECT * b + (off % NINDIRECT)
      /\ inode_blockno(d, ROOT, off) = p /\ p # 0 /\ p \in Block
      /\ Entry(d, off) = d.block[p][off % NINDIRECT] /\ Entry(d, off) \in Nat
  BY <1>1, <1>2, <1>3
<1> QED BY ONLY <1>4, Zenon DEF b, p

LEMMA SetEntryIs ==
    ASSUME NEW d, FilesOK(d), NEW off \in Offset(d), NEW e \in Nat
    PROVE  EntrySet(d, SetEntry(d, off, e), off, e)
<1> DEFINE b == off \div NINDIRECT
           l == off % NINDIRECT
           p == Pointer(d, ROOT, SlotOf(b))
           y == SetWord(d, p, l, e)
<1>0. Sound(d) /\ d \in Disk /\ ROOT \in Inode
  BY FilesParts, RootInode
<1>1. /\ b \in 0..Blocks(d, ROOT)-1 /\ b \in 0..(NDIRECT + NINDIRECT - 1)
      /\ SlotOf(b) \in Slot /\ l \in 0..NINDIRECT-1
      /\ off = NINDIRECT * b + l
      /\ inode_blockno(d, ROOT, off) = p /\ p # 0 /\ p \in Block
  BY EntryIs
<1>2. y = SetEntry(d, off, e)
  BY <1>1 DEF SetEntry
<1> HIDE DEF b, l
<1>3. /\ y \in Disk /\ y.free = d.free /\ y.inode = d.inode
      /\ \A c \in Block : c # p => y.block[c] = d.block[c]
      /\ \A k \in 0..NINDIRECT-1 : y.block[p][k] = IF k = l THEN e ELSE d.block[p][k]
  <2> HIDE DEF p
  <2> QED BY <1>0, <1>1, SetWordIs
<1> HIDE DEF y
<1>4. Writes(d, y, ROOT)
  BY <1>1, <1>3 DEF Writes
<1>5. FilesOK(y) /\ Others(d, y, ROOT)
      /\ \A j \in Inode, k \in Slot : Pointer(y, j, k) = Pointer(d, j, k)
  BY <1>0, <1>4, WrittenFiles
<1>6. ASSUME NEW o \in Offset(d)
      PROVE  Entry(y, o) = IF o = off THEN e ELSE Entry(d, o)
  <2> DEFINE a == o \div NINDIRECT
             m == o % NINDIRECT
             q == Pointer(d, ROOT, SlotOf(a))
  <2>0. o \in Offset(y)
    BY <1>3 DEF Offset
  <2>1. /\ a \in 0..(NDIRECT + NINDIRECT - 1) /\ SlotOf(a) \in Slot /\ m \in 0..NINDIRECT-1
        /\ o = NINDIRECT * a + m /\ q # 0 /\ q \in Block
        /\ Entry(d, o) = d.block[q][m]
    BY EntryIs
  <2>2. Entry(y, o) = y.block[Pointer(y, ROOT, SlotOf(a))][m]
    BY <1>5, <2>0, EntryIs
  <2> HIDE DEF a, m
  <2>3. Entry(y, o) = y.block[q][m]
    BY <1>0, <1>5, <2>1, <2>2
  <2>4. CASE o = off
    <3>1. a = b /\ m = l
      BY <2>4 DEF a, b, m, l
    <3> QED BY <1>1, <1>3, <2>3, <2>4, <3>1
  <2>5. CASE o # off
    <3>1. ~(a = b /\ m = l)
      BY <1>1, <2>1, <2>5
    <3>2. CASE a = b
      BY <1>1, <1>3, <2>1, <2>3, <2>5, <3>1, <3>2
    <3>3. CASE a # b
      <4>1. SlotOf(a) # SlotOf(b)
        BY <1>1, <2>1, <3>3, SlotOfIs
      <4>2. q # p
        BY <1>0, <1>1, <2>1, <4>1 DEF Sound
      <4> QED BY <1>3, <2>1, <2>3, <2>5, <4>2
    <3> QED BY <3>2, <3>3
  <2> QED BY <2>4, <2>5
<1>7. EntrySet(d, y, off, e)
  BY <1>3, <1>5, <1>6 DEF EntrySet
<1> QED BY <1>2, <1>7

\* The directory holds the same names.
DirKept(d, y) ==
    /\ Used(y) = Used(d)
    /\ \A off \in Used(d) : Entry(y, off) = Entry(d, off)

LEMMA DirKeptNamed ==
    ASSUME NEW d, NEW y, DirKept(d, y)
    PROVE  \A i : Named(y, i) = Named(d, i)
  BY DEF DirKept, Named

LEMMA DirKeptNames ==
    ASSUME NEW d, NEW y, DirKept(d, y), NamesInv(d),
           \A i \in Inode : y.inode[i].nlink = d.inode[i].nlink
                            \/ Cardinality(Named(d, i)) <= y.inode[i].nlink
    PROVE  NamesInv(y)
<1>1. \A i \in Inode : Named(y, i) = Named(d, i)
  BY DirKeptNamed
<1>2. \A i \in Inode : Cardinality(Named(y, i)) <= y.inode[i].nlink
  BY <1>1 DEF NamesInv
<1> QED BY <1>2 DEF DirKept, NamesInv

LEMMA SameDir ==
    ASSUME NEW d, NEW y, Contents(y, ROOT) = Contents(d, ROOT)
    PROVE  DirKept(d, y) /\ Offset(y) = Offset(d) /\ \A off \in Offset(d) : Entry(y, off) = Entry(d, off)
<1>1. Offset(y) = DOMAIN Contents(y, ROOT) /\ Offset(d) = DOMAIN Contents(d, ROOT)
  BY DEF Offset, Contents
<1>2. \A off \in Offset(d) : Entry(d, off) = Contents(d, ROOT)[off]
  BY DEF Offset, Contents, Entry
<1>3. \A off \in Offset(y) : Entry(y, off) = Contents(y, ROOT)[off]
  BY DEF Offset, Contents, Entry
<1>4. Offset(y) = Offset(d) /\ \A off \in Offset(d) : Entry(y, off) = Entry(d, off)
  BY <1>1, <1>2, <1>3
<1> QED BY <1>4 DEF DirKept, Used

LEMMA GrownDir ==
    ASSUME NEW d, NEW y, Offset(d) \subseteq Offset(y),
           \A off \in Offset(d) : Entry(y, off) = Entry(d, off),
           \A off \in Offset(y) \ Offset(d) : od_ino(Entry(y, off)) = 0
    PROVE  DirKept(d, y)
  BY DEF DirKept, Used

LEMMA NamedFinite ==
    ASSUME NEW d, FilesOK(d), NEW i
    PROVE  IsFiniteSet(Named(d, i)) /\ Cardinality(Named(d, i)) \in Nat
<1>1. d.inode[ROOT].size \in Nat
  BY FilesParts, RootInode
<1>2. IsFiniteSet(Offset(d))
  BY <1>1, FS_Interval DEF Offset
<1>3. Named(d, i) \subseteq Offset(d)
  BY DEF Named, Used
<1> QED BY <1>2, <1>3, FS_Subset, FS_CardinalityType

LEMMA FindIs ==
    ASSUME NEW d, FilesOK(d), NEW name, NEW off, off = find_direntry(d, name)
    PROVE  /\ off = -1 => \A o \in Used(d) : od_name(Entry(d, o)) # name
           /\ off >= 0 => off \in Used(d) /\ od_name(Entry(d, off)) = name
           /\ off = -1 \/ off \in Nat
<1> DEFINE match == {o \in Offset(d) : od_ino(Entry(d, o)) # 0 /\ od_name(Entry(d, o)) = name}
<1>0. match \in SUBSET Nat
  BY DEF Offset
<1>1. CASE match = {}
  <2>1. off = -1
    BY <1>1 DEF find_direntry
  <2> QED BY <1>1, <2>1 DEF Used
<1>2. CASE match # {}
  <2>1. off = Min(match)
    BY <1>2 DEF find_direntry
  <2>2. Min(match) \in match
    <3> HIDE DEF match
    <3> QED BY <1>0, <1>2, MinIs
  <2>3. off \in match /\ off \in Nat
    BY <1>0, <2>1, <2>2
  <2> QED BY <2>3 DEF Used
<1> QED BY <1>1, <1>2

LEMMA EntryWord ==
    ASSUME NEW name \in Nat, NEW i \in 0..NINODES-1
    PROVE  /\ NINODES * name + i \in Nat
           /\ od_ino(NINODES * name + i) = i /\ od_name(NINODES * name + i) = name
<1>1. NINODES \in Nat \ {0} /\ NINODES * name \in Nat /\ i \in Nat
  BY Constants
<1>2. PICK a \in Int : a = NINODES * name + i /\ a \in Nat
  BY <1>1
<1>3. a \div NINODES = name /\ a % NINODES = i
  BY <1>1, <1>2, DivisionUnique
<1> QED BY <1>2, <1>3 DEF od_ino, od_name

LEMMA BlankWord ==
    ASSUME NEW e \in Nat
    PROVE  e - od_ino(e) \in Nat /\ od_ino(e - od_ino(e)) = 0
<1> DEFINE q == e \div NINODES
           r == e % NINODES
<1>1. NINODES \in Nat \ {0} /\ e \in Int
  BY Constants
<1>2. e = NINODES * q + r /\ q \in Int /\ r \in 0..(NINODES - 1)
  BY <1>1, Division
<1>3. od_ino(e) = r
  BY DEF od_ino
<1> HIDE DEF q, r
<1>4. NINODES * q \in Int
  BY <1>1, <1>2
<1>5. q >= 0
  <2> SUFFICES ASSUME q < 0 PROVE FALSE
    BY <1>2
  <2>1. NINODES * 0 >= NINODES * q + NINODES
    BY <1>1, <1>2, NextMultiple
  <2> QED BY <1>1, <1>2, <1>4, <2>1
<1>6. e - r = NINODES * q /\ e - r = NINODES * q + 0 /\ q \in Nat /\ 0 \in 0..NINODES-1
  BY <1>1, <1>2, <1>4, <1>5
<1>7. NINODES * q + 0 \in Nat /\ od_ino(NINODES * q + 0) = 0
  BY <1>6, EntryWord
<1> QED BY <1>3, <1>6, <1>7

\* With every entry in use and a name missing, the directory has less entries
\* than there are names.
LEMMA FullDirectory ==
    ASSUME NEW d, FilesOK(d), NamesInv(d), BelowIndirect2, NEW name \in Name,
           \A o \in Used(d) : od_name(Entry(d, o)) # name, Used(d) = Offset(d)
    PROVE  d.inode[ROOT].size + DirGrow * NINDIRECT <= LIMIT
<1> DEFINE size == d.inode[ROOT].size
           T == Name \ {name}
           f == [o \in Offset(d) |-> od_name(Entry(d, o))]
<1>1. size \in Nat
  BY FilesParts, RootInode
<1>2. IsFiniteSet(Offset(d)) /\ Cardinality(Offset(d)) = size
  <2> HIDE DEF size
  <2>0. 0 \in Int /\ size - 1 \in Int
    BY <1>1
  <2>1. IsFiniteSet(0..size-1) /\ Cardinality(0..size-1) = IF 0 > size - 1 THEN 0 ELSE size-1-0+1
    BY <2>0, FS_Interval, Zenon
  <2>2. Cardinality(0..size-1) = size
    BY <1>1, <2>1
  <2> QED BY <2>1, <2>2 DEF Offset, size
<1>3. IsFiniteSet(T) /\ Cardinality(T) = Cardinality(Name) - 1 /\ Cardinality(Name) \in Nat
  <2>1. IsFiniteSet(Name)
    BY DEF BelowIndirect2
  <2> QED BY <2>1, FS_RemoveElement, FS_CardinalityType
<1>4. f \in [Offset(d) -> T]
  BY DEF NamesInv
<1>5. ~(\E x, y \in Offset(d) : x # y /\ f[x] = f[y])
  BY DEF NamesInv
<1> HIDE DEF f, T
<1>6. ~(Cardinality(T) < size)
  BY <1>2, <1>3, <1>4, <1>5, FS_PigeonHole
<1>7. DirGrow * NINDIRECT \in Nat /\ LIMIT \in Nat
  BY Constants
<1>8. Cardinality(Name) + DirGrow * NINDIRECT <= LIMIT + 1
  BY DEF BelowIndirect2
<1> QED BY <1>1, <1>3, <1>6, <1>7, <1>8

\* create_blank_direntry() keeps the names, and what it finds is blank.
Blanked(d, b) ==
    /\ FilesOK(b.disk) /\ Others(d, b.disk, ROOT) /\ OnlyFile(d, b.disk, ROOT)
    /\ DirKept(d, b.disk)
    /\ b.ret = "ok" => b.off \in Offset(b.disk) \ Used(b.disk)

LEMMA CreateBlankIs ==
    ASSUME NEW d, FilesOK(d), NamesInv(d), BelowIndirect2, NEW name \in Name,
           \A o \in Used(d) : od_name(Entry(d, o)) # name
    PROVE  Blanked(d, create_blank_direntry(d))
<1> DEFINE blank == {off \in Offset(d) : od_ino(Entry(d, off)) = 0}
           size == d.inode[ROOT].size
           b == create_blank_direntry(d)
<1>0. blank \in SUBSET Nat
  BY DEF Offset
<1>1. CASE blank # {}
  <2>1. b.disk = d /\ b.off = Min(blank)
    BY <1>1 DEF create_blank_direntry, EntryAt, Done
  <2>2. Min(blank) \in blank
    <3> HIDE DEF blank
    <3> QED BY <1>0, <1>1, MinIs
  <2>3. b.off \in Offset(d) \ Used(d)
    BY <2>1, <2>2 DEF Used
  <2> HIDE DEF b
  <2>4. Blanked(d, b)
    BY <2>1, <2>3 DEF Blanked, Others, OnlyFile, DirKept
  <2> QED BY <2>4 DEF b
<1>2. CASE blank = {}
  <2> DEFINE t == size + DirGrow * NINDIRECT
             c == change_size(d, ROOT, t)
  <2>0. size \in Nat /\ ROOT \in Inode /\ d.inode[ROOT].ftype # "SYMLINK"
        /\ size = NINDIRECT * Blocks(d, ROOT) /\ Blocks(d, ROOT) \in Nat
    BY FilesParts, RootInode
  <2>1. b.disk = c.disk /\ b.ret = c.ret /\ b.off = size + 1
    BY <1>2 DEF create_blank_direntry, EntryAt
  <2>2. Used(d) = Offset(d)
    BY <1>2 DEF Used
  <2>3. t <= LIMIT /\ t \in Nat /\ DirGrow * NINDIRECT \in Nat /\ LIMIT \in Nat
        /\ 1 < DirGrow * NINDIRECT
    BY <2>0, <2>2, FullDirectory, Constants, LayoutAssumption
  <2>4. t = NINDIRECT * size2nblocks(t)
    <3> DEFINE n == Blocks(d, ROOT) + DirGrow
    <3>1. n \in Nat /\ NINDIRECT * n = NINDIRECT * Blocks(d, ROOT) + DirGrow * NINDIRECT
      BY <2>0, Constants
    <3>2. t = NINDIRECT * n
      BY <2>0, <3>1
    <3> HIDE DEF t, n
    <3>3. t + NINDIRECT - 1 < Width /\ t <= NINDIRECT * n /\ NINDIRECT * n < t + NINDIRECT
      BY <2>3, <3>2, Constants
    <3>4. size2nblocks(t) = n
      BY <2>3, <3>1, <3>3, BlocksOf
    <3> QED BY <3>2, <3>4
  <2> HIDE DEF t
  <2>5. FilesOK(c.disk) /\ Others(d, c.disk, ROOT) /\ OnlyFile(d, c.disk, ROOT)
        /\ SizeResult(d, c, ROOT, t)
    BY <2>0, <2>3, <2>4, ChangeSizeFiles
  <2> HIDE DEF c, b
  <2>6. CASE c.ret = "ok" /\ Resized(d, c.disk, ROOT, t)
    <3> DEFINE y == c.disk
    <3>1. Offset(y) = 0..t-1 /\ Offset(d) = 0..size-1 /\ Offset(d) \subseteq Offset(y)
      <4>1. y.inode[ROOT].size = t
        BY <2>6 DEF Resized
      <4> QED BY <2>0, <2>3, <4>1 DEF Offset, t
    <3>2. ASSUME NEW off \in Offset(d) PROVE Entry(y, off) = Entry(d, off)
      <4>1. off < size /\ off \in 0..t-1
        BY <2>0, <3>1
      <4> QED BY <2>0, <2>3, <2>6, <4>1, ResizedData DEF Entry
    <3>3. ASSUME NEW off \in Offset(y) \ Offset(d) PROVE od_ino(Entry(y, off)) = 0
      <4> DEFINE q == off \div NINDIRECT
                 r == off % NINDIRECT
      <4>1. off \in 0..t-1 /\ off >= size /\ off \in Int
        BY <2>0, <2>3, <3>1
      <4>2. off = NINDIRECT * q + r /\ q \in Int /\ r \in 0..(NINDIRECT - 1)
        BY <4>1, Constants, Division
      <4> HIDE DEF q, r
      <4>3. ~(q < Blocks(d, ROOT))
        <5> SUFFICES ASSUME q < Blocks(d, ROOT) PROVE FALSE
          OBVIOUS
        <5>1. NINDIRECT * Blocks(d, ROOT) >= NINDIRECT * q + NINDIRECT
          BY <2>0, <4>2, Constants, NextMultiple
        <5>2. NINDIRECT * q \in Int /\ NINDIRECT \in Nat
          BY <4>2, Constants
        <5> QED BY <2>0, <4>1, <4>2, <5>1, <5>2
      <4>4. Entry(y, off) = 0
        BY <2>0, <2>3, <2>6, <4>1, <4>3, ResizedData DEF Entry, q
      <4>5. 0 \in 0..NINODES-1 /\ 0 \in Nat /\ NINODES * 0 + 0 = 0
        BY Constants
      <4>6. od_ino(NINODES * 0 + 0) = 0
        BY <4>5, EntryWord
      <4> QED BY <4>4, <4>5, <4>6
    <3>4. DirKept(d, y)
      BY <3>1, <3>2, <3>3, GrownDir
    <3>5. size + 1 \in Offset(y) \ Offset(d)
      BY <2>0, <2>3, <3>1 DEF t
    <3>6. size + 1 \in Offset(y) \ Used(y)
      BY <3>3, <3>5 DEF Used
    <3> HIDE DEF y, size
    <3>7. Blanked(d, b)
      BY <2>1, <2>5, <3>4, <3>6 DEF Blanked, y
    <3> QED BY <3>7 DEF b
  <2>7. CASE c.ret = "ENOSPC" /\ Restored(d, c.disk, ROOT)
    <3>1. Contents(c.disk, ROOT) = Contents(d, ROOT)
      BY <2>0, <2>7, RestoredData
    <3>2. DirKept(d, c.disk)
      BY <3>1, SameDir
    <3>3. Blanked(d, b)
      BY <2>1, <2>5, <2>7, <3>2 DEF Blanked
    <3> QED BY <3>3 DEF b
  <2> QED BY <2>5, <2>6, <2>7 DEF SizeResult
<1> QED BY <1>1, <1>2

LEMMA OthersTransitive ==
    ASSUME NEW d, NEW x, NEW y, NEW i, Others(d, x, i), Others(x, y, i)
    PROVE  Others(d, y, i)
  BY DEF Others

\* The entry off leads to i under a new name.
NameAdded(d, y, off, name, i) ==
    /\ off \notin Used(d) /\ Used(y) = Used(d) \cup {off}
    /\ od_ino(Entry(y, off)) = i /\ od_name(Entry(y, off)) = name
    /\ \A o \in Used(d) : Entry(y, o) = Entry(d, o)

LEMMA NameAddedNames ==
    ASSUME NEW d, FilesOK(d), NamesInv(d), NEW y, NEW off, NEW name \in Name,
           NEW i \in Inode \ {ROOT}, NameAdded(d, y, off, name, i),
           \A o \in Used(d) : od_name(Entry(d, o)) # name,
           \A j \in Inode : j # i => y.inode[j].nlink = d.inode[j].nlink,
           Cardinality(Named(d, i)) + 1 <= y.inode[i].nlink
    PROVE  NamesInv(y)
<1>1. \A j : j # i => Named(y, j) = Named(d, j)
  BY DEF NameAdded, Named
<1>2. Named(y, i) = Named(d, i) \cup {off} /\ off \notin Named(d, i)
  BY DEF NameAdded, Named
<1>3. Cardinality(Named(y, i)) = Cardinality(Named(d, i)) + 1
  BY <1>2, NamedFinite, FS_AddElement
<1>4. \A j \in Inode : Cardinality(Named(y, j)) <= y.inode[j].nlink
  BY <1>1, <1>3 DEF NamesInv
<1>5. \A o \in Used(y) : od_ino(Entry(y, o)) \in Inode \ {ROOT} /\ od_name(Entry(y, o)) \in Name
  BY DEF NameAdded, NamesInv
<1>6. ASSUME NEW o1 \in Used(y), NEW o2 \in Used(y), od_name(Entry(y, o1)) = od_name(Entry(y, o2))
      PROVE  o1 = o2
  <2>1. CASE o1 \in Used(d) /\ o2 \in Used(d)
    BY <1>6, <2>1 DEF NameAdded, NamesInv
  <2>2. CASE o1 = off
    BY <1>6, <2>2 DEF NameAdded
  <2>3. CASE o2 = off
    BY <1>6, <2>3 DEF NameAdded
  <2> QED BY <2>1, <2>2, <2>3 DEF NameAdded
<1> QED BY <1>4, <1>5, <1>6 DEF NamesInv

LEMMA EnterIs ==
    ASSUME NEW d, FilesOK(d), NEW b, Blanked(d, b), b.ret = "ok", NEW name \in Name,
           NEW i \in Inode, NEW z, z = Enter(b, name, i)
    PROVE  /\ FilesOK(z) /\ Others(d, z, ROOT) /\ OnlyFile(d, z, ROOT)
           /\ NameAdded(d, z, b.off, name, i)
<1> DEFINE x == b.disk
           e == NINODES * name + i
<1>1. name \in Nat /\ i \in 0..NINODES-1 /\ i # 0
  BY CallAssumption, Constants DEF Inode
<1>2. e \in Nat /\ od_ino(e) = i /\ od_name(e) = name
  BY <1>1, EntryWord
<1>3. z = SetEntry(x, b.off, e)
  BY DEF Enter
<1> HIDE DEF e
<1>4. FilesOK(x) /\ b.off \in Offset(x) /\ b.off \notin Used(x) /\ DirKept(d, x)
      /\ Others(d, x, ROOT) /\ OnlyFile(d, x, ROOT)
  BY DEF Blanked
<1>5. EntrySet(x, z, b.off, e)
  BY <1>2, <1>3, <1>4, SetEntryIs
<1>6. Offset(z) = Offset(x) /\ OnlyFile(d, z, ROOT)
  BY <1>4, <1>5 DEF EntrySet, Offset, OnlyFile
<1>7. Used(z) = Used(x) \cup {b.off} /\ Entry(z, b.off) = e
      /\ \A o \in Used(x) : Entry(z, o) = Entry(x, o)
  <2>1. \A o \in Offset(x) : Entry(z, o) = IF o = b.off THEN e ELSE Entry(x, o)
    BY <1>5 DEF EntrySet
  <2> QED BY <1>1, <1>2, <1>4, <1>6, <2>1 DEF Used
<1>8. NameAdded(d, z, b.off, name, i)
  BY <1>2, <1>4, <1>7 DEF NameAdded, DirKept
<1>9. Others(d, z, ROOT)
  BY <1>4, <1>5, OthersTransitive DEF EntrySet
<1> QED BY <1>5, <1>6, <1>8, <1>9 DEF EntrySet

\* The entries with other names than those in gone stay.
Stays(d, y, gone) ==
    \A off \in Used(d) : \/ od_name(Entry(d, off)) \in gone
                         \/ off \in Used(y) /\ Entry(y, off) = Entry(d, off)

\* y is in order, and of the files only i, if any, has other contents than in d.
Keeps(d, y, i, gone) ==
    /\ FilesOK(y) /\ NamesInv(y) /\ Stays(d, y, gone)
    /\ \A j \in Inode \ {ROOT} : j # i => Contents(y, j) = Contents(d, j)

LEMMA BlankedNames ==
    ASSUME NEW d, NamesInv(d), NEW b, Blanked(d, b)
    PROVE  NamesInv(b.disk)
<1>1. \A i \in Inode : b.disk.inode[i].nlink = d.inode[i].nlink
  BY RootInode DEF Blanked, OnlyFile
<1> QED BY <1>1, DirKeptNames DEF Blanked

LEMMA KeptStays ==
    ASSUME NEW d, NEW y, DirKept(d, y)
    PROVE  Stays(d, y, {})
  BY DEF DirKept, Stays

LEMMA AddedStays ==
    ASSUME NEW d, NEW y, NEW off, NEW name, NEW i, NameAdded(d, y, off, name, i)
    PROVE  Stays(d, y, {})
  BY DEF NameAdded, Stays

\* An unused inode gets a head and, if there is room, a name.
LEMMA NewFile ==
    ASSUME NEW d, FilesOK(d), NamesInv(d), BelowIndirect2, NEW name \in Name,
           \A o \in Used(d) : od_name(Entry(d, o)) # name,
           NEW i \in Inode \ {ROOT}, d.inode[i].nlink = 0, NEW x, Headed(d, x, i),
           x.inode[i].nlink = 1, x.inode[i].ftype # "DIR",
           x.inode[i].size = 0 \/ (x.inode[i].size <= 1 /\ x.inode[i].ftype = "SYMLINK")
    PROVE  Keeps(d, Enter(create_blank_direntry(x), name, i), i, {})
<1> DEFINE b == create_blank_direntry(x)
           z == Enter(b, name, i)
<1>1. FilesOK(x) /\ Others(d, x, i)
  BY HeadedFiles
<1>2. Contents(x, ROOT) = Contents(d, ROOT)
  BY <1>1, RootInode DEF Others
<1>3. DirKept(d, x)
  BY <1>2, SameDir
<1>4. Cardinality(Named(x, i)) = 0
  <2>1. Named(x, i) = Named(d, i)
    BY <1>3, DirKeptNamed
  <2>2. Cardinality(Named(d, i)) \in Nat /\ Cardinality(Named(d, i)) <= 0
    BY NamedFinite DEF NamesInv
  <2> QED BY <2>1, <2>2
<1>5. NamesInv(x)
  <2>1. Named(x, i) = Named(d, i)
    BY <1>3, DirKeptNamed
  <2>2. \A j \in Inode : x.inode[j].nlink = d.inode[j].nlink
                         \/ Cardinality(Named(d, j)) <= x.inode[j].nlink
    BY <1>4, <2>1 DEF Headed
  <2> QED BY <1>3, <2>2, DirKeptNames
<1>6. \A o \in Used(x) : od_name(Entry(x, o)) # name
  BY <1>3 DEF DirKept
<1>7. Blanked(x, b)
  BY <1>1, <1>5, <1>6, CreateBlankIs
<1> HIDE DEF b
<1>8. ASSUME NEW y, FilesOK(y), NamesInv(y), Others(x, y, ROOT), Stays(x, y, {})
      PROVE  Keeps(d, y, i, {})
  <2>1. Stays(d, y, {})
    BY <1>3, <1>8 DEF Stays, DirKept
  <2> QED BY <1>1, <1>8, <2>1 DEF Keeps, Others
<1>9. CASE b.ret # "ok"
  <2>1. z = b.disk
    BY <1>9 DEF Enter
  <2> HIDE DEF z
  <2>2. Keeps(d, z, i, {})
    BY <1>5, <1>7, <1>8, <2>1, BlankedNames, KeptStays DEF Blanked
  <2> QED BY <2>2 DEF z, b
<1>10. CASE b.ret = "ok"
  <2>1. FilesOK(z) /\ Others(x, z, ROOT) /\ OnlyFile(x, z, ROOT) /\ NameAdded(x, z, b.off, name, i)
    BY <1>1, <1>7, <1>10, EnterIs
  <2> HIDE DEF z
  <2>2. \A j \in Inode : z.inode[j].nlink = x.inode[j].nlink
    BY <2>1, RootInode DEF OnlyFile
  <2>3. Cardinality(Named(x, i)) + 1 <= z.inode[i].nlink
    BY <1>4, <2>2
  <2>4. NamesInv(z)
    BY <1>1, <1>5, <1>6, <2>1, <2>2, <2>3, NameAddedNames
  <2>5. Keeps(d, z, i, {})
    BY <1>8, <2>1, <2>4, AddedStays
  <2> QED BY <2>5 DEF z, b
<1> QED BY <1>9, <1>10

LEMMA LinkedIs ==
    ASSUME NEW d \in Disk, NEW i \in Inode, NEW n \in Nat
    PROVE  LET y == [d EXCEPT !.inode[i].nlink = n] IN
           /\ Headed(d, y, i) /\ y.inode[i].nlink = n
           /\ y.inode[i].size = d.inode[i].size /\ y.inode[i].ftype = d.inode[i].ftype
  BY DEF Disk, Headed

\* A second name.
LEMMA RelinkIs ==
    ASSUME NEW d, FilesOK(d), NamesInv(d), BelowIndirect2, NEW name \in Name,
           \A o \in Used(d) : od_name(Entry(d, o)) # name, NEW i \in Inode \ {ROOT}
    PROVE  Keeps(d, Relink(create_blank_direntry(d), name, i), 0, {})
<1> DEFINE b == create_blank_direntry(d)
           y == Enter(b, name, i)
           z == Relink(b, name, i)
<1>0. Blanked(d, b)
  BY CreateBlankIs
<1> HIDE DEF b
<1>1. CASE b.ret # "ok"
  <2>1. z = b.disk
    BY <1>1 DEF Relink
  <2> HIDE DEF z
  <2>2. Keeps(d, z, 0, {})
    BY <1>0, <2>1, BlankedNames, KeptStays DEF Blanked, Keeps, Others
  <2> QED BY <2>2 DEF z, b
<1>2. CASE b.ret = "ok"
  <2>1. FilesOK(y) /\ Others(d, y, ROOT) /\ OnlyFile(d, y, ROOT) /\ NameAdded(d, y, b.off, name, i)
    BY <1>0, <1>2, EnterIs
  <2>2. z = [y EXCEPT !.inode[i].nlink = y.inode[i].nlink + 1]
    BY <1>2 DEF Relink
  <2> HIDE DEF y, z
  <2>3. y \in Disk /\ y.inode[i].nlink \in Nat /\ y.inode[i].nlink + 1 \in Nat
        /\ y.inode[i].ftype # "DIR"
    BY <2>1, FilesParts
  <2>4. /\ Headed(y, z, i) /\ z.inode[i].nlink = y.inode[i].nlink + 1
        /\ z.inode[i].size = y.inode[i].size /\ z.inode[i].ftype = y.inode[i].ftype
    BY <2>2, <2>3, LinkedIs
  <2>5. FilesOK(z) /\ Others(y, z, i) /\ Contents(z, i) = Contents(y, i)
    BY <2>1, <2>3, <2>4, HeadedFiles
  <2>6. \A j \in Inode : Contents(z, j) = Contents(y, j)
    BY <2>5 DEF Others
  <2>7. \A j \in Inode \ {ROOT} : Contents(z, j) = Contents(d, j)
    BY <2>1, <2>6 DEF Others
  <2>8. DirKept(y, z)
    BY <2>6, SameDir, RootInode
  <2>9. NameAdded(d, z, b.off, name, i)
    BY <2>1, <2>8 DEF NameAdded, DirKept
  <2>10. \A j \in Inode : j # i => z.inode[j].nlink = d.inode[j].nlink
    BY <2>1, <2>5, RootInode DEF OnlyFile, Others
  <2>11. Cardinality(Named(d, i)) + 1 <= z.inode[i].nlink
    <3>1. z.inode[i].nlink = d.inode[i].nlink + 1 /\ d.inode[i].nlink \in Nat
      BY <2>1, <2>4, FilesParts DEF OnlyFile
    <3>2. Cardinality(Named(d, i)) \in Nat /\ Cardinality(Named(d, i)) <= d.inode[i].nlink
      BY NamedFinite DEF NamesInv
    <3> QED BY <3>1, <3>2
  <2>12. NamesInv(z)
    BY <2>9, <2>10, <2>11, NameAddedNames
  <2>13. Keeps(d, z, 0, {})
    BY <2>5, <2>7, <2>9, <2>12, AddedStays DEF Keeps
  <2> QED BY <2>13 DEF z, b
<1> QED BY <1>1, <1>2

\* A name is removed.
LEMMA NameRemoved ==
    ASSUME NEW d, FilesOK(d), NamesInv(d), NEW off \in Used(d), NEW i, i = od_ino(Entry(d, off)),
           NEW e, od_ino(e) = 0, NEW x, EntrySet(d, x, off, e), NEW y, Headed(x, y, i),
           y.inode[i].nlink = x.inode[i].nlink - 1,
           y.inode[i].size = x.inode[i].size, y.inode[i].ftype = x.inode[i].ftype
    PROVE  Keeps(d, y, 0, {od_name(Entry(d, off))})
<1>1. i \in Inode \ {ROOT} /\ off \in Offset(d) /\ off \in Named(d, i)
  BY DEF NamesInv, Used, Named
<1>6. FilesOK(x) /\ Others(d, x, ROOT) /\ x.inode = d.inode /\ Offset(x) = Offset(d)
  BY DEF EntrySet, Offset
<1>7. Used(x) = Used(d) \ {off} /\ \A o \in Used(x) : Entry(x, o) = Entry(d, o)
  <2>1. \A o \in Offset(d) : Entry(x, o) = IF o = off THEN e ELSE Entry(d, o)
    BY DEF EntrySet
  <2> QED BY <1>6, <2>1 DEF Used
<1>8. Cardinality(Named(d, i)) \in Nat /\ Cardinality(Named(d, i)) <= d.inode[i].nlink
      /\ Cardinality(Named(d, i)) # 0 /\ IsFiniteSet(Named(d, i)) /\ d.inode[i].nlink \in Nat
  <2>1. IsFiniteSet(Named(d, i)) /\ Cardinality(Named(d, i)) \in Nat
    BY NamedFinite
  <2>2. Cardinality(Named(d, i)) # 0
    BY <1>1, <2>1, FS_EmptySet
  <2> QED BY <1>1, <2>1, <2>2, FilesParts DEF NamesInv
<1>9. y.inode[i].ftype # "DIR"
  BY <1>1, <1>6, FilesParts
<1>10. y.inode[i].nlink = d.inode[i].nlink - 1
  BY <1>6
<1>11. FilesOK(y) /\ Others(x, y, i) /\ Contents(y, i) = Contents(x, i)
  BY <1>1, <1>6, <1>9, HeadedFiles
<1>12. \A j \in Inode : Contents(y, j) = Contents(x, j)
  BY <1>11 DEF Others
<1>13. DirKept(x, y)
  BY <1>12, SameDir, RootInode
<1>14. Used(y) = Used(d) \ {off} /\ \A o \in Used(y) : Entry(y, o) = Entry(d, o)
  BY <1>7, <1>13 DEF DirKept
<1>15. Named(y, i) = Named(d, i) \ {off} /\ \A j : j # i => Named(y, j) = Named(d, j)
  BY <1>14 DEF Named
<1>16. Cardinality(Named(y, i)) = Cardinality(Named(d, i)) - 1
  BY <1>1, <1>8, <1>15, FS_RemoveElement
<1>17. \A j \in Inode : j # i => y.inode[j].nlink = d.inode[j].nlink
  BY <1>6, <1>11 DEF Others
<1>18. Cardinality(Named(y, i)) <= y.inode[i].nlink
  BY <1>8, <1>10, <1>16
<1>19. \A j \in Inode : Cardinality(Named(y, j)) <= y.inode[j].nlink
  BY <1>15, <1>17, <1>18 DEF NamesInv
<1>20. NamesInv(y)
  BY <1>14, <1>19 DEF NamesInv
<1>21. \A j \in Inode \ {ROOT} : Contents(y, j) = Contents(d, j)
  BY <1>6, <1>12 DEF Others
<1>22. Stays(d, y, {od_name(Entry(d, off))})
  <2>1. \A o \in Used(d) : o = off \/ (o \in Used(y) /\ Entry(y, o) = Entry(d, o))
    BY <1>14
  <2>2. \A o \in Used(d) : \/ od_name(Entry(d, o)) \in {od_name(Entry(d, off))}
                           \/ o \in Used(y) /\ Entry(y, o) = Entry(d, o)
    BY <2>1
  <2> QED BY <2>2 DEF Stays
<1> QED BY <1>11, <1>20, <1>21, <1>22 DEF Keeps

LEMMA UnlinkKeeps ==
    ASSUME NEW d, FilesOK(d), NamesInv(d), NEW off \in Used(d), NEW i, i = od_ino(Entry(d, off))
    PROVE  LET x == SetEntry(d, off, Entry(d, off) - i)
               y == [x EXCEPT !.inode[i].nlink = @ - 1] IN
           i \in Inode \ {ROOT} /\ Keeps(d, y, 0, {od_name(Entry(d, off))})
<1> DEFINE e == Entry(d, off) - i
           x == SetEntry(d, off, e)
           n == x.inode[i].nlink - 1
           y == [x EXCEPT !.inode[i].nlink = n]
<1>1. i \in Inode \ {ROOT} /\ off \in Offset(d) /\ off \in Named(d, i)
  BY DEF NamesInv, Used, Named
<1>2. Entry(d, off) \in Nat
  BY <1>1, EntryIs
<1>3. e \in Nat /\ od_ino(e) = 0
  BY <1>2, BlankWord
<1> HIDE DEF e
<1>4. EntrySet(d, x, off, e)
  BY <1>1, <1>3, SetEntryIs
<1> HIDE DEF x
<1>5. x \in Disk /\ x.inode = d.inode
  BY <1>1, <1>4, FilesParts DEF EntrySet
<1>6. n \in Nat
  <2>1. IsFiniteSet(Named(d, i)) /\ Cardinality(Named(d, i)) \in Nat
    BY NamedFinite
  <2>2. Cardinality(Named(d, i)) # 0
    BY <1>1, <2>1, FS_EmptySet
  <2>3. Cardinality(Named(d, i)) <= d.inode[i].nlink /\ d.inode[i].nlink \in Nat
    BY <1>1, FilesParts DEF NamesInv
  <2> QED BY <1>5, <2>1, <2>2, <2>3
<1> HIDE DEF n
<1>7. /\ Headed(x, y, i) /\ y.inode[i].nlink = n
      /\ y.inode[i].size = x.inode[i].size /\ y.inode[i].ftype = x.inode[i].ftype
  BY <1>1, <1>5, <1>6, LinkedIs
<1> HIDE DEF y
<1>8. Keeps(d, y, 0, {od_name(Entry(d, off))})
  BY <1>3, <1>4, <1>7, NameRemoved DEF n
<1> QED BY <1>1, <1>8 DEF y, n, x, e

\* A change of the size of a file keeps the names.
LEMMA SizeKeeps ==
    ASSUME NEW d, FilesOK(d), NamesInv(d), NEW i \in Inode \ {ROOT}, NEW t \in Nat, t <= LIMIT,
           NEW c, c = change_size(d, i, t)
    PROVE  /\ Keeps(d, c.disk, i, {}) /\ OnlyFile(d, c.disk, i)
           /\ SizeResult(d, c, i, t)
<1>1. /\ FilesOK(c.disk) /\ Others(d, c.disk, i) /\ OnlyFile(d, c.disk, i)
      /\ SizeResult(d, c, i, t)
  BY ChangeSizeFiles
<1>2. DirKept(d, c.disk)
  BY <1>1, SameDir, RootInode DEF Others
<1>3. \A j \in Inode : c.disk.inode[j].nlink = d.inode[j].nlink
  BY <1>1 DEF OnlyFile
<1>4. NamesInv(c.disk)
  BY <1>2, <1>3, DirKeptNames
<1> QED BY <1>1, <1>2, <1>4, KeptStays DEF Keeps, Others

\* So does a change of the head that leaves size, type and links.
LEMMA HeadKeeps ==
    ASSUME NEW d, FilesOK(d), NamesInv(d), NEW i \in Inode \ {ROOT}, NEW y, Headed(d, y, i),
           y.inode[i].size = d.inode[i].size, y.inode[i].ftype = d.inode[i].ftype,
           y.inode[i].nlink = d.inode[i].nlink
    PROVE  Keeps(d, y, 0, {})
<1>1. FilesOK(y) /\ Others(d, y, i) /\ Contents(y, i) = Contents(d, i)
  <2>1. y.inode[i].ftype # "DIR"
    BY FilesParts
  <2> QED BY <2>1, HeadedFiles
<1>2. DirKept(d, y)
  BY <1>1, SameDir, RootInode DEF Others
<1>3. \A j \in Inode : y.inode[j].nlink = d.inode[j].nlink
  BY <1>1 DEF Others
<1>4. NamesInv(y)
  BY <1>2, <1>3, DirKeptNames
<1> QED BY <1>1, <1>2, <1>4, KeptStays DEF Keeps, Others

LEMMA ModeKeeps ==
    ASSUME NEW d, FilesOK(d), NamesInv(d), NEW i \in Inode \ {ROOT}, NEW mode \in Nat,
           NEW y, y = SetField(d, i, 0, mode)
    PROVE  Keeps(d, y, 0, {})
<1>1. 0 \in InodeWord /\ d \in Disk /\ \A k \in 1..NDIRECT+2 : k \in InodeWord /\ k # 0
  BY Constants, FilesParts DEF InodeWord
<1>2. FieldSet(d, y, i, 0, mode)
  BY <1>1, SetFieldIs
<1>3. Headed(d, y, i) /\ y.inode[i].size = d.inode[i].size /\ y.inode[i].ftype = d.inode[i].ftype
      /\ y.inode[i].nlink = d.inode[i].nlink
  BY <1>1, <1>2 DEF FieldSet, Headed
<1> QED BY <1>3, HeadKeeps

LEMMA KeepsTransitive ==
    ASSUME NEW d, NEW x, NEW y, NEW i, NEW gone, Keeps(d, x, i, gone) \/ Keeps(d, x, 0, gone),
           Keeps(x, y, i, {}) \/ Keeps(x, y, 0, {})
    PROVE  Keeps(d, y, i, gone)
<1>1. 0 \notin Inode
  BY DEF Inode
<1>2. Stays(d, y, gone)
  <2>1. Stays(d, x, gone) /\ Stays(x, y, {})
    BY DEF Keeps
  <2>2. \A off \in Used(x) : off \in Used(y) /\ Entry(y, off) = Entry(x, off)
    BY <2>1 DEF Stays
  <2> QED BY <2>1, <2>2 DEF Stays
<1> QED BY <1>1, <1>2 DEF Keeps

-----------------------------------------------------------------------------
(* Writing.                                                                 *)

\* The copy loop, written out.
LEMMA CopyInIs ==
    ASSUME NEW d, FilesOK(d), NEW i \in Inode \ {ROOT}, NEW first \in Nat, NEW last \in Int,
           NEW v \in Nat, NEW y, y = CopyIn(Done(d), i, first, last, v).disk
    PROVE  /\ Writes(d, y, i)
           /\ \A p \in Block, k \in 0..NINDIRECT-1 :
                 y.block[p][k] = IF \E off \in Reached(d, i, first, last) :
                                       p = inode_blockno(d, i, off) /\ k = off % NINDIRECT
                                 THEN v ELSE d.block[p][k]
<1> DEFINE hit == {<<inode_blockno(d, i, off), off % NINDIRECT>> :
                      off \in Reached(d, i, first, last)}
           B == [b \in Block |-> [k \in 0..NINDIRECT-1 |->
                      IF <<b, k>> \in hit THEN v ELSE d.block[b][k]]]
<1>0. Sound(d) /\ d \in Disk /\ d.inode[i].size \in Nat /\ d.inode[i].size <= LIMIT
  BY FilesParts
<1>1. y = [d EXCEPT !.block = B]
  BY DEF CopyIn, Done
<1>2. B \in [Block -> [0..NINDIRECT-1 -> Nat]]
  BY <1>0, DiskParts
<1>3. \A p \in Block, k \in 0..NINDIRECT-1 : B[p][k] = IF <<p, k>> \in hit THEN v ELSE d.block[p][k]
  OBVIOUS
<1>4. \A p, k : <<p, k>> \in hit <=> \E off \in Reached(d, i, first, last) :
                                       p = inode_blockno(d, i, off) /\ k = off % NINDIRECT
  OBVIOUS
<1>5. \A p \in Block : (\A k : <<p, k>> \notin hit) => B[p] = d.block[p]
  <2> SUFFICES ASSUME NEW p \in Block, \A k : <<p, k>> \notin hit PROVE B[p] = d.block[p]
    OBVIOUS
  <2>1. d.block[p] \in [0..NINDIRECT-1 -> Nat]
    BY <1>0, DiskParts
  <2>2. d.block[p] = [k \in 0..NINDIRECT-1 |-> d.block[p][k]]
    BY <2>1
  <2>3. B[p] = [k \in 0..NINDIRECT-1 |-> d.block[p][k]]
    <3> HIDE DEF hit
    <3> QED OBVIOUS
  <2> QED BY <2>2, <2>3
<1> HIDE DEF hit, B
<1>6. y \in Disk /\ y.free = d.free /\ y.inode = d.inode /\ y.block = B
  BY <1>0, <1>1, <1>2 DEF Disk
<1>7. ASSUME NEW p \in Block, NEW k, <<p, k>> \in hit
      PROVE  \E b \in 0..Blocks(d, i)-1 : p # 0 /\ p = Pointer(d, i, SlotOf(b))
  <2>1. PICK off \in Reached(d, i, first, last) : p = inode_blockno(d, i, off)
    BY <1>4, <1>7
  <2>2. off \in first..last /\ off \in first..off /\ off \in Nat
    BY DEF Reached
  <2>3. p # 0
    BY <2>1, <2>2 DEF Reached
  <2>4. ~(off >= d.inode[i].size) /\ d.inode[i].ftype # "SYMLINK"
    BY <2>1, <2>3, NoBlockno
  <2>5. off \in 0..d.inode[i].size-1
    BY <1>0, <2>2, <2>4
  <2>6. off \div NINDIRECT \in 0..Blocks(d, i)-1 /\ p = Pointer(d, i, SlotOf(off \div NINDIRECT))
    BY <1>0, <2>1, <2>4, <2>5, DataIs
  <2> QED BY <2>3, <2>6
<1>8. Writes(d, y, i)
  BY <1>5, <1>6, <1>7 DEF Writes
<1> QED BY <1>3, <1>4, <1>6, <1>8

LEMMA WritesKeep ==
    ASSUME NEW d, FilesOK(d), NamesInv(d), NEW i \in Inode \ {ROOT}, NEW y, Writes(d, y, i)
    PROVE  Keeps(d, y, i, {})
<1>1. FilesOK(y) /\ Others(d, y, i)
  BY WrittenFiles
<1>2. DirKept(d, y)
  BY <1>1, SameDir, RootInode DEF Others
<1>3. \A j \in Inode : y.inode[j].nlink = d.inode[j].nlink
  BY DEF Writes
<1>4. NamesInv(y)
  BY <1>2, <1>3, DirKeptNames
<1> QED BY <1>1, <1>2, <1>4, KeptStays DEF Keeps, Others

LEMMA WriteKeeps ==
    ASSUME NEW d, FilesOK(d), NamesInv(d), NEW i \in Inode \ {ROOT}, NEW pos \in Nat, NEW n \in Nat,
           pos + n <= LIMIT, NEW v \in Nat, NEW ok \in Int
    PROVE  Keeps(d, ospfs_write(d, i, pos, n, v, ok).disk, i, {})
<1> DEFINE c == IF pos + n > d.inode[i].size THEN change_size(d, i, pos + n) ELSE Done(d)
           last == pos + ok - 1
           w == CopyIn(c, i, pos, last, v)
<1>0. ospfs_write(d, i, pos, n, v, ok) = w
  BY DEF ospfs_write
<1>1. Keeps(d, c.disk, i, {}) /\ c.ret \in {"ok", "ENOSPC"}
  <2>1. CASE pos + n > d.inode[i].size
    <3>1. pos + n \in Nat /\ c = change_size(d, i, pos + n)
      BY <2>1
    <3> HIDE DEF c
    <3> QED BY <3>1, SizeKeeps DEF SizeResult
  <2>2. CASE ~(pos + n > d.inode[i].size)
    <3>1. c.disk = d /\ c.ret = "ok"
      BY <2>2 DEF Done
    <3> HIDE DEF c
    <3> QED BY <3>1 DEF Keeps, Stays
  <2> QED BY <2>1, <2>2
<1> HIDE DEF c
<1>2. CASE c.ret # "ok"
  <2>1. w = c
    BY <1>2 DEF CopyIn
  <2> QED BY <1>0, <1>1, <2>1
<1>3. CASE c.ret = "ok"
  <2>1. w.disk = CopyIn(Done(c.disk), i, pos, last, v).disk
    BY <1>3 DEF CopyIn, Done
  <2>2. FilesOK(c.disk) /\ NamesInv(c.disk) /\ last \in Int
    BY <1>1 DEF Keeps
  <2> HIDE DEF w, last
  <2>3. Writes(c.disk, w.disk, i)
    BY <2>1, <2>2, CopyInIs
  <2>4. Keeps(c.disk, w.disk, i, {})
    BY <2>2, <2>3, WritesKeep
  <2>5. Keeps(d, w.disk, i, {})
    BY <1>1, <2>4, KeepsTransitive
  <2> QED BY <1>0, <2>5
<1> QED BY <1>2, <1>3

-----------------------------------------------------------------------------
(* The calls.                                                               *)

LEMMA FreeInodeIs ==
    ASSUME NEW d, NEW i, i = find_free_inode(d), i # 0
    PROVE  i \in Inode \ {ROOT} /\ d.inode[i].nlink = 0
<1> DEFINE T == {j \in Inode : j >= 2 /\ d.inode[j].nlink = 0}
<1>1. T # {} /\ i = Min(T)
  BY DEF find_free_inode
<1>2. T \in SUBSET Nat
  BY DEF Inode
<1>3. i \in T
  <2> HIDE DEF T
  <2> QED BY <1>1, <1>2, MinIs
<1> QED BY <1>3 DEF ROOT

LEMMA FsParts ==
    ASSUME FsInv
    PROVE  /\ FilesOK(disk) /\ NamesInv(disk) /\ disk \in Disk
           /\ held \subseteq Inode \ {ROOT} /\ calls \in 0..MaxCalls
  BY SoundParts DEF FsInv, FilesOK

LEMMA TickBound ==
    ASSUME FsInv, Tick
    PROVE  calls' \in 0..MaxCalls
  BY CallAssumption DEF FsInv, Tick

LEMMA FsInvKept ==
    ASSUME NEW i, NEW gone, Keeps(disk, disk', i, gone), held' \subseteq Inode \ {ROOT}, calls' \in 0..MaxCalls
    PROVE  FsInv'
<1>1. Sound(disk') /\ FilesInv(disk') /\ NamesInv(disk')
  BY DEF Keeps, FilesOK
<1>2. Sound(disk)' /\ FilesInv(disk)' /\ NamesInv(disk)'
  BY <1>1
<1> QED BY <1>2 DEF FsInv

\* What a step leaves that may change the contents of file i and remove the
\* names in gone.
Stepped(i, gone) ==
    /\ Keeps(disk, disk', i, gone)
    /\ held' \subseteq Inode \ {ROOT} /\ calls' \in 0..MaxCalls
    /\ \/ gone = {} /\ (filp' = filp \/ \E room \in Room : Readdir(room))
       \/ filp' = [filp EXCEPT !.kept = @ \ gone]

LEMMA SameDisk ==
    ASSUME FsInv, disk' = disk
    PROVE  Keeps(disk, disk', 0, {})
  BY FsParts DEF Keeps, Stays

\* A name leads to a file.
LEMMA FoundIs ==
    ASSUME FsInv, NEW name, NEW off, off = find_direntry(disk, name), off >= 0
    PROVE  off \in Used(disk) /\ od_ino(Entry(disk, off)) \in Inode \ {ROOT}
<1>1. off \in Used(disk)
  BY FsParts, FindIs
<1> QED BY <1>1, FsParts DEF NamesInv

LEMMA OpenStep ==
    ASSUME FsInv, NEW name, Open(name)
    PROVE  Stepped(0, {})
<1>1. Tick /\ disk' = disk /\ filp' = filp /\ find_direntry(disk, name) >= 0
      /\ held' = held \cup {od_ino(Entry(disk, find_direntry(disk, name)))}
  BY DEF Open
<1>2. od_ino(Entry(disk, find_direntry(disk, name))) \in Inode \ {ROOT}
  BY <1>1, FoundIs
<1> QED BY <1>1, <1>2, SameDisk, TickBound, FsParts DEF Stepped

LEMMA CloseStep ==
    ASSUME FsInv, NEW i, Close(i)
    PROVE  Stepped(0, {})
  BY SameDisk, TickBound, FsParts DEF Stepped, Close

LEMMA ReaddirStep ==
    ASSUME FsInv, NEW room \in Room, Readdir(room)
    PROVE  Stepped(0, {})
<1>1. UNCHANGED <<disk, held, calls>>
  BY DEF Readdir
<1> QED BY <1>1, SameDisk, FsParts DEF Stepped

LEMMA FollowLinkStep ==
    ASSUME FsInv, NEW name, NEW uid, FollowLink(name, uid)
    PROVE  Stepped(0, {})
<1> DEFINE off == find_direntry(disk, name)
           i == od_ino(Entry(disk, off))
<1>1. Tick /\ off >= 0 /\ UNCHANGED <<held, filp>> /\ (disk' = disk \/ disk' = SetField(disk, i, 0, Cut))
  BY DEF FollowLink
<1>2. i \in Inode \ {ROOT} /\ Cut \in Nat
  BY <1>1, FoundIs, CallAssumption
<1> HIDE DEF off, i
<1>3. Keeps(disk, disk', 0, {})
  BY <1>1, <1>2, SameDisk, ModeKeeps, FsParts
<1> QED BY <1>1, <1>3, TickBound, FsParts DEF Stepped

LEMMA LinkStep ==
    ASSUME FsInv, BelowIndirect2, NEW src, NEW name \in Name, Link(src, name)
    PROVE  Stepped(0, {})
<1> DEFINE off == find_direntry(disk, src)
           i == od_ino(Entry(disk, off))
<1>1. Tick /\ off >= 0 /\ find_direntry(disk, name) = -1 /\ UNCHANGED <<held, filp>>
      /\ disk' = Relink(create_blank_direntry(disk), name, i)
  BY DEF Link
<1>2. i \in Inode \ {ROOT}
  BY <1>1, FoundIs
<1> HIDE DEF off, i
<1>3. \A o \in Used(disk) : od_name(Entry(disk, o)) # name
  BY <1>1, FsParts, FindIs
<1>4. Keeps(disk, disk', 0, {})
  BY <1>1, <1>2, <1>3, RelinkIs, FsParts
<1> QED BY <1>1, <1>4, TickBound, FsParts DEF Stepped

LEMMA WriteStep ==
    ASSUME FsInv, NEW i, NEW pos \in Nat, NEW n \in Nat, pos + n <= LIMIT, NEW v \in Data,
           NEW ok \in Readable(n), Write(i, pos, n, v, ok)
    PROVE  Stepped(i, {})
<1>1. Tick /\ i \in held /\ UNCHANGED <<held, filp>> /\ disk' = ospfs_write(disk, i, pos, n, v, ok).disk
  BY DEF Write
<1>2. ok \in Int /\ v \in Nat /\ i \in Inode \ {ROOT}
  BY <1>1, CallAssumption, FsParts DEF Readable
<1>3. Keeps(disk, disk', i, {})
  BY <1>1, <1>2, WriteKeeps, FsParts
<1> QED BY <1>1, <1>3, TickBound, FsParts DEF Stepped

LEMMA NotifyChangeStep ==
    ASSUME FsInv, BelowIndirect2, NEW i, NEW size \in Size, NEW mode \in Mode,
           NotifyChange(i, size, mode)
    PROVE  Stepped(i, {})
<1> DEFINE c == change_size(disk, i, size)
<1>1. Tick /\ i \in held /\ UNCHANGED <<held, filp>> /\ disk' = SetMode(c, i, mode)
  BY DEF NotifyChange
<1>2. i \in Inode \ {ROOT} /\ size \in Nat /\ size <= LIMIT /\ mode \in Nat
  BY <1>1, CallAssumption, FsParts DEF BelowIndirect2
<1>3. Keeps(disk, c.disk, i, {})
  BY <1>2, SizeKeeps, FsParts
<1> HIDE DEF c
<1>4. CASE c.ret # "ok"
  BY <1>1, <1>3, <1>4, TickBound, FsParts DEF SetMode, Stepped
<1>5. CASE c.ret = "ok"
  <2>1. disk' = SetField(c.disk, i, 0, mode)
    BY <1>1, <1>5 DEF SetMode, SetField
  <2>2. Keeps(c.disk, disk', 0, {})
    BY <1>2, <1>3, <2>1, ModeKeeps DEF Keeps
  <2>3. Keeps(disk, disk', i, {})
    BY <1>3, <2>2, KeepsTransitive
  <2> QED BY <1>1, <2>3, TickBound, FsParts DEF Stepped
<1> QED BY <1>4, <1>5

\* With the last name goes the data, and only then.
LEMMA UnlinkStep ==
    ASSUME FsInv, NEW name, Unlink(name)
    PROVE  Stepped(0, {name}) \/ \E i \in Inode : Stepped(i, {name}) /\ disk'.inode[i].nlink = 0
<1> DEFINE off == find_direntry(disk, name)
           i == od_ino(Entry(disk, off))
           x == SetEntry(disk, off, Entry(disk, off) - i)
           y == [x EXCEPT !.inode[i].nlink = @ - 1]
           c == change_size(y, i, 0)
<1>1. Tick /\ off >= 0 /\ held' = held /\ filp' = [filp EXCEPT !.kept = @ \ {name}]
      /\ disk' = IF y.inode[i].ftype # "SYMLINK" /\ y.inode[i].nlink = 0 THEN c.disk ELSE y
  BY DEF Unlink
<1>2. off \in Used(disk) /\ od_name(Entry(disk, off)) = name
  BY <1>1, FsParts, FindIs
<1>3. i \in Inode \ {ROOT} /\ Keeps(disk, y, 0, {name})
  BY <1>2, FsParts, UnlinkKeeps
<1> HIDE DEF y, x, i, off
<1>4. CASE ~(y.inode[i].ftype # "SYMLINK" /\ y.inode[i].nlink = 0)
  <2>1. disk' = y
    BY <1>1, <1>4
  <2> QED BY <1>1, <1>3, <2>1, TickBound, FsParts DEF Stepped
<1>5. CASE y.inode[i].ftype # "SYMLINK" /\ y.inode[i].nlink = 0
  <2>1. disk' = c.disk
    BY <1>1, <1>5
  <2>2. FilesOK(y) /\ NamesInv(y) /\ 0 \in Nat /\ 0 <= LIMIT
    BY <1>3, Constants DEF Keeps
  <2>3. Keeps(y, c.disk, i, {}) /\ OnlyFile(y, c.disk, i)
    BY <1>3, <2>2, SizeKeeps
  <2> HIDE DEF c
  <2>4. Keeps(disk, disk', i, {name})
    BY <1>3, <2>1, <2>3, KeepsTransitive
  <2>5. disk'.inode[i].nlink = 0
    BY <1>5, <2>1, <2>3 DEF OnlyFile
  <2> QED BY <1>1, <1>3, <2>4, <2>5, TickBound, FsParts DEF Stepped
<1> QED BY <1>4, <1>5

OldInode == [size : 0..Width-1, ftype : {"REG", "DIR", "SYMLINK"}, nlink : Nat,
             w : [InodeWord -> Nat]]

\* Inode i becomes o.
InodeSet(d, y, i, o) ==
    /\ y \in Disk /\ y.free = d.free /\ y.block = d.block
    /\ \A j \in Inode : y.inode[j] = IF j = i THEN o ELSE d.inode[j]

LEMMA InodeSetIs ==
    ASSUME NEW d \in Disk, NEW i \in Inode, NEW o \in OldInode
    PROVE  InodeSet(d, [d EXCEPT !.inode[i] = o], i, o)
  BY DEF Disk, InodeSet, OldInode

LEMMA InodeSetTwice ==
    ASSUME NEW d, NEW x, NEW y, NEW i, NEW o, NEW n, InodeSet(d, x, i, o), InodeSet(x, y, i, n)
    PROVE  InodeSet(d, y, i, n)
  BY DEF InodeSet

\* The head that ospfs_create() and ospfs_symlink() write.
LEMMA NewHeadIs ==
    ASSUME NEW d \in Disk, NEW i \in Inode, NEW size \in 0..Width-1, NEW ftype \in {"REG", "SYMLINK"}
    PROVE  LET o == d.inode[i]
               y == [d EXCEPT !.inode[i].size = size, !.inode[i].ftype = ftype,
                              !.inode[i].nlink = 1] IN
           InodeSet(d, y, i, [size |-> size, ftype |-> ftype, nlink |-> 1, w |-> o.w])
<1> DEFINE o == d.inode[i]
           n1 == [o EXCEPT !.size = size]
           n2 == [n1 EXCEPT !.ftype = ftype]
           n3 == [n2 EXCEPT !.nlink = 1]
           y1 == [d EXCEPT !.inode[i].size = size]
           y2 == [y1 EXCEPT !.inode[i].ftype = ftype]
           y3 == [y2 EXCEPT !.inode[i].nlink = 1]
<1>1. o \in OldInode
  BY DEF Disk, OldInode
<1>2. n1 \in OldInode /\ n2 \in OldInode /\ n3 \in OldInode
      /\ n3 = [size |-> size, ftype |-> ftype, nlink |-> 1, w |-> o.w]
  <2> HIDE DEF o
  <2>1. n1 \in OldInode /\ n1.size = size /\ n1.w = o.w
    BY <1>1 DEF OldInode
  <2> HIDE DEF n1
  <2>2. n2 \in OldInode /\ n2.size = size /\ n2.ftype = ftype /\ n2.w = o.w
    BY <2>1 DEF OldInode
  <2> HIDE DEF n2
  <2>3. n3 \in OldInode /\ n3.size = size /\ n3.ftype = ftype /\ n3.nlink = 1 /\ n3.w = o.w
    BY <2>2 DEF OldInode
  <2> HIDE DEF n3
  <2> QED BY <2>1, <2>2, <2>3 DEF OldInode
<1> HIDE DEF n1, n2, n3
<1>3. InodeSet(d, y1, i, n1)
  <2>1. y1 = [d EXCEPT !.inode[i] = n1]
    BY DEF n1
  <2> HIDE DEF y1
  <2> QED BY <1>2, <2>1, InodeSetIs
<1> HIDE DEF y1
<1>4. InodeSet(d, y2, i, n2)
  <2>1. y1 \in Disk /\ y1.inode[i] = n1
    BY <1>3 DEF InodeSet
  <2>2. y2 = [y1 EXCEPT !.inode[i] = n2]
    BY <2>1 DEF n2
  <2> HIDE DEF y2
  <2>3. InodeSet(y1, y2, i, n2)
    BY <1>2, <2>1, <2>2, InodeSetIs
  <2> QED BY <1>3, <2>3, InodeSetTwice
<1> HIDE DEF y2
<1>5. InodeSet(d, y3, i, n3)
  <2>1. y2 \in Disk /\ y2.inode[i] = n2
    BY <1>4 DEF InodeSet
  <2>2. y3 = [y2 EXCEPT !.inode[i] = n3]
    BY <2>1 DEF n3
  <2> HIDE DEF y3
  <2>3. InodeSet(y2, y3, i, n3)
    BY <1>2, <2>1, <2>2, InodeSetIs
  <2> QED BY <1>4, <2>3, InodeSetTwice
<1> QED BY <1>2, <1>5 DEF y3, y2, y1

LEMMA CreatedIs ==
    ASSUME NEW d \in Disk, NEW i \in Inode, NEW mode \in Nat
    PROVE  LET y == [d EXCEPT !.inode[i].size = 0, !.inode[i].ftype = "REG",
                              !.inode[i].nlink = 1, !.inode[i].w[0] = mode] IN
           /\ Headed(d, y, i) /\ y.inode[i].nlink = 1
           /\ y.inode[i].size = 0 /\ y.inode[i].ftype = "REG"
<1> DEFINE o == d.inode[i]
           m == [size |-> 0, ftype |-> "REG", nlink |-> 1, w |-> o.w]
           n == [m EXCEPT !.w = [o.w EXCEPT ![0] = mode]]
           x == [d EXCEPT !.inode[i].size = 0, !.inode[i].ftype = "REG",
                          !.inode[i].nlink = 1]
           y == [x EXCEPT !.inode[i].w[0] = mode]
<1>1. o \in OldInode /\ 0 \in 0..Width-1
  BY Constants DEF Disk, OldInode
<1>2. InodeSet(d, x, i, m)
  BY <1>1, NewHeadIs
<1> HIDE DEF x, o
<1>3. n \in OldInode /\ n.size = 0 /\ n.ftype = "REG" /\ n.nlink = 1
      /\ \A k \in 1..NDIRECT+2 : n.w[k] = o.w[k]
  <2> DEFINE w == [o.w EXCEPT ![0] = mode]
  <2>1. w \in [InodeWord -> Nat] /\ \A k \in 1..NDIRECT+2 : w[k] = o.w[k]
    BY <1>1, Constants DEF OldInode, InodeWord
  <2> HIDE DEF w
  <2>2. n.w = w /\ n.size = 0 /\ n.ftype = "REG" /\ n.nlink = 1 /\ n \in OldInode
    BY <1>1, <2>1 DEF OldInode, w
  <2> QED BY <2>1, <2>2
<1>4. x \in Disk /\ x.inode[i] = m
  BY <1>2 DEF InodeSet
<1>5. y = [x EXCEPT !.inode[i] = n]
  BY <1>4
<1> HIDE DEF y, n
<1>6. InodeSet(x, y, i, n)
  BY <1>3, <1>4, <1>5, InodeSetIs
<1>7. InodeSet(d, y, i, n)
  BY <1>2, <1>6, InodeSetTwice
<1>8. Headed(d, y, i) /\ y.inode[i].nlink = 1 /\ y.inode[i].size = 0 /\ y.inode[i].ftype = "REG"
  BY <1>3, <1>7 DEF Headed, InodeSet, o
<1> QED BY <1>8 DEF y, x

LEMMA CreateStep ==
    ASSUME FsInv, BelowIndirect2, NEW name \in Name, NEW mode \in Mode, Create(name, mode)
    PROVE  \E i \in Inode : Stepped(i, {}) /\ disk.inode[i].nlink = 0
<1> DEFINE i == find_free_inode(disk)
           x == [disk EXCEPT !.inode[i].size = 0, !.inode[i].ftype = "REG",
                             !.inode[i].nlink = 1, !.inode[i].w[0] = mode]
<1>1. Tick /\ find_direntry(disk, name) = -1 /\ i # 0
      /\ disk' = Enter(create_blank_direntry(x), name, i) /\ held' \subseteq held \cup {i}
      /\ filp' = filp
  BY DEF Create
<1>2. i \in Inode \ {ROOT} /\ disk.inode[i].nlink = 0
  BY <1>1, FreeInodeIs
<1> HIDE DEF i
<1>3. Headed(disk, x, i) /\ x.inode[i].nlink = 1 /\ x.inode[i].size = 0 /\ x.inode[i].ftype = "REG"
  <2>1. mode \in Nat /\ disk \in Disk
    BY CallAssumption, FsParts
  <2> QED BY <1>2, <2>1, CreatedIs, ZenonT(30)
<1> HIDE DEF x
<1>4. \A o \in Used(disk) : od_name(Entry(disk, o)) # name
  BY <1>1, FsParts, FindIs
<1>5. Keeps(disk, disk', i, {})
  BY <1>1, <1>2, <1>3, <1>4, FsParts, NewFile
<1> QED BY SMTT(30), <1>1, <1>2, <1>5, TickBound, FsParts DEF Stepped

LEMMA SymlinkedIs ==
    ASSUME NEW d \in Disk, NEW i \in Inode, NEW text \in Seq(Nat), Len(text) <= 1
    PROVE  LET y == [d EXCEPT !.inode[i].size = Len(text), !.inode[i].ftype = "SYMLINK",
                              !.inode[i].nlink = 1,
                              !.inode[i].w = [k \in InodeWord |->
                                  IF k < Len(text) THEN text[k + 1] ELSE @[k]]] IN
           /\ Headed(d, y, i) /\ y.inode[i].nlink = 1
           /\ y.inode[i].size <= 1 /\ y.inode[i].ftype = "SYMLINK"
<1> DEFINE o == d.inode[i]
           m == [size |-> Len(text), ftype |-> "SYMLINK", nlink |-> 1, w |-> o.w]
           w == [k \in InodeWord |-> IF k < Len(text) THEN text[k + 1] ELSE o.w[k]]
           n == [m EXCEPT !.w = w]
           x == [d EXCEPT !.inode[i].size = Len(text), !.inode[i].ftype = "SYMLINK",
                          !.inode[i].nlink = 1]
           y == [x EXCEPT !.inode[i].w = w]
<1>0. Len(text) \in Nat /\ Len(text) \in 0..Width-1
  BY Constants DEF LIMIT
<1>1. o \in OldInode
  BY DEF Disk, OldInode
<1>2. InodeSet(d, x, i, m)
  BY <1>0, NewHeadIs
<1> HIDE DEF x, o
<1>3. w \in [InodeWord -> Nat] /\ \A k \in 1..NDIRECT+2 : w[k] = o.w[k]
  <2> DEFINE l == Len(text)
  <2>0. l \in Nat /\ l <= 1 /\ NDIRECT \in Nat
    BY <1>0, Constants
  <2>1. l = 1 => text[1] \in Nat
    OBVIOUS
  <2> HIDE DEF l
  <2>2. \A k \in InodeWord : k \in Nat /\ (k < l => k = 0 /\ l = 1)
    BY <2>0 DEF InodeWord
  <2>3. \A k \in 1..NDIRECT+2 : k \in InodeWord /\ k # 0
    BY <2>0 DEF InodeWord
  <2>4. o.w \in [InodeWord -> Nat]
    BY <1>1 DEF OldInode
  <2>5. \A k \in InodeWord : w[k] \in Nat /\ (k # 0 => w[k] = o.w[k])
    BY <2>1, <2>2, <2>4 DEF l
  <2> QED BY <2>3, <2>5
<1>4. x \in Disk /\ x.inode[i] = m
  BY <1>2 DEF InodeSet
<1>5. y = [x EXCEPT !.inode[i] = n]
  BY <1>4
<1> HIDE DEF w
<1>6. n \in OldInode /\ n.size = Len(text) /\ n.ftype = "SYMLINK" /\ n.nlink = 1 /\ n.w = w
  BY <1>0, <1>1, <1>3 DEF OldInode
<1> HIDE DEF y, n
<1>7. InodeSet(x, y, i, n)
  BY <1>4, <1>5, <1>6, InodeSetIs
<1>8. InodeSet(d, y, i, n)
  BY <1>2, <1>7, InodeSetTwice
<1>9. Headed(d, y, i) /\ y.inode[i].nlink = 1 /\ y.inode[i].size <= 1 /\ y.inode[i].ftype = "SYMLINK"
  BY <1>3, <1>6, <1>8 DEF Headed, InodeSet, o
<1> QED BY <1>9 DEF y, x, w, o

LEMMA SymlinkStep ==
    ASSUME FsInv, BelowIndirect2, TextsOverMode, NEW name \in Name, NEW text \in Text,
           Symlink(name, text)
    PROVE  \E i \in Inode : Stepped(i, {}) /\ disk.inode[i].nlink = 0
<1> DEFINE i == find_free_inode(disk)
           x == [disk EXCEPT !.inode[i].size = Len(text), !.inode[i].ftype = "SYMLINK",
                             !.inode[i].nlink = 1,
                             !.inode[i].w = [k \in InodeWord |->
                                 IF k < Len(text) THEN text[k + 1] ELSE @[k]]]
<1>1. Tick /\ find_direntry(disk, name) = -1 /\ i # 0
      /\ disk' = Enter(create_blank_direntry(x), name, i) /\ UNCHANGED <<held, filp>>
  BY DEF Symlink
<1>2. i \in Inode \ {ROOT} /\ disk.inode[i].nlink = 0
  BY <1>1, FreeInodeIs
<1> HIDE DEF i
<1>3. text \in Seq(Nat) /\ Len(text) <= 1
  <2>1. \A s \in Text : s \in Seq(Nat)
    BY ONLY CallAssumption, Zenon
  <2>2. \A s \in Text : Len(s) <= 1
    BY TextsOverMode, Zenon DEF TextsOverMode
  <2> QED BY <2>1, <2>2, Zenon
<1>4. Headed(disk, x, i) /\ x.inode[i].nlink = 1 /\ x.inode[i].size <= 1
      /\ x.inode[i].ftype = "SYMLINK"
  BY <1>2, <1>3, FsParts, SymlinkedIs, ZenonT(30)
<1> HIDE DEF x
<1>5. \A o \in Used(disk) : od_name(Entry(disk, o)) # name
  BY <1>1, FsParts, FindIs
<1>6. Keeps(disk, disk', i, {})
  BY <1>1, <1>2, <1>4, <1>5, FsParts, NewFile
<1> QED BY <1>1, <1>2, <1>6, TickBound, FsParts DEF Stepped

\* No step changes a file that it is not about.
LEMMA NextStep ==
    ASSUME FsInv, BelowIndirect2, TextsOverMode, Next
    PROVE  \E gone \in SUBSET Name :
           \/ Stepped(0, gone)
           \/ \E i \in Inode : Stepped(i, gone) /\ (disk.inode[i].nlink = 0 \/ disk'.inode[i].nlink = 0)
           \/ \E i \in Inode :
                 /\ Stepped(i, gone)
                 /\ \/ \E size \in Size, mode \in Mode : NotifyChange(i, size, mode)
                    \/ \E p \in Place, v \in Data :
                           \E ok \in Readable(p[2]) : Write(i, p[1], p[2], v, ok)
                    \/ \E n \in Appended, v \in Data :
                           \E ok \in Readable(n) : WriteAtEnd(i, n, v, ok)
<1>1. ASSUME NEW name \in Name, Open(name) PROVE Stepped(0, {})
  BY <1>1, OpenStep
<1>2. ASSUME NEW name \in Name, Unlink(name)
      PROVE  Stepped(0, {name}) \/ \E i \in Inode : Stepped(i, {name}) /\ disk'.inode[i].nlink = 0
  BY <1>2, UnlinkStep
<1>3. ASSUME NEW name \in Name, NEW mode \in Mode, Create(name, mode)
      PROVE  \E i \in Inode : Stepped(i, {}) /\ disk.inode[i].nlink = 0
  BY <1>3, CreateStep
<1>4. ASSUME NEW name \in Name, NEW text \in Text, Symlink(name, text)
      PROVE  \E i \in Inode : Stepped(i, {}) /\ disk.inode[i].nlink = 0
  BY <1>4, SymlinkStep
<1>5. ASSUME NEW src \in Name, NEW name \in Name, Link(src, name) PROVE Stepped(0, {})
  BY <1>5, LinkStep
<1>6. ASSUME NEW i \in Inode, Close(i) PROVE Stepped(0, {})
  BY <1>6, CloseStep
<1>7. ASSUME NEW i \in Inode, NEW size \in Size, NEW mode \in Mode, NotifyChange(i, size, mode)
      PROVE  Stepped(i, {})
  BY <1>7, NotifyChangeStep
<1>8. ASSUME NEW i \in Inode, NEW p \in Place, NEW v \in Data, NEW ok \in Readable(p[2]),
             Write(i, p[1], p[2], v, ok)
      PROVE  Stepped(i, {})
  <2>1. p[1] \in Nat /\ p[2] \in Nat /\ p[1] + p[2] <= LIMIT
    BY CallAssumption DEF BelowIndirect2
  <2> QED BY <1>8, <2>1, WriteStep
<1>9. ASSUME NEW i \in Inode, NEW n \in Appended, NEW v \in Data, NEW ok \in Readable(n),
             WriteAtEnd(i, n, v, ok)
      PROVE  Stepped(i, {})
  <2>1. n \in Nat /\ MaxSize \in Nat /\ MaxSize <= LIMIT
    BY CallAssumption DEF BelowIndirect2
  <2>2. disk.inode[i].size + n <= MaxSize /\ Write(i, disk.inode[i].size, n, v, ok)
    BY <1>9 DEF WriteAtEnd
  <2>3. disk.inode[i].size \in Nat
    BY FsParts, FilesParts
  <2>4. disk.inode[i].size + n <= LIMIT
    BY <2>1, <2>2, <2>3, Constants
  <2> QED BY <2>1, <2>2, <2>3, <2>4, WriteStep
<1>10. ASSUME NEW room \in Room, Readdir(room) PROVE Stepped(0, {})
  BY <1>10, ReaddirStep
<1>11. ASSUME NEW name \in Name, NEW uid \in {0, 1}, FollowLink(name, uid) PROVE Stepped(0, {})
  BY <1>11, FollowLinkStep
<1>12. {} \in SUBSET Name /\ \A name \in Name : {name} \in SUBSET Name
  OBVIOUS
<1> QED BY <1>1, <1>2, <1>3, <1>4, <1>5, <1>6, <1>7, <1>8, <1>9, <1>10, <1>11, <1>12 DEF Next

LEMMA FsInvStep ==
    ASSUME FsInv, BelowIndirect2, TextsOverMode, [Next]_vars
    PROVE  FsInv'
<1>1. CASE Next
  <2>1. \E i, gone : Stepped(i, gone)
    BY <1>1, NextStep
  <2> QED BY <2>1, FsInvKept DEF Stepped
<1>2. CASE UNCHANGED vars
  <2>1. Keeps(disk, disk', 0, {})
    BY <1>2, SameDisk DEF vars
  <2> QED BY <1>2, <2>1, FsInvKept, FsParts DEF vars
<1> QED BY <1>1, <1>2

\* The image of ospfsformat.
LEMMA FsInvInit ==
    ASSUME Init
    PROVE  FsInv
<1> DEFINE d == disk
           w1 == [k \in InodeWord |-> IF k = DirectAt(0) THEN FIRSTDATA ELSE 0]
           w0 == [k \in InodeWord |-> 0]
           o1 == [size |-> NINDIRECT, ftype |-> "DIR", nlink |-> 1, w |-> w1]
           o0 == [size |-> 0, ftype |-> "REG", nlink |-> 0, w |-> w0]
<1>0. /\ NDIRECT \in Nat \ {0} /\ NINDIRECT \in Nat \ {0} /\ FIRSTDATA \in Nat /\ NBLOCKS \in Nat
      /\ FIRSTDATA < NBLOCKS /\ 2 < FIRSTDATA /\ Width \in Nat /\ NINDIRECT < Width
      /\ LIMIT \in Nat /\ NINDIRECT <= LIMIT /\ NINDIRECT + NINDIRECT - 1 < Width
  <2>1. \A a, b \in Nat \ {0} : b <= b * (a + b)
    OBVIOUS
  <2> QED BY <2>1, Constants
<1>1. /\ d.free = FIRSTDATA + 1 .. NBLOCKS-1
      /\ d.inode = [i \in Inode |-> IF i = ROOT THEN o1 ELSE o0]
      /\ d.block = [b \in Block |-> ZeroBlock]
      /\ d = [free |-> d.free, inode |-> d.inode, block |-> d.block]
      /\ held = {} /\ calls = 0
  BY DEF Init
<1>2. o1 \in OldInode /\ o0 \in OldInode
      /\ (\A k \in InodeWord : w0[k] = 0 /\ w1[k] = IF k = 1 THEN FIRSTDATA ELSE 0)
  <2>1. w1 \in [InodeWord -> Nat] /\ w0 \in [InodeWord -> Nat]
    BY <1>0
  <2>2. NINDIRECT \in 0..Width-1 /\ 0 \in 0..Width-1
    BY <1>0
  <2>3. DirectAt(0) = 1
    BY DEF DirectAt
  <2> HIDE DEF w1, w0
  <2>4. o1 \in OldInode /\ o0 \in OldInode
    BY <2>1, <2>2 DEF OldInode
  <2> QED BY <2>3, <2>4 DEF w1, w0
<1>3. d \in Disk /\ d.block[0] = ZeroBlock /\ 0 \in Block
  <2>1. ZeroBlock \in [0..NINDIRECT-1 -> Nat] /\ 0 \in Block
    BY <1>0 DEF ZeroBlock, Block
  <2>2. d.free \in SUBSET DataBlock
    BY <1>0, <1>1 DEF DataBlock
  <2>3. d.inode \in [Inode -> OldInode]
    <3> HIDE DEF o1, o0
    <3> QED BY <1>1, <1>2
  <2>4. d.block \in [Block -> [0..NINDIRECT-1 -> Nat]] /\ d.block[0] = ZeroBlock
    BY <1>1, <2>1
  <2> HIDE DEF d
  <2> QED BY <1>1, <2>1, <2>2, <2>3, <2>4 DEF Disk, OldInode
<1>4. \A i \in Inode, k \in InodeWord :
          d.inode[i].w[k] = IF i = ROOT /\ k = 1 THEN FIRSTDATA ELSE 0
  <2> SUFFICES ASSUME NEW i \in Inode, NEW k \in InodeWord
               PROVE  d.inode[i].w[k] = IF i = ROOT /\ k = 1 THEN FIRSTDATA ELSE 0
    OBVIOUS
  <2>1. d.inode[i].w = IF i = ROOT THEN w1 ELSE w0
    <3> HIDE DEF w1, w0
    <3> QED BY <1>1
  <2> HIDE DEF w1, w0, d
  <2> QED BY <1>2, <2>1
<1>5. \A i \in Inode : /\ d.inode[i].size = IF i = ROOT THEN NINDIRECT ELSE 0
                       /\ d.inode[i].ftype = IF i = ROOT THEN "DIR" ELSE "REG"
                       /\ d.inode[i].nlink = IF i = ROOT THEN 1 ELSE 0
  <2> HIDE DEF w1, w0
  <2> QED BY <1>1
<1> HIDE DEF d, o1, o0, w1, w0
<1>6. \A i \in Inode, k \in Slot :
          Pointer(d, i, k) = IF i = ROOT /\ k = 1 THEN FIRSTDATA ELSE 0
  <2> SUFFICES ASSUME NEW i \in Inode, NEW k \in Slot
               PROVE  Pointer(d, i, k) = IF i = ROOT /\ k = 1 THEN FIRSTDATA ELSE 0
    OBVIOUS
  <2>1. CASE k \in 1..NDIRECT+2
    BY <1>4, <2>1, PointerIs
  <2>2. CASE ~(k <= NDIRECT + 2)
    <3>1. Ind(d, i) = 0
      <4>1. IndirectAt \in InodeWord /\ IndirectAt # 1
        BY <1>0 DEF IndirectAt, InodeWord
      <4> QED BY <1>4, <4>1 DEF Ind
    <3>2. Pointer(d, i, k) = ZeroBlock[k - NDIRECT - 3] /\ k - NDIRECT - 3 \in 0..NINDIRECT-1
      BY <1>3, <2>2, <3>1, PointerIs
    <3> QED BY <1>0, <2>2, <3>2 DEF ZeroBlock
  <2> QED BY <1>0, <2>1, <2>2 DEF Slot
<1>7. Sound(d)
  <2>1. \A i \in Inode : d.inode[i].w[Indirect2At] = 0
    <3>1. Indirect2At \in InodeWord /\ Indirect2At # 1
      BY <1>0 DEF Indirect2At, InodeWord
    <3> QED BY <1>4, <3>1
  <2>2. FIRSTDATA # 0 /\ FIRSTDATA \in DataBlock \ d.free
    BY <1>0, <1>1 DEF DataBlock, d
  <2> QED BY <1>3, <1>6, <2>1, <2>2 DEF Sound
<1>8. size2nblocks(0) = 0 /\ size2nblocks(NINDIRECT) = 1
  <2>1. size2nblocks(NINDIRECT) = 1
    <3>1. 1 \in Nat /\ NINDIRECT \in Nat /\ NINDIRECT * 1 = NINDIRECT
      BY <1>0
    <3> QED BY <1>0, <3>1, BlocksOf
  <2>2. size2nblocks(0) = 0
    <3>1. 0 \in Nat /\ NINDIRECT * 0 = 0 /\ 0 + NINDIRECT - 1 < Width
      BY <1>0
    <3> QED BY <1>0, <3>1, BlocksOf
  <2> QED BY <2>1, <2>2
<1>9. FilesInv(d)
  <2>1. \A i \in Inode : Blocks(d, i) = IF i = ROOT THEN 1 ELSE 0
    BY <1>5, <1>8 DEF Blocks
  <2>2. SlotOf(0) = 1 /\ 1 \in Slot
    BY <1>0 DEF SlotOf, Slot
  <2>3. ASSUME NEW i \in Inode PROVE Present(d, i)
    <3>1. CASE i = ROOT
      BY <1>0, <1>6, <2>1, <2>2, <3>1 DEF Present
    <3>2. CASE i # ROOT
      BY <2>1, <3>2 DEF Present
    <3> QED BY <3>1, <3>2
  <2>4. d.inode[ROOT].size = NINDIRECT * Blocks(d, ROOT)
    BY <1>0, <1>5, <2>1, RootInode
  <2>5. \A i \in Inode : d.inode[i].size <= LIMIT /\ (d.inode[i].ftype = "DIR" <=> i = ROOT)
    BY <1>0, <1>5
  <2> QED BY <2>3, <2>4, <2>5 DEF FilesInv
<1>10. NamesInv(d)
  <2>1. FilesOK(d)
    BY <1>7, <1>9 DEF FilesOK
  <2>2. od_ino(0) = 0
    BY Constants DEF od_ino
  <2>3. ASSUME NEW off \in Offset(d) PROVE od_ino(Entry(d, off)) = 0
    <3>1. PICK p \in Block, l \in 0..NINDIRECT-1 : Entry(d, off) = d.block[p][l]
      BY <2>1, EntryIs
    <3>2. Entry(d, off) = 0
      BY <1>1, <3>1 DEF d, ZeroBlock
    <3> QED BY <2>2, <3>2
  <2>4. Used(d) = {} /\ \A i : Named(d, i) = {}
    BY <2>3 DEF Used, Named
  <2>5. \A i \in Inode : Cardinality(Named(d, i)) <= d.inode[i].nlink
    BY <1>5, <2>4, FS_EmptySet
  <2> QED BY <2>4, <2>5 DEF NamesInv
<1>11. held = {} /\ calls \in 0..MaxCalls
  BY <1>1, CallAssumption
<1> QED BY <1>7, <1>9, <1>10, <1>11 DEF FsInv, d

-----------------------------------------------------------------------------
(* The theorems.                                                            *)

\* Files below the doubly indirect block and texts that lie over oi_mode only
\* keep the disk in order through every sequence of calls: block pointers lead
\* to blocks of their own (add_block, remove_block), every file has the blocks
\* of its size, and names lead to files (ospfs_create, ospfs_link, ospfs_unlink).
THEOREM FsInvariant ==
    ASSUME BelowIndirect2, TextsOverMode
    PROVE  Spec => []FsInv
<1>1. Init => FsInv
  BY FsInvInit
<1>2. FsInv /\ [Next]_vars => FsInv'
  BY FsInvStep
<1> QED BY <1>1, <1>2, PTL DEF Spec

\* The bitmap never has a block outside the data area (free_block), sizes stay
\* uint32_t values, link counts do not go below 0 (ospfs_unlink).
THEOREM TypeCorrect ==
    ASSUME BelowIndirect2, TextsOverMode
    PROVE  Spec => []TypeOK
<1>1. FsInv => TypeOK
  <2> SUFFICES ASSUME FsInv PROVE TypeOK
    OBVIOUS
  <2>1. disk \in Disk /\ held \subseteq Inode /\ calls \in 0..MaxCalls
    BY FsParts
  <2>2. disk.free \subseteq FIRSTDATA..NBLOCKS-1
    BY <2>1 DEF Disk, DataBlock
  <2>3. \A i \in Inode : /\ disk.inode[i].size \in 0..Width-1
                         /\ disk.inode[i].ftype \in {"REG", "DIR", "SYMLINK"}
                         /\ disk.inode[i].nlink \in Nat
    BY <2>1 DEF Disk
  <2> QED BY <2>1, <2>2, <2>3 DEF TypeOK
<1> QED BY <1>1, FsInvariant, PTL

\* Whatever sequence of calls grew, cut and removed files, with failures half
\* way, no block number is left for a free block, and no block is in two files
\* or in two places of one (add_block, remove_block, change_size).
THEOREM BlocksAreExclusive ==
    ASSUME BelowIndirect2, TextsOverMode
    PROVE  Spec => []BlocksExclusive
<1>1. FsInv => BlocksExclusive
  <2> SUFFICES ASSUME FsInv PROVE BlocksExclusive
    OBVIOUS
  <2>1. Sound(disk)
    BY DEF FsInv
  <2>2. \A p \in Pointers(disk) : p = <<p[1], p[2]>> /\ p[1] \in Inode /\ p[2] \in Slot
    BY Constants DEF Pointers, Slot
  <2> SUFFICES ASSUME NEW p \in Pointers(disk), Target(disk, p) # 0
               PROVE  /\ Target(disk, p) \notin disk.free
                      /\ \A q \in Pointers(disk) \ {p} : Target(disk, q) # Target(disk, p)
    BY DEF BlocksExclusive
  <2>3. /\ Pointer(disk, p[1], p[2]) \notin disk.free
        /\ \A j \in Inode, l \in Slot :
              Pointer(disk, j, l) = Pointer(disk, p[1], p[2]) => j = p[1] /\ l = p[2]
    BY <2>1, <2>2 DEF Sound, Target
  <2>4. ASSUME NEW q \in Pointers(disk), Target(disk, q) = Target(disk, p) PROVE q = p
    <3>1. q[1] = p[1] /\ q[2] = p[2]
      BY <2>2, <2>3, <2>4 DEF Target
    <3> QED BY <2>2, <3>1
  <2> QED BY <2>3, <2>4 DEF Target
<1> QED BY <1>1, FsInvariant, PTL

\* Names are unique, and an inode with a name left is not released: its link
\* count is at least its number of names (ospfs_create, ospfs_link,
\* ospfs_unlink, with and without room in the directory).
THEOREM NamesAlwaysResolve ==
    ASSUME BelowIndirect2, TextsOverMode
    PROVE  Spec => []NamesResolve
<1>1. FsInv => NamesResolve
  BY DEF FsInv, NamesInv, NamesResolve
<1> QED BY <1>1, FsInvariant, PTL

\* No call changes the contents of a file that it is not about: not when it
\* takes blocks or gives them back (change_size), reuses an inode
\* (find_free_inode), or grows the directory (create_blank_direntry).
THEOREM FilesAreIsolated ==
    ASSUME BelowIndirect2, TextsOverMode
    PROVE  Spec => FilesIsolated
<1> DEFINE A == \A i \in Inode \ {ROOT} :
          \/ Contents(disk', i) = Contents(disk, i)
          \/ disk.inode[i].nlink = 0 \/ disk'.inode[i].nlink = 0
          \/ \E size \in Size, mode \in Mode : NotifyChange(i, size, mode)
          \/ \E p \in Place, v \in Data :
                 \E ok \in Readable(p[2]) : Write(i, p[1], p[2], v, ok)
          \/ \E n \in Appended, v \in Data : \E ok \in Readable(n) : WriteAtEnd(i, n, v, ok)
<1>1. FsInv /\ [Next]_vars => [A]_vars
  <2> SUFFICES ASSUME FsInv, Next PROVE A
    OBVIOUS
  <2>1. \A i, j, gone : Stepped(i, gone) /\ j \in Inode \ {ROOT} /\ j # i => Contents(disk', j) = Contents(disk, j)
    BY DEF Stepped, Keeps
  <2>2. 0 \notin Inode
    BY DEF Inode
  <2> QED BY <2>1, <2>2, NextStep
<1> QED BY <1>1, FsInvariant, PTL DEF Spec, FilesIsolated

-----------------------------------------------------------------------------
(* What a write leaves in its file.                                         *)

\* A file that is no link has a block for each of its words.
LEMMA ReachedAll ==
    ASSUME NEW d, FilesOK(d), NEW i \in Inode, d.inode[i].ftype # "SYMLINK",
           NEW first \in Nat, NEW last \in Int, last < d.inode[i].size
    PROVE  Reached(d, i, first, last) = first..last
<1>0. Sound(d) /\ d.inode[i].size \in Nat /\ d.inode[i].size <= LIMIT /\ Present(d, i)
  BY FilesParts
<1>1. ASSUME NEW off \in 0..d.inode[i].size-1 PROVE inode_blockno(d, i, off) # 0
  <2>1. off \div NINDIRECT \in 0..Blocks(d, i)-1
        /\ inode_blockno(d, i, off) = Pointer(d, i, SlotOf(off \div NINDIRECT))
    BY <1>0, DataIs
  <2> QED BY <1>0, <2>1 DEF Present
<1>2. \A off \in first..last : \A o \in first..off : o \in 0..d.inode[i].size-1
  BY <1>0
<1> QED BY <1>1, <1>2 DEF Reached

\* No two words of a file share a place on the disk.
LEMMA PlacesDiffer ==
    ASSUME NEW d, FilesOK(d), NEW i \in Inode, d.inode[i].ftype # "SYMLINK",
           NEW a \in 0..d.inode[i].size-1, NEW b \in 0..d.inode[i].size-1,
           inode_blockno(d, i, a) = inode_blockno(d, i, b), a % NINDIRECT = b % NINDIRECT
    PROVE  a = b
<1> DEFINE p == a \div NINDIRECT
           q == b \div NINDIRECT
           k == a % NINDIRECT
<1>0. Sound(d) /\ d.inode[i].size \in Nat /\ d.inode[i].size <= LIMIT /\ Present(d, i)
  BY FilesParts
<1>1. /\ p \in 0..Blocks(d, i)-1 /\ p \in 0..(NDIRECT + NINDIRECT - 1) /\ SlotOf(p) \in Slot
      /\ a = NINDIRECT * p + k /\ inode_blockno(d, i, a) = Pointer(d, i, SlotOf(p))
  BY <1>0, DataIs
<1>2. /\ q \in 0..(NDIRECT + NINDIRECT - 1) /\ SlotOf(q) \in Slot
      /\ b = NINDIRECT * q + k /\ inode_blockno(d, i, b) = Pointer(d, i, SlotOf(q))
  BY <1>0, DataIs
<1> HIDE DEF p, q, k
<1>3. Pointer(d, i, SlotOf(p)) # 0
  BY <1>0, <1>1 DEF Present
<1>4. SlotOf(q) = SlotOf(p)
  BY <1>0, <1>1, <1>2, <1>3 DEF Sound
<1>5. q = p
  BY <1>1, <1>2, <1>4, SlotOfIs
<1> QED BY <1>1, <1>2, <1>5

\* File i has v from first to last, and is as before elsewhere.
Overwritten(d, y, i, first, last, v) ==
    /\ FilesOK(y) /\ y.inode = d.inode
    /\ \A off \in 0..d.inode[i].size-1 :
          inode_data(y, i, off) = IF off \in first..last THEN v ELSE inode_data(d, i, off)

LEMMA CopiedData ==
    ASSUME NEW d, FilesOK(d), NEW i \in Inode \ {ROOT}, d.inode[i].ftype # "SYMLINK",
           NEW first \in Nat, NEW last \in Int, last < d.inode[i].size, NEW v \in Nat,
           NEW y, y = CopyIn(Done(d), i, first, last, v).disk
    PROVE  Overwritten(d, y, i, first, last, v)
<1>0. Sound(d) /\ d.inode[i].size \in Nat /\ d.inode[i].size <= LIMIT /\ Present(d, i)
  BY FilesParts
<1>1. /\ Writes(d, y, i)
      /\ \A p \in Block, k \in 0..NINDIRECT-1 :
            y.block[p][k] = IF \E off \in Reached(d, i, first, last) :
                                  p = inode_blockno(d, i, off) /\ k = off % NINDIRECT
                            THEN v ELSE d.block[p][k]
  BY CopyInIs
<1>2. Reached(d, i, first, last) = first..last
  BY ReachedAll
<1>3. FilesOK(y) /\ y.inode = d.inode
      /\ \A j \in Inode, k \in Slot : Pointer(y, j, k) = Pointer(d, j, k)
  BY <1>1, WrittenFiles DEF Writes
<1>4. ASSUME NEW off \in 0..d.inode[i].size-1
      PROVE  inode_data(y, i, off) = IF off \in first..last THEN v ELSE inode_data(d, i, off)
  <2> DEFINE b == off \div NINDIRECT
             k == off % NINDIRECT
             p == inode_blockno(d, i, off)
  <2>1. /\ b \in 0..Blocks(d, i)-1 /\ SlotOf(b) \in Slot /\ k \in 0..NINDIRECT-1
        /\ p = Pointer(d, i, SlotOf(b)) /\ inode_data(d, i, off) = d.block[Pointer(d, i, SlotOf(b))][k]
    BY <1>0, DataIs
  <2>2. inode_data(y, i, off) = y.block[Pointer(y, i, SlotOf(b))][k]
    <3>1. Sound(y) /\ y.inode[i].size = d.inode[i].size /\ y.inode[i].ftype = d.inode[i].ftype
      BY <1>3 DEF FilesOK
    <3> QED BY <1>0, <3>1, DataIs
  <2>3. p \in Block
    <3> HIDE DEF b, k
    <3>1. Pointer(d, i, SlotOf(b)) # 0
      BY <1>0, <2>1 DEF Present
    <3> QED BY <1>0, <2>1, <3>1, SoundParts
  <2>4. inode_data(y, i, off) = y.block[p][k] /\ inode_data(d, i, off) = d.block[p][k]
    <3> HIDE DEF b, k, p
    <3> QED BY <1>3, <2>1, <2>2
  <2>5. (\E o \in first..last : p = inode_blockno(d, i, o) /\ k = o % NINDIRECT)
        <=> off \in first..last
    <3>1. ASSUME NEW o \in first..last, p = inode_blockno(d, i, o), k = o % NINDIRECT
          PROVE  o = off
      <4>1. o \in 0..d.inode[i].size-1
        BY <1>0
      <4> QED BY <3>1, <4>1, PlacesDiffer
    <3> QED BY <3>1
  <2> HIDE DEF k, p, b
  <2>6. y.block[p][k] = IF off \in first..last THEN v ELSE d.block[p][k]
    BY <1>1, <1>2, <2>1, <2>3, <2>5
  <2> QED BY <2>4, <2>6
<1> QED BY <1>3, <1>4 DEF Overwritten

\* What growing the file for a write leaves: its words, and room for the new
\* ones; or, without space, its size and contents.
Roomy(d, c, i, t) ==
    \/ /\ c.ret = "ok" /\ FilesOK(c.disk) /\ c.disk.inode[i].ftype = d.inode[i].ftype
       /\ t <= c.disk.inode[i].size /\ d.inode[i].size <= c.disk.inode[i].size
       /\ \A off \in 0..d.inode[i].size-1 : inode_data(c.disk, i, off) = inode_data(d, i, off)
    \/ c.ret = "ENOSPC" /\ Contents(c.disk, i) = Contents(d, i)

LEMMA RoomIs ==
    ASSUME NEW d, FilesOK(d), NEW i \in Inode \ {ROOT}, d.inode[i].ftype # "SYMLINK",
           NEW t \in Nat, t <= LIMIT,
           NEW c, c = IF t > d.inode[i].size THEN change_size(d, i, t) ELSE Done(d)
    PROVE  Roomy(d, c, i, t)
<1>0. d.inode[i].size \in Nat
  BY FilesParts
<1>1. CASE ~(t > d.inode[i].size)
  <2>1. c = Done(d)
    BY <1>1
  <2>2. c.ret = "ok" /\ c.disk = d
    BY <2>1 DEF Done
  <2> QED BY <1>0, <1>1, <2>2 DEF Roomy
<1>2. CASE t > d.inode[i].size
  <2>1. c = change_size(d, i, t)
    BY <1>2
  <2>2. FilesOK(c.disk) /\ OnlyFile(d, c.disk, i) /\ SizeResult(d, c, i, t)
    BY <2>1, ChangeSizeFiles
  <2>3. CASE c.ret = "ok" /\ Resized(d, c.disk, i, t)
    <3>1. c.disk.inode[i].size = t /\ c.disk.inode[i].ftype = d.inode[i].ftype
      BY <2>2, <2>3 DEF Resized, OnlyFile
    <3>2. ASSUME NEW off \in 0..d.inode[i].size-1
          PROVE  inode_data(c.disk, i, off) = inode_data(d, i, off)
      <4>1. off \in 0..t-1 /\ off < d.inode[i].size
        BY <1>0, <1>2
      <4> QED BY <2>3, <4>1, ResizedData
    <3> QED BY <1>0, <1>2, <2>2, <2>3, <3>1, <3>2 DEF Roomy
  <2>4. CASE c.ret = "ENOSPC" /\ Restored(d, c.disk, i)
    BY <2>4, RestoredData DEF Roomy
  <2> QED BY <2>2, <2>3, <2>4 DEF SizeResult
<1> QED BY <1>1, <1>2

Exact(d, i, pos, n, v) ==
    LET r == ospfs_write(d, i, pos, n, v, n)
        range == pos..pos+n-1
    IN  IF r.ret = "ok"
        THEN /\ ospfs_read(r.disk, i, pos, n) = [off \in range |-> v]
             /\ \A off \in DOMAIN Contents(d, i) \ range :
                    Contents(r.disk, i)[off] = Contents(d, i)[off]
        ELSE Contents(r.disk, i) = Contents(d, i)

LEMMA WriteResult ==
    ASSUME NEW d, FilesOK(d), NEW i \in Inode \ {ROOT}, d.inode[i].ftype = "REG",
           NEW pos \in Nat, NEW n \in Nat, pos + n <= LIMIT, NEW v \in Nat
    PROVE  Exact(d, i, pos, n, v)
<1> DEFINE r == ospfs_write(d, i, pos, n, v, n)
           t == pos + n
           last == pos + n - 1
           c == IF t > d.inode[i].size THEN change_size(d, i, t) ELSE Done(d)
<1>0. t \in Nat /\ t <= LIMIT /\ last \in Int /\ last < t /\ d.inode[i].size \in Nat
  BY FilesParts
<1>1. Roomy(d, c, i, t)
  BY <1>0, RoomIs
<1>2. r = CopyIn(c, i, pos, last, v)
  BY DEF ospfs_write
<1> HIDE DEF c, r
<1>3. CASE c.ret # "ok"
  <2>1. r = c
    BY <1>2, <1>3 DEF CopyIn
  <2>2. r.ret # "ok" /\ Contents(r.disk, i) = Contents(d, i)
    BY <1>1, <1>3, <2>1 DEF Roomy
  <2> QED BY <2>2 DEF Exact, r
<1>4. CASE c.ret = "ok"
  <2> DEFINE e == c.disk
             y == r.disk
             m == e.inode[i].size
  <2>1. /\ FilesOK(e) /\ e.inode[i].ftype = "REG" /\ t <= m /\ d.inode[i].size <= m
        /\ \A off \in 0..d.inode[i].size-1 : inode_data(e, i, off) = inode_data(d, i, off)
    BY <1>1, <1>4 DEF Roomy
  <2>2. r.ret = "ok" /\ y = CopyIn(Done(e), i, pos, last, v).disk
    BY <1>2, <1>4 DEF CopyIn, Done
  <2> HIDE DEF y, e
  <2>3. m \in Nat /\ last < m
    <3>1. m \in Nat
      BY <2>1, FilesParts
    <3> HIDE DEF t, last, m
    <3> QED BY <1>0, <2>1, <3>1
  <2>4. Overwritten(e, y, i, pos, last, v)
    <3> HIDE DEF t, last
    <3> QED BY <1>0, <2>1, <2>2, <2>3, CopiedData
  <2>5. /\ FilesOK(y) /\ y.inode[i].size = m /\ y.inode[i].ftype = "REG"
        /\ \A off \in 0..m-1 :
              inode_data(y, i, off) = IF off \in pos..last THEN v ELSE inode_data(e, i, off)
    BY <2>1, <2>4 DEF Overwritten
  <2>6. ospfs_read(y, i, pos, n) = [off \in pos..last |-> v]
    <3>1. ~(n + pos > y.inode[i].size)
      BY <1>0, <2>1, <2>3, <2>5
    <3>2. ospfs_read(y, i, pos, n) = [off \in Reached(y, i, pos, last) |-> inode_data(y, i, off)]
      BY <3>1 DEF ospfs_read
    <3>3. Reached(y, i, pos, last) = pos..last
      <4> HIDE DEF last
      <4> QED BY <1>0, <2>3, <2>5, ReachedAll
    <3>4. \A off \in pos..last : inode_data(y, i, off) = v
      <4>1. \A off \in pos..last : off \in 0..m-1
        BY <2>3
      <4> HIDE DEF last
      <4> QED BY <2>5, <4>1
    <3> HIDE DEF last
    <3> QED BY <3>2, <3>3, <3>4
  <2>7. ASSUME NEW off \in DOMAIN Contents(d, i) \ (pos..last)
        PROVE  Contents(y, i)[off] = Contents(d, i)[off]
    <3>1. off \in 0..d.inode[i].size-1 /\ Contents(d, i)[off] = inode_data(d, i, off)
      BY DEF Contents
    <3>2. off \in 0..m-1
      BY <1>0, <2>1, <2>3, <3>1
    <3>3. Contents(y, i)[off] = inode_data(y, i, off)
      BY <2>5, <3>2 DEF Contents
    <3> HIDE DEF last
    <3> QED BY <2>1, <2>5, <2>7, <3>1, <3>2, <3>3
  <2> QED BY <2>2, <2>6, <2>7 DEF y, r, Exact
<1> QED BY <1>3, <1>4

\* In every state that the calls lead to, a write that has room is exact: what
\* ospfs_read() then returns is what ospfs_write() was given, and the rest of
\* the file is as it was; after -ENOSPC size and contents are as before, all
\* added blocks having been removed (change_size).
THEOREM WritesAreExact ==
    ASSUME BelowIndirect2, TextsOverMode
    PROVE  Spec => []WriteIsExact
<1>1. FsInv => WriteIsExact
  <2> SUFFICES ASSUME FsInv, NEW i \in held, NEW p \in Place, NEW v \in Data,
                      disk.inode[i].ftype = "REG"
               PROVE  Exact(disk, i, p[1], p[2], v)
    BY DEF WriteIsExact, Exact
  <2>1. p[1] \in Nat /\ p[2] \in Nat /\ p[1] + p[2] <= LIMIT /\ v \in Nat
        /\ i \in Inode \ {ROOT} /\ FilesOK(disk)
    BY CallAssumption, FsParts DEF BelowIndirect2
  <2> QED BY <2>1, WriteResult
<1> QED BY <1>1, FsInvariant, PTL

-----------------------------------------------------------------------------
(* Listing the directory.                                                   *)

LEMMA MaxIs ==
    ASSUME NEW a \in Nat, NEW b \in Nat
    PROVE  Max({a, b}) \in Nat /\ Max({a, b}) >= a /\ Max({a, b}) >= b
<1>1. \E x \in {a, b} : \A y \in {a, b} : x >= y
  <2>1. CASE a >= b
    BY <2>1
  <2>2. CASE b >= a
    BY <2>2
  <2> QED BY <2>1, <2>2
<1>2. Max({a, b}) \in {a, b} /\ \A y \in {a, b} : Max({a, b}) >= y
  BY <1>1 DEF Max
<1> QED BY <1>2

\* The first position without a block is past the last entry.
LEMMA EndIs ==
    ASSUME NEW d, FilesOK(d), NEW pos \in Nat, NEW end,
           end = Min({p \in Max({pos, 2})..Max({pos, d.inode[ROOT].size + 2}) :
                         inode_blockno(d, ROOT, p - 2) = 0})
    PROVE  /\ end \in Nat /\ end >= pos /\ end >= d.inode[ROOT].size + 2
           /\ \A p \in pos..end-1 : p >= 2 => p - 2 \in Offset(d)
<1> DEFINE size == d.inode[ROOT].size
           a == Max({pos, 2})
           b == Max({pos, size + 2})
           T == {p \in a..b : inode_blockno(d, ROOT, p - 2) = 0}
<1>0. size \in Nat /\ 2 \in Nat /\ size + 2 \in Nat
  BY FilesParts, RootInode
<1>1. a \in Nat /\ a >= pos /\ a >= 2
  BY <1>0, MaxIs
<1>2. b \in Nat /\ b >= pos /\ b >= size + 2
  <2> HIDE DEF size
  <2> QED BY <1>0, MaxIs
<1>3. b >= a /\ (a = pos \/ a = 2)
  <2>1. a \in {pos, 2}
    <3>1. \E x \in {pos, 2} : \A y \in {pos, 2} : x >= y
      <4>1. CASE pos >= 2
        BY <4>1
      <4>2. CASE 2 >= pos
        BY <4>2
      <4> QED BY <4>1, <4>2
    <3> QED BY <3>1 DEF Max
  <2> HIDE DEF a, b, size
  <2> QED BY <1>0, <1>1, <1>2, <2>1
<1> HIDE DEF a, b
<1>4. b \in T
  <2>1. b - 2 >= size
    BY <1>0, <1>2
  <2>2. inode_blockno(d, ROOT, b - 2) = 0
    BY <2>1, NoBlockno
  <2> QED BY <1>1, <1>2, <1>3, <2>2
<1>5. \A p \in T : p \in Nat /\ p >= pos /\ p >= size + 2
  <2> SUFFICES ASSUME NEW p \in T PROVE p \in Nat /\ p >= pos /\ p >= size + 2
    OBVIOUS
  <2>1. p \in a..b /\ inode_blockno(d, ROOT, p - 2) = 0
    OBVIOUS
  <2>2. p \in Nat /\ p >= pos /\ p >= 2
    BY <1>1, <1>2, <2>1
  <2>3. ~(p - 2 \in Offset(d))
    BY <2>1, EntryIs
  <2>4. ~(p - 2 < size)
    <3> HIDE DEF T
    <3> QED BY <1>0, <2>2, <2>3 DEF Offset
  <2> HIDE DEF T, size
  <2> QED BY <1>0, <2>2, <2>4
<1>6. end = Min(T)
  BY DEF a, b
<1>7. T \in SUBSET Nat /\ T # {}
  BY <1>4, <1>5
<1>8. end \in T /\ \A p \in T : end <= p
  <2> HIDE DEF T
  <2>1. Min(T) \in T /\ \A n \in T : Min(T) <= n
    BY ONLY <1>7, MinIs
  <2> QED BY ONLY <1>6, <2>1
<1>9. ASSUME NEW p \in pos..end-1, p >= 2 PROVE p - 2 \in Offset(d)
  <2>1. end \in Nat /\ end <= b /\ p \in Nat /\ p < end /\ p >= pos
    BY <1>1, <1>2, <1>5, <1>8
  <2>2. a = pos \/ a = 2
    BY <1>3
  <2>3. p \in a..b
    <3> HIDE DEF T
    <3> QED BY <1>1, <1>2, <1>9, <2>1, <2>2
  <2>4. ~(p \in T)
    <3> HIDE DEF T
    <3> QED BY ONLY <1>8, <2>1
  <2>5. ~(p - 2 >= size)
    BY <2>3, <2>4, NoBlockno
  <2> HIDE DEF T
  <2> QED BY <1>0, <1>9, <2>1, <2>5 DEF Offset
<1> QED BY <1>5, <1>8, <1>9

\* A call of readdir() gives filldir() the entries from pos up to the new f_pos.
Listed(d, pos, c) ==
    /\ c.f_pos \in Nat /\ c.f_pos >= pos /\ c.r \in {0, 1} /\ c.shown \in [Name -> Nat]
    /\ \A off \in Used(d) : c.shown[od_name(Entry(d, off))] =
                               IF off + 2 >= pos /\ off + 2 < c.f_pos THEN 1 ELSE 0
    /\ c.r = 1 => \A off \in Used(d) : off + 2 < c.f_pos
    /\ c.f_pos = 0 => \A name \in Name : c.shown[name] = 0

LEMMA ReaddirIs ==
    ASSUME NEW d, FilesOK(d), NamesInv(d), NEW pos \in Nat, NEW room \in Nat
    PROVE  Listed(d, pos, dir_readdir(d, pos, room))
<1> DEFINE end == Min({p \in Max({pos, 2})..Max({pos, d.inode[ROOT].size + 2}) :
                          inode_blockno(d, ROOT, p - 2) = 0})
           E == {p \in pos..end-1 : p < 2 \/ od_ino(Entry(d, p - 2)) # 0}
           before(p) == {q \in E : q < p}
           taken == {p \in E : Cardinality(before(p)) < room}
           called(name) == {p \in taken : p >= 2 /\ od_name(Entry(d, p - 2)) = name}
           new == Position(E \ taken, end)
           c == dir_readdir(d, pos, room)
<1>1. c.shown = [name \in Name |-> Cardinality(called(name))] /\ c.f_pos = new
      /\ c.r = IF taken = E THEN 1 ELSE 0
  BY DEF dir_readdir
<1>2. /\ end \in Nat /\ end >= pos /\ end >= d.inode[ROOT].size + 2 /\ d.inode[ROOT].size \in Nat
      /\ \A p \in pos..end-1 : p >= 2 => p - 2 \in Offset(d)
  BY EndIs, FilesParts, RootInode
<1> HIDE DEF end, c
<1>3. E \in SUBSET Nat /\ (\A p \in E : p >= pos /\ p < end) /\ taken \in SUBSET E
  BY <1>2
<1>4. IsFiniteSet(E) /\ IsFiniteSet(taken)
  <2>1. IsFiniteSet(pos..end-1)
    BY <1>2, FS_Interval
  <2> QED BY <2>1, FS_Subset
<1>5. ASSUME NEW off \in Used(d)
      PROVE  /\ off \in Nat /\ od_name(Entry(d, off)) \in Name
             /\ off + 2 >= pos => off + 2 \in E
             /\ off + 2 < end
  <2>1. off \in Nat /\ off < d.inode[ROOT].size /\ od_ino(Entry(d, off)) # 0
    BY <1>2 DEF Used, Offset
  <2>2. off + 2 < end /\ off + 2 - 2 = off /\ off + 2 \in Nat
    BY <1>2, <2>1
  <2>3. off + 2 >= pos => off + 2 \in pos..end-1
    BY <1>2, <2>2
  <2> QED BY <2>1, <2>2, <2>3 DEF NamesInv
<1>6. \A p \in taken, q \in E : q < p => q \in taken
  <2> SUFFICES ASSUME NEW p \in taken, NEW q \in E, q < p PROVE q \in taken
    OBVIOUS
  <2>1. before(q) \subseteq before(p)
    BY <1>3
  <2>2. IsFiniteSet(before(p))
    BY <1>4, FS_Subset
  <2>3. Cardinality(before(p)) \in Nat /\ Cardinality(before(q)) \in Nat
        /\ Cardinality(before(q)) <= Cardinality(before(p)) /\ Cardinality(before(p)) < room
    BY <2>1, <2>2, FS_Subset, FS_CardinalityType
  <2> HIDE DEF before
  <2>4. Cardinality(before(q)) < room
    BY <2>3
  <2> QED BY <2>4
<1>7. /\ new \in Nat /\ new >= pos /\ \A p \in E : p \in taken <=> p < new
      /\ taken = E => new = end
  <2>1. CASE E \ taken = {}
    <3>1. new = end /\ taken = E
      BY <1>3, <2>1 DEF Position
    <3> HIDE DEF new, taken, E
    <3> QED BY <1>2, <1>3, <3>1
  <2>2. CASE E \ taken # {}
    <3>1. new = Min(E \ taken)
      BY <2>2 DEF Position
    <3>2. new \in E \ taken /\ \A p \in E \ taken : new <= p
      <4> HIDE DEF taken, E, new
      <4> QED BY <1>3, <2>2, <3>1, MinIs
    <3> HIDE DEF taken, E, new
    <3>3. ASSUME NEW p \in E, p \in taken PROVE p < new
      BY <1>3, <1>6, <3>2, <3>3
    <3>4. ASSUME NEW p \in E, p < new PROVE p \in taken
      BY <1>3, <3>2, <3>4
    <3> QED BY <1>3, <2>2, <3>2, <3>3, <3>4
  <2> QED BY <2>1, <2>2
<1>8. ASSUME NEW off \in Used(d)
      PROVE  Cardinality(called(od_name(Entry(d, off)))) =
                IF off + 2 >= pos /\ off + 2 < new THEN 1 ELSE 0
  <2> DEFINE name == od_name(Entry(d, off))
  <2>1. ASSUME NEW p \in called(name) PROVE p = off + 2
    <3>1. p \in E /\ p \in pos..end-1 /\ p \in Nat /\ p >= 2 /\ od_name(Entry(d, p - 2)) = name
      BY <1>3, <2>1
    <3>2. p - 2 \in Offset(d) /\ od_ino(Entry(d, p - 2)) # 0
      BY <1>2, <3>1
    <3>3. p - 2 \in Used(d)
      BY <3>2 DEF Used
    <3>4. p - 2 = off
      BY <3>1, <3>3 DEF NamesInv
    <3> QED BY <1>5, <3>1, <3>4
  <2>2. off \in Nat /\ off + 2 \in Nat /\ off + 2 >= 2 /\ off + 2 - 2 = off
    BY <1>5
  <2>3. off + 2 \in called(name) <=> off + 2 \in taken
    BY <2>2
  <2>4. off + 2 \in taken <=> off + 2 >= pos /\ off + 2 < new
    <3>1. off + 2 >= pos => off + 2 \in E
      BY <1>5
    <3> HIDE DEF taken, new, E
    <3> QED BY <1>3, <1>7, <3>1
  <2> HIDE DEF called, taken, new
  <2>5. called(name) = IF off + 2 >= pos /\ off + 2 < new THEN {off + 2} ELSE {}
    BY <2>1, <2>3, <2>4
  <2> QED BY <2>5, FS_EmptySet, FS_Singleton
<1>9. \A name \in Name : Cardinality(called(name)) \in Nat
  BY <1>4, FS_Subset, FS_CardinalityType
<1>10. new = 0 => \A name \in Name : Cardinality(called(name)) = 0
  <2> SUFFICES ASSUME new = 0, NEW name \in Name PROVE Cardinality(called(name)) = 0
    OBVIOUS
  <2>1. taken = {}
    <3> HIDE DEF E, taken, new
    <3> QED BY <1>3, <1>7
  <2> QED BY <2>1, FS_EmptySet
<1> HIDE DEF called, taken, new, E
<1>11. c.f_pos \in Nat /\ c.f_pos >= pos /\ c.r \in {0, 1} /\ c.shown \in [Name -> Nat]
  BY <1>1, <1>7, <1>9
<1>12. \A off \in Used(d) : c.shown[od_name(Entry(d, off))] =
                               IF off + 2 >= pos /\ off + 2 < c.f_pos THEN 1 ELSE 0
  BY <1>1, <1>5, <1>8
<1>13. c.r = 1 => \A off \in Used(d) : off + 2 < c.f_pos
  BY <1>1, <1>5, <1>7
<1>14. c.f_pos = 0 => \A name \in Name : c.shown[name] = 0
  BY <1>1, <1>10
<1> QED BY <1>11, <1>12, <1>13, <1>14 DEF Listed, c

Listing == [f_pos : Nat, r : {0, 1}, shown : [Name -> Nat], kept : SUBSET Name]

LEMMA ReaddirListing ==
    ASSUME FsInv, ListingInv, NEW room \in Room, Readdir(room)
    PROVE  ListingInv'
<1> DEFINE c == dir_readdir(disk, filp.f_pos, room)
           pos == filp.f_pos
<1>0. room \in Nat /\ filp \in Listing /\ pos \in Nat
  BY CallAssumption DEF ListingInv, Listing
<1>1. /\ filp.r = 0 /\ disk' = disk
      /\ filp' = [f_pos |-> c.f_pos, r |-> c.r,
                  shown |-> [name \in Name |-> filp.shown[name] + c.shown[name]],
                  kept  |-> IF filp.f_pos = 0 THEN Names(disk) ELSE filp.kept]
  BY DEF Readdir
<1>2. Listed(disk, pos, c)
  BY <1>0, FsParts, ReaddirIs
<1> HIDE DEF c, pos
<1>3. c.f_pos \in Nat /\ c.f_pos >= pos /\ c.r \in {0, 1} /\ c.shown \in [Name -> Nat]
  BY <1>2 DEF Listed
<1>4. Names(disk) \subseteq Name /\ \A name \in Names(disk) : \E off \in Used(disk) :
          od_name(Entry(disk, off)) = name
  BY FsParts DEF Names, Used, NamesInv
<1>5. /\ filp'.f_pos = c.f_pos /\ filp'.r = c.r
      /\ filp'.shown = [name \in Name |-> filp.shown[name] + c.shown[name]]
      /\ filp'.kept = IF pos = 0 THEN Names(disk) ELSE filp.kept
  BY <1>1 DEF pos
<1>6. filp' \in Listing /\ \A name \in Name : filp'.shown[name] = filp.shown[name] + c.shown[name]
  BY <1>0, <1>1, <1>3, <1>4, <1>5 DEF Listing
<1>7. \A off \in Used(disk) : off \in Nat /\ od_name(Entry(disk, off)) \in Name
  BY FsParts DEF Used, Offset, NamesInv
<1>8. ASSUME NEW name \in filp'.kept
      PROVE  \E off \in Used(disk) : /\ od_name(Entry(disk, off)) = name
                                     /\ filp.shown[name] = IF off + 2 < pos THEN 1 ELSE 0
  <2>1. CASE pos = 0
    <3>1. PICK off \in Used(disk) : od_name(Entry(disk, off)) = name
      BY <1>4, <1>5, <1>8, <2>1
    <3>2. filp.shown[name] = 0
      BY <1>1, <1>7, <2>1, <3>1 DEF ListingInv, pos
    <3> QED BY <1>7, <2>1, <3>1, <3>2
  <2>2. CASE pos # 0
    <3>1. pos > 0 /\ name \in filp.kept
      BY <1>0, <1>5, <1>8, <2>2
    <3> QED BY <1>1, <3>1 DEF ListingInv, pos
  <2> QED BY <2>1, <2>2
<1>9. ASSUME NEW name \in filp'.kept
      PROVE  \E off \in Used(disk) : /\ od_name(Entry(disk, off)) = name
                                     /\ filp'.shown[name] = IF off + 2 < c.f_pos THEN 1 ELSE 0
  <2>1. PICK off \in Used(disk) : /\ od_name(Entry(disk, off)) = name
                                  /\ filp.shown[name] = IF off + 2 < pos THEN 1 ELSE 0
    BY <1>8
  <2>2. c.shown[name] = IF off + 2 >= pos /\ off + 2 < c.f_pos THEN 1 ELSE 0
    BY <1>2, <2>1 DEF Listed
  <2>3. off \in Nat /\ filp'.shown[name] = filp.shown[name] + c.shown[name]
    BY <1>6, <1>7, <2>1
  <2>4. filp'.shown[name] = IF off + 2 < c.f_pos THEN 1 ELSE 0
    BY <1>0, <1>3, <2>1, <2>2, <2>3
  <2> QED BY <2>1, <2>4
<1>10. c.r = 1 => \A name \in filp'.kept : filp'.shown[name] = 1
  <2>1. c.r = 1 => \A off \in Used(disk) : off + 2 < c.f_pos
    BY <1>2 DEF Listed
  <2> QED BY <1>9, <2>1
<1>11. c.f_pos = 0 => \A name \in Name : filp'.shown[name] = 0
  <2> SUFFICES ASSUME c.f_pos = 0, NEW name \in Name PROVE filp'.shown[name] = 0
    OBVIOUS
  <2>1. pos = 0
    BY <1>0, <1>3
  <2>2. filp.shown[name] = 0
    BY <1>1, <2>1 DEF ListingInv, pos
  <2>3. c.shown[name] = 0
    BY <1>2 DEF Listed
  <2> QED BY <1>6, <2>2, <2>3
<1>12. /\ filp' \in Listing
       /\ filp'.r = 0 /\ filp'.f_pos = 0 => \A name \in Name : filp'.shown[name] = 0
       /\ filp'.r = 0 /\ filp'.f_pos > 0 =>
              \A name \in filp'.kept : \E off \in Used(disk') :
                  /\ od_name(Entry(disk', off)) = name
                  /\ filp'.shown[name] = IF off + 2 < filp'.f_pos THEN 1 ELSE 0
       /\ filp'.r = 1 => \A name \in filp'.kept : filp'.shown[name] = 1
  BY <1>1, <1>5, <1>6, <1>9, <1>10, <1>11
<1> QED BY <1>12 DEF ListingInv, ListingComplete, Listing

\* The other calls leave the listing alone: names that stay keep their entries.
LEMMA KeptListing ==
    ASSUME FsInv, ListingInv, NEW gone \in SUBSET Name, Stays(disk, disk', gone),
           (gone = {} /\ filp' = filp) \/ filp' = [filp EXCEPT !.kept = @ \ gone]
    PROVE  ListingInv'
<1>1. filp \in Listing
  BY DEF ListingInv, Listing
<1>2. /\ filp' \in Listing /\ filp'.f_pos = filp.f_pos /\ filp'.r = filp.r
      /\ filp'.shown = filp.shown /\ filp'.kept = filp.kept \ gone
  <2>1. CASE gone = {} /\ filp' = filp
    BY <1>1, <2>1 DEF Listing
  <2>2. CASE filp' = [filp EXCEPT !.kept = @ \ gone]
    BY <1>1, <2>2 DEF Listing
  <2> QED BY <2>1, <2>2
<1>3. ASSUME filp.r = 0, filp.f_pos > 0, NEW name \in filp'.kept
      PROVE  \E off \in Used(disk') :
                 /\ od_name(Entry(disk', off)) = name
                 /\ filp'.shown[name] = IF off + 2 < filp'.f_pos THEN 1 ELSE 0
  <2>1. name \in filp.kept /\ name \notin gone
    BY <1>2, <1>3
  <2>2. PICK off \in Used(disk) : /\ od_name(Entry(disk, off)) = name
                                  /\ filp.shown[name] = IF off + 2 < filp.f_pos THEN 1 ELSE 0
    BY <1>3, <2>1 DEF ListingInv
  <2>3. off \in Used(disk') /\ Entry(disk', off) = Entry(disk, off)
    BY <2>1, <2>2 DEF Stays
  <2> QED BY <1>2, <2>2, <2>3
<1>4. filp'.r = 0 /\ filp'.f_pos = 0 => \A name \in Name : filp'.shown[name] = 0
  BY <1>2 DEF ListingInv
<1>5. filp'.r = 1 => \A name \in filp'.kept : filp'.shown[name] = 1
  BY <1>2 DEF ListingInv, ListingComplete
<1> QED BY <1>2, <1>3, <1>4, <1>5 DEF ListingInv, ListingComplete, Listing

LEMMA ListingInvInit ==
    ASSUME Init
    PROVE  ListingInv
<1>1. filp = [f_pos |-> 0, r |-> 0, shown |-> [name \in Name |-> 0], kept |-> {}]
  BY DEF Init
<1> QED BY <1>1 DEF ListingInv, ListingComplete

LEMMA ListingInvStep ==
    ASSUME FsInv, ListingInv, BelowIndirect2, TextsOverMode, [Next]_vars
    PROVE  ListingInv'
<1>1. CASE Next
  <2>1. PICK gone \in SUBSET Name : \E i : Stepped(i, gone)
    BY <1>1, NextStep
  <2>2. /\ Stays(disk, disk', gone)
        /\ \/ gone = {} /\ (filp' = filp \/ \E room \in Room : Readdir(room))
           \/ filp' = [filp EXCEPT !.kept = @ \ gone]
    BY <2>1 DEF Stepped, Keeps
  <2> QED BY <2>2, KeptListing, ReaddirListing
<1>2. CASE UNCHANGED vars
  <2>1. Stays(disk, disk', {}) /\ filp' = filp
    BY <1>2 DEF vars, Stays
  <2> QED BY <2>1, KeptListing
<1> QED BY <1>1, <1>2

\* A listing in several calls of ospfs_dir_readdir() shows every name that was
\* in the directory all the time, and shows it once, whatever was created,
\* linked and unlinked between the calls and whatever room the buffers had.
THEOREM ListingsAreComplete ==
    ASSUME BelowIndirect2, TextsOverMode
    PROVE  Spec => []ListingComplete
<1>1. Init => ListingInv
  BY ListingInvInit
<1>2. FsInv /\ ListingInv /\ [Next]_vars => ListingInv'
  BY ListingInvStep
<1>3. ListingInv => ListingComplete
  BY DEF ListingInv
<1> QED BY <1>1, <1>2, <1>3, FsInvariant, PTL DEF Spec
=============================================================================
