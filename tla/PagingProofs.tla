---------------------------- MODULE PagingProofs ----------------------------
(***************************************************************************)
(* Proofs about Paging, for any rows, any sizes of a page that are         *)
(* unsigned integers, and any number of changes of the database.           *)
(***************************************************************************)
EXTENDS Paging, SequenceTheorems, FiniteSetTheorems, WellFoundedInduction, TLAPS

-----------------------------------------------------------------------------
(* Pages put together. *)

\* A set of natural numbers that is not empty has a least element.
LEMMA LeastNat ==
    ASSUME NEW T \in SUBSET Nat, T # {}
    PROVE  \E m \in T : \A n \in T : m <= n
<1> DEFINE R == OpToRel(<, Nat)
<1>1. IsWellFoundedOn(R, Nat)
      BY NatLessThanWellFounded
<1>2. \A m, n \in T : n < m => <<n, m>> \in R
      BY DEF OpToRel
<1> HIDE DEF R
<1>3. PICK m \in T : \A n \in T : <<n, m>> \notin R
      BY <1>1, WFMin
<1>4. \A n \in T : ~(n < m)
      BY <1>2, <1>3
<1>5. QED BY <1>3, <1>4

\* f[i] is the first i of n pages, put together.
Together(s, n, f) == f = [i \in 1..n |-> IF i = 1 THEN s[i] ELSE f[i-1] \o s[i]]

\* There is such a function, as concat_pages takes the pages one by one.
LEMMA TogetherExists ==
    ASSUME NEW s, NEW n \in Nat
    PROVE  \E f : Together(s, n, f)
<1> DEFINE T == {k \in Nat : ~\E f : Together(s, k, f)}
<1>1. SUFFICES ASSUME T # {} PROVE FALSE
      OBVIOUS
<1>2. PICK m \in T : \A k \in T : m <= k
      BY <1>1, LeastNat
<1>3. m # 0
  <2>1. Together(s, 0, [i \in 1..0 |-> i])
        BY DEF Together
  <2>2. QED BY <2>1, <1>2
<1>4. PICK f : Together(s, m - 1, f)
      BY <1>2, <1>3
<1> DEFINE g == [i \in 1..m |-> IF i < m THEN f[i] ELSE IF i = 1 THEN s[i] ELSE f[i-1] \o s[i]]
<1>5. \A i \in 1..(m - 1) : f[i] = IF i = 1 THEN s[i] ELSE f[i-1] \o s[i]
      BY <1>4, <1>3 DEF Together
<1>6. \A i \in 1..m : g[i] = IF i = 1 THEN s[i] ELSE g[i-1] \o s[i]
  <2> TAKE i \in 1..m
  <2>1. CASE i < m
        BY <2>1, <1>5, <1>2
  <2>2. CASE i = m
        BY <2>2, <1>2
  <2>3. QED BY <2>1, <2>2, <1>2
<1>7. g = [i \in 1..m |-> g[i]]
      OBVIOUS
<1> HIDE DEF g
<1>8. Together(s, m, g)
      BY <1>6, <1>7 DEF Together
<1>9. QED BY <1>8, <1>2

\* What it is of a page depends on the pages up to it alone.
LEMMA TogetherUnique ==
    ASSUME NEW s, NEW t, NEW m \in Nat, NEW n \in Nat, NEW f, NEW g,
           Together(s, m, f), Together(t, n, g), m <= n, \A i \in 1..m : s[i] = t[i]
    PROVE  \A i \in 1..m : f[i] = g[i]
<1> DEFINE T == {i \in 1..m : f[i] # g[i]}
<1>1. SUFFICES ASSUME T # {} PROVE FALSE
      OBVIOUS
<1>2. PICK k \in T : \A i \in T : k <= i
  <2>1. T \in SUBSET Nat
        OBVIOUS
  <2> HIDE DEF T
  <2>2. QED BY <1>1, <2>1, LeastNat
<1>3. /\ f[k] = IF k = 1 THEN s[k] ELSE f[k-1] \o s[k]
      /\ g[k] = IF k = 1 THEN t[k] ELSE g[k-1] \o t[k]
  <2>1. \A i \in 1..m : f[i] = IF i = 1 THEN s[i] ELSE f[i-1] \o s[i]
        BY DEF Together
  <2>2. \A i \in 1..n : g[i] = IF i = 1 THEN t[i] ELSE g[i-1] \o t[i]
        BY DEF Together
  <2>3. k \in 1..m /\ k \in 1..n
        BY <1>2
  <2>4. QED BY <2>1, <2>2, <2>3
<1>4. k # 1 => f[k-1] = g[k-1]
      BY <1>2
<1>5. s[k] = t[k]
      BY <1>2
<1>6. QED BY <1>2, <1>3, <1>4, <1>5

LEMMA FlattenIs ==
    ASSUME NEW S, NEW s \in Seq(S), s # <<>>
    PROVE  \E f : Together(s, Len(s), f) /\ FlattenSeq(s) = f[Len(s)]
<1>1. Len(s) \in Nat /\ Len(s) # 0
      OBVIOUS
<1> DEFINE chosen == CHOOSE f : Together(s, Len(s), f)
<1>2. Together(s, Len(s), chosen)
      BY <1>1, TogetherExists
<1>3. FlattenSeq(s) = chosen[Len(s)]
      BY <1>1 DEF FlattenSeq, Together
<1> HIDE DEF chosen
<1>4. QED BY <1>2, <1>3

\* One more page comes after the others.
LEMMA FlattenAppend ==
    ASSUME NEW R, NEW s \in Seq(Seq(R)), NEW x \in Seq(R)
    PROVE  FlattenSeq(Append(s, x)) = FlattenSeq(s) \o x /\ FlattenSeq(<<>>) = <<>>
<1>0. FlattenSeq(<<>>) = <<>>
      BY DEF FlattenSeq
<1>1. /\ Append(s, x) \in Seq(Seq(R)) /\ Append(s, x) # <<>> /\ Len(Append(s, x)) = Len(s) + 1
      /\ \A i \in 1..Len(s) : Append(s, x)[i] = s[i]
      /\ Append(s, x)[Len(s) + 1] = x /\ Len(s) \in Nat
      BY AppendProperties
<1> DEFINE t == Append(s, x)
<1> HIDE DEF t
<1>2. PICK g : Together(t, Len(t), g) /\ FlattenSeq(t) = g[Len(t)]
      BY <1>1, FlattenIs DEF t
<1>3. CASE s = <<>>
  <2>1. FlattenSeq(t) = x
        BY <1>1, <1>2, <1>3 DEF Together, t
  <2>2. QED BY <2>1, <1>3, <1>0, ConcatEmptySeq DEF t
<1>4. CASE s # <<>>
  <2>1. PICK f : Together(s, Len(s), f) /\ FlattenSeq(s) = f[Len(s)]
        BY <1>4, FlattenIs
  <2>2. \A i \in 1..Len(s) : f[i] = g[i]
    <3>1. \A i \in 1..Len(s) : s[i] = t[i]
          BY <1>1 DEF t
    <3>2. Len(s) \in Nat /\ Len(t) \in Nat /\ Len(s) <= Len(t)
          BY <1>1 DEF t
    <3> DEFINE m == Len(s)
               n == Len(t)
    <3>3. m \in Nat /\ n \in Nat /\ m <= n /\ (\A i \in 1..m : s[i] = t[i])
          BY <3>1, <3>2
    <3>4. Together(s, m, f) /\ Together(t, n, g)
          BY <1>2, <2>1
    <3> HIDE DEF m, n
    <3>5. \A i \in 1..m : f[i] = g[i]
          BY <3>3, <3>4, TogetherUnique
    <3>6. QED BY <3>5 DEF m
  <2>3. Len(s) \in 1..Len(s) /\ Len(t) # 1 /\ Len(t) \in 1..Len(t) /\ Len(t) - 1 = Len(s) /\ t[Len(t)] = x
        BY <1>1, <1>4 DEF t
  <2>4. g[Len(t)] = g[Len(s)] \o x
        BY <1>2, <2>3 DEF Together
  <2>5. QED BY <1>0, <1>2, <2>1, <2>2, <2>3, <2>4 DEF t
<1>5. QED BY <1>3, <1>4

-----------------------------------------------------------------------------
(* Pages and rows. *)

\* The rows t are some of s, from the one after the first k on.
From(s, k, t) == \A i \in 1..Len(t) : k + i <= Len(s) /\ t[i] = s[k + i]

\* The first k rows of s, as far as there are so many, and those after them.
InFront(s, k) == {s[j] : j \in {j \in 1..Len(s) : j <= k}}
Behind(s, k) == {s[j] : j \in {j \in 1..Len(s) : j > k}}

\* A page holds the rows from the skip on, as many as it may or as there are.
LEMMA AnswerIs ==
    ASSUME NEW skip \in Nat, NEW n \in Nat \ {0}, remote \in Seq(Rows)
    PROVE  /\ Answer(skip, n) \in Seq(Rows)
           /\ From(remote, skip, Answer(skip, n))
           /\ Len(Answer(skip, n)) >= n => skip + n <= Len(remote) /\ Answer(skip, n) = SubSeq(remote, skip + 1, skip + n)
           /\ Len(Answer(skip, n)) < n => Len(remote) <= skip + Len(Answer(skip, n))
           /\ Len(Answer(skip, n)) < n /\ skip <= Len(remote) => Answer(skip, n) = SubSeq(remote, skip + 1, Len(remote))
<1> DEFINE last == Min({skip + n, Len(remote)})
<1>1. Len(remote) \in Nat /\ \A i \in 1..Len(remote) : remote[i] \in Rows
      BY ElementOfSeq, LenProperties
<1>2. last = IF skip + n <= Len(remote) THEN skip + n ELSE Len(remote)
  <2>1. CASE skip + n <= Len(remote)
    <3>1. \A x \in {skip + n, Len(remote)} : (\A y \in {skip + n, Len(remote)} : x <= y) => x = skip + n
          BY <1>1, <2>1
    <3>2. \A y \in {skip + n, Len(remote)} : skip + n <= y
          BY <1>1, <2>1
    <3>3. QED BY <2>1, <3>1, <3>2 DEF Min
  <2>2. CASE ~(skip + n <= Len(remote))
    <3>1. \A x \in {skip + n, Len(remote)} : (\A y \in {skip + n, Len(remote)} : x <= y) => x = Len(remote)
          BY <1>1, <2>2
    <3>2. \A y \in {skip + n, Len(remote)} : Len(remote) <= y
          BY <1>1, <2>2
    <3>3. QED BY <2>2, <3>1, <3>2 DEF Min
  <2>3. QED BY <2>1, <2>2
<1>3. Answer(skip, n) = SubSeq(remote, skip + 1, last)
      BY DEF Answer
<1> HIDE DEF last
<1>4. last \in Int /\ skip + 1 \in Int /\ \A i \in (skip + 1)..last : remote[i] \in Rows
      BY <1>1, <1>2
<1>5. /\ Answer(skip, n) \in Seq(Rows)
      /\ Len(Answer(skip, n)) = IF skip + 1 <= last THEN last - (skip + 1) + 1 ELSE 0
      /\ \A i \in 1..(last - (skip + 1) + 1) : Answer(skip, n)[i] = remote[(skip + 1) + i - 1]
  <2> DEFINE from == skip + 1
  <2>1. last \in Int /\ from \in Int /\ \A i \in from..last : remote[i] \in Rows
        BY <1>4
  <2> HIDE DEF from
  <2>2. /\ SubSeq(remote, from, last) \in Seq(Rows)
        /\ Len(SubSeq(remote, from, last)) = IF from <= last THEN last - from + 1 ELSE 0
        /\ \A i \in 1..(last - from + 1) : SubSeq(remote, from, last)[i] = remote[from + i - 1]
        BY <2>1, SubSeqProperties
  <2>3. QED BY <1>3, <2>2 DEF from
<1>6. \A i \in 1..Len(Answer(skip, n)) : skip + i <= Len(remote) /\ Answer(skip, n)[i] = remote[skip + i]
      BY <1>1, <1>2, <1>5
<1>7. Len(Answer(skip, n)) >= n => skip + n <= Len(remote) /\ last = skip + n
      BY <1>1, <1>2, <1>5
<1>8. Len(Answer(skip, n)) < n /\ skip <= Len(remote) => last = Len(remote)
      BY <1>1, <1>2, <1>5
<1>9. Len(Answer(skip, n)) < n => Len(remote) <= skip + Len(Answer(skip, n))
      BY <1>1, <1>2, <1>5
<1>10. QED BY <1>3, <1>5, <1>6, <1>7, <1>8, <1>9 DEF From

\* The rows after one that goes move up by one.
LEMMA RemoveAtIs ==
    ASSUME NEW R, NEW s \in Seq(R), NEW i \in DOMAIN s
    PROVE  /\ RemoveAt(s, i) \in Seq(R) /\ Len(RemoveAt(s, i)) = Len(s) - 1
           /\ \A j \in 1..(Len(s) - 1) : RemoveAt(s, i)[j] = IF j < i THEN s[j] ELSE s[j + 1]
<1>1. Len(s) \in Nat /\ i \in 1..Len(s) /\ \A j \in 1..Len(s) : s[j] \in R
      BY ElementOfSeq, LenProperties
<1> DEFINE a == SubSeq(s, 1, i - 1)
           b == SubSeq(s, i + 1, Len(s))
<1>2. a \in Seq(R) /\ Len(a) = i - 1 /\ \A j \in 1..(i - 1) : a[j] = s[j]
  <2>1. 1 \in Int /\ i - 1 \in Int /\ \A j \in 1..(i - 1) : s[j] \in R
        BY <1>1
  <2>2. /\ a \in Seq(R) /\ Len(a) = (IF 1 <= i - 1 THEN (i - 1) - 1 + 1 ELSE 0)
        /\ \A j \in 1..((i - 1) - 1 + 1) : a[j] = s[1 + j - 1]
        BY <2>1, SubSeqProperties
  <2> HIDE DEF a
  <2>3. QED BY <1>1, <2>2
<1>3. b \in Seq(R) /\ Len(b) = Len(s) - i /\ \A j \in 1..(Len(s) - i) : b[j] = s[i + j]
  <2>1. i + 1 \in Int /\ Len(s) \in Int /\ \A j \in (i + 1)..Len(s) : s[j] \in R
        BY <1>1
  <2>2. /\ b \in Seq(R) /\ Len(b) = (IF i + 1 <= Len(s) THEN Len(s) - (i + 1) + 1 ELSE 0)
        /\ \A j \in 1..(Len(s) - (i + 1) + 1) : b[j] = s[(i + 1) + j - 1]
        BY <2>1, SubSeqProperties
  <2> HIDE DEF b
  <2>3. QED BY <1>1, <2>2
<1>4. RemoveAt(s, i) = a \o b
      BY DEF RemoveAt
<1> HIDE DEF a, b
<1>5. /\ a \o b \in Seq(R) /\ Len(a \o b) = Len(a) + Len(b)
      /\ \A j \in 1..(Len(a) + Len(b)) : (a \o b)[j] = IF j <= Len(a) THEN a[j] ELSE b[j - Len(a)]
      BY <1>2, <1>3, ConcatProperties
<1>6. \A j \in 1..(Len(s) - 1) : (a \o b)[j] = IF j < i THEN s[j] ELSE s[j + 1]
  <2> TAKE j \in 1..(Len(s) - 1)
  <2>1. CASE j < i
    <3>1. Len(a) = i - 1 /\ Len(b) = Len(s) - i
          BY <1>2, <1>3
    <3>2. j \in 1..(i - 1) /\ j \in 1..(Len(a) + Len(b)) /\ j <= Len(a)
          BY <1>1, <2>1, <3>1
    <3>3. (a \o b)[j] = a[j]
          BY <1>5, <3>2
    <3>4. QED BY <1>2, <2>1, <3>2, <3>3
  <2>2. CASE ~(j < i)
    <3>1. j - (i - 1) \in 1..(Len(s) - i) /\ i + (j - (i - 1)) = j + 1
          BY <1>1, <2>2
    <3>2. (a \o b)[j] = b[j - (i - 1)]
      <4>1. Len(a) = i - 1 /\ Len(b) = Len(s) - i /\ i - 1 \in Int /\ Len(s) - i \in Int
            BY <1>1, <1>2, <1>3
      <4>2. j \in 1..(Len(a) + Len(b)) /\ ~(j <= Len(a))
            BY <1>1, <2>2, <4>1
      <4>3. (a \o b)[j] = b[j - Len(a)]
            BY <1>5, <4>2
      <4>4. QED BY <4>1, <4>3
    <3>3. QED BY <1>3, <2>2, <3>1, <3>2
  <2>3. QED BY <2>1, <2>2
<1>7. Len(a) + Len(b) = Len(s) - 1
      BY <1>1, <1>2, <1>3
<1>8. QED BY <1>4, <1>5, <1>6, <1>7

\* u is s with e in the place i, and the rows from there on one place down.
Inserted(s, i, e, u) ==
    /\ Len(u) = Len(s) + 1
    /\ \A j \in 1..(Len(s) + 1) : u[j] = IF j < i THEN s[j] ELSE IF j = i THEN e ELSE s[j - 1]

LEMMA InsertAtIs ==
    ASSUME NEW R, NEW s \in Seq(R), NEW i \in 1..(Len(s) + 1), NEW e \in R
    PROVE  InsertAt(s, i, e) \in Seq(R) /\ Inserted(s, i, e, InsertAt(s, i, e))
<1>1. Len(s) \in Nat /\ i \in 1..(Len(s) + 1) /\ \A j \in 1..Len(s) : s[j] \in R
      BY ElementOfSeq, LenProperties
<1> DEFINE a == SubSeq(s, 1, i - 1)
           b == SubSeq(s, i, Len(s))
           m == Append(a, e)
<1>2. a \in Seq(R) /\ Len(a) = i - 1 /\ \A j \in 1..(i - 1) : a[j] = s[j]
  <2>1. 1 \in Int /\ i - 1 \in Int /\ \A j \in 1..(i - 1) : s[j] \in R
        BY <1>1
  <2>2. /\ a \in Seq(R) /\ Len(a) = (IF 1 <= i - 1 THEN (i - 1) - 1 + 1 ELSE 0)
        /\ \A j \in 1..((i - 1) - 1 + 1) : a[j] = s[1 + j - 1]
        BY <2>1, SubSeqProperties
  <2> HIDE DEF a
  <2>3. QED BY <1>1, <2>2
<1>3. b \in Seq(R) /\ Len(b) = Len(s) - i + 1 /\ \A j \in 1..(Len(s) - i + 1) : b[j] = s[i + j - 1]
  <2>1. i \in Int /\ Len(s) \in Int /\ \A j \in i..Len(s) : s[j] \in R
        BY <1>1
  <2>2. /\ b \in Seq(R) /\ Len(b) = (IF i <= Len(s) THEN Len(s) - i + 1 ELSE 0)
        /\ \A j \in 1..(Len(s) - i + 1) : b[j] = s[i + j - 1]
        BY <2>1, SubSeqProperties
  <2> HIDE DEF b
  <2>3. QED BY <1>1, <2>2
<1>4. InsertAt(s, i, e) = (a \o <<e>>) \o b
      BY DEF InsertAt
<1> HIDE DEF a, b
<1>5. a \o <<e>> = m
      BY <1>2, AppendIsConcat
<1>6. m \in Seq(R) /\ Len(m) = i /\ (\A j \in 1..(i - 1) : m[j] = s[j]) /\ m[i] = e
  <2>1. /\ m \in Seq(R) /\ Len(m) = Len(a) + 1
        /\ (\A j \in 1..Len(a) : m[j] = a[j]) /\ m[Len(a) + 1] = e
        BY <1>2, AppendProperties
  <2>2. Len(a) + 1 = i
        BY <1>1, <1>2
  <2>3. QED BY <1>1, <1>2, <2>1, <2>2
<1> HIDE DEF m
<1>7. /\ m \o b \in Seq(R) /\ Len(m \o b) = Len(m) + Len(b)
      /\ \A j \in 1..(Len(m) + Len(b)) : (m \o b)[j] = IF j <= Len(m) THEN m[j] ELSE b[j - Len(m)]
      BY <1>3, <1>6, ConcatProperties
<1>8. Len(m) = i /\ Len(m) + Len(b) = Len(s) + 1
      BY <1>1, <1>3, <1>6
<1> DEFINE u == m \o b
<1>9. /\ u \in Seq(R) /\ Len(u) = Len(s) + 1
      /\ \A j \in 1..(Len(s) + 1) : u[j] = IF j <= i THEN m[j] ELSE b[j - i]
      BY <1>7, <1>8
<1> HIDE DEF u
<1>10. \A j \in 1..(Len(s) + 1) : u[j] = IF j < i THEN s[j] ELSE IF j = i THEN e ELSE s[j - 1]
  <2> TAKE j \in 1..(Len(s) + 1)
  <2>1. CASE j <= i
        BY <1>1, <1>6, <1>9, <2>1
  <2>2. CASE ~(j <= i)
    <3>1. j - i \in 1..(Len(s) - i + 1) /\ i + (j - i) - 1 = j - 1
          BY <1>1, <2>2
    <3>2. b[j - i] = s[j - 1]
          BY <1>3, <3>1
    <3>3. QED BY <1>1, <1>9, <2>2, <3>2
  <2>3. QED BY <2>1, <2>2
<1>11. u \in Seq(R) /\ Inserted(s, i, e, u)
      BY <1>9, <1>10 DEF Inserted
<1>12. QED BY <1>4, <1>5, <1>11 DEF u

\* A row that has gone is not among the others.
LEMMA InjectiveRemoveAt ==
    ASSUME NEW R, NEW s \in Seq(R), IsInjective(s), NEW i \in DOMAIN s
    PROVE  IsInjective(RemoveAt(s, i)) /\ \A j \in 1..(Len(s) - 1) : RemoveAt(s, i)[j] # s[i]
<1> DEFINE u == RemoveAt(s, i)
<1>1. /\ u \in Seq(R) /\ Len(u) = Len(s) - 1
      /\ \A j \in 1..(Len(s) - 1) : u[j] = IF j < i THEN s[j] ELSE s[j + 1]
      BY RemoveAtIs
<1>2. Len(s) \in Nat /\ DOMAIN s = 1..Len(s) /\ i \in 1..Len(s)
      BY LenProperties
<1> HIDE DEF u
<1>3. DOMAIN u = 1..(Len(s) - 1)
      BY <1>1, LenProperties
<1>4. \A j \in 1..(Len(s) - 1) : \E k \in 1..Len(s) : k # i /\ (k = IF j < i THEN j ELSE j + 1) /\ u[j] = s[k]
      BY <1>1, <1>2
<1>5. \A j \in 1..(Len(s) - 1) : u[j] # s[i]
      BY <1>2, <1>4 DEF IsInjective
<1>6. \A j, k \in 1..(Len(s) - 1) : u[j] = u[k] => j = k
  <2> SUFFICES ASSUME NEW j \in 1..(Len(s) - 1), NEW k \in 1..(Len(s) - 1), u[j] = u[k] PROVE j = k
      OBVIOUS
  <2>1. PICK a \in 1..Len(s) : (a = IF j < i THEN j ELSE j + 1) /\ u[j] = s[a]
        BY <1>4
  <2>2. PICK b \in 1..Len(s) : (b = IF k < i THEN k ELSE k + 1) /\ u[k] = s[b]
        BY <1>4
  <2>3. a = b
        BY <1>2, <2>1, <2>2 DEF IsInjective
  <2>4. QED BY <1>2, <2>1, <2>2, <2>3
<1>7. IsInjective(u)
      BY <1>3, <1>6 DEF IsInjective
<1>8. QED BY <1>5, <1>7 DEF u

\* A row that comes in is told apart from the others.
LEMMA InjectiveInsertAt ==
    ASSUME NEW R, NEW s \in Seq(R), IsInjective(s), NEW i \in 1..(Len(s) + 1), NEW e \in R,
           \A j \in 1..Len(s) : s[j] # e
    PROVE  IsInjective(InsertAt(s, i, e))
<1>0. InsertAt(s, i, e) \in Seq(R) /\ Inserted(s, i, e, InsertAt(s, i, e))
      BY InsertAtIs
<1> DEFINE u == InsertAt(s, i, e)
<1>1. /\ u \in Seq(R) /\ Len(u) = Len(s) + 1
      /\ \A j \in 1..(Len(s) + 1) : u[j] = IF j < i THEN s[j] ELSE IF j = i THEN e ELSE s[j - 1]
      BY <1>0 DEF Inserted
<1>2. Len(s) \in Nat /\ DOMAIN s = 1..Len(s) /\ i \in 1..(Len(s) + 1)
      BY LenProperties
<1> HIDE DEF u
<1>3. DOMAIN u = 1..(Len(s) + 1)
      BY <1>1, LenProperties
<1>4. \A j \in 1..(Len(s) + 1) :
         j # i => \E k \in 1..Len(s) : (k = IF j < i THEN j ELSE j - 1) /\ u[j] = s[k]
      BY <1>1, <1>2
<1>5. u[i] = e
      BY <1>1, <1>2
<1>6. ASSUME NEW j \in 1..(Len(s) + 1), NEW k \in 1..(Len(s) + 1), u[j] = u[k], j # i, k # i PROVE j = k
  <2>1. PICK a \in 1..Len(s) : (a = IF j < i THEN j ELSE j - 1) /\ u[j] = s[a]
        BY <1>4, <1>6
  <2>2. PICK b \in 1..Len(s) : (b = IF k < i THEN k ELSE k - 1) /\ u[k] = s[b]
        BY <1>4, <1>6
  <2>3. a = b
        BY <1>2, <1>6, <2>1, <2>2 DEF IsInjective
  <2>4. QED BY <1>2, <1>6, <2>1, <2>2, <2>3
<1>7. \A j \in 1..(Len(s) + 1) : j # i => u[j] # e
      BY <1>4
<1>8. QED BY <1>3, <1>5, <1>6, <1>7 DEF IsInjective, u

\* A part of rows that are told apart.
LEMMA InjectiveFrom ==
    ASSUME NEW R, NEW s \in Seq(R), NEW t \in Seq(R), NEW k \in Nat, IsInjective(s), From(s, k, t)
    PROVE  IsInjective(t)
<1>1. Len(s) \in Nat /\ DOMAIN s = 1..Len(s) /\ Len(t) \in Nat /\ DOMAIN t = 1..Len(t)
      BY LenProperties
<1> SUFFICES ASSUME NEW i \in 1..Len(t), NEW j \in 1..Len(t), t[i] = t[j] PROVE i = j
    BY <1>1 DEF IsInjective
<1>2. k + i \in 1..Len(s) /\ k + j \in 1..Len(s) /\ s[k + i] = s[k + j]
      BY <1>1 DEF From
<1>3. k + i = k + j
      BY <1>1, <1>2 DEF IsInjective
<1>4. QED BY <1>3

\* Every row is among the first k or behind them.
LEMMA FrontAndBehind ==
    ASSUME NEW R, NEW s \in Seq(R), NEW k \in Nat
    PROVE  ToSet(s) = InFront(s, k) \cup Behind(s, k)
<1>1. Len(s) \in Nat /\ DOMAIN s = 1..Len(s)
      BY LenProperties
<1>2. \A j \in 1..Len(s) : j <= k \/ j > k
      BY <1>1
<1>3. QED BY <1>1, <1>2 DEF InFront, Behind, ToSet

\* When one row goes, at most one comes to the front, and none goes behind it.
LEMMA RemovalShifts ==
    ASSUME NEW R, NEW s \in Seq(R), NEW i \in DOMAIN s, NEW k \in Nat
    PROVE  /\ Behind(RemoveAt(s, i), k) \subseteq Behind(s, k)
           /\ InFront(RemoveAt(s, i), k) \subseteq InFront(s, k) \cup {s[k + 1]}
           /\ ToSet(s) \subseteq ToSet(RemoveAt(s, i)) \cup {s[i]}
<1> DEFINE u == RemoveAt(s, i)
<1>1. /\ u \in Seq(R) /\ Len(u) = Len(s) - 1
      /\ \A j \in 1..(Len(s) - 1) : u[j] = IF j < i THEN s[j] ELSE s[j + 1]
      BY RemoveAtIs
<1>2. Len(s) \in Nat /\ DOMAIN s = 1..Len(s) /\ i \in 1..Len(s)
      BY LenProperties
<1> HIDE DEF u
<1>3. DOMAIN u = 1..(Len(s) - 1)
      BY <1>1, LenProperties
<1>4. \A j \in 1..(Len(s) - 1) : j > k => \E l \in 1..Len(s) : l > k /\ u[j] = s[l]
  <2> SUFFICES ASSUME NEW j \in 1..(Len(s) - 1), j > k PROVE \E l \in 1..Len(s) : l > k /\ u[j] = s[l]
      OBVIOUS
  <2>1. j \in 1..Len(s) /\ j + 1 \in 1..Len(s) /\ j + 1 > k
        BY <1>2
  <2>2. u[j] = s[j] \/ u[j] = s[j + 1]
        BY <1>1
  <2>3. QED BY <2>1, <2>2
<1>5. \A j \in 1..(Len(s) - 1) : j <= k => u[j] = s[k + 1] \/ \E l \in 1..Len(s) : l <= k /\ u[j] = s[l]
  <2> SUFFICES ASSUME NEW j \in 1..(Len(s) - 1), j <= k
               PROVE  u[j] = s[k + 1] \/ \E l \in 1..Len(s) : l <= k /\ u[j] = s[l]
      OBVIOUS
  <2>1. j \in 1..Len(s) /\ j + 1 \in 1..Len(s) /\ (j + 1 <= k \/ j + 1 = k + 1)
        BY <1>2
  <2>2. u[j] = s[j] \/ u[j] = s[j + 1]
        BY <1>1
  <2>3. QED BY <2>1, <2>2
<1>6. \A l \in 1..Len(s) : s[l] = s[i] \/ \E j \in 1..(Len(s) - 1) : s[l] = u[j]
  <2> SUFFICES ASSUME NEW l \in 1..Len(s), l # i PROVE \E j \in 1..(Len(s) - 1) : s[l] = u[j]
      OBVIOUS
  <2>1. CASE l < i
        BY <1>1, <1>2, <2>1
  <2>2. CASE l > i
    <3>1. l - 1 \in 1..(Len(s) - 1) /\ ~(l - 1 < i) /\ (l - 1) + 1 = l
          BY <1>2, <2>2
    <3>2. u[l - 1] = s[l]
          BY <1>1, <3>1
    <3>3. QED BY <3>1, <3>2
  <2>3. QED BY <1>2, <2>1, <2>2
<1>7. Behind(u, k) \subseteq Behind(s, k)
  <2> SUFFICES ASSUME NEW j \in 1..Len(u), j > k PROVE u[j] \in Behind(s, k)
      BY DEF Behind
  <2>1. PICK l \in 1..Len(s) : l > k /\ u[j] = s[l]
        BY <1>1, <1>4
  <2>2. QED BY <2>1 DEF Behind
<1>8. InFront(u, k) \subseteq InFront(s, k) \cup {s[k + 1]}
      BY <1>1, <1>5 DEF InFront
<1>9. ToSet(s) \subseteq ToSet(u) \cup {s[i]}
      BY <1>2, <1>3, <1>6 DEF ToSet
<1>10. QED BY <1>7, <1>8, <1>9 DEF u

\* When one row comes in, at most one goes behind the first k, and no other comes
\* to the front.
LEMMA InsertionShifts ==
    ASSUME NEW R, NEW s \in Seq(R), NEW i \in 1..(Len(s) + 1), NEW e \in R, NEW k \in Nat
    PROVE  /\ \E y : Behind(InsertAt(s, i, e), k) \subseteq Behind(s, k) \cup {y}
           /\ InFront(InsertAt(s, i, e), k) \subseteq InFront(s, k) \cup {e}
           /\ ToSet(s) \subseteq ToSet(InsertAt(s, i, e))
<1>0. InsertAt(s, i, e) \in Seq(R) /\ Inserted(s, i, e, InsertAt(s, i, e))
      BY InsertAtIs
<1> DEFINE u == InsertAt(s, i, e)
<1>1. /\ u \in Seq(R) /\ Len(u) = Len(s) + 1
      /\ \A j \in 1..(Len(s) + 1) : u[j] = IF j < i THEN s[j] ELSE IF j = i THEN e ELSE s[j - 1]
      BY <1>0 DEF Inserted
<1>2. Len(s) \in Nat /\ DOMAIN s = 1..Len(s) /\ i \in 1..(Len(s) + 1)
      BY LenProperties
<1> HIDE DEF u
<1>3. DOMAIN u = 1..(Len(s) + 1)
      BY <1>1, LenProperties
<1> DEFINE y == IF i > k THEN e ELSE s[k]
<1>4. \A j \in 1..(Len(s) + 1) : j > k => u[j] = y \/ \E l \in 1..Len(s) : l > k /\ u[j] = s[l]
  <2> SUFFICES ASSUME NEW j \in 1..(Len(s) + 1), j > k
               PROVE  u[j] = y \/ \E l \in 1..Len(s) : l > k /\ u[j] = s[l]
      OBVIOUS
  <2>1. CASE j < i
        BY <1>1, <1>2, <2>1
  <2>2. CASE j = i
        BY <1>1, <2>2
  <2>3. CASE j > i
    <3>1. u[j] = s[j - 1] /\ j - 1 \in 1..Len(s)
          BY <1>1, <1>2, <2>3
    <3>2. CASE j - 1 > k
          BY <3>1, <3>2
    <3>3. CASE ~(j - 1 > k)
      <4>1. j - 1 = k /\ ~(i > k)
            BY <1>2, <2>3, <3>3
      <4>2. QED BY <3>1, <4>1
    <3>4. QED BY <3>2, <3>3
  <2>4. QED BY <1>2, <2>1, <2>2, <2>3
<1> HIDE DEF y
<1>5. \A j \in 1..(Len(s) + 1) : j <= k => u[j] = e \/ \E l \in 1..Len(s) : l <= k /\ u[j] = s[l]
  <2> SUFFICES ASSUME NEW j \in 1..(Len(s) + 1), j <= k
               PROVE  u[j] = e \/ \E l \in 1..Len(s) : l <= k /\ u[j] = s[l]
      OBVIOUS
  <2>1. CASE j < i
        BY <1>1, <1>2, <2>1
  <2>2. CASE j = i
        BY <1>1, <2>2
  <2>3. CASE j > i
    <3>1. u[j] = s[j - 1] /\ j - 1 \in 1..Len(s) /\ j - 1 <= k
          BY <1>1, <1>2, <2>3
    <3>2. QED BY <3>1
  <2>4. QED BY <1>2, <2>1, <2>2, <2>3
<1>6. \A l \in 1..Len(s) : \E j \in 1..(Len(s) + 1) : s[l] = u[j]
  <2> TAKE l \in 1..Len(s)
  <2>1. CASE l < i
        BY <1>1, <1>2, <2>1
  <2>2. CASE ~(l < i)
    <3>1. l + 1 \in 1..(Len(s) + 1) /\ ~(l + 1 < i) /\ l + 1 # i /\ (l + 1) - 1 = l
          BY <1>2, <2>2
    <3>2. u[l + 1] = s[l]
          BY <1>1, <3>1
    <3>3. QED BY <3>1, <3>2
  <2>3. QED BY <2>1, <2>2
<1>7. Behind(u, k) \subseteq Behind(s, k) \cup {y}
      BY <1>1, <1>4 DEF Behind
<1>8. InFront(u, k) \subseteq InFront(s, k) \cup {e}
      BY <1>1, <1>5 DEF InFront
<1>9. ToSet(s) \subseteq ToSet(u)
      BY <1>2, <1>3, <1>6 DEF ToSet
<1>10. QED BY <1>7, <1>8, <1>9 DEF u

\* A page takes the rows it has from behind the skip to the front of the next one.
LEMMA PageShifts ==
    ASSUME NEW R, NEW s \in Seq(R), NEW t \in Seq(R), NEW k \in Nat, IsInjective(s), From(s, k, t)
    PROVE  /\ ToSet(t) \subseteq Behind(s, k)
           /\ Behind(s, k + Len(t)) \subseteq Behind(s, k)
           /\ Behind(s, k + Len(t)) \cap ToSet(t) = {}
           /\ InFront(s, k + Len(t)) \subseteq InFront(s, k) \cup ToSet(t)
<1>1. /\ Len(s) \in Nat /\ DOMAIN s = 1..Len(s) /\ Len(t) \in Nat /\ DOMAIN t = 1..Len(t)
      /\ \A i \in 1..Len(t) : k + i <= Len(s) /\ t[i] = s[k + i]
      BY LenProperties DEF From
<1>2. \A i \in 1..Len(t) : k + i \in 1..Len(s) /\ k + i > k /\ t[i] = s[k + i] /\ ~(k + i > k + Len(t))
      BY <1>1
<1>3. \A j \in 1..Len(s) : j > k + Len(t) => j > k
      BY <1>1
<1>4. \A j \in 1..Len(s) : j <= k + Len(t) => j <= k \/ \E i \in 1..Len(t) : s[j] = t[i]
  <2> SUFFICES ASSUME NEW j \in 1..Len(s), j <= k + Len(t), ~(j <= k) PROVE \E i \in 1..Len(t) : s[j] = t[i]
      OBVIOUS
  <2>1. j - k \in 1..Len(t) /\ k + (j - k) = j
        BY <1>1
  <2>2. s[j] = t[j - k]
        BY <1>1, <2>1
  <2>3. QED BY <2>1, <2>2
<1>5. \A i \in 1..Len(t), j \in 1..Len(s) : j > k + Len(t) => s[j] # t[i]
      BY <1>1, <1>2 DEF IsInjective
<1>6. ToSet(t) \subseteq Behind(s, k)
      BY <1>1, <1>2 DEF ToSet, Behind
<1>7. Behind(s, k + Len(t)) \subseteq Behind(s, k)
      BY <1>3 DEF Behind
<1>8. Behind(s, k + Len(t)) \cap ToSet(t) = {}
      BY <1>1, <1>5 DEF Behind, ToSet
<1>9. InFront(s, k + Len(t)) \subseteq InFront(s, k) \cup ToSet(t)
      BY <1>1, <1>4 DEF InFront, ToSet
<1>10. QED BY <1>6, <1>7, <1>8, <1>9

-----------------------------------------------------------------------------
(* Rows that come again. *)

\* The places of the rows of c that come again in it, or are to come: they are among
\* the rows b.
Again(c, b) == {i \in 1..Len(c) : (\E j \in 1..Len(c) : i < j /\ c[i] = c[j]) \/ c[i] \in b}

\* One more row that is to come is at most one more that comes again: the last place
\* where it has come.
LEMMA AgainGrows ==
    ASSUME NEW R, NEW c \in Seq(R), NEW a, NEW b, NEW y, b \subseteq a \cup {y}
    PROVE  \E m : Again(c, b) \subseteq Again(c, a) \cup {m}
<1> DEFINE new == Again(c, b) \ Again(c, a)
<1>1. Len(c) \in Nat
      BY LenProperties
<1>2. \A i \in new : i \in 1..Len(c) /\ c[i] = y /\ ~\E j \in 1..Len(c) : i < j /\ c[i] = c[j]
      BY DEF Again
<1>3. \A i, j \in new : i = j
  <2> SUFFICES ASSUME NEW i \in new, NEW j \in new, i < j PROVE FALSE
      BY <1>1, <1>2
  <2>1. c[i] = c[j] /\ j \in 1..Len(c)
        BY <1>2
  <2>2. QED BY <1>2, <2>1
<1>4. CASE new = {}
      BY <1>4
<1>5. CASE new # {}
  <2>1. PICK m \in new : TRUE
        BY <1>5
  <2>2. new \subseteq {m}
        BY <1>3, <2>1
  <2>3. QED BY <2>2
<1>6. QED BY <1>4, <1>5

\* The rows of a page were to come, and do not come again within it.
LEMMA AgainConcat ==
    ASSUME NEW R, NEW c \in Seq(R), NEW t \in Seq(R), IsInjective(t), NEW a, NEW b,
           ToSet(t) \subseteq a, b \subseteq a, b \cap ToSet(t) = {}
    PROVE  Again(c \o t, b) \subseteq Again(c, a)
<1> DEFINE u == c \o t
<1>1. /\ Len(c) \in Nat /\ Len(t) \in Nat /\ DOMAIN t = 1..Len(t) /\ Len(u) = Len(c) + Len(t)
      /\ \A i \in 1..(Len(c) + Len(t)) : u[i] = IF i <= Len(c) THEN c[i] ELSE t[i - Len(c)]
      BY LenProperties, ConcatProperties
<1> HIDE DEF u
<1>2. \A i \in 1..Len(t) : t[i] \in a /\ t[i] \notin b
      BY <1>1 DEF ToSet
<1>3. \A i \in 1..(Len(c) + Len(t)) : ~(i <= Len(c)) => i - Len(c) \in 1..Len(t) /\ u[i] = t[i - Len(c)]
      BY <1>1
<1>4. \A i \in 1..(Len(c) + Len(t)) : i <= Len(c) => i \in 1..Len(c) /\ u[i] = c[i]
      BY <1>1
<1> SUFFICES ASSUME NEW i \in 1..(Len(c) + Len(t)),
                    (\E j \in 1..(Len(c) + Len(t)) : i < j /\ u[i] = u[j]) \/ u[i] \in b
             PROVE  i \in Again(c, a)
    BY <1>1 DEF Again, u
<1>5. CASE i <= Len(c)
  <2>1. i \in 1..Len(c) /\ u[i] = c[i]
        BY <1>4, <1>5
  <2>2. CASE u[i] \in b
        BY <2>1, <2>2 DEF Again
  <2>3. ASSUME NEW j \in 1..(Len(c) + Len(t)), i < j, u[i] = u[j] PROVE i \in Again(c, a)
    <3>1. CASE j <= Len(c)
      <4>1. j \in 1..Len(c) /\ c[i] = c[j]
            BY <1>4, <2>1, <2>3, <3>1
      <4>2. QED BY <2>1, <2>3, <4>1 DEF Again
    <3>2. CASE ~(j <= Len(c))
      <4>1. c[i] \in a
            BY <1>2, <1>3, <2>1, <2>3, <3>2
      <4>2. QED BY <2>1, <4>1 DEF Again
    <3>3. QED BY <3>1, <3>2
  <2>4. QED BY <2>2, <2>3
<1>6. CASE ~(i <= Len(c))
  <2>1. i - Len(c) \in 1..Len(t) /\ u[i] = t[i - Len(c)]
        BY <1>3, <1>6
  <2>2. u[i] \notin b
        BY <1>2, <2>1
  <2>3. ASSUME NEW j \in 1..(Len(c) + Len(t)), i < j, u[i] = u[j] PROVE FALSE
    <3>1. j - Len(c) \in 1..Len(t) /\ u[j] = t[j - Len(c)]
          BY <1>1, <1>3, <1>6, <2>3
    <3>2. i - Len(c) = j - Len(c)
          BY <1>1, <2>1, <2>3, <3>1 DEF IsInjective
    <3>3. QED BY <1>1, <2>3, <3>2
  <2>4. QED BY <2>2, <2>3
<1>7. QED BY <1>5, <1>6

\* At the end nothing is to come, and they are the rows that come again.
LEMMA AgainAtTheEnd ==
    ASSUME NEW R, NEW c \in Seq(R)
    PROVE  Again(c, {}) = Repeats(c) /\ (Repeats(c) = {} => IsInjective(c))
<1>1. Len(c) \in Nat /\ DOMAIN c = 1..Len(c)
      BY LenProperties
<1>2. Again(c, {}) = Repeats(c)
      BY <1>1 DEF Again, Repeats
<1>3. ASSUME Repeats(c) = {}, NEW i \in 1..Len(c), NEW j \in 1..Len(c), c[i] = c[j] PROVE i = j
  <2>1. ~(i < j) /\ ~(j < i)
        BY <1>1, <1>3 DEF Repeats
  <2>2. QED BY <1>1, <2>1
<1>4. QED BY <1>1, <1>2, <1>3 DEF IsInjective

\* A set with one member more has at most one more.
LEMMA OneMore ==
    ASSUME NEW a, IsFiniteSet(a), NEW b, NEW z, b \subseteq a \cup {z}
    PROVE  IsFiniteSet(b) /\ Cardinality(b) <= Cardinality(a) + 1
<1>1. Cardinality(a) \in Nat
      BY FS_CardinalityType
<1>2. /\ IsFiniteSet(a \cup {z})
      /\ Cardinality(a \cup {z}) = IF z \in a THEN Cardinality(a) ELSE Cardinality(a) + 1
      BY FS_AddElement
<1>3. IsFiniteSet(b) /\ Cardinality(b) <= Cardinality(a \cup {z})
      BY <1>2, FS_Subset
<1>4. Cardinality(b) \in Nat /\ Cardinality(a \cup {z}) \in Nat
      BY <1>2, <1>3, FS_CardinalityType
<1>5. QED BY <1>1, <1>2, <1>3, <1>4

-----------------------------------------------------------------------------
(* The invariant of a load. *)

\* The rows that have come.
Come == FlattenSeq(load.pages)

\* They are the rows up to the skip.
ComeIsTheStart == load.skip <= Len(remote) /\ Come = SubSeq(remote, 1, load.skip)

\* There are at most n of them.
AtMost(a, n) == IsFiniteSet(a) /\ Cardinality(a) <= n

\* The rows of a that no change was about and that are not among c.
Missed(a, c) == (a \ Touched) \ ToSet(c)

\* When the rows c have come, with the first k asked for, they are rows that the database
\* has or had; the changes so far have made that many come again, or be still to come,
\* and that many be in front unseen.
Costs(c, k) ==
    /\ ToSet(c) \subseteq ToSet(remote) \cup Touched
    /\ AtMost(Again(c, Behind(remote, k)), Times({"insert", "move"}))
    /\ AtMost(Missed(InFront(remote, k), c), Times({"remove", "move"}))

IndPaging ==
    /\ TypeOK /\ Come \in Seq(Rows)
    /\ load.status = "loading" => (changed = <<>> => ComeIsTheStart) /\ Costs(Come, load.skip)
    /\ EachChangeCostsAtMostARow

LEMMA InitPaging ==
    ASSUME BatchSizes \subseteq Nat, Init
    PROVE  IndPaging
<1>1. PICK n \in 0..Cardinality(Rows) : remote \in [1..n -> Rows] /\ IsInjective(remote)
      BY DEF Init
<1>2. n \in Nat
      BY <1>1
<1>3. remote \in Seq(Rows)
      BY <1>1, <1>2, SeqDef
<1>4. PICK what \in {"nodes", "edges"}, m \in BatchSizes : load = Begun(what, m)
      BY DEF Init
<1>5. /\ load = [what |-> what, batchSize |-> m, skip |-> 0, pages |-> <<>>, status |-> "loading", rows |-> <<>>]
      /\ changed = <<>>
      BY <1>4 DEF Begun, Init
<1>6. TypeOK
      BY <1>1, <1>3, <1>5, EmptySeq DEF TypeOK
<1>7. Come = <<>> /\ Come \in Seq(Rows)
      BY <1>5, EmptySeq DEF Come, FlattenSeq
<1>8. load.skip = 0 /\ Len(remote) \in Nat /\ SubSeq(remote, 1, 0) = <<>>
      BY <1>3, <1>5, LenProperties, SubSeqEmpty
<1>9. ComeIsTheStart
      BY <1>7, <1>8 DEF ComeIsTheStart
<1>10. Costs(Come, load.skip)
  <2>1. ToSet(<<>>) = {} /\ Again(<<>>, Behind(remote, 0)) = {} /\ Missed(InFront(remote, 0), <<>>) = {}
        BY <1>8 DEF ToSet, Again, Missed, InFront
  <2>2. Times({"insert", "move"}) = Cardinality({}) /\ Times({"remove", "move"}) = Cardinality({})
        BY <1>5 DEF Times
  <2>3. IsFiniteSet({}) /\ Cardinality({}) = 0
        BY FS_EmptySet
  <2>4. AtMost({}, Times({"insert", "move"})) /\ AtMost({}, Times({"remove", "move"}))
        BY <2>2, <2>3 DEF AtMost
  <2>5. ToSet(<<>>) \subseteq ToSet(remote) \cup Touched
        BY <2>1
  <2>6. Costs(<<>>, 0)
        BY <2>1, <2>4, <2>5 DEF Costs
  <2>7. QED BY <1>7, <1>8, <2>6
<1>11. EachChangeCostsAtMostARow
      BY <1>5 DEF EachChangeCostsAtMostARow, Loaded
<1>12. QED BY <1>6, <1>7, <1>9, <1>10, <1>11 DEF IndPaging

\* A load that is refused, or fails, has nothing to show.
LEMMA EndsPaging ==
    ASSUME IndPaging, Refuse \/ FetchFails
    PROVE  IndPaging'
<1>1. /\ load.status = "loading" /\ remote' = remote /\ changed' = changed
      /\ load' \in {[load EXCEPT !.status = "InvalidConfig"], [load EXCEPT !.status = "ConnectorError", !.pages = <<>>]}
      BY DEF Refuse, FetchFails
<1>2. TypeOK'
  <2>1. <<>> \in Seq(Seq(Rows))
        BY EmptySeq
  <2>2. load' \in [what : {"nodes", "edges"}, batchSize : BatchSizes, skip : Nat, pages : Seq(Seq(Rows)),
                   status : {"loading", "ok", "DuplicateNodeId", "ConnectorError", "InvalidConfig"},
                   rows : Seq(Rows)]
        BY <1>1, <2>1 DEF IndPaging, TypeOK
  <2>3. QED BY <1>1, <2>2 DEF IndPaging, TypeOK
<1>3. load'.status \in {"InvalidConfig", "ConnectorError"} /\ load'.pages \in {load.pages, <<>>}
      BY <1>1 DEF IndPaging, TypeOK
<1>4. Come' \in Seq(Rows)
      BY <1>3, EmptySeq DEF IndPaging, Come, FlattenSeq
<1>5. QED BY <1>2, <1>3, <1>4 DEF IndPaging, EachChangeCostsAtMostARow, Loaded

\* How often the changes were of some kinds is a natural number.
LEMMA TimesTypes == ASSUME TypeOK, NEW kinds PROVE Times(kinds) \in Nat
<1>1. Len(changed) \in Nat /\ DOMAIN changed = 1..Len(changed)
      BY LenProperties DEF TypeOK
<1>2. IsFiniteSet(1..Len(changed))
      BY <1>1, FS_Interval
<1>3. IsFiniteSet({i \in DOMAIN changed : changed[i].kind \in kinds})
      BY <1>1, <1>2, FS_Subset
<1>4. QED BY <1>3, FS_CardinalityType DEF Times

\* A part has at most as many.
LEMMA FewerToo ==
    ASSUME NEW a, NEW b, NEW n \in Nat, AtMost(a, n), b \subseteq a
    PROVE  AtMost(b, n)
<1>1. IsFiniteSet(a) /\ Cardinality(a) <= n
      BY DEF AtMost
<1>2. IsFiniteSet(b) /\ Cardinality(b) <= Cardinality(a)
      BY <1>1, FS_Subset
<1>3. Cardinality(a) \in Nat /\ Cardinality(b) \in Nat
      BY <1>1, <1>2, FS_CardinalityType
<1>4. QED BY <1>1, <1>2, <1>3 DEF AtMost

LEMMA LoadTypes ==
    ASSUME BatchSizes \subseteq Nat, IndPaging
    PROVE  /\ remote \in Seq(Rows) /\ IsInjective(remote) /\ Len(remote) \in Nat /\ DOMAIN remote = 1..Len(remote)
           /\ load.skip \in Nat /\ load.batchSize \in Nat /\ load.pages \in Seq(Seq(Rows))
           /\ Come \in Seq(Rows)
<1>1. /\ remote \in Seq(Rows) /\ IsInjective(remote) /\ Come \in Seq(Rows)
      /\ load \in [what : {"nodes", "edges"}, batchSize : BatchSizes, skip : Nat, pages : Seq(Seq(Rows)),
                   status : {"loading", "ok", "DuplicateNodeId", "ConnectorError", "InvalidConfig"},
                   rows : Seq(Rows)]
      BY DEF IndPaging, TypeOK
<1>2. load.skip \in Nat /\ load.batchSize \in BatchSizes /\ load.pages \in Seq(Seq(Rows))
      BY <1>1
<1>3. QED BY <1>1, <1>2, LenProperties

\* A page makes no row be missed, and none come again that was not to come.
LEMMA PageCosts ==
    ASSUME NEW c \in Seq(Rows), NEW t \in Seq(Rows), NEW k \in Nat,
           TypeOK, From(remote, k, t), Costs(c, k)
    PROVE  Costs(c \o t, k + Len(t))
<1>0. /\ remote \in Seq(Rows) /\ IsInjective(remote)
      /\ Times({"insert", "move"}) \in Nat /\ Times({"remove", "move"}) \in Nat
      BY TimesTypes DEF TypeOK
<1>1. /\ ToSet(t) \subseteq Behind(remote, k)
      /\ Behind(remote, k + Len(t)) \subseteq Behind(remote, k)
      /\ Behind(remote, k + Len(t)) \cap ToSet(t) = {}
      /\ InFront(remote, k + Len(t)) \subseteq InFront(remote, k) \cup ToSet(t)
      BY <1>0, PageShifts
<1>2. IsInjective(t)
      BY <1>0, InjectiveFrom
<1> DEFINE a == Behind(remote, k)
           b == Behind(remote, k + Len(t))
<1>3. Again(c \o t, b) \subseteq Again(c, a)
  <2>1. ToSet(t) \subseteq a /\ b \subseteq a /\ b \cap ToSet(t) = {}
        BY <1>1
  <2> HIDE DEF a, b
  <2>2. QED BY <1>2, <2>1, AgainConcat
<1> HIDE DEF a, b
<1>4. ToSet(c \o t) = ToSet(c) \cup ToSet(t)
  <2>1. /\ Len(c) \in Nat /\ Len(t) \in Nat /\ DOMAIN c = 1..Len(c) /\ DOMAIN t = 1..Len(t)
        /\ c \o t \in Seq(Rows) /\ Len(c \o t) = Len(c) + Len(t)
        /\ \A i \in 1..(Len(c) + Len(t)) : (c \o t)[i] = IF i <= Len(c) THEN c[i] ELSE t[i - Len(c)]
        BY LenProperties, ConcatProperties
  <2> DEFINE u == c \o t
  <2>2. /\ Len(u) = Len(c) + Len(t) /\ u \in Seq(Rows)
        /\ \A i \in 1..(Len(c) + Len(t)) : u[i] = IF i <= Len(c) THEN c[i] ELSE t[i - Len(c)]
        BY <2>1
  <2> HIDE DEF u
  <2>3. DOMAIN u = 1..(Len(c) + Len(t))
        BY <2>2, LenProperties
  <2>4. \A i \in 1..Len(c) : i \in 1..(Len(c) + Len(t)) /\ u[i] = c[i]
        BY <2>1, <2>2
  <2>5. \A i \in 1..Len(t) : Len(c) + i \in 1..(Len(c) + Len(t)) /\ u[Len(c) + i] = t[i]
    <3> TAKE i \in 1..Len(t)
    <3>1. Len(c) + i \in 1..(Len(c) + Len(t)) /\ ~(Len(c) + i <= Len(c)) /\ (Len(c) + i) - Len(c) = i
          BY <2>1
    <3>2. QED BY <2>2, <3>1
  <2>6. \A i \in 1..(Len(c) + Len(t)) : (i \in 1..Len(c) /\ u[i] = c[i]) \/ \E j \in 1..Len(t) : u[i] = t[j]
    <3> TAKE i \in 1..(Len(c) + Len(t))
    <3>1. CASE i <= Len(c)
          BY <2>1, <2>2, <3>1
    <3>2. CASE ~(i <= Len(c))
      <4>1. i - Len(c) \in 1..Len(t) /\ u[i] = t[i - Len(c)]
            BY <2>1, <2>2, <3>2
      <4>2. QED BY <4>1
    <3>3. QED BY <3>1, <3>2
  <2>7. \A x : x \in ToSet(u) <=> \E i \in 1..(Len(c) + Len(t)) : u[i] = x
        BY <2>3 DEF ToSet
  <2>8. \A x : x \in ToSet(c) \cup ToSet(t) <=> (\E i \in 1..Len(c) : c[i] = x) \/ (\E i \in 1..Len(t) : t[i] = x)
        BY <2>1 DEF ToSet
  <2>9. \A x : x \in ToSet(u) => x \in ToSet(c) \cup ToSet(t)
        BY <2>6, <2>7, <2>8
  <2>10. \A x : x \in ToSet(c) \cup ToSet(t) => x \in ToSet(u)
        BY <2>4, <2>5, <2>7, <2>8
  <2>11. QED BY <2>9, <2>10 DEF u
<1>5. ToSet(t) \subseteq ToSet(remote)
      BY <1>0, <1>1, FrontAndBehind
<1>6. Missed(InFront(remote, k + Len(t)), c \o t) \subseteq Missed(InFront(remote, k), c)
      BY <1>1, <1>4 DEF Missed
<1>7. AtMost(Again(c \o t, b), Times({"insert", "move"}))
  <2>1. AtMost(Again(c, a), Times({"insert", "move"}))
        BY DEF Costs, a
  <2>2. QED BY <1>0, <1>3, <2>1, FewerToo
<1>8. AtMost(Missed(InFront(remote, k + Len(t)), c \o t), Times({"remove", "move"}))
  <2>1. AtMost(Missed(InFront(remote, k), c), Times({"remove", "move"}))
        BY DEF Costs
  <2>2. QED BY <1>0, <1>6, <2>1, FewerToo
<1>9. QED BY <1>4, <1>5, <1>7, <1>8 DEF Costs, b

\* A page that is full is one of several, and the rows behind it are the rest.
LEMMA FullPagePaging ==
    ASSUME BatchSizes \subseteq Nat, IndPaging, FetchPage,
           Len(Answer(load.skip, load.batchSize)) >= load.batchSize
    PROVE  IndPaging'
<1> DEFINE n    == load.batchSize
           skip == load.skip
           page == Answer(skip, n)
<1>1. /\ remote \in Seq(Rows) /\ IsInjective(remote) /\ skip \in Nat /\ n \in Nat /\ Len(remote) \in Nat
      /\ load.pages \in Seq(Seq(Rows)) /\ Come \in Seq(Rows)
      BY LoadTypes
<1>2. /\ load.status = "loading" /\ n > 0 /\ Len(page) >= n
      /\ remote' = remote /\ changed' = changed /\ load' = NextPage(load, page)
      BY DEF FetchPage
<1>3. n \in Nat \ {0}
      BY <1>1, <1>2
<1> HIDE DEF n, skip
<1>4. /\ page \in Seq(Rows) /\ skip + n <= Len(remote) /\ page = SubSeq(remote, skip + 1, skip + n)
      /\ From(remote, skip, page)
      BY <1>1, <1>2, <1>3, AnswerIs
<1>5. Len(page) = n
  <2>1. \A i \in (skip + 1)..(skip + n) : remote[i] \in Rows
        BY <1>1, <1>4, ElementOfSeq
  <2>2. skip + 1 \in Int /\ skip + n \in Int
        BY <1>1
  <2>3. Len(SubSeq(remote, skip + 1, skip + n)) = IF skip + 1 <= skip + n THEN (skip + n) - (skip + 1) + 1 ELSE 0
        BY <2>1, <2>2, SubSeqProperties
  <2>4. QED BY <1>1, <1>3, <1>4, <2>3
<1> HIDE DEF page
<1>6. load' = [load EXCEPT !.pages = Append(load.pages, page), !.skip = skip + n]
      BY <1>1, <1>2, <1>5 DEF NextPage, n, skip
<1>7. Append(load.pages, page) \in Seq(Seq(Rows))
      BY <1>1, <1>4, AppendProperties
<1>8. load'.pages = Append(load.pages, page) /\ load'.skip = skip + n /\ load'.status = "loading"
      BY <1>2, <1>6 DEF IndPaging, TypeOK
<1>9. TypeOK'
  <2>1. skip + n \in Nat
        BY <1>1
  <2>2. load' \in [what : {"nodes", "edges"}, batchSize : BatchSizes, skip : Nat, pages : Seq(Seq(Rows)),
                   status : {"loading", "ok", "DuplicateNodeId", "ConnectorError", "InvalidConfig"},
                   rows : Seq(Rows)]
        BY <1>6, <1>7, <2>1 DEF IndPaging, TypeOK
  <2>3. QED BY <1>2, <2>2 DEF IndPaging, TypeOK
<1>10. Come' = Come \o page
      BY <1>1, <1>4, <1>8, FlattenAppend DEF Come
<1>11. Come' \in Seq(Rows)
      BY <1>1, <1>4, <1>10, ConcatProperties
<1>12. ASSUME changed = <<>> PROVE ComeIsTheStart'
  <2>1. skip <= Len(remote) /\ Come = SubSeq(remote, 1, skip)
        BY <1>2, <1>12 DEF IndPaging, ComeIsTheStart, skip
  <2>2. 1 \in 1..(Len(remote) + 1) /\ skip \in (1 - 1)..Len(remote) /\ skip + n \in skip..Len(remote)
        BY <1>1, <1>4, <2>1
  <2>3. SubSeq(remote, 1, skip) \o SubSeq(remote, skip + 1, skip + n) = SubSeq(remote, 1, skip + n)
        BY <1>1, <2>2, ConcatAdjacentSubSeq
  <2>4. QED BY <1>2, <1>4, <1>8, <1>10, <2>1, <2>3 DEF ComeIsTheStart
<1>13. Costs(Come, load.skip)'
  <2>1. Costs(Come, skip) /\ TypeOK
        BY <1>2 DEF IndPaging, skip
  <2>2. Costs(Come \o page, skip + n)
        BY <1>1, <1>4, <1>5, <2>1, PageCosts
  <2>3. QED BY <1>2, <1>8, <1>10, <2>2 DEF Costs, AtMost, Missed, Touched, Times
<1>14. EachChangeCostsAtMostARow'
      BY <1>8 DEF EachChangeCostsAtMostARow, Loaded
<1>15. QED BY <1>2, <1>9, <1>11, <1>12, <1>13, <1>14 DEF IndPaging

\* A page that is not full ends the load: nothing is behind it.  Nodes that came in one
\* page are some of the rows, and those of several pages are looked at.
LEMMA LastPagePaging ==
    ASSUME BatchSizes \subseteq Nat, IndPaging, FetchPage,
           Len(Answer(load.skip, load.batchSize)) < load.batchSize
    PROVE  IndPaging'
<1> DEFINE n    == load.batchSize
           skip == load.skip
           page == Answer(skip, n)
           all  == Come \o page
<1>1. /\ remote \in Seq(Rows) /\ IsInjective(remote) /\ skip \in Nat /\ n \in Nat /\ Len(remote) \in Nat
      /\ load.pages \in Seq(Seq(Rows)) /\ Come \in Seq(Rows)
      BY LoadTypes
<1>2. /\ load.status = "loading" /\ n > 0 /\ Len(page) < n
      /\ remote' = remote /\ changed' = changed /\ load' = NextPage(load, page)
      BY DEF FetchPage
<1>3. n \in Nat \ {0}
      BY <1>1, <1>2
<1> HIDE DEF n, skip
<1>4. /\ page \in Seq(Rows) /\ From(remote, skip, page)
      /\ skip <= Len(remote) => page = SubSeq(remote, skip + 1, Len(remote))
      /\ Len(remote) <= skip + Len(page)
      BY <1>1, <1>2, <1>3, AnswerIs
<1> HIDE DEF page
<1>5. FlattenSeq(Append(load.pages, page)) = all /\ all \in Seq(Rows)
      BY <1>1, <1>4, FlattenAppend, ConcatProperties DEF Come
<1>6. ASSUME changed = <<>> PROVE all = remote
  <2>1. skip <= Len(remote) /\ Come = SubSeq(remote, 1, skip)
        BY <1>2, <1>6 DEF IndPaging, ComeIsTheStart, skip
  <2>2. 1 \in 1..(Len(remote) + 1) /\ skip \in (1 - 1)..Len(remote) /\ Len(remote) \in skip..Len(remote)
        BY <1>1, <2>1
  <2>3. SubSeq(remote, 1, skip) \o SubSeq(remote, skip + 1, Len(remote)) = SubSeq(remote, 1, Len(remote))
        BY <1>1, <2>2, ConcatAdjacentSubSeq
  <2>4. SubSeq(remote, 1, Len(remote)) = remote
        BY <1>1, SubSeqFull
  <2>5. QED BY <1>4, <2>1, <2>3, <2>4
<1>7. /\ ToSet(all) \subseteq ToSet(remote) \cup Touched
      /\ Cardinality((ToSet(remote) \ Touched) \ ToSet(all)) <= Times({"remove", "move"})
      /\ Cardinality(Repeats(all)) <= Times({"insert", "move"})
      /\ ~IsInjective(all) => Times({"insert", "move"}) > 0
  <2>1. Costs(Come, skip) /\ TypeOK
        BY <1>2 DEF IndPaging, skip
  <2>2. Costs(all, skip + Len(page))
        BY <1>1, <1>4, <2>1, PageCosts
  <2> DEFINE end == skip + Len(page)
  <2>3. end \in Nat /\ Len(remote) <= end
        BY <1>1, <1>4, LenProperties
  <2> HIDE DEF end
  <2>4. Behind(remote, end) = {}
        BY <1>1, <2>3 DEF Behind
  <2>5. InFront(remote, end) = ToSet(remote)
    <3>1. ToSet(remote) = InFront(remote, end) \cup Behind(remote, end)
          BY <1>1, <2>3, FrontAndBehind
    <3>2. QED BY <2>4, <3>1
  <2>6. Again(all, {}) = Repeats(all) /\ (Repeats(all) = {} => IsInjective(all))
        BY <1>5, AgainAtTheEnd
  <2> HIDE DEF all
  <2>7. /\ ToSet(all) \subseteq ToSet(remote) \cup Touched
        /\ AtMost(Repeats(all), Times({"insert", "move"}))
        /\ AtMost(Missed(ToSet(remote), all), Times({"remove", "move"}))
        BY <2>2, <2>4, <2>5, <2>6 DEF Costs, end
  <2>8. ASSUME ~IsInjective(all) PROVE Times({"insert", "move"}) > 0
    <3>1. IsFiniteSet(Repeats(all)) /\ Repeats(all) # {} /\ Cardinality(Repeats(all)) <= Times({"insert", "move"})
          BY <2>6, <2>7, <2>8 DEF AtMost
    <3>2. Cardinality(Repeats(all)) \in Nat /\ Cardinality(Repeats(all)) # 0 /\ Times({"insert", "move"}) \in Nat
          BY <2>1, <3>1, FS_CardinalityType, FS_EmptySet, TimesTypes
    <3>3. QED BY <3>1, <3>2
  <2>9. QED BY <2>7, <2>8 DEF AtMost, Missed
<1>8. ASSUME ~(Len(Append(load.pages, page)) > 1) PROVE IsInjective(all)
  <2>1. Len(Append(load.pages, page)) = Len(load.pages) + 1 /\ Len(load.pages) \in Nat
        BY <1>1, <1>4, AppendProperties, LenProperties
  <2>2. load.pages = <<>>
        BY <1>1, <1>8, <2>1, EmptySeq
  <2>3. Come = <<>>
        BY <2>2 DEF Come, FlattenSeq
  <2>4. all = page
        BY <1>4, <2>3, ConcatEmptySeq
  <2>5. QED BY <1>1, <1>4, <2>4, InjectiveFrom
<1> HIDE DEF all
<1>9. load' = IF load.what = "nodes" /\ Len(Append(load.pages, page)) > 1 /\ ~IsInjective(all)
              THEN [load EXCEPT !.pages = <<>>, !.status = "DuplicateNodeId"]
              ELSE [load EXCEPT !.pages = <<>>, !.status = "ok", !.rows = all]
      BY <1>2, <1>5 DEF NextPage, Finished, n
<1>10. TypeOK'
  <2>1. <<>> \in Seq(Seq(Rows))
        BY EmptySeq
  <2>2. load' \in [what : {"nodes", "edges"}, batchSize : BatchSizes, skip : Nat, pages : Seq(Seq(Rows)),
                   status : {"loading", "ok", "DuplicateNodeId", "ConnectorError", "InvalidConfig"},
                   rows : Seq(Rows)]
        BY <1>5, <1>9, <2>1 DEF IndPaging, TypeOK
  <2>3. QED BY <1>2, <2>2 DEF IndPaging, TypeOK
<1>11. /\ load'.pages = <<>> /\ load'.what = load.what
       /\ \/ load'.status = "DuplicateNodeId" /\ ~IsInjective(all) /\ Len(Append(load.pages, page)) > 1
          \/ load'.status = "ok" /\ load'.rows = all
               /\ (load.what = "nodes" => IsInjective(all) \/ ~(Len(Append(load.pages, page)) > 1))
  <2>1. load \in [what : {"nodes", "edges"}, batchSize : BatchSizes, skip : Nat, pages : Seq(Seq(Rows)),
                   status : {"loading", "ok", "DuplicateNodeId", "ConnectorError", "InvalidConfig"},
                   rows : Seq(Rows)]
        BY DEF IndPaging, TypeOK
  <2>2. QED BY <1>9, <2>1
<1>12. Come' \in Seq(Rows)
       BY <1>11, EmptySeq DEF Come, FlattenSeq
<1>13. EachChangeCostsAtMostARow'
  <2>1. remote' = remote /\ Touched' = Touched /\ \A kinds : Times(kinds)' = Times(kinds)
        BY <1>2 DEF Touched, Times
  <2>2. CASE load'.status = "DuplicateNodeId"
    <3>1. Times({"insert", "move"})' > 0
          BY <1>7, <1>11, <2>1, <2>2
    <3>2. QED BY <2>2, <3>1 DEF EachChangeCostsAtMostARow, Loaded
  <2>3. CASE load'.status = "ok"
    <3>1. load'.rows = all /\ (load'.what = "nodes" => IsInjective(all))
          BY <1>8, <1>11, <2>3
    <3>2. QED BY <1>2, <1>6, <1>7, <2>1, <2>3, <3>1 DEF EachChangeCostsAtMostARow, Loaded
  <2>4. QED BY <1>11, <2>2, <2>3
<1>14. QED BY <1>10, <1>11, <1>12, <1>13 DEF IndPaging

-----------------------------------------------------------------------------
(* The database. *)

\* A change is one more of its kind, and about one more row.
LEMMA ChangeIs ==
    ASSUME TypeOK, NEW kind \in {"insert", "remove", "move"}, NEW row \in Rows, NEW rows, Change(kind, row, rows)
    PROVE  /\ load.status = "loading" /\ load' = load /\ remote' = rows
           /\ changed' \in Seq([kind : {"insert", "remove", "move"}, row : Rows])
           /\ changed' # <<>> /\ Touched' = Touched \cup {row}
           /\ \A kinds : Times(kinds)' = Times(kinds) + IF kind \in kinds THEN 1 ELSE 0
<1> DEFINE what == [kind : {"insert", "remove", "move"}, row : Rows]
           one  == [kind |-> kind, row |-> row]
           n    == Len(changed)
<1>1. /\ load.status = "loading" /\ load' = load /\ remote' = rows /\ changed' = Append(changed, one)
      /\ changed \in Seq(what) /\ one \in what
      BY DEF Change, TypeOK
<1>2. one.kind = kind /\ one.row = row
      OBVIOUS
<1> HIDE DEF what, one
<1>3. /\ changed' \in Seq(what) /\ Len(changed') = n + 1
      /\ (\A i \in 1..n : changed'[i] = changed[i]) /\ changed'[n + 1] = one
      BY <1>1, AppendProperties
<1>4. n \in Nat /\ DOMAIN changed = 1..n /\ DOMAIN changed' = 1..(n + 1)
      BY <1>1, <1>3, LenProperties
<1> HIDE DEF n
<1>5. \A i : i \in 1..(n + 1) <=> i \in 1..n \/ i = n + 1
      BY <1>4
<1>6. changed' # <<>>
  <2>1. n + 1 \in DOMAIN changed'
        BY <1>4
  <2>2. QED BY <2>1
<1>7. Touched' = Touched \cup {row}
  <2>1. \A x : x \in Touched' <=> \E i \in 1..(n + 1) : changed'[i].row = x
        BY <1>4 DEF Touched
  <2>2. \A x : x \in Touched <=> \E i \in 1..n : changed[i].row = x
        BY <1>4 DEF Touched
  <2>3. \A x : x \in Touched' <=> x \in Touched \/ x = row
        BY <1>2, <1>3, <1>5, <2>1, <2>2
  <2>4. QED BY <2>3
<1>8. ASSUME NEW kinds PROVE Times(kinds)' = Times(kinds) + IF kind \in kinds THEN 1 ELSE 0
  <2> DEFINE old == {i \in 1..n : changed[i].kind \in kinds}
             new == {i \in 1..(n + 1) : changed'[i].kind \in kinds}
  <2>1. Times(kinds) = Cardinality(old) /\ Times(kinds)' = Cardinality(new)
        BY <1>4 DEF Times
  <2>2. new = IF kind \in kinds THEN old \cup {n + 1} ELSE old
        BY <1>2, <1>3, <1>5
  <2>3. n + 1 \notin old
        BY <1>4
  <2>4. IsFiniteSet(old)
    <3>1. IsFiniteSet(1..n)
          BY <1>4, FS_Interval
    <3>2. old \subseteq 1..n
          OBVIOUS
    <3>3. QED BY <3>1, <3>2, FS_Subset
  <2> HIDE DEF old, new
  <2> DEFINE top == n + 1
  <2> HIDE DEF top
  <2>5. Cardinality(old \cup {top}) = IF top \in old THEN Cardinality(old) ELSE Cardinality(old) + 1
        BY <2>4, FS_AddElement
  <2>6. Cardinality(old) \in Nat
        BY <2>4, FS_CardinalityType
  <2>7. QED BY <2>1, <2>2, <2>3, <2>5, <2>6 DEF top
<1>9. QED BY <1>1, <1>3, <1>6, <1>7, <1>8 DEF what

\* Of the rows that there are after a change, at most one more, y, is behind the skip, and
\* at most one more, z, beside the row that the change is about, in front of it.
Shifts(kind, row, rows, y, z) ==
    /\ kind \in {"insert", "remove", "move"} /\ row \in Rows /\ rows \in Seq(Rows) /\ IsInjective(rows)
    /\ ToSet(remote) \subseteq ToSet(rows) \cup {row}
    /\ Behind(rows, load.skip) \subseteq
          Behind(remote, load.skip) \cup (IF kind \in {"insert", "move"} THEN {y} ELSE {})
    /\ InFront(rows, load.skip) \subseteq
          InFront(remote, load.skip) \cup {row} \cup (IF kind \in {"remove", "move"} THEN {z} ELSE {})

\* Such a change costs a row at most.
LEMMA ChangeCosts ==
    ASSUME BatchSizes \subseteq Nat, IndPaging, NEW kind, NEW row, NEW rows, NEW y, NEW z,
           Change(kind, row, rows), Shifts(kind, row, rows, y, z)
    PROVE  IndPaging'
<1>0. /\ kind \in {"insert", "remove", "move"} /\ row \in Rows /\ rows \in Seq(Rows) /\ IsInjective(rows)
      /\ ToSet(remote) \subseteq ToSet(rows) \cup {row}
      /\ Behind(rows, load.skip) \subseteq
            Behind(remote, load.skip) \cup (IF kind \in {"insert", "move"} THEN {y} ELSE {})
      /\ InFront(rows, load.skip) \subseteq
            InFront(remote, load.skip) \cup {row} \cup (IF kind \in {"remove", "move"} THEN {z} ELSE {})
      BY DEF Shifts
<1>1. TypeOK /\ Come \in Seq(Rows)
      BY DEF IndPaging
<1>2. /\ load.status = "loading" /\ load' = load /\ remote' = rows
      /\ changed' \in Seq([kind : {"insert", "remove", "move"}, row : Rows])
      /\ changed' # <<>> /\ Touched' = Touched \cup {row}
      /\ \A kinds : Times(kinds)' = Times(kinds) + IF kind \in kinds THEN 1 ELSE 0
      BY <1>0, <1>1, ChangeIs
<1>3. Costs(Come, load.skip)
      BY <1>2 DEF IndPaging
<1> DEFINE twice  == Again(Come, Behind(remote, load.skip))
           missed == Missed(InFront(remote, load.skip), Come)
           twice1  == Again(Come, Behind(rows, load.skip))
           missed1 == (InFront(rows, load.skip) \ (Touched \cup {row})) \ ToSet(Come)
           doubling == Times({"insert", "move"})
           losing   == Times({"remove", "move"})
<1>4. /\ doubling \in Nat /\ losing \in Nat /\ AtMost(twice, doubling) /\ AtMost(missed, losing)
      BY <1>1, <1>3, TimesTypes DEF Costs
<1>5. AtMost(twice1, doubling + IF kind \in {"insert", "move"} THEN 1 ELSE 0)
  <2>1. CASE kind \in {"insert", "move"}
    <3> DEFINE a == Behind(remote, load.skip)
               b == Behind(rows, load.skip)
    <3>1. b \subseteq a \cup {y}
          BY <1>0, <2>1
    <3> HIDE DEF a, b
    <3>2. PICK m : Again(Come, b) \subseteq Again(Come, a) \cup {m}
          BY <1>1, <3>1, AgainGrows
    <3>3. twice1 \subseteq twice \cup {m}
          BY <3>2 DEF a, b
    <3> HIDE DEF twice, twice1, doubling
    <3>4. IsFiniteSet(twice) /\ Cardinality(twice) <= doubling /\ Cardinality(twice) \in Nat
          BY <1>4, FS_CardinalityType DEF AtMost
    <3>5. IsFiniteSet(twice1) /\ Cardinality(twice1) <= Cardinality(twice) + 1
          BY <3>3, <3>4, OneMore
    <3>6. Cardinality(twice1) \in Nat
          BY <3>5, FS_CardinalityType
    <3>7. QED BY <1>4, <2>1, <3>4, <3>5, <3>6 DEF AtMost
  <2>2. CASE ~(kind \in {"insert", "move"})
    <3>1. Behind(rows, load.skip) \subseteq Behind(remote, load.skip)
          BY <1>0, <2>2
    <3>2. twice1 \subseteq twice
          BY <3>1 DEF Again
    <3> HIDE DEF twice, twice1, doubling
    <3>3. AtMost(twice1, doubling)
          BY <1>4, <3>2, FewerToo
    <3>4. QED BY <1>4, <2>2, <3>3
  <2>3. QED BY <2>1, <2>2
<1>6. AtMost(missed1, losing + IF kind \in {"remove", "move"} THEN 1 ELSE 0)
  <2>1. CASE kind \in {"remove", "move"}
    <3>1. missed1 \subseteq missed \cup {z}
          BY <1>0, <2>1 DEF Missed
    <3> HIDE DEF missed, missed1, losing
    <3>2. IsFiniteSet(missed) /\ Cardinality(missed) <= losing /\ Cardinality(missed) \in Nat
          BY <1>4, FS_CardinalityType DEF AtMost
    <3>3. IsFiniteSet(missed1) /\ Cardinality(missed1) <= Cardinality(missed) + 1
          BY <3>1, <3>2, OneMore
    <3>4. Cardinality(missed1) \in Nat
          BY <3>3, FS_CardinalityType
    <3>5. QED BY <1>4, <2>1, <3>2, <3>3, <3>4 DEF AtMost
  <2>2. CASE ~(kind \in {"remove", "move"})
    <3>1. missed1 \subseteq missed
          BY <1>0, <2>2 DEF Missed
    <3> HIDE DEF missed, missed1, losing
    <3>2. AtMost(missed1, losing)
          BY <1>4, <3>1, FewerToo
    <3>3. QED BY <1>4, <2>2, <3>2
  <2>3. QED BY <2>1, <2>2
<1>7. ToSet(Come) \subseteq ToSet(rows) \cup (Touched \cup {row})
      BY <1>0, <1>3 DEF Costs
<1>8. Come' = Come
      BY <1>2 DEF Come
<1>9. Costs(Come, load.skip)'
  <2>1. /\ twice1 = Again(Come, Behind(remote, load.skip))'
        /\ missed1 = Missed(InFront(remote, load.skip), Come)'
        /\ ToSet(Come)' = ToSet(Come) /\ ToSet(remote)' = ToSet(rows)
        BY <1>2, <1>8 DEF Missed
  <2> HIDE DEF twice1, missed1
  <2>2. /\ AtMost(twice1, Times({"insert", "move"})') /\ AtMost(missed1, Times({"remove", "move"})')
        BY <1>2, <1>5, <1>6
  <2>3. QED BY <1>2, <1>7, <2>1, <2>2 DEF Costs, AtMost
<1>10. TypeOK'
      BY <1>0, <1>1, <1>2 DEF TypeOK
<1>11. EachChangeCostsAtMostARow'
      BY <1>2 DEF EachChangeCostsAtMostARow, Loaded
<1>12. QED BY <1>1, <1>2, <1>8, <1>9, <1>10, <1>11 DEF IndPaging

LEMMA InsertRowPaging ==
    ASSUME BatchSizes \subseteq Nat, IndPaging, InsertRow
    PROVE  IndPaging'
<1>1. PICK x \in Rows \ ToSet(remote), i \in 1..(Len(remote) + 1) : Change("insert", x, InsertAt(remote, i, x))
      BY DEF InsertRow
<1>2. remote \in Seq(Rows) /\ IsInjective(remote) /\ DOMAIN remote = 1..Len(remote) /\ load.skip \in Nat
      BY LoadTypes
<1>3. x \in Rows /\ \A j \in 1..Len(remote) : remote[j] # x
      BY <1>2 DEF ToSet
<1>4. InsertAt(remote, i, x) \in Seq(Rows) /\ IsInjective(InsertAt(remote, i, x))
      BY <1>2, <1>3, InsertAtIs, InjectiveInsertAt
<1>5. /\ \E y : Behind(InsertAt(remote, i, x), load.skip) \subseteq Behind(remote, load.skip) \cup {y}
      /\ InFront(InsertAt(remote, i, x), load.skip) \subseteq InFront(remote, load.skip) \cup {x}
      /\ ToSet(remote) \subseteq ToSet(InsertAt(remote, i, x))
      BY <1>2, <1>3, InsertionShifts
<1>6. PICK y : Behind(InsertAt(remote, i, x), load.skip) \subseteq Behind(remote, load.skip) \cup {y}
      BY <1>5
<1>7. Shifts("insert", x, InsertAt(remote, i, x), y, x)
      BY <1>3, <1>4, <1>5, <1>6 DEF Shifts
<1>8. QED BY <1>1, <1>7, ChangeCosts

LEMMA RemoveRowPaging ==
    ASSUME BatchSizes \subseteq Nat, IndPaging, RemoveRow
    PROVE  IndPaging'
<1>1. PICK i \in DOMAIN remote : Change("remove", remote[i], RemoveAt(remote, i))
      BY DEF RemoveRow
<1>2. remote \in Seq(Rows) /\ IsInjective(remote) /\ DOMAIN remote = 1..Len(remote) /\ load.skip \in Nat
      BY LoadTypes
<1>3. remote[i] \in Rows
      BY <1>2, ElementOfSeq
<1>4. RemoveAt(remote, i) \in Seq(Rows) /\ IsInjective(RemoveAt(remote, i))
      BY <1>2, RemoveAtIs, InjectiveRemoveAt
<1>5. /\ Behind(RemoveAt(remote, i), load.skip) \subseteq Behind(remote, load.skip)
      /\ InFront(RemoveAt(remote, i), load.skip) \subseteq InFront(remote, load.skip) \cup {remote[load.skip + 1]}
      /\ ToSet(remote) \subseteq ToSet(RemoveAt(remote, i)) \cup {remote[i]}
      BY <1>2, RemovalShifts
<1>6. Shifts("remove", remote[i], RemoveAt(remote, i), remote[i], remote[load.skip + 1])
      BY <1>3, <1>4, <1>5 DEF Shifts
<1>7. QED BY <1>1, <1>6, ChangeCosts

\* A row that moves goes and comes in again.
LEMMA MoveRowPaging ==
    ASSUME BatchSizes \subseteq Nat, IndPaging, MoveRow
    PROVE  IndPaging'
<1>1. PICK i \in DOMAIN remote, j \in DOMAIN remote :
         Change("move", remote[i], InsertAt(RemoveAt(remote, i), j, remote[i]))
      BY DEF MoveRow
<1>2. remote \in Seq(Rows) /\ IsInjective(remote) /\ DOMAIN remote = 1..Len(remote) /\ load.skip \in Nat /\ Len(remote) \in Nat
      BY LoadTypes
<1>3. remote[i] \in Rows
      BY <1>2, ElementOfSeq
<1> DEFINE left == RemoveAt(remote, i)
           row  == remote[i]
           z    == remote[load.skip + 1]
<1>4. /\ left \in Seq(Rows) /\ Len(left) = Len(remote) - 1 /\ IsInjective(left)
      /\ \A k \in 1..(Len(remote) - 1) : left[k] # row
      BY <1>2, RemoveAtIs, InjectiveRemoveAt
<1>5. /\ Behind(left, load.skip) \subseteq Behind(remote, load.skip)
      /\ InFront(left, load.skip) \subseteq InFront(remote, load.skip) \cup {z}
      /\ ToSet(remote) \subseteq ToSet(left) \cup {row}
      BY <1>2, RemovalShifts
<1>6. j \in 1..(Len(left) + 1) /\ row \in Rows /\ \A k \in 1..Len(left) : left[k] # row
      BY <1>2, <1>3, <1>4
<1>7. Change("move", row, InsertAt(left, j, row))
      BY <1>1
<1> HIDE DEF left, row, z
<1>8. InsertAt(left, j, row) \in Seq(Rows) /\ IsInjective(InsertAt(left, j, row))
      BY <1>4, <1>6, InsertAtIs, InjectiveInsertAt
<1>9. /\ \E y : Behind(InsertAt(left, j, row), load.skip) \subseteq Behind(left, load.skip) \cup {y}
      /\ InFront(InsertAt(left, j, row), load.skip) \subseteq InFront(left, load.skip) \cup {row}
      /\ ToSet(left) \subseteq ToSet(InsertAt(left, j, row))
      BY <1>2, <1>4, <1>6, InsertionShifts
<1>10. PICK y : Behind(InsertAt(left, j, row), load.skip) \subseteq Behind(left, load.skip) \cup {y}
       BY <1>9
<1>11. Shifts("move", row, InsertAt(left, j, row), y, z)
       BY <1>5, <1>6, <1>8, <1>9, <1>10 DEF Shifts
<1>12. QED BY <1>7, <1>11, ChangeCosts

-----------------------------------------------------------------------------
(* What a load comes to. *)

\* Every step of the connector and of the database keeps the invariant.
LEMMA PagingStep == ASSUME BatchSizes \subseteq Nat, IndPaging, [Next]_vars PROVE IndPaging'
<1>1. CASE Refuse \/ FetchFails
      BY <1>1, EndsPaging
<1>2. CASE FetchPage
  <2>1. load.batchSize \in Nat /\ Len(Answer(load.skip, load.batchSize)) \in Nat
    <3>1. load.skip \in Nat /\ load.batchSize \in Nat \ {0} /\ remote \in Seq(Rows)
          BY <1>2, LoadTypes DEF FetchPage
    <3>2. Answer(load.skip, load.batchSize) \in Seq(Rows)
          BY <3>1, AnswerIs
    <3>3. QED BY <3>1, <3>2, LenProperties
  <2>2. QED BY <1>2, <2>1, FullPagePaging, LastPagePaging
<1>3. CASE InsertRow
      BY <1>3, InsertRowPaging
<1>4. CASE RemoveRow
      BY <1>4, RemoveRowPaging
<1>5. CASE MoveRow
      BY <1>5, MoveRowPaging
<1>6. CASE UNCHANGED vars
      BY <1>6 DEF vars, IndPaging, TypeOK, Come, ComeIsTheStart, Costs, AtMost, Missed, Touched,
                  Times, EachChangeCostsAtMostARow, Loaded
<1>7. QED BY <1>1, <1>2, <1>3, <1>4, <1>5, <1>6 DEF Next

\* The invariant holds of every behavior of a load and its database.
LEMMA PagingInvariant ==
    ASSUME BatchSizes \subseteq Nat
    PROVE  Spec => []IndPaging
<1>1. Init => IndPaging
      BY InitPaging
<1>2. IndPaging /\ [Next]_vars => IndPaging'
      BY PagingStep
<1>3. QED BY <1>1, <1>2, PTL DEF Spec

\* The state of a load and of the database is of its types: the skip of the page loop
\* of load_nodes and load_edges, whose batch size is a usize, is a natural number.
THEOREM LoadTypeCorrect == BatchSizes \subseteq Nat => (Spec => []TypeOK)
<1> SUFFICES ASSUME BatchSizes \subseteq Nat PROVE Spec => []TypeOK
    OBVIOUS
<1>1. IndPaging => TypeOK
      BY DEF IndPaging
<1>2. QED BY <1>1, PagingInvariant, PTL

\* What the pages of load_nodes and load_edges come to while others change the
\* database, and wherever it puts its rows: all of them when nothing changes, and
\* otherwise at most one too few for each removal or move, at most one too many for
\* each insertion or move, and no node twice in any case.
THEOREM LoadCorrect == BatchSizes \subseteq Nat => (Spec => []EachChangeCostsAtMostARow)
<1> SUFFICES ASSUME BatchSizes \subseteq Nat PROVE Spec => []EachChangeCostsAtMostARow
    OBVIOUS
<1>1. IndPaging => EachChangeCostsAtMostARow
      BY DEF IndPaging
<1>2. QED BY <1>1, PagingInvariant, PTL

=============================================================================
