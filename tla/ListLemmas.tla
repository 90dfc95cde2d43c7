----------------------------- MODULE ListLemmas -----------------------------
(***************************************************************************)
(* Facts about the lists of the kernel (free lists and queues without      *)
(* repetitions, as sequences) that the proofs of several components need.  *)
(***************************************************************************)
EXTENDS Lists, TLAPS

(* The tail of a list is a list. *)
LEMMA TailIn == ASSUME NEW S, NEW q \in Seq(S), q # <<>> PROVE Tail(q) \in Seq(S)
OBVIOUS

(* Taking the first element off a list without repetitions. *)
LEMMA TakeFacts ==
  ASSUME NEW S, NEW q \in Seq(S), q # <<>>, IsInjective(q)
  PROVE  /\ Head(q) \in S /\ Tail(q) \in Seq(S)
         /\ IsInjective(Tail(q))
         /\ Head(q) \in Range(q) /\ Head(q) \notin Range(Tail(q))
         /\ \A k \in S \ {Head(q)} : k \in Range(Tail(q)) <=> k \in Range(q)
<1>1. PICK r : r = Tail(q)
  BY Zenon
<1>2. /\ Head(q) \in S /\ r \in Seq(S) /\ Head(q) = q[1] /\ 1 \in DOMAIN q
      /\ \A i \in DOMAIN r : r[i] = q[i+1] /\ i + 1 \in DOMAIN q /\ i + 1 # 1 /\ i \in Nat
      /\ \A i \in DOMAIN q : i # 1 => i - 1 \in DOMAIN r /\ q[i] = r[i-1]
  BY <1>1
<1>3. IsInjective(r)
  BY <1>2 DEF IsInjective
<1>4. Range(r) = Range(q) \ {q[1]}
  <2>1. \A i \in DOMAIN q : i # 1 => q[i] \in Range(r)
    BY <1>2 DEF Range
  <2>2. \A i \in DOMAIN r : r[i] \in Range(q) /\ r[i] # q[1]
    BY <1>2 DEF Range, IsInjective
  <2> QED
    BY <2>1, <2>2 DEF Range
<1>5. q[1] \in Range(q)
  BY <1>2 DEF Range
<1> QED
  BY <1>1, <1>2, <1>3, <1>4, <1>5

(* Putting a new element on the front of a list. *)
LEMMA PutFacts ==
  ASSUME NEW S, NEW q \in Seq(S), IsInjective(q), NEW c \in S, c \notin Range(q)
  PROVE  /\ <<c>> \o q \in Seq(S)
         /\ IsInjective(<<c>> \o q)
         /\ Range(<<c>> \o q) = Range(q) \cup {c}
<1>1. PICK r : r = <<c>> \o q
  BY Zenon
<1>2. /\ r \in Seq(S) /\ 1 \in DOMAIN r /\ r[1] = c
      /\ \A i \in DOMAIN q : i + 1 \in DOMAIN r /\ r[i+1] = q[i]
      /\ \A i \in DOMAIN r : i # 1 => i - 1 \in DOMAIN q /\ r[i] = q[i-1] /\ i \in Nat
  BY <1>1
<1>3. IsInjective(r)
  BY <1>2 DEF IsInjective, Range
<1>4. Range(r) = Range(q) \cup {c}
  BY <1>2 DEF Range
<1> QED
  BY <1>1, <1>2, <1>3, <1>4

(* Unlinking an element of a list without repetitions. *)
LEMMA UnlinkFacts ==
  ASSUME NEW S, NEW q \in Seq(S), IsInjective(q), NEW e \in Range(q)
  PROVE  /\ Unlink(q, e) \in Seq(S) /\ IsInjective(Unlink(q, e))
         /\ Range(Unlink(q, e)) = Range(q) \ {e}
<1>1. PICK k \in DOMAIN q : /\ q[k] = e
                            /\ Unlink(q, e) = SubSeq(q, 1, k - 1) \o SubSeq(q, k + 1, Len(q))
  <2>1. \E i \in DOMAIN q : q[i] = e /\ \A j \in 1..(i - 1) : q[j] # e
    <3>1. PICK i \in DOMAIN q : q[i] = e
      BY DEF Range
    <3>2. \A j \in 1..(i - 1) : j \in DOMAIN q /\ j # i
      BY <3>1
    <3> QED
      BY <3>1, <3>2 DEF IsInjective
  <2> QED
    BY Zenon, <2>1 DEF Unlink
<1>a. PICK a : a = SubSeq(q, 1, k - 1)
  BY Zenon
<1>b. PICK b : b = SubSeq(q, k + 1, Len(q))
  BY Zenon
<1>2. PICK r : r = a \o b
  BY Zenon
<1>3. k \in 1..Len(q) /\ Len(q) \in Nat /\ DOMAIN q = 1..Len(q)
  OBVIOUS
<1>4. /\ a \in Seq(S) /\ Len(a) = k - 1 /\ \A i \in 1..(k - 1) : a[i] = q[i]
  BY <1>a, <1>3
<1>5. /\ b \in Seq(S) /\ Len(b) = Len(q) - k /\ \A i \in 1..(Len(q) - k) : b[i] = q[i + k]
  BY <1>b, <1>3
<1>6. /\ r \in Seq(S) /\ Len(r) = Len(a) + Len(b)
      /\ \A i \in 1..Len(r) : i <= Len(a) => r[i] = a[i]
      /\ \A i \in 1..Len(r) : i > Len(a) => r[i] = b[i - Len(a)]
  <2>1. ASSUME NEW x \in Seq(S), NEW y \in Seq(S)
        PROVE  /\ x \o y \in Seq(S) /\ Len(x \o y) = Len(x) + Len(y)
               /\ \A i \in 1..Len(x \o y) : i <= Len(x) => (x \o y)[i] = x[i]
               /\ \A i \in 1..Len(x \o y) : i > Len(x) => (x \o y)[i] = y[i - Len(x)]
    OBVIOUS
  <2> QED
    BY Zenon, <1>2, <1>4, <1>5, <2>1
<1>7. /\ DOMAIN r = 1..(Len(q) - 1)
      /\ \A i \in 1..(Len(q) - 1) : i < k => r[i] = q[i]
      /\ \A i \in 1..(Len(q) - 1) : i >= k => r[i] = q[i + 1]
  <2>1. ASSUME NEW i \in 1..(Len(q) - 1), i >= k PROVE r[i] = q[i + 1]
    <3>1. i - (k - 1) \in 1..(Len(q) - k) /\ (i - (k - 1)) + k = i + 1
      BY <1>3, <2>1
    <3>2. r[i] = b[i - (k - 1)]
      <4>1. i \in 1..Len(r) /\ i > Len(a) /\ Len(a) = k - 1
        BY <1>3, <1>4, <1>5, <1>6, <2>1
      <4> QED
        BY <1>6, <4>1
    <3> QED
      BY <1>5, <3>1, <3>2
  <2>2. Len(r) = Len(q) - 1 /\ DOMAIN r = 1..(Len(q) - 1)
    BY <1>3, <1>4, <1>5, <1>6
  <2>3. ASSUME NEW i \in 1..(Len(q) - 1), i < k PROVE r[i] = q[i]
    <3>1. i \in 1..Len(r) /\ i <= Len(a) /\ i \in 1..(k - 1)
      BY <1>3, <1>4, <2>2, <2>3
    <3> QED
      BY <1>4, <1>6, <3>1
  <2> QED
    BY Zenon, <2>1, <2>2, <2>3
<1>8. IsInjective(r)
  <2>1. SUFFICES ASSUME NEW i \in DOMAIN r, NEW j \in DOMAIN r, r[i] = r[j] PROVE i = j
    BY DEF IsInjective
  <2> DEFINE u(x) == IF x < k THEN x ELSE x + 1
  <2>2. u(i) \in DOMAIN q /\ u(j) \in DOMAIN q /\ r[i] = q[u(i)] /\ r[j] = q[u(j)]
    BY <1>3, <1>7
  <2>3. u(i) = u(j)
    BY Zenon, <2>1, <2>2 DEF IsInjective
  <2> QED
    BY <1>3, <1>7, <2>3
<1>9. Range(r) = Range(q) \ {e}
  <2>1. ASSUME NEW i \in DOMAIN q, i # k PROVE q[i] \in Range(r)
    <3> DEFINE d == IF i < k THEN i ELSE i - 1
    <3>1. d \in DOMAIN r /\ r[d] = q[i]
      BY <1>3, <1>7, <2>1
    <3> QED
      BY <3>1 DEF Range
  <2>2. ASSUME NEW i \in DOMAIN r PROVE r[i] \in Range(q) \ {e}
    <3> DEFINE u == IF i < k THEN i ELSE i + 1
    <3>1. u \in DOMAIN q /\ u # k /\ r[i] = q[u]
      BY <1>3, <1>7
    <3> QED
      BY <1>1, <3>1 DEF Range, IsInjective
  <2> QED
    BY Zenon, <1>1, <2>1, <2>2 DEF Range
<1> QED
  BY <1>1, <1>a, <1>b, <1>2, <1>6, <1>8, <1>9
=============================================================================
