----------------------------- MODULE ListProofs -----------------------------
(***************************************************************************)
(* The lists of the models: induction over the numbers, which gives what   *)
(* Filtered builds, and what an element added to a list or filtered out of *)
(* it leaves of the others and of their order.                             *)
(***************************************************************************)
EXTENDS Lists, SequenceTheorems, WellFoundedInduction, TLAPS

-----------------------------------------------------------------------------
(* Induction over the numbers, for a set of numbers.                         *)
LEMMA LeastOf ==
  ASSUME NEW T \in SUBSET Nat, T # {}
  PROVE  \E x \in T : \A y \in T : x <= y
<1>1. PICK x \in T : \A y \in T : <<y, x>> \notin OpToRel(<, Nat)
  BY NatLessThanWellFounded, WFMin
<1>2. \A y \in T : ~(y < x)
  BY <1>1, Zenon DEF OpToRel
<1> QED
  BY <1>2

LEMMA SetInduction ==
  ASSUME NEW T, 0 \in T, \A n \in Nat : n \in T => n + 1 \in T
  PROVE  Nat \subseteq T
<1>1. SUFFICES ASSUME Nat \ T # {} PROVE FALSE
  OBVIOUS
<1>2. PICK m \in Nat \ T : \A y \in Nat \ T : m <= y
  BY <1>1, LeastOf
<1>3. m # 0 /\ m - 1 \in Nat
  BY <1>2
<1>4. m - 1 \in T
  BY <1>2, <1>3
<1> QED
  BY <1>2, <1>3, <1>4

(* A loop over the first N, each step taking a value of T to a value of T.   *)
Loops(f, first, step, N) ==
  f = [n \in 0..N |-> IF n = 0 THEN first ELSE step[<<n, f[n - 1]>>]]

LEMMA LoopExists ==
  ASSUME NEW T, NEW first \in T, NEW N \in Nat, NEW step \in [(1..N) \X T -> T]
  PROVE  \E f \in [0..N -> T] : Loops(f, first, step, N)
<1> DEFINE R == {m \in Nat : m \in 0..N => \E f \in [0..m -> T] : Loops(f, first, step, m)}
<1>1. 0 \in R
  <2>1. PICK f : f = [n \in 0..0 |-> first]
    OBVIOUS
  <2>2. f \in [0..0 -> T] /\ Loops(f, first, step, 0)
    BY <2>1 DEF Loops
  <2> QED
    BY <2>2
<1>2. ASSUME NEW m \in Nat, m \in R PROVE m + 1 \in R
  <2>1. SUFFICES ASSUME m + 1 \in 0..N
                 PROVE  \E g \in [0..m + 1 -> T] : Loops(g, first, step, m + 1)
    OBVIOUS
  <2>2. m \in 0..N /\ m \in 0..m
    BY <2>1
  <2>3. PICK f \in [0..m -> T] : Loops(f, first, step, m)
    BY <1>2, <2>2
  <2>4. PICK last \in T : last = step[<<m + 1, f[m]>>]
    <3>1. f[m] \in T /\ m + 1 \in 1..N
      BY <2>1, <2>2, <2>3
    <3> QED
      BY <3>1
  <2>5. PICK g : g = [n \in 0..m + 1 |-> IF n = m + 1 THEN last ELSE f[n]]
    OBVIOUS
  <2>6. g \in [0..m + 1 -> T] /\ g[m + 1] = last /\ \A n \in 0..m : g[n] = f[n]
    BY <2>3, <2>4, <2>5
  <2>7. \A n \in 0..m : f[n] = IF n = 0 THEN first ELSE step[<<n, f[n - 1]>>]
    BY <2>3 DEF Loops
  <2>8. ASSUME NEW n \in 0..m + 1
        PROVE  g[n] = IF n = 0 THEN first ELSE step[<<n, g[n - 1]>>]
    <3>1. CASE n = m + 1
      <4>1. n # 0 /\ n - 1 = m /\ g[m] = f[m]
        BY <2>2, <2>6, <3>1
      <4> QED
        BY <2>4, <2>6, <3>1, <4>1
    <3>2. CASE n # m + 1 /\ n # 0
      <4>1. n \in 0..m /\ n - 1 \in 0..m
        BY <3>2
      <4>2. g[n] = f[n] /\ g[n - 1] = f[n - 1]
        BY <2>6, <4>1
      <4>3. f[n] = step[<<n, f[n - 1]>>]
        BY <2>7, <3>2, <4>1
      <4>4. g[n] = step[<<n, g[n - 1]>>]
        BY <4>2, <4>3, Zenon
      <4> QED
        BY <3>2, <4>4
    <3>3. CASE n = 0
      <4>1. 0 \in 0..m
        OBVIOUS
      <4>2. f[0] = IF 0 = 0 THEN first ELSE step[<<0, f[0 - 1]>>]
        BY <2>7, <4>1, Zenon
      <4>3. f[0] = first
        BY <4>2
      <4>4. g[n] = first
        BY <2>6, <3>3, <4>1, <4>3
      <4> QED
        BY <3>3, <4>4
    <3> QED
      BY <3>1, <3>2, <3>3
  <2>9. Loops(g, first, step, m + 1)
    <3>1. g = [n \in 0..m + 1 |-> g[n]]
      BY <2>5
    <3> QED
      BY <2>8, <3>1, Zenon DEF Loops
  <2> QED
    BY <2>6, <2>9
<1>3. Nat \subseteq R
  <2> HIDE DEF R
  <2> QED
    BY <1>1, <1>2, SetInduction
<1>4. N \in R /\ N \in 0..N
  BY <1>3
<1> QED
  BY <1>4

-----------------------------------------------------------------------------
(* The equation that Filtered is defined by has a solution.                  *)
Unfolds(f, seq, kept, N) ==
  f = [n \in 0..N |-> IF n = 0 THEN <<>>
                      ELSE IF seq[n] \in kept THEN Append(f[n - 1], seq[n]) ELSE f[n - 1]]

LEMMA FilterUnfolds ==
  ASSUME NEW seq, NEW kept, NEW N \in Nat
  PROVE  \E f : Unfolds(f, seq, kept, N)
<1> DEFINE T == {m \in Nat : \E f : Unfolds(f, seq, kept, m)}
<1>1. 0 \in T
  <2>1. PICK f : f = [n \in 0..0 |-> <<>>]
    OBVIOUS
  <2>2. Unfolds(f, seq, kept, 0)
    BY <2>1 DEF Unfolds
  <2> QED
    BY <2>2
<1>2. ASSUME NEW m \in Nat, m \in T PROVE m + 1 \in T
  <2>1. PICK f : Unfolds(f, seq, kept, m)
    BY <1>2
  <2>2. PICK g : g = [n \in 0..m + 1 |->
                        IF n = m + 1
                        THEN IF seq[n] \in kept THEN Append(f[m], seq[n]) ELSE f[m]
                        ELSE f[n]]
    OBVIOUS
  <2>3. \A n \in 0..m : g[n] = f[n]
    BY <2>2
  <2>4. g[m + 1] = IF seq[m + 1] \in kept THEN Append(f[m], seq[m + 1]) ELSE f[m]
    BY <2>2
  <2>5. \A n \in 0..m : f[n] = IF n = 0 THEN <<>>
                       ELSE IF seq[n] \in kept THEN Append(f[n - 1], seq[n]) ELSE f[n - 1]
    BY <2>1 DEF Unfolds
  <2>6. ASSUME NEW n \in 0..m + 1
        PROVE  g[n] = IF n = 0 THEN <<>>
                      ELSE IF seq[n] \in kept THEN Append(g[n - 1], seq[n]) ELSE g[n - 1]
    <3>1. CASE n = m + 1
      <4>1. n # 0 /\ n - 1 = m /\ g[m] = f[m]
        BY <2>3, <3>1
      <4> QED
        BY <2>4, <3>1, <4>1
    <3>2. CASE n # m + 1 /\ n # 0
      <4>1. n \in 0..m /\ n - 1 \in 0..m
        BY <3>2
      <4>2. g[n] = f[n] /\ g[n - 1] = f[n - 1]
        BY <2>3, <4>1
      <4> QED
        BY <2>5, <3>2, <4>1, <4>2
    <3>3. CASE n = 0
      BY <2>3, <2>5, <3>3
    <3> QED
      BY <3>1, <3>2, <3>3
  <2>7. g = [n \in 0..m + 1 |-> IF n = 0 THEN <<>>
                      ELSE IF seq[n] \in kept THEN Append(g[n - 1], seq[n]) ELSE g[n - 1]]
    <3>1. g = [n \in 0..m + 1 |-> g[n]]
      BY <2>2
    <3> QED
      BY <2>6, <3>1, Zenon
  <2>8. Unfolds(g, seq, kept, m + 1)
    BY <2>7 DEF Unfolds
  <2> QED
    BY <2>8
<1>3. Nat \subseteq T
  <2> HIDE DEF T
  <2> QED
    BY <1>1, <1>2, SetInduction
<1> QED
  BY <1>3

LEMMA FilterIs ==
  ASSUME NEW seq, NEW kept, Len(seq) \in Nat
  PROVE  \E f : Unfolds(f, seq, kept, Len(seq)) /\ Filtered(seq, kept) = f[Len(seq)]
<1>1. PICK f : f = CHOOSE g : Unfolds(g, seq, kept, Len(seq))
  OBVIOUS
<1>2. Unfolds(f, seq, kept, Len(seq))
  <2>1. \E g : Unfolds(g, seq, kept, Len(seq))
    BY FilterUnfolds
  <2> QED
    BY <1>1, <2>1, Zenon
<1>3. Filtered(seq, kept) = f[Len(seq)]
  BY <1>1, Zenon DEF Filtered, Unfolds
<1> QED
  BY <1>2, <1>3

(* What a filter returns: the kept elements of the first N, in their order.  *)
Picks(list, seq, kept, N, at) ==
  /\ at \in [1..Len(list) -> 1..N]
  /\ \A i \in 1..Len(list) : list[i] = seq[at[i]] /\ list[i] \in kept
  /\ \A i, j \in 1..Len(list) : i < j => at[i] < at[j]
  /\ \A k \in 1..N : seq[k] \in kept => \E i \in 1..Len(list) : at[i] = k

LEMMA AppendFacts ==
  ASSUME NEW S, NEW s \in Seq(S), NEW e \in S
  PROVE  /\ Append(s, e) \in Seq(S) /\ Len(Append(s, e)) = Len(s) + 1
         /\ Append(s, e)[Len(s) + 1] = e
         /\ \A i \in 1..Len(s) : Append(s, e)[i] = s[i]
  BY AppendProperties

LEMMA FilterPicks ==
  ASSUME NEW S, NEW seq \in Seq(S), NEW kept
  PROVE  /\ Filtered(seq, kept) \in Seq(S)
         /\ \E at : Picks(Filtered(seq, kept), seq, kept, Len(seq), at)
<1>1. PICK N \in Nat : N = Len(seq) /\ DOMAIN seq = 1..N
  BY LenProperties
<1>2. \A n \in 1..N : seq[n] \in S
  BY <1>1
<1>3. PICK f : Unfolds(f, seq, kept, N) /\ Filtered(seq, kept) = f[N]
  BY <1>1, FilterIs
<1>4. \A n \in 0..N : f[n] = IF n = 0 THEN <<>>
                       ELSE IF seq[n] \in kept THEN Append(f[n - 1], seq[n]) ELSE f[n - 1]
  BY <1>3 DEF Unfolds
<1> DEFINE T == {n \in Nat : n \in 0..N =>
                   f[n] \in Seq(S) /\ \E at : Picks(f[n], seq, kept, n, at)}
<1>5. 0 \in T
  <2>1. f[0] = <<>>
    BY <1>4
  <2>2. PICK at : at = [i \in 1..0 |-> 1]
    OBVIOUS
  <2>3. Picks(<<>>, seq, kept, 0, at)
    <3>1. Len(<<>>) = 0 /\ 1..0 = {} /\ at \in [1..0 -> 1..0]
      BY <2>2
    <3> QED
      BY <3>1 DEF Picks
  <2>4. f[0] \in Seq(S) /\ \E to : Picks(f[0], seq, kept, 0, to)
    BY <2>1, <2>3
  <2> QED
    BY <2>4
<1>6. ASSUME NEW m \in Nat, m \in T PROVE m + 1 \in T
  <2>1. SUFFICES ASSUME m + 1 \in 0..N
                 PROVE  f[m + 1] \in Seq(S) /\ \E at : Picks(f[m + 1], seq, kept, m + 1, at)
    OBVIOUS
  <2>2. m \in 0..N /\ m + 1 \in 1..N /\ m + 1 # 0 /\ (m + 1) - 1 = m
    BY <2>1
  <2>a. PICK old \in Seq(S) : old = f[m] /\ \E at : Picks(old, seq, kept, m, at)
    BY <1>6, <2>2
  <2>3. PICK at : old = f[m] /\ Picks(old, seq, kept, m, at)
    BY <2>a
  <2>4. PICK n \in Nat : n = Len(old) /\ DOMAIN old = 1..n
    BY LenProperties
  <2>5. /\ at \in [1..n -> 1..m] /\ \A i \in 1..n : old[i] = seq[at[i]] /\ old[i] \in kept
        /\ \A i, j \in 1..n : i < j => at[i] < at[j]
        /\ \A k \in 1..m : seq[k] \in kept => \E i \in 1..n : at[i] = k
    BY <2>3, <2>4 DEF Picks
  <2>6. CASE seq[m + 1] \in kept
    <3>9. PICK e \in S : e = seq[m + 1]
      BY <1>2, <2>2
    <3>1. PICK new : new = Append(old, e) /\ new = f[m + 1]
      BY <1>4, <2>1, <2>2, <2>3, <2>6, <3>9
    <3>2. /\ new \in Seq(S) /\ Len(new) = n + 1 /\ new[n + 1] = seq[m + 1]
          /\ \A i \in 1..n : new[i] = old[i]
      <4>1. /\ Append(old, e) \in Seq(S) /\ Len(Append(old, e)) = Len(old) + 1
            /\ Append(old, e)[Len(old) + 1] = e
            /\ \A i \in 1..Len(old) : Append(old, e)[i] = old[i]
        BY <2>a, <3>9, AppendFacts
      <4> QED
        BY <2>4, <3>1, <3>9, <4>1
    <3>3. PICK to : to = [i \in 1..n + 1 |-> IF i = n + 1 THEN m + 1 ELSE at[i]]
      OBVIOUS
    <3>4. to \in [1..n + 1 -> 1..m + 1]
      BY <2>5, <3>3
    <3>5. ASSUME NEW i \in 1..n + 1 PROVE new[i] = seq[to[i]] /\ new[i] \in kept
      <4>1. CASE i = n + 1
        BY <2>6, <3>2, <3>3, <4>1
      <4>2. CASE i # n + 1
        <5>1. i \in 1..n /\ to[i] = at[i]
          BY <3>3, <4>2
        <5> QED
          BY <2>5, <3>2, <5>1
      <4> QED
        BY <4>1, <4>2
    <3>6. \A i, j \in 1..n + 1 : i < j => to[i] < to[j]
      BY <2>5, <3>3
    <3>7. ASSUME NEW k \in 1..m + 1, seq[k] \in kept PROVE \E i \in 1..n + 1 : to[i] = k
      <4>1. CASE k = m + 1
        <5>1. to[n + 1] = k /\ n + 1 \in 1..n + 1
          BY <3>3, <4>1
        <5> QED
          BY <5>1
      <4>2. CASE k # m + 1
        <5>1. k \in 1..m
          BY <4>2
        <5>2. PICK i \in 1..n : at[i] = k
          BY <2>5, <3>7, <5>1
        <5>3. i \in 1..n + 1 /\ to[i] = k
          BY <3>3, <5>2
        <5> QED
          BY <5>3
      <4> QED
        BY <4>1, <4>2
    <3>8. Picks(new, seq, kept, m + 1, to)
      BY <3>2, <3>4, <3>5, <3>6, <3>7 DEF Picks
    <3> QED
      BY <3>1, <3>2, <3>8
  <2>7. CASE seq[m + 1] \notin kept
    <3>1. f[m + 1] = old
      BY <1>4, <2>1, <2>2, <2>3, <2>7
    <3>2. at \in [1..n -> 1..m + 1]
      BY <2>5
    <3>3. \A k \in 1..m + 1 : seq[k] \in kept => \E i \in 1..n : at[i] = k
      BY <2>5, <2>7
    <3>4. Picks(old, seq, kept, m + 1, at)
      BY <2>4, <2>5, <3>2, <3>3 DEF Picks
    <3> QED
      BY <3>1, <3>4
  <2> QED
    BY <2>6, <2>7
<1>7. Nat \subseteq T
  <2> HIDE DEF T
  <2> QED
    BY <1>5, <1>6, SetInduction
<1>8. N \in T
  BY <1>7
<1> QED
  BY <1>1, <1>3, <1>8

LEMMA FilterKeeps ==
  ASSUME NEW S, NEW seq \in Seq(S), NEW kept
  PROVE  /\ Filtered(seq, kept) \in Seq(S)
         /\ \A i \in DOMAIN Filtered(seq, kept) :
              /\ Filtered(seq, kept)[i] \in kept
              /\ \E k \in DOMAIN seq : Filtered(seq, kept)[i] = seq[k]
<1>1. PICK list \in Seq(S) : list = Filtered(seq, kept)
  BY FilterPicks
<1>2. PICK at : Picks(list, seq, kept, Len(seq), at)
  BY <1>1, FilterPicks
<1>3. DOMAIN list = 1..Len(list) /\ DOMAIN seq = 1..Len(seq)
  BY LenProperties
<1>4. /\ at \in [1..Len(list) -> 1..Len(seq)]
      /\ \A i \in 1..Len(list) : list[i] = seq[at[i]] /\ list[i] \in kept
  BY <1>2 DEF Picks
<1> QED
  BY <1>1, <1>3, <1>4

LEMMA TailOf ==
  ASSUME NEW S, NEW s \in Seq(S), s # <<>>
  PROVE  /\ Tail(s) \in Seq(S) /\ Head(s) = s[1] /\ s[1] \in S /\ 1 \in DOMAIN s
         /\ \A i \in DOMAIN Tail(s) : i + 1 \in DOMAIN s /\ Tail(s)[i] = s[i + 1]
         /\ \A i \in DOMAIN s : i = 1 \/ (i - 1 \in DOMAIN Tail(s) /\ Tail(s)[i - 1] = s[i])
<1>1. PICK n \in Nat : n = Len(s) /\ DOMAIN s = 1..n /\ n > 0 /\ \A i \in 1..n : s[i] \in S
  BY LenProperties, EmptySeq
<1>2. PICK rest \in Seq(S) : /\ rest = Tail(s) /\ Len(rest) = n - 1
                             /\ \A i \in 1..Len(rest) : rest[i] = s[i + 1]
  BY <1>1, HeadTailProperties
<1>3. DOMAIN rest = 1..n - 1
  BY <1>2, LenProperties
<1>4. Head(s) = s[1] /\ 1 \in DOMAIN s /\ s[1] \in S
  BY <1>1
<1>5. \A i \in DOMAIN rest : i + 1 \in DOMAIN s /\ rest[i] = s[i + 1]
  BY <1>1, <1>2, <1>3
<1>6. ASSUME NEW i \in DOMAIN s, i # 1 PROVE i - 1 \in DOMAIN rest /\ rest[i - 1] = s[i]
  <2>1. i - 1 \in 1..n - 1 /\ (i - 1) + 1 = i
    BY <1>1, <1>6
  <2> QED
    BY <1>2, <1>3, <2>1
<1> QED
  BY <1>2, <1>4, <1>5, <1>6

LEMMA AppendOf ==
  ASSUME NEW S, NEW s \in Seq(S), NEW e \in S
  PROVE  /\ Append(s, e) \in Seq(S)
         /\ \A i \in DOMAIN s : i \in DOMAIN Append(s, e) /\ Append(s, e)[i] = s[i]
         /\ \E i \in DOMAIN Append(s, e) : Append(s, e)[i] = e
         /\ \A i \in DOMAIN Append(s, e) : i \in DOMAIN s \/ Append(s, e)[i] = e
<1>1. /\ Append(s, e) \in Seq(S) /\ Len(Append(s, e)) = Len(s) + 1
      /\ Append(s, e)[Len(s) + 1] = e
      /\ \A i \in 1..Len(s) : Append(s, e)[i] = s[i]
  BY AppendFacts
<1>2. Len(s) \in Nat /\ DOMAIN s = 1..Len(s) /\ DOMAIN Append(s, e) = 1..Len(s) + 1
  BY <1>1, LenProperties
<1>3. Len(s) + 1 \in DOMAIN Append(s, e)
  BY <1>2
<1> QED
  BY <1>1, <1>2, <1>3


(* What a sequence holds, and that it holds nothing twice.                   *)
Elems(seq) == {seq[i] : i \in DOMAIN seq}
Once(seq) == \A i, j \in DOMAIN seq : seq[i] = seq[j] => i = j
Before(seq, a, b) == \E i, j \in DOMAIN seq : i < j /\ seq[i] = a /\ seq[j] = b

LEMMA FilterSelects ==
  ASSUME NEW S, NEW seq \in Seq(S), NEW kept
  PROVE  /\ Elems(Filtered(seq, kept)) = Elems(seq) \cap kept
         /\ Once(seq) => Once(Filtered(seq, kept))
         /\ \A a, b \in kept : Before(seq, a, b) => Before(Filtered(seq, kept), a, b)
<1>1. PICK list \in Seq(S) : list = Filtered(seq, kept)
  BY FilterPicks
<1>2. PICK at : Picks(list, seq, kept, Len(seq), at)
  BY <1>1, FilterPicks
<1>3. PICK m \in Nat, n \in Nat :
        m = Len(list) /\ n = Len(seq) /\ DOMAIN list = 1..m /\ DOMAIN seq = 1..n
  BY LenProperties
<1>4. /\ at \in [1..m -> 1..n]
      /\ \A i \in 1..m : list[i] = seq[at[i]] /\ list[i] \in kept
      /\ \A i, j \in 1..m : i < j => at[i] < at[j]
      /\ \A k \in 1..n : seq[k] \in kept => \E i \in 1..m : at[i] = k
  BY <1>2, <1>3 DEF Picks
<1>5. Elems(list) = Elems(seq) \cap kept
  <2>1. \A x \in Elems(list) : x \in Elems(seq) /\ x \in kept
    BY <1>3, <1>4 DEF Elems
  <2>2. ASSUME NEW k \in 1..n, seq[k] \in kept PROVE seq[k] \in Elems(list)
    <3>1. PICK i \in 1..m : at[i] = k
      BY <1>4, <2>2
    <3> QED
      BY <1>3, <1>4, <3>1 DEF Elems
  <2>3. \A x \in Elems(seq) : x \in kept => x \in Elems(list)
    BY <1>3, <2>2 DEF Elems
  <2> QED
    BY <2>1, <2>3
<1>6. ASSUME Once(seq) PROVE Once(list)
  <2>1. ASSUME NEW i \in 1..m, NEW j \in 1..m, list[i] = list[j] PROVE i = j
    <3>1. at[i] \in 1..n /\ at[j] \in 1..n
      <4>1. at \in [1..m -> 1..n]
        BY <1>4
      <4> QED
        BY <2>1, <4>1
    <3>2. PICK k, l : k = at[i] /\ l = at[j] /\ k \in DOMAIN seq /\ l \in DOMAIN seq
      BY <1>3, <3>1
    <3>3. seq[k] = seq[l]
      <4>1. list[i] = seq[k] /\ list[j] = seq[l]
        BY <1>4, <3>2, Zenon
      <4> QED
        BY <2>1, <4>1
    <3>4. at[i] = at[j]
      BY <1>6, <3>2, <3>3, Zenon DEF Once
    <3>5. ~(i < j) /\ ~(j < i)
      BY <1>4, <3>1, <3>4
    <3> QED
      BY <3>5
  <2> QED
    BY <1>3, <2>1 DEF Once
<1>7. ASSUME NEW a \in kept, NEW b \in kept, Before(seq, a, b) PROVE Before(list, a, b)
  <2>1. PICK k \in 1..n, l \in 1..n : k < l /\ seq[k] = a /\ seq[l] = b
    BY <1>3, <1>7 DEF Before
  <2>2. PICK i \in 1..m : at[i] = k
    BY <1>4, <2>1
  <2>3. PICK j \in 1..m : at[j] = l
    BY <1>4, <2>1
  <2>4. i < j
    <3>1. ~(j < i) /\ j # i
      BY <1>4, <2>1, <2>2, <2>3
    <3> QED
      BY <3>1
  <2> QED
    BY <1>3, <1>4, <2>1, <2>2, <2>3, <2>4 DEF Before
<1> QED
  BY <1>1, <1>5, <1>6, <1>7

(* An element put in front of, or behind, a sequence.                        *)
Behind(l, s, e) == l = Append(s, e)
InFrontOf(f, s, e) == f = <<e>> \o s

LEMMA AddedElems ==
  ASSUME NEW S, NEW s \in Seq(S), NEW e \in S,
         NEW l, Behind(l, s, e), NEW f, InFrontOf(f, s, e)
  PROVE  /\ l \in Seq(S) /\ f \in Seq(S)
         /\ Elems(l) = Elems(s) \cup {e} /\ Elems(f) = Elems(s) \cup {e}
         /\ Once(s) /\ e \notin Elems(s) => Once(l) /\ Once(f)
         /\ \A a, b : Before(s, a, b) => Before(l, a, b)
         /\ \A a \in Elems(s) : Before(l, a, e)
<1>1. PICK n \in Nat : n = Len(s) /\ DOMAIN s = 1..n
  BY LenProperties
<1>2. l \in Seq(S) /\ Len(l) = n + 1 /\ l[n + 1] = e /\ \A i \in 1..n : l[i] = s[i]
  <2>1. /\ Append(s, e) \in Seq(S) /\ Len(Append(s, e)) = Len(s) + 1
        /\ Append(s, e)[Len(s) + 1] = e
        /\ \A i \in 1..Len(s) : Append(s, e)[i] = s[i]
    BY AppendFacts
  <2> QED
    BY <1>1, <2>1 DEF Behind
<1>3. PICK one : one = <<e>> /\ one \in Seq(S) /\ Len(one) = 1 /\ one[1] = e
  <2>1. <<e>> \in Seq(S) /\ Len(<<e>>) = 1 /\ <<e>>[1] = e
    OBVIOUS
  <2> QED
    BY <2>1, Zenon
<1>4. f \in Seq(S) /\ Len(f) = n + 1 /\ f[1] = e /\ \A i \in 1..n : f[i + 1] = s[i]
  <2>1. one \o s \in Seq(S) /\ Len(one \o s) = 1 + n
    BY <1>1, <1>3, ConcatProperties
  <2>2. \A i \in 1..1 + n : (one \o s)[i] = IF i <= 1 THEN one[i] ELSE s[i - 1]
    BY <1>1, <1>3, ConcatProperties
  <2>3. (one \o s)[1] = e
    BY <1>3, <2>2
  <2>4. \A i \in 1..n : i + 1 \in 1..1 + n /\ ~(i + 1 <= 1) /\ (i + 1) - 1 = i
    OBVIOUS
  <2>5. \A i \in 1..n : (one \o s)[i + 1] = s[i]
    BY <2>2, <2>4
  <2>6. f = one \o s
    BY <1>3 DEF InFrontOf
  <2>7. f \in Seq(S) /\ Len(f) = n + 1 /\ f[1] = e
    BY <1>3, <2>1, <2>3, <2>6
  <2>8. \A i \in 1..n : f[i + 1] = s[i]
    BY <2>5, <2>6
  <2> QED
    BY <2>7, <2>8
<1>5. DOMAIN l = 1..n + 1 /\ DOMAIN f = 1..n + 1
  BY <1>2, <1>4, LenProperties
<1>6. Elems(l) = Elems(s) \cup {e}
  <2>1. \A i \in 1..n + 1 : l[i] \in Elems(s) \cup {e}
    BY <1>1, <1>2 DEF Elems
  <2>2. \A i \in 1..n : s[i] \in Elems(l)
    BY <1>2, <1>5 DEF Elems
  <2>3. e \in Elems(l)
    <3>1. n + 1 \in DOMAIN l
      BY <1>5
    <3> QED
      BY <1>2, <3>1 DEF Elems
  <2>4. Elems(l) \subseteq Elems(s) \cup {e}
    BY <1>5, <2>1 DEF Elems
  <2>5. Elems(s) \subseteq Elems(l)
    BY <1>1, <2>2 DEF Elems
  <2> QED
    BY <2>3, <2>4, <2>5
<1>7. \A i \in 1..n + 1 : i = 1 \/ (i - 1 \in 1..n /\ f[i] = s[i - 1])
  <2>1. ASSUME NEW i \in 1..n + 1, i # 1 PROVE i - 1 \in 1..n /\ f[i] = s[i - 1]
    <3>1. i - 1 \in 1..n /\ (i - 1) + 1 = i
      BY <2>1
    <3> QED
      BY <1>4, <3>1
  <2> QED
    BY <2>1
<1>8. Elems(f) = Elems(s) \cup {e}
  <2>1. \A i \in 1..n + 1 : f[i] \in Elems(s) \cup {e}
    BY <1>1, <1>4, <1>7 DEF Elems
  <2>2. ASSUME NEW i \in 1..n PROVE s[i] \in Elems(f)
    <3>1. i + 1 \in DOMAIN f
      BY <1>5
    <3> QED
      BY <1>4, <3>1 DEF Elems
  <2>3. e \in Elems(f)
    <3>1. 1 \in DOMAIN f
      BY <1>5
    <3> QED
      BY <1>4, <3>1 DEF Elems
  <2>4. Elems(f) \subseteq Elems(s) \cup {e}
    BY <1>5, <2>1 DEF Elems
  <2>5. Elems(s) \subseteq Elems(f)
    BY <1>1, <2>2 DEF Elems
  <2> QED
    BY <2>3, <2>4, <2>5
<1>9. ASSUME Once(s), e \notin Elems(s) PROVE Once(l) /\ Once(f)
  <2>1. \A i \in 1..n : s[i] # e
    BY <1>1, <1>9 DEF Elems
  <2>2. \A i, j \in 1..n : s[i] = s[j] => i = j
    BY <1>1, <1>9 DEF Once
  <2>3. \A i, j \in 1..n + 1 : l[i] = l[j] => i = j
    <3>1. \A i \in 1..n + 1 : i = n + 1 \/ i \in 1..n
      OBVIOUS
    <3> QED
      BY <1>2, <2>1, <2>2, <3>1
  <2>4. ASSUME NEW i \in 1..n + 1, NEW j \in 1..n + 1, f[i] = f[j] PROVE i = j
    <3>1. CASE i = 1 \/ j = 1
      BY <1>4, <1>7, <2>1, <2>4, <3>1
    <3>2. CASE i # 1 /\ j # 1
      <4>1. i - 1 \in 1..n /\ j - 1 \in 1..n /\ s[i - 1] = s[j - 1]
        BY <1>7, <2>4, <3>2
      <4>2. i - 1 = j - 1
        BY <2>2, <4>1
      <4> QED
        BY <4>2
    <3> QED
      BY <3>1, <3>2
  <2> QED
    BY <1>5, <2>3, <2>4 DEF Once
<1>10. ASSUME NEW a, NEW b, Before(s, a, b) PROVE Before(l, a, b)
  <2>1. PICK i \in 1..n, j \in 1..n : i < j /\ s[i] = a /\ s[j] = b
    BY <1>1, <1>10 DEF Before
  <2>2. i \in DOMAIN l /\ j \in DOMAIN l /\ l[i] = a /\ l[j] = b
    BY <1>2, <1>5, <2>1
  <2> QED
    BY <2>1, <2>2 DEF Before
<1>11. ASSUME NEW a \in Elems(s) PROVE Before(l, a, e)
  <2>1. PICK i \in 1..n : s[i] = a
    BY <1>1 DEF Elems
  <2>2. i \in DOMAIN l /\ n + 1 \in DOMAIN l /\ i < n + 1 /\ l[i] = a /\ l[n + 1] = e
    BY <1>2, <1>5, <2>1
  <2> QED
    BY <2>2 DEF Before
<1> QED
  BY <1>2, <1>4, <1>6, <1>8, <1>9, <1>10, <1>11

LEMMA BehindElems ==
  ASSUME NEW S, NEW s \in Seq(S), NEW e \in S, NEW l, Behind(l, s, e)
  PROVE  /\ l \in Seq(S) /\ Elems(l) = Elems(s) \cup {e}
         /\ Once(s) /\ e \notin Elems(s) => Once(l)
<1>1. PICK f : InFrontOf(f, s, e)
  BY DEF InFrontOf
<1> QED
  BY <1>1, AddedElems

LEMMA BehindBefore ==
  ASSUME NEW S, NEW s \in Seq(S), NEW e \in S, NEW l, Behind(l, s, e)
  PROVE  /\ \A a, b : Before(s, a, b) => Before(l, a, b)
         /\ \A a \in Elems(s) : Before(l, a, e)
<1>1. PICK f : InFrontOf(f, s, e)
  BY DEF InFrontOf
<1> QED
  BY <1>1, AddedElems

LEMMA InFrontElems ==
  ASSUME NEW S, NEW s \in Seq(S), NEW e \in S, NEW f, InFrontOf(f, s, e)
  PROVE  /\ f \in Seq(S) /\ Elems(f) = Elems(s) \cup {e}
         /\ Once(s) /\ e \notin Elems(s) => Once(f)
<1>1. PICK l : Behind(l, s, e)
  BY DEF Behind
<1> QED
  BY <1>1, AddedElems
=============================================================================
