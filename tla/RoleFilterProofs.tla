--------------------------- MODULE RoleFilterProofs ---------------------------
(***************************************************************************)
(* Which instances the role filter lists, for every list of roles and      *)
(* every filter: the two invariants of RoleFilter.                         *)
(*                                                                         *)
(* LIKE, and the concatenation of a list of texts, are recursive           *)
(* functions; what they return is found by induction. The induction is on  *)
(* sets of numbers, so that it can be used as a first-order fact.          *)
(***************************************************************************)
EXTENDS RoleFilter, WellFoundedInduction, TLAPS

-----------------------------------------------------------------------------
(* Characters *)

\* What columns and patterns are made of.
Chars == Letters \cup {"[", "]", Comma, Quote, Backslash, Percent, Underscore}

\* The provers see no more of a character than which others it is not.
LEMMA Characters ==
    /\ Quote # Backslash /\ Quote # Percent /\ Quote # Underscore
    /\ Quote # Comma /\ Quote # "[" /\ Quote # "]"
    /\ Backslash # Comma /\ Backslash # "[" /\ Backslash # "]"
BY Zenon DEF Quote, Backslash, Comma, Percent, Underscore

-----------------------------------------------------------------------------
(* Induction *)

LEMMA LeastNat ==
    ASSUME NEW T, T \subseteq Nat, T # {}
    PROVE  \E n \in T : \A m \in T : n <= m
<1> DEFINE R == OpToRel(<, Nat)
<1>1. IsWellFoundedOn(R, Nat)
  BY NatLessThanWellFounded
<1>2. \A y, x \in Nat : y < x => <<y, x>> \in R
  BY DEF OpToRel
<1> HIDE DEF R
<1>3. \E x \in T : \A y \in T : ~(<<y, x>> \in R)
  BY <1>1, WFMin, Zenon
<1>4. PICK x \in T : \A y \in T : ~(<<y, x>> \in R)
  BY <1>3
<1>5. \A y \in T : ~(y < x)
  BY <1>2, <1>4
<1> QED
  BY <1>5

\* Upwards from 1 to N.
LEMMA Upwards ==
    ASSUME NEW N \in Nat, NEW S,
           1 <= N => 1 \in S,
           \A n \in 1..(N - 1) : n \in S => n + 1 \in S
    PROVE  1..N \subseteq S
<1> DEFINE T == {n \in 1..N : n \notin S}
<1> SUFFICES ASSUME T # {} PROVE FALSE
  OBVIOUS
<1>1. T \subseteq Nat
  OBVIOUS
<1>2. PICK n \in T : \A m \in T : n <= m
  <2> HIDE DEF T
  <2> QED
    BY <1>1, LeastNat
<1>3. n \in 1..N /\ n \notin S /\ n # 1
  OBVIOUS
<1>4. n - 1 \in 1..(N - 1) /\ ~(n <= n - 1)
  BY <1>3
<1>5. n - 1 \in S
  BY <1>2, <1>4
<1> QED
  BY <1>3, <1>4, <1>5

\* Downwards from N to 1.
LEMMA Downwards ==
    ASSUME NEW N \in Nat, NEW S,
           N \in S,
           \A n \in 1..(N - 1) : n + 1 \in S => n \in S
    PROVE  1..N \subseteq S
<1> DEFINE T == {k \in Nat : k < N /\ N - k \notin S}
<1> SUFFICES ASSUME NEW n \in 1..N, n \notin S PROVE FALSE
  OBVIOUS
<1>1. N - n \in T
  OBVIOUS
<1>2. PICK k \in T : \A m \in T : k <= m
  <2>1. T \subseteq Nat /\ T # {}
    BY <1>1
  <2> HIDE DEF T
  <2> QED
    BY <2>1, LeastNat
<1>3. k \in Nat /\ k < N /\ N - k \notin S /\ k # 0
  OBVIOUS
<1>4. k - 1 \in Nat /\ k - 1 < N /\ ~(k <= k - 1)
  BY <1>3
<1>5. N - (k - 1) \in S
  BY <1>2, <1>4
<1>6. N - k \in 1..(N - 1) /\ (N - k) + 1 = N - (k - 1)
  BY <1>3
<1> QED
  BY <1>3, <1>5, <1>6

-----------------------------------------------------------------------------
(* LIKE *)

\* The recursive function inside Like.
Reached(text, pattern) ==
    CHOOSE f : f = [i \in 0..Len(pattern) |->
                      IF i = 0 THEN {0} ELSE After(text, pattern, i, f[i - 1])]

LEMMA LikeIsReached ==
    ASSUME NEW text, NEW pattern
    PROVE  Like(text, pattern)
              <=> Len(text) \in Reached(text, pattern)[Len(pattern)]
BY DEF Like, Reached

\* The recursion has a solution.
LEMMA ReachedIsAfter ==
    ASSUME NEW text, NEW pattern \in Seq(Chars)
    PROVE  /\ Reached(text, pattern)[0] = {0}
           /\ \A i \in 1..Len(pattern) :
                 Reached(text, pattern)[i]
                    = After(text, pattern, i, Reached(text, pattern)[i - 1])
<1> DEFINE m == Len(pattern)
           A(i, before) == After(text, pattern, i, before)
           Solves(f, n) ==
              \A i \in 0..m : i < n =>
                 f[i] = IF i = 0 THEN {0} ELSE A(i, f[i - 1])
           S == {n \in Nat : \E f : Solves(f, n)}
<1>1. m \in Nat
  OBVIOUS
<1> HIDE DEF m, A
<1>2. 1 \in S
  <2>1. Solves([i \in 0..m |-> {0}], 1)
    BY <1>1
  <2> QED
    BY <2>1
<1>3. ASSUME NEW n \in 1..(m + 1 - 1), n \in S PROVE n + 1 \in S
  <2>1. PICK f : Solves(f, n)
    BY <1>3
  <2> DEFINE g == [i \in 0..m |-> IF i < n THEN f[i] ELSE A(n, f[n - 1])]
  <2>2. \A i \in 0..m : i < n => g[i] = f[i]
    BY <1>1
  <2>3. g[n] = A(n, f[n - 1]) /\ f[n - 1] = g[n - 1]
    BY <1>1, <1>3
  <2> HIDE DEF g
  <2>4. ASSUME NEW i \in 0..m, i < n + 1
        PROVE  g[i] = IF i = 0 THEN {0} ELSE A(i, g[i - 1])
    <3>1. CASE i = n
      BY <1>1, <2>3, <3>1
    <3>2. CASE i < n
      <4>1. g[i] = f[i] /\ (i # 0 => g[i - 1] = f[i - 1])
        BY <1>1, <2>2, <3>2
      <4> QED
        BY <2>1, <3>2, <4>1
    <3> QED
      BY <1>1, <2>4, <3>1, <3>2
  <2>5. Solves(g, n + 1)
    BY <2>4
  <2> QED
    BY <1>1, <2>5
<1>4. m + 1 \in S
  <2> HIDE DEF S
  <2> QED
    BY <1>1, <1>2, <1>3, Upwards
<1>5. PICK f : Solves(f, m + 1)
  BY <1>4
<1> DEFINE g == [i \in 0..m |-> f[i]]
<1>6. g = [i \in 0..m |-> IF i = 0 THEN {0} ELSE A(i, g[i - 1])]
  <2>1. ASSUME NEW i \in 0..m
        PROVE  f[i] = IF i = 0 THEN {0} ELSE A(i, g[i - 1])
    <3>1. i # 0 => g[i - 1] = f[i - 1]
      BY <1>1
    <3> QED
      BY <1>1, <1>5, <3>1
  <2> QED
    BY <2>1
<1> HIDE DEF g
<1>7. \E h : h = [i \in 0..m |-> IF i = 0 THEN {0} ELSE A(i, h[i - 1])]
  BY <1>6
<1> DEFINE r == Reached(text, pattern)
<1>8. r = [i \in 0..m |-> IF i = 0 THEN {0} ELSE A(i, r[i - 1])]
  BY <1>7 DEF Reached, m, A
<1> HIDE DEF r
<1>9. r[0] = {0} /\ \A i \in 1..m : r[i] = A(i, r[i - 1])
  BY <1>1, <1>8
<1> QED
  BY <1>9 DEF r, m, A

Quoted(role) == <<Quote>> \o role \o <<Quote>>

LEMMA PatternIsQuoted ==
    ASSUME NEW role \in Seq(Chars)
    PROVE  /\ Pattern(role) \in Seq(Chars)
           /\ Quoted(role) \in Seq(Chars)
           /\ Len(Quoted(role)) = Len(role) + 2
           /\ Len(Pattern(role)) = Len(role) + 4
           /\ Pattern(role)[1] = Percent
           /\ Pattern(role)[Len(role) + 4] = Percent
           /\ \A k \in 1..(Len(role) + 2) :
                 Pattern(role)[k + 1] = Quoted(role)[k]
           /\ Quoted(role)[1] = Quote
           /\ Quoted(role)[Len(role) + 2] = Quote
           /\ \A k \in 1..Len(role) : Quoted(role)[k + 1] = role[k]
<1>1. Quote \in Chars /\ Percent \in Chars
  BY DEF Chars
<1> QED
  BY <1>1 DEF Pattern, Quoted

\* The text w is a part of text, from o + 1 on.
At(text, w, o) ==
    /\ o \in Nat
    /\ o + Len(w) <= Len(text)
    /\ \A k \in 1..Len(w) : text[o + k] = w[k]

\* A text that contains the role between quotes is matched, whatever wildcards
\* the role contains.
LEMMA LikeFindsQuoted ==
    ASSUME NEW text \in Seq(Chars), NEW role \in Seq(Chars), NEW o,
           At(text, Quoted(role), o)
    PROVE  Like(text, Pattern(role))
<1> DEFINE pattern == Pattern(role)
           n == Len(role) + 2
           r == Reached(text, pattern)
           S == {k \in Nat : o + k - 1 \in r[k]}
<1>1. pattern \in Seq(Chars) /\ n \in Nat /\ Len(pattern) = n + 2
  BY PatternIsQuoted
<1>2. /\ pattern[1] = Percent
      /\ pattern[n + 2] = Percent
      /\ \A k \in 1..n : pattern[k + 1] = Quoted(role)[k]
      /\ Len(Quoted(role)) = n
  BY PatternIsQuoted
<1>3. r[0] = {0} /\ \A i \in 1..(n + 2) : r[i] = After(text, pattern, i, r[i - 1])
  BY <1>1, ReachedIsAfter
<1>4. /\ o \in Nat
      /\ o + n <= Len(text)
      /\ \A k \in 1..n : text[o + k] = pattern[k + 1]
  BY <1>2 DEF At
<1> HIDE DEF pattern, n, r
<1>5. 1 \in S
  <2>1. r[1] = After(text, pattern, 1, {0})
    <3>1. 1 \in 1..(n + 2) /\ 1 - 1 = 0
      BY <1>1
    <3> QED
      BY <1>3, <3>1
  <2>2. o \in r[1]
    BY <1>1, <1>2, <1>4, <2>1 DEF After
  <2> QED
    BY <1>4, <2>2
<1>6. ASSUME NEW k \in 1..n, k \in S PROVE k + 1 \in S
  <2>1. r[k + 1] = After(text, pattern, k + 1, r[k])
    BY <1>1, <1>3
  <2>2. o + k \in 1..Len(text) /\ o + k \in 0..Len(text) /\ o + k - 1 <= o + k
    BY <1>1, <1>4
  <2>3. o + k \in r[k + 1]
    BY <1>4, <1>6, <2>1, <2>2 DEF After
  <2> QED
    BY <1>1, <1>4, <2>3
<1>7. n + 1 \in S
  <2> DEFINE N == n + 1
  <2>1. N \in Nat /\ N \in 1..N /\ \A k \in 1..(N - 1) : k \in S => k + 1 \in S
    BY <1>1, <1>6
  <2> HIDE DEF S, N
  <2>2. 1..N \subseteq S
    BY <1>5, <2>1, Upwards
  <2> QED
    BY <2>1, <2>2 DEF N
<1>8. o + n \in r[n + 1]
  BY <1>1, <1>4, <1>7
<1>9. r[n + 2] = After(text, pattern, n + 2, r[n + 1])
  BY <1>1, <1>3
<1>10. Len(text) \in r[n + 2]
  BY <1>1, <1>2, <1>4, <1>8, <1>9 DEF After
<1> QED
  BY <1>1, <1>10, LikeIsReached DEF r, pattern

\* What is matched contains the role between quotes, up to case, if the role
\* has no wildcard.
LEMMA LikeIsQuoted ==
    ASSUME NEW text \in Seq(Chars), NEW role \in Seq(Chars),
           ~Has(role, {Percent, Underscore}), Like(text, Pattern(role))
    PROVE  \E o \in Nat :
              /\ o + Len(role) + 2 <= Len(text)
              /\ \A k \in 1..(Len(role) + 2) :
                    Lower(text[o + k]) = Lower(Quoted(role)[k])
<1> DEFINE pattern == Pattern(role)
           q == Quoted(role)
           n == Len(role) + 2
           r == Reached(text, pattern)
<1>1. pattern \in Seq(Chars) /\ n \in Nat /\ Len(pattern) = n + 2
  BY PatternIsQuoted
<1>2. /\ pattern[n + 2] = Percent
      /\ \A k \in 1..n : pattern[k + 1] = q[k]
  BY PatternIsQuoted
<1>3. \A k \in 1..n : q[k] # Percent /\ q[k] # Underscore
  <2> SUFFICES ASSUME NEW k \in 1..n PROVE q[k] # Percent /\ q[k] # Underscore
    OBVIOUS
  <2>1. CASE k = 1 \/ k = n
    BY <2>1, PatternIsQuoted, Characters
  <2>2. CASE k # 1 /\ k # n
    <3>1. k - 1 \in 1..Len(role) /\ (k - 1) + 1 = k
      BY <2>2
    <3>2. q[k] = role[k - 1]
      BY <3>1, PatternIsQuoted
    <3> QED
      BY <3>1, <3>2 DEF Has
  <2> QED
    BY <2>1, <2>2
<1>4. \A i \in 1..(n + 2) : r[i] = After(text, pattern, i, r[i - 1])
  BY <1>1, ReachedIsAfter
<1>5. Len(text) \in r[n + 2]
  BY <1>1, LikeIsReached
<1>0. r[n + 2] = After(text, pattern, n + 2, r[n + 1])
  <2>1. n + 2 \in 1..(n + 2) /\ n + 2 - 1 = n + 1
    BY <1>1
  <2> QED
    BY <1>4, <2>1
<1> HIDE DEF pattern, n, q, r
<1>6. PICK e \in r[n + 1] : e <= Len(text)
  BY <1>0, <1>2, <1>5 DEF After
\* Backwards from e, one character of the pattern matches one of the text.
<1>7. ASSUME NEW k \in 1..n, NEW j \in r[k + 1]
      PROVE  /\ j \in 1..Len(text)
             /\ j - 1 \in r[k]
             /\ Lower(text[j]) = Lower(q[k])
  <2>1. r[k + 1] = After(text, pattern, k + 1, r[k])
    BY <1>1, <1>4
  <2>2. pattern[k + 1] = q[k] /\ q[k] # Percent /\ q[k] # Underscore
    BY <1>2, <1>3
  <2> QED
    BY <1>7, <2>1, <2>2 DEF After
<1> DEFINE S == {k \in Nat : e - (n + 1 - k) \in r[k]}
<1>8. n \in Nat /\ n >= 2
  BY DEF n
<1>9. e \in 1..Len(text)
  <2>1. n \in 1..n
    BY <1>8
  <2> QED
    BY <1>6, <1>7, <2>1
<1>10. 1..(n + 1) \subseteq S
  <2>1. n + 1 \in S
    BY <1>6, <1>8, <1>9
  <2>2. ASSUME NEW k \in 1..(n + 1 - 1), k + 1 \in S PROVE k \in S
    <3>1. k \in 1..n /\ e - (n - k) \in r[k + 1]
      BY <1>8, <1>9, <2>2
    <3>2. e - (n - k) - 1 \in r[k]
      BY <1>7, <3>1
    <3>3. e - (n - k) - 1 = e - (n + 1 - k)
      BY <1>8, <1>9
    <3> QED
      BY <3>2, <3>3
  <2> HIDE DEF S
  <2> QED
    BY <1>8, <2>1, <2>2, Downwards
<1>11. \A k \in 1..n : /\ e - (n - k) \in 1..Len(text)
                      /\ Lower(text[e - (n - k)]) = Lower(q[k])
  <2> SUFFICES ASSUME NEW k \in 1..n
               PROVE  /\ e - (n - k) \in 1..Len(text)
                      /\ Lower(text[e - (n - k)]) = Lower(q[k])
    OBVIOUS
  <2>1. k + 1 \in S
    BY <1>8, <1>10
  <2>2. e - (n - k) \in r[k + 1]
    BY <1>8, <1>9, <2>1
  <2> QED
    BY <1>7, <2>2
<1>12. e - n \in Nat
  BY <1>8, <1>9, <1>11
<1>13. \A k \in 1..n : (e - n) + k = e - (n - k)
  BY <1>8, <1>9
<1>14. (e - n) + n <= Len(text)
  BY <1>8, <1>9
<1>15. \E o \in Nat : /\ o + n <= Len(text)
                     /\ \A k \in 1..n : Lower(text[o + k]) = Lower(q[k])
  BY <1>11, <1>12, <1>13, <1>14
<1>16. \A o \in Nat : o + n = o + Len(role) + 2
  BY DEF n
<1> QED
  BY <1>15, <1>16 DEF n, q

-----------------------------------------------------------------------------
(* Joined texts *)

\* Concatenation, under a name that the provers leave alone.
Cat(s, t) == s \o t

\* The recursive function inside FlattenSeq.
Joined(seqs) ==
    CHOOSE f : f = [i \in 1..Len(seqs) |->
                      IF i = 1 THEN seqs[i] ELSE Cat(f[i - 1], seqs[i])]

LEMMA FlattenIsJoined ==
    ASSUME NEW seqs
    PROVE  FlattenSeq(seqs)
              = IF Len(seqs) = 0 THEN seqs ELSE Joined(seqs)[Len(seqs)]
BY DEF FlattenSeq, Joined, Cat

\* The recursion has a solution.
LEMMA JoinedIsAppended ==
    ASSUME NEW E, NEW seqs \in Seq(Seq(E))
    PROVE  /\ Len(seqs) # 0 => Joined(seqs)[1] = seqs[1]
           /\ \A n \in 1..(Len(seqs) - 1) :
                 Joined(seqs)[n + 1] = Cat(Joined(seqs)[n], seqs[n + 1])
<1> DEFINE m == Len(seqs)
           Solves(f, n) ==
              \A i \in 1..m : i <= n =>
                 f[i] = IF i = 1 THEN seqs[i] ELSE Cat(f[i - 1], seqs[i])
           S == {n \in Nat : \E f : Solves(f, n)}
<1>1. m \in Nat
  OBVIOUS
<1> HIDE DEF m
<1>2. 1 \in S
  <2>1. Solves([i \in 1..m |-> seqs[1]], 1)
    BY <1>1
  <2> QED
    BY <2>1
<1>3. ASSUME NEW n \in 1..(m - 1), n \in S PROVE n + 1 \in S
  <2>1. PICK f : Solves(f, n)
    BY <1>3
  <2> DEFINE g == [i \in 1..m |-> IF i <= n THEN f[i] ELSE Cat(f[n], seqs[i])]
  <2>2. \A i \in 1..m : i <= n => g[i] = f[i]
    BY <1>1
  <2>3. g[n + 1] = Cat(f[n], seqs[n + 1]) /\ f[n] = g[n]
    BY <1>1, <1>3
  <2> HIDE DEF g
  <2>4. ASSUME NEW i \in 1..m, i <= n + 1
        PROVE  g[i] = IF i = 1 THEN seqs[i] ELSE Cat(g[i - 1], seqs[i])
    <3>1. CASE i = n + 1
      BY <1>1, <2>3, <3>1
    <3>2. CASE i <= n
      <4>0. i # 1 => i - 1 \in 1..m /\ i - 1 <= n
        BY <1>1, <3>2
      <4>1. g[i] = f[i] /\ (i # 1 => g[i - 1] = f[i - 1])
        BY <2>2, <3>2, <4>0
      <4> QED
        BY <2>1, <3>2, <4>1
    <3> QED
      BY <1>1, <2>4, <3>1, <3>2
  <2>5. Solves(g, n + 1)
    BY <2>4
  <2> QED
    BY <1>1, <2>5
<1>4. \E f : Solves(f, m)
  <2>1. CASE m = 0
    BY <2>1
  <2>2. CASE m # 0
    <3>1. 1..m \subseteq S
      <4> HIDE DEF S
      <4> QED
        BY <1>1, <1>2, <1>3, Upwards
    <3> QED
      BY <1>1, <2>2, <3>1
  <2> QED
    BY <2>1, <2>2
<1>5. PICK f : Solves(f, m)
  BY <1>4
<1> DEFINE g == [i \in 1..m |-> f[i]]
<1>6. g = [i \in 1..m |-> IF i = 1 THEN seqs[i] ELSE Cat(g[i - 1], seqs[i])]
  <2>1. ASSUME NEW i \in 1..m
        PROVE  f[i] = IF i = 1 THEN seqs[i] ELSE Cat(g[i - 1], seqs[i])
    <3>1. i # 1 => g[i - 1] = f[i - 1]
      BY <1>1
    <3> QED
      BY <1>1, <1>5, <3>1
  <2> QED
    BY <2>1
<1> HIDE DEF g
<1>7. \E h : h = [i \in 1..m |-> IF i = 1 THEN seqs[i] ELSE Cat(h[i - 1], seqs[i])]
  BY <1>6
<1> DEFINE r == Joined(seqs)
<1>8. r = [i \in 1..m |-> IF i = 1 THEN seqs[i] ELSE Cat(r[i - 1], seqs[i])]
  BY <1>7 DEF Joined, m
<1> HIDE DEF r
<1>9. m # 0 => r[1] = seqs[1]
  BY <1>1, <1>8
<1>10. ASSUME NEW n \in 1..(m - 1) PROVE r[n + 1] = Cat(r[n], seqs[n + 1])
  <2>1. n + 1 \in 1..m /\ n + 1 # 1 /\ n + 1 - 1 = n
    BY <1>1
  <2> QED
    <3> DEFINE l == n + 1
    <3>1. l \in 1..m /\ l # 1 /\ l - 1 = n
      BY <2>1
    <3> HIDE DEF l
    <3>2. r[l] = Cat(r[l - 1], seqs[l])
      BY <1>8, <3>1
    <3> QED
      BY <3>1, <3>2 DEF l
<1> QED
  BY <1>9, <1>10 DEF r, m

LEMMA JoinedType ==
    ASSUME NEW E, NEW seqs \in Seq(Seq(E))
    PROVE  \A i \in 1..Len(seqs) : Joined(seqs)[i] \in Seq(E)
<1> DEFINE m == Len(seqs)
           r == Joined(seqs)
           S == {i \in 1..m : r[i] \in Seq(E)}
<1>1. m \in Nat
  OBVIOUS
<1>2. /\ m # 0 => r[1] = seqs[1]
      /\ \A n \in 1..(m - 1) : r[n + 1] = Cat(r[n], seqs[n + 1])
  BY JoinedIsAppended
<1>3. \A i \in 1..m : seqs[i] \in Seq(E)
  OBVIOUS
<1> HIDE DEF m, r
<1>4. 1 <= m => 1 \in S
  BY <1>1, <1>2, <1>3
<1>5. ASSUME NEW n \in 1..(m - 1), n \in S PROVE n + 1 \in S
  <2>1. n + 1 \in 1..m
    BY <1>1
  <2>2. r[n + 1] = Cat(r[n], seqs[n + 1])
    BY <1>2
  <2>3. r[n] \in Seq(E) /\ seqs[n + 1] \in Seq(E)
    BY <1>3, <1>5, <2>1
  <2>4. Cat(r[n], seqs[n + 1]) \in Seq(E)
    BY <2>3 DEF Cat
  <2> QED
    BY <2>1, <2>2, <2>4
<1>6. 1..m \subseteq S
  <2> HIDE DEF S
  <2> QED
    BY <1>1, <1>4, <1>5, Upwards
<1> QED
  BY <1>6 DEF m, r

\* Where a text is a part of a longer one.
LEMMA AtLeft ==
    ASSUME NEW E, NEW s \in Seq(E), NEW t \in Seq(E), NEW w \in Seq(E),
           NEW o, At(s, w, o)
    PROVE  At(Cat(s, t), w, o)
BY DEF At, Cat

LEMMA AtRight ==
    ASSUME NEW E, NEW s \in Seq(E), NEW t \in Seq(E), NEW w \in Seq(E),
           NEW o, At(t, w, o)
    PROVE  At(Cat(s, t), w, Len(s) + o)
<1>1. /\ Len(s) \in Nat /\ Len(Cat(s, t)) = Len(s) + Len(t) /\ Len(w) \in Nat
      /\ o \in Nat /\ o + Len(w) <= Len(t)
  BY DEF At, Cat
<1>2. ASSUME NEW k \in 1..Len(w) PROVE Cat(s, t)[Len(s) + o + k] = w[k]
  <2>1. o + k \in 1..Len(t) /\ Len(s) + o + k = Len(s) + (o + k)
    BY <1>1
  <2>2. Cat(s, t)[Len(s) + (o + k)] = t[o + k]
    BY <2>1 DEF Cat
  <2> QED
    BY <2>1, <2>2 DEF At
<1> QED
  BY <1>1, <1>2 DEF At

\* Every part of a flattened list is in it.
LEMMA FlattenHasParts ==
    ASSUME NEW E, NEW seqs \in Seq(Seq(E)), NEW i \in 1..Len(seqs)
    PROVE  \E o : At(FlattenSeq(seqs), seqs[i], o)
<1> DEFINE m == Len(seqs)
           r == Joined(seqs)
           S == {n \in 1..m : \A l \in 1..n : \E o : At(r[n], seqs[l], o)}
<1>1. m \in Nat /\ i \in 1..m
  OBVIOUS
<1>2. /\ m # 0 => r[1] = seqs[1]
      /\ \A n \in 1..(m - 1) : r[n + 1] = Cat(r[n], seqs[n + 1])
  BY JoinedIsAppended
<1>3. \A n \in 1..m : seqs[n] \in Seq(E) /\ r[n] \in Seq(E)
  BY JoinedType
<1>4. \A w \in Seq(E) : At(w, w, 0)
  BY DEF At
<1>5. FlattenSeq(seqs) = r[m]
  BY FlattenIsJoined
<1> HIDE DEF m, r
<1>6. 1 <= m => 1 \in S
  <2>1. \A l \in 1..1 : l = 1
    OBVIOUS
  <2> QED
    BY <1>1, <1>2, <1>3, <1>4, <2>1
<1>7. ASSUME NEW n \in 1..(m - 1), n \in S PROVE n + 1 \in S
  <2>1. n + 1 \in 1..m /\ n \in 1..m
    BY <1>1
  <2>2. r[n + 1] = Cat(r[n], seqs[n + 1])
    BY <1>2
  <2>3. ASSUME NEW l \in 1..(n + 1) PROVE \E o : At(r[n + 1], seqs[l], o)
    <3>1. CASE l = n + 1
      <4>1. At(seqs[n + 1], seqs[n + 1], 0)
        BY <1>3, <1>4, <2>1
      <4>2. At(Cat(r[n], seqs[n + 1]), seqs[n + 1], Len(r[n]) + 0)
        BY <1>3, <2>1, <4>1, AtRight
      <4> QED
        BY <2>2, <3>1, <4>2
    <3>2. CASE l # n + 1
      <4>1. l \in 1..n /\ l \in 1..m
        BY <1>1, <3>2
      <4>2. PICK o : At(r[n], seqs[l], o)
        BY <1>7, <4>1
      <4>3. At(Cat(r[n], seqs[n + 1]), seqs[l], o)
        BY <1>3, <2>1, <4>1, <4>2, AtLeft
      <4> QED
        BY <2>2, <4>3
    <3> QED
      BY <3>1, <3>2
  <2> QED
    BY <2>1, <2>3
<1>8. 1..m \subseteq S
  <2> HIDE DEF S
  <2> QED
    BY <1>1, <1>6, <1>7, Upwards
<1>9. m \in 1..m
  BY <1>1
<1> QED
  BY <1>1, <1>5, <1>8, <1>9 DEF m

\* A flattened list has no other characters than its parts.
LEMMA FlattenHasNoMore ==
    ASSUME NEW E, NEW seqs \in Seq(Seq(E)), NEW c,
           \A i \in 1..Len(seqs) : \A k \in 1..Len(seqs[i]) : seqs[i][k] # c
    PROVE  /\ FlattenSeq(seqs) \in Seq(E)
           /\ \A k \in 1..Len(FlattenSeq(seqs)) : FlattenSeq(seqs)[k] # c
<1> DEFINE m == Len(seqs)
           r == Joined(seqs)
           Free(w) == \A k \in 1..Len(w) : w[k] # c
           S == {n \in 1..m : Free(r[n])}
<1>1. m \in Nat
  OBVIOUS
<1>2. /\ m # 0 => r[1] = seqs[1]
      /\ \A n \in 1..(m - 1) : r[n + 1] = Cat(r[n], seqs[n + 1])
  BY JoinedIsAppended
<1>3. \A n \in 1..m : seqs[n] \in Seq(E) /\ r[n] \in Seq(E)
  BY JoinedType
<1>4. \A n \in 1..m : Free(seqs[n])
  OBVIOUS
<1>5. \A v, w \in Seq(E) : Free(v) /\ Free(w) => Free(Cat(v, w))
  BY DEF Cat
<1>6. FlattenSeq(seqs) = IF m = 0 THEN seqs ELSE r[m]
  BY FlattenIsJoined
<1>7. m = 0 => seqs \in Seq(E) /\ Free(seqs)
  OBVIOUS
<1> HIDE DEF m, r, Free
<1>8. 1 <= m => 1 \in S
  BY <1>1, <1>2, <1>4
<1>9. ASSUME NEW n \in 1..(m - 1), n \in S PROVE n + 1 \in S
  <2>1. n + 1 \in 1..m /\ n \in 1..m
    BY <1>1
  <2>2. r[n + 1] = Cat(r[n], seqs[n + 1])
    BY <1>2
  <2> QED
    BY <1>3, <1>4, <1>5, <1>9, <2>1, <2>2
<1>10. 1..m \subseteq S
  <2> HIDE DEF S
  <2> QED
    BY <1>1, <1>8, <1>9, Upwards
<1>11. m # 0 => r[m] \in Seq(E) /\ Free(r[m])
  BY <1>1, <1>3, <1>10
<1>12. FlattenSeq(seqs) \in Seq(E) /\ Free(FlattenSeq(seqs))
  BY <1>6, <1>7, <1>11
<1> QED
  BY <1>12 DEF Free

LEMMA CatIs ==
    ASSUME NEW E, NEW s \in Seq(E), NEW t \in Seq(E)
    PROVE  /\ Len(Cat(s, t)) = Len(s) + Len(t)
           /\ \A k \in 1..Len(s) : Cat(s, t)[k] = s[k]
           /\ \A k \in 1..Len(t) : Cat(s, t)[Len(s) + k] = t[k]
BY DEF Cat

LEMMA CatType ==
    ASSUME NEW E
    PROVE  \A v, w \in Seq(E) : Cat(v, w) \in Seq(E)
BY DEF Cat

LEMMA CatOne ==
    ASSUME NEW E
    PROVE  \A v, w \in Seq(E) : Len(w) = 1 =>
              /\ Len(Cat(v, w)) = Len(v) + 1
              /\ Cat(v, w)[Len(v) + 1] = w[1]
              /\ \A k \in 1..Len(v) : Cat(v, w)[k] = v[k]
<1> SUFFICES ASSUME NEW v \in Seq(E), NEW w \in Seq(E)
             PROVE  Len(w) = 1 =>
                       /\ Len(Cat(v, w)) = Len(v) + 1
                       /\ Cat(v, w)[Len(v) + 1] = w[1]
                       /\ \A k \in 1..Len(v) : Cat(v, w)[k] = v[k]
  OBVIOUS
<1>1. /\ Len(Cat(v, w)) = Len(v) + Len(w)
      /\ \A k \in 1..Len(v) : Cat(v, w)[k] = v[k]
      /\ \A k \in 1..Len(w) : Cat(v, w)[Len(v) + k] = w[k]
  BY CatIs
<1> QED
  BY <1>1

\* A list of single characters flattens to the text they make.
LEMMA FlattenSingles ==
    ASSUME NEW E, NEW text \in Seq(E), NEW seqs \in Seq(Seq(E)),
           Len(seqs) = Len(text),
           \A i \in 1..Len(text) : Len(seqs[i]) = 1 /\ seqs[i][1] = text[i]
    PROVE  FlattenSeq(seqs) = text
<1> DEFINE m == Len(seqs)
           r == Joined(seqs)
           S == {n \in 1..m : Len(r[n]) = n /\ \A k \in 1..n : r[n][k] = text[k]}
<1>1. m \in Nat /\ m = Len(text)
  OBVIOUS
<1>2. /\ m # 0 => r[1] = seqs[1]
      /\ \A n \in 1..(m - 1) : r[n + 1] = Cat(r[n], seqs[n + 1])
  BY JoinedIsAppended
<1>3. \A n \in 1..m : /\ seqs[n] \in Seq(E) /\ r[n] \in Seq(E)
                     /\ Len(seqs[n]) = 1 /\ seqs[n][1] = text[n]
  BY JoinedType
<1>4. FlattenSeq(seqs) = IF m = 0 THEN seqs ELSE r[m]
  BY FlattenIsJoined
<1>5. m = 0 => seqs = text
  <2>1. Len(seqs) = 0 => seqs = <<>>
    OBVIOUS
  <2>2. Len(text) = 0 => text = <<>>
    OBVIOUS
  <2> QED
    BY <1>1, <2>1, <2>2
<1> HIDE DEF m, r
<1>6. 1 <= m => 1 \in S
  <2> SUFFICES ASSUME 1 <= m PROVE 1 \in S
    OBVIOUS
  <2>1. 1 \in 1..m /\ Len(r[1]) = 1 /\ r[1][1] = text[1]
    BY <1>1, <1>2, <1>3
  <2>2. \A k \in 1..1 : k = 1
    OBVIOUS
  <2> QED
    BY <2>1, <2>2
<1>7. ASSUME NEW n \in 1..(m - 1), n \in S PROVE n + 1 \in S
  <2>1. n + 1 \in 1..m /\ n \in 1..m
    BY <1>1
  <2>2. r[n + 1] = Cat(r[n], seqs[n + 1]) /\ seqs[n + 1][1] = text[n + 1]
    BY <1>2, <1>3, <2>1
  <2>3. Len(r[n]) = n /\ \A k \in 1..n : r[n][k] = text[k]
    BY <1>7
  <2>4. r[n] \in Seq(E) /\ seqs[n + 1] \in Seq(E) /\ Len(seqs[n + 1]) = 1
    BY <1>3, <2>1
  <2>5. Len(r[n + 1]) = n + 1 /\ r[n + 1][n + 1] = seqs[n + 1][1]
    BY <2>2, <2>3, <2>4, CatOne
  <2>6. ASSUME NEW k \in 1..(n + 1) PROVE r[n + 1][k] = text[k]
    <3>1. CASE k = n + 1
      BY <2>2, <2>5, <3>1
    <3>2. CASE k # n + 1
      <4>1. k \in 1..n
        BY <3>2
      <4>2. \A j \in 1..Len(r[n]) : Cat(r[n], seqs[n + 1])[j] = r[n][j]
        BY <2>4, CatOne
      <4>3. Cat(r[n], seqs[n + 1])[k] = r[n][k]
        BY <2>3, <4>1, <4>2
      <4> QED
        BY <2>2, <2>3, <4>1, <4>3
    <3> QED
      BY <3>1, <3>2
  <2> QED
    BY <2>1, <2>5, <2>6
<1>8. 1..m \subseteq S
  <2> HIDE DEF S
  <2> QED
    BY <1>1, <1>6, <1>7, Upwards
<1>9. m # 0 => r[m] = text
  <2> SUFFICES ASSUME m # 0 PROVE r[m] = text
    OBVIOUS
  <2>1. m \in S /\ m \in 1..m
    BY <1>1, <1>8
  <2>2. r[m] \in Seq(E) /\ Len(r[m]) = Len(text)
    BY <1>1, <1>3, <2>1
  <2>3. \A k \in 1..Len(text) : r[m][k] = text[k]
    BY <1>1, <2>1
  <2> DEFINE w == r[m]
  <2>4. /\ w = [k \in 1..Len(w) |-> w[k]]
        /\ text = [k \in 1..Len(text) |-> text[k]]
    <3> HIDE DEF w
    <3>1. w \in Seq(E)
      BY <2>2 DEF w
    <3> QED
      BY <3>1
  <2> HIDE DEF w
  <2> QED
    BY <2>2, <2>3, <2>4 DEF w
<1> QED
  BY <1>4, <1>5, <1>9

LEMMA FlattenType ==
    ASSUME NEW E, NEW seqs \in Seq(Seq(E))
    PROVE  FlattenSeq(seqs) \in Seq(E)
<1>1. CASE Len(seqs) = 0
  <2>1. FlattenSeq(seqs) = seqs
    BY <1>1, FlattenIsJoined
  <2>2. seqs \in Seq(E)
    BY <1>1
  <2> QED
    BY <2>1, <2>2
<1>2. CASE Len(seqs) # 0
  <2>1. FlattenSeq(seqs) = Joined(seqs)[Len(seqs)]
    BY <1>2, FlattenIsJoined
  <2>2. Len(seqs) \in 1..Len(seqs)
    BY <1>2
  <2> QED
    BY <2>1, <2>2, JoinedType
<1> QED
  BY <1>1, <1>2

-----------------------------------------------------------------------------
(* The text of a role *)

Escapes(role) == [i \in DOMAIN role |-> Escaped(role[i])]

LEMMA RoleIsQuoted ==
    ASSUME NEW role
    PROVE  RoleText(role) = Quoted(FlattenSeq(Escapes(role)))
BY DEF RoleText, Quoted, Escapes

LEMMA EscapesType ==
    ASSUME NEW role \in Seq(Chars)
    PROVE  /\ Escapes(role) \in Seq(Seq(Chars))
           /\ Len(Escapes(role)) = Len(role)
           /\ \A i \in 1..Len(role) : Escapes(role)[i] = Escaped(role[i])
<1>1. \A c \in Chars : Escaped(c) \in Seq(Chars)
  <2>1. Backslash \in Chars
    BY DEF Chars
  <2> QED
    BY <2>1 DEF Escaped
<1>2. Len(role) \in Nat /\ DOMAIN role = 1..Len(role)
  OBVIOUS
<1>3. \A i \in 1..Len(role) : Escaped(role[i]) \in Seq(Chars)
  BY <1>1
<1> HIDE DEF Escaped
<1> QED
  BY <1>2, <1>3 DEF Escapes

\* A role without quotes and backslashes is written as it is.
LEMMA PlainRole ==
    ASSUME NEW role \in Seq(Chars),
           \A k \in 1..Len(role) : role[k] # Quote /\ role[k] # Backslash
    PROVE  FlattenSeq(Escapes(role)) = role
<1>1. ASSUME NEW i \in 1..Len(role)
      PROVE  Len(Escapes(role)[i]) = 1 /\ Escapes(role)[i][1] = role[i]
  <2>1. Escapes(role)[i] = <<role[i]>>
    BY EscapesType DEF Escaped
  <2> QED
    BY <2>1
<1>2. Escapes(role) \in Seq(Seq(Chars)) /\ Len(Escapes(role)) = Len(role)
  BY EscapesType
<1> QED
  BY <1>1, <1>2, FlattenSingles

\* What a role without quotes is written as has no quotes in it, and no
\* backslash either only if it is the role itself.
LEMMA EscapedRole ==
    ASSUME NEW role \in Seq(Chars),
           \A k \in 1..Len(role) : role[k] # Quote
    PROVE  LET text == FlattenSeq(Escapes(role))
           IN  /\ text \in Seq(Chars)
               /\ \A k \in 1..Len(text) : text[k] # Quote
               /\ (\A k \in 1..Len(text) : text[k] # Backslash) => text = role
<1> DEFINE seqs == Escapes(role)
           text == FlattenSeq(seqs)
<1>1. seqs \in Seq(Seq(Chars)) /\ Len(seqs) = Len(role)
  BY EscapesType
<1>2. \A i \in 1..Len(role) : seqs[i] = Escaped(role[i])
  BY EscapesType
<1>3. text \in Seq(Chars)
  BY <1>1, FlattenType
<1>4. \A k \in 1..Len(text) : text[k] # Quote
  <2>1. ASSUME NEW i \in 1..Len(seqs), NEW k \in 1..Len(seqs[i])
        PROVE  seqs[i][k] # Quote
    <3>1. seqs[i] = Escaped(role[i]) /\ role[i] # Quote
      BY <1>1, <1>2
    <3>2. CASE role[i] = Backslash
      <4>1. seqs[i] = <<Backslash, Backslash>>
        BY <3>1, <3>2 DEF Escaped
      <4>2. /\ Len(seqs[i]) = 2
            /\ seqs[i][1] = Backslash /\ seqs[i][2] = Backslash
        BY <4>1
      <4> HIDE DEF seqs
      <4>3. k = 1 \/ k = 2
        BY <4>2
      <4> QED
        BY <4>2, <4>3, Characters
    <3>3. CASE role[i] # Backslash
      BY <3>1, <3>3 DEF Escaped
    <3> QED
      BY <3>2, <3>3
  <2> HIDE DEF seqs
  <2> QED
    BY <1>1, <2>1, FlattenHasNoMore
<1>5. ASSUME \A k \in 1..Len(text) : text[k] # Backslash PROVE text = role
  <2>1. ASSUME NEW i \in 1..Len(role), role[i] = Backslash PROVE FALSE
    <3>1. PICK o : At(text, seqs[i], o)
      BY <1>1, FlattenHasParts
    <3>2. seqs[i] = <<Backslash, Backslash>>
      BY <1>2, <2>1 DEF Escaped
    <3>3. Len(seqs[i]) = 2 /\ seqs[i][1] = Backslash
      BY <3>2
    <3> HIDE DEF seqs, text
    <3>4. o + 1 \in 1..Len(text) /\ text[o + 1] = Backslash
      BY <1>3, <3>1, <3>3 DEF At
    <3> QED
      BY <1>5, <3>4
  <2>2. \A k \in 1..Len(role) : role[k] # Quote /\ role[k] # Backslash
    BY <2>1
  <2> QED
    BY <2>2, PlainRole
<1> QED
  BY <1>3, <1>4, <1>5

-----------------------------------------------------------------------------
(* The column *)

LEMMA TextCat ==
    ASSUME NEW s \in Seq(Chars), NEW t \in Seq(Chars)
    PROVE  /\ Len(Cat(s, t)) = Len(s) + Len(t)
           /\ \A k \in 1..Len(s) : Cat(s, t)[k] = s[k]
           /\ \A k \in 1..Len(t) : Cat(s, t)[Len(s) + k] = t[k]
BY CatIs

\* The quotes at j and l enclose one or more characters that are neither
\* quotes, nor commas, nor escapes.
Enclosed(text, j, l) ==
    /\ j \in 1..Len(text) /\ l \in 1..Len(text) /\ j + 1 < l
    /\ text[j] = Quote /\ text[l] = Quote
    /\ \A k \in (j + 1)..(l - 1) :
          text[k] # Quote /\ text[k] # Comma /\ text[k] # Backslash

LEMMA EnclosedEnds ==
    ASSUME NEW text, NEW j, NEW l, Enclosed(text, j, l)
    PROVE  /\ j \in 1..Len(text) /\ l \in 1..Len(text) /\ j + 1 < l
           /\ text[j] = Quote /\ text[l] = Quote
BY Zenon DEF Enclosed

\* The role is what is between the quotes at j and l.
Between(text, j, l, role) ==
    /\ l = j + Len(role) + 1
    /\ \A k \in 1..Len(role) : text[j + k] = role[k]

LEMMA EnclosedInRole ==
    ASSUME NEW role \in Seq(Chars), NEW j \in Nat, NEW l \in Nat,
           \A k \in 1..Len(role) : role[k] # Quote,
           Enclosed(RoleText(role), j, l)
    PROVE  Between(RoleText(role), j, l, role)
<1> DEFINE w == FlattenSeq(Escapes(role))
           text == RoleText(role)
<1>1. /\ w \in Seq(Chars)
      /\ \A k \in 1..Len(w) : w[k] # Quote
      /\ (\A k \in 1..Len(w) : w[k] # Backslash) => w = role
  BY EscapedRole
<1>2. text = Quoted(w)
  BY RoleIsQuoted
<1> HIDE DEF w, text
<1>3. /\ Len(text) = Len(w) + 2
      /\ \A k \in 1..Len(w) : text[k + 1] = w[k]
  BY <1>1, <1>2, PatternIsQuoted
<1>4. Enclosed(text, j, l)
  BY DEF text
<1>5. \A k \in 1..Len(text) : text[k] = Quote => k = 1 \/ k = Len(text)
  <2> SUFFICES ASSUME NEW k \in 1..Len(text), k # 1, k # Len(text)
               PROVE  text[k] # Quote
    OBVIOUS
  <2>1. k - 1 \in 1..Len(w) /\ (k - 1) + 1 = k
    BY <1>1, <1>3
  <2> QED
    BY <1>1, <1>3, <2>1
<1>6. j = 1 /\ l = Len(w) + 2
  <2>1. /\ j \in 1..Len(text) /\ l \in 1..Len(text) /\ j + 1 < l
        /\ text[j] = Quote /\ text[l] = Quote
        /\ Len(text) \in Nat
    BY <1>1, <1>3, <1>4, EnclosedEnds
  <2> QED
    BY <1>3, <1>5, <2>1
<1>7. ASSUME NEW k \in 1..Len(w) PROVE w[k] # Backslash
  <2>1. k + 1 \in (j + 1)..(l - 1)
    BY <1>1, <1>6
  <2> QED
    BY <1>3, <1>4, <2>1 DEF Enclosed
<1>8. w = role
  BY <1>1, <1>7
<1>9. Between(text, j, l, role)
  BY <1>3, <1>6, <1>8 DEF Between
<1> QED
  BY <1>9 DEF text

\* Quotes in the left or in the right one of two texts.
LEMMA EnclosedLeft ==
    ASSUME NEW s \in Seq(Chars), NEW t \in Seq(Chars), NEW j \in Nat, NEW l \in Nat,
           Enclosed(Cat(s, t), j, l), l <= Len(s)
    PROVE  Enclosed(s, j, l)
<1>0. Len(s) \in Nat /\ Len(t) \in Nat /\ Len(Cat(s, t)) = Len(s) + Len(t)
  BY TextCat
<1>1. /\ j \in 1..Len(s) /\ l \in 1..Len(s) /\ j + 1 < l
  BY <1>0, EnclosedEnds
<1>2. \A k \in 1..Len(s) : Cat(s, t)[k] = s[k]
  BY TextCat
<1>3. \A k \in (j + 1)..(l - 1) : k \in 1..Len(s)
  BY <1>0, <1>1
<1> QED
  BY <1>1, <1>2, <1>3 DEF Enclosed

LEMMA EnclosedRight ==
    ASSUME NEW s \in Seq(Chars), NEW t \in Seq(Chars), NEW j \in Nat, NEW l \in Nat,
           Enclosed(Cat(s, t), j, l), Len(s) < j
    PROVE  Enclosed(t, j - Len(s), l - Len(s))
<1>0. Len(s) \in Nat /\ Len(t) \in Nat /\ Len(Cat(s, t)) = Len(s) + Len(t)
  BY TextCat
<1>1. /\ j - Len(s) \in 1..Len(t) /\ l - Len(s) \in 1..Len(t)
      /\ (j - Len(s)) + 1 < l - Len(s)
      /\ j \in Nat /\ l \in Nat
  BY <1>0, EnclosedEnds
<1>2. ASSUME NEW k \in (j - Len(s))..(l - Len(s))
      PROVE  /\ Cat(s, t)[Len(s) + k] = t[k]
             /\ Len(s) + k \in j..l
  BY <1>1, TextCat
<1>3. t[j - Len(s)] = Quote /\ t[l - Len(s)] = Quote
  <2>1. /\ j - Len(s) \in (j - Len(s))..(l - Len(s))
        /\ l - Len(s) \in (j - Len(s))..(l - Len(s))
        /\ Len(s) + (j - Len(s)) = j
        /\ Len(s) + (l - Len(s)) = l
    BY <1>1
  <2> QED
    BY <1>2, <2>1 DEF Enclosed
<1>4. ASSUME NEW k \in (j - Len(s) + 1)..(l - Len(s) - 1)
      PROVE  t[k] # Quote /\ t[k] # Comma /\ t[k] # Backslash
  <2>1. k \in (j - Len(s))..(l - Len(s)) /\ Len(s) + k \in (j + 1)..(l - 1)
    BY <1>1
  <2> QED
    BY <1>2, <2>1 DEF Enclosed
<1> QED
  BY <1>1, <1>3, <1>4 DEF Enclosed

LEMMA BetweenLeft ==
    ASSUME NEW s \in Seq(Chars), NEW t \in Seq(Chars), NEW role \in Seq(Chars),
           NEW j \in 1..Len(s), NEW l \in 1..Len(s), Between(s, j, l, role)
    PROVE  Between(Cat(s, t), j, l, role)
<1>1. l = j + Len(role) + 1 /\ \A k \in 1..Len(role) : s[j + k] = role[k]
  BY DEF Between
<1>2. \A k \in 1..Len(role) : j + k \in 1..Len(s)
  BY <1>1
<1>3. \A k \in 1..Len(s) : Cat(s, t)[k] = s[k]
  BY TextCat
<1> QED
  BY <1>1, <1>2, <1>3 DEF Between

LEMMA BetweenRight ==
    ASSUME NEW s \in Seq(Chars), NEW t \in Seq(Chars), NEW role \in Seq(Chars),
           NEW j \in Int, NEW l \in Int,
           j - Len(s) \in 1..Len(t), l - Len(s) \in 1..Len(t),
           Between(t, j - Len(s), l - Len(s), role)
    PROVE  Between(Cat(s, t), j, l, role)
<1>1. l = j + Len(role) + 1
  <2>1. l - Len(s) = (j - Len(s)) + Len(role) + 1
    BY DEF Between
  <2> QED
    BY <2>1
<1>2. ASSUME NEW k \in 1..Len(role) PROVE Cat(s, t)[j + k] = role[k]
  <2>1. (j - Len(s)) + k \in 1..Len(t) /\ Len(s) + ((j - Len(s)) + k) = j + k
    BY <1>1
  <2>2. Cat(s, t)[Len(s) + ((j - Len(s)) + k)] = t[(j - Len(s)) + k]
    BY <2>1, TextCat
  <2> QED
    BY <2>1, <2>2 DEF Between
<1> QED
  BY <1>1, <1>2 DEF Between

\* What separates and encloses the roles of a list.
Open == <<"[">>
Close == <<"]">>
Separator == <<Comma>>

\* The parts of the text of a list of roles.
Items(rs) ==
    [i \in DOMAIN rs |->
       IF i = 1 THEN RoleText(rs[i]) ELSE Separator \o RoleText(rs[i])]

LEMMA ListIsItems ==
    ASSUME NEW rs
    PROVE  ListText(rs) = Cat(Cat(Open, FlattenSeq(Items(rs))), Close)
BY DEF ListText, Items, Cat, Open, Close, Separator

LEMMA BracketsType ==
    /\ Open \in Seq(Chars) /\ Len(Open) = 1 /\ Open[1] # Quote
    /\ Close \in Seq(Chars) /\ Len(Close) = 1 /\ Close[1] # Quote
    /\ Separator \in Seq(Chars) /\ Len(Separator) = 1 /\ Separator[1] = Comma
<1>1. \A c \in Chars : <<c>> \in Seq(Chars) /\ Len(<<c>>) = 1 /\ <<c>>[1] = c
  OBVIOUS
<1>2. "[" \in Chars /\ "]" \in Chars /\ Comma \in Chars
  BY Zenon DEF Chars
<1> QED
  BY <1>1, <1>2, Characters, Zenon DEF Open, Close, Separator

LEMMA RoleType ==
    ASSUME NEW role \in Seq(Chars)
    PROVE  RoleText(role) \in Seq(Chars)
<1>1. Escapes(role) \in Seq(Seq(Chars))
  BY EscapesType
<1>2. FlattenSeq(Escapes(role)) \in Seq(Chars)
  BY <1>1, FlattenType
<1> QED
  BY <1>2, RoleIsQuoted, PatternIsQuoted

LEMMA ItemsType ==
    ASSUME NEW rs \in Seq(Seq(Chars))
    PROVE  /\ Items(rs) \in Seq(Seq(Chars))
           /\ Len(Items(rs)) = Len(rs)
           /\ \A i \in 1..Len(rs) :
                 Items(rs)[i] = IF i = 1 THEN RoleText(rs[i])
                                ELSE Cat(Separator, RoleText(rs[i]))
<1>1. Len(rs) \in Nat /\ DOMAIN rs = 1..Len(rs)
  OBVIOUS
<1>2. \A i \in 1..Len(rs) : RoleText(rs[i]) \in Seq(Chars)
  BY RoleType
<1>3. \A w \in Seq(Chars) : Cat(Separator, w) \in Seq(Chars)
  BY BracketsType, CatType
<1>4. Items(rs) = [i \in 1..Len(rs) |-> IF i = 1 THEN RoleText(rs[i])
                                        ELSE Cat(Separator, RoleText(rs[i]))]
  BY <1>1 DEF Items, Cat
<1> QED
  BY <1>1, <1>2, <1>3, <1>4

LEMMA ListType ==
    ASSUME NEW rs \in Seq(Seq(Chars))
    PROVE  ListText(rs) \in Seq(Chars)
<1>1. FlattenSeq(Items(rs)) \in Seq(Chars)
  BY ItemsType, FlattenType
<1>2. \A v, w \in Seq(Chars) : Cat(v, w) \in Seq(Chars)
  BY CatType
<1> QED
  BY <1>1, <1>2, ListIsItems, BracketsType

LEMMA AtTransitive ==
    ASSUME NEW s \in Seq(Chars), NEW w \in Seq(Chars), NEW v \in Seq(Chars),
           NEW o, NEW p, At(s, w, o), At(w, v, p)
    PROVE  At(s, v, o + p)
<1>1. /\ o \in Nat /\ p \in Nat
      /\ o + Len(w) <= Len(s) /\ p + Len(v) <= Len(w)
  BY DEF At
<1>2. ASSUME NEW k \in 1..Len(v) PROVE s[(o + p) + k] = v[k]
  <2>1. p + k \in 1..Len(w) /\ o + (p + k) = (o + p) + k
    BY <1>1
  <2>2. s[o + (p + k)] = w[p + k] /\ w[p + k] = v[k]
    BY <2>1 DEF At
  <2> QED
    BY <2>1, <2>2
<1> QED
  BY <1>1, <1>2 DEF At

\* The text of every role is in the text of the list.
LEMMA ListHasRoles ==
    ASSUME NEW rs \in Seq(Seq(Chars)), NEW i \in 1..Len(rs)
    PROVE  \E o : At(ListText(rs), RoleText(rs[i]), o)
<1> DEFINE items == Items(rs)
           all == FlattenSeq(items)
           role == RoleText(rs[i])
<1>1. items \in Seq(Seq(Chars)) /\ i \in 1..Len(items)
  BY ItemsType
<1>2. items[i] \in Seq(Chars) /\ all \in Seq(Chars) /\ role \in Seq(Chars)
  BY <1>1, FlattenType, RoleType
<1>3. items[i] = IF i = 1 THEN role ELSE Cat(Separator, role)
  BY ItemsType
<1>4. PICK o : At(all, items[i], o)
  BY <1>1, FlattenHasParts
<1>5. ListText(rs) = Cat(Cat(Open, all), Close)
  BY ListIsItems
<1> HIDE DEF items, all, role
<1>6. At(role, role, 0)
  BY <1>2 DEF At
<1>7. \E p : At(items[i], role, p)
  <2>1. CASE i = 1
    BY <1>3, <1>6, <2>1
  <2>2. CASE i # 1
    <3>1. At(Cat(Separator, role), role, Len(Separator) + 0)
      BY <1>2, <1>6, BracketsType, AtRight
    <3> QED
      BY <1>3, <2>2, <3>1
  <2> QED
    BY <2>1, <2>2
<1>8. PICK p : At(items[i], role, p)
  BY <1>7
<1>9. At(all, role, o + p)
  BY <1>2, <1>4, <1>8, AtTransitive
<1>10. At(Cat(Open, all), role, Len(Open) + (o + p))
  BY <1>2, <1>9, BracketsType, AtRight
<1>11. Cat(Open, all) \in Seq(Chars)
  BY <1>2, BracketsType, CatType
<1>12. At(Cat(Cat(Open, all), Close), role, Len(Open) + (o + p))
  BY <1>2, <1>10, <1>11, BracketsType, AtLeft
<1> QED
  BY <1>5, <1>12 DEF role

\* Whatever the text of a list encloses is one of its roles, if no role has a
\* quote: by induction on the number of roles.
LEMMA EnclosedInItems ==
    ASSUME NEW rs \in Seq(Seq(Chars)),
           \A i \in 1..Len(rs) : \A k \in 1..Len(rs[i]) : rs[i][k] # Quote
    PROVE  \A n \in 1..Len(rs) : \A j, l \in Nat :
              Enclosed(Joined(Items(rs))[n], j, l) =>
                 \E i \in 1..Len(rs) : Between(Joined(Items(rs))[n], j, l, rs[i])
<1> DEFINE m == Len(rs)
           items == Items(rs)
           r == Joined(items)
           Covered(text) ==
              \A j, l \in Nat : Enclosed(text, j, l) =>
                 \E i \in 1..m : Between(text, j, l, rs[i])
           S == {n \in 1..m : Covered(r[n])}
<1>1. m \in Nat /\ items \in Seq(Seq(Chars)) /\ Len(items) = m
  BY ItemsType
<1>2. \A i \in 1..m : items[i] = IF i = 1 THEN RoleText(rs[i])
                                 ELSE Cat(Separator, RoleText(rs[i]))
  BY ItemsType
<1>3. /\ m # 0 => r[1] = items[1]
      /\ \A n \in 1..(m - 1) : r[n + 1] = Cat(r[n], items[n + 1])
  BY <1>1, JoinedIsAppended
<1>4. \A n \in 1..m : r[n] \in Seq(Chars)
  BY <1>1, JoinedType
<1>5. \A i \in 1..m : rs[i] \in Seq(Chars) /\ RoleText(rs[i]) \in Seq(Chars)
  BY RoleType
<1>6. ASSUME NEW i \in 1..m PROVE Covered(RoleText(rs[i]))
  BY <1>5, EnclosedInRole
<1> HIDE DEF m, items, r
<1>7. 1 <= m => 1 \in S
  <2> HIDE DEF Covered
  <2> QED
    BY <1>1, <1>2, <1>3, <1>6
<1>8. ASSUME NEW n \in 1..(m - 1), n \in S PROVE n + 1 \in S
  <2> DEFINE u == r[n]
             role == rs[n + 1]
             w == RoleText(role)
             x == Cat(Separator, w)
  <2>1. n + 1 \in 1..m /\ n \in 1..m /\ n + 1 # 1
    BY <1>1
  <2>2. r[n + 1] = Cat(u, x)
    BY <1>2, <1>3, <2>1
  <2>3. u \in Seq(Chars) /\ w \in Seq(Chars) /\ role \in Seq(Chars)
    BY <1>4, <1>5, <2>1
  <2>4. Covered(u) /\ \A k \in 1..Len(role) : role[k] # Quote
    BY <1>8, <2>1 DEF m
  <2> HIDE DEF u, w, role
  <2>5. /\ x \in Seq(Chars) /\ Len(x) = Len(w) + 1
        /\ x[1] = Comma
    <3>1. x \in Seq(Chars)
      BY <2>3, BracketsType, CatType
    <3>2. /\ Len(x) = Len(Separator) + Len(w)
          /\ \A k \in 1..Len(Separator) : x[k] = Separator[k]
      BY <2>3, BracketsType, TextCat
    <3> HIDE DEF x
    <3> QED
      BY <2>3, <3>1, <3>2, BracketsType
  <2> SUFFICES ASSUME NEW j \in Nat, NEW l \in Nat, Enclosed(Cat(u, x), j, l)
               PROVE  \E i \in 1..m : Between(Cat(u, x), j, l, rs[i])
    BY <2>1, <2>2
  <2> HIDE DEF x
  <2>6. /\ Len(u) \in Nat /\ Len(x) \in Nat /\ Len(Cat(u, x)) = Len(u) + Len(x)
        /\ Cat(u, x)[Len(u) + 1] = Comma
    <3>0. u \in Seq(Chars) /\ x \in Seq(Chars)
      BY <2>3, <2>5
    <3>1. /\ Len(Cat(u, x)) = Len(u) + Len(x)
          /\ \A k \in 1..Len(x) : Cat(u, x)[Len(u) + k] = x[k]
      BY <3>0, TextCat
    <3>2. Len(u) \in Nat /\ Len(x) \in Nat /\ 1 \in 1..Len(x)
      BY <2>3, <2>5
    <3> QED
      BY <2>5, <3>1, <3>2
  <2>7. /\ j \in 1..Len(Cat(u, x)) /\ l \in 1..Len(Cat(u, x)) /\ j + 1 < l
        /\ Cat(u, x)[j] = Quote /\ Cat(u, x)[l] = Quote
    BY EnclosedEnds
  \* Both quotes before the last item.
  <2>8. CASE l <= Len(u)
    <3>1. Enclosed(u, j, l)
      BY <2>3, <2>5, <2>8, EnclosedLeft
    <3>2. PICK i \in 1..m : Between(u, j, l, rs[i])
      BY <2>4, <3>1
    <3>3. j \in 1..Len(u) /\ l \in 1..Len(u)
      BY <2>6, <2>7, <2>8
    <3> QED
      BY <1>5, <2>3, <2>5, <3>2, <3>3, BetweenLeft
  \* The comma of the last item is between the quotes.
  <2>9. CASE j <= Len(u) /\ Len(u) < l
    <3>1. l # Len(u) + 1
      BY <2>6, <2>7, Characters
    <3>2. Len(u) + 1 \in (j + 1)..(l - 1)
      BY <2>6, <2>7, <2>9, <3>1
    <3> QED
      BY <2>6, <3>2, Zenon DEF Enclosed
  \* Both quotes in the last item.
  <2>10. CASE Len(u) < j
    <3>1. Enclosed(x, j - Len(u), l - Len(u))
      BY <2>3, <2>5, <2>10, EnclosedRight
    <3> DEFINE p == j - Len(u)
               q == l - Len(u)
    <3>2. /\ p \in 1..Len(x) /\ q \in 1..Len(x) /\ p \in Nat /\ q \in Nat
          /\ p + 1 < q
          /\ x[p] = Quote
      BY <2>6, <3>1, EnclosedEnds
    <3> HIDE DEF p, q
    <3>3. Len(Separator) < p
      BY <2>5, <3>2, BracketsType, Characters
    <3>4. Enclosed(w, p - Len(Separator), q - Len(Separator))
      <4>1. Enclosed(Cat(Separator, w), p, q)
        BY <3>1 DEF p, q, x
      <4> QED
        BY <2>3, <3>2, <3>3, <4>1, BracketsType, EnclosedRight
    <3>5. /\ p - Len(Separator) \in Nat /\ q - Len(Separator) \in Nat
          /\ p - Len(Separator) \in 1..Len(w) /\ q - Len(Separator) \in 1..Len(w)
      BY <2>3, <2>5, <3>2, <3>3, BracketsType
    <3>6. Between(w, p - Len(Separator), q - Len(Separator), role)
      BY <2>3, <2>4, <3>4, <3>5, EnclosedInRole DEF w
    <3>7. Between(x, p, q, role)
      <4>1. Between(Cat(Separator, w), p, q, role)
        <5>1. p \in Int /\ q \in Int
          BY <3>2
        <5>2. Separator \in Seq(Chars)
          BY BracketsType
        <5> QED
          BY <2>3, <3>5, <3>6, <5>1, <5>2, BetweenRight
      <4> QED
        BY <4>1 DEF x
    <3>8. Between(Cat(u, x), j, l, role)
      <4>1. Between(x, j - Len(u), l - Len(u), role)
        BY <3>7 DEF p, q
      <4>2. j - Len(u) \in 1..Len(x) /\ l - Len(u) \in 1..Len(x)
        BY <3>2 DEF p, q
      <4> QED
        BY <2>3, <2>5, <4>1, <4>2, BetweenRight
    <3> QED
      BY <2>1, <3>8 DEF role
  <2> QED
    BY <2>6, <2>7, <2>8, <2>9, <2>10
<1>9. 1..m \subseteq S
  <2> HIDE DEF S
  <2> QED
    BY <1>1, <1>7, <1>8, Upwards
<1> QED
  BY <1>9 DEF m, r, items

LEMMA EnclosedInList ==
    ASSUME NEW rs \in Seq(Seq(Chars)), NEW j \in Nat, NEW l \in Nat,
           \A i \in 1..Len(rs) : \A k \in 1..Len(rs[i]) : rs[i][k] # Quote,
           Enclosed(ListText(rs), j, l)
    PROVE  \E i \in 1..Len(rs) : Between(ListText(rs), j, l, rs[i])
<1> DEFINE items == Items(rs)
           all == FlattenSeq(items)
           left == Cat(Open, all)
           m == Len(rs)
<1>1. items \in Seq(Seq(Chars)) /\ Len(items) = m /\ m \in Nat
  BY ItemsType
<1>2. all \in Seq(Chars)
  BY <1>1, FlattenType
<1>3. \A p, q \in Nat : Enclosed(all, p, q) =>
         \E i \in 1..m : Between(all, p, q, rs[i])
  <2>1. CASE m = 0
    <3>1. Len(all) = 0
      BY <1>1, <2>1, FlattenIsJoined
    <3> HIDE DEF all
    <3>2. \A p, q \in Nat : ~Enclosed(all, p, q)
      <4>1. \A p \in Nat : p \notin 1..Len(all)
        BY <3>1
      <4> QED
        BY <4>1, EnclosedEnds
    <3> QED
      BY <3>2
  <2>2. CASE m # 0
    <3>1. all = Joined(items)[m]
      BY <1>1, <2>2, FlattenIsJoined
    <3>2. m \in 1..m
      BY <1>1, <2>2
    <3> QED
      BY <3>1, <3>2, EnclosedInItems
  <2> QED
    BY <2>1, <2>2
<1>4. ListText(rs) = Cat(left, Close)
  BY ListIsItems
<1>5. \A i \in 1..m : rs[i] \in Seq(Chars)
  OBVIOUS
<1> HIDE DEF items, all, m
<1>6. left \in Seq(Chars) /\ Len(left) = 1 + Len(all) /\ left[1] # Quote
  <2>1. left \in Seq(Chars)
    BY <1>2, BracketsType, CatType
  <2>2. /\ Len(left) = Len(Open) + Len(all)
        /\ \A k \in 1..Len(Open) : left[k] = Open[k]
    BY <1>2, BracketsType, TextCat
  <2> HIDE DEF left
  <2> QED
    BY <2>1, <2>2, BracketsType
<1> HIDE DEF left
<1>7. /\ Len(left) \in Nat /\ Len(all) \in Nat
      /\ Len(Cat(left, Close)) = Len(left) + 1
      /\ Cat(left, Close)[1] # Quote
      /\ Cat(left, Close)[Len(left) + 1] # Quote
  <2>1. /\ Len(Cat(left, Close)) = Len(left) + Len(Close)
        /\ \A k \in 1..Len(left) : Cat(left, Close)[k] = left[k]
        /\ \A k \in 1..Len(Close) : Cat(left, Close)[Len(left) + k] = Close[k]
    BY <1>6, BracketsType, TextCat
  <2>2. Len(left) \in Nat /\ Len(all) \in Nat
    BY <1>2, <1>6
  <2>3. 1 \in 1..Len(left) /\ 1 \in 1..Len(Close)
    BY <1>6, <2>2, BracketsType
  <2> QED
    BY <1>6, <2>1, <2>2, <2>3, BracketsType
<1>8. Enclosed(Cat(left, Close), j, l)
  BY <1>4
<1>9. 1 < j /\ l <= Len(left) /\ j + 1 < l
  <2>1. /\ j \in 1..Len(Cat(left, Close)) /\ l \in 1..Len(Cat(left, Close))
        /\ Cat(left, Close)[j] = Quote /\ Cat(left, Close)[l] = Quote
        /\ j + 1 < l
    BY <1>8, EnclosedEnds
  <2>2. j # 1 /\ l # Len(left) + 1
    BY <1>7, <2>1
  <2> DEFINE n == Len(Cat(left, Close))
             b == Len(left)
  <2>3. b \in Nat /\ n = b + 1 /\ j \in 1..n /\ l \in 1..n /\ j + 1 < l
        /\ j # 1 /\ l # b + 1
    BY <1>7, <2>1, <2>2
  <2> HIDE DEF n, b
  <2>4. 1 < j /\ l <= b /\ j + 1 < l
    BY <2>3
  <2> QED
    BY <2>4 DEF b
<1>10. Enclosed(left, j, l)
  BY <1>6, <1>8, <1>9, BracketsType, EnclosedLeft
<1>11. Enclosed(all, j - Len(Open), l - Len(Open))
  <2>1. Enclosed(Cat(Open, all), j, l) /\ Len(Open) < j
    BY <1>9, <1>10, BracketsType DEF left
  <2> QED
    BY <1>2, <2>1, BracketsType, EnclosedRight
<1>12. /\ j - Len(Open) \in Nat /\ l - Len(Open) \in Nat
       /\ j - Len(Open) \in 1..Len(all) /\ l - Len(Open) \in 1..Len(all)
       /\ j \in 1..Len(left) /\ l \in 1..Len(left)
  BY <1>6, <1>7, <1>9, BracketsType
<1>13. PICK i \in 1..m : Between(all, j - Len(Open), l - Len(Open), rs[i])
  BY <1>3, <1>11, <1>12
<1>14. Between(Cat(Open, all), j, l, rs[i])
  <2>1. rs[i] \in Seq(Chars) /\ Open \in Seq(Chars)
    BY <1>5, BracketsType
  <2>2. j \in Int /\ l \in Int
    OBVIOUS
  <2> QED
    BY <1>2, <1>12, <1>13, <2>1, <2>2, BetweenRight
<1>15. Between(Cat(left, Close), j, l, rs[i])
  <2>1. Between(left, j, l, rs[i])
    BY <1>14 DEF left
  <2> QED
    BY <1>5, <1>6, <1>12, <2>1, BracketsType, BetweenLeft
<1> QED
  BY <1>4, <1>15 DEF m

-----------------------------------------------------------------------------
(* The invariant *)

\* The instances whose roles, written as in columns, match.
Matching(columns, role) == {s \in Instances : Like(columns[s], Pattern(role))}

\* The column is the text of the roles, and what was listed is what matches.
RoleInv ==
    /\ roles \in [Instances -> Seq(Seq(Letters))]
    /\ column = [s \in Instances |-> ListText(roles[s])]
    /\ Listing =>
          /\ asked \in Seq(Chars)
          /\ \/ found = Matching(column, asked)
             \/ asked = <<>> /\ found = Instances

LEMMA BoundedSequences ==
    ASSUME NEW E, NEW n \in Nat
    PROVE  SeqOf(E, n) \subseteq Seq(E)
BY DEF SeqOf

LEMMA RoleListsType ==
    RoleLists \subseteq Seq(Seq(Letters))
<1>1. SeqOf(Letters, MaxRoles) \subseteq Seq(Letters)
  BY BoundsAssumption, BoundedSequences
<1>2. SeqOf(SeqOf(Letters, MaxRoles), MaxList)
         \subseteq Seq(SeqOf(Letters, MaxRoles))
  BY BoundsAssumption, BoundedSequences
<1>3. Seq(SeqOf(Letters, MaxRoles)) \subseteq Seq(Seq(Letters))
  BY <1>1
<1> QED
  BY <1>2, <1>3 DEF RoleLists

LEMMA FiltersType ==
    Filters \subseteq Seq(Chars)
<1>1. SeqOf(Letters, MaxFilter) \subseteq Seq(Letters)
  BY BoundsAssumption, BoundedSequences
<1>2. Letters \subseteq Chars
  BY DEF Chars
<1>3. Seq(Letters) \subseteq Seq(Chars)
  BY <1>2
<1> QED
  BY <1>1, <1>3 DEF Filters

LEMMA NoRoles ==
    ListText(<<>>) = <<"[", "]">>
<1>1. Items(<<>>) = <<>>
  BY DEF Items
<1>2. FlattenSeq(<<>>) = <<>>
  BY FlattenIsJoined
<1>3. ListText(<<>>) = Cat(Cat(Open, <<>>), Close)
  BY <1>1, <1>2, ListIsItems
<1> QED
  BY <1>3 DEF Cat, Open, Close

LEMMA RoleInit ==
    ASSUME Init
    PROVE  RoleInv
<1>1. roles \in [Instances -> Seq(Seq(Letters))]
  BY DEF Init
<1>2. column = [s \in Instances |-> ListText(roles[s])]
  BY NoRoles DEF Init
<1>3. ~Listing
  BY DEF Init, Listing
<1> QED
  BY <1>1, <1>2, <1>3 DEF RoleInv

LEMMA RoleStep ==
    ASSUME RoleInv, [Next]_vars
    PROVE  RoleInv'
<1>1. ASSUME NEW s \in Instances, NEW rs \in RoleLists, UpsertService(s, rs)
      PROVE  RoleInv'
  <2>1. roles' \in [Instances -> Seq(Seq(Letters))]
    BY <1>1, RoleListsType DEF RoleInv, UpsertService
  <2>2. column' = [i \in Instances |-> ListText(roles'[i])]
    <3> HIDE DEF ListText
    <3> QED
      BY <1>1 DEF RoleInv, UpsertService
  <2>3. ~Listing'
    BY <1>1 DEF UpsertService, Listing
  <2> QED
    BY <2>1, <2>2, <2>3 DEF RoleInv
<1>2. ASSUME roles' = roles, column' = column,
             Listing' => /\ asked' \in Seq(Chars)
                         /\ \/ found' = Matching(column, asked')
                            \/ asked' = <<>> /\ found' = Instances
      PROVE  RoleInv'
  <2>1. column' = [s \in Instances |-> ListText(roles'[s])]
    BY <1>2 DEF RoleInv
  <2>2. roles' \in [Instances -> Seq(Seq(Letters))]
    BY <1>2 DEF RoleInv
  <2>3. Matching(column', asked') = Matching(column, asked')
    BY <1>2
  <2> QED
    BY <1>2, <2>1, <2>2, <2>3 DEF RoleInv
<1>3. ASSUME NEW role \in Filters \cup {None},
             RestListServices(role) \/ CliServices(role)
      PROVE  RoleInv'
  <2>1. /\ roles' = roles /\ column' = column /\ asked' = role
        /\ role # None => found' = WithRole(role)
    BY <1>3 DEF RestListServices, CliServices, Answer
  <2>2. role # None => role \in Seq(Chars)
    BY FiltersType
  <2>3. WithRole(role) = Matching(column, role)
    BY DEF WithRole, Matching
  <2>4. Listing' => role # None
    BY <2>1 DEF Listing
  <2> QED
    BY <1>2, <2>1, <2>2, <2>3, <2>4
<1>4. ASSUME NEW role \in Filters, GrpcListServices(role)
      PROVE  RoleInv'
  <2>1. /\ roles' = roles /\ column' = column /\ asked' = role
        /\ \/ found' = WithRole(role)
           \/ role = <<>> /\ found' = Instances
    <3> DEFINE list == IF role = <<>> THEN Instances ELSE WithRole(role)
    <3>1. Answer(role, list)
      BY <1>4 DEF GrpcListServices
    <3>2. \/ list = WithRole(role)
          \/ role = <<>> /\ list = Instances
      BY Zenon
    <3> HIDE DEF list
    <3>3. roles' = roles /\ column' = column /\ asked' = role /\ found' = list
      BY <3>1 DEF Answer
    <3> QED
      BY <3>2, <3>3
  <2>2. role \in Seq(Chars)
    BY FiltersType
  <2>3. WithRole(role) = Matching(column, role)
    BY DEF WithRole, Matching
  <2> QED
    BY <1>2, <2>1, <2>2, <2>3
<1>5. ASSUME Received PROVE RoleInv'
  BY <1>5 DEF Received, RoleInv, Listing
<1>6. CASE UNCHANGED vars
  BY <1>6 DEF vars, RoleInv, Listing
<1> QED
  BY <1>1, <1>3, <1>4, <1>5, <1>6 DEF Next

\* The column always spells the roles last upserted, and an answer is what
\* matched when it was given.
THEOREM RoleInvariance == Spec => []RoleInv
<1> QED
  BY RoleInit, RoleStep, PTL DEF Spec

\* Quotes, commas and backslashes have no other case.
LEMMA LowerIsItself ==
    ASSUME NEW c \in {Quote, Comma, Backslash}, NEW d, Lower(d) = Lower(c)
    PROVE  d = c
<1>1. c # "A" /\ c # "I" /\ c # "a" /\ c # "i"
  BY Zenon DEF Quote, Comma, Backslash
<1> QED
  BY <1>1 DEF Lower

LEMMA ColumnType ==
    ASSUME RoleInv, NEW s \in Instances
    PROVE  /\ roles[s] \in Seq(Seq(Chars))
           /\ DOMAIN roles[s] = 1..Len(roles[s])
           /\ column[s] = ListText(roles[s])
           /\ column[s] \in Seq(Chars)
<1>1. Letters \subseteq Chars
  BY DEF Chars
<1>2. Seq(Letters) \subseteq Seq(Chars)
  BY <1>1
<1>3. roles[s] \in Seq(Seq(Letters))
  BY DEF RoleInv
<1>4. roles[s] \in Seq(Seq(Chars))
  BY <1>2, <1>3
<1>5. column[s] = ListText(roles[s])
  BY DEF RoleInv
<1> QED
  BY <1>4, <1>5, ListType

LEMMA InvFindsProviders ==
    ASSUME RoleInv
    PROVE  ProvidersAreFound
<1> SUFFICES ASSUME Listing, ~Has(asked, {Quote, Backslash}),
                    NEW s \in Instances, Provides(s, asked)
             PROVE  s \in found
  BY DEF ProvidersAreFound
<1>1. /\ asked \in Seq(Chars)
      /\ \/ found = Matching(column, asked)
         \/ asked = <<>> /\ found = Instances
  BY DEF RoleInv
<1>2. PICK i \in 1..Len(roles[s]) : roles[s][i] = asked
  BY ColumnType DEF Provides
<1>3. \A k \in 1..Len(asked) : asked[k] # Quote /\ asked[k] # Backslash
  BY <1>1 DEF Has
<1>4. RoleText(asked) = Quoted(asked)
  BY <1>1, <1>3, PlainRole, RoleIsQuoted
<1>5. PICK o : At(column[s], Quoted(asked), o)
  BY <1>2, <1>4, ColumnType, ListHasRoles
<1>6. Like(column[s], Pattern(asked))
  BY <1>1, <1>5, ColumnType, LikeFindsQuoted
<1> QED
  BY <1>1, <1>6 DEF Matching

LEMMA InvFindsOnlyProviders ==
    ASSUME RoleInv
    PROVE  OnlyProvidersAreFound
<1> SUFFICES ASSUME Listing, asked # <<>>,
                    ~Has(asked, {Comma, Percent, Underscore, Quote, Backslash}),
                    NEW s \in found,
                    \A i \in DOMAIN roles[s] : ~Has(roles[s][i], {Quote})
             PROVE  \E i \in DOMAIN roles[s] :
                       /\ Len(roles[s][i]) = Len(asked)
                       /\ \A k \in DOMAIN asked :
                             Lower(roles[s][i][k]) = Lower(asked[k])
  BY DEF OnlyProvidersAreFound
<1>1. /\ asked \in Seq(Chars) /\ Len(asked) \in Nat /\ Len(asked) # 0
      /\ DOMAIN asked = 1..Len(asked)
  BY DEF RoleInv
<1>2. s \in Instances /\ Like(column[s], Pattern(asked))
  BY DEF RoleInv, Matching
<1> DEFINE text == column[s]
           rs == roles[s]
           n == Len(asked)
<1>3. /\ rs \in Seq(Seq(Chars)) /\ DOMAIN rs = 1..Len(rs)
      /\ text = ListText(rs) /\ text \in Seq(Chars)
  BY <1>2, ColumnType
<1>4. \A k \in 1..n : asked[k] \notin {Comma, Percent, Underscore, Quote, Backslash}
  BY <1>1 DEF Has
<1>5. ~Has(asked, {Percent, Underscore})
  BY <1>1, <1>4 DEF Has
<1>6. PICK o \in Nat :
         /\ o + n + 2 <= Len(text)
         /\ \A k \in 1..(n + 2) : Lower(text[o + k]) = Lower(Quoted(asked)[k])
  BY <1>1, <1>2, <1>3, <1>5, LikeIsQuoted
<1>7. \A i \in 1..Len(rs) : \A k \in 1..Len(rs[i]) : rs[i][k] # Quote
  BY <1>3 DEF Has
<1>8. \A k \in 1..n : Quoted(asked)[k + 1] = asked[k]
  BY <1>1, PatternIsQuoted
<1>9. Quoted(asked)[1] = Quote /\ Quoted(asked)[n + 2] = Quote
  BY <1>1, PatternIsQuoted
<1> HIDE DEF text, rs, n
<1>10. n \in Nat /\ n # 0
  BY <1>1 DEF n
<1>11. text[o + 1] = Quote /\ text[o + (n + 2)] = Quote
  <2>1. 1 \in 1..(n + 2) /\ n + 2 \in 1..(n + 2)
    BY <1>10
  <2>2. /\ Lower(text[o + 1]) = Lower(Quote)
        /\ Lower(text[o + (n + 2)]) = Lower(Quote)
    BY <1>6, <1>9, <2>1
  <2> QED
    BY <2>2, LowerIsItself
<1>12. \A k \in 1..n : Lower(text[o + 1 + k]) = Lower(asked[k])
  <2> SUFFICES ASSUME NEW k \in 1..n
               PROVE  Lower(text[o + 1 + k]) = Lower(asked[k])
    OBVIOUS
  <2>1. k + 1 \in 1..(n + 2) /\ o + (k + 1) = o + 1 + k
    BY <1>10
  <2> QED
    BY <1>6, <1>8, <2>1
<1>13. Enclosed(text, o + 1, o + (n + 2))
  <2>1. /\ o + 1 \in 1..Len(text) /\ o + (n + 2) \in 1..Len(text)
        /\ o + 1 + 1 < o + (n + 2)
    BY <1>3, <1>6, <1>10
  <2>2. ASSUME NEW k \in (o + 1 + 1)..((o + (n + 2)) - 1),
               text[k] \in {Quote, Comma, Backslash}
        PROVE  FALSE
    <3> DEFINE p == k - (o + 1)
    <3>1. p \in 1..n /\ o + 1 + p = k
      BY <1>10
    <3> HIDE DEF p
    <3>2. Lower(asked[p]) = Lower(text[k])
      BY <1>12, <3>1
    <3>3. asked[p] = text[k]
      BY <2>2, <3>2, LowerIsItself
    <3> QED
      BY <1>4, <2>2, <3>1, <3>3 DEF n
  <2>3. \A k \in (o + 1 + 1)..((o + (n + 2)) - 1) :
           text[k] # Quote /\ text[k] # Comma /\ text[k] # Backslash
    BY <2>2
  <2> DEFINE j == o + 1
             l == o + (n + 2)
  <2>4. /\ j \in 1..Len(text) /\ l \in 1..Len(text) /\ j + 1 < l
        /\ text[j] = Quote /\ text[l] = Quote
        /\ \A k \in (j + 1)..(l - 1) :
              text[k] # Quote /\ text[k] # Comma /\ text[k] # Backslash
    BY <1>11, <2>1, <2>3
  <2> HIDE DEF j, l
  <2>5. Enclosed(text, j, l)
    BY <2>4 DEF Enclosed
  <2> QED
    BY <2>5 DEF j, l
<1>14. PICK i \in 1..Len(rs) : Between(text, o + 1, o + (n + 2), rs[i])
  <2>1. o + 1 \in Nat /\ o + (n + 2) \in Nat
    BY <1>10
  <2> QED
    BY <1>3, <1>7, <1>13, <2>1, EnclosedInList
<1>15. Len(rs[i]) = n
  <2>1. Len(rs[i]) \in Nat
    BY <1>3
  <2>2. o + (n + 2) = o + 1 + Len(rs[i]) + 1
    BY <1>14 DEF Between
  <2>3. \A a \in Nat : o + (n + 2) = o + 1 + a + 1 => a = n
    BY <1>10
  <2> QED
    BY <2>1, <2>2, <2>3
<1>16. \A k \in 1..n : Lower(rs[i][k]) = Lower(asked[k])
  BY <1>12, <1>14, <1>15 DEF Between
<1> QED
  BY <1>1, <1>3, <1>15, <1>16 DEF rs, n

\* An instance that provides the role asked for is listed, for every list of
\* roles and every filter that JSON does not escape.
THEOREM ProvidersFound == Spec => []ProvidersAreFound
<1> QED
  BY RoleInvariance, InvFindsProviders, PTL

\* A filter of letters lists none but the instances that provide that role, in
\* upper or lower case, as long as no role of theirs has a quote in it.
THEOREM OnlyProvidersFound == Spec => []OnlyProvidersAreFound
<1> QED
  BY RoleInvariance, InvFindsOnlyProviders, PTL

===============================================================================
