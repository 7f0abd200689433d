----------------------------- MODULE StepLemmas -----------------------------
(***************************************************************************)
(* What the proofs about loops rest on: least and greatest elements, the   *)
(* values a loop goes through step by step, and sequences joined.          *)
(***************************************************************************)
EXTENDS Integers, SequencesExt, Slices, FiniteSetTheorems, WellFoundedInduction, TLAPS

----------------------------------------------------------------------------
(* Least and greatest.                                                     *)

LEMMA LeastOf ==
  ASSUME NEW S \in SUBSET Nat, S # {}
  PROVE  \E x \in S : \A y \in S : x <= y
<1>1. PICK x \in S : \A y \in S : <<y, x>> \notin OpToRel(<, Nat)
  BY NatLessThanWellFounded, WFMin
<1>2. ASSUME NEW y \in S PROVE x <= y
  <2>1. <<y, x>> \notin OpToRel(<, Nat)
    BY <1>1
  <2>2. ~(y < x)
    BY <2>1 DEF OpToRel
  <2> QED BY <2>2
<1> QED BY <1>2

LEMMA GreatestUpTo ==
  ASSUME NEW n \in Nat, NEW S \in SUBSET (0..n), S # {}
  PROVE  Max(S) \in S /\ \A y \in S : Max(S) >= y
<1> DEFINE D == {d \in 0..n : n - d \in S}
<1>0. D \in SUBSET Nat
  OBVIOUS
<1>1. D # {}
  <2>1. PICK x \in S : TRUE
    OBVIOUS
  <2>2. x \in 0..n
    OBVIOUS
  <2>3. n - x \in 0..n /\ n - (n - x) = x
    BY <2>2
  <2>4. n - x \in D
    BY <2>1, <2>3
  <2> QED BY <2>4
<1>2. PICK d \in D : \A e \in D : d <= e
  BY <1>0, <1>1, LeastOf
<1>3. n - d \in S /\ d \in 0..n
  BY <1>2
<1>4. ASSUME NEW y \in S PROVE n - d >= y
  <2>1. n - y \in 0..n /\ n - (n - y) = y
    OBVIOUS
  <2>2. n - y \in D
    BY <2>1
  <2>3. d <= n - y
    BY <1>2, <2>2
  <2> QED BY <1>3, <2>1, <2>3
<1>5. \E x \in S : \A y \in S : x >= y
  BY <1>3, <1>4
<1> QED BY <1>5 DEF Max

LEMMA GreatestOf ==
  ASSUME NEW n \in Nat, NEW S \in SUBSET (1..n), S # {}
  PROVE  Max(S) \in S /\ \A y \in S : Max(S) >= y
<1>1. S \in SUBSET (0..n)
  OBVIOUS
<1> QED BY <1>1, GreatestUpTo

LEMMA SmallestOf ==
  ASSUME NEW S \in SUBSET Nat, S # {}
  PROVE  Min(S) \in S /\ \A y \in S : Min(S) <= y
<1>1. \E x \in S : \A y \in S : x <= y
  BY LeastOf
<1> QED BY <1>1 DEF Min

LEMMA LesserOf ==
  ASSUME NEW a \in Nat, NEW b \in Nat
  PROVE  Min({a, b}) = IF a <= b THEN a ELSE b
<1>1. \E x \in {a, b} : \A y \in {a, b} : x <= y
  OBVIOUS
<1>2. Min({a, b}) \in {a, b} /\ \A y \in {a, b} : Min({a, b}) <= y
  BY <1>1 DEF Min
<1> QED BY <1>2

\* What holds at first and is handed on from each number to the next.
LEMMA Climb ==
  ASSUME NEW N \in Nat, NEW S, 0 \in S, \A n \in 1..N : n - 1 \in S => n \in S
  PROVE  \A n \in 0..N : n \in S
<1> DEFINE Bad == {n \in 0..N : n \notin S}
<1> SUFFICES ASSUME Bad # {} PROVE FALSE
  OBVIOUS
<1>1. PICK n \in Bad : \A m \in Bad : n <= m
  <2>1. Bad \in SUBSET Nat
    OBVIOUS
  <2> QED BY <2>1, LeastOf
<1>2. n \in 1..N /\ n \notin S /\ n - 1 \in 0..N /\ ~(n <= n - 1)
  BY <1>1
<1>3. n - 1 \in S
  BY <1>1, <1>2
<1> QED BY <1>2, <1>3

----------------------------------------------------------------------------
(* Loops.                                                                  *)

\* The values a state goes through, one step after another.
Passes(f, S, N, s0, step) ==
  /\ f \in [0..N -> S] /\ f[0] = s0
  /\ \A n \in 1..N : f[n] = step[n][f[n - 1]]

LEMMA Steps ==
  ASSUME NEW S, NEW N \in Nat, NEW s0 \in S, NEW step \in [1..N -> [S -> S]]
  PROVE  \E f : Passes(f, S, N, s0, step)
<1> DEFINE Bad == {n \in 0..N : ~\E f : Passes(f, S, n, s0, step)}
<1>0. \A n : n \in Bad <=> n \in 0..N /\ ~\E f : Passes(f, S, n, s0, step)
  OBVIOUS
<1> HIDE DEF Bad
<1>1. SUFFICES ASSUME Bad # {} PROVE FALSE
  <2>1. N \in 0..N
    OBVIOUS
  <2> QED BY <1>0, <2>1
<1>2. Bad \in SUBSET Nat
  BY <1>0
<1>3. PICK n \in Bad : \A m \in Bad : n <= m
  BY <1>1, <1>2, LeastOf
<1>4. n \in 0..N /\ n \in Nat /\ ~\E f : Passes(f, S, n, s0, step)
  BY <1>0, <1>3
<1>5. n # 0
  <2>1. Passes([k \in 0..0 |-> s0], S, 0, s0, step)
    BY DEF Passes
  <2> QED BY <1>4, <2>1
<1> DEFINE e == n - 1
<1>6. e \in 0..N /\ e \in Nat /\ e + 1 = n /\ n \in 1..N /\ ~(n <= e)
  BY <1>4, <1>5
<1>7. PICK f : Passes(f, S, e, s0, step)
  <2>1. e \notin Bad
    BY <1>3, <1>6
  <2> QED BY <1>0, <1>6, <2>1
<1> HIDE DEF e
<1>8. f \in [0..e -> S] /\ f[0] = s0 /\ \A k \in 1..e : f[k] = step[k][f[k - 1]]
  BY <1>7 DEF Passes
<1> DEFINE g == [k \in 0..n |-> IF k = n THEN step[n][f[e]] ELSE f[k]]
<1>9. \A k \in 0..n : k = n \/ k \in 0..e
  BY <1>6
<1>10. f[e] \in S /\ step[n] \in [S -> S] /\ step[n][f[e]] \in S
  BY <1>6, <1>8
<1>11. g \in [0..n -> S]
  BY <1>8, <1>9, <1>10
<1>12. g[n] = step[n][f[e]] /\ \A k \in 0..e : g[k] = f[k]
  BY <1>6
<1> HIDE DEF g
<1>13. g[0] = s0
  BY <1>6, <1>8, <1>12
<1>14. ASSUME NEW k \in 1..n PROVE g[k] = step[k][g[k - 1]]
  <2>1. k - 1 \in 0..e /\ (k = n => k - 1 = e) /\ (k # n => k \in 1..e /\ k \in 0..e)
    BY <1>6
  <2> QED BY <1>8, <1>12, <2>1
<1>15. Passes(g, S, n, s0, step)
  BY <1>11, <1>13, <1>14 DEF Passes
<1> QED BY <1>4, <1>15

\* Two ways through the same steps are the same.
Alike(f, g, N) ==
  /\ f[0] = g[0]
  /\ \A n \in 1..N : f[n - 1] = g[n - 1] => f[n] = g[n]

LEMMA SameSteps ==
  ASSUME NEW N \in Nat, NEW f, NEW g, Alike(f, g, N)
  PROVE  \A n \in 0..N : f[n] = g[n]
<1> DEFINE Bad == {n \in 0..N : f[n] # g[n]}
<1>1. SUFFICES ASSUME Bad # {} PROVE FALSE
  OBVIOUS
<1>2. Bad \in SUBSET Nat
  OBVIOUS
<1>3. PICK n \in Bad : \A m \in Bad : n <= m
  BY <1>1, <1>2, LeastOf
<1>4. n \in 0..N /\ f[n] # g[n] /\ n \in 1..N
  BY <1>3 DEF Alike
<1>5. n - 1 \in 0..N /\ ~(n <= n - 1)
  BY <1>4
<1>6. n - 1 \notin Bad
  BY <1>3, <1>5
<1> QED BY <1>4, <1>5, <1>6 DEF Alike

----------------------------------------------------------------------------
(* Sequences.                                                              *)

LEMMA Appended ==
  ASSUME NEW X, NEW t \in Seq(X), NEW x \in X
  PROVE  /\ Append(t, x) \in Seq(X) /\ Append(t, x) # <<>>
         /\ Len(Append(t, x)) = Len(t) + 1 /\ Append(t, x)[Len(t) + 1] = x
         /\ Last(Append(t, x)) = x
         /\ \A k \in 1..Len(t) : Append(t, x)[k] = t[k]
<1>1. Append(t, x) \in Seq(X) /\ Len(Append(t, x)) = Len(t) + 1
  OBVIOUS
<1>2. Append(t, x)[Len(t) + 1] = x
  OBVIOUS
<1>3. Append(t, x) # <<>>
  <2>1. Len(Append(t, x)) # 0
    BY <1>1
  <2>2. Len(<<>>) = 0
    OBVIOUS
  <2> QED BY <2>1, <2>2
<1>4. \A k \in 1..Len(t) : Append(t, x)[k] = t[k]
  OBVIOUS
<1> QED BY <1>1, <1>2, <1>3, <1>4 DEF Last

LEMMA TwoJoined ==
  ASSUME NEW X, NEW u \in Seq(X), NEW v \in Seq(X)
  PROVE  /\ u \o v \in Seq(X) /\ Len(u \o v) = Len(u) + Len(v)
         /\ \A k \in 1..Len(u) : (u \o v)[k] = u[k]
         /\ \A k \in 1..Len(v) : (u \o v)[Len(u) + k] = v[k]
OBVIOUS

LEMMA SameElements ==
  ASSUME NEW X, NEW u \in Seq(X), NEW v \in Seq(X),
         Len(u) = Len(v), \A k \in 1..Len(u) : u[k] = v[k]
  PROVE  u = v
OBVIOUS

\* t is u, v and w, one behind the other.
Consists(X, t, u, v, w) ==
  /\ t \in Seq(X) /\ Len(t) = Len(u) + Len(v) + Len(w)
  /\ \A k \in 1..Len(u) : t[k] = u[k]
  /\ \A k \in 1..Len(v) : t[Len(u) + k] = v[k]
  /\ \A k \in 1..Len(w) : t[Len(u) + Len(v) + k] = w[k]

LEMMA ThreeJoined ==
  ASSUME NEW X, NEW u \in Seq(X), NEW v \in Seq(X), NEW w \in Seq(X)
  PROVE  Consists(X, u \o v \o w, u, v, w)
<1> DEFINE uv == u \o v
           t == uv \o w
<1>1. /\ uv \in Seq(X) /\ Len(uv) = Len(u) + Len(v)
      /\ \A k \in 1..Len(u) : uv[k] = u[k]
      /\ \A k \in 1..Len(v) : uv[Len(u) + k] = v[k]
  OBVIOUS
<1> HIDE DEF uv
<1>2. /\ t \in Seq(X) /\ Len(t) = Len(uv) + Len(w)
      /\ \A k \in 1..Len(uv) : t[k] = uv[k]
      /\ \A k \in 1..Len(w) : t[Len(uv) + k] = w[k]
  <2>1. uv \in Seq(X)
    BY <1>1
  <2> QED BY <2>1, TwoJoined
<1> HIDE DEF t
<1>3. Len(u) \in Nat /\ Len(v) \in Nat /\ Len(w) \in Nat
  OBVIOUS
<1>4. \A k \in 1..Len(u) : t[k] = u[k]
  BY <1>1, <1>2, <1>3
<1>5. ASSUME NEW k \in 1..Len(v) PROVE t[Len(u) + k] = v[k]
  <2>1. Len(u) + k \in 1..Len(uv)
    BY <1>1, <1>3
  <2> QED BY <1>1, <1>2, <2>1
<1>6. \A k \in 1..Len(w) : t[Len(u) + Len(v) + k] = w[k]
  BY <1>1, <1>2
<1>7. Consists(X, t, u, v, w)
  BY <1>1, <1>2, <1>3, <1>4, <1>5, <1>6 DEF Consists
<1> QED BY <1>7 DEF t, uv

\* Named, for the provers to find an instance by.
Regroups(u, v, w) == (u \o v) \o w = u \o (v \o w)

LEMMA JoinedAlong ==
  ASSUME NEW X, NEW u \in Seq(X), NEW v \in Seq(X), NEW w \in Seq(X)
  PROVE  Regroups(u, v, w)
<1> DEFINE l == (u \o v) \o w
           vw == v \o w
           r == u \o vw
<1>1. Len(u) \in Nat /\ Len(v) \in Nat /\ Len(w) \in Nat
  OBVIOUS
<1>2. /\ l \in Seq(X) /\ Len(l) = Len(u) + Len(v) + Len(w)
      /\ \A k \in 1..Len(u) : l[k] = u[k]
      /\ \A k \in 1..Len(v) : l[Len(u) + k] = v[k]
      /\ \A k \in 1..Len(w) : l[Len(u) + Len(v) + k] = w[k]
  BY ThreeJoined DEF Consists
<1>3. /\ vw \in Seq(X) /\ Len(vw) = Len(v) + Len(w)
      /\ \A k \in 1..Len(v) : vw[k] = v[k]
      /\ \A k \in 1..Len(w) : vw[Len(v) + k] = w[k]
  BY TwoJoined
<1> HIDE DEF vw
<1>4. /\ r \in Seq(X) /\ Len(r) = Len(u) + Len(vw)
      /\ \A k \in 1..Len(u) : r[k] = u[k]
      /\ \A k \in 1..Len(vw) : r[Len(u) + k] = vw[k]
  <2>1. vw \in Seq(X)
    BY <1>3
  <2> QED BY <2>1, TwoJoined
<1> HIDE DEF l, r
<1>5. Len(l) = Len(r)
  BY <1>1, <1>2, <1>3, <1>4
<1>6. ASSUME NEW k \in 1..Len(l) PROVE l[k] = r[k]
  <2>1. CASE k \in 1..Len(u)
    BY <1>2, <1>4, <2>1
  <2>2. CASE k - Len(u) \in 1..Len(v)
    <3> DEFINE i == k - Len(u)
    <3>1. i \in 1..Len(v) /\ i \in 1..Len(vw) /\ Len(u) + i = k
      BY <1>1, <1>2, <1>3, <2>2
    <3> HIDE DEF i
    <3> QED BY <1>2, <1>3, <1>4, <3>1
  <2>3. CASE k - (Len(u) + Len(v)) \in 1..Len(w)
    <3> DEFINE i == k - (Len(u) + Len(v))
    <3>1. /\ i \in 1..Len(w) /\ Len(v) + i \in 1..Len(vw)
          /\ Len(u) + Len(v) + i = k /\ Len(u) + (Len(v) + i) = k
      BY <1>1, <1>2, <1>3, <2>3
    <3> HIDE DEF i
    <3>2. l[k] = w[i]
      BY <1>2, <3>1
    <3>3. r[k] = vw[Len(v) + i]
      BY <1>4, <3>1
    <3> QED BY <1>3, <3>1, <3>2, <3>3
  <2>4. k \in 1..(Len(u) + Len(v) + Len(w))
    BY <1>2
  <2> QED BY <1>1, <2>1, <2>2, <2>3, <2>4
<1>7. l = r
  BY <1>2, <1>4, <1>5, <1>6, SameElements
<1> QED BY <1>7 DEF Regroups, l, r, vw

LEMMA JoinedNone ==
  ASSUME NEW X, NEW u \in Seq(X) PROVE u \o <<>> = u
OBVIOUS

\* Some sequence, of whatever elements.
IsList(s) == \E E : s \in Seq(E)

LEMMA ListAppend ==
  ASSUME NEW s, IsList(s), NEW e
  PROVE  /\ IsList(Append(s, e)) /\ Len(s) \in Nat /\ Len(Append(s, e)) = Len(s) + 1
         /\ Append(s, e)[Len(s) + 1] = e
         /\ \A k \in 1..Len(s) : Append(s, e)[k] = s[k]
<1>1. PICK E : s \in Seq(E)
  BY DEF IsList
<1>2. s \in Seq(E \cup {e})
  BY <1>1
<1> QED BY <1>2, Appended DEF IsList

LEMMA ListReplace ==
  ASSUME NEW s, IsList(s), NEW e, NEW p \in 1..Len(s)
  PROVE  /\ IsList([s EXCEPT ![p] = e]) /\ Len([s EXCEPT ![p] = e]) = Len(s)
         /\ [s EXCEPT ![p] = e][p] = e
         /\ \A k \in 1..Len(s) : k # p => [s EXCEPT ![p] = e][k] = s[k]
<1>1. PICK E : s \in Seq(E)
  BY DEF IsList
<1>2. s \in Seq(E \cup {e})
  BY <1>1
<1> DEFINE t == [s EXCEPT ![p] = e]
<1>3. /\ t \in Seq(E \cup {e}) /\ Len(t) = Len(s) /\ t[p] = e
      /\ \A k \in 1..Len(s) : k # p => t[k] = s[k]
  BY <1>2
<1> QED BY <1>3 DEF IsList

LEMMA SliceTyped ==
  ASSUME NEW X, NEW c \in Seq(X), NEW a \in Nat, a >= 1, NEW b \in Int, b <= Len(c)
  PROVE  SubSeq(c, a, b) \in Seq(X)
OBVIOUS

LEMMA SliceNext ==
  ASSUME NEW X, NEW c \in Seq(X), NEW k \in 1..Len(c), NEW a \in 1..k
  PROVE  SubSeq(c, a, k) = SubSeq(c, a, k - 1) \o <<c[k]>>
<1> DEFINE l == SubSeq(c, a, k)
           b == SubSeq(c, a, k - 1)
           e == <<c[k]>>
           r == b \o e
           n == k - a
<1>1. Len(c) \in Nat /\ k \in Nat /\ a \in Nat /\ n \in Nat /\ c[k] \in X /\ a + n = k
  OBVIOUS
<1>2. l \in Seq(X) /\ Len(l) = n + 1 /\ \A i \in 1..(n + 1) : l[i] = c[a + i - 1]
  BY <1>1
<1>3. b \in Seq(X) /\ Len(b) = n /\ \A i \in 1..n : b[i] = c[a + i - 1]
  BY <1>1
<1>4. e \in Seq(X) /\ Len(e) = 1 /\ e[1] = c[k]
  BY <1>1
<1> HIDE DEF l, b, e, n
<1>5. /\ r \in Seq(X) /\ Len(r) = n + 1
      /\ \A i \in 1..n : r[i] = b[i]
      /\ r[n + 1] = e[1]
  <2>1. /\ r \in Seq(X) /\ Len(r) = Len(b) + Len(e)
        /\ \A i \in 1..Len(b) : r[i] = b[i]
        /\ \A i \in 1..Len(e) : r[Len(b) + i] = e[i]
    <3>1. b \in Seq(X) /\ e \in Seq(X)
      BY <1>3, <1>4
    <3> QED BY <3>1, TwoJoined
  <2> HIDE DEF r
  <2> QED BY <1>3, <1>4, <2>1
<1> HIDE DEF r
<1>6. ASSUME NEW i \in 1..(n + 1) PROVE l[i] = r[i]
  <2>1. i = n + 1 \/ i \in 1..n
    BY <1>1
  <2>2. CASE i = n + 1
    <3>1. l[i] = c[a + i - 1] /\ a + i - 1 = k
      BY <1>1, <1>2, <2>2
    <3> QED BY <1>4, <1>5, <2>2, <3>1
  <2>3. CASE i \in 1..n
    BY <1>2, <1>3, <1>5, <2>3
  <2> QED BY <2>1, <2>2, <2>3
<1>7. l = r
  BY <1>2, <1>5, <1>6, SameElements
<1> QED BY <1>7 DEF l, r, b, e

\* A sequence of sequences, joined.
Joins(f, ss) ==
  /\ f[0] = <<>>
  /\ \A n \in 1..Len(ss) : f[n] = f[n - 1] \o ss[n]

LEMMA JoinExists ==
  ASSUME NEW X, NEW ss \in Seq(Seq(X))
  PROVE  \E f \in [0..Len(ss) -> Seq(X)] : Joins(f, ss)
<1> DEFINE step == [n \in 1..Len(ss) |-> [s \in Seq(X) |-> s \o ss[n]]]
<1>1. step \in [1..Len(ss) -> [Seq(X) -> Seq(X)]] /\ Len(ss) \in Nat /\ <<>> \in Seq(X)
  OBVIOUS
<1>2. \A n \in 1..Len(ss), s \in Seq(X) : step[n][s] = s \o ss[n]
  OBVIOUS
<1> HIDE DEF step
<1>3. PICK f : Passes(f, Seq(X), Len(ss), <<>>, step)
  BY <1>1, Steps
<1>4. /\ f \in [0..Len(ss) -> Seq(X)] /\ f[0] = <<>>
      /\ \A n \in 1..Len(ss) : f[n] = step[n][f[n - 1]]
  BY <1>3 DEF Passes
<1>5. ASSUME NEW n \in 1..Len(ss) PROVE f[n] = f[n - 1] \o ss[n]
  <2>1. n - 1 \in 0..Len(ss)
    BY <1>1
  <2>2. f[n - 1] \in Seq(X)
    BY <1>4, <2>1
  <2> QED BY <1>2, <1>4, <2>2
<1> QED BY <1>4, <1>5 DEF Joins

LEMMA JoinIs ==
  ASSUME NEW X, NEW ss \in Seq(Seq(X)), NEW f \in [0..Len(ss) -> Seq(X)], Joins(f, ss)
  PROVE  FlattenSeq(ss) = f[Len(ss)]
<1>1. Len(ss) \in Nat /\ f[0] = <<>> /\ \A n \in 1..Len(ss) : f[n] = f[n - 1] \o ss[n]
  BY DEF Joins
<1>2. CASE Len(ss) = 0
  <2>1. ss = <<>>
    BY <1>2
  <2> QED BY <1>1, <1>2, <2>1 DEF FlattenSeq
<1>3. CASE Len(ss) # 0
  <2> DEFINE N == Len(ss)
             Is(g) == g = [i \in 1..N |-> IF i = 1 THEN ss[i] ELSE g[i - 1] \o ss[i]]
             h == [i \in 1..N |-> f[i]]
             flatten == CHOOSE g : Is(g)
  <2>1. ASSUME NEW i \in 1..N PROVE f[i] = IF i = 1 THEN ss[i] ELSE h[i - 1] \o ss[i]
    <3>1. CASE i = 1
      <4>1. f[1] = <<>> \o ss[1] /\ ss[1] \in Seq(X)
        <5>1. 1 \in 1..Len(ss) /\ 1 - 1 = 0
          BY <1>1, <3>1
        <5>2. f[1] = f[1 - 1] \o ss[1]
          BY <1>1, <5>1
        <5>3. ss[1] \in Seq(X)
          BY <5>1
        <5> QED BY <1>1, <5>1, <5>2, <5>3
      <4>2. <<>> \o ss[1] = ss[1]
        BY <4>1
      <4> QED BY <3>1, <4>1, <4>2
    <3>2. CASE i # 1
      <4>1. i - 1 \in 1..N
        BY <1>1, <3>2
      <4> QED BY <1>1, <3>2, <4>1
    <3> QED BY <3>1, <3>2
  <2>2. Is(h)
    BY <2>1
  <2> HIDE DEF h
  <2>3. Is(flatten)
    BY <2>2
  <2>4. FlattenSeq(ss) = flatten[N]
    BY <1>3 DEF FlattenSeq
  <2> HIDE DEF flatten
  <2>5. \A i \in 1..N : flatten[i] = IF i = 1 THEN ss[i] ELSE flatten[i - 1] \o ss[i]
    BY <2>3
  <2> HIDE DEF Is
  <2> DEFINE g == [n \in 0..N |-> IF n = 0 THEN <<>> ELSE flatten[n]]
  <2>6. g[0] = <<>> /\ \A n \in 1..N : g[n] = flatten[n]
    BY <1>1
  <2> HIDE DEF g
  <2>7. ASSUME NEW n \in 1..N, f[n - 1] = g[n - 1] PROVE f[n] = g[n]
    <3>1. CASE n = 1
      <4>1. f[1] = <<>> \o ss[1] /\ ss[1] \in Seq(X)
        <5>1. 1 \in 1..Len(ss) /\ 1 - 1 = 0
          BY <1>1, <3>1
        <5>2. f[1] = f[1 - 1] \o ss[1]
          BY <1>1, <5>1
        <5>3. ss[1] \in Seq(X)
          BY <5>1
        <5> QED BY <1>1, <5>1, <5>2, <5>3
      <4>2. <<>> \o ss[1] = ss[1]
        BY <4>1
      <4> QED BY <2>5, <2>6, <3>1, <4>1, <4>2
    <3>2. CASE n # 1
      <4>1. n - 1 \in 1..N
        BY <1>1, <3>2
      <4>2. f[n] = f[n - 1] \o ss[n]
        BY <1>1
      <4>3. flatten[n] = flatten[n - 1] \o ss[n]
        BY <2>5, <3>2
      <4>4. g[n] = flatten[n] /\ g[n - 1] = flatten[n - 1]
        BY <2>6, <4>1
      <4> QED BY <2>7, <4>2, <4>3, <4>4
    <3> QED BY <3>1, <3>2
  <2>8. \A n \in 0..N : f[n] = g[n]
    <3>1. N \in Nat /\ Alike(f, g, N)
      BY <1>1, <2>6, <2>7 DEF Alike
    <3> QED BY <3>1, SameSteps
  <2>9. N \in 0..N /\ N \in 1..N
    BY <1>1, <1>3
  <2> QED BY <2>4, <2>6, <2>8, <2>9
<1> QED BY <1>2, <1>3

\* Joining one more appends it.
LEMMA FlattenAppend ==
  ASSUME NEW X, NEW ss \in Seq(Seq(X)), NEW t \in Seq(X)
  PROVE  /\ FlattenSeq(ss) \in Seq(X)
         /\ FlattenSeq(Append(ss, t)) = FlattenSeq(ss) \o t
<1> DEFINE tt == Append(ss, t)
           N  == Len(ss)
<1>1. /\ tt \in Seq(Seq(X)) /\ Len(tt) = N + 1 /\ N \in Nat /\ tt[N + 1] = t
      /\ \A n \in 1..N : tt[n] = ss[n]
  OBVIOUS
<1> HIDE DEF tt
<1>2. PICK f \in [0..Len(tt) -> Seq(X)] : Joins(f, tt)
  BY <1>1, JoinExists
<1>3. f[0] = <<>> /\ \A n \in 1..(N + 1) : f[n] = f[n - 1] \o tt[n]
  BY <1>1, <1>2 DEF Joins
<1> DEFINE h == [n \in 0..N |-> f[n]]
<1>4. h \in [0..N -> Seq(X)] /\ \A n \in 0..N : h[n] = f[n]
  BY <1>1, <1>2
<1> HIDE DEF h
<1>5. Joins(h, ss)
  <2>1. h[0] = <<>>
    BY <1>1, <1>3, <1>4
  <2>2. ASSUME NEW n \in 1..N PROVE h[n] = h[n - 1] \o ss[n]
    <3>1. n \in 0..N /\ n - 1 \in 0..N /\ n \in 1..(N + 1)
      BY <1>1
    <3> QED BY <1>1, <1>3, <1>4, <3>1
  <2> QED BY <2>1, <2>2 DEF Joins
<1>6. FlattenSeq(ss) = h[N]
  BY <1>4, <1>5, JoinIs
<1>7. FlattenSeq(tt) = f[N + 1]
  BY <1>1, <1>2, JoinIs
<1>8. f[N + 1] = f[N] \o t /\ h[N] = f[N] /\ h[N] \in Seq(X)
  <2>1. N + 1 \in 1..(N + 1) /\ (N + 1) - 1 = N /\ N \in 0..N
    BY <1>1
  <2> QED BY <1>1, <1>3, <1>4, <2>1
<1> QED BY <1>6, <1>7, <1>8 DEF tt

LEMMA FlattenEmpty == FlattenSeq(<<>>) = <<>>
BY DEF FlattenSeq

\* Joining nothing to nothing.
LEMMA FlattenBlank ==
  ASSUME NEW X, NEW ss \in Seq(Seq(X)), \A k \in 1..Len(ss) : ss[k] = <<>>
  PROVE  FlattenSeq(ss) = <<>>
<1> DEFINE N == Len(ss)
<1>0. N \in Nat
  OBVIOUS
<1>1. PICK f \in [0..N -> Seq(X)] : Joins(f, ss)
  BY JoinExists
<1>2. f[0] = <<>> /\ \A n \in 1..N : f[n] = f[n - 1] \o ss[n]
  BY <1>1 DEF Joins
<1>3. FlattenSeq(ss) = f[N]
  BY <1>1, JoinIs
<1> HIDE DEF N
<1> DEFINE S == {n \in 0..N : f[n] = <<>>}
<1>4. 0 \in S
  BY <1>0, <1>2
<1>5. ASSUME NEW n \in 1..N, n - 1 \in S PROVE n \in S
  <2>1. <<>> \o <<>> = <<>>
    OBVIOUS
  <2>2. n \in 0..N
    BY <1>0
  <2>3. f[n - 1] = <<>>
    BY <1>5
  <2>4. ss[n] = <<>>
    BY DEF N
  <2>5. f[n] = <<>>
    BY <1>2, <2>1, <2>3, <2>4
  <2> QED BY <2>2, <2>5
<1> HIDE DEF S
<1>6. \A n \in 0..N : n \in S
  BY <1>0, <1>4, <1>5, Climb
<1>7. N \in S
  BY <1>0, <1>6
<1> QED BY <1>3, <1>7 DEF S

LEMMA FlattenType ==
  ASSUME NEW X, NEW ss \in Seq(Seq(X)) PROVE FlattenSeq(ss) \in Seq(X)
<1>1. <<>> \in Seq(X)
  OBVIOUS
<1> QED BY <1>1, FlattenAppend

----------------------------------------------------------------------------
(* Slices picked from others.                                              *)

\* The slice as it grows.
Picks(f, s, P) ==
  /\ f[0] = <<>>
  /\ \A n \in 1..Len(s) : f[n] = IF n \in P THEN Append(f[n - 1], s[n]) ELSE f[n - 1]

LEMMA PicksExist ==
  ASSUME NEW X, NEW s \in Seq(X), NEW P
  PROVE  \E f \in [0..Len(s) -> Seq(X)] : Picks(f, s, P)
<1> DEFINE next(n, t) == IF n \in P THEN Append(t, s[n]) ELSE t
           step == [n \in 1..Len(s) |-> [t \in Seq(X) |-> next(n, t)]]
<1>1. Len(s) \in Nat /\ <<>> \in Seq(X) /\ \A n \in 1..Len(s) : s[n] \in X
  OBVIOUS
<1>2. \A n \in 1..Len(s), t \in Seq(X) : next(n, t) \in Seq(X)
  BY <1>1
<1>3. /\ step \in [1..Len(s) -> [Seq(X) -> Seq(X)]]
      /\ \A n \in 1..Len(s), t \in Seq(X) : step[n][t] = next(n, t)
  BY <1>2
<1> HIDE DEF step
<1>4. PICK f : Passes(f, Seq(X), Len(s), <<>>, step)
  BY <1>1, <1>3, Steps
<1>5. /\ f \in [0..Len(s) -> Seq(X)] /\ f[0] = <<>>
      /\ \A n \in 1..Len(s) : f[n] = step[n][f[n - 1]]
  BY <1>4 DEF Passes
<1>6. \A n \in 1..Len(s) : f[n] = next(n, f[n - 1])
  <2>1. \A n \in 1..Len(s) : n - 1 \in 0..Len(s)
    BY <1>1
  <2> HIDE DEF next
  <2> QED BY <1>3, <1>5, <2>1
<1> QED BY <1>5, <1>6 DEF Picks

LEMMA PickedIs ==
  ASSUME NEW s, Len(s) \in Nat, NEW P, NEW f, Picks(f, s, P)
  PROVE  Picked(s, P) = f[Len(s)]
<1> DEFINE N == Len(s)
           next(n, t) == IF n \in P THEN Append(t, s[n]) ELSE t
           Is(g) == g = [n \in 0..N |->
                           IF n = 0 THEN <<>>
                           ELSE IF n \in P THEN Append(g[n - 1], s[n]) ELSE g[n - 1]]
           h == [n \in 0..N |-> f[n]]
           upTo == CHOOSE g : Is(g)
<1>1. N \in Nat /\ f[0] = <<>> /\ \A n \in 1..N : f[n] = next(n, f[n - 1])
  BY DEF Picks
<1>2. Is(h)
  <2>1. ASSUME NEW n \in 0..N
        PROVE  f[n] = IF n = 0 THEN <<>>
                      ELSE IF n \in P THEN Append(h[n - 1], s[n]) ELSE h[n - 1]
    <3>1. n # 0 => n - 1 \in 0..N /\ n \in 1..N
      BY <1>1
    <3> QED BY <1>1, <3>1
  <2> QED BY <2>1
<1> HIDE DEF h
<1>3. Is(upTo)
  BY <1>2
<1>4. Picked(s, P) = upTo[N]
  BY DEF Picked
<1> HIDE DEF upTo
<1>5. \A n \in 0..N : upTo[n] = IF n = 0 THEN <<>> ELSE next(n, upTo[n - 1])
  BY <1>3
<1> HIDE DEF Is, next
<1>6. Alike(f, upTo, N)
  <2>1. 0 \in 0..N /\ \A n \in 1..N : n \in 0..N /\ n # 0
    BY <1>1
  <2>2. f[0] = upTo[0]
    BY <1>1, <1>5, <2>1
  <2>3. ASSUME NEW n \in 1..N, f[n - 1] = upTo[n - 1] PROVE f[n] = upTo[n]
    BY <1>1, <1>5, <2>1, <2>3
  <2> QED BY <2>2, <2>3 DEF Alike
<1>7. \A n \in 0..N : f[n] = upTo[n]
  BY <1>1, <1>6, SameSteps
<1>8. N \in 0..N
  BY <1>1
<1> QED BY <1>4, <1>7, <1>8

LEMMA PickedType ==
  ASSUME NEW X, NEW s \in Seq(X), NEW P
  PROVE  Picked(s, P) \in Seq(X)
<1>1. PICK f \in [0..Len(s) -> Seq(X)] : Picks(f, s, P)
  BY PicksExist
<1>2. Len(s) \in Nat /\ Len(s) \in 0..Len(s)
  OBVIOUS
<1>3. Picked(s, P) = f[Len(s)]
  BY <1>1, <1>2, PickedIs
<1> QED BY <1>2, <1>3

\* Only the positions of s tell.
LEMMA PickedSame ==
  ASSUME NEW X, NEW s \in Seq(X), NEW P, NEW Q, \A n \in 1..Len(s) : n \in P <=> n \in Q
  PROVE  Picked(s, P) = Picked(s, Q)
<1>1. PICK f \in [0..Len(s) -> Seq(X)] : Picks(f, s, P)
  BY PicksExist
<1>2. Len(s) \in Nat
  OBVIOUS
<1>3. Picks(f, s, Q)
  BY <1>1 DEF Picks
<1> QED BY <1>1, <1>2, <1>3, PickedIs

LEMMA OneMore ==
  ASSUME NEW X, NEW t \in Seq(X), NEW x \in X
  PROVE  Range(t) \subseteq Range(Append(t, x)) /\ x \in Range(Append(t, x))
<1> DEFINE u == Append(t, x)
<1>1. DOMAIN t = 1..Len(t) /\ DOMAIN u = 1..(Len(t) + 1) /\ Len(t) \in Nat
  OBVIOUS
<1>2. u[Len(t) + 1] = x
  OBVIOUS
<1>3. \A k \in 1..Len(t) : u[k] = t[k]
  OBVIOUS
<1> HIDE DEF u
<1> QED BY <1>1, <1>2, <1>3 DEF u, Range

\* What is picked is in the slice.
LEMMA PickedHas ==
  ASSUME NEW X, NEW s \in Seq(X), NEW P
  PROVE  \A k \in 1..Len(s) : k \in P => s[k] \in Range(Picked(s, P))
<1>1. PICK f \in [0..Len(s) -> Seq(X)] : Picks(f, s, P)
  BY PicksExist
<1> DEFINE N == Len(s)
           Has(n) == \A k \in 1..n : k \in P => s[k] \in Range(f[n])
           Bad == {n \in 0..N : ~Has(n)}
<1>2. N \in Nat /\ f \in [0..N -> Seq(X)] /\ \A k \in 1..N : s[k] \in X
  BY <1>1
<1>3. \A n \in 1..N : f[n] = IF n \in P THEN Append(f[n - 1], s[n]) ELSE f[n - 1]
  BY <1>1 DEF Picks
<1>4. Picked(s, P) = f[N]
  BY <1>1, <1>2, PickedIs
<1> SUFFICES Bad = {}
  <2>1. N \in 0..N
    BY <1>2
  <2> QED BY <1>4, <2>1
<1> SUFFICES ASSUME Bad # {} PROVE FALSE
  OBVIOUS
<1>5. Bad \in SUBSET Nat
  OBVIOUS
<1>6. PICK n \in Bad : \A m \in Bad : n <= m
  BY <1>5, LeastOf
<1>7. n \in 0..N /\ ~Has(n)
  BY <1>6
<1>8. n \in 1..N /\ n - 1 \in 0..N /\ ~(n <= n - 1)
  <2>1. Has(0)
    OBVIOUS
  <2>2. n # 0
    BY <1>7, <2>1
  <2> QED BY <1>2, <1>7, <2>2
<1>9. Has(n - 1)
  BY <1>6, <1>8
<1>10. f[n - 1] \in Seq(X) /\ f[n] \in Seq(X) /\ s[n] \in X
  BY <1>2, <1>7, <1>8
<1>11. Range(f[n - 1]) \subseteq Range(f[n]) /\ (n \in P => s[n] \in Range(f[n]))
  <2>1. CASE n \in P
    <3>1. f[n] = Append(f[n - 1], s[n])
      BY <1>3, <1>8, <2>1
    <3> QED BY <1>10, <3>1, OneMore
  <2>2. CASE n \notin P
    BY <1>3, <1>8, <2>2
  <2> QED BY <2>1, <2>2
<1>12. Has(n)
  <2> SUFFICES ASSUME NEW k \in 1..n, k \in P PROVE s[k] \in Range(f[n])
    OBVIOUS
  <2>1. k = n \/ k \in 1..(n - 1)
    BY <1>8
  <2> QED BY <1>9, <1>11, <2>1
<1> QED BY <1>7, <1>12
----------------------------------------------------------------------------
(* Counting.                                                               *)

LEMMA CountNext ==
  ASSUME NEW n \in Nat \ {0}, NEW P
  PROVE  /\ IsFiniteSet(P \cap (1..n)) /\ Cardinality(P \cap (1..n)) \in Nat
         /\ Cardinality(P \cap (1..n)) =
              IF n \in P THEN Cardinality(P \cap (1..(n - 1))) + 1
              ELSE Cardinality(P \cap (1..(n - 1)))
<1> DEFINE A == P \cap (1..n)
           B == P \cap (1..(n - 1))
<1>1. IsFiniteSet(1..n) /\ IsFiniteSet(1..(n - 1))
  BY FS_Interval
<1>2. IsFiniteSet(A) /\ IsFiniteSet(B)
  <2>1. A \in SUBSET (1..n) /\ B \in SUBSET (1..(n - 1))
    OBVIOUS
  <2> HIDE DEF A, B
  <2> QED BY <1>1, <2>1, FS_Subset
<1>3. Cardinality(A) \in Nat
  BY <1>2, FS_CardinalityType
<1>4. n \notin B /\ (n \in P => A = B \cup {n}) /\ (n \notin P => A = B)
  OBVIOUS
<1> HIDE DEF A, B
<1>5. Cardinality(A) = IF n \in P THEN Cardinality(B) + 1 ELSE Cardinality(B)
  BY <1>2, <1>4, FS_AddElement
<1> QED BY <1>2, <1>3, <1>5 DEF A, B

LEMMA CountNone ==
  ASSUME NEW P PROVE Cardinality(P \cap (1..0)) = 0
<1>1. P \cap (1..0) = {}
  OBVIOUS
<1> QED BY <1>1, FS_EmptySet

\* As many are picked as there are positions.
CountsUp(f, s, P) ==
  \A n \in 0..Len(s) : Len(f[n]) = Cardinality(P \cap (1..n))

LEMMA PicksCount ==
  ASSUME NEW X, NEW s \in Seq(X), NEW P,
         NEW f \in [0..Len(s) -> Seq(X)], Picks(f, s, P)
  PROVE  CountsUp(f, s, P)
<1> DEFINE N == Len(s)
           Counted == {n \in 0..N : Len(f[n]) = Cardinality(P \cap (1..n))}
<1>1. N \in Nat /\ \A k \in 1..N : s[k] \in X
  OBVIOUS
<1>2. f[0] = <<>>
      /\ \A n \in 1..N : f[n] = IF n \in P THEN Append(f[n - 1], s[n]) ELSE f[n - 1]
  BY DEF Picks
<1>3. 0 \in Counted
  <2>1. Len(f[0]) = 0 /\ 0 \in 0..N
    BY <1>1, <1>2
  <2> QED BY <2>1, CountNone
<1>4. ASSUME NEW n \in 1..N, n - 1 \in Counted PROVE n \in Counted
  <2>1. n - 1 \in 0..N /\ n \in 0..N /\ n \in Nat \ {0}
    BY <1>1
  <2>2. Len(f[n - 1]) = Cardinality(P \cap (1..(n - 1)))
    BY <1>4
  <2>3. f[n - 1] \in Seq(X) /\ s[n] \in X
    BY <1>1, <2>1
  <2>4. CASE n \in P
    <3>1. f[n] = Append(f[n - 1], s[n])
      BY <1>2, <2>4
    <3>2. Len(f[n]) = Len(f[n - 1]) + 1
      BY <2>3, <3>1, Appended
    <3>3. Cardinality(P \cap (1..n)) = Cardinality(P \cap (1..(n - 1))) + 1
      BY <2>1, <2>4, CountNext
    <3> QED BY <2>1, <2>2, <3>2, <3>3
  <2>5. CASE n \notin P
    <3>1. f[n] = f[n - 1]
      BY <1>2, <2>5
    <3>3. Cardinality(P \cap (1..n)) = Cardinality(P \cap (1..(n - 1)))
      BY <2>1, <2>5, CountNext
    <3> QED BY <2>1, <2>2, <3>1, <3>3
  <2> QED BY <2>4, <2>5
<1> HIDE DEF Counted
<1>5. \A n \in 0..N : n \in Counted
  BY <1>1, <1>3, <1>4, Climb
<1> QED BY <1>5 DEF CountsUp, Counted

\* Where a value stands.
Places(s, v) == {i \in DOMAIN s : s[i] = v}

LEMMA PlacesFinite ==
  ASSUME NEW X, NEW s \in Seq(X), NEW v, NEW P
  PROVE  /\ IsFiniteSet(Places(s, v) \cap P) /\ Cardinality(Places(s, v) \cap P) \in Nat
         /\ IsFiniteSet(Places(s, v)) /\ Cardinality(Places(s, v)) \in Nat
<1>1. IsFiniteSet(1..Len(s)) /\ DOMAIN s = 1..Len(s)
  <2>1. Len(s) \in Int /\ 1 \in Int
    OBVIOUS
  <2> QED BY <2>1, FS_Interval
<1>2. Places(s, v) \in SUBSET (1..Len(s)) /\ Places(s, v) \cap P \in SUBSET (1..Len(s))
  BY <1>1 DEF Places
<1>3. IsFiniteSet(Places(s, v)) /\ IsFiniteSet(Places(s, v) \cap P)
  BY <1>1, <1>2, FS_Subset
<1> QED BY <1>3, FS_CardinalityType

LEMMA PlacesAppend ==
  ASSUME NEW X, NEW t \in Seq(X), NEW x \in X, NEW v
  PROVE  Cardinality(Places(Append(t, x), v)) =
           IF x = v THEN Cardinality(Places(t, v)) + 1 ELSE Cardinality(Places(t, v))
<1> DEFINE n == Len(t)
           u == Append(t, x)
<1>1. n \in Nat /\ DOMAIN t = 1..n /\ DOMAIN u = 1..(n + 1) /\ u[n + 1] = x
      /\ \A k \in 1..n : u[k] = t[k]
  OBVIOUS
<1> HIDE DEF u, n
<1>2. n + 1 \notin Places(t, v)
  BY <1>1 DEF Places
<1>3. \A k : k \in Places(u, v) <=> k \in Places(t, v) \/ (k = n + 1 /\ x = v)
  <2>1. \A k : k \in 1..(n + 1) <=> k \in 1..n \/ k = n + 1
    BY <1>1
  <2>2. n + 1 \notin 1..n
    BY <1>1
  <2> QED BY <1>1, <2>1, <2>2 DEF Places
<1>4. CASE x = v
  <2>1. Places(u, v) = Places(t, v) \cup {n + 1}
    BY <1>3, <1>4
  <2>2. IsFiniteSet(Places(t, v))
    BY PlacesFinite
  <2> QED BY <1>2, <1>4, <2>1, <2>2, FS_AddElement DEF u
<1>5. CASE x # v
  <2>1. Places(u, v) = Places(t, v)
    BY <1>3, <1>5
  <2> QED BY <1>5, <2>1 DEF u
<1> QED BY <1>4, <1>5

\* How often a value stands in a slice put behind another.
CountsSlice(u, c, a, b, v) ==
  Cardinality(Places(u \o SubSeq(c, a + 1, b), v))
    = Cardinality(Places(u, v)) + Cardinality(Places(c, v) \cap (a + 1..b))

LEMMA SliceCounted ==
  ASSUME NEW X, NEW u \in Seq(X), NEW c \in Seq(X), NEW v,
         NEW a \in 0..Len(c), NEW b \in a..Len(c)
  PROVE  CountsSlice(u, c, a, b, v)
<1> DEFINE M == b - a
           S == {m \in 0..M : CountsSlice(u, c, a, a + m, v)}
<1>1. a \in Nat /\ b \in Nat /\ M \in Nat /\ Len(c) \in Nat /\ a + M = b /\ a + M <= Len(c)
  OBVIOUS
<1> HIDE DEF M
<1>2. 0 \in S
  <2>1. SubSeq(c, a + 1, a) = <<>>
    BY <1>1
  <2>2. u \o <<>> = u
    BY JoinedNone
  <2>3. Places(c, v) \cap (a + 1..a) = {}
    BY <1>1
  <2>4. Cardinality(Places(u, v)) \in Nat /\ Cardinality({}) = 0
    BY PlacesFinite, FS_EmptySet
  <2>7. u \o SubSeq(c, a + 1, a) = u
    BY <2>1, <2>2
  <2>5. CountsSlice(u, c, a, a, v)
    <3>1. Cardinality(Places(u, v)) = Cardinality(Places(u, v)) + Cardinality({})
      BY <2>4
    <3> QED BY ONLY <2>3, <2>7, <3>1 DEF CountsSlice
  <2>6. a + 0 = a /\ 0 \in 0..M
    BY <1>1
  <2> QED BY <2>5, <2>6
<1>3. ASSUME NEW m \in 1..M, m - 1 \in S PROVE m \in S
  <2> DEFINE k == a + m
             A == Places(c, v) \cap (a + 1..k)
             B == Places(c, v) \cap (a + 1..(k - 1))
             w == SubSeq(c, a + 1, k - 1)
  <2>1. /\ k \in 1..Len(c) /\ a + 1 \in 1..k /\ a + (m - 1) = k - 1 /\ m \in 0..M
        /\ c[k] \in X /\ DOMAIN c = 1..Len(c) /\ a + 1 \in Nat /\ a + 1 >= 1
        /\ k - 1 \in Int /\ k - 1 <= Len(c)
    BY <1>1
  <2>2. CountsSlice(u, c, a, k - 1, v)
    BY <1>3, <2>1
  <2> HIDE DEF k, S
  <2>3. SubSeq(c, a + 1, k) = w \o <<c[k]>> /\ w \in Seq(X)
    BY <2>1, SliceNext, SliceTyped
  <2> HIDE DEF w
  <2>4. u \o (w \o <<c[k]>>) = Append(u \o w, c[k]) /\ u \o w \in Seq(X)
    <3>1. <<c[k]>> \in Seq(X)
      BY <2>1
    <3>2. Regroups(u, w, <<c[k]>>)
      BY <2>3, <3>1, JoinedAlong
    <3>3. u \o w \in Seq(X)
      BY <2>3
    <3> DEFINE uw == u \o w
    <3> HIDE DEF uw
    <3>4. uw \o <<c[k]>> = Append(uw, c[k])
      BY <2>1, <3>3 DEF uw
    <3> QED BY <3>2, <3>3, <3>4 DEF Regroups, uw
  <2>5. k \notin B /\ \A i : i \in A <=> i \in B \/ (i = k /\ c[k] = v)
    <3>1. \A i : i \in (a + 1..k) <=> i \in (a + 1..(k - 1)) \/ i = k
      BY <1>1, <2>1
    <3>2. k \notin (a + 1..(k - 1))
      BY <1>1, <2>1
    <3> QED BY <2>1, <3>1, <3>2 DEF Places
  <2>6. IsFiniteSet(B) /\ Cardinality(B) \in Nat /\ Cardinality(Places(u, v)) \in Nat
    BY PlacesFinite
  <2>7. Cardinality(A) = IF c[k] = v THEN Cardinality(B) + 1 ELSE Cardinality(B)
    <3>1. c[k] = v => A = B \cup {k}
      BY <2>5
    <3>2. c[k] # v => A = B
      BY <2>5
    <3> HIDE DEF A, B
    <3> QED BY <2>5, <2>6, <3>1, <3>2, FS_AddElement
  <2>8. Cardinality(Places(u \o w, v)) = Cardinality(Places(u, v)) + Cardinality(B)
    BY <2>2 DEF CountsSlice, w
  <2> HIDE DEF A, B
  <2>9. Cardinality(Places(Append(u \o w, c[k]), v))
          = IF c[k] = v THEN Cardinality(Places(u \o w, v)) + 1
            ELSE Cardinality(Places(u \o w, v))
    <3> DEFINE uw == u \o w
               x == c[k]
    <3>1. uw \in Seq(X) /\ x \in X
      BY <2>1, <2>4
    <3> HIDE DEF uw, x
    <3>2. Cardinality(Places(Append(uw, x), v))
            = IF x = v THEN Cardinality(Places(uw, v)) + 1 ELSE Cardinality(Places(uw, v))
      BY <3>1, PlacesAppend
    <3> QED BY <3>2 DEF uw, x
  <2>10. Cardinality(Places(Append(u \o w, c[k]), v)) = Cardinality(Places(u, v)) + Cardinality(A)
    BY <2>6, <2>7, <2>8, <2>9
  <2>11. CountsSlice(u, c, a, k, v)
    BY <2>3, <2>4, <2>10 DEF CountsSlice, A
  <2> QED BY <2>1, <2>11 DEF S, k
<1> HIDE DEF S
<1>4. \A m \in 0..M : m \in S
  BY <1>1, <1>2, <1>3, Climb
<1>5. M \in S
  BY <1>1, <1>4
<1> QED BY <1>1, <1>5 DEF S

\* What is picked, element by element.
LEMMA PickedOnly ==
  ASSUME NEW X, NEW s \in Seq(X), NEW P
  PROVE  /\ Len(Picked(s, P)) = Cardinality(P \cap (1..Len(s)))
         /\ \A k \in 1..Len(Picked(s, P)) : \E i \in P \cap (1..Len(s)) : Picked(s, P)[k] = s[i]
<1>1. PICK f \in [0..Len(s) -> Seq(X)] : Picks(f, s, P)
  BY PicksExist
<1> DEFINE N == Len(s)
           From(n) == \A k \in 1..Len(f[n]) : \E i \in P \cap (1..N) : f[n][k] = s[i]
           S == {n \in 0..N : From(n)}
<1>2. N \in Nat /\ N \in 0..N /\ (\A k \in 1..N : s[k] \in X) /\ f[0] = <<>>
      /\ \A n \in 1..N : f[n] = IF n \in P THEN Append(f[n - 1], s[n]) ELSE f[n - 1]
  BY <1>1 DEF Picks
<1>3. Picked(s, P) = f[N]
  BY <1>1, <1>2, PickedIs
<1>4. Len(f[N]) = Cardinality(P \cap (1..N))
  <2>1. CountsUp(f, s, P)
    BY <1>1, PicksCount
  <2> QED BY <1>2, <2>1 DEF CountsUp
<1>5. 0 \in S
  BY <1>2
<1>6. ASSUME NEW n \in 1..N, n - 1 \in S PROVE n \in S
  <2>1. n - 1 \in 0..N /\ n \in 0..N /\ f[n - 1] \in Seq(X) /\ s[n] \in X /\ From(n - 1)
    BY <1>1, <1>2, <1>6
  <2>2. CASE n \in P
    <3> DEFINE t == f[n - 1]
    <3>1. f[n] = Append(t, s[n])
      BY <1>2, <2>2
    <3>2. Len(f[n]) = Len(t) + 1 /\ f[n][Len(t) + 1] = s[n] /\ Len(t) \in Nat
          /\ \A k \in 1..Len(t) : f[n][k] = t[k]
      BY <2>1, <3>1, Appended
    <3>3. \A k \in 1..Len(t) : \E i \in P \cap (1..N) : t[k] = s[i]
      BY <2>1
    <3> HIDE DEF t
    <3>4. ASSUME NEW k \in 1..Len(f[n]) PROVE \E i \in P \cap (1..N) : f[n][k] = s[i]
      <4>1. k \in 1..Len(t) \/ k = Len(t) + 1
        BY <3>2
      <4> QED BY <2>2, <3>2, <3>3, <4>1
    <3> QED BY <2>1, <3>4
  <2>3. CASE n \notin P
    <3>1. f[n] = f[n - 1]
      BY <1>2, <2>3
    <3> QED BY <2>1, <3>1
  <2> QED BY <2>2, <2>3
<1> HIDE DEF S
<1>7. \A n \in 0..N : n \in S
  BY <1>2, <1>5, <1>6, Climb
<1>8. N \in S
  BY <1>2, <1>7
<1> QED BY <1>3, <1>4, <1>8 DEF S
=============================================================================
