----------------------------- MODULE ToolProofs -----------------------------
(***************************************************************************)
(* What holds of a call of a tool, for every command, every file and every *)
(* bound.                                                                  *)
(***************************************************************************)
EXTENDS ToolCalls, StepLemmas, FiniteSetTheorems

----------------------------------------------------------------------------
(* The pattern of a glob.                                                  *)

\* Segment k of p takes exactly one of the segments a + 1 to j of the path.
Takes(deal, p, k, path, a, j) ==
  \E t \in (a + 1)..j :
    /\ deal[t] = k /\ SegmentMatches(p[k], path[t])
    /\ \A u \in (a + 1)..j : deal[u] = k => u = t

\* The segments a + 1 to j of the path, dealt out to the first i of p.
Deals(deal, p, i, path, a, j) ==
  /\ deal \in [(a + 1)..j -> 1..i]
  /\ \A t, u \in (a + 1)..j : t <= u => deal[t] <= deal[u]
  /\ \A k \in 1..i : p[k] # Globstar => Takes(deal, p, k, path, a, j)

Can(p, i, path, a, j) == \E deal : Deals(deal, p, i, path, a, j)

LEMMA DealNone ==
  ASSUME NEW p, NEW path, NEW a \in Nat, NEW j \in Nat, a <= j
  PROVE  Can(p, 0, path, a, j) <=> j = a
<1>1. ASSUME NEW deal, Deals(deal, p, 0, path, a, j), j # a PROVE FALSE
  <2>1. deal \in [(a + 1)..j -> 1..0] /\ j \in (a + 1)..j
    BY <1>1 DEF Deals
  <2>2. deal[j] \in 1..0
    BY <2>1
  <2> QED BY <2>2
<1>2. ASSUME j = a PROVE Can(p, 0, path, a, j)
  <2>1. (a + 1)..j = {} /\ 1..0 = {}
    BY <1>2
  <2>2. Deals([t \in (a + 1)..j |-> 1], p, 0, path, a, j)
    BY <2>1 DEF Deals
  <2> QED BY <2>2 DEF Can
<1> QED BY <1>1, <1>2 DEF Can

\* The last segment of p takes none of the path's, or the last one and maybe more.
LEMMA DealGlobstar ==
  ASSUME NEW p, NEW path, NEW i \in Nat, NEW a \in Nat, NEW j \in Nat, a <= j,
         p[i + 1] = Globstar
  PROVE  Can(p, i + 1, path, a, j)
         <=> Can(p, i, path, a, j) \/ (j > a /\ Can(p, i + 1, path, a, j - 1))
<1>1. ASSUME NEW deal, Deals(deal, p, i + 1, path, a, j), j = a \/ deal[j] # i + 1
      PROVE  Deals(deal, p, i, path, a, j)
  <2>1. /\ deal \in [(a + 1)..j -> 1..(i + 1)]
        /\ \A t, u \in (a + 1)..j : t <= u => deal[t] <= deal[u]
        /\ \A k \in 1..(i + 1) : p[k] # Globstar => Takes(deal, p, k, path, a, j)
    BY <1>1 DEF Deals
  <2>2. ASSUME NEW t \in (a + 1)..j PROVE deal[t] \in 1..i
    <3>1. j \in (a + 1)..j /\ t <= j /\ j # a
      OBVIOUS
    <3>2. deal[t] \in 1..(i + 1) /\ deal[j] \in 1..(i + 1) /\ deal[t] <= deal[j]
      BY <2>1, <3>1
    <3> QED BY <1>1, <3>1, <3>2
  <2>3. deal \in [(a + 1)..j -> 1..i]
    BY <2>1, <2>2
  <2>4. \A k \in 1..i : k \in 1..(i + 1)
    OBVIOUS
  <2> QED BY <2>1, <2>3, <2>4 DEF Deals
<1>2. ASSUME NEW deal, Deals(deal, p, i + 1, path, a, j), j # a, deal[j] = i + 1
      PROVE  j > a /\ Can(p, i + 1, path, a, j - 1)
  <2>1. /\ deal \in [(a + 1)..j -> 1..(i + 1)]
        /\ \A t, u \in (a + 1)..j : t <= u => deal[t] <= deal[u]
        /\ \A k \in 1..(i + 1) : p[k] # Globstar => Takes(deal, p, k, path, a, j)
    BY <1>2 DEF Deals
  <2> DEFINE rest == [t \in (a + 1)..(j - 1) |-> deal[t]]
  <2>2. /\ \A t \in (a + 1)..(j - 1) : rest[t] = deal[t] /\ t \in (a + 1)..j
        /\ \A t \in (a + 1)..j : t = j \/ t \in (a + 1)..(j - 1)
    OBVIOUS
  <2>3. rest \in [(a + 1)..(j - 1) -> 1..(i + 1)]
    BY <2>1, <2>2
  <2> HIDE DEF rest
  <2>4. \A t, u \in (a + 1)..(j - 1) : t <= u => rest[t] <= rest[u]
    BY <2>1, <2>2
  <2>5. ASSUME NEW k \in 1..(i + 1), p[k] # Globstar PROVE Takes(rest, p, k, path, a, j - 1)
    <3>1. k # i + 1
      BY <2>5
    <3>2. PICK t \in (a + 1)..j :
            /\ deal[t] = k /\ SegmentMatches(p[k], path[t])
            /\ \A u \in (a + 1)..j : deal[u] = k => u = t
      BY <2>1, <2>5 DEF Takes
    <3>3. t \in (a + 1)..(j - 1)
      BY <1>2, <2>2, <3>1, <3>2
    <3> QED BY <2>2, <3>2, <3>3 DEF Takes
  <2>6. Deals(rest, p, i + 1, path, a, j - 1)
    BY <2>3, <2>4, <2>5 DEF Deals
  <2>7. j > a
    BY <1>2
  <2> QED BY <2>6, <2>7 DEF Can
<1>3. ASSUME NEW deal, Deals(deal, p, i, path, a, j) PROVE Can(p, i + 1, path, a, j)
  <2>1. /\ deal \in [(a + 1)..j -> 1..i]
        /\ \A t, u \in (a + 1)..j : t <= u => deal[t] <= deal[u]
        /\ \A k \in 1..i : p[k] # Globstar => Takes(deal, p, k, path, a, j)
    BY <1>3 DEF Deals
  <2>2. deal \in [(a + 1)..j -> 1..(i + 1)]
    <3>1. \A x \in 1..i : x \in 1..(i + 1)
      OBVIOUS
    <3> QED BY <2>1, <3>1
  <2>3. \A k \in 1..(i + 1) : k = i + 1 \/ k \in 1..i
    OBVIOUS
  <2>4. Deals(deal, p, i + 1, path, a, j)
    BY <2>1, <2>2, <2>3 DEF Deals
  <2> QED BY <2>4 DEF Can
<1>4. ASSUME j > a, NEW deal, Deals(deal, p, i + 1, path, a, j - 1)
      PROVE  Can(p, i + 1, path, a, j)
  <2>1. /\ deal \in [(a + 1)..(j - 1) -> 1..(i + 1)]
        /\ \A t, u \in (a + 1)..(j - 1) : t <= u => deal[t] <= deal[u]
        /\ \A k \in 1..(i + 1) : p[k] # Globstar => Takes(deal, p, k, path, a, j - 1)
    BY <1>4 DEF Deals
  <2> DEFINE more == [t \in (a + 1)..j |-> IF t = j THEN i + 1 ELSE deal[t]]
  <2>2. /\ \A t \in (a + 1)..(j - 1) : t \in (a + 1)..j /\ t # j
        /\ \A t \in (a + 1)..j : t = j \/ t \in (a + 1)..(j - 1)
        /\ j \in (a + 1)..j /\ i + 1 \in 1..(i + 1)
    BY <1>4
  <2>3. more[j] = i + 1 /\ \A t \in (a + 1)..(j - 1) : more[t] = deal[t]
    BY <2>2
  <2>4. more \in [(a + 1)..j -> 1..(i + 1)]
    BY <2>1, <2>2
  <2> HIDE DEF more
  <2>5. ASSUME NEW t \in (a + 1)..j, NEW u \in (a + 1)..j, t <= u PROVE more[t] <= more[u]
    <3>1. CASE u = j
      <4>1. more[t] \in 1..(i + 1)
        BY <2>4
      <4> QED BY <2>3, <3>1, <4>1
    <3>2. CASE u # j
      <4>1. t \in (a + 1)..(j - 1) /\ u \in (a + 1)..(j - 1)
        BY <2>5, <3>2
      <4> QED BY <2>1, <2>3, <2>5, <4>1
    <3> QED BY <3>1, <3>2
  <2>6. ASSUME NEW k \in 1..(i + 1), p[k] # Globstar PROVE Takes(more, p, k, path, a, j)
    <3>1. k # i + 1
      BY <2>6
    <3>2. PICK t \in (a + 1)..(j - 1) :
            /\ deal[t] = k /\ SegmentMatches(p[k], path[t])
            /\ \A u \in (a + 1)..(j - 1) : deal[u] = k => u = t
      BY <2>1, <2>6 DEF Takes
    <3>3. t \in (a + 1)..j /\ more[t] = k
      BY <2>2, <2>3, <3>2
    <3>4. \A u \in (a + 1)..j : more[u] = k => u = t
      BY <2>2, <2>3, <3>1, <3>2
    <3> QED BY <3>2, <3>3, <3>4 DEF Takes
  <2>7. Deals(more, p, i + 1, path, a, j)
    BY <2>4, <2>5, <2>6 DEF Deals
  <2> QED BY <2>7 DEF Can
<1>5. Can(p, i + 1, path, a, j) => Can(p, i, path, a, j) \/ (j > a /\ Can(p, i + 1, path, a, j - 1))
  BY <1>1, <1>2 DEF Can
<1>6. Can(p, i, path, a, j) => Can(p, i + 1, path, a, j)
  BY <1>3 DEF Can
<1>7. j > a /\ Can(p, i + 1, path, a, j - 1) => Can(p, i + 1, path, a, j)
  BY <1>4 DEF Can
<1> QED BY <1>5, <1>6, <1>7

\* The last segment of p takes the last one of the path.
LEMMA DealPlain ==
  ASSUME NEW p, NEW path, NEW i \in Nat, NEW a \in Nat, NEW j \in Nat, a <= j,
         p[i + 1] # Globstar
  PROVE  Can(p, i + 1, path, a, j)
         <=> j > a /\ SegmentMatches(p[i + 1], path[j]) /\ Can(p, i, path, a, j - 1)
<1>1. ASSUME NEW deal, Deals(deal, p, i + 1, path, a, j)
      PROVE  j > a /\ SegmentMatches(p[i + 1], path[j]) /\ Can(p, i, path, a, j - 1)
  <2>1. /\ deal \in [(a + 1)..j -> 1..(i + 1)]
        /\ \A t, u \in (a + 1)..j : t <= u => deal[t] <= deal[u]
        /\ \A k \in 1..(i + 1) : p[k] # Globstar => Takes(deal, p, k, path, a, j)
    BY <1>1 DEF Deals
  <2>2. PICK s \in (a + 1)..j :
          /\ deal[s] = i + 1 /\ SegmentMatches(p[i + 1], path[s])
          /\ \A u \in (a + 1)..j : deal[u] = i + 1 => u = s
    <3>1. i + 1 \in 1..(i + 1)
      OBVIOUS
    <3>2. Takes(deal, p, i + 1, path, a, j)
      BY <2>1, <3>1
    <3> QED BY <3>2 DEF Takes
  <2>3. j > a /\ j \in (a + 1)..j /\ s <= j
    BY <2>2
  <2>4. s = j
    <3>1. deal[s] <= deal[j] /\ deal[j] \in 1..(i + 1)
      BY <2>1, <2>3
    <3>2. deal[j] = i + 1
      BY <2>2, <3>1
    <3> QED BY <2>2, <2>3, <3>2
  <2> DEFINE rest == [t \in (a + 1)..(j - 1) |-> deal[t]]
  <2>5. /\ \A t \in (a + 1)..(j - 1) : rest[t] = deal[t] /\ t \in (a + 1)..j /\ t # j
        /\ \A t \in (a + 1)..j : t = j \/ t \in (a + 1)..(j - 1)
        /\ \A k \in 1..i : k \in 1..(i + 1) /\ k # i + 1
        /\ \A x \in 1..(i + 1) : x # i + 1 => x \in 1..i
    OBVIOUS
  <2>6. rest \in [(a + 1)..(j - 1) -> 1..i]
    <3>1. \A t \in (a + 1)..(j - 1) : deal[t] \in 1..i
      BY <2>1, <2>2, <2>4, <2>5
    <3> QED BY <3>1
  <2> HIDE DEF rest
  <2>7. \A t, u \in (a + 1)..(j - 1) : t <= u => rest[t] <= rest[u]
    BY <2>1, <2>5
  <2>8. ASSUME NEW k \in 1..i, p[k] # Globstar PROVE Takes(rest, p, k, path, a, j - 1)
    <3>1. PICK t \in (a + 1)..j :
            /\ deal[t] = k /\ SegmentMatches(p[k], path[t])
            /\ \A u \in (a + 1)..j : deal[u] = k => u = t
      BY <2>1, <2>5, <2>8 DEF Takes
    <3>2. t \in (a + 1)..(j - 1)
      BY <2>2, <2>4, <2>5, <3>1
    <3> QED BY <2>5, <3>1, <3>2 DEF Takes
  <2>9. Deals(rest, p, i, path, a, j - 1)
    BY <2>6, <2>7, <2>8 DEF Deals
  <2> QED BY <2>2, <2>3, <2>4, <2>9 DEF Can
<1>2. ASSUME j > a, SegmentMatches(p[i + 1], path[j]),
             NEW deal, Deals(deal, p, i, path, a, j - 1)
      PROVE  Can(p, i + 1, path, a, j)
  <2>1. /\ deal \in [(a + 1)..(j - 1) -> 1..i]
        /\ \A t, u \in (a + 1)..(j - 1) : t <= u => deal[t] <= deal[u]
        /\ \A k \in 1..i : p[k] # Globstar => Takes(deal, p, k, path, a, j - 1)
    BY <1>2 DEF Deals
  <2> DEFINE more == [t \in (a + 1)..j |-> IF t = j THEN i + 1 ELSE deal[t]]
  <2>2. /\ \A t \in (a + 1)..(j - 1) : t \in (a + 1)..j /\ t # j
        /\ \A t \in (a + 1)..j : t = j \/ t \in (a + 1)..(j - 1)
        /\ j \in (a + 1)..j /\ i + 1 \in 1..(i + 1)
        /\ \A x \in 1..i : x \in 1..(i + 1) /\ x # i + 1
        /\ \A x \in 1..(i + 1) : x # i + 1 => x \in 1..i
    BY <1>2
  <2>3. more[j] = i + 1 /\ \A t \in (a + 1)..(j - 1) : more[t] = deal[t] /\ more[t] \in 1..i
    BY <2>1, <2>2
  <2>4. more \in [(a + 1)..j -> 1..(i + 1)]
    <3>1. \A t \in (a + 1)..(j - 1) : deal[t] \in 1..(i + 1)
      BY <2>1, <2>2
    <3> QED BY <2>2, <3>1
  <2> HIDE DEF more
  <2>5. ASSUME NEW t \in (a + 1)..j, NEW u \in (a + 1)..j, t <= u PROVE more[t] <= more[u]
    <3>1. CASE u = j
      <4>1. more[t] \in 1..(i + 1)
        BY <2>4
      <4> QED BY <2>3, <3>1, <4>1
    <3>2. CASE u # j
      <4>1. t \in (a + 1)..(j - 1) /\ u \in (a + 1)..(j - 1)
        BY <2>5, <3>2
      <4> QED BY <2>1, <2>3, <2>5, <4>1
    <3> QED BY <3>1, <3>2
  <2>6. ASSUME NEW k \in 1..(i + 1), p[k] # Globstar PROVE Takes(more, p, k, path, a, j)
    <3>1. CASE k = i + 1
      <4>1. \A u \in (a + 1)..j : more[u] = k => u = j
        BY <2>2, <2>3, <3>1
      <4> QED BY <1>2, <2>2, <2>3, <3>1, <4>1 DEF Takes
    <3>2. CASE k # i + 1
      <4>1. k \in 1..i
        BY <2>2, <3>2
      <4>2. PICK t \in (a + 1)..(j - 1) :
              /\ deal[t] = k /\ SegmentMatches(p[k], path[t])
              /\ \A u \in (a + 1)..(j - 1) : deal[u] = k => u = t
        BY <2>1, <2>6, <4>1 DEF Takes
      <4>3. t \in (a + 1)..j /\ more[t] = k
        BY <2>2, <2>3, <4>2
      <4>4. \A u \in (a + 1)..j : more[u] = k => u = t
        BY <2>2, <2>3, <3>2, <4>2
      <4> QED BY <4>2, <4>3, <4>4 DEF Takes
    <3> QED BY <3>1, <3>2
  <2>7. Deals(more, p, i + 1, path, a, j)
    BY <2>4, <2>5, <2>6 DEF Deals
  <2> QED BY <2>7 DEF Can
<1>3. Can(p, i + 1, path, a, j)
      => j > a /\ SegmentMatches(p[i + 1], path[j]) /\ Can(p, i, path, a, j - 1)
  BY <1>1 DEF Can
<1>4. j > a /\ SegmentMatches(p[i + 1], path[j]) /\ Can(p, i, path, a, j - 1)
      => Can(p, i + 1, path, a, j)
  BY <1>2 DEF Can
<1> QED BY <1>3, <1>4

----------------------------------------------------------------------------
(* The leading globstar.                                                   *)

\* With a globstar in front, the rest need only cover a tail of the path.
LEMMA TailUnderGlobstar ==
  ASSUME NEW p, Len(p) \in Nat, Len(p) # 0, p[1] = Globstar, NEW path, NEW n \in Nat
  PROVE  Can(p, Len(p), path, 0, n) <=> \E a \in 0..n : Can(p, Len(p), path, a, n)
<1> DEFINE m == Len(p)
<1>1. m \in Nat /\ m # 0
  OBVIOUS
<1> HIDE DEF m
<1>2. ASSUME NEW a \in 0..n, NEW deal, Deals(deal, p, m, path, a, n)
      PROVE  Can(p, m, path, 0, n)
  <2>1. /\ deal \in [(a + 1)..n -> 1..m]
        /\ \A t, u \in (a + 1)..n : t <= u => deal[t] <= deal[u]
        /\ \A k \in 1..m : p[k] # Globstar => Takes(deal, p, k, path, a, n)
    BY <1>2 DEF Deals
  <2> DEFINE all == [t \in (0 + 1)..n |-> IF t <= a THEN 1 ELSE deal[t]]
  <2>2. /\ \A t \in (a + 1)..n : t \in (0 + 1)..n /\ ~(t <= a)
        /\ \A t \in (0 + 1)..n : t <= a \/ t \in (a + 1)..n
        /\ 1 \in 1..m
    BY <1>1
  <2>3. /\ \A t \in (0 + 1)..n : t <= a => all[t] = 1
        /\ \A t \in (a + 1)..n : all[t] = deal[t]
    BY <2>2
  <2>4. all \in [(0 + 1)..n -> 1..m]
    BY <2>1, <2>2
  <2> HIDE DEF all
  <2>5. ASSUME NEW t \in (0 + 1)..n, NEW u \in (0 + 1)..n, t <= u PROVE all[t] <= all[u]
    <3>1. CASE t <= a
      <4>1. all[u] \in 1..m
        BY <2>4
      <4> QED BY <2>3, <3>1, <4>1
    <3>2. CASE ~(t <= a)
      <4>1. t \in (a + 1)..n /\ u \in (a + 1)..n
        BY <2>5, <3>2
      <4> QED BY <2>1, <2>3, <2>5, <4>1
    <3> QED BY <3>1, <3>2
  <2>6. ASSUME NEW k \in 1..m, p[k] # Globstar PROVE Takes(all, p, k, path, 0, n)
    <3>1. k # 1
      BY <2>6
    <3>2. PICK t \in (a + 1)..n :
            /\ deal[t] = k /\ SegmentMatches(p[k], path[t])
            /\ \A u \in (a + 1)..n : deal[u] = k => u = t
      BY <2>1, <2>6 DEF Takes
    <3>3. t \in (0 + 1)..n /\ all[t] = k
      BY <2>2, <2>3, <3>2
    <3>4. \A u \in (0 + 1)..n : all[u] = k => u = t
      BY <2>2, <2>3, <3>1, <3>2
    <3> QED BY <3>2, <3>3, <3>4 DEF Takes
  <2>7. Deals(all, p, m, path, 0, n)
    BY <2>4, <2>5, <2>6 DEF Deals
  <2> QED BY <2>7 DEF Can
<1>3. (\E a \in 0..n : Can(p, m, path, a, n)) => Can(p, m, path, 0, n)
  BY <1>2 DEF Can
<1>4. 0 \in 0..n
  OBVIOUS
<1> QED BY <1>3, <1>4 DEF m

LEMMA TailBehindGlobstar ==
  ASSUME NEW p, NEW m \in Nat, NEW q, q[1] = Globstar, \A k \in 1..m : q[k + 1] = p[k],
         NEW path, NEW n \in Nat
  PROVE  Can(q, m + 1, path, 0, n) <=> \E a \in 0..n : Can(p, m, path, a, n)
<1>1. ASSUME NEW a \in 0..n, NEW deal, Deals(deal, p, m, path, a, n)
      PROVE  Can(q, m + 1, path, 0, n)
  <2>1. /\ deal \in [(a + 1)..n -> 1..m]
        /\ \A t, u \in (a + 1)..n : t <= u => deal[t] <= deal[u]
        /\ \A k \in 1..m : p[k] # Globstar => Takes(deal, p, k, path, a, n)
    BY <1>1 DEF Deals
  <2> DEFINE all == [t \in (0 + 1)..n |-> IF t <= a THEN 1 ELSE deal[t] + 1]
  <2>2. /\ \A t \in (a + 1)..n : t \in (0 + 1)..n /\ ~(t <= a)
        /\ \A t \in (0 + 1)..n : t <= a \/ t \in (a + 1)..n
        /\ 1 \in 1..(m + 1)
        /\ \A x \in 1..m : x + 1 \in 1..(m + 1) /\ x + 1 # 1
    OBVIOUS
  <2>3. /\ \A t \in (0 + 1)..n : t <= a => all[t] = 1
        /\ \A t \in (a + 1)..n : all[t] = deal[t] + 1
    BY <2>2
  <2>4. all \in [(0 + 1)..n -> 1..(m + 1)]
    <3>1. \A t \in (a + 1)..n : deal[t] + 1 \in 1..(m + 1)
      BY <2>1, <2>2
    <3> QED BY <2>2, <3>1
  <2> HIDE DEF all
  <2>5. ASSUME NEW t \in (0 + 1)..n, NEW u \in (0 + 1)..n, t <= u PROVE all[t] <= all[u]
    <3>1. CASE t <= a
      <4>1. all[u] \in 1..(m + 1)
        BY <2>4
      <4> QED BY <2>3, <3>1, <4>1
    <3>2. CASE ~(t <= a)
      <4>1. t \in (a + 1)..n /\ u \in (a + 1)..n
        BY <2>5, <3>2
      <4>2. deal[t] <= deal[u] /\ deal[t] \in 1..m /\ deal[u] \in 1..m
        BY <2>1, <2>5, <4>1
      <4> QED BY <2>3, <4>1, <4>2
    <3> QED BY <3>1, <3>2
  <2>6. ASSUME NEW k \in 1..(m + 1), q[k] # Globstar PROVE Takes(all, q, k, path, 0, n)
    <3>1. k # 1 /\ k - 1 \in 1..m /\ (k - 1) + 1 = k
      BY <2>6
    <3>2. q[k] = p[k - 1]
      BY <3>1
    <3>3. PICK t \in (a + 1)..n :
            /\ deal[t] = k - 1 /\ SegmentMatches(p[k - 1], path[t])
            /\ \A u \in (a + 1)..n : deal[u] = k - 1 => u = t
      BY <2>1, <2>6, <3>1, <3>2 DEF Takes
    <3>4. t \in (0 + 1)..n /\ all[t] = k
      BY <2>2, <2>3, <3>1, <3>3
    <3>5. ASSUME NEW u \in (0 + 1)..n, all[u] = k PROVE u = t
      <4>1. u \in (a + 1)..n
        BY <2>2, <2>3, <3>1, <3>5
      <4>2. deal[u] + 1 = k /\ deal[u] \in 1..m
        BY <2>1, <2>3, <3>5, <4>1
      <4>3. deal[u] = k - 1
        BY <4>2
      <4> QED BY <3>3, <4>1, <4>3
    <3> QED BY <3>2, <3>3, <3>4, <3>5 DEF Takes
  <2>7. Deals(all, q, m + 1, path, 0, n)
    BY <2>4, <2>5, <2>6 DEF Deals
  <2> QED BY <2>7 DEF Can
<1>2. ASSUME NEW all, Deals(all, q, m + 1, path, 0, n)
      PROVE  \E a \in 0..n : Can(p, m, path, a, n)
  <2>1. /\ all \in [(0 + 1)..n -> 1..(m + 1)]
        /\ \A t, u \in (0 + 1)..n : t <= u => all[t] <= all[u]
        /\ \A k \in 1..(m + 1) : q[k] # Globstar => Takes(all, q, k, path, 0, n)
    BY <1>2 DEF Deals
  <2> DEFINE Rest == {b \in 0..n : \A t \in (0 + 1)..n : t > b => all[t] # 1}
  <2>2. \A b : b \in Rest <=> b \in 0..n /\ \A t \in (0 + 1)..n : t > b => all[t] # 1
    OBVIOUS
  <2> HIDE DEF Rest
  <2>3. Rest \in SUBSET Nat /\ Rest # {}
    <3>1. n \in Rest
      BY <2>2
    <3>2. \A b \in Rest : b \in Nat
      BY <2>2
    <3> QED BY <3>1, <3>2
  <2>4. PICK a \in Rest : \A b \in Rest : a <= b
    BY <2>3, LeastOf
  <2>5. a \in 0..n /\ \A t \in (a + 1)..n : t \in (0 + 1)..n /\ all[t] # 1
    BY <2>2, <2>4
  <2>6. ASSUME NEW t \in (0 + 1)..n, t <= a PROVE all[t] = 1
    <3>1. a - 1 \in 0..n /\ ~(a <= a - 1) /\ a \in (0 + 1)..n
      BY <2>5, <2>6
    <3>2. a - 1 \notin Rest
      BY <2>4, <3>1
    <3>3. PICK u \in (0 + 1)..n : u > a - 1 /\ all[u] = 1
      BY <2>2, <3>1, <3>2
    <3>4. all[t] <= all[u] /\ all[t] \in 1..(m + 1)
      <4>1. t <= u
        BY <2>5, <2>6, <3>3
      <4> QED BY <2>1, <4>1
    <3> QED BY <3>3, <3>4
  <2> DEFINE deal == [t \in (a + 1)..n |-> all[t] - 1]
  <2>7. \A t \in (a + 1)..n : all[t] - 1 \in 1..m /\ all[t] \in Nat
    BY <2>1, <2>5
  <2>8. deal \in [(a + 1)..n -> 1..m] /\ \A t \in (a + 1)..n : deal[t] = all[t] - 1
    BY <2>7
  <2> HIDE DEF deal
  <2>9. \A t, u \in (a + 1)..n : t <= u => deal[t] <= deal[u]
    BY <2>1, <2>5, <2>7, <2>8
  <2>10. ASSUME NEW k \in 1..m, p[k] # Globstar PROVE Takes(deal, p, k, path, a, n)
    <3>1. k + 1 \in 1..(m + 1) /\ k + 1 # 1 /\ q[k + 1] = p[k]
      OBVIOUS
    <3>2. PICK t \in (0 + 1)..n :
            /\ all[t] = k + 1 /\ SegmentMatches(q[k + 1], path[t])
            /\ \A u \in (0 + 1)..n : all[u] = k + 1 => u = t
      BY <2>1, <2>10, <3>1 DEF Takes
    <3>3. t \in (a + 1)..n
      BY <2>5, <2>6, <3>1, <3>2
    <3>4. deal[t] = k
      BY <2>8, <3>2, <3>3
    <3>5. ASSUME NEW u \in (a + 1)..n, deal[u] = k PROVE u = t
      <4>1. all[u] = k + 1
        BY <2>7, <2>8, <3>5
      <4> QED BY <2>5, <3>2, <4>1
    <3> QED BY <3>1, <3>2, <3>3, <3>4, <3>5 DEF Takes
  <2>11. Deals(deal, p, m, path, a, n)
    BY <2>8, <2>9, <2>10 DEF Deals
  <2> QED BY <2>5, <2>11 DEF Can
<1> QED BY <1>1, <1>2 DEF Can

----------------------------------------------------------------------------
(* The table.                                                              *)

\* A row of the table: what the first i segments of p can cover.
Row(p, i, path) == [j \in 0..Len(path) |-> Can(p, i, path, 0, j)]

LEMMA FillIsRow ==
  ASSUME NEW p, NEW path, Len(path) \in Nat, NEW i \in Nat, NEW stale
  PROVE  Fill(Row(p, i, path), stale, p[i + 1], path) = Row(p, i + 1, path)
<1> DEFINE L == Len(path)
           prev == Row(p, i, path)
           next == Row(p, i + 1, path)
           Body(g, j) == IF p[i + 1] = Globstar
                         THEN prev[j] \/ (j > 0 /\ g[j - 1])
                         ELSE j > 0 /\ SegmentMatches(p[i + 1], path[j]) /\ prev[j - 1]
           Is(g) == g = [j \in 0..L |-> Body(g, j)]
           fill == CHOOSE g : Is(g)
<1>1. /\ next = [j \in 0..L |-> Can(p, i + 1, path, 0, j)]
      /\ prev = [j \in 0..L |-> Can(p, i, path, 0, j)]
      /\ L \in Nat
  BY DEF Row
<1>2. /\ \A j \in 0..L : next[j] = Can(p, i + 1, path, 0, j)
      /\ \A j \in 0..L : prev[j] = Can(p, i, path, 0, j)
  BY <1>1
<1> HIDE DEF next, prev, L
<1>3. ASSUME NEW j \in 0..L PROVE Can(p, i + 1, path, 0, j) <=> Body(next, j)
  <2>1. j \in Nat /\ 0 <= j /\ (j > 0 => j - 1 \in 0..L)
    BY <1>1
  <2>2. Can(p, i + 1, path, 0, j) \in BOOLEAN
    BY DEF Can
  <2>3. CASE p[i + 1] = Globstar
    <3>1. Can(p, i + 1, path, 0, j)
          <=> Can(p, i, path, 0, j) \/ (j > 0 /\ Can(p, i + 1, path, 0, j - 1))
      BY <2>1, <2>3, DealGlobstar
    <3>2. prev[j] = Can(p, i, path, 0, j)
          /\ (j > 0 => next[j - 1] = Can(p, i + 1, path, 0, j - 1))
      BY <1>2, <2>1
    <3> QED BY <2>3, <3>1, <3>2
  <2>4. CASE p[i + 1] # Globstar
    <3>1. Can(p, i + 1, path, 0, j)
          <=> j > 0 /\ SegmentMatches(p[i + 1], path[j]) /\ Can(p, i, path, 0, j - 1)
      BY <2>1, <2>4, DealPlain
    <3>2. j > 0 => prev[j - 1] = Can(p, i, path, 0, j - 1)
      BY <1>2, <2>1
    <3> QED BY <2>4, <3>1, <3>2
  <2> QED BY <2>3, <2>4
<1>4. Is(next)
  <2>1. ASSUME NEW j \in 0..L PROVE Can(p, i + 1, path, 0, j) = Body(next, j)
    <3>1. Can(p, i + 1, path, 0, j) \in BOOLEAN
      BY DEF Can
    <3>2. Body(next, j) \in BOOLEAN
      OBVIOUS
    <3>3. Can(p, i + 1, path, 0, j) <=> Body(next, j)
      BY <1>3
    <3> HIDE DEF Body
    <3> QED BY <3>1, <3>2, <3>3
  <2> HIDE DEF Body
  <2>2. next = [j \in 0..L |-> Body(next, j)]
    BY <1>1, <2>1
  <2> QED BY <2>2
<1>5. Is(fill)
  BY <1>4
<1>6. Fill(prev, stale, p[i + 1], path) = fill
  BY DEF Fill, L
<1> HIDE DEF fill
<1>7. /\ fill = [j \in 0..L |-> Body(fill, j)]
      /\ \A j \in 0..L : fill[j] = Body(fill, j)
  BY <1>5
<1>8. \A j \in 0..L : next[j] = Body(next, j)
  <2>1. next = [j \in 0..L |-> Body(next, j)]
    BY <1>4
  <2> HIDE DEF Body
  <2> QED BY <2>1
<1>9. Alike(fill, next, L)
  <2>1. fill[0] = next[0]
    <3>1. 0 \in 0..L
      BY <1>1
    <3>2. fill[0] = Body(fill, 0) /\ next[0] = Body(next, 0)
      BY <1>7, <1>8, <3>1
    <3> QED BY <3>2
  <2>2. ASSUME NEW j \in 1..L, fill[j - 1] = next[j - 1] PROVE fill[j] = next[j]
    <3>1. j \in 0..L
      BY <1>1
    <3>2. fill[j] = Body(fill, j) /\ next[j] = Body(next, j)
      BY <1>7, <1>8, <3>1
    <3> QED BY <2>2, <3>2
  <2> QED BY <2>1, <2>2 DEF Alike
<1>10. \A j \in 0..L : fill[j] = next[j]
  BY <1>1, <1>9, SameSteps
<1>11. fill = next
  BY <1>1, <1>7, <1>10
<1> QED BY <1>6, <1>11 DEF prev, next

\* The table's last cell says whether the segments of the path can be dealt out.
LEMMA MatchIsDealing ==
  ASSUME NEW p, NEW path, Len(p) \in Nat, Len(path) \in Nat
  PROVE  MatchSegments(p, path) <=> Can(p, Len(p), path, 0, Len(path))
<1> DEFINE m == Len(p)
           L == Len(path)
           none == [j \in 0..L |-> FALSE]
           row0 == [prev |-> [j \in 0..L |-> j = 0], curr |-> none]
           Body(g, i) == IF i = 0 THEN row0
                         ELSE [prev |-> Fill(g[i - 1].prev, g[i - 1].curr, p[i], path),
                               curr |-> g[i - 1].prev]
           Is(g) == g = [i \in 0..m |-> Body(g, i)]
           rows == CHOOSE g : Is(g)
           table == [i \in 0..m |-> [prev |-> Row(p, i, path),
                                     curr |-> IF i = 0 THEN none ELSE Row(p, i - 1, path)]]
<1>0. m \in Nat /\ L \in Nat
  OBVIOUS
<1>1. MatchSegments(p, path) = rows[m].prev[L]
  BY DEF MatchSegments
<1>2. Row(p, 0, path) = [j \in 0..L |-> j = 0]
  <2>1. ASSUME NEW j \in 0..L PROVE Can(p, 0, path, 0, j) = (j = 0)
    <3>1. j \in Nat /\ 0 <= j
      BY <1>0
    <3>2. Can(p, 0, path, 0, j) <=> j = 0
      BY <3>1, DealNone
    <3>3. Can(p, 0, path, 0, j) \in BOOLEAN
      BY DEF Can
    <3> QED BY <3>2, <3>3
  <2> QED BY <2>1 DEF Row
<1> HIDE DEF m, L
<1>3. \A i \in 0..m : /\ table[i].prev = Row(p, i, path)
                      /\ table[i].curr = IF i = 0 THEN none ELSE Row(p, i - 1, path)
  OBVIOUS
<1>4. table = [i \in 0..m |-> table[i]]
  OBVIOUS
<1>5. ASSUME NEW i \in 0..m PROVE table[i] = Body(table, i)
  <2>1. table[i] = [prev |-> Row(p, i, path),
                    curr |-> IF i = 0 THEN none ELSE Row(p, i - 1, path)]
    OBVIOUS
  <2>2. CASE i = 0
    BY <1>2, <2>1, <2>2
  <2>3. CASE i # 0
    <3>1. i - 1 \in 0..m /\ i - 1 \in Nat /\ (i - 1) + 1 = i
      BY <1>0, <2>3
    <3>2. table[i - 1].prev = Row(p, i - 1, path)
      BY <1>3, <3>1
    <3>3. Fill(Row(p, i - 1, path), table[i - 1].curr, p[(i - 1) + 1], path)
          = Row(p, (i - 1) + 1, path)
      BY <1>0, <3>1, FillIsRow DEF L
    <3>4. Fill(table[i - 1].prev, table[i - 1].curr, p[i], path) = Row(p, i, path)
      BY <3>1, <3>2, <3>3
    <3>5. Body(table, i) = [prev |-> Fill(table[i - 1].prev, table[i - 1].curr, p[i], path),
                            curr |-> table[i - 1].prev]
      BY <2>3
    <3> HIDE DEF table
    <3> QED BY <2>1, <2>3, <3>2, <3>4, <3>5
  <2> QED BY <2>2, <2>3
<1> HIDE DEF table, row0
<1>6. Is(table)
  BY <1>4, <1>5
<1>7. Is(rows)
  BY <1>6
<1> HIDE DEF rows
<1>8. \A i \in 0..m : rows[i] = Body(rows, i)
  BY <1>7
<1>9. Alike(rows, table, m)
  <2>1. rows[0] = table[0]
    <3>1. 0 \in 0..m
      BY <1>0
    <3>2. rows[0] = Body(rows, 0) /\ table[0] = Body(table, 0)
      BY <1>5, <1>8, <3>1
    <3> QED BY <3>2
  <2>2. ASSUME NEW i \in 1..m, rows[i - 1] = table[i - 1] PROVE rows[i] = table[i]
    <3>1. i \in 0..m /\ i # 0
      BY <1>0
    <3>2. rows[i] = Body(rows, i) /\ table[i] = Body(table, i)
      BY <1>5, <1>8, <3>1
    <3> QED BY <2>2, <3>1, <3>2
  <2> QED BY <2>1, <2>2 DEF Alike
<1>10. rows[m] = table[m]
  <2>1. m \in 0..m
    BY <1>0
  <2> QED BY <1>0, <1>9, <2>1, SameSteps
<1>11. table[m].prev = Row(p, m, path) /\ Row(p, m, path)[L] = Can(p, m, path, 0, L)
  <2>1. m \in 0..m /\ L \in 0..L
    BY <1>0
  <2>2. Row(p, m, path) = [j \in 0..L |-> Can(p, m, path, 0, j)]
    BY DEF Row, L
  <2> QED BY <1>3, <2>1, <2>2
<1> QED BY <1>1, <1>10, <1>11 DEF m, L

----------------------------------------------------------------------------
(* What a pattern says.                                                    *)

Dots == {"", "."}

\* What is left of a pattern when its beginning is trimmed is what it says.
LEMMA TrimLeavesSaid ==
  ASSUME NEW raw, Len(raw) \in Nat, NEW i \in 1..Len(raw)
  PROVE  Says(raw, i) <=> i \in {k \in (LeadingTrim(raw) + 1)..Len(raw) : raw[k] # ""}
<1> DEFINE N == Len(raw)
           K == {k \in 0..(N - 1) : \A j \in 1..k : raw[j] \in Dots}
<1>1. N \in Nat /\ N - 1 \in Nat /\ i \in 1..N /\ LeadingTrim(raw) = Max(K)
  BY DEF LeadingTrim, Dots
<1>2. Says(raw, i) <=> raw[i] # "" /\ (i = N \/ \E k \in 1..i : raw[k] \notin Dots)
  BY DEF Says, Dots
<1>3. \A k : k \in K <=> k \in 0..(N - 1) /\ \A j \in 1..k : raw[j] \in Dots
  OBVIOUS
<1>4. raw[i] # "" /\ raw[i] \in Dots => raw[i] = "."
  BY DEF Dots
<1> DEFINE Loud == raw[i] # ""
           E == LeadingTrim(raw)
<1>5. Says(raw, i) <=> Loud /\ (i = N \/ \E k \in 1..i : raw[k] \notin Dots)
  BY <1>2
<1>6. i \in {k \in (E + 1)..N : raw[k] # ""} <=> i \in (E + 1)..N /\ Loud
  OBVIOUS
<1>7. E = Max(K)
  BY <1>1
<1> HIDE DEF K, N, Loud, E
<1>8. E \in K /\ \A k \in K : E >= k
  <2>1. 0 \in K
    BY <1>1, <1>3
  <2>2. K \in SUBSET (0..(N - 1)) /\ K # {}
    BY <1>3, <2>1
  <2> QED BY <1>1, <1>7, <2>2, GreatestUpTo
<1>9. E \in 0..(N - 1) /\ \A j \in 1..E : raw[j] \in Dots
  BY <1>3, <1>8
<1>10. i \in (E + 1)..N <=> E < i
  BY <1>1, <1>9
<1>11. E < i <=> i = N \/ \E k \in 1..i : raw[k] \notin Dots
  <2>1. ASSUME E < i, i # N PROVE \E k \in 1..i : raw[k] \notin Dots
    <3>1. i \in 0..(N - 1) /\ ~(E >= i)
      BY <1>1, <1>9, <2>1
    <3>2. i \notin K
      BY <1>8, <3>1
    <3> QED BY <1>3, <3>1, <3>2
  <2>2. ASSUME i = N PROVE E < i
    BY <1>1, <1>9, <2>2
  <2>3. ASSUME NEW k \in 1..i, raw[k] \notin Dots PROVE E < i
    <3>1. k \notin 1..E
      BY <1>9, <2>3
    <3> QED BY <1>1, <1>9, <3>1
  <2> QED BY <2>1, <2>2, <2>3
<1> QED BY <1>5, <1>6, <1>10, <1>11 DEF N, E

Trimmed(raw) == Picked(raw, {i \in (LeadingTrim(raw) + 1)..Len(raw) : raw[i] # ""})

Said(raw) == Picked(raw, {i \in DOMAIN raw : Says(raw, i)})

LEMMA TrimmedIsSaid ==
  ASSUME NEW raw \in Seq(STRING)
  PROVE  Trimmed(raw) = Said(raw) /\ Said(raw) \in Seq(STRING)
<1> DEFINE P == {i \in (LeadingTrim(raw) + 1)..Len(raw) : raw[i] # ""}
           Q == {i \in DOMAIN raw : Says(raw, i)}
<1>1. Len(raw) \in Nat /\ DOMAIN raw = 1..Len(raw)
  OBVIOUS
<1>2. \A n \in 1..Len(raw) : Says(raw, n) <=> n \in P
  BY <1>1, TrimLeavesSaid
<1>3. \A n \in 1..Len(raw) : n \in Q <=> Says(raw, n)
  BY <1>1
<1> HIDE DEF P, Q
<1>4. \A n \in 1..Len(raw) : n \in P <=> n \in Q
  BY <1>2, <1>3
<1>5. Picked(raw, P) = Picked(raw, Q)
  BY <1>4, PickedSame
<1>6. Picked(raw, Q) \in Seq(STRING)
  BY PickedType
<1> QED BY <1>5, <1>6 DEF P, Q, Trimmed, Said

\* Covering from a segment on is dealing out what follows the one before.
LEMMA CoversIsDealing ==
  ASSUME NEW p \in Seq(STRING), NEW path, NEW n \in Nat, Len(path) = n, NEW a \in 0..n
  PROVE  Covers(p, path, a + 1) <=> Can(p, Len(p), path, a, n)
<1>1. Len(p) \in Nat /\ DOMAIN p = 1..Len(p)
  OBVIOUS
<1>2. Covers(p, path, a + 1) <=>
        \E deal \in [(a + 1)..n -> 1..Len(p)] :
          /\ \A i, j \in (a + 1)..n : i <= j => deal[i] <= deal[j]
          /\ \A k \in 1..Len(p) : p[k] # Globstar => Takes(deal, p, k, path, a, n)
  BY <1>1 DEF Covers, Takes
<1>3. Can(p, Len(p), path, a, n) <=>
        \E deal :
          /\ deal \in [(a + 1)..n -> 1..Len(p)]
          /\ \A i, j \in (a + 1)..n : i <= j => deal[i] <= deal[j]
          /\ \A k \in 1..Len(p) : p[k] # Globstar => Takes(deal, p, k, path, a, n)
  BY DEF Can, Deals
<1> QED BY <1>2, <1>3

\* The glob tool keeps the paths its schema promises, and no others.
LEMMA KeepsWhatIsPromised ==
  ASSUME NEW raw \in Seq(STRING), NEW path \in Seq(STRING)
  PROVE  MatchSegments(Normalize(raw), path) <=> Promised(raw, path)
<1> DEFINE said == Said(raw)
           p == Normalize(raw)
           n == Len(path)
           T == STRING \cup {Globstar}
<1>1. /\ said \in Seq(STRING) /\ n \in Nat
      /\ p = IF said = <<>> THEN <<Globstar>>
             ELSE IF Head(said) = Globstar THEN said ELSE <<Globstar>> \o said
      /\ Promised(raw, path) <=> said = <<>> \/ \E from \in 1..(n + 1) : Covers(said, path, from)
  <2>1. p = IF Trimmed(raw) = <<>> THEN <<Globstar>>
            ELSE IF Head(Trimmed(raw)) = Globstar THEN Trimmed(raw)
            ELSE <<Globstar>> \o Trimmed(raw)
    BY DEF Normalize, Trimmed
  <2>2. Promised(raw, path) <=> said = <<>> \/ \E from \in 1..(n + 1) : Covers(said, path, from)
    BY DEF Promised, Said
  <2>3. Trimmed(raw) = said /\ said \in Seq(STRING) /\ n \in Nat
    BY TrimmedIsSaid
  <2> QED BY <2>1, <2>2, <2>3
<1> HIDE DEF said, p
<1>2. said \in Seq(T) /\ Globstar \in T
  <2>1. \A x \in STRING : x \in T
    OBVIOUS
  <2>2. Globstar \in T
    OBVIOUS
  <2> HIDE DEF T
  <2>3. said \in [1..Len(said) -> STRING] /\ Len(said) \in Nat
    BY <1>1
  <2>4. said \in [1..Len(said) -> T]
    BY <2>1, <2>3
  <2> QED BY <2>2, <2>3, <2>4
<1> HIDE DEF T, n
<1>3. p \in Seq(T) /\ Len(p) \in Nat
  BY <1>1, <1>2
<1>4. MatchSegments(p, path) <=> Can(p, Len(p), path, 0, n)
  BY <1>1, <1>3, MatchIsDealing DEF n
<1>5. (\E from \in 1..(n + 1) : Covers(said, path, from))
      <=> \E a \in 0..n : Can(said, Len(said), path, a, n)
  <2>1. \A a \in 0..n : Covers(said, path, a + 1) <=> Can(said, Len(said), path, a, n)
    BY <1>1, CoversIsDealing DEF n
  <2>2. \A from \in 1..(n + 1) : from - 1 \in 0..n /\ (from - 1) + 1 = from
    BY <1>1
  <2>3. \A a \in 0..n : a + 1 \in 1..(n + 1)
    BY <1>1
  <2>4. ASSUME NEW from \in 1..(n + 1), Covers(said, path, from)
        PROVE  \E a \in 0..n : Can(said, Len(said), path, a, n)
    BY <2>1, <2>2, <2>4
  <2>5. ASSUME NEW a \in 0..n, Can(said, Len(said), path, a, n)
        PROVE  \E from \in 1..(n + 1) : Covers(said, path, from)
    BY <2>1, <2>3, <2>5
  <2> QED BY <2>4, <2>5
<1>6. CASE said = <<>>
  <2>1. p = <<Globstar>> /\ Len(p) = 0 + 1 /\ p[1] = Globstar
    BY <1>1, <1>6
  <2>2. \A k \in 1..0 : p[k + 1] = said[k]
    OBVIOUS
  <2>3. Can(p, 0 + 1, path, 0, n) <=> \E a \in 0..n : Can(said, 0, path, a, n)
    BY <1>1, <2>1, <2>2, TailBehindGlobstar
  <2>4. Can(said, 0, path, n, n) /\ n \in 0..n
    BY <1>1, DealNone
  <2> QED BY <1>1, <1>4, <1>6, <2>1, <2>3, <2>4 DEF p
<1>7. CASE said # <<>>
  <2>1. Len(said) \in Nat /\ Len(said) # 0 /\ Head(said) = said[1]
    BY <1>1, <1>7
  <2>2. CASE Head(said) = Globstar
    <3>1. p = said /\ p[1] = Globstar
      BY <1>1, <1>7, <2>1, <2>2
    <3>2. Can(p, Len(p), path, 0, n) <=> \E a \in 0..n : Can(p, Len(p), path, a, n)
      BY <1>1, <2>1, <3>1, TailUnderGlobstar
    <3> QED BY <1>1, <1>4, <1>5, <1>7, <3>1, <3>2 DEF p
  <2>3. CASE Head(said) # Globstar
    <3>1. p = <<Globstar>> \o said
      BY <1>1, <1>7, <2>3
    <3>2. /\ Len(p) = Len(said) + 1 /\ p[1] = Globstar
          /\ \A k \in 1..Len(said) : p[k + 1] = said[k]
      BY <1>2, <3>1
    <3>3. Can(p, Len(said) + 1, path, 0, n) <=> \E a \in 0..n : Can(said, Len(said), path, a, n)
      BY <1>1, <2>1, <3>2, TailBehindGlobstar
    <3> QED BY <1>1, <1>4, <1>5, <1>7, <3>2, <3>3 DEF p
  <2> QED BY <2>2, <2>3
<1> QED BY <1>6, <1>7

----------------------------------------------------------------------------
(* Commands.                                                               *)

\* How the command, the copying, the waiting and Execute stand to one another.
Standing ==
  /\ at = "start" => /\ child = "none" /\ background = "none" /\ copier = "idle" /\ wait = "idle"
                     /\ sent = 0 /\ got = 0 /\ stop = "none"
  /\ stop = "start" => /\ at = "returned" /\ child = "none" /\ background = "none"
                       /\ copier = "idle" /\ wait = "idle"
  /\ child = "none" => at = "start" \/ stop = "start"
  /\ at = "returned" => wait = "done" \/ stop = "start"
  /\ at = "run" => ~Globbing /\ stop = "none"
  /\ at \in {"check", "scan", "wait"} => Globbing
  /\ at = "kill" => stop \in {"timeout", "canceled"}

\* What is over stays over.
Over ==
  /\ wait \in {"draining", "done"} => child = "gone"
  /\ wait = "done" => copier \in {"eof", "closed"}
  /\ copier = "eof" => child = "gone" /\ background = "none" /\ (~Globbing => got = sent)
  /\ copier = "copying" => child # "none"
  /\ copier = "closed" => Bash /\ wait = "done" /\ werr \in {"delay", "exit"}

\* Nothing that was to be killed lives.
Killed ==
  /\ stop \in {"timeout", "canceled"} => Bash /\ child = "gone" /\ background # "group"
  /\ stop = "scan" => Globbing
  /\ Bash => ~ctxKilled

\* What an exit status says about the output.
Exited ==
  /\ exit = "ok" => sent = Len(call.output)
  /\ exit = "one" => call.output = <<>>
  /\ wait \in {"draining", "done"} /\ werr = "none" => exit = "ok"
  /\ Bash => werr # "ctx"

\* The buffer holds the beginning of the output, and knows when there is more.
Copied ==
  ~Globbing =>
    /\ truncated <=> got > OutputCap
    /\ Len(buffer) = IF truncated THEN OutputCap ELSE got
    /\ \A k \in 1..Len(buffer) : buffer[k] = call.output[k]

CommandInv == ProcessTypeOK /\ Standing /\ Over /\ Killed /\ Exited /\ Copied

LEMMA CallTypes ==
  ASSUME call \in Calls
  PROVE  /\ call.tool \in Tools /\ call.output \in Seq(Line) /\ call.pattern \in Line
         /\ call.background \in {"none", "group", "escaped"}
         /\ call.tool # "bash" => call.background = "none"
         /\ Len(call.output) \in Nat
<1>1. call \in Call /\ (call.tool # "bash" => call.background = "none")
  BY CallsAssumption
<1>2. /\ call.tool \in Tools /\ call.output \in Seq(Line) /\ call.pattern \in Line
      /\ call.background \in {"none", "group", "escaped"}
  BY <1>1 DEF Call
<1>3. Len(call.output) \in Nat
  BY <1>2
<1> QED BY <1>1, <1>2, <1>3

LEMMA ToolKinds ==
  /\ Bash => ~Globbing
  /\ call.tool = "grep" => ~Globbing /\ ~Bash
  /\ call.tool = "git" => ~Globbing /\ ~Bash
BY DEF Bash, Globbing, Globs

LEMMA RelativeLine ==
  ASSUME NEW l \in Line
  PROVE  Relative(l) \in Line
<1>1. Len(l) \in Nat /\ Len(Root) = Len(Root)
  BY DEF Line
<1>2. CASE Len(l) > Len(Root) /\ SubSeq(l, 1, Len(Root)) = Root
  <2>1. Relative(l) = SubSeq(l, Len(Root) + 1, Len(l))
    BY <1>2 DEF Relative
  <2> QED BY <1>2, <2>1, RootAssumption DEF Line
<1>3. CASE ~(Len(l) > Len(Root) /\ SubSeq(l, 1, Len(Root)) = Root)
  BY <1>3 DEF Relative
<1> QED BY <1>2, <1>3

LEMMA LineSeqs ==
  /\ <<>> \in Seq(Line)
  /\ \A s \in Seq(Line), l \in Line : Append(s, l) \in Seq(Line) /\ Len(Append(s, l)) = Len(s) + 1
  /\ \A s \in Seq(Line), k \in Nat : k <= Len(s) => SubSeq(s, 1, k) \in Seq(Line)
  /\ \A s \in Seq(Line) : Strip(s) \in Seq(Line) /\ Len(Strip(s)) = Len(s)
                          /\ \A k \in 1..Len(s) : Strip(s)[k] = Relative(s[k])
<1>1. /\ <<>> \in Seq(Line)
      /\ \A s \in Seq(Line), l \in Line :
           Append(s, l) \in Seq(Line) /\ Len(Append(s, l)) = Len(s) + 1
      /\ \A s \in Seq(Line), k \in Nat : k <= Len(s) => SubSeq(s, 1, k) \in Seq(Line)
  OBVIOUS
<1>2. \A l \in Line : Relative(l) \in Line
  BY RelativeLine
<1>3. ASSUME NEW s \in Seq(Line)
      PROVE  /\ Strip(s) \in Seq(Line) /\ Len(Strip(s)) = Len(s)
             /\ \A k \in 1..Len(s) : Strip(s)[k] = Relative(s[k])
  <2>1. Strip(s) = [k \in 1..Len(s) |-> Relative(s[k])] /\ Len(s) \in Nat
    BY DEF Strip
  <2>2. \A k \in 1..Len(s) : Relative(s[k]) \in Line
    BY <1>2
  <2>3. Strip(s) \in [1..Len(s) -> Line]
    BY <2>1, <2>2
  <2> QED BY <2>1, <2>3
<1> QED BY <1>1, <1>3

LEMMA NextStanding ==
  ASSUME CommandInv, [ProcessNext]_processVars
  PROVE  Standing'
<1> USE DEF pipeVars, copyVars, waitVars, procVars, ctxVars, endVars
<1>1. CASE ChildWrites \/ ChildExits \/ BackgroundExits \/ CancelContext
  BY <1>1, CallTypes DEF ChildWrites, ChildExits, BackgroundExits, CancelContext, CommandInv,
      ProcessTypeOK, Standing, Over, Killed, Exited, Globbing, Bash, Globs
<1>2. CASE CopyLine \/ CopyEnds
  BY <1>2, CallTypes DEF CopyLine, CopyEnds, CommandInv, ProcessTypeOK, Standing, Over, Killed,
      Exited, Globbing, Bash, Globs
<1>3. CASE ContextKills
  BY <1>3, CallTypes DEF ContextKills, KillChild, CommandInv, ProcessTypeOK, Standing, Over,
      Killed, Exited, Globbing, Bash, Globs
<1>4. CASE Reap \/ Drained \/ WaitDelayElapses
  BY <1>4, CallTypes DEF Reap, Drained, WaitDelayElapses, CommandInv, ProcessTypeOK, Standing,
      Over, Killed, Exited, Globbing, Bash, Globs
<1>5. CASE Start \/ StartFails
  BY <1>5, CallTypes DEF Start, StartFails, Return, CommandInv, ProcessTypeOK, Standing, Over,
      Killed, Exited, Globbing, Bash, Globs
<1>6. CASE TimerFires \/ SeeCancel
  BY <1>6, CallTypes DEF TimerFires, SeeCancel, GiveUp, KillGroup, CommandInv, ProcessTypeOK,
      Standing, Over, Killed, Exited, Globbing, Bash, Globs
<1>7. CASE BashGaveUp \/ BashDone \/ GrepDone \/ GitDone \/ GlobDone
  BY <1>7, CallTypes DEF BashGaveUp, BashDone, GrepDone, GitDone, GlobDone, Return, CommandInv,
      ProcessTypeOK, Standing, Over, Killed, Exited, Globbing, Bash, Globs
<1>8. CASE CheckContext \/ ScanEnds
  BY <1>8, CallTypes DEF CheckContext, ScanEnds, StopScan, StartWait, KillChild, CommandInv,
      ProcessTypeOK, Standing, Over, Killed, Exited, Globbing, Bash, Globs
<1>9. CASE ScanLine
  BY <1>9, CallTypes DEF ScanLine, StopScan, StartWait, KillChild, CommandInv, ProcessTypeOK,
      Standing, Over, Killed, Exited, Globbing, Bash, Globs
<1>10. CASE UNCHANGED processVars
  BY <1>10 DEF CommandInv, Standing, Globbing, Bash, Globs, processVars
<1> QED BY <1>1, <1>2, <1>3, <1>4, <1>5, <1>6, <1>7, <1>8, <1>9, <1>10 DEF ProcessNext,
    CommandStep, CopierStep, WaitStep, ExecuteStep

LEMMA NextOver ==
  ASSUME CommandInv, [ProcessNext]_processVars
  PROVE  Over'
<1> USE DEF pipeVars, copyVars, waitVars, procVars, ctxVars, endVars
<1>1. CASE ChildWrites \/ ChildExits \/ BackgroundExits \/ CancelContext
  BY <1>1, CallTypes DEF ChildWrites, ChildExits, BackgroundExits, CancelContext, CommandInv,
      ProcessTypeOK, Standing, Over, Killed, Exited, Globbing, Bash, Globs, PipeHeld
<1>2. CASE CopyLine \/ CopyEnds
  BY <1>2, CallTypes DEF CopyLine, CopyEnds, CommandInv, ProcessTypeOK, Standing, Over, Killed,
      Exited, Globbing, Bash, Globs, PipeHeld
<1>3. CASE ContextKills
  BY <1>3, CallTypes DEF ContextKills, KillChild, CommandInv, ProcessTypeOK, Standing, Over,
      Killed, Exited, Globbing, Bash, Globs, PipeHeld
<1>4. CASE Reap \/ Drained \/ WaitDelayElapses
  BY <1>4, CallTypes DEF Reap, Drained, WaitDelayElapses, CommandInv, ProcessTypeOK, Standing,
      Over, Killed, Exited, Globbing, Bash, Globs, PipeHeld
<1>5. CASE Start \/ StartFails
  BY <1>5, CallTypes DEF Start, StartFails, Return, CommandInv, ProcessTypeOK, Standing, Over,
      Killed, Exited, Globbing, Bash, Globs, PipeHeld
<1>6. CASE TimerFires \/ SeeCancel
  BY <1>6, CallTypes DEF TimerFires, SeeCancel, GiveUp, KillGroup, CommandInv, ProcessTypeOK,
      Standing, Over, Killed, Exited, Globbing, Bash, Globs, PipeHeld
<1>7. CASE BashGaveUp \/ BashDone \/ GrepDone \/ GitDone \/ GlobDone
  BY <1>7, CallTypes DEF BashGaveUp, BashDone, GrepDone, GitDone, GlobDone, Return, CommandInv,
      ProcessTypeOK, Standing, Over, Killed, Exited, Globbing, Bash, Globs, PipeHeld
<1>8. CASE CheckContext \/ ScanEnds
  BY <1>8, CallTypes DEF CheckContext, ScanEnds, StopScan, StartWait, KillChild, CommandInv,
      ProcessTypeOK, Standing, Over, Killed, Exited, Globbing, Bash, Globs, PipeHeld
<1>9. CASE ScanLine
  BY <1>9, CallTypes DEF ScanLine, StopScan, StartWait, KillChild, CommandInv, ProcessTypeOK,
      Standing, Over, Killed, Exited, Globbing, Bash, Globs, PipeHeld
<1>10. CASE UNCHANGED processVars
  BY <1>10 DEF CommandInv, Over, Globbing, Bash, Globs, PipeHeld, processVars
<1> QED BY <1>1, <1>2, <1>3, <1>4, <1>5, <1>6, <1>7, <1>8, <1>9, <1>10 DEF ProcessNext,
    CommandStep, CopierStep, WaitStep, ExecuteStep

LEMMA NextKilled ==
  ASSUME CommandInv, [ProcessNext]_processVars
  PROVE  Killed'
<1> USE DEF pipeVars, copyVars, waitVars, procVars, ctxVars, endVars
<1>1. CASE ChildWrites \/ ChildExits \/ BackgroundExits \/ CancelContext
  BY <1>1, CallTypes DEF ChildWrites, ChildExits, BackgroundExits, CancelContext, CommandInv,
      ProcessTypeOK, Standing, Over, Killed, Exited, Globbing, Bash, Globs
<1>2. CASE CopyLine \/ CopyEnds
  BY <1>2, CallTypes DEF CopyLine, CopyEnds, CommandInv, ProcessTypeOK, Standing, Over, Killed,
      Exited, Globbing, Bash, Globs
<1>3. CASE ContextKills
  BY <1>3, CallTypes DEF ContextKills, KillChild, CommandInv, ProcessTypeOK, Standing, Over,
      Killed, Exited, Globbing, Bash, Globs
<1>4. CASE Reap \/ Drained \/ WaitDelayElapses
  BY <1>4, CallTypes DEF Reap, Drained, WaitDelayElapses, CommandInv, ProcessTypeOK, Standing,
      Over, Killed, Exited, Globbing, Bash, Globs
<1>5. CASE Start \/ StartFails
  BY <1>5, CallTypes DEF Start, StartFails, Return, CommandInv, ProcessTypeOK, Standing, Over,
      Killed, Exited, Globbing, Bash, Globs
<1>6. CASE TimerFires \/ SeeCancel
  BY <1>6, CallTypes DEF TimerFires, SeeCancel, GiveUp, KillGroup, CommandInv, ProcessTypeOK,
      Standing, Over, Killed, Exited, Globbing, Bash, Globs
<1>7. CASE BashGaveUp \/ BashDone \/ GrepDone \/ GitDone \/ GlobDone
  BY <1>7, CallTypes DEF BashGaveUp, BashDone, GrepDone, GitDone, GlobDone, Return, CommandInv,
      ProcessTypeOK, Standing, Over, Killed, Exited, Globbing, Bash, Globs
<1>8. CASE CheckContext \/ ScanEnds
  BY <1>8, CallTypes DEF CheckContext, ScanEnds, StopScan, StartWait, KillChild, CommandInv,
      ProcessTypeOK, Standing, Over, Killed, Exited, Globbing, Bash, Globs
<1>9. CASE ScanLine
  BY <1>9, CallTypes DEF ScanLine, StopScan, StartWait, KillChild, CommandInv, ProcessTypeOK,
      Standing, Over, Killed, Exited, Globbing, Bash, Globs
<1>10. CASE UNCHANGED processVars
  BY <1>10 DEF CommandInv, Killed, Globbing, Bash, Globs, processVars
<1> QED BY <1>1, <1>2, <1>3, <1>4, <1>5, <1>6, <1>7, <1>8, <1>9, <1>10 DEF ProcessNext,
    CommandStep, CopierStep, WaitStep, ExecuteStep

LEMMA NextExited ==
  ASSUME CommandInv, [ProcessNext]_processVars
  PROVE  Exited'
<1> USE DEF pipeVars, copyVars, waitVars, procVars, ctxVars, endVars
<1>1. CASE ChildWrites \/ ChildExits \/ BackgroundExits \/ CancelContext
  BY <1>1, CallTypes DEF ChildWrites, ChildExits, BackgroundExits, CancelContext, CommandInv,
      ProcessTypeOK, Standing, Over, Killed, Exited, Globbing, Bash, Globs
<1>2. CASE CopyLine \/ CopyEnds
  BY <1>2, CallTypes DEF CopyLine, CopyEnds, CommandInv, ProcessTypeOK, Standing, Over, Killed,
      Exited, Globbing, Bash, Globs
<1>3. CASE ContextKills
  BY <1>3, CallTypes DEF ContextKills, KillChild, CommandInv, ProcessTypeOK, Standing, Over,
      Killed, Exited, Globbing, Bash, Globs
<1>4. CASE Reap \/ Drained \/ WaitDelayElapses
  BY <1>4, CallTypes DEF Reap, Drained, WaitDelayElapses, CommandInv, ProcessTypeOK, Standing,
      Over, Killed, Exited, Globbing, Bash, Globs
<1>5. CASE Start \/ StartFails
  BY <1>5, CallTypes DEF Start, StartFails, Return, CommandInv, ProcessTypeOK, Standing, Over,
      Killed, Exited, Globbing, Bash, Globs
<1>6. CASE TimerFires \/ SeeCancel
  BY <1>6, CallTypes DEF TimerFires, SeeCancel, GiveUp, KillGroup, CommandInv, ProcessTypeOK,
      Standing, Over, Killed, Exited, Globbing, Bash, Globs
<1>7. CASE BashGaveUp \/ BashDone \/ GrepDone \/ GitDone \/ GlobDone
  BY <1>7, CallTypes DEF BashGaveUp, BashDone, GrepDone, GitDone, GlobDone, Return, CommandInv,
      ProcessTypeOK, Standing, Over, Killed, Exited, Globbing, Bash, Globs
<1>8. CASE CheckContext \/ ScanEnds
  BY <1>8, CallTypes DEF CheckContext, ScanEnds, StopScan, StartWait, KillChild, CommandInv,
      ProcessTypeOK, Standing, Over, Killed, Exited, Globbing, Bash, Globs
<1>9. CASE ScanLine
  BY <1>9, CallTypes DEF ScanLine, StopScan, StartWait, KillChild, CommandInv, ProcessTypeOK,
      Standing, Over, Killed, Exited, Globbing, Bash, Globs
<1>10. CASE UNCHANGED processVars
  BY <1>10 DEF CommandInv, Exited, Globbing, Bash, Globs, processVars
<1> QED BY <1>1, <1>2, <1>3, <1>4, <1>5, <1>6, <1>7, <1>8, <1>9, <1>10 DEF ProcessNext,
    CommandStep, CopierStep, WaitStep, ExecuteStep

LEMMA TextTypes ==
  ASSUME CommandInv
  PROVE  /\ Text \in Seq(Line) /\ Len(Text) = Len(buffer) + (IF truncated THEN 1 ELSE 0)
         /\ \A k \in 1..Len(buffer) : Text[k] = buffer[k]
         /\ TextNotes \subseteq Notes /\ WaitNotes \subseteq Notes
<1>1. buffer \in Seq(Line) /\ truncated \in BOOLEAN
  BY DEF CommandInv, ProcessTypeOK
<1>2. \A s \in Seq(Line), l \in Line :
        /\ Append(s, l) \in Seq(Line) /\ Len(Append(s, l)) = Len(s) + 1
        /\ \A k \in 1..Len(s) : Append(s, l)[k] = s[k]
  OBVIOUS
<1>3. /\ Append(buffer, TruncationNote) \in Seq(Line)
      /\ Len(Append(buffer, TruncationNote)) = Len(buffer) + 1
      /\ \A k \in 1..Len(buffer) : Append(buffer, TruncationNote)[k] = buffer[k]
  <2>1. TruncationNote \in Line
    BY DEF Line, TruncationNote
  <2> QED BY <1>1, <1>2, <2>1
<1>4. TextNotes \subseteq Notes
  BY DEF TextNotes, Notes
<1>5. WaitNotes \subseteq Notes
  BY DEF WaitNotes, Notes
<1>6. CASE truncated
  BY <1>3, <1>4, <1>5, <1>6 DEF Text
<1>7. CASE ~truncated
  BY <1>1, <1>4, <1>5, <1>7 DEF Text
<1> QED BY <1>6, <1>7

LEMMA ReturnTypes ==
  ASSUME NEW error \in BOOLEAN, NEW lines \in Seq(Line), NEW notes \in SUBSET Notes,
         Return(error, lines, notes)
  PROVE  /\ at' = "returned"
         /\ result'.error = error /\ result'.lines = lines /\ result'.notes = notes
         /\ result'.error \in BOOLEAN /\ result'.lines \in Seq(Line)
         /\ result'.notes \subseteq Notes
BY DEF Return

LEMMA NextTyped ==
  ASSUME CommandInv, [ProcessNext]_processVars
  PROVE  ProcessTypeOK'
<1> USE DEF pipeVars, copyVars, waitVars, procVars, ctxVars, endVars
<1>1. CASE ChildWrites \/ ChildExits \/ BackgroundExits \/ CancelContext
  <2>1. CASE ChildWrites
    <3>1. /\ sent < Len(call.output) /\ sent - got < PipeRoom /\ sent' = sent + 1
          /\ UNCHANGED <<call, at, procVars, got, copyVars, waitVars, ctxVars, endVars>>
      BY <2>1 DEF ChildWrites
    <3>2. sent \in 0..Len(call.output) /\ got \in 0..sent /\ Len(call.output) \in Nat
          /\ PipeRoom \in Nat
      BY CallTypes, BoundsAssumption DEF CommandInv, ProcessTypeOK
    <3>3. sent' \in 0..Len(call.output) /\ got \in 0..sent' /\ sent' - got <= PipeRoom
      BY <3>1, <3>2
    <3> QED BY <3>1, <3>3 DEF CommandInv, ProcessTypeOK
  <2>2. CASE ChildExits \/ BackgroundExits \/ CancelContext
    BY <2>2 DEF ChildExits, BackgroundExits, CancelContext, CommandInv, ProcessTypeOK
  <2> QED BY <1>1, <2>1, <2>2
<1>2. CASE CopyLine
  <2>1. /\ got < sent /\ got' = got + 1 /\ sent' = sent
        /\ \/ /\ Len(buffer) < OutputCap /\ buffer' = Append(buffer, call.output[got + 1])
              /\ truncated' = truncated
           \/ truncated' = TRUE /\ buffer' = buffer
        /\ UNCHANGED <<call, at, procVars, copier, waitVars, ctxVars, endVars>>
    BY <1>2 DEF CopyLine
  <2>2. got \in Nat /\ sent \in Nat /\ sent - got <= PipeRoom /\ sent <= Len(call.output)
        /\ call.output \in Seq(Line)
    BY CallTypes, BoundsAssumption DEF CommandInv, ProcessTypeOK
  <2>3. sent' \in 0..Len(call'.output) /\ got' \in 0..sent' /\ sent' - got' <= PipeRoom
    BY <2>1, <2>2, BoundsAssumption
  <2>4. call.output[got + 1] \in Line
    BY <2>1, <2>2, CallTypes DEF CommandInv, ProcessTypeOK
  <2>5. buffer' \in Seq(Line) /\ Len(buffer') <= OutputCap
    <3>1. buffer \in Seq(Line) /\ Len(buffer) <= OutputCap /\ Len(buffer) \in Nat
      BY DEF CommandInv, ProcessTypeOK
    <3> QED BY <2>1, <2>4, <3>1, LineSeqs, BoundsAssumption
  <2>6. truncated' \in BOOLEAN
    BY <2>1 DEF CommandInv, ProcessTypeOK
  <2> QED BY <2>1, <2>3, <2>5, <2>6 DEF CommandInv, ProcessTypeOK
<1>3. CASE CopyEnds \/ ContextKills \/ Reap \/ Drained \/ WaitDelayElapses
  BY <1>3 DEF CopyEnds, ContextKills, Reap, Drained, WaitDelayElapses, KillChild, CommandInv,
              ProcessTypeOK, Standing
<1>4. CASE Start
  BY <1>4, CallTypes DEF Start, CommandInv, ProcessTypeOK, Standing
<1>5. CASE StartFails
  <2>1. <<>> \in Seq(Line) /\ {} \subseteq Notes
    OBVIOUS
  <2>2. Return(TRUE, <<>>, {}) /\ stop' = "start"
        /\ UNCHANGED <<call, procVars, pipeVars, copyVars, waitVars, ctxVars, rels>>
    BY <1>5 DEF StartFails
  <2>3. /\ at' = "returned" /\ result'.error \in BOOLEAN /\ result'.lines \in Seq(Line)
        /\ result'.notes \subseteq Notes
    BY <2>1, <2>2, ReturnTypes
  <2> QED BY <2>2, <2>3 DEF CommandInv, ProcessTypeOK
<1>6. CASE TimerFires \/ SeeCancel
  BY <1>6 DEF TimerFires, SeeCancel, GiveUp, KillGroup, CommandInv, ProcessTypeOK, Standing, Over
<1>7. CASE BashGaveUp \/ BashDone \/ GrepDone \/ GitDone \/ GlobDone
  <2>1. \E error \in BOOLEAN, lines \in Seq(Line), notes \in SUBSET Notes :
          Return(error, lines, notes)
    <3>1. CASE BashGaveUp
      <4>1. TextNotes \cup {"timeout"} \in SUBSET Notes /\ TextNotes \in SUBSET Notes
        BY TextTypes DEF Notes
      <4> QED BY <3>1, <4>1, TextTypes DEF BashGaveUp
    <3>2. CASE BashDone
      <4>1. TextNotes \cup WaitNotes \in SUBSET Notes
        BY TextTypes
      <4> QED BY <3>2, <4>1, TextTypes DEF BashDone
    <3>3. CASE GrepDone
      <4>1. Strip(Text) \in Seq(Line) /\ Len(Strip(Text)) = Len(Text)
        BY TextTypes, LineSeqs
      <4>2. Len(Text) > GrepMaxLines => SubSeq(Strip(Text), 1, GrepMaxLines) \in Seq(Line)
        <5>1. GrepMaxLines \in Nat
          BY BoundsAssumption
        <5> QED BY <4>1, <5>1, LineSeqs
      <4>3. Len(Text) \in Nat /\ GrepMaxLines \in Nat
        BY TextTypes, BoundsAssumption
      <4>4. Len(Text) <= GrepMaxLines \/ Len(Text) > GrepMaxLines
        BY <4>3
      <4>5. {"more"} \in SUBSET Notes /\ {} \in SUBSET Notes /\ TextNotes \in SUBSET Notes
        BY TextTypes DEF Notes
      <4>6. <<>> \in Seq(Line)
        OBVIOUS
      <4>7. \/ Return(FALSE, Strip(Text), TextNotes)
            \/ Len(Text) > GrepMaxLines
               /\ Return(FALSE, SubSeq(Strip(Text), 1, GrepMaxLines), {"more"})
            \/ Return(FALSE, <<>>, {}) \/ Return(TRUE, <<>>, {})
        BY <3>3, <4>4 DEF GrepDone
      <4> QED BY <4>1, <4>2, <4>5, <4>6, <4>7
    <3>4. CASE GitDone
      <4>1. <<>> \in Seq(Line) /\ {} \in SUBSET Notes /\ TextNotes \in SUBSET Notes
        BY TextTypes
      <4> QED BY <3>4, <4>1, TextTypes DEF GitDone
    <3>5. CASE GlobDone
      <4>1. <<>> \in Seq(Line) /\ {} \in SUBSET Notes /\ rels \in Seq(Line)
        BY DEF CommandInv, ProcessTypeOK
      <4> QED BY <3>5, <4>1 DEF GlobDone
    <3> QED BY <1>7, <3>1, <3>2, <3>3, <3>4, <3>5
  <2>2. UNCHANGED <<call, procVars, pipeVars, copyVars, waitVars, ctxVars, stop, rels>>
    BY <1>7 DEF BashGaveUp, BashDone, GrepDone, GitDone, GlobDone
  <2>3. /\ at' = "returned" /\ result'.error \in BOOLEAN /\ result'.lines \in Seq(Line)
        /\ result'.notes \subseteq Notes
    BY <2>1, ReturnTypes
  <2> QED BY <2>2, <2>3 DEF CommandInv, ProcessTypeOK
<1>8. CASE CheckContext \/ ScanEnds
  BY <1>8 DEF CheckContext, ScanEnds, StopScan, StartWait, KillChild, CommandInv, ProcessTypeOK,
              Standing
<1>9. CASE ScanLine
  <2>1. /\ got \in Nat /\ sent \in Nat /\ sent - got <= PipeRoom /\ sent <= Len(call.output)
        /\ call.output \in Seq(Line) /\ Len(call.output) \in Nat
    BY CallTypes, BoundsAssumption DEF CommandInv, ProcessTypeOK
  <2>2. at = "scan" /\ got < sent /\ UNCHANGED <<call, sent, copyVars, werr, ctxVars>>
    BY <1>9 DEF ScanLine
  <2>3. \/ StopScan /\ got' = got
        \/ /\ got' = got + 1
           /\ rels' \in {rels, Append(rels, Relative(call.output[got + 1]))}
           /\ UNCHANGED <<at, wait, procVars, stop, result>>
    BY <1>9 DEF ScanLine
  <2>4. Relative(call.output[got + 1]) \in Line
    <3>1. call.output[got + 1] \in Line
      BY <2>1, <2>2
    <3> QED BY <3>1, RelativeLine
  <2>5. CASE StopScan /\ got' = got
    BY <2>2, <2>5 DEF StopScan, StartWait, KillChild, CommandInv, ProcessTypeOK,
              Standing
  <2>6. CASE /\ got' = got + 1
             /\ rels' \in {rels, Append(rels, Relative(call.output[got + 1]))}
             /\ UNCHANGED <<at, wait, procVars, stop, result>>
    <3>1. sent' \in 0..Len(call'.output) /\ got' \in 0..sent' /\ sent' - got' <= PipeRoom
      BY <2>1, <2>2, <2>6, BoundsAssumption
    <3>2. rels' \in Seq(Line)
      <4>1. rels \in Seq(Line)
        BY DEF CommandInv, ProcessTypeOK
      <4> QED BY <2>4, <2>6, <4>1, LineSeqs
    <3> QED BY <2>2, <2>6, <3>1, <3>2 DEF CommandInv, ProcessTypeOK
  <2> QED BY <2>3, <2>5, <2>6
<1>10. CASE UNCHANGED processVars
  BY <1>10 DEF CommandInv, ProcessTypeOK, processVars
<1> QED BY <1>1, <1>2, <1>3, <1>4, <1>5, <1>6, <1>7, <1>8, <1>9, <1>10
  DEF ProcessNext, CommandStep, CopierStep, WaitStep, ExecuteStep

LEMMA NextCopied ==
  ASSUME CommandInv, [ProcessNext]_processVars
  PROVE  Copied'
<1> USE DEF pipeVars, copyVars
<1>1. CASE CopyLine
  <2>1. /\ got' = got + 1 /\ call' = call
        /\ \/ /\ Len(buffer) < OutputCap /\ buffer' = Append(buffer, call.output[got + 1])
              /\ truncated' = truncated
           \/ ~(Len(buffer) < OutputCap) /\ truncated' = TRUE /\ buffer' = buffer
    BY <1>1 DEF CopyLine
  <2>2. /\ truncated <=> got > OutputCap
        /\ Len(buffer) = IF truncated THEN OutputCap ELSE got
        /\ \A k \in 1..Len(buffer) : buffer[k] = call.output[k]
    BY <1>1 DEF CopyLine, CommandInv, Copied
  <2>3. got \in Nat /\ OutputCap \in Nat /\ buffer \in Seq(Line) /\ Len(buffer) \in Nat
        /\ truncated \in BOOLEAN
    BY BoundsAssumption, CallTypes DEF CommandInv, ProcessTypeOK
  <2>4. CASE Len(buffer) < OutputCap
    <3>1. ~truncated /\ Len(buffer) = got /\ ~truncated'
      BY <2>1, <2>2, <2>3, <2>4
    <3>2. buffer' = Append(buffer, call.output[got + 1])
      BY <2>1, <2>4
    <3>3. /\ Len(buffer') = got + 1 /\ buffer'[got + 1] = call.output[got + 1]
          /\ \A k \in 1..got : buffer'[k] = buffer[k]
      BY <2>3, <3>1, <3>2
    <3>4. ~(got' > OutputCap)
      BY <2>1, <2>3, <2>4, <3>1
    <3>5. \A k \in 1..(got + 1) : buffer'[k] = call.output[k]
      <4>1. \A k \in 1..(got + 1) : k = got + 1 \/ k \in 1..got
        BY <2>3
      <4> QED BY <2>2, <3>1, <3>3, <4>1
    <3> QED BY <2>1, <3>1, <3>3, <3>4, <3>5 DEF Copied
  <2>5. CASE ~(Len(buffer) < OutputCap)
    <3>1. truncated' /\ buffer' = buffer
      BY <2>1, <2>5
    <3>2. Len(buffer) = OutputCap /\ got' > OutputCap
      BY <2>1, <2>2, <2>3, <2>5
    <3> QED BY <2>1, <2>2, <3>1, <3>2 DEF Copied
  <2> QED BY <2>4, <2>5
<1>2. CASE ScanLine
  BY <1>2 DEF ScanLine, CommandInv, Standing, Copied, Globbing
<1>3. CASE UNCHANGED <<call, got, buffer, truncated>>
  BY <1>3 DEF CommandInv, Copied, Globbing
<1>4. [ProcessNext]_processVars =>
        CopyLine \/ ScanLine \/ UNCHANGED <<call, got, buffer, truncated>>
  BY DEF ProcessNext, CommandStep, CopierStep, WaitStep, ExecuteStep, ChildWrites, ChildExits,
         BackgroundExits, CancelContext, CopyEnds, ContextKills, Reap, Drained, WaitDelayElapses,
         Start, StartFails, TimerFires, SeeCancel, GiveUp, BashGaveUp, BashDone, GrepDone, GitDone,
         CheckContext, ScanEnds, GlobDone, processVars
<1> QED BY <1>1, <1>2, <1>3, <1>4

LEMMA NextCommand == CommandInv /\ [ProcessNext]_processVars => CommandInv'
BY NextTyped, NextStanding, NextOver, NextKilled, NextExited, NextCopied DEF CommandInv

LEMMA InitCommand == ProcessInit => CommandInv
<1> SUFFICES ASSUME ProcessInit PROVE CommandInv
  OBVIOUS
<1>1. ProcessTypeOK
  <2>1. /\ call \in Calls /\ sent = 0 /\ got = 0 /\ buffer = <<>> /\ rels = <<>>
        /\ result.error = FALSE /\ result.lines = <<>> /\ result.notes = {}
    BY DEF ProcessInit, NoResult
  <2>2. sent \in 0..Len(call.output) /\ got \in 0..sent /\ sent - got <= PipeRoom
    BY <2>1, CallTypes, BoundsAssumption
  <2>3. buffer \in Seq(Line) /\ Len(buffer) <= OutputCap /\ rels \in Seq(Line)
    BY <2>1, BoundsAssumption
  <2>4. result.lines \in Seq(Line)
    BY <2>1
  <2>5. result.error \in BOOLEAN /\ result.notes \subseteq Notes
    BY <2>1
  <2> QED BY <2>2, <2>3, <2>4, <2>5 DEF ProcessInit, ProcessTypeOK
<1>2. Standing /\ Over /\ Killed /\ Exited
  BY DEF ProcessInit, Standing, Over, Killed, Exited
<1>3. Copied
  BY BoundsAssumption DEF ProcessInit, Copied
<1> QED BY <1>1, <1>2, <1>3 DEF CommandInv

LEMMA StepOfCommand == [Next]_vars => [ProcessNext]_processVars
BY DEF Next, OfCommand, Reading, Changing, Returned, vars

\* The command, the copying, the waiting and Execute keep step, in every call.
LEMMA CommandHeld == Spec => []CommandInv
<1>1. Init => CommandInv
  BY InitCommand DEF Init
<1> QED BY <1>1, StepOfCommand, NextCommand, PTL DEF Spec

----------------------------------------------------------------------------
(* What a returned command is worth.                                       *)

\* What is left of a text when the note is taken off is the beginning of what
\* was copied, and all of it unless there is a note.
LEMMA TextShows ==
  ASSUME CommandInv, ~Globbing
  PROVE  LET kept == Len(Text) - (IF truncated THEN 1 ELSE 0)
         IN  /\ kept \in Nat /\ kept <= got /\ kept <= Len(Text)
             /\ \A k \in 1..kept : Text[k] = call.output[k]
             /\ kept = got <=> ~truncated
             /\ truncated => kept = OutputCap
<1>1. /\ Len(Text) = Len(buffer) + (IF truncated THEN 1 ELSE 0)
      /\ \A k \in 1..Len(buffer) : Text[k] = buffer[k]
  BY TextTypes
<1>2. /\ truncated <=> got > OutputCap
      /\ Len(buffer) = IF truncated THEN OutputCap ELSE got
      /\ \A k \in 1..Len(buffer) : buffer[k] = call.output[k]
  BY DEF CommandInv, Copied
<1>3. Len(buffer) \in Nat /\ got \in Nat /\ OutputCap \in Nat /\ truncated \in BOOLEAN
  BY CallTypes, BoundsAssumption DEF CommandInv, ProcessTypeOK
<1>4. Len(Text) - (IF truncated THEN 1 ELSE 0) = Len(buffer) /\ Len(buffer) <= Len(Text)
  BY <1>1, <1>3
<1>5. Len(buffer) <= got /\ (Len(buffer) = got <=> ~truncated)
  BY <1>2, <1>3
<1>6. \A k \in 1..Len(buffer) : Text[k] = call.output[k]
  BY <1>1, <1>2
<1> QED BY <1>2, <1>3, <1>4, <1>5, <1>6

LEMMA SameBeginning ==
  ASSUME NEW s \in Seq(Line), NEW t \in Seq(Line), NEW n \in Nat, n <= Len(s), n <= Len(t),
         \A k \in 1..n : s[k] = t[k]
  PROVE  SubSeq(s, 1, n) = SubSeq(t, 1, n)
OBVIOUS

\* A call that returned is not disturbed.
LEMMA ReturnedStays ==
  ASSUME CommandInv, [ProcessNext]_processVars, at = "returned"
  PROVE  UNCHANGED <<call, at, copier, sent, stop, result>>
<1> USE DEF pipeVars, copyVars, waitVars, procVars, ctxVars, endVars, CommandInv
<1>1. CASE ChildWrites \/ ChildExits \/ BackgroundExits \/ CancelContext
  BY <1>1 DEF ChildWrites, ChildExits, BackgroundExits, CancelContext, Standing, Over
<1>2. CASE CopyLine \/ CopyEnds \/ ContextKills \/ Reap \/ Drained \/ WaitDelayElapses
  BY <1>2 DEF CopyLine, CopyEnds, ContextKills, Reap, Drained, WaitDelayElapses, Standing, Over
<1>3. CASE TimerFires \/ ExecuteStep
  BY <1>3 DEF TimerFires, GiveUp, ExecuteStep, Start, StartFails, SeeCancel, BashGaveUp, BashDone,
              GrepDone, GitDone, CheckContext, ScanLine, ScanEnds, GlobDone
<1>4. CASE UNCHANGED processVars
  BY <1>4 DEF processVars
<1> QED BY <1>1, <1>2, <1>3, <1>4 DEF ProcessNext, CommandStep, CopierStep, WaitStep

\* A step makes a call return only by returning.
LEMMA OnlyReturns ==
  ASSUME CommandInv, [ProcessNext]_processVars, at # "returned", at' = "returned"
  PROVE  StartFails \/ BashGaveUp \/ BashDone \/ GrepDone \/ GitDone \/ GlobDone
<1> USE DEF pipeVars, copyVars, waitVars, procVars, ctxVars, endVars
<1>1. CASE CommandStep \/ CancelContext \/ CopierStep \/ ContextKills \/ WaitStep
  BY <1>1 DEF CommandStep, ChildWrites, ChildExits, BackgroundExits, CancelContext, CopierStep,
              CopyLine, CopyEnds, ContextKills, WaitStep, Reap, Drained, WaitDelayElapses
<1>2. CASE TimerFires \/ ExecuteStep
  BY <1>2 DEF TimerFires, GiveUp, ExecuteStep, Start, SeeCancel, CheckContext, ScanLine, ScanEnds,
              StopScan, StartWait
<1> QED BY <1>1, <1>2 DEF ProcessNext, processVars

\* A text, with its notes, of a command that was waited for.
LEMMA TextTells ==
  ASSUME CommandInv, ~Globbing, wait = "done", call.tool # "grep",
         NEW more \in SUBSET {"timeout", "delay", "exit"},
         copier # "eof" => more # {},
         Return(FALSE, Text, TextNotes \cup more),
         UNCHANGED <<call, procVars, pipeVars, copyVars, waitVars, ctxVars>>
  PROVE  NothingCutSilently'
<1> DEFINE kept == Len(Text) - (IF truncated THEN 1 ELSE 0)
<1>1. /\ kept \in Nat /\ kept <= got /\ kept <= Len(Text)
      /\ \A k \in 1..kept : Text[k] = call.output[k]
      /\ kept = got <=> ~truncated
  BY TextShows
<1>2. result'.lines = Text /\ result'.notes = TextNotes \cup more
  BY DEF Return
<1>3. "truncated" \in result'.notes <=> truncated
  BY <1>2 DEF TextNotes
<1>4. "more" \notin result'.notes
  BY <1>2 DEF TextNotes
<1>5. copier' = copier /\ sent' = sent /\ call' = call /\ call.tool # "grep"
  BY DEF copyVars, pipeVars
<1>6. copier = "eof" \/ result'.notes \cap {"timeout", "delay", "exit"} # {}
  BY <1>2
<1>7. SubSeq(Text, 1, kept) = SubSeq(call.output, 1, kept)
  <2>1. call.output \in Seq(Line) /\ got <= Len(call.output) /\ got \in Nat
        /\ Len(call.output) \in Nat
    BY CallTypes DEF CommandInv, ProcessTypeOK
  <2> HIDE DEF kept
  <2>2. kept <= Len(call.output)
    BY <1>1, <2>1
  <2>3. Text \in Seq(Line)
    BY TextTypes
  <2> QED BY <1>1, <2>1, <2>2, <2>3, SameBeginning
<1>8. copier = "eof" => (kept = sent <=> result'.notes \cap {"truncated", "more"} = {})
  <2>1. copier = "eof" => got = sent
    BY DEF CommandInv, Over
  <2>2. result'.notes \cap {"truncated", "more"} = {} <=> ~truncated
    BY <1>3, <1>4
  <2> QED BY <1>1, <2>1, <2>2
<1>9. Len(result'.lines) - (IF "truncated" \in result'.notes THEN 1 ELSE 0) = kept
  BY <1>2, <1>3
<1> QED BY <1>2, <1>5, <1>6, <1>7, <1>8, <1>9 DEF NothingCutSilently

LEMMA GrepTells ==
  ASSUME CommandInv, GrepDone
  PROVE  NothingCutSilently'
<1>1. /\ call.tool = "grep" /\ wait = "done" /\ ~Globbing /\ ~Bash
      /\ UNCHANGED <<call, procVars, pipeVars, copyVars, waitVars, ctxVars, stop, rels>>
  BY ToolKinds DEF GrepDone
<1>2. call' = call /\ copier' = copier /\ sent' = sent
  BY <1>1 DEF copyVars, pipeVars
<1>3. /\ copier = "eof" /\ got = sent /\ sent \in Nat /\ sent <= Len(call.output)
      /\ call.output \in Seq(Line) /\ Len(call.output) \in Nat
  BY <1>1, CallTypes DEF CommandInv, ProcessTypeOK, Over
<1>4. CASE /\ werr = "none"
           /\ IF Len(Text) <= GrepMaxLines
              THEN Return(FALSE, Strip(Text), TextNotes)
              ELSE Return(FALSE, SubSeq(Strip(Text), 1, GrepMaxLines), {"more"})
  <2>1. sent = Len(call.output)
    BY <1>1, <1>4 DEF CommandInv, Exited
  <2> DEFINE shown == Len(Text) - (IF truncated THEN 1 ELSE 0)
             all   == Strip(call.output)
  <2>2. /\ shown \in Nat /\ shown <= got /\ shown <= Len(Text)
        /\ \A k \in 1..shown : Text[k] = call.output[k]
        /\ shown = got <=> ~truncated
        /\ truncated => shown = OutputCap
    BY <1>1, TextShows
  <2>3. /\ Strip(Text) \in Seq(Line) /\ Len(Strip(Text)) = Len(Text) /\ Len(Text) \in Nat
        /\ \A k \in 1..Len(Text) : Strip(Text)[k] = Relative(Text[k])
        /\ all \in Seq(Line) /\ Len(all) = sent
        /\ \A k \in 1..sent : all[k] = Relative(call.output[k])
    BY <1>3, <2>1, TextTypes, LineSeqs
  <2>4. Len(Text) = IF truncated THEN shown + 1 ELSE shown
    BY <2>3
  <2> HIDE DEF shown, all
  <2>5. \A k \in 1..shown : Strip(Text)[k] = all[k]
    BY <1>3, <2>2, <2>3
  <2>6. CASE Len(Text) <= GrepMaxLines
    <3>1. result'.lines = Strip(Text) /\ result'.notes = TextNotes
      BY <1>4, <2>6 DEF Return
    <3>2. "truncated" \in result'.notes <=> truncated
      BY <3>1 DEF TextNotes
    <3>3. Len(result'.lines) - (IF "truncated" \in result'.notes THEN 1 ELSE 0) = shown
      BY <2>2, <2>3, <2>4, <3>1, <3>2
    <3>4. SubSeq(Strip(Text), 1, shown) = SubSeq(all, 1, shown)
      BY <1>3, <2>2, <2>3, <2>5, SameBeginning
    <3>5. shown = sent <=> result'.notes \cap {"truncated", "more"} = {}
      <4>1. result'.notes \cap {"truncated", "more"} = {} <=> ~truncated
        BY <3>1 DEF TextNotes
      <4> QED BY <1>3, <2>2, <4>1
    <3> QED BY <1>1, <1>2, <1>3, <2>1, <3>1, <3>3, <3>4, <3>5 DEF NothingCutSilently, all
  <2>7. CASE ~(Len(Text) <= GrepMaxLines)
    <3>1. result'.lines = SubSeq(Strip(Text), 1, GrepMaxLines) /\ result'.notes = {"more"}
      BY <1>4, <2>7 DEF Return
    <3>2. GrepMaxLines \in Nat /\ GrepMaxLines < Len(Text) /\ OutputCap \in Nat
      BY <2>3, <2>7, BoundsAssumption
    <3>3. GrepMaxLines <= shown /\ GrepMaxLines < sent
      <4>1. CASE truncated
        BY <1>3, <2>2, <2>4, <3>2, <4>1
      <4>2. CASE ~truncated
        BY <1>3, <2>2, <2>4, <3>2, <4>2
      <4> QED BY <4>1, <4>2
    <3>4. Len(result'.lines) = GrepMaxLines
      BY <2>3, <3>1, <3>2
    <3>5. "truncated" \notin result'.notes /\ "more" \in result'.notes
      BY <3>1
    <3>6. Len(result'.lines) - (IF "truncated" \in result'.notes THEN 1 ELSE 0) = GrepMaxLines
      BY <3>2, <3>4, <3>5
    <3>7. SubSeq(Strip(Text), 1, GrepMaxLines) = SubSeq(all, 1, GrepMaxLines)
      <4>1. \A k \in 1..GrepMaxLines : Strip(Text)[k] = all[k]
        BY <2>2, <2>5, <3>2, <3>3
      <4>2. GrepMaxLines <= Len(Strip(Text)) /\ GrepMaxLines <= Len(all)
        BY <1>3, <2>3, <3>2, <3>3
      <4> QED BY <2>3, <3>2, <4>1, <4>2, SameBeginning
    <3>8. SubSeq(result'.lines, 1, GrepMaxLines) = SubSeq(all, 1, GrepMaxLines)
      <4>1. \A s \in Seq(Line), n \in Nat :
              n <= Len(s) => SubSeq(SubSeq(s, 1, n), 1, n) = SubSeq(s, 1, n)
        OBVIOUS
      <4>2. GrepMaxLines <= Len(Strip(Text))
        BY <2>3, <3>2
      <4> QED BY <2>3, <3>1, <3>2, <3>7, <4>1, <4>2
    <3>9. GrepMaxLines # sent /\ result'.notes \cap {"truncated", "more"} # {}
      BY <1>3, <3>2, <3>3, <3>5
    <3> QED BY <1>1, <1>2, <1>3, <2>1, <3>6, <3>8, <3>9 DEF NothingCutSilently, all
  <2> QED BY <2>6, <2>7
<1>5. CASE werr = "exit" /\ exit = "one" /\ Return(FALSE, <<>>, {})
  <2>1. call.output = <<>> /\ sent = 0 /\ sent = Len(call.output)
    BY <1>3, <1>5 DEF CommandInv, Exited
  <2>2. result'.lines = <<>> /\ result'.notes = {}
    BY <1>5 DEF Return
  <2>3. Len(result'.lines) - (IF "truncated" \in result'.notes THEN 1 ELSE 0) = 0
    BY <2>2
  <2>4. Strip(call.output) \in Seq(Line)
    BY <1>3, LineSeqs
  <2>5. SubSeq(result'.lines, 1, 0) = SubSeq(Strip(call.output), 1, 0)
    BY <2>2, <2>4
  <2>6. 0 = sent <=> result'.notes \cap {"truncated", "more"} = {}
    BY <2>1, <2>2
  <2> QED BY <1>1, <1>2, <1>3, <2>1, <2>3, <2>5, <2>6 DEF NothingCutSilently
<1>6. CASE Return(TRUE, <<>>, {})
  <2>1. result'.error = TRUE
    BY <1>6 DEF Return
  <2> QED BY <2>1 DEF NothingCutSilently
<1> QED BY <1>4, <1>5, <1>6 DEF GrepDone

LEMMA NextTells ==
  ASSUME CommandInv, NothingCutSilently, [ProcessNext]_processVars
  PROVE  NothingCutSilently'
<1>1. CASE at = "returned"
  <2>1. UNCHANGED <<call, at, copier, sent, stop, result>>
    BY <1>1, ReturnedStays
  <2>2. CommandReturned' <=> CommandReturned
    BY <2>1 DEF CommandReturned
  <2> QED BY <2>1, <2>2 DEF NothingCutSilently, Strip
<1>2. CASE at # "returned" /\ at' = "returned"
  <2>1. CASE StartFails
    BY <2>1 DEF StartFails, NothingCutSilently, CommandReturned
  <2>2. CASE BashGaveUp
    <3>1. /\ wait = "done" /\ Bash /\ ~Globbing /\ call.tool # "grep"
          /\ UNCHANGED <<call, procVars, pipeVars, copyVars, waitVars, ctxVars>>
      BY <2>2, ToolKinds DEF BashGaveUp, CommandInv, Standing, Killed
    <3>2. CASE Return(FALSE, Text, TextNotes \cup {"timeout"})
      BY <3>1, <3>2, TextTells
    <3>3. CASE Return(TRUE, Text, TextNotes)
      BY <3>3 DEF Return, NothingCutSilently
    <3> QED BY <2>2, <3>2, <3>3 DEF BashGaveUp
  <2>3. CASE BashDone
    <3>1. /\ wait = "done" /\ ~Globbing /\ call.tool # "grep"
          /\ UNCHANGED <<call, procVars, pipeVars, copyVars, waitVars, ctxVars>>
          /\ Return(FALSE, Text, TextNotes \cup WaitNotes)
      BY <2>3, ToolKinds DEF BashDone
    <3>2. WaitNotes \subseteq {"timeout", "delay", "exit"}
      BY DEF WaitNotes
    <3>3. copier # "eof" => WaitNotes # {}
      BY <3>1 DEF CommandInv, Over, WaitNotes
    <3> QED BY <3>1, <3>2, <3>3, TextTells
  <2>4. CASE GrepDone
    BY <2>4, GrepTells
  <2>5. CASE GitDone
    <3>1. /\ wait = "done" /\ ~Globbing /\ ~Bash /\ call.tool # "grep"
          /\ UNCHANGED <<call, procVars, pipeVars, copyVars, waitVars, ctxVars>>
      BY <2>5, ToolKinds DEF GitDone
    <3>2. copier = "eof"
      BY <3>1 DEF CommandInv, Over
    <3>3. CASE Return(TRUE, <<>>, {})
      BY <3>3 DEF Return, NothingCutSilently
    <3>4. CASE Return(FALSE, Text, TextNotes)
      <4>1. TextNotes = TextNotes \cup {}
        OBVIOUS
      <4> QED BY <3>1, <3>2, <3>4, <4>1, TextTells
    <3> QED BY <2>5, <3>3, <3>4 DEF GitDone
  <2>6. CASE GlobDone
    <3>1. Globbing /\ call' = call
      BY <2>6 DEF GlobDone, CommandInv, Standing
    <3> QED BY <3>1 DEF NothingCutSilently, Globbing
  <2> QED BY <1>2, <2>1, <2>2, <2>3, <2>4, <2>5, <2>6, OnlyReturns
<1>3. CASE at' # "returned"
  BY <1>3 DEF NothingCutSilently, CommandReturned
<1> QED BY <1>1, <1>2, <1>3

\* For every command: a bash call that gave up left nothing of its process
\* group behind.
THEOREM AlwaysGroupKilled == Spec => []GroupKilled
<1>1. CommandInv => GroupKilled
  <2> SUFFICES ASSUME CommandInv, Bash, CommandReturned, stop # "none"
               PROVE  child = "gone" /\ background # "group"
    BY DEF GroupKilled
  <2>1. stop \in {"timeout", "canceled", "scan"}
    BY DEF CommandInv, ProcessTypeOK, CommandReturned
  <2>2. stop # "scan"
    BY ToolKinds DEF CommandInv, Killed
  <2> QED BY <2>1, <2>2 DEF CommandInv, Killed
<1> QED BY <1>1, CommandHeld, PTL

\* For every command, whatever it writes and however it ends, and for all caps:
\* what a text without a note leaves out does not exist.
THEOREM NeverCutSilently == Spec => []NothingCutSilently
<1>1. Init => NothingCutSilently
  BY DEF Init, ProcessInit, NothingCutSilently, CommandReturned
<1>2. CommandInv /\ NothingCutSilently /\ [Next]_vars => NothingCutSilently'
  BY StepOfCommand, NextTells
<1> QED BY <1>1, <1>2, CommandHeld, PTL DEF Spec

----------------------------------------------------------------------------
(* The list of a glob.                                                     *)

\* The paths the schema promises.
Kept ==
  {k \in DOMAIN Strip(call.output) : Promised(call.pattern, Strip(call.output)[k])}

\* As far as it was scanned, the output was filtered.
Filtered ==
  \E f \in [0..Len(call.output) -> Seq(Line)] :
    Picks(f, Strip(call.output), Kept) /\ rels = f[got]

ScanInv ==
  Globbing =>
    /\ Filtered
    /\ at = "wait" /\ stop = "none" => got = sent /\ child # "alive"
    /\ ListComplete

LEMMA InitScan == Init => ScanInv
<1> SUFFICES ASSUME Init PROVE ScanInv
  OBVIOUS
<1>1. call \in Calls /\ at = "start" /\ got = 0 /\ rels = <<>>
  BY InitCommand DEF Init, ProcessInit, CommandInv, ProcessTypeOK
<1>2. call.output \in Seq(Line) /\ Len(call.output) \in Nat
  BY <1>1, CallTypes
<1>3. PICK f \in [0..Len(Strip(call.output)) -> Seq(Line)] : Picks(f, Strip(call.output), Kept)
  BY <1>2, LineSeqs, PicksExist
<1>4. f[0] = <<>>
  BY <1>3 DEF Picks
<1>5. Filtered
  BY <1>1, <1>2, <1>3, <1>4, LineSeqs DEF Filtered
<1> QED BY <1>1, <1>5 DEF ScanInv, ListComplete, CommandReturned

LEMMA ScanLineFilters ==
  ASSUME CommandInv, Globbing, Filtered, ScanLine
  PROVE  Filtered'
<1> DEFINE all == Strip(call.output)
           line == call.output[got + 1]
<1>1. /\ call.output \in Seq(Line) /\ Len(call.output) \in Nat /\ call.pattern \in Line
      /\ got \in Nat /\ sent \in Nat /\ sent <= Len(call.output) /\ call' = call
  BY CallTypes DEF CommandInv, ProcessTypeOK, ScanLine
<1>2. /\ got < sent
      /\ \/ got' = got /\ rels' = rels
         \/ got' = got + 1
            /\ rels' = IF Keeps(line) THEN Append(rels, Relative(line)) ELSE rels
  BY DEF ScanLine, StopScan
<1>3. PICK f \in [0..Len(call.output) -> Seq(Line)] : Picks(f, all, Kept) /\ rels = f[got]
  BY DEF Filtered
<1>4. /\ got + 1 \in 1..Len(call.output) /\ (got + 1) - 1 = got /\ line \in Line
      /\ all[got + 1] = Relative(line) /\ DOMAIN all = 1..Len(call.output)
      /\ Len(all) = Len(call.output)
  <2>1. got + 1 \in 1..Len(call.output) /\ (got + 1) - 1 = got
    BY <1>1, <1>2
  <2>2. all \in Seq(Line) /\ Len(all) = Len(call.output) /\ all[got + 1] = Relative(line)
    BY <1>1, <2>1, LineSeqs
  <2>3. DOMAIN all = 1..Len(all)
    BY <2>2
  <2> QED BY <1>1, <2>1, <2>2, <2>3
<1>5. Keeps(line) <=> got + 1 \in Kept
  <2>1. Relative(line) \in Line
    BY <1>4, RelativeLine
  <2>2. Keeps(line) <=> Promised(call.pattern, Relative(line))
    BY <1>1, <2>1, KeepsWhatIsPromised DEF Keeps, Line
  <2>3. got + 1 \in Kept <=> Promised(call.pattern, all[got + 1])
    BY <1>4 DEF Kept
  <2> QED BY <1>4, <2>2, <2>3
<1>6. f[got + 1] = IF got + 1 \in Kept THEN Append(f[got], all[got + 1]) ELSE f[got]
  BY <1>3, <1>4 DEF Picks
<1>7. rels' = f[got']
  <2> HIDE DEF line, all
  <2> QED BY <1>2, <1>3, <1>4, <1>5, <1>6
<1>8. Kept' = Kept /\ Strip(call.output)' = all
  BY <1>1 DEF Kept, Strip, Relative
<1>9. Picks(f, Strip(call.output), Kept)'
  BY <1>3, <1>8 DEF Picks
<1> QED BY <1>1, <1>3, <1>7, <1>9 DEF Filtered

LEMMA ListReturned ==
  ASSUME CommandInv, ScanInv, Globbing, GlobDone
  PROVE  ListComplete'
<1> DEFINE all == Strip(call.output)
<1>1. /\ call.output \in Seq(Line) /\ Len(call.output) \in Nat /\ call' = call
      /\ all \in Seq(Line) /\ Len(all) = Len(call.output)
  BY CallTypes, LineSeqs DEF CommandInv, ProcessTypeOK, GlobDone
<1>2. PICK f \in [0..Len(call.output) -> Seq(Line)] : Picks(f, all, Kept) /\ rels = f[got]
  BY DEF ScanInv, Filtered
<1>3. Picked(all, Kept) = f[Len(call.output)] /\ f[0] = <<>>
  <2>1. Picked(all, Kept) = f[Len(all)]
    BY <1>1, <1>2, PickedIs
  <2> QED BY <1>1, <1>2, <2>1 DEF Picks
<1>4. Kept' = Kept /\ Strip(call.output)' = all
  BY <1>1 DEF Kept, Strip, Relative
<1> SUFFICES ASSUME ~result'.error PROVE result'.lines = Picked(all, Kept)
  BY <1>4 DEF ListComplete, Kept
<1>5. /\ at = "wait" /\ wait = "done" /\ stop = "none"
      /\ \/ werr = "none" /\ Return(FALSE, rels, {})
         \/ exit = "one" /\ Return(FALSE, <<>>, {})
  BY DEF GlobDone, Return
<1>6. CASE werr = "none" /\ Return(FALSE, rels, {})
  <2>1. got = sent /\ sent = Len(call.output)
    BY <1>5, <1>6 DEF CommandInv, Exited, ScanInv
  <2>2. result'.lines = rels
    BY <1>6 DEF Return
  <2> QED BY <1>2, <1>3, <2>1, <2>2
<1>7. CASE exit = "one" /\ Return(FALSE, <<>>, {})
  <2>1. call.output = <<>>
    BY <1>7 DEF CommandInv, Exited
  <2>2. Len(call.output) = 0
    BY <2>1
  <2>3. result'.lines = <<>>
    BY <1>7 DEF Return
  <2> QED BY <1>3, <2>2, <2>3
<1> QED BY <1>5, <1>6, <1>7

LEMMA NextScan ==
  ASSUME CommandInv, ScanInv, [ProcessNext]_processVars
  PROVE  ScanInv'
<1> USE DEF pipeVars, copyVars, waitVars, procVars, ctxVars, endVars
<1>1. call' = call
  BY DEF ProcessNext, CommandStep, CopierStep, WaitStep, ExecuteStep, processVars, ChildWrites,
         ChildExits, BackgroundExits, CancelContext, CopyLine, CopyEnds, ContextKills, Reap,
         Drained, WaitDelayElapses, Start, StartFails, TimerFires, SeeCancel, GiveUp, BashGaveUp,
         BashDone, GrepDone, GitDone, GlobDone, CheckContext, ScanEnds, ScanLine
<1> SUFFICES ASSUME Globbing PROVE ScanInv'
  BY <1>1 DEF ScanInv, Globbing
<1>2. Filtered'
  <2>1. CASE ScanLine
    BY <2>1, ScanLineFilters DEF ScanInv
  <2>2. CASE ~ScanLine
    <3>1. got' = got /\ rels' = rels
      BY <2>2 DEF ProcessNext, CommandStep, CopierStep, WaitStep, ExecuteStep, processVars,
         ChildWrites, ChildExits, BackgroundExits, CancelContext, CopyLine, CopyEnds,
         ContextKills, Reap, Drained, WaitDelayElapses, Start, StartFails, TimerFires, SeeCancel,
         GiveUp, BashGaveUp, BashDone, GrepDone, GitDone, GlobDone, CheckContext, StopScan,
         ScanEnds, StartWait
    <3>2. Kept' = Kept /\ Strip(call.output)' = Strip(call.output)
      BY <1>1 DEF Kept, Strip, Relative
    <3>3. Filtered
      BY DEF ScanInv
    <3> QED BY <1>1, <3>1, <3>2, <3>3 DEF Filtered, Picks
  <2> QED BY <2>1, <2>2
<1>3. at' = "wait" /\ stop' = "none" => got' = sent' /\ child' # "alive"
  <2>1. at = "wait" /\ stop = "none" => got = sent /\ child # "alive"
    BY DEF ScanInv
  <2>2. CASE at = "wait" /\ stop = "none"
    BY <2>1, <2>2 DEF ProcessNext, CommandStep, CopierStep, WaitStep, ExecuteStep, processVars,
         ChildWrites, ChildExits, BackgroundExits, CancelContext, CopyLine, CopyEnds,
         ContextKills, KillChild, Reap, Drained, WaitDelayElapses, Start, StartFails, TimerFires,
         SeeCancel, GiveUp, BashGaveUp, BashDone, GrepDone, GitDone, GlobDone, CheckContext,
         ScanEnds, ScanLine, Return
  <2>3. CASE ~(at = "wait" /\ stop = "none")
    BY <2>3 DEF ProcessNext, CommandStep, CopierStep, WaitStep, ExecuteStep, processVars,
         ChildWrites, ChildExits, BackgroundExits, CancelContext, CopyLine, CopyEnds,
         ContextKills, Reap, Drained, WaitDelayElapses, Start, StartFails, TimerFires,
         SeeCancel, GiveUp, BashGaveUp, BashDone, GrepDone, GitDone, GlobDone, CheckContext,
         ScanEnds, ScanLine, StopScan, StartWait, PipeHeld, Return
  <2> QED BY <2>2, <2>3
<1>4. ListComplete'
  <2>1. CASE at = "returned"
    <3>1. UNCHANGED <<call, at, stop, result>>
      BY <2>1, ReturnedStays
    <3>2. ListComplete
      BY DEF ScanInv
    <3> QED BY <3>1, <3>2 DEF ListComplete, CommandReturned, Strip, Relative
  <2>2. CASE at # "returned" /\ at' = "returned"
    <3>1. CASE StartFails
      BY <3>1 DEF StartFails, ListComplete, CommandReturned
    <3>2. CASE BashGaveUp \/ BashDone \/ GrepDone \/ GitDone
      BY <3>2, ToolKinds DEF BashGaveUp, BashDone, GrepDone, GitDone, CommandInv, Standing, Killed
    <3>3. CASE GlobDone
      BY <3>3, ListReturned
    <3> QED BY <2>2, <3>1, <3>2, <3>3, OnlyReturns
  <2>3. CASE at' # "returned"
    BY <2>3 DEF ListComplete, CommandReturned
  <2> QED BY <2>1, <2>2, <2>3
<1> QED BY <1>2, <1>3, <1>4 DEF ScanInv

\* For every pattern, every output and every workspace root: a glob that returns
\* no error lists what its schema promises, all of it, in order.
THEOREM ListAlwaysComplete == Spec => []ListComplete
<1>1. CommandInv /\ ScanInv /\ [Next]_vars => ScanInv'
  BY StepOfCommand, NextScan
<1>2. CommandInv /\ ScanInv => ListComplete
  BY DEF ScanInv, ListComplete, Globbing
<1> QED BY <1>1, <1>2, InitScan, CommandHeld, PTL DEF Spec

----------------------------------------------------------------------------
(* Pages of a file.                                                        *)

\* The bytes of the pieces after start, up to each.
IsTable(f, p, start, end) ==
  /\ f \in [start..end -> Nat]
  /\ \A n \in start..end : f[n] = IF n = start THEN 0 ELSE f[n - 1] + p[n]

BytesOf(p, start, end) ==
  LET upTo[n \in start..end] == IF n = start THEN 0 ELSE upTo[n - 1] + p[n]
  IN  upTo[end]

LEMMA TableExists ==
  ASSUME NEW p \in Seq(Nat), NEW start \in Nat, start <= Len(p)
  PROVE  \E f : IsTable(f, p, start, Len(p))
<1> DEFINE Bad == {n \in Nat : start + n <= Len(p) /\ ~\E f : IsTable(f, p, start, start + n)}
<1>0. \A n : n \in Bad <=>
              n \in Nat /\ start + n <= Len(p) /\ ~\E f : IsTable(f, p, start, start + n)
  OBVIOUS
<1> HIDE DEF Bad
<1>1. SUFFICES Bad = {}
  <2> DEFINE d == Len(p) - start
  <2>1. d \in Nat /\ start + d = Len(p) /\ start + d <= Len(p)
    OBVIOUS
  <2> HIDE DEF d
  <2>2. \E f : IsTable(f, p, start, start + d)
    BY <1>0, <1>1, <2>1
  <2> QED BY <2>1, <2>2
<1>2. SUFFICES ASSUME Bad # {} PROVE FALSE
  OBVIOUS
<1>3. PICK n \in Bad : \A m \in Bad : n <= m
  <2>1. Bad \in SUBSET Nat
    BY <1>0
  <2> QED BY <1>2, <2>1, LeastOf
<1>4. n \in Nat /\ start + n <= Len(p) /\ ~\E f : IsTable(f, p, start, start + n)
  BY <1>0, <1>3
<1>5. CASE n = 0
  <2>1. IsTable([k \in start..start |-> 0], p, start, start)
    BY DEF IsTable
  <2> QED BY <1>4, <1>5, <2>1
<1>6. CASE n # 0
  <2> DEFINE e == start + (n - 1)
  <2>1. n - 1 \in Nat /\ e \in Nat /\ start <= e /\ e + 1 = start + n /\ e + 1 <= Len(p)
    BY <1>4, <1>6
  <2>2. PICK f : IsTable(f, p, start, e)
    <3>1. n - 1 \notin Bad
      <4>1. ~(n <= n - 1)
        BY <1>4
      <4> QED BY <1>3, <4>1
    <3>2. \E f : IsTable(f, p, start, start + (n - 1))
      <4>1. start + (n - 1) <= Len(p)
        BY <1>4, <2>1
      <4> QED BY <1>0, <2>1, <3>1, <4>1
    <3> QED BY <3>2
  <2> HIDE DEF e
  <2> DEFINE g == [k \in start..(e + 1) |-> IF k = e + 1 THEN f[e] + p[e + 1] ELSE f[k]]
  <2>3. /\ f \in [start..e -> Nat]
        /\ \A k \in start..e : f[k] = IF k = start THEN 0 ELSE f[k - 1] + p[k]
    BY <2>2 DEF IsTable
  <2>4. f[e] + p[e + 1] \in Nat
    <3>1. p[e + 1] \in Nat /\ f[e] \in Nat
      BY <2>1, <2>3
    <3> QED BY <3>1
  <2>5. \A k \in start..(e + 1) : k = e + 1 \/ k \in start..e
    BY <2>1
  <2>6. g \in [start..(e + 1) -> Nat]
    BY <2>3, <2>4, <2>5
  <2>7. g[e + 1] = f[e] + p[e + 1] /\ \A k \in start..e : g[k] = f[k]
    BY <2>1
  <2> HIDE DEF g
  <2>8. ASSUME NEW k \in start..(e + 1)
        PROVE  g[k] = IF k = start THEN 0 ELSE g[k - 1] + p[k]
    <3>1. CASE k = e + 1
      <4>1. k # start /\ k - 1 = e /\ e \in start..e
        BY <2>1, <3>1
      <4> QED BY <2>7, <3>1, <4>1
    <3>2. CASE k \in start..e
      <4>1. k # start => k - 1 \in start..e
        BY <2>1, <3>2
      <4> QED BY <2>3, <2>7, <3>2, <4>1
    <3> QED BY <2>5, <3>1, <3>2
  <2>9. IsTable(g, p, start, start + n)
    BY <2>1, <2>6, <2>8 DEF IsTable
  <2> QED BY <1>4, <2>9
<1> QED BY <1>5, <1>6

\* A table that reaches further has the same entries.
LEMMA BytesInTable ==
  ASSUME NEW p \in Seq(Nat), NEW start \in Nat, start <= Len(p), NEW f,
         IsTable(f, p, start, Len(p)), NEW end \in start..Len(p)
  PROVE  BytesOf(p, start, end) = f[end]
<1> DEFINE Is(g) == g = [n \in start..end |-> IF n = start THEN 0 ELSE g[n - 1] + p[n]]
           h == [n \in start..end |-> f[n]]
<1>1. /\ f \in [start..Len(p) -> Nat]
      /\ \A n \in start..Len(p) : f[n] = IF n = start THEN 0 ELSE f[n - 1] + p[n]
  BY DEF IsTable
<1>2. end \in Nat /\ start <= end /\ end <= Len(p)
  OBVIOUS
<1>3. Is(h)
  <2>1. ASSUME NEW n \in start..end
        PROVE  f[n] = IF n = start THEN 0 ELSE h[n - 1] + p[n]
    <3>1. n # start => n - 1 \in start..end
      BY <1>2
    <3>2. n \in start..Len(p)
      BY <1>2
    <3> QED BY <1>1, <3>1, <3>2
  <2> QED BY <2>1
<1> DEFINE upTo == CHOOSE g : Is(g)
<1>4. Is(upTo)
  BY <1>3
<1> HIDE DEF h
<1>5. BytesOf(p, start, end) = upTo[end]
  BY DEF BytesOf
<1> HIDE DEF upTo
<1>6. \A n \in start..end : upTo[n] = IF n = start THEN 0 ELSE upTo[n - 1] + p[n]
  BY <1>4
<1> HIDE DEF Is
<1> DEFINE Bad == {n \in start..end : upTo[n] # f[n]}
<1>7. Bad = {}
  <2> SUFFICES ASSUME Bad # {} PROVE FALSE
    OBVIOUS
  <2>1. Bad \in SUBSET Nat
    BY <1>2
  <2>2. PICK n \in Bad : \A m \in Bad : n <= m
    BY <2>1, LeastOf
  <2>3. n \in start..end /\ upTo[n] # f[n] /\ n \in start..Len(p)
    BY <1>2, <2>2
  <2>4. n # start
    BY <1>1, <1>6, <2>3
  <2>5. n - 1 \in start..end /\ n - 1 < n
    BY <1>2, <2>3, <2>4
  <2>6. upTo[n - 1] = f[n - 1]
    <3>1. n - 1 \notin Bad
      BY <2>2, <2>3, <2>5
    <3> QED BY <2>5, <3>1
  <2> QED BY <1>1, <1>6, <2>3, <2>4, <2>6
<1>8. upTo[end] = f[end]
  <2>1. end \in start..end /\ end \notin Bad
    BY <1>2, <1>7
  <2> QED BY <2>1
<1> QED BY <1>5, <1>8

\* The bytes of a page grow by the bytes of the next line.
LEMMA BytesGrow ==
  ASSUME NEW p \in Seq(Nat), NEW start \in Nat, start <= Len(p)
  PROVE  /\ BytesOf(p, start, start) = 0
         /\ \A n \in start..Len(p) : BytesOf(p, start, n) \in Nat
         /\ \A n \in start..(Len(p) - 1) :
              BytesOf(p, start, n + 1) = BytesOf(p, start, n) + p[n + 1]
<1>1. PICK f : IsTable(f, p, start, Len(p))
  BY TableExists
<1>2. \A n \in start..Len(p) : BytesOf(p, start, n) = f[n]
  BY <1>1, BytesInTable
<1>3. /\ f \in [start..Len(p) -> Nat]
      /\ \A n \in start..Len(p) : f[n] = IF n = start THEN 0 ELSE f[n - 1] + p[n]
  BY <1>1 DEF IsTable
<1>4. start \in start..Len(p) /\ Len(p) \in Nat
  OBVIOUS
<1>5. ASSUME NEW n \in start..(Len(p) - 1)
      PROVE  BytesOf(p, start, n + 1) = BytesOf(p, start, n) + p[n + 1]
  <2>1. n \in start..Len(p) /\ n + 1 \in start..Len(p) /\ n + 1 # start /\ (n + 1) - 1 = n
    BY <1>4
  <2>2. f[n + 1] = f[(n + 1) - 1] + p[n + 1]
    BY <1>3, <2>1
  <2> QED BY <1>2, <2>1, <2>2
<1> QED BY <1>2, <1>3, <1>4, <1>5

LEMMA BytesAre == \A start, end : Bytes(start, end) = BytesOf(file.pieces, start, end)
BY DEF Bytes, BytesOf

LEMMA BytesStay ==
  ASSUME file' = file
  PROVE  \A start, end : Bytes(start, end)' = Bytes(start, end)
<1>1. \A start, end : Bytes(start, end)' = BytesOf(file'.pieces, start, end)
  BY DEF Bytes, BytesOf
<1> QED BY <1>1, BytesAre

LEMMA FileTypes ==
  ASSUME file \in Files
  PROVE  /\ file.pieces \in Seq(Nat) /\ TotalLines = Len(file.pieces) /\ TotalLines \in Nat
         /\ TotalLines > 0 /\ LogicalEnd \in Nat /\ LogicalEnd <= TotalLines
         /\ TotalLines - 1 <= LogicalEnd
<1>1. file \in File /\ file.pieces # <<>>
  BY FilesAssumption
<1>2. file.pieces \in Seq(Nat)
  BY <1>1 DEF File
<1>3. TotalLines = Len(file.pieces) /\ TotalLines \in Nat /\ TotalLines > 0
  BY <1>1, <1>2 DEF TotalLines
<1> QED BY <1>2, <1>3 DEF LogicalEnd

\* The last line that keeps a page under the ceiling exists, and another line
\* would be too much.
LEMMA CappedEndHolds ==
  ASSUME file \in Files, NEW start \in Nat, NEW end \in Nat, start <= end, end <= TotalLines
  PROVE  /\ CappedEnd(start, end) \in start..end
         /\ Bytes(start, CappedEnd(start, end)) <= ReadMaxBytes
         /\ CappedEnd(start, end) < end => Bytes(start, CappedEnd(start, end) + 1) > ReadMaxBytes
<1>1. /\ file.pieces \in Seq(Nat) /\ TotalLines = Len(file.pieces) /\ TotalLines \in Nat
      /\ start <= Len(file.pieces)
  BY FileTypes
<1>2. /\ Bytes(start, start) = 0
      /\ \A n \in start..TotalLines : Bytes(start, n) \in Nat
  BY <1>1, BytesGrow, BytesAre
<1>3. ReadMaxBytes \in Nat
  BY ReadAssumption
<1> DEFINE Fits(n) == /\ Bytes(start, n) <= ReadMaxBytes
                      /\ n < end => Bytes(start, n + 1) > ReadMaxBytes
           Full == {n \in start..end : n = end \/ Bytes(start, n + 1) > ReadMaxBytes}
<1>4. PICK n \in Full : \A m \in Full : n <= m
  <2>1. Full \in SUBSET Nat
    OBVIOUS
  <2>2. end \in Full
    OBVIOUS
  <2> QED BY <2>1, <2>2, LeastOf
<1>5. n \in start..end /\ (n = end \/ Bytes(start, n + 1) > ReadMaxBytes)
  BY <1>4
<1>6. Bytes(start, n) <= ReadMaxBytes
  <2>1. CASE n = start
    BY <1>2, <1>3, <2>1
  <2>2. CASE n # start
    <3>1. n - 1 \in start..end /\ n - 1 < n /\ (n - 1) + 1 = n /\ n - 1 # end
      BY <1>5, <2>2
    <3>2. n - 1 \notin Full
      BY <1>4, <3>1
    <3>3. ~(Bytes(start, n) > ReadMaxBytes)
      BY <3>1, <3>2
    <3>4. Bytes(start, n) \in Nat
      BY <1>1, <1>2, <1>5
    <3> QED BY <1>3, <3>3, <3>4
  <2> QED BY <2>1, <2>2
<1>7. Fits(n)
  BY <1>5, <1>6
<1>8. CappedEnd(start, end) = CHOOSE k \in start..end : Fits(k)
  BY DEF CappedEnd
<1> HIDE DEF Fits
<1>9. CappedEnd(start, end) \in start..end /\ Fits(CappedEnd(start, end))
  BY <1>5, <1>7, <1>8
<1> QED BY <1>9 DEF Fits

\* What one call adds to a session: nothing past the end of the file, else a
\* page of what it starts with.
PageAt(start, limit) ==
  \E to \in (start + 1)..TotalLines, cut \in BOOLEAN :
    /\ pages' = Append(pages, [from |-> start + 1, to |-> to, cut |-> cut])
    /\ cut <=> file.pieces[start + 1] > ReadMaxBytes
    /\ IF cut THEN to = start + 1 ELSE Bytes(start, to) <= ReadMaxBytes
    /\ limit > 0 => to - start <= limit
    /\ hint' = 0 \/ (hint' = to + 1 /\ hint' <= LogicalEnd)
    /\ hint' = 0 /\ limit <= 0 => to >= LogicalEnd

LEMMA AnswerEffect ==
  ASSUME file \in Files, NEW offset \in Int, NEW limit \in Int, Answer(offset, limit)
  PROVE  /\ StartAt(offset) \in 0..TotalLines
         /\ \/ StartAt(offset) = TotalLines /\ hint' = 0 /\ pages' = pages
            \/ StartAt(offset) < TotalLines /\ PageAt(StartAt(offset), limit)
<1> DEFINE start  == StartAt(offset)
           end    == EndAt(start, limit)
           capped == CappedEnd(start, end)
           page   == [from |-> start + 1, to |-> capped, cut |-> FALSE]
<1>1. /\ file.pieces \in Seq(Nat) /\ TotalLines = Len(file.pieces) /\ TotalLines \in Nat
      /\ TotalLines > 0 /\ LogicalEnd \in Nat /\ LogicalEnd <= TotalLines
  BY FileTypes
<1>2. start \in 0..TotalLines
  BY <1>1 DEF StartAt, Least
<1>3. /\ end \in start..TotalLines /\ (start < TotalLines => start < end)
      /\ limit > 0 => end - start <= limit
  <2> HIDE DEF start
  <2> QED BY <1>1, <1>2, ReadAssumption DEF EndAt, Least
<1>4. \/ /\ TooLongAt(start, end)
         /\ pages' = Append(pages, [from |-> start + 1, to |-> start + 1, cut |-> TRUE])
         /\ hint' = IF start + 1 < LogicalEnd THEN start + 2 ELSE 0
      \/ ~TooLongAt(start, end) /\ capped = start /\ hint' = 0 /\ pages' = pages
      \/ /\ ~TooLongAt(start, end) /\ capped # start
         /\ pages' = Append(pages, page)
         /\ hint' = NextOffset(capped, limit)
  BY DEF Answer
<1> HIDE DEF start, end
<1>5. /\ capped \in start..end /\ Bytes(start, capped) <= ReadMaxBytes
      /\ capped < end => Bytes(start, capped + 1) > ReadMaxBytes
  BY <1>2, <1>3, CappedEndHolds
<1>6. CASE /\ TooLongAt(start, end)
           /\ pages' = Append(pages, [from |-> start + 1, to |-> start + 1, cut |-> TRUE])
           /\ hint' = IF start + 1 < LogicalEnd THEN start + 2 ELSE 0
  <2>1. start < end /\ file.pieces[start + 1] > ReadMaxBytes
    BY <1>6 DEF TooLongAt
  <2>2. start < TotalLines /\ start + 1 \in (start + 1)..TotalLines /\ (start + 1) - start = 1
    BY <1>1, <1>2, <1>3, <2>1
  <2>3. limit > 0 => (start + 1) - start <= limit
    BY <1>2, <2>2
  <2>4. hint' = 0 \/ (hint' = (start + 1) + 1 /\ hint' <= LogicalEnd)
    BY <1>1, <1>2, <1>6
  <2>5. hint' = 0 => start + 1 >= LogicalEnd
    BY <1>1, <1>2, <1>6
  <2>6. PageAt(start, limit)
    BY <1>6, <2>1, <2>2, <2>3, <2>4, <2>5 DEF PageAt
  <2> QED BY <1>2, <2>2, <2>6 DEF start
<1>7. CASE ~TooLongAt(start, end) /\ capped = start /\ hint' = 0 /\ pages' = pages
  <2>1. start = TotalLines
    <3> SUFFICES ASSUME start < TotalLines PROVE FALSE
      BY <1>1, <1>2
    <3>1. start < end /\ Bytes(start, start + 1) > ReadMaxBytes
      BY <1>3, <1>5, <1>7
    <3>2. ~(file.pieces[start + 1] > ReadMaxBytes)
      BY <1>7, <3>1 DEF TooLongAt
    <3>3. Bytes(start, start + 1) = file.pieces[start + 1]
      <4>1. start \in Nat /\ start <= Len(file.pieces) /\ start \in start..(Len(file.pieces) - 1)
        BY <1>1, <1>2
      <4>2. /\ BytesOf(file.pieces, start, start) = 0
            /\ BytesOf(file.pieces, start, start + 1)
                 = BytesOf(file.pieces, start, start) + file.pieces[start + 1]
        BY <1>1, <4>1, BytesGrow
      <4>3. file.pieces[start + 1] \in Nat
        BY <1>1, <4>1
      <4>4. BytesOf(file.pieces, start, start + 1) = file.pieces[start + 1]
        BY <4>2, <4>3
      <4> QED BY <4>4, BytesAre
    <3> QED BY <3>1, <3>2, <3>3
  <2>2. hint' = 0 /\ pages' = pages
    BY <1>7
  <2>3. StartAt(offset) = TotalLines /\ StartAt(offset) \in 0..TotalLines
    BY <1>2, <2>1 DEF start
  <2> QED BY <2>2, <2>3
<1>8. CASE /\ ~TooLongAt(start, end) /\ capped # start
           /\ pages' = Append(pages, page)
           /\ hint' = NextOffset(capped, limit)
  <2>1. /\ capped \in (start + 1)..TotalLines /\ start < TotalLines
        /\ limit > 0 => capped - start <= limit
    <3> HIDE DEF capped
    <3>1. capped \in start..end /\ end \in start..TotalLines /\ capped # start
      BY <1>3, <1>5, <1>8
    <3>2. start \in Nat /\ TotalLines \in Nat /\ (limit > 0 => end - start <= limit)
      BY <1>1, <1>2, <1>3
    <3>3. capped \in (start + 1)..TotalLines /\ start < TotalLines
      BY <3>1, <3>2
    <3>4. capped - start <= end - start
      BY <3>1, <3>2
    <3>5. limit > 0 => capped - start <= limit
      BY <3>1, <3>2, <3>4
    <3> QED BY <3>3, <3>5
  <2>2. ~(file.pieces[start + 1] > ReadMaxBytes)
    <3>1. start < end
      <4> HIDE DEF capped
      <4> QED BY <1>2, <1>3, <1>5, <1>8
    <3> QED BY <1>8, <3>1 DEF TooLongAt
  <2> HIDE DEF capped
  <2>3. hint' = 0 \/ (hint' = capped + 1 /\ hint' <= LogicalEnd)
    BY <1>1, <1>8, <2>1 DEF NextOffset
  <2>4. hint' = 0 /\ limit <= 0 => capped >= LogicalEnd
    <3> SUFFICES ASSUME limit <= 0, capped < LogicalEnd PROVE hint' # 0
      BY <1>1, <1>2, <2>1
    <3>1. hint' = capped + 1
      BY <1>8 DEF NextOffset
    <3>2. capped \in Int /\ capped >= 0
      BY <1>2, <2>1
    <3> QED BY <3>1, <3>2
  <2>5. PageAt(start, limit)
    BY <1>5, <1>8, <2>1, <2>2, <2>3, <2>4 DEF PageAt
  <2> QED BY <1>2, <2>1, <2>5 DEF start
<1> QED BY <1>4, <1>6, <1>7, <1>8

\* The pages returned so far, and what is still to come.
Shown ==
  \A k \in DOMAIN pages :
    /\ pages[k].from > 0 /\ pages[k].from <= pages[k].to /\ pages[k].to <= TotalLines
    /\ k > 1 => pages[k].from = pages[k - 1].to + 1
    /\ pages[k].cut <=> file.pieces[pages[k].from] > ReadMaxBytes
    /\ IF pages[k].cut THEN pages[k].to = pages[k].from
       ELSE Bytes(pages[k].from - 1, pages[k].to) <= ReadMaxBytes

StartsAsAsked ==
  pages # <<>> =>
    /\ pages[1].from = IF first.offset > 0 THEN first.offset ELSE 1
    /\ first.limit > 0 => pages[1].to < pages[1].from + first.limit

GoesOn ==
  /\ reading # "session" => pages = <<>> /\ hint = 0
  /\ hint > 0 => /\ pages # <<>> /\ hint = pages[Len(pages)].to + 1 /\ hint <= LogicalEnd
  /\ pages = <<>> /\ reading = "session" => first.offset > TotalLines
  /\ pages # <<>> /\ hint = 0 /\ (first.limit <= 0 \/ Len(pages) > 1) =>
       pages[Len(pages)].to >= LogicalEnd

ReadInv == ReadTypeOK /\ Shown /\ StartsAsAsked /\ GoesOn

LEMMA InitRead == ReadInit => ReadInv
<1> SUFFICES ASSUME ReadInit PROVE ReadInv
  OBVIOUS
<1>1. ReadTypeOK
  BY DEF ReadInit, ReadTypeOK
<1>2. pages = <<>> /\ hint = 0 /\ reading = "idle"
  BY DEF ReadInit
<1> QED BY <1>1, <1>2 DEF ReadInv, Shown, StartsAsAsked, GoesOn

\* A page that follows the last one.
LEMMA PageKeeps ==
  ASSUME ReadInv, file' = file, NEW start \in Nat, NEW limit \in Int, PageAt(start, limit),
         first' \in [offset : Int, limit : Int], reading' = "session",
         pages = <<>> =>
           /\ start + 1 = IF first'.offset > 0 THEN first'.offset ELSE 1
           /\ limit = first'.limit,
         pages # <<>> => first' = first /\ start = pages[Len(pages)].to /\ limit <= 0
  PROVE  ReadInv'
<1> DEFINE n == Len(pages)
<1>1. PICK to \in (start + 1)..TotalLines, cut \in BOOLEAN :
        /\ pages' = Append(pages, [from |-> start + 1, to |-> to, cut |-> cut])
        /\ cut <=> file.pieces[start + 1] > ReadMaxBytes
        /\ IF cut THEN to = start + 1 ELSE Bytes(start, to) <= ReadMaxBytes
        /\ limit > 0 => to - start <= limit
        /\ hint' = 0 \/ (hint' = to + 1 /\ hint' <= LogicalEnd)
        /\ hint' = 0 /\ limit <= 0 => to >= LogicalEnd
  BY DEF PageAt
<1>2. /\ file \in Files /\ pages \in Seq(Page) /\ n \in Nat /\ hint \in Nat
      /\ TotalLines \in Nat /\ LogicalEnd \in Nat
  BY FileTypes DEF ReadInv, ReadTypeOK
<1>3. TotalLines' = TotalLines /\ LogicalEnd' = LogicalEnd
  BY DEF TotalLines, LogicalEnd
<1> DEFINE page == [from |-> start + 1, to |-> to, cut |-> cut]
<1>4. /\ page \in Page /\ page.from = start + 1 /\ page.to = to /\ page.cut = cut
      /\ to \in Nat /\ start + 1 <= to /\ to <= TotalLines
  BY <1>2 DEF Page
<1> HIDE DEF page, n
<1>5. /\ pages' \in Seq(Page) /\ Len(pages') = n + 1 /\ pages'[n + 1] = page
      /\ DOMAIN pages' = 1..(n + 1)
      /\ \A k \in 1..n : pages'[k] = pages[k]
  BY <1>1, <1>2, <1>4 DEF n, page
<1>6. ReadTypeOK'
  <2>1. hint' \in Nat
    BY <1>1, <1>2, <1>4
  <2> QED BY <1>2, <1>5, <2>1 DEF ReadTypeOK
<1>7. Shown'
  <2>1. ASSUME NEW k \in 1..(n + 1)
        PROVE  /\ pages'[k].from > 0 /\ pages'[k].from <= pages'[k].to
               /\ pages'[k].to <= TotalLines
               /\ k > 1 => pages'[k].from = pages'[k - 1].to + 1
               /\ pages'[k].cut <=> file.pieces[pages'[k].from] > ReadMaxBytes
               /\ IF pages'[k].cut THEN pages'[k].to = pages'[k].from
                  ELSE Bytes(pages'[k].from - 1, pages'[k].to) <= ReadMaxBytes
    <3>1. CASE k \in 1..n
      <4>1. /\ pages[k].from > 0 /\ pages[k].from <= pages[k].to /\ pages[k].to <= TotalLines
            /\ k > 1 => pages[k].from = pages[k - 1].to + 1
            /\ pages[k].cut <=> file.pieces[pages[k].from] > ReadMaxBytes
            /\ IF pages[k].cut THEN pages[k].to = pages[k].from
               ELSE Bytes(pages[k].from - 1, pages[k].to) <= ReadMaxBytes
        <5>1. k \in DOMAIN pages
          BY <1>2, <3>1 DEF n
        <5> QED BY <5>1 DEF ReadInv, Shown
      <4>2. pages'[k] = pages[k] /\ (k > 1 => pages'[k - 1] = pages[k - 1])
        <5>1. k > 1 => k - 1 \in 1..n
          BY <1>2, <3>1
        <5> QED BY <1>5, <3>1, <5>1
      <4> QED BY <4>1, <4>2
    <3>2. CASE k = n + 1
      <4>1. pages'[k].from = start + 1 /\ pages'[k].to = to /\ pages'[k].cut = cut
        BY <1>4, <1>5, <3>2
      <4>2. k > 1 => pages'[k - 1].to = start
        <5>1. k > 1 => n > 0 /\ k - 1 = n /\ n \in 1..n /\ pages # <<>>
          BY <1>2, <3>2 DEF n
        <5> QED BY <1>5, <5>1 DEF n
      <4>3. (start + 1) - 1 = start
        OBVIOUS
      <4>4. IF cut THEN to = start + 1 ELSE Bytes(start, to) <= ReadMaxBytes
        BY <1>1
      <4>5. start + 1 > 0 /\ start + 1 <= to /\ to <= TotalLines
        BY <1>2, <1>4
      <4>6. IF pages'[k].cut THEN pages'[k].to = pages'[k].from
            ELSE Bytes(pages'[k].from - 1, pages'[k].to) <= ReadMaxBytes
        BY <4>1, <4>3, <4>4
      <4> QED BY <1>1, <4>1, <4>2, <4>5, <4>6
    <3> QED BY <1>2, <3>1, <3>2
  <2>2. file'.pieces = file.pieces
    OBVIOUS
  <2> QED BY <1>3, <1>5, <2>1, <2>2, BytesStay DEF Shown
<1>8. StartsAsAsked'
  <2>1. CASE pages = <<>>
    <3>1. n = 0 /\ pages'[1] = page
      BY <1>5, <2>1 DEF n
    <3>2. limit > 0 => to < (start + 1) + limit
      BY <1>1, <1>4
    <3> QED BY <1>4, <2>1, <3>1, <3>2 DEF StartsAsAsked
  <2>2. CASE pages # <<>>
    <3>1. 1 \in 1..n
      BY <1>2, <2>2 DEF n
    <3>2. pages'[1] = pages[1] /\ first' = first
      BY <1>5, <2>2, <3>1
    <3> QED BY <2>2, <3>2 DEF ReadInv, StartsAsAsked
  <2> QED BY <2>1, <2>2
<1>9. GoesOn'
  <2>1. pages' # <<>> /\ pages'[Len(pages')].to = to
    BY <1>2, <1>4, <1>5
  <2>2. hint' > 0 => hint' = to + 1 /\ hint' <= LogicalEnd
    BY <1>1
  <2>3. hint' = 0 /\ (first'.limit <= 0 \/ Len(pages') > 1) => to >= LogicalEnd
    <3>1. CASE pages = <<>>
      <4>1. Len(pages') = 1 /\ limit = first'.limit
        BY <1>5, <3>1 DEF n
      <4> QED BY <1>1, <4>1
    <3>2. CASE pages # <<>>
      BY <1>1, <3>2
    <3> QED BY <3>1, <3>2
  <2> QED BY <1>3, <2>1, <2>2, <2>3 DEF GoesOn
<1> QED BY <1>6, <1>7, <1>8, <1>9 DEF ReadInv

LEMMA ReadKeeps ==
  ASSUME ReadInv, NEW offset \in Offsets, NEW limit \in Limits, Read(offset, limit)
  PROVE  ReadInv'
<1>1. /\ reading = "idle" /\ reading' = "session" /\ file' = file
      /\ first' = [offset |-> offset, limit |-> limit] /\ Answer(offset, limit)
  BY DEF Read
<1>2. offset \in Int /\ limit \in Int
  BY ReadAssumption
<1>3. /\ file \in Files /\ pages = <<>> /\ TotalLines \in Nat /\ TotalLines > 0
      /\ LogicalEnd \in Nat
  BY <1>1, FileTypes DEF ReadInv, ReadTypeOK, GoesOn
<1>4. first' \in [offset : Int, limit : Int] /\ first'.offset = offset /\ first'.limit = limit
  BY <1>1, <1>2
<1>5. CASE StartAt(offset) = TotalLines /\ hint' = 0 /\ pages' = pages
  <2>1. offset > TotalLines
    BY <1>2, <1>3, <1>5 DEF StartAt, Least
  <2>2. TotalLines' = TotalLines
    BY <1>1 DEF TotalLines
  <2>3. ReadTypeOK'
    BY <1>1, <1>4, <1>5 DEF ReadInv, ReadTypeOK
  <2>4. pages' = <<>> /\ hint' = 0
    BY <1>3, <1>5
  <2>5. Shown' /\ StartsAsAsked'
    BY <2>4 DEF Shown, StartsAsAsked
  <2>6. GoesOn'
    BY <1>1, <1>4, <2>1, <2>2, <2>4 DEF GoesOn
  <2> QED BY <2>3, <2>5, <2>6 DEF ReadInv
<1>6. CASE StartAt(offset) < TotalLines /\ PageAt(StartAt(offset), limit)
  <2>1. /\ StartAt(offset) \in Nat
        /\ StartAt(offset) + 1 = IF offset > 0 THEN offset ELSE 1
    BY <1>2, <1>3, <1>6 DEF StartAt, Least
  <2> QED BY <1>1, <1>2, <1>3, <1>4, <1>6, <2>1, PageKeeps
<1> QED BY <1>1, <1>2, <1>3, <1>5, <1>6, AnswerEffect

LEMMA FollowKeeps == ReadInv /\ Follow => ReadInv'
<1> SUFFICES ASSUME ReadInv, Follow PROVE ReadInv'
  OBVIOUS
<1>1. /\ reading = "session" /\ hint > 0 /\ Answer(hint, 0)
      /\ UNCHANGED <<file, first, reading>>
  BY DEF Follow
<1>2. /\ file \in Files /\ hint \in Nat /\ TotalLines \in Nat /\ LogicalEnd \in Nat
      /\ LogicalEnd <= TotalLines /\ first \in [offset : Int, limit : Int]
      /\ pages # <<>> /\ hint = pages[Len(pages)].to + 1 /\ hint <= LogicalEnd
      /\ pages \in Seq(Page)
  BY <1>1, FileTypes DEF ReadInv, ReadTypeOK, GoesOn
<1>3. pages[Len(pages)].to \in Nat
  <2>1. pages[Len(pages)] \in Page
    BY <1>2
  <2> QED BY <2>1 DEF Page
<1>4. StartAt(hint) = pages[Len(pages)].to /\ StartAt(hint) < TotalLines
  BY <1>1, <1>2, <1>3 DEF StartAt, Least
<1>5. PageAt(StartAt(hint), 0)
  BY <1>1, <1>2, <1>4, AnswerEffect
<1> QED BY <1>1, <1>2, <1>3, <1>4, <1>5, PageKeeps

LEMMA NextRead == ReadInv /\ [ReadNext]_readVars => ReadInv'
<1> SUFFICES ASSUME ReadInv, [ReadNext]_readVars PROVE ReadInv'
  OBVIOUS
<1>1. CASE Refuse \/ UNCHANGED readVars
  <2>1. /\ UNCHANGED <<file, pages, hint, first>>
        /\ reading' = reading \/ (reading = "idle" /\ reading' = "refused")
    <3>1. CASE Refuse
      BY <3>1 DEF Refuse
    <3>2. CASE UNCHANGED readVars
      BY <3>2 DEF readVars
    <3> QED BY <1>1, <3>1, <3>2
  <2>2. TotalLines' = TotalLines /\ LogicalEnd' = LogicalEnd
    BY <2>1 DEF TotalLines, LogicalEnd
  <2>3. ReadTypeOK'
    BY <2>1 DEF ReadInv, ReadTypeOK
  <2>4. Shown'
    BY <2>1, <2>2, BytesStay DEF ReadInv, Shown
  <2>5. StartsAsAsked' /\ GoesOn'
    BY <2>1, <2>2 DEF ReadInv, StartsAsAsked, GoesOn
  <2> QED BY <2>3, <2>4, <2>5 DEF ReadInv
<1> QED BY <1>1, ReadKeeps, FollowKeeps DEF ReadNext

LEMMA ReadHeld == Spec => []ReadInv
<1>1. Init => ReadInv
  BY InitRead DEF Init
<1>2. [Next]_vars => [ReadNext]_readVars
  BY DEF Next, OfCommand, Reading, Changing, Returned, vars
<1> QED BY <1>1, <1>2, NextRead, PTL DEF Spec

LEMMA Contiguous == ReadInv => PagesContiguous
<1> SUFFICES ASSUME ReadInv PROVE PagesContiguous
  OBVIOUS
<1>1. /\ file \in Files /\ pages \in Seq(Page) /\ first \in [offset : Int, limit : Int]
      /\ TotalLines \in Nat /\ LogicalEnd \in Nat /\ LogicalEnd <= TotalLines
  BY FileTypes DEF ReadInv, ReadTypeOK
<1>2. DOMAIN pages = 1..Len(pages) /\ Len(pages) \in Nat
  BY <1>1
<1>3. \A k \in 1..Len(pages) : pages[k].from \in Nat /\ pages[k].to \in Nat
  <2>1. \A k \in 1..Len(pages) : pages[k] \in Page
    BY <1>1
  <2> QED BY <2>1 DEF Page
<1>4. \A k \in DOMAIN pages :
        /\ k > 1 => pages[k].from = pages[k - 1].to + 1
        /\ pages[k].cut <=> file.pieces[pages[k].from] > ReadMaxBytes
        /\ IF pages[k].cut THEN pages[k].to = pages[k].from
           ELSE Bytes(pages[k].from - 1, pages[k].to) <= ReadMaxBytes
  BY DEF ReadInv, Shown
<1>5. ASSUME pages # <<>>, first.limit > 0
      PROVE  Cardinality(Lines(pages[1])) <= first.limit
  <2>1. 1 \in 1..Len(pages) /\ first.limit \in Int
    BY <1>1, <1>2, <1>5
  <2> DEFINE a == pages[1].from
             b == pages[1].to
  <2>2. /\ a \in Nat /\ b \in Nat /\ a <= b /\ b < a + first.limit
    BY <1>2, <1>3, <1>5, <2>1 DEF ReadInv, Shown, StartsAsAsked
  <2> HIDE DEF a, b
  <2>3. IsFiniteSet(a..b) /\ Cardinality(a..b) = b - a + 1
    BY <2>2, FS_Interval
  <2>4. Lines(pages[1]) \in SUBSET (a..b)
    BY DEF Lines, a, b
  <2>5. Cardinality(Lines(pages[1])) <= b - a + 1 /\ IsFiniteSet(Lines(pages[1]))
    BY <2>3, <2>4, FS_Subset
  <2>6. Cardinality(Lines(pages[1])) \in Nat
    BY <2>5, FS_CardinalityType
  <2> QED BY <2>1, <2>2, <2>5, <2>6
<1>6. ASSUME reading = "session", hint = 0, first.limit <= 0 \/ Len(pages) > 1,
             NEW n \in 1..LogicalEnd, n >= first.offset
      PROVE  \E k \in DOMAIN pages : n \in Lines(pages[k])
  <2>1. n \in Nat /\ n >= 1 /\ n <= LogicalEnd /\ first.offset \in Int
    BY <1>1
  <2>2. pages # <<>> /\ pages[Len(pages)].to >= LogicalEnd
    <3>1. pages # <<>>
      BY <1>1, <1>6, <2>1 DEF ReadInv, GoesOn
    <3> QED BY <1>6, <3>1 DEF ReadInv, GoesOn
  <2> DEFINE S == {k \in 1..Len(pages) : pages[k].to >= n}
  <2>3. Len(pages) \in S
    BY <1>1, <1>2, <1>3, <2>1, <2>2
  <2>4. PICK k \in S : \A j \in S : k <= j
    <3>1. S \in SUBSET Nat
      BY <1>2
    <3> QED BY <2>3, <3>1, LeastOf
  <2>5. k \in 1..Len(pages) /\ pages[k].to >= n
    BY <2>4
  <2>6. pages[k].from <= n
    <3>1. CASE k = 1
      BY <2>1, <2>2, <1>6, <3>1 DEF ReadInv, StartsAsAsked
    <3>2. CASE k # 1
      <4>1. k - 1 \in 1..Len(pages) /\ ~(k <= k - 1) /\ k > 1
        BY <1>2, <2>5, <3>2
      <4>2. k - 1 \notin S
        BY <2>4, <4>1
      <4>3. ~(pages[k - 1].to >= n)
        BY <4>1, <4>2
      <4>4. pages[k].from = pages[k - 1].to + 1
        BY <1>2, <1>4, <2>5, <4>1
      <4> QED BY <1>3, <2>1, <4>1, <4>3, <4>4
    <3> QED BY <3>1, <3>2
  <2>7. n \in Lines(pages[k])
    <3>1. pages[k].from \in Nat /\ pages[k].to \in Nat
      BY <1>3, <2>5
    <3> QED BY <2>1, <2>5, <2>6, <3>1 DEF Lines
  <2> QED BY <1>2, <2>5, <2>7
<1>7. pages # <<>> => pages[1].from = IF first.offset > 0 THEN first.offset ELSE 1
  BY DEF ReadInv, StartsAsAsked
<1> QED BY <1>4, <1>5, <1>6, <1>7 DEF PagesContiguous

\* For every file, every first call and every ceiling: a caller that follows the
\* hints is shown the rest of the file, line by line, without a gap or a line
\* twice, in pages below the ceiling.
THEOREM AlwaysContiguous == Spec => []PagesContiguous
BY Contiguous, ReadHeld, PTL

----------------------------------------------------------------------------
(* What write stores.                                                      *)

LEMMA NormalizedEnds ==
  ASSUME NEW c \in Seq(Char)
  PROVE  Normalized(c) \in Seq(Char) /\ EndsOnce(Normalized(c))
<1> DEFINE N == Len(c)
           K == {0} \cup {k \in DOMAIN c : c[k] # NL}
           body == Max(K)
           cut == SubSeq(c, 1, body)
<1>1. N \in Nat /\ DOMAIN c = 1..N /\ NL \in Char
  BY DEF Char
<1>2. K \in SUBSET (0..N) /\ K # {}
  BY <1>1
<1>3. \A k : k \in K <=> k = 0 \/ (k \in 1..N /\ c[k] # NL)
  BY <1>1
<1>4. Normalized(c) = Append(cut, NL)
  BY DEF Normalized
<1> HIDE DEF K
<1>5. body \in K
  BY <1>1, <1>2, GreatestUpTo
<1> HIDE DEF body
<1>6. body \in 0..N /\ (body > 0 => c[body] # NL)
  BY <1>1, <1>3, <1>5
<1>7. cut \in Seq(Char) /\ Len(cut) = body /\ \A k \in 1..body : cut[k] = c[k]
  BY <1>1, <1>6
<1> HIDE DEF cut
<1> DEFINE s == Append(cut, NL)
<1>8. s \in Seq(Char) /\ Len(s) = body + 1 /\ s[body + 1] = NL /\ s # <<>>
      /\ \A k \in 1..body : s[k] = cut[k]
  <2>1. /\ s \in Seq(Char) /\ s # <<>> /\ Len(s) = Len(cut) + 1 /\ s[Len(cut) + 1] = NL
        /\ \A k \in 1..Len(cut) : s[k] = cut[k]
    BY <1>1, <1>7, Appended
  <2> HIDE DEF s
  <2> QED BY <1>7, <2>1
<1> HIDE DEF s
<1>9. Last(s) = NL
  BY <1>8 DEF Last
<1>10. Len(s) > 1 => s[Len(s) - 1] # NL
  <2> SUFFICES ASSUME Len(s) > 1 PROVE s[Len(s) - 1] # NL
    OBVIOUS
  <2>1. Len(s) - 1 = body /\ body \in 1..body /\ body > 0
    BY <1>6, <1>8
  <2> QED BY <1>6, <1>7, <1>8, <2>1
<1> QED BY <1>4, <1>8, <1>9, <1>10 DEF EndsOnce, s

----------------------------------------------------------------------------
(* Lines.                                                                  *)

\* The ends of the lines, with the end of the text.
EndsOf(s) == Picked([k \in 1..(Len(s) + 1) |-> k], Ends(s) \cup {Len(s) + 1})

StartsOf(s) == [n \in DOMAIN EndsOf(s) |-> IF n = 1 THEN 1 ELSE EndsOf(s)[n - 1] + 1]

LinesOf(s) == [n \in DOMAIN EndsOf(s) |-> SubSeq(s, StartsOf(s)[n], EndsOf(s)[n] - 1)]

LEMMA SplitIs ==
  ASSUME NEW s
  PROVE  SplitLines(s) = IF Last(LinesOf(s)) = <<>> THEN Front(LinesOf(s)) ELSE LinesOf(s)
BY DEF SplitLines, LinesOf, StartsOf, EndsOf

LEMMA LinesTyped ==
  ASSUME NEW s \in Seq(Char)
  PROVE  /\ EndsOf(s) \in Seq(1..(Len(s) + 1)) /\ EndsOf(s) # <<>>
         /\ LinesOf(s) \in Seq(Seq(Char)) /\ Len(LinesOf(s)) = Len(EndsOf(s))
         /\ SplitLines(s) \in Seq(Seq(Char))
<1> DEFINE N == Len(s)
           P == Ends(s) \cup {N + 1}
           ids == [k \in 1..(N + 1) |-> k]
           ends == EndsOf(s)
           start == StartsOf(s)
<1>1. N \in Nat /\ ids \in Seq(1..(N + 1)) /\ Len(ids) = N + 1
  OBVIOUS
<1>2. ids[N + 1] = N + 1 /\ N + 1 \in P
  BY <1>1
<1>3. ends = Picked(ids, P)
  BY DEF EndsOf
<1> HIDE DEF ids, P
<1>4. PICK f \in [0..Len(ids) -> Seq(1..(N + 1))] : Picks(f, ids, P)
  BY <1>1, PicksExist
<1>5. ends = f[N + 1]
  BY <1>1, <1>3, <1>4, PickedIs
<1>6. f[N + 1] = Append(f[N], N + 1) /\ f[N] \in Seq(1..(N + 1))
  <2>1. N + 1 \in 1..Len(ids) /\ (N + 1) - 1 = N /\ N \in 0..Len(ids)
    BY <1>1
  <2>2. f[N + 1] = IF N + 1 \in P THEN Append(f[(N + 1) - 1], ids[N + 1]) ELSE f[(N + 1) - 1]
    BY <1>4, <2>1 DEF Picks
  <2> QED BY <1>2, <1>4, <2>1, <2>2
<1>7. ends \in Seq(1..(N + 1)) /\ ends # <<>>
  <2> DEFINE Y == 1..(N + 1)
             t == f[N]
  <2>1. N + 1 \in Y /\ t \in Seq(Y) /\ ends = Append(t, N + 1)
    BY <1>1, <1>5, <1>6
  <2> HIDE DEF Y, t, N, ends
  <2>2. Append(t, N + 1) \in Seq(Y) /\ Append(t, N + 1) # <<>>
    BY <2>1, Appended
  <2>3. ends \in Seq(Y) /\ ends # <<>>
    BY <2>1, <2>2
  <2> QED BY <2>3 DEF Y
<1> HIDE DEF ends
<1>8. Len(ends) \in Nat /\ Len(ends) > 0 /\ DOMAIN ends = 1..Len(ends)
      /\ \A n \in 1..Len(ends) : ends[n] \in 1..(N + 1)
  BY <1>7
<1>9. start = [n \in 1..Len(ends) |-> IF n = 1 THEN 1 ELSE ends[n - 1] + 1]
  BY <1>8 DEF StartsOf, ends
<1>10. \A n \in 1..Len(ends) : start[n] \in Nat /\ start[n] >= 1
  <2> SUFFICES ASSUME NEW n \in 1..Len(ends) PROVE start[n] \in Nat /\ start[n] >= 1
    OBVIOUS
  <2>1. start[n] = IF n = 1 THEN 1 ELSE ends[n - 1] + 1
    BY <1>9
  <2>2. CASE n = 1
    BY <2>1, <2>2
  <2>3. CASE n # 1
    <3>1. n - 1 \in 1..Len(ends)
      BY <1>8, <2>3
    <3>2. ends[n - 1] \in 1..(N + 1)
      BY <1>8, <3>1
    <3> HIDE DEF start
    <3> QED BY <1>1, <2>1, <2>3, <3>2
  <2> QED BY <2>2, <2>3
<1>11. LinesOf(s) = [n \in 1..Len(ends) |-> SubSeq(s, start[n], ends[n] - 1)]
  BY <1>8 DEF LinesOf, ends
<1> HIDE DEF start
<1>12. \A n \in 1..Len(ends) : SubSeq(s, start[n], ends[n] - 1) \in Seq(Char)
  <2> SUFFICES ASSUME NEW n \in 1..Len(ends) PROVE SubSeq(s, start[n], ends[n] - 1) \in Seq(Char)
    OBVIOUS
  <2> DEFINE a == start[n]
             b == ends[n] - 1
  <2>1. a \in Nat /\ a >= 1 /\ b \in Int /\ b <= N
    BY <1>1, <1>8, <1>10
  <2> HIDE DEF a, b
  <2>2. SubSeq(s, a, b) \in Seq(Char)
    BY <1>1, <2>1, SliceTyped
  <2> QED BY <2>2 DEF a, b
<1>13. LinesOf(s) \in Seq(Seq(Char)) /\ Len(LinesOf(s)) = Len(ends)
  <2>1. LinesOf(s) \in [1..Len(ends) -> Seq(Char)]
    BY <1>11, <1>12
  <2> QED BY <1>8, <1>11, <2>1
<1>14. Front(LinesOf(s)) \in Seq(Seq(Char))
  <2>1. Front(LinesOf(s)) = SubSeq(LinesOf(s), 1, Len(LinesOf(s)) - 1)
    BY DEF Front
  <2>2. \A t \in Seq(Seq(Char)) : SubSeq(t, 1, Len(t) - 1) \in Seq(Seq(Char))
    OBVIOUS
  <2> QED BY <1>13, <2>1, <2>2
<1>15. SplitLines(s) \in Seq(Seq(Char))
  BY <1>13, <1>14, SplitIs
<1> QED BY <1>7, <1>13, <1>15 DEF ends

----------------------------------------------------------------------------
(* Common beginnings and ends.                                             *)

\* p leading and s trailing elements are the same, and what is between differs at
\* both ends.
Shares(o, n, p, s) ==
  /\ p + s <= Len(o) /\ p + s <= Len(n)
  /\ \A k \in 1..p : o[k] = n[k]
  /\ \A k \in 0..(s - 1) : o[Len(o) - k] = n[Len(n) - k]
  /\ p + s < Len(o) /\ p + s < Len(n) =>
       o[p + 1] # n[p + 1] /\ o[Len(o) - s] # n[Len(n) - s]

LEMMA CommonEnds ==
  ASSUME NEW X, NEW o \in Seq(X), NEW n \in Seq(X)
  PROVE  \E p \in Nat, s \in Nat :
           p = CommonPrefix(o, n) /\ s = CommonSuffix(o, n, p) /\ Shares(o, n, p, s)
<1> DEFINE L == Min({Len(o), Len(n)})
           p == CommonPrefix(o, n)
           s == CommonSuffix(o, n, p)
           P == {q \in 0..L : \A k \in 1..q : o[k] = n[k]}
           S == {t \in 0..(L - p) : \A k \in 0..(t - 1) : o[Len(o) - k] = n[Len(n) - k]}
<1>1. /\ Len(o) \in Nat /\ Len(n) \in Nat /\ L \in Nat /\ L <= Len(o) /\ L <= Len(n)
      /\ L = Len(o) \/ L = Len(n)
  BY LesserOf
<1>2. p = Max(P) /\ s = Max(S)
  BY DEF CommonPrefix, CommonSuffix
<1> HIDE DEF L, p, s
<1>3. /\ \A q : q \in P <=> q \in 0..L /\ \A k \in 1..q : o[k] = n[k]
      /\ \A t : t \in S <=>
           t \in 0..(L - p) /\ \A k \in 0..(t - 1) : o[Len(o) - k] = n[Len(n) - k]
  OBVIOUS
<1> HIDE DEF P, S
<1>4. p \in P /\ \A q \in P : p >= q
  <2>1. 0 \in P
    BY <1>1, <1>3
  <2>2. P \in SUBSET (0..L) /\ P # {}
    BY <1>3, <2>1
  <2> QED BY <1>1, <1>2, <2>2, GreatestUpTo
<1>5. p \in 0..L /\ L - p \in Nat /\ \A k \in 1..p : o[k] = n[k]
  BY <1>1, <1>3, <1>4
<1>6. s \in S /\ \A t \in S : s >= t
  <2>1. 0 \in S
    BY <1>3, <1>5
  <2>2. S \in SUBSET (0..(L - p)) /\ S # {}
    BY <1>3, <2>1
  <2> QED BY <1>2, <1>5, <2>2, GreatestUpTo
<1>7. s \in 0..(L - p) /\ \A k \in 0..(s - 1) : o[Len(o) - k] = n[Len(n) - k]
  BY <1>3, <1>6
<1>8. ASSUME p + s < Len(o), p + s < Len(n), o[p + 1] = n[p + 1] PROVE FALSE
  <2>1. p + 1 \in 0..L /\ ~(p >= p + 1)
    BY <1>1, <1>5, <1>7, <1>8
  <2>2. \A k \in 1..(p + 1) : o[k] = n[k]
    BY <1>5, <1>8
  <2> QED BY <1>3, <1>4, <2>1, <2>2
<1>9. ASSUME p + s < Len(o), p + s < Len(n), o[Len(o) - s] = n[Len(n) - s] PROVE FALSE
  <2>1. s + 1 \in 0..(L - p) /\ ~(s >= s + 1)
    BY <1>1, <1>5, <1>7, <1>9
  <2>2. \A k \in 0..((s + 1) - 1) : k = s \/ k \in 0..(s - 1)
    BY <1>7
  <2>3. \A k \in 0..((s + 1) - 1) : o[Len(o) - k] = n[Len(n) - k]
    BY <1>7, <1>9, <2>2
  <2> QED BY <1>3, <1>6, <2>1, <2>3
<1>10. p \in Nat /\ s \in Nat /\ p + s <= Len(o) /\ p + s <= Len(n)
  BY <1>1, <1>5, <1>7
<1>11. Shares(o, n, p, s)
  BY <1>5, <1>7, <1>8, <1>9, <1>10 DEF Shares
<1> QED BY <1>10, <1>11 DEF p, s

\* What was removed from o stood where what was added stands in n, and is of no
\* more than it need be.
DiffersBy(o, n, removed, added) ==
  /\ \E k \in 0..Len(o) :
       /\ SubSeq(o, k + 1, k + Len(removed)) = removed
       /\ n = SubSeq(o, 1, k) \o added \o SubSeq(o, k + Len(removed) + 1, Len(o))
  /\ removed # <<>> /\ added # <<>> =>
       Head(removed) # Head(added) /\ Last(removed) # Last(added)

\* Where the two differ, between the common beginning and the common end.
LEMMA DifferenceExplains ==
  ASSUME NEW X, NEW o \in Seq(X), NEW n \in Seq(X),
         NEW p \in Nat, NEW s \in Nat, Shares(o, n, p, s)
  PROVE  /\ SubSeq(o, p + 1, Len(o) - s) \in Seq(X) /\ SubSeq(n, p + 1, Len(n) - s) \in Seq(X)
         /\ DiffersBy(o, n, SubSeq(o, p + 1, Len(o) - s), SubSeq(n, p + 1, Len(n) - s))
<1> DEFINE r == SubSeq(o, p + 1, Len(o) - s)
           a == SubSeq(n, p + 1, Len(n) - s)
<1>1. /\ p + s <= Len(o) /\ p + s <= Len(n)
      /\ \A k \in 1..p : o[k] = n[k]
      /\ \A k \in 0..(s - 1) : o[Len(o) - k] = n[Len(n) - k]
      /\ p + s < Len(o) /\ p + s < Len(n) =>
           o[p + 1] # n[p + 1] /\ o[Len(o) - s] # n[Len(n) - s]
  BY DEF Shares
<1>2. Len(o) \in Nat /\ Len(n) \in Nat
  OBVIOUS
<1> DEFINE lr == Len(o) - s - p
           la == Len(n) - s - p
<1>3. lr \in Nat /\ la \in Nat
  BY <1>1, <1>2
<1>4. /\ r \in Seq(X) /\ Len(r) = lr
      /\ \A k \in 1..lr : r[k] = o[p + k]
  BY <1>1, <1>2
<1>5. /\ a \in Seq(X) /\ Len(a) = la
      /\ \A k \in 1..la : a[k] = n[p + k]
  BY <1>1, <1>2
<1>6. p \in 0..Len(o) /\ p + Len(r) = Len(o) - s
  BY <1>1, <1>2, <1>4
<1>7. SubSeq(o, p + 1, p + Len(r)) = r
  BY <1>6
<1> HIDE DEF r, a
<1> DEFINE head == SubSeq(o, 1, p)
           tail == SubSeq(o, p + Len(r) + 1, Len(o))
<1>11. head \in Seq(X) /\ Len(head) = p /\ \A k \in 1..p : head[k] = o[k]
  BY <1>1, <1>2
<1>12. tail = SubSeq(o, Len(o) - s + 1, Len(o))
  BY <1>6
<1>13. tail \in Seq(X) /\ Len(tail) = s /\ \A k \in 1..s : tail[k] = o[Len(o) - s + k]
  <2> HIDE DEF tail
  <2> QED BY <1>1, <1>2, <1>12
<1> HIDE DEF head, tail
<1>8. /\ head \in Seq(X) /\ Len(head) = p /\ \A k \in 1..p : head[k] = o[k]
      /\ tail \in Seq(X) /\ Len(tail) = s /\ \A k \in 1..s : tail[k] = o[Len(o) - s + k]
  BY <1>11, <1>13
<1>9. n = head \o a \o tail
  <2> DEFINE t == head \o a \o tail
  <2>1. /\ t \in Seq(X) /\ Len(t) = p + la + s
        /\ \A k \in 1..p : t[k] = head[k]
        /\ \A k \in 1..la : t[p + k] = a[k]
        /\ \A k \in 1..s : t[p + la + k] = tail[k]
    <3> HIDE DEF la, lr, t
    <3>1. /\ t \in Seq(X) /\ Len(t) = Len(head) + Len(a) + Len(tail)
          /\ \A k \in 1..Len(head) : t[k] = head[k]
          /\ \A k \in 1..Len(a) : t[Len(head) + k] = a[k]
          /\ \A k \in 1..Len(tail) : t[Len(head) + Len(a) + k] = tail[k]
      <4>1. head \in Seq(X) /\ a \in Seq(X) /\ tail \in Seq(X)
        BY <1>5, <1>8
      <4>2. Consists(X, t, head, a, tail)
        BY <4>1, ThreeJoined DEF t
      <4> QED BY <4>2 DEF Consists
    <3> QED BY <1>3, <1>5, <1>8, <3>1
  <2>2. Len(t) = Len(n) /\ p + la = Len(n) - s
    BY <1>1, <1>2, <2>1
  <2> HIDE DEF t, la, lr
  <2>3. ASSUME NEW k \in 1..Len(n) PROVE n[k] = t[k]
    <3>1. CASE k <= p
      <4>1. k \in 1..p
        BY <1>1, <3>1
      <4> QED BY <1>1, <1>8, <2>1, <4>1
    <3>2. CASE k > p /\ k <= p + la
      <4>1. k - p \in 1..la /\ p + (k - p) = k
        BY <1>1, <1>2, <1>3, <3>2
      <4> QED BY <1>5, <2>1, <4>1
    <3>3. CASE k > p + la
      <4> DEFINE i == k - (p + la)
      <4>1. /\ k \in Nat /\ k <= Len(n) /\ Len(n) = p + la + s /\ Len(n) \in Nat
            /\ la \in Nat /\ Len(o) \in Nat
        BY <1>2, <1>3, <2>1, <2>2
      <4>2. i \in 1..s /\ p + la + i = k /\ s - i \in 0..(s - 1)
            /\ Len(o) - (s - i) = Len(o) - s + i /\ Len(n) - (s - i) = k
        <5> USE DEF i
        <5>1. i \in 1..s /\ p + la + i = k
          BY <3>3, <4>1
        <5>2. s - i \in 0..(s - 1) /\ Len(n) - (s - i) = k
          BY <3>3, <4>1
        <5>3. Len(o) - (s - i) = Len(o) - s + i
          BY <3>3, <4>1
        <5> QED BY <5>1, <5>2, <5>3
      <4> HIDE DEF i
      <4>3. t[k] = o[Len(o) - (s - i)]
        <5>1. t[p + la + i] = tail[i] /\ tail[i] = o[Len(o) - s + i]
          BY <1>8, <2>1, <4>2
        <5>2. t[k] = o[Len(o) - s + i]
          BY <4>2, <5>1
        <5> QED BY <4>2, <5>2
      <4>4. o[Len(o) - (s - i)] = n[Len(n) - (s - i)]
        BY <1>1, <4>2
      <4>5. n[Len(n) - (s - i)] = n[k]
        BY <4>2
      <4> QED BY <4>3, <4>4, <4>5
    <3>4. k \in Nat
      BY <1>2
    <3> QED BY <1>3, <3>1, <3>2, <3>3, <3>4
  <2>4. n = t
    BY <2>1, <2>2, <2>3, SameElements
  <2> QED BY <2>4 DEF t
<1>10. ASSUME r # <<>>, a # <<>> PROVE Head(r) # Head(a) /\ Last(r) # Last(a)
  <2>1. lr > 0 /\ la > 0
    BY <1>3, <1>4, <1>5, <1>10
  <2>2. o[p + 1] # n[p + 1] /\ o[Len(o) - s] # n[Len(n) - s]
    BY <1>1, <1>2, <2>1
  <2>3. 1 \in 1..lr /\ lr \in 1..lr /\ 1 \in 1..la /\ la \in 1..la
        /\ p + lr = Len(o) - s /\ p + la = Len(n) - s
    BY <1>1, <1>2, <1>3, <2>1
  <2> HIDE DEF lr, la
  <2>4. Head(r) = o[p + 1] /\ Head(a) = n[p + 1]
    BY <1>4, <1>5, <1>10, <2>3
  <2>5. Last(r) = o[Len(o) - s] /\ Last(a) = n[Len(n) - s]
    BY <1>4, <1>5, <1>10, <2>3 DEF Last
  <2> QED BY <2>2, <2>4, <2>5
<1>14. DiffersBy(o, n, r, a)
  BY <1>6, <1>7, <1>9, <1>10 DEF DiffersBy, head, tail
<1> QED BY <1>4, <1>5, <1>14 DEF r, a

----------------------------------------------------------------------------
(* Counting.                                                               *)

\* A text that ends with a newline has as many lines as newlines.
LEMMA LinesCounted ==
  ASSUME NEW s \in Seq(Char), s # <<>>, Last(s) = NL
  PROVE  Len(SplitLines(s)) = Cardinality(Ends(s))
<1> DEFINE N == Len(s)
           P == Ends(s) \cup {N + 1}
           ids == [k \in 1..(N + 1) |-> k]
           ends == EndsOf(s)
           M == Len(ends)
<1>1. N \in Nat \ {0} /\ ids \in Seq(1..(N + 1)) /\ Len(ids) = N + 1
      /\ \A k \in 1..(N + 1) : ids[k] = k
  OBVIOUS
<1>2. N \in P /\ N + 1 \in P /\ P \cap (1..N) = Ends(s)
  <2>1. s[N] = NL
    BY DEF Last
  <2> QED BY <1>1, <2>1 DEF Ends
<1>3. ends = Picked(ids, P)
  BY DEF EndsOf
<1> HIDE DEF ids, P
<1>4. PICK f \in [0..Len(ids) -> Seq(1..(N + 1))] : Picks(f, ids, P)
  BY <1>1, PicksExist
<1>5. ends = f[N + 1]
  BY <1>1, <1>3, <1>4, PickedIs
<1>6. /\ f[N + 1] = Append(f[N], N + 1) /\ f[N] = Append(f[N - 1], N)
      /\ f[N] \in Seq(1..(N + 1)) /\ f[N - 1] \in Seq(1..(N + 1))
  <2>1. N + 1 \in 1..Len(ids) /\ N \in 1..Len(ids) /\ N \in 0..Len(ids)
        /\ N - 1 \in 0..Len(ids) /\ (N + 1) - 1 = N
    BY <1>1
  <2>2. /\ f[N + 1] = IF N + 1 \in P THEN Append(f[(N + 1) - 1], ids[N + 1]) ELSE f[(N + 1) - 1]
        /\ f[N] = IF N \in P THEN Append(f[N - 1], ids[N]) ELSE f[N - 1]
    BY <1>4, <2>1 DEF Picks
  <2>3. ids[N] = N /\ ids[N + 1] = N + 1
    BY <1>1
  <2> QED BY <1>2, <1>4, <2>1, <2>2, <2>3
<1>7. Len(f[N]) = Cardinality(Ends(s))
  <2>1. N \in 0..Len(ids)
    BY <1>1
  <2>2. ids \in Seq(1..(N + 1)) /\ f \in [0..Len(ids) -> Seq(1..(N + 1))] /\ Picks(f, ids, P)
    BY <1>1, <1>4
  <2>3. \A n \in 0..Len(ids) : Len(f[n]) = Cardinality(P \cap (1..n))
    <3>1. CountsUp(f, ids, P)
      BY <2>2, PicksCount
    <3> QED BY <3>1 DEF CountsUp
  <2> QED BY <1>2, <2>1, <2>3
<1>8. /\ M = Len(f[N]) + 1 /\ ends[M] = N + 1 /\ ends[M - 1] = N
      /\ Len(f[N]) \in Nat \ {0}
  <2>1. N \in 1..(N + 1) /\ N + 1 \in 1..(N + 1)
    BY <1>1
  <2>2. /\ Len(f[N]) = Len(f[N - 1]) + 1 /\ f[N][Len(f[N - 1]) + 1] = N
        /\ Len(f[N - 1]) \in Nat
    BY <1>6, <2>1, Appended
  <2>3. /\ M = Len(f[N]) + 1 /\ ends[Len(f[N]) + 1] = N + 1
        /\ \A k \in 1..Len(f[N]) : ends[k] = f[N][k]
    BY <1>5, <1>6, <2>1, Appended
  <2> HIDE DEF ends, M
  <2>4. Len(f[N]) \in 1..Len(f[N]) /\ M - 1 = Len(f[N])
    BY <2>2, <2>3
  <2> QED BY <2>2, <2>3, <2>4
<1>9. DOMAIN ends = 1..M /\ M \in Nat /\ M > 1
  <2>1. ends \in Seq(1..(N + 1))
    BY LinesTyped
  <2> HIDE DEF ends
  <2> QED BY <1>8, <2>1
<1> HIDE DEF ends, M
<1>10. LinesOf(s)[M] = <<>>
  <2>1. M \in 1..M /\ M # 1
    BY <1>9
  <2>2. StartsOf(s)[M] = N + 1
    <3>1. StartsOf(s)[M] = ends[M - 1] + 1
      <4>1. StartsOf(s) = [n \in 1..M |-> IF n = 1 THEN 1 ELSE ends[n - 1] + 1]
        BY <1>9 DEF StartsOf, ends
      <4> QED BY <2>1, <4>1
    <3> QED BY <1>8, <3>1
  <2>3. LinesOf(s)[M] = SubSeq(s, StartsOf(s)[M], ends[M] - 1)
    BY <1>9, <2>1 DEF LinesOf, ends
  <2>4. LinesOf(s)[M] = SubSeq(s, N + 1, N)
    BY <1>1, <1>8, <2>2, <2>3
  <2>5. SubSeq(s, N + 1, N) = <<>>
    BY <1>1
  <2> QED BY <2>4, <2>5
<1>11. LinesOf(s) \in Seq(Seq(Char)) /\ Len(LinesOf(s)) = M
  BY LinesTyped DEF ends, M
<1>12. SplitLines(s) = SubSeq(LinesOf(s), 1, M - 1)
  BY <1>10, <1>11, SplitIs DEF Last, Front
<1>13. Len(SubSeq(LinesOf(s), 1, M - 1)) = M - 1
  BY <1>9, <1>11
<1>14. M - 1 = Len(f[N])
  BY <1>8
<1> QED BY <1>7, <1>12, <1>13, <1>14

----------------------------------------------------------------------------
(* What edit finds.                                                        *)

Fits(content, old, t, k) ==
  OccursAt(content, old, k) /\ (t = <<>> \/ Last(t) + Len(old) <= k)

\* The places found as the search goes on.
Finds(f, content, old) ==
  /\ f[0] = <<>>
  /\ \A k \in 1..Len(content) :
       f[k] = IF Fits(content, old, f[k - 1], k) THEN Append(f[k - 1], k) ELSE f[k - 1]

LEMMA FindsExist ==
  ASSUME NEW X, NEW c \in Seq(X), NEW o
  PROVE  \E f \in [0..Len(c) -> Seq(Nat)] : Finds(f, c, o)
<1> DEFINE next(k, t) == IF Fits(c, o, t, k) THEN Append(t, k) ELSE t
           step == [k \in 1..Len(c) |-> [t \in Seq(Nat) |-> next(k, t)]]
<1>1. Len(c) \in Nat /\ <<>> \in Seq(Nat)
  OBVIOUS
<1>2. \A k \in 1..Len(c), t \in Seq(Nat) : next(k, t) \in Seq(Nat)
  <2> SUFFICES ASSUME NEW k \in 1..Len(c), NEW t \in Seq(Nat) PROVE next(k, t) \in Seq(Nat)
    OBVIOUS
  <2>1. Append(t, k) \in Seq(Nat)
    OBVIOUS
  <2> QED BY <2>1
<1> HIDE DEF next
<1>3. /\ step \in [1..Len(c) -> [Seq(Nat) -> Seq(Nat)]]
      /\ \A k \in 1..Len(c), t \in Seq(Nat) : step[k][t] = next(k, t)
  BY <1>2
<1> HIDE DEF step
<1>4. PICK f : Passes(f, Seq(Nat), Len(c), <<>>, step)
  BY <1>1, <1>3, Steps
<1>5. /\ f \in [0..Len(c) -> Seq(Nat)] /\ f[0] = <<>>
      /\ \A k \in 1..Len(c) : f[k] = step[k][f[k - 1]]
  BY <1>4 DEF Passes
<1>6. \A k \in 1..Len(c) : f[k] = next(k, f[k - 1])
  <2>1. \A k \in 1..Len(c) : k - 1 \in 0..Len(c)
    BY <1>1
  <2> QED BY <1>3, <1>5, <2>1
<1> QED BY <1>5, <1>6 DEF Finds, next

LEMMA FoundIs ==
  ASSUME NEW c, Len(c) \in Nat, NEW o, NEW f, Finds(f, c, o)
  PROVE  Occurrences(c, o) = f[Len(c)]
<1> DEFINE N == Len(c)
           next(k, t) == IF Fits(c, o, t, k) THEN Append(t, k) ELSE t
           Is(g) == g = [k \in 0..N |->
                           IF k = 0 THEN <<>>
                           ELSE IF OccursAt(c, o, k)
                                     /\ (g[k - 1] = <<>> \/ Last(g[k - 1]) + Len(o) <= k)
                                THEN Append(g[k - 1], k) ELSE g[k - 1]]
           h == [k \in 0..N |-> f[k]]
           found == CHOOSE g : Is(g)
<1>1. N \in Nat /\ f[0] = <<>> /\ \A k \in 1..N : f[k] = next(k, f[k - 1])
  BY DEF Finds
<1>2. Is(h)
  <2>1. ASSUME NEW k \in 0..N
        PROVE  f[k] = IF k = 0 THEN <<>>
                      ELSE IF OccursAt(c, o, k)
                                /\ (h[k - 1] = <<>> \/ Last(h[k - 1]) + Len(o) <= k)
                           THEN Append(h[k - 1], k) ELSE h[k - 1]
    <3>1. CASE k = 0
      BY <1>1, <3>1
    <3>2. CASE k # 0
      <4>1. k - 1 \in 0..N /\ k \in 1..N
        BY <1>1, <3>2
      <4>2. h[k - 1] = f[k - 1]
        BY <4>1
      <4> HIDE DEF h
      <4> QED BY <1>1, <3>2, <4>1, <4>2 DEF Fits
    <3> QED BY <3>1, <3>2
  <2> QED BY <2>1
<1> HIDE DEF h
<1>3. Is(found)
  BY <1>2
<1>4. Occurrences(c, o) = found[N]
  BY DEF Occurrences
<1> HIDE DEF found
<1>5. \A k \in 0..N : found[k] = IF k = 0 THEN <<>> ELSE next(k, found[k - 1])
  BY <1>3 DEF Fits
<1> HIDE DEF Is, next
<1>6. Alike(f, found, N)
  <2>1. 0 \in 0..N /\ \A k \in 1..N : k \in 0..N /\ k # 0
    BY <1>1
  <2>2. f[0] = found[0]
    BY <1>1, <1>5, <2>1
  <2>3. ASSUME NEW k \in 1..N, f[k - 1] = found[k - 1] PROVE f[k] = found[k]
    BY <1>1, <1>5, <2>1, <2>3
  <2> QED BY <2>2, <2>3 DEF Alike
<1>7. \A k \in 0..N : f[k] = found[k]
  BY <1>1, <1>6, SameSteps
<1>8. N \in 0..N
  BY <1>1
<1> QED BY <1>4, <1>7, <1>8

\* Places of old up to k, none within another, and none that could be added.
Chosen(c, o, t, k) ==
  /\ \A i \in 1..Len(t) : t[i] \in 1..k /\ OccursAt(c, o, t[i])
  /\ \A i, j \in 1..Len(t) : i < j => t[i] + Len(o) <= t[j]
  /\ \A q \in 1..k : OccursAt(c, o, q) =>
       \E i \in 1..Len(t) : t[i] <= q /\ q < t[i] + Len(o)

LEMMA ChosenNext ==
  ASSUME NEW c, NEW o, Len(o) \in Nat \ {0}, NEW k \in Nat \ {0}, NEW t \in Seq(Nat),
         Chosen(c, o, t, k - 1)
  PROVE  Chosen(c, o, IF Fits(c, o, t, k) THEN Append(t, k) ELSE t, k)
<1> DEFINE m == Len(o)
           n == Len(t)
<1>1. n \in Nat /\ m \in Nat \ {0} /\ \A i \in 1..n : t[i] \in Nat
  OBVIOUS
<1>2. /\ \A i \in 1..n : t[i] \in 1..(k - 1) /\ OccursAt(c, o, t[i])
      /\ \A i, j \in 1..n : i < j => t[i] + m <= t[j]
      /\ \A q \in 1..(k - 1) : OccursAt(c, o, q) =>
           \E i \in 1..n : t[i] <= q /\ q < t[i] + m
  BY DEF Chosen
<1>3. \A q \in 1..k : q = k \/ q \in 1..(k - 1)
  OBVIOUS
<1>4. n # 0 => Last(t) = t[n] /\ n \in 1..n
  BY <1>1 DEF Last
<1> HIDE DEF m, n
<1>5. CASE Fits(c, o, t, k)
  <2> DEFINE u == Append(t, k)
  <2>1. /\ u \in Seq(Nat) /\ Len(u) = n + 1 /\ u[n + 1] = k
        /\ \A i \in 1..n : u[i] = t[i]
    BY Appended DEF n
  <2>2. OccursAt(c, o, k) /\ (n = 0 \/ t[n] + m <= k)
    <3>1. t = <<>> => n = 0
      BY DEF n
    <3> QED BY <1>4, <1>5, <3>1 DEF Fits, m
  <2> HIDE DEF u
  <2>3. \A i \in 1..(n + 1) : i = n + 1 \/ i \in 1..n
    BY <1>1
  <2>4. ASSUME NEW i \in 1..Len(u) PROVE u[i] \in 1..k /\ OccursAt(c, o, u[i])
    <3>1. CASE i = n + 1
      BY <2>1, <2>2, <3>1
    <3>2. CASE i \in 1..n
      <4>1. u[i] = t[i] /\ t[i] \in 1..(k - 1) /\ OccursAt(c, o, t[i])
        BY <1>2, <2>1, <3>2
      <4> QED BY <4>1
    <3> QED BY <2>1, <2>3, <3>1, <3>2
  <2>5. ASSUME NEW i \in 1..Len(u), NEW j \in 1..Len(u), i < j PROVE u[i] + m <= u[j]
    <3>1. i \in 1..n
      BY <1>1, <2>1, <2>5
    <3>2. u[i] = t[i] /\ t[i] \in Nat
      BY <1>1, <2>1, <3>1
    <3>3. CASE j = n + 1
      <4>1. n # 0 /\ t[n] + m <= k /\ t[n] \in Nat
        BY <1>1, <1>4, <2>2, <3>1
      <4>2. i = n \/ (i < n /\ n \in 1..n)
        BY <1>1, <3>1
      <4>3. t[i] <= t[n]
        <5>1. i < n /\ n \in 1..n => t[i] + m <= t[n]
          BY <1>2, <3>1
        <5> QED BY <1>1, <3>2, <4>1, <4>2, <5>1
      <4>4. u[i] = t[i] /\ u[j] = k
        BY <2>1, <3>2, <3>3
      <4>5. t[i] \in Nat /\ t[n] \in Nat /\ m \in Nat
        BY <1>1, <3>2, <4>1
      <4>6. t[i] + m <= k
        <5> DEFINE x == t[i]
                   y == t[n]
        <5>1. x \in Nat /\ y \in Nat /\ m \in Nat /\ k \in Nat /\ x <= y /\ y + m <= k
          BY <4>1, <4>3, <4>5
        <5> HIDE DEF x, y
        <5>2. x + m <= k
          BY <5>1
        <5> QED BY <5>2 DEF x
      <4> QED BY <4>4, <4>6
    <3>4. CASE j \in 1..n
      <4>1. t[i] + m <= t[j] /\ u[j] = t[j]
        BY <1>2, <2>1, <2>5, <3>1, <3>4
      <4> QED BY <3>2, <4>1
    <3> QED BY <2>1, <2>3, <3>3, <3>4
  <2>6. ASSUME NEW q \in 1..k, OccursAt(c, o, q)
        PROVE  \E i \in 1..Len(u) : u[i] <= q /\ q < u[i] + m
    <3>1. CASE q = k
      <4>1. n + 1 \in 1..Len(u) /\ u[n + 1] = q /\ q <= q /\ q < q + m
        BY <1>1, <2>1, <3>1
      <4> QED BY <4>1
    <3>2. CASE q \in 1..(k - 1)
      <4>1. PICK i \in 1..n : t[i] <= q /\ q < t[i] + m
        BY <1>2, <2>6, <3>2
      <4>2. i \in 1..Len(u) /\ u[i] = t[i]
        BY <1>1, <2>1
      <4> QED BY <4>1, <4>2
    <3> QED BY <1>3, <3>1, <3>2
  <2>7. Chosen(c, o, u, k)
    BY <2>4, <2>5, <2>6 DEF Chosen, m
  <2> QED BY <1>5, <2>7 DEF u
<1>6. CASE ~Fits(c, o, t, k)
  <2>1. ASSUME NEW i \in 1..n PROVE t[i] \in 1..k
    <3>1. t[i] \in 1..(k - 1)
      BY <1>2
    <3> QED BY <3>1
  <2>2. ASSUME OccursAt(c, o, k) PROVE \E i \in 1..n : t[i] <= k /\ k < t[i] + m
    <3>1. n # 0 /\ ~(t[n] + m <= k)
      <4>1. t # <<>> /\ ~(Last(t) + m <= k)
        BY <1>6, <2>2 DEF Fits, m
      <4>2. n # 0
        BY <4>1 DEF n
      <4> QED BY <1>4, <4>1, <4>2
    <3>2. n \in 1..n /\ t[n] \in 1..(k - 1)
      BY <1>2, <1>4, <3>1
    <3>3. t[n] <= k /\ k < t[n] + m
      BY <1>1, <3>1, <3>2
    <3> QED BY <3>2, <3>3
  <2>3. Chosen(c, o, t, k)
    <3>1. \A q \in 1..k : OccursAt(c, o, q) =>
            \E i \in 1..n : t[i] <= q /\ q < t[i] + m
      BY <1>2, <1>3, <2>2
    <3> QED BY <1>2, <2>1, <3>1 DEF Chosen, m, n
  <2> QED BY <1>6, <2>3
<1> QED BY <1>5, <1>6

LEMMA FoundChosen ==
  ASSUME NEW X, NEW c \in Seq(X), NEW o \in Seq(X), o # <<>>
  PROVE  Occurrences(c, o) \in Seq(Nat) /\ Chosen(c, o, Occurrences(c, o), Len(c))
<1>1. PICK f \in [0..Len(c) -> Seq(Nat)] : Finds(f, c, o)
  BY FindsExist
<1> DEFINE N == Len(c)
           Good == {k \in 0..N : Chosen(c, o, f[k], k)}
<1>2. N \in Nat /\ Len(o) \in Nat \ {0} /\ f[0] = <<>>
      /\ \A k \in 1..N :
           f[k] = IF Fits(c, o, f[k - 1], k) THEN Append(f[k - 1], k) ELSE f[k - 1]
  BY <1>1 DEF Finds
<1>3. 0 \in Good
  <2>1. Len(f[0]) = 0 /\ 1..0 = {}
    BY <1>2
  <2>2. Chosen(c, o, f[0], 0)
    BY <2>1 DEF Chosen
  <2> QED BY <1>2, <2>2
<1>4. ASSUME NEW k \in 1..N, k - 1 \in Good PROVE k \in Good
  <2>1. k \in Nat \ {0} /\ k \in 0..N /\ k - 1 \in 0..N
    BY <1>2
  <2>2. f[k - 1] \in Seq(Nat) /\ Chosen(c, o, f[k - 1], k - 1)
    BY <1>1, <1>4, <2>1
  <2>3. Chosen(c, o, IF Fits(c, o, f[k - 1], k) THEN Append(f[k - 1], k) ELSE f[k - 1], k)
    BY <1>2, <2>1, <2>2, ChosenNext
  <2>4. Chosen(c, o, f[k], k)
    BY <1>2, <2>3
  <2> QED BY <2>1, <2>4
<1> HIDE DEF Good
<1>5. \A k \in 0..N : k \in Good
  BY <1>2, <1>3, <1>4, Climb
<1>6. N \in 0..N /\ Occurrences(c, o) = f[N]
  BY <1>1, <1>2, FoundIs
<1>7. Chosen(c, o, f[N], N)
  BY <1>5, <1>6 DEF Good
<1> QED BY <1>1, <1>6, <1>7

PlacesOf(c, o) == {k \in DOMAIN c : OccursAt(c, o, k)}

Apart(P, m) == \A j, k \in P : j < k => j + m <= k

\* How many places there are in a set of places apart.
Sizes(c, o) == {Cardinality(P) : P \in {Q \in SUBSET PlacesOf(c, o) : Apart(Q, Len(o))}}

LEMMA ChosenApart ==
  ASSUME NEW X, NEW c \in Seq(X), NEW o, Len(o) \in Nat \ {0}, NEW t \in Seq(Nat),
         Chosen(c, o, t, Len(c))
  PROVE  /\ Range(t) \subseteq PlacesOf(c, o) /\ Apart(Range(t), Len(o))
         /\ IsFiniteSet(Range(t)) /\ Cardinality(Range(t)) = Len(t)
<1> DEFINE m == Len(o)
           n == Len(t)
           R == Range(t)
<1>1. n \in Nat /\ m \in Nat \ {0} /\ t \in [1..n -> Nat] /\ DOMAIN c = 1..Len(c)
  OBVIOUS
<1>2. /\ \A i \in 1..n : t[i] \in 1..Len(c) /\ OccursAt(c, o, t[i])
      /\ \A i, j \in 1..n : i < j => t[i] + m <= t[j]
  BY DEF Chosen
<1>3. R = {t[i] : i \in 1..n}
  BY <1>1 DEF Range
<1> HIDE DEF n, m, R
<1>4. \A i, j \in 1..n : t[i] < t[j] => i < j
  <2> SUFFICES ASSUME NEW i \in 1..n, NEW j \in 1..n, t[i] < t[j], ~(i < j) PROVE FALSE
    OBVIOUS
  <2>1. t[i] \in Nat /\ t[j] \in Nat /\ i \in Nat /\ j \in Nat
    BY <1>1
  <2>2. j < i \/ i = j
    BY <2>1
  <2>3. j < i => t[j] + m <= t[i]
    BY <1>2
  <2> QED BY <1>1, <2>1, <2>2, <2>3
<1>5. \A i, j \in 1..n : t[i] = t[j] => i = j
  <2> SUFFICES ASSUME NEW i \in 1..n, NEW j \in 1..n, t[i] = t[j], i # j PROVE FALSE
    OBVIOUS
  <2>1. t[i] \in Nat /\ t[j] \in Nat /\ i \in Nat /\ j \in Nat
    BY <1>1
  <2>2. j < i \/ i < j
    BY <2>1
  <2>3. (j < i => t[j] + m <= t[i]) /\ (i < j => t[i] + m <= t[j])
    BY <1>2
  <2> QED BY <1>1, <2>1, <2>2, <2>3
<1>6. R \subseteq PlacesOf(c, o)
  BY <1>1, <1>2, <1>3 DEF PlacesOf
<1>7. Apart(R, m)
  <2> SUFFICES ASSUME NEW j \in R, NEW k \in R, j < k PROVE j + m <= k
    BY DEF Apart
  <2>1. PICK a \in 1..n : j = t[a]
    BY <1>3
  <2>2. PICK b \in 1..n : k = t[b]
    BY <1>3
  <2>3. a < b
    BY <1>4, <2>1, <2>2
  <2> QED BY <1>2, <2>1, <2>2, <2>3
<1>8. IsFiniteSet(1..n) /\ Cardinality(1..n) = n
  BY <1>1, FS_Interval
<1>9. t \in Bijection(1..n, R)
  <2>1. t \in [1..n -> R] /\ DOMAIN t = 1..n
    BY <1>1, <1>3
  <2>2. t \in Injection(1..n, R)
    BY <1>5, <2>1 DEF Injection, IsInjective
  <2>3. t \in Surjection(1..n, R)
    BY <1>3, <2>1 DEF Surjection
  <2> QED BY <2>2, <2>3 DEF Bijection
<1>10. IsFiniteSet(R) /\ Cardinality(R) = n
  <2>1. ExistsBijection(1..n, R)
    BY <1>9 DEF ExistsBijection
  <2> QED BY <1>8, <2>1, FS_Bijection
<1> QED BY <1>6, <1>7, <1>10 DEF R, n, m

\* No set of places apart is larger.
LEMMA ChosenMost ==
  ASSUME NEW X, NEW c \in Seq(X), NEW o, Len(o) \in Nat \ {0}, NEW t \in Seq(Nat),
         Chosen(c, o, t, Len(c)),
         NEW Q \in SUBSET PlacesOf(c, o), Apart(Q, Len(o))
  PROVE  Cardinality(Q) \in Nat /\ Cardinality(Q) <= Len(t)
<1> DEFINE m == Len(o)
           n == Len(t)
           over(q) == CHOOSE i \in 1..n : t[i] <= q /\ q < t[i] + m
           g == [q \in Q |-> over(q)]
<1>1. n \in Nat /\ m \in Nat \ {0} /\ t \in [1..n -> Nat] /\ DOMAIN c = 1..Len(c)
      /\ Len(c) \in Nat
  OBVIOUS
<1>2. \A q \in Q : q \in 1..Len(c) /\ OccursAt(c, o, q)
  BY <1>1 DEF PlacesOf
<1>3. \A q \in 1..Len(c) : OccursAt(c, o, q) => \E i \in 1..n : t[i] <= q /\ q < t[i] + m
  BY DEF Chosen
<1> HIDE DEF m, n
<1>4. \A q \in Q : over(q) \in 1..n /\ t[over(q)] <= q /\ q < t[over(q)] + m
  <2> SUFFICES ASSUME NEW q \in Q
               PROVE  over(q) \in 1..n /\ t[over(q)] <= q /\ q < t[over(q)] + m
    OBVIOUS
  <2>1. \E i \in 1..n : t[i] <= q /\ q < t[i] + m
    BY <1>2, <1>3
  <2> QED BY <2>1
<1> HIDE DEF over
<1>5. g \in Injection(Q, 1..n)
  <2>1. g \in [Q -> 1..n] /\ \A q \in Q : g[q] = over(q)
    BY <1>4
  <2> HIDE DEF g
  <2>2. ASSUME NEW a \in Q, NEW b \in Q, g[a] = g[b] PROVE a = b
    <3>1. a \in Nat /\ b \in Nat
      BY <1>2
    <3>2. PICK i \in 1..n : t[i] <= a /\ a < t[i] + m /\ t[i] <= b /\ b < t[i] + m
      BY <1>4, <2>1, <2>2
    <3>3. t[i] \in Nat
      BY <1>1
    <3>4. (a < b => a + m <= b) /\ (b < a => b + m <= a)
      BY DEF Apart, m
    <3> QED BY <1>1, <3>1, <3>2, <3>3, <3>4
  <2>3. DOMAIN g = Q
    BY <2>1
  <2> QED BY <2>1, <2>2, <2>3 DEF Injection, IsInjective
<1>6. IsFiniteSet(1..n) /\ Cardinality(1..n) = n
  BY <1>1, FS_Interval
<1>7. IsFiniteSet(Q) /\ Cardinality(Q) <= Cardinality(1..n)
  BY <1>5, <1>6, FS_Injection
<1>8. Cardinality(Q) \in Nat
  BY <1>7, FS_CardinalityType
<1> QED BY <1>6, <1>7, <1>8 DEF n

\* Those found are as many as there can be.
LEMMA MostFound ==
  ASSUME NEW X, NEW c \in Seq(X), NEW o, Len(o) \in Nat \ {0}, NEW t \in Seq(Nat),
         Chosen(c, o, t, Len(c))
  PROVE  Len(t) = Max(Sizes(c, o))
<1>1. Len(t) \in Nat
  OBVIOUS
<1>2. Len(t) \in Sizes(c, o)
  <2>1. Range(t) \in SUBSET PlacesOf(c, o) /\ Apart(Range(t), Len(o))
        /\ Cardinality(Range(t)) = Len(t)
    BY ChosenApart
  <2> QED BY <2>1 DEF Sizes
<1>3. \A y \in Sizes(c, o) : y \in Nat /\ y <= Len(t)
  BY ChosenMost DEF Sizes
<1>4. \E x \in Sizes(c, o) : \A y \in Sizes(c, o) : x >= y
  BY <1>1, <1>2, <1>3
<1>5. Max(Sizes(c, o)) \in Sizes(c, o) /\ \A y \in Sizes(c, o) : Max(Sizes(c, o)) >= y
  BY <1>4 DEF Max
<1> QED BY <1>1, <1>2, <1>3, <1>5

----------------------------------------------------------------------------
(* What edit replaces.                                                     *)

\* What stands for the k-th character.
PartAt(c, o, w, Q, k) ==
  IF k \in Q THEN w
  ELSE IF \E q \in Q : q < k /\ k < q + Len(o) THEN <<>>
  ELSE <<c[k]>>

PartsOf(c, o, w, Q) == [k \in DOMAIN c |-> PartAt(c, o, w, Q, k)]

LEMMA ReplacedParts ==
  ASSUME NEW X, NEW c \in Seq(X), NEW o, NEW w \in Seq(X), NEW Q
  PROVE  /\ Replaced(c, o, w, Q) = FlattenSeq(PartsOf(c, o, w, Q))
         /\ PartsOf(c, o, w, Q) \in Seq(Seq(X)) /\ Len(PartsOf(c, o, w, Q)) = Len(c)
         /\ \A k \in 1..Len(c) : PartsOf(c, o, w, Q)[k] = PartAt(c, o, w, Q, k)
<1> DEFINE parts == PartsOf(c, o, w, Q)
<1>1. Replaced(c, o, w, Q) = FlattenSeq(parts)
  BY DEF Replaced, PartsOf, PartAt
<1>2. Len(c) \in Nat /\ DOMAIN c = 1..Len(c) /\ \A k \in 1..Len(c) : c[k] \in X
  OBVIOUS
<1>3. ASSUME NEW k \in 1..Len(c) PROVE PartAt(c, o, w, Q, k) \in Seq(X)
  <2>1. <<c[k]>> \in Seq(X) /\ <<>> \in Seq(X)
    BY <1>2
  <2> QED BY <2>1 DEF PartAt
<1>4. /\ parts \in [1..Len(c) -> Seq(X)]
      /\ \A k \in 1..Len(c) : parts[k] = PartAt(c, o, w, Q, k)
  BY <1>2, <1>3 DEF PartsOf
<1> HIDE DEF parts
<1>5. parts \in Seq(Seq(X)) /\ Len(parts) = Len(c)
  BY <1>2, <1>4
<1> QED BY <1>1, <1>4, <1>5 DEF parts

LEMMA ReplacedLength ==
  ASSUME NEW X, NEW c \in Seq(X), NEW o, Len(o) \in Nat \ {0}, NEW w \in Seq(X),
         NEW Q \in SUBSET PlacesOf(c, o), Apart(Q, Len(o))
  PROVE  /\ Replaced(c, o, w, Q) \in Seq(X)
         /\ Len(Replaced(c, o, w, Q)) = Len(c) + Cardinality(Q) * (Len(w) - Len(o))
<1> DEFINE N == Len(c)
           m == Len(o)
           d == Len(w) - m
           parts == PartsOf(c, o, w, Q)
           C(k) == Cardinality(Q \cap (1..k))
           Grown(k, l) ==
             /\ \A q \in Q : q <= k /\ k < q + m => l = k + C(k) * d + (q + m - 1 - k)
             /\ (\A q \in Q : ~(q <= k /\ k < q + m)) => l = k + C(k) * d
<1>1. /\ N \in Nat /\ m \in Nat \ {0} /\ Len(w) \in Nat /\ d \in Int
      /\ \A q \in Q : q \in 1..N /\ q + m - 1 <= N
  <2>1. N \in Nat /\ m \in Nat \ {0} /\ Len(w) \in Nat
    OBVIOUS
  <2>2. ASSUME NEW q \in Q PROVE q \in 1..N /\ q + m - 1 <= N
    <3>1. q \in DOMAIN c /\ OccursAt(c, o, q)
      BY DEF PlacesOf
    <3> QED BY <3>1 DEF OccursAt
  <2> QED BY <2>1, <2>2
<1>2. \A j, k \in Q : j < k => j + m <= k
  BY DEF Apart
<1>3. /\ parts \in Seq(Seq(X)) /\ Len(parts) = N
      /\ \A k \in 1..N : parts[k] = PartAt(c, o, w, Q, k)
  BY ReplacedParts
<1> HIDE DEF parts
<1>4. PICK g \in [0..N -> Seq(X)] : Joins(g, parts)
  BY <1>3, JoinExists
<1>5. Replaced(c, o, w, Q) = g[N]
  <2>1. Replaced(c, o, w, Q) = FlattenSeq(parts)
    BY ReplacedParts DEF parts
  <2>2. g \in [0..Len(parts) -> Seq(X)]
    BY <1>3, <1>4
  <2>3. FlattenSeq(parts) = g[Len(parts)]
    BY <1>3, <1>4, <2>2, JoinIs
  <2> QED BY <1>3, <2>1, <2>3
<1>6. g[0] = <<>> /\ \A k \in 1..N : g[k] = g[k - 1] \o parts[k]
  BY <1>3, <1>4 DEF Joins
<1>7. \A k \in 1..N : C(k) \in Nat /\ C(k - 1) \in Nat
        /\ C(k) = IF k \in Q THEN C(k - 1) + 1 ELSE C(k - 1)
  <2> SUFFICES ASSUME NEW k \in 1..N
               PROVE  C(k) \in Nat /\ C(k - 1) \in Nat
                      /\ C(k) = IF k \in Q THEN C(k - 1) + 1 ELSE C(k - 1)
    OBVIOUS
  <2>1. k \in Nat \ {0} /\ (k - 1 = 0 \/ k - 1 \in Nat \ {0})
    BY <1>1
  <2>2. C(k) \in Nat /\ C(k) = IF k \in Q THEN C(k - 1) + 1 ELSE C(k - 1)
    BY <2>1, CountNext
  <2>3. C(k - 1) \in Nat
    <3>1. \A n \in Nat \ {0} : C(n) \in Nat
      BY CountNext
    <3>2. C(0) = 0
      BY CountNone
    <3> HIDE DEF C
    <3> QED BY <2>1, <3>1, <3>2
  <2> QED BY <2>2, <2>3
<1>8. C(0) = 0
  BY CountNone
<1> HIDE DEF C, d, m
<1> DEFINE Good == {k \in 0..N : Grown(k, Len(g[k]))}
<1>9. 0 \in Good
  <2>1. Len(g[0]) = 0 /\ 0 \in 0..N
    BY <1>1, <1>6
  <2>2. \A q \in Q : ~(q <= 0)
    BY <1>1
  <2>3. 0 + 0 * d = 0
    BY <1>1
  <2> QED BY <1>8, <2>1, <2>2, <2>3
<1>10. ASSUME NEW k \in 1..N, k - 1 \in Good PROVE k \in Good
  <2> DEFINE l == Len(g[k - 1])
             x == C(k - 1) * d
  <2>1. k \in Nat /\ k > 0 /\ k \in 0..N /\ k - 1 \in 0..N
    BY <1>1
  <2>2. g[k - 1] \in Seq(X) /\ g[k] \in Seq(X) /\ parts[k] \in Seq(X)
    <3>1. g[k - 1] \in Seq(X) /\ g[k] \in Seq(X)
      BY <1>4, <2>1
    <3>2. k \in 1..Len(parts)
      BY <1>3
    <3>3. parts[k] \in Seq(X)
      BY <1>3, <3>2
    <3> QED BY <3>1, <3>3
  <2>3. l \in Nat /\ Len(g[k]) = l + Len(parts[k])
    <3>1. l \in Nat
      BY <2>2
    <3>2. Len(g[k - 1] \o parts[k]) = l + Len(parts[k])
      BY <2>2, TwoJoined
    <3>3. g[k] = g[k - 1] \o parts[k]
      BY <1>6
    <3> QED BY <3>1, <3>2, <3>3
  <2>4. x \in Int /\ C(k) * d = IF k \in Q THEN x + d ELSE x
    <3>1. C(k - 1) \in Int /\ C(k) = IF k \in Q THEN C(k - 1) + 1 ELSE C(k - 1)
      BY <1>7
    <3>2. \A a \in Int, b \in Int : a * b \in Int /\ (a + 1) * b = a * b + b
      OBVIOUS
    <3> QED BY <1>1, <3>1, <3>2
  <2>5. /\ \A q \in Q : q <= k - 1 /\ k - 1 < q + m => l = (k - 1) + x + (q + m - 1 - (k - 1))
        /\ (\A q \in Q : ~(q <= k - 1 /\ k - 1 < q + m)) => l = (k - 1) + x
    BY <1>10
  <2> HIDE DEF l, x
  \* Where no place goes on, nothing is outstanding.
  <2>6. ASSUME \A q \in Q : q < k => q + m <= k PROVE l = (k - 1) + x
    <3>1. CASE \A q \in Q : ~(q <= k - 1 /\ k - 1 < q + m)
      BY <2>5, <3>1
    <3>2. ASSUME NEW q \in Q, q <= k - 1, k - 1 < q + m PROVE l = (k - 1) + x
      <4>1. l = (k - 1) + x + (q + m - 1 - (k - 1)) /\ q \in Nat
        BY <1>1, <2>5, <3>2
      <4>2. q + m - 1 - (k - 1) = 0
        BY <1>1, <2>1, <2>6, <3>2, <4>1
      <4> QED BY <2>1, <2>4, <4>1, <4>2
    <3> QED BY <3>1, <3>2
  <2>7. \A q \in Q : q \in Nat
    BY <1>1
  <2>8. CASE k \in Q
    <3>1. parts[k] = w
      BY <1>3, <2>8 DEF PartAt
    <3>2. l = (k - 1) + x
      BY <1>2, <2>6, <2>8
    <3>3. ASSUME NEW q \in Q, q <= k, k < q + m PROVE q = k
      BY <1>1, <1>2, <2>1, <2>7, <2>8, <3>3
    <3>4. Len(g[k]) = k + (x + d) + (k + m - 1 - k)
      BY <1>1, <2>1, <2>3, <2>4, <3>1, <3>2 DEF d
    <3>5. k <= k /\ k < k + m
      BY <1>1, <2>1
    <3>6. Grown(k, Len(g[k]))
      BY <2>4, <2>8, <3>3, <3>4, <3>5
    <3> QED BY <2>1, <3>6
  <2>9. CASE k \notin Q /\ \E q \in Q : q < k /\ k < q + m
    <3>1. parts[k] = <<>>
      BY <1>3, <2>9 DEF PartAt, m
    <3>2. Len(g[k]) = l
      BY <2>3, <3>1
    <3>3. ASSUME NEW q \in Q, q <= k, k < q + m PROVE l = k + x + (q + m - 1 - k)
      <4>1. q <= k - 1 /\ k - 1 < q + m
        BY <1>1, <2>1, <2>7, <2>9, <3>3
      <4>2. l = (k - 1) + x + (q + m - 1 - (k - 1))
        BY <2>5, <4>1
      <4> QED BY <1>1, <2>1, <2>4, <2>7, <4>2
    <3>4. \E q \in Q : q <= k /\ k < q + m
      BY <2>1, <2>7, <2>9
    <3>5. Grown(k, Len(g[k]))
      BY <2>4, <2>9, <3>2, <3>3, <3>4
    <3> QED BY <2>1, <3>5
  <2>10. CASE k \notin Q /\ ~\E q \in Q : q < k /\ k < q + m
    <3>1. parts[k] = <<c[k]>>
      BY <1>3, <2>10 DEF PartAt, m
    <3>2. Len(g[k]) = l + 1
      BY <2>3, <3>1
    <3>3. \A q \in Q : q < k => q + m <= k
      BY <1>1, <2>1, <2>7, <2>10
    <3>4. l = (k - 1) + x
      BY <2>6, <3>3
    <3>5. Len(g[k]) = k + x
      BY <2>1, <2>4, <3>2, <3>4
    <3>6. \A q \in Q : ~(q <= k /\ k < q + m)
      BY <2>1, <2>7, <2>10
    <3>7. Grown(k, Len(g[k]))
      BY <2>4, <2>10, <3>5, <3>6
    <3> QED BY <2>1, <3>7
  <2> QED BY <2>8, <2>9, <2>10
<1> HIDE DEF Good
<1>11. \A k \in 0..N : k \in Good
  BY <1>1, <1>9, <1>10, Climb
<1>12. Grown(N, Len(g[N]))
  BY <1>1, <1>11 DEF Good
<1>13. C(N) = Cardinality(Q)
  <2>1. Q \cap (1..N) = Q
    BY <1>1
  <2> QED BY <2>1 DEF C
<1>14. Len(g[N]) = N + C(N) * d
  <2>1. CASE \A q \in Q : ~(q <= N /\ N < q + m)
    BY <1>12, <2>1
  <2>2. ASSUME NEW q \in Q, q <= N, N < q + m PROVE Len(g[N]) = N + C(N) * d
    <3>1. Len(g[N]) = N + C(N) * d + (q + m - 1 - N)
      BY <1>12, <2>2
    <3>2. q + m - 1 - N = 0
      <4>1. q \in Nat /\ q + m - 1 <= N
        BY <1>1
      <4>2. N \in Nat /\ m \in Nat /\ N < q + m
        BY <1>1, <2>2
      <4> HIDE DEF N
      <4> QED BY <4>1, <4>2
    <3>3. C(N) * d \in Int
      <4>1. C(N) \in Int
        <5>1. N \in 1..N
          BY <1>1
        <5> QED BY <1>7, <5>1
      <4>2. \A a \in Int, b \in Int : a * b \in Int
        OBVIOUS
      <4> QED BY <1>1, <4>1, <4>2
    <3> HIDE DEF Grown
    <3> QED BY <1>1, <3>1, <3>2, <3>3
  <2> QED BY <2>1, <2>2
<1>15. g[N] \in Seq(X)
  BY <1>1, <1>4
<1> QED BY <1>5, <1>13, <1>14, <1>15 DEF d, m

\* One place is replaced, and all else is as it was.
LEMMA OneReplaced ==
  ASSUME NEW X, NEW c \in Seq(X), NEW o, Len(o) \in Nat \ {0}, NEW w \in Seq(X),
         NEW p \in PlacesOf(c, o)
  PROVE  Replaced(c, o, w, {p}) =
           SubSeq(c, 1, p - 1) \o w \o SubSeq(c, p + Len(o), Len(c))
<1> DEFINE N == Len(c)
           m == Len(o)
           parts == PartsOf(c, o, w, {p})
           head == SubSeq(c, 1, p - 1)
           tail(k) == SubSeq(c, p + m, k)
           hw == head \o w
           Shape(k) == IF k < p THEN SubSeq(c, 1, k)
                       ELSE IF k < p + m THEN hw ELSE hw \o tail(k)
<1>1. N \in Nat /\ m \in Nat \ {0} /\ p \in 1..N /\ p + m - 1 <= N
  <2>1. p \in DOMAIN c /\ OccursAt(c, o, p)
    BY DEF PlacesOf
  <2> QED BY <2>1 DEF OccursAt
<1>2. /\ parts \in Seq(Seq(X)) /\ Len(parts) = N
      /\ \A k \in 1..N : parts[k] = PartAt(c, o, w, {p}, k)
  BY ReplacedParts
<1>16. \A k \in 1..N : parts[k] = IF k = p THEN w
                                  ELSE IF p < k /\ k < p + m THEN <<>> ELSE <<c[k]>>
  <2> HIDE DEF parts
  <2> QED BY <1>2 DEF PartAt
<1>3. Replaced(c, o, w, {p}) = FlattenSeq(parts)
  BY ReplacedParts
<1> HIDE DEF parts
<1>4. PICK g \in [0..N -> Seq(X)] : Joins(g, parts)
  BY <1>2, JoinExists
<1>5. Replaced(c, o, w, {p}) = g[N]
  <2>1. g \in [0..Len(parts) -> Seq(X)]
    BY <1>2, <1>4
  <2>2. FlattenSeq(parts) = g[Len(parts)]
    BY <1>2, <1>4, <2>1, JoinIs
  <2> QED BY <1>2, <1>3, <2>2
<1>6. g[0] = <<>> /\ \A k \in 1..N : g[k] = g[k - 1] \o parts[k]
  BY <1>2, <1>4 DEF Joins
<1>7. head \in Seq(X) /\ hw \in Seq(X)
  <2>1. head \in Seq(X)
    BY <1>1
  <2> HIDE DEF head
  <2> QED BY <2>1, TwoJoined
<1>8. \A k \in 0..N : tail(k) \in Seq(X)
  BY <1>1
<1>9. \A k \in (p + m)..N : tail(k) = tail(k - 1) \o <<c[k]>>
  <2> SUFFICES ASSUME NEW k \in (p + m)..N PROVE tail(k) = tail(k - 1) \o <<c[k]>>
    OBVIOUS
  <2>1. k \in 1..Len(c) /\ p + m \in 1..k
    BY <1>1
  <2> QED BY <2>1, SliceNext
<1>10. tail(p + m - 1) = <<>>
  <2>1. SubSeq(c, p + m, p + m - 1) = <<>>
    BY <1>1
  <2> QED BY <2>1
<1> DEFINE Good == {k \in 0..N : g[k] = Shape(k)}
<1>11. 0 \in Good
  <2>1. 0 < p /\ 0 \in 0..N
    BY <1>1
  <2>2. SubSeq(c, 1, 0) = <<>>
    OBVIOUS
  <2> QED BY <1>6, <2>1, <2>2
<1> HIDE DEF hw, tail, m, head
<1>12. ASSUME NEW k \in 1..N, k - 1 \in Good PROVE k \in Good
  <2>1. k \in 0..N /\ k - 1 \in 0..N /\ k \in Nat /\ p \in Nat /\ c[k] \in X
    BY <1>1
  <2>2. g[k] = Shape(k - 1) \o parts[k]
    BY <1>6, <1>12
  <2>3. CASE k < p
    <3>1. parts[k] = <<c[k]>>
      <4>1. k # p /\ ~(p < k)
        BY <2>1, <2>3
      <4>2. parts[k] = IF k = p THEN w
                       ELSE IF p < k /\ k < p + m THEN <<>> ELSE <<c[k]>>
        BY <1>16
      <4> QED BY <4>1, <4>2
    <3>2. SubSeq(c, 1, k) = SubSeq(c, 1, k - 1) \o <<c[k]>>
      <4>1. 1 \in 1..k
        BY <2>1
      <4> QED BY <4>1, SliceNext
    <3>3. Shape(k - 1) = SubSeq(c, 1, k - 1) /\ Shape(k) = SubSeq(c, 1, k)
      BY <2>1, <2>3
    <3> HIDE DEF Shape
    <3>4. g[k] = Shape(k)
      BY <2>2, <3>1, <3>2, <3>3
    <3> QED BY <2>1, <3>4
  <2>4. CASE k = p
    <3>1. parts[k] = w
      BY <1>16, <2>4
    <3>2. Shape(k - 1) = head /\ Shape(k) = hw
      <4>1. k - 1 < p /\ ~(k < p) /\ k < p + m
        BY <1>1, <2>1, <2>4
      <4>2. head = SubSeq(c, 1, k - 1)
        BY <2>4 DEF head
      <4> QED BY <4>1, <4>2
    <3> HIDE DEF Shape
    <3>3. g[k] = Shape(k)
      BY <2>2, <3>1, <3>2 DEF hw
    <3> QED BY <2>1, <3>3
  <2>5. CASE p < k /\ k < p + m
    <3>1. parts[k] = <<>>
      <4>1. k # p
        BY <2>1, <2>5
      <4>2. parts[k] = IF k = p THEN w
                       ELSE IF p < k /\ k < p + m THEN <<>> ELSE <<c[k]>>
        BY <1>16
      <4> QED BY <2>5, <4>1, <4>2
    <3>2. Shape(k - 1) = hw /\ Shape(k) = hw
      BY <1>1, <2>1, <2>5
    <3>3. hw \o <<>> = hw
      BY <1>7, JoinedNone
    <3> HIDE DEF Shape
    <3>4. g[k] = Shape(k)
      BY <2>2, <3>1, <3>2, <3>3
    <3> QED BY <2>1, <3>4
  <2>6. CASE p + m <= k
    <3>1. parts[k] = <<c[k]>>
      <4>1. k # p /\ ~(k < p + m)
        BY <1>1, <2>1, <2>6
      <4> QED BY <1>16, <4>1
    <3>2. Shape(k) = hw \o tail(k)
      BY <1>1, <2>1, <2>6
    <3>3. Shape(k - 1) = hw \o tail(k - 1)
      <4>1. CASE k = p + m
        <5>1. Shape(k - 1) = hw
          BY <1>1, <2>1, <4>1
        <5>2. hw \o <<>> = hw
          BY <1>7, JoinedNone
        <5>3. k - 1 = p + m - 1
          BY <1>1, <2>1, <4>1
        <5>4. tail(k - 1) = <<>>
          BY <1>10, <5>3
        <5> QED BY <5>1, <5>2, <5>4
      <4>2. CASE k # p + m
        BY <1>1, <2>1, <2>6, <4>2
      <4> QED BY <4>1, <4>2
    <3>4. tail(k) = tail(k - 1) \o <<c[k]>> /\ tail(k - 1) \in Seq(X)
      <4>1. k \in (p + m)..N
        BY <1>1, <2>1, <2>6
      <4> QED BY <1>8, <1>9, <2>1, <4>1
    <3>5. <<c[k]>> \in Seq(X)
      BY <2>1
    <3>6. (hw \o tail(k - 1)) \o <<c[k]>> = hw \o (tail(k - 1) \o <<c[k]>>)
      <4>1. hw \in Seq(X) /\ tail(k - 1) \in Seq(X)
        BY <1>7, <3>4
      <4> DEFINE t == tail(k - 1)
                 e == <<c[k]>>
      <4>2. t \in Seq(X) /\ e \in Seq(X)
        BY <3>5, <4>1
      <4> HIDE DEF t, e
      <4>3. Regroups(hw, t, e)
        BY <4>1, <4>2, JoinedAlong
      <4> QED BY <4>3 DEF Regroups, t, e
    <3> HIDE DEF Shape
    <3>7. g[k] = Shape(k)
      BY <2>2, <3>1, <3>2, <3>3, <3>4, <3>6
    <3> QED BY <2>1, <3>7
  <2> QED BY <1>1, <2>1, <2>3, <2>4, <2>5, <2>6
<1> HIDE DEF Good
<1>13. \A k \in 0..N : k \in Good
  BY <1>1, <1>11, <1>12, Climb
<1>14. g[N] = Shape(N)
  BY <1>1, <1>13 DEF Good
<1>15. Shape(N) = hw \o tail(N)
  <2>1. CASE N < p + m
    <3>1. N = p + m - 1 /\ ~(N < p)
      <4>1. N \in Nat /\ m \in Nat \ {0} /\ p \in Nat /\ p + m - 1 <= N
        BY <1>1
      <4> HIDE DEF N
      <4> QED BY <2>1, <4>1
    <3>2. hw \o <<>> = hw
      BY <1>7, JoinedNone
    <3>3. tail(N) = <<>>
      <4> HIDE DEF N
      <4> QED BY <1>10, <3>1
    <3> HIDE DEF N
    <3> QED BY <2>1, <3>1, <3>2, <3>3
  <2>2. CASE ~(N < p + m)
    <3>1. ~(N < p)
      BY <1>1, <2>2
    <3> QED BY <2>2, <3>1
  <2> QED BY <2>1, <2>2
<1> QED BY <1>5, <1>14, <1>15 DEF hw, head, tail, m

----------------------------------------------------------------------------
(* What write and edit say.                                                *)

\* What a summary r of a write says of a file and what was written to it.
Tells(r, f, new) ==
  /\ r.kind \in {"created", "unchanged", "changed"} /\ r.count \in Nat
  /\ r.removed \in Seq(Seq(Char)) /\ r.added \in Seq(Seq(Char))
  /\ r.kind = "created" <=> ~f.exists
  /\ r.kind = "created" => r.count = Cardinality(Ends(new))
  /\ r.kind = "unchanged" <=> f = Stored(new)
  /\ r.kind = "changed" => DiffersBy(SplitLines(f.content), SplitLines(new), r.removed, r.added)

LEMMA WriteSays ==
  ASSUME NEW f \in [exists : BOOLEAN, content : Seq(Char)],
         NEW new \in Seq(Char), EndsOnce(new)
  PROVE  Tells(SummarizeWrite(f, new), f, new)
<1> DEFINE o == SplitLines(f.content)
           n == SplitLines(new)
           r == SummarizeWrite(f, new)
<1>1. f.exists \in BOOLEAN /\ f.content \in Seq(Char)
  OBVIOUS
<1>2. o \in Seq(Seq(Char)) /\ n \in Seq(Seq(Char))
  BY <1>1, LinesTyped
<1>3. Len(n) = Cardinality(Ends(new)) /\ Len(n) \in Nat
  <2>1. new # <<>> /\ Last(new) = NL
    BY DEF EndsOnce
  <2>2. Len(n) = Cardinality(Ends(new))
    BY <2>1, LinesCounted
  <2> HIDE DEF n
  <2> QED BY <1>2, <2>2
<1>4. <<>> \in Seq(Seq(Char))
  OBVIOUS
<1> HIDE DEF o, n
<1>5. PICK p \in Nat, s \in Nat :
        p = CommonPrefix(o, n) /\ s = CommonSuffix(o, n, p) /\ Shares(o, n, p, s)
  BY <1>2, CommonEnds
<1> DEFINE removed == SubSeq(o, p + 1, Len(o) - s)
           added == SubSeq(n, p + 1, Len(n) - s)
           changed == Summary("changed", 0, removed, added)
<1>6. /\ removed \in Seq(Seq(Char)) /\ added \in Seq(Seq(Char))
      /\ DiffersBy(o, n, removed, added)
  BY <1>2, <1>5, DifferenceExplains
<1>7. r = IF ~f.exists THEN Summary("created", Len(n), <<>>, <<>>)
          ELSE IF f.content = new THEN Summary("unchanged", 0, <<>>, <<>>)
          ELSE changed
  BY <1>5 DEF SummarizeWrite, o, n
<1> HIDE DEF removed, added
<1>8. f = Stored(new) <=> f.exists /\ f.content = new
  BY DEF Stored
<1> HIDE DEF r
<1>9. CASE ~f.exists
  <2>1. /\ r.kind = "created" /\ r.count = Len(n)
        /\ r.removed = <<>> /\ r.added = <<>>
    BY <1>7, <1>9 DEF Summary
  <2> QED BY <1>3, <1>4, <1>8, <1>9, <2>1 DEF Tells, r
<1>10. CASE f.exists /\ f.content = new
  <2>1. /\ r.kind = "unchanged" /\ r.count = 0
        /\ r.removed = <<>> /\ r.added = <<>>
    BY <1>7, <1>10 DEF Summary
  <2> QED BY <1>4, <1>8, <1>10, <2>1 DEF Tells, r
<1>11. CASE f.exists /\ f.content # new
  <2>1. /\ r.kind = "changed" /\ r.count = 0
        /\ r.removed = removed /\ r.added = added
    BY <1>7, <1>11 DEF Summary
  <2>2. DiffersBy(o, n, r.removed, r.added)
    BY <1>6, <2>1
  <2> QED BY <1>6, <1>8, <1>11, <2>1, <2>2 DEF Tells, r, o, n
<1> QED BY <1>9, <1>10, <1>11

\* What edit made of a content by replacing old with new at t.
Edited(c, o, w, t, made) ==
  /\ Len(t) = Max(Sizes(c, o))
  /\ Len(made) = Len(c) + Len(t) * (Len(w) - Len(o))
  /\ Len(t) = 1 =>
       \E k \in PlacesOf(c, o) :
         made = SubSeq(c, 1, k - 1) \o w \o SubSeq(c, k + Len(o), Len(c))

LEMMA EditSays ==
  ASSUME NEW c \in Seq(Char), NEW o \in Seq(Char), NEW w \in Seq(Char), o # <<>>
  PROVE  LET t == Occurrences(c, o)
             made == Replaced(c, o, w, Range(t))
         IN  t \in Seq(Nat) /\ made \in Seq(Char) /\ Edited(c, o, w, t, made)
<1> DEFINE t == Occurrences(c, o)
           R == Range(t)
           made == Replaced(c, o, w, R)
<1>1. Len(o) \in Nat \ {0}
  OBVIOUS
<1>2. t \in Seq(Nat) /\ Chosen(c, o, t, Len(c))
  BY FoundChosen
<1> HIDE DEF t
<1>3. R \in SUBSET PlacesOf(c, o) /\ Apart(R, Len(o)) /\ Cardinality(R) = Len(t)
  BY <1>1, <1>2, ChosenApart
<1>4. Len(t) = Max(Sizes(c, o))
  BY <1>1, <1>2, MostFound
<1> HIDE DEF R
<1>5. made \in Seq(Char) /\ Len(made) = Len(c) + Len(t) * (Len(w) - Len(o))
  <2>1. made \in Seq(Char) /\ Len(made) = Len(c) + Cardinality(R) * (Len(w) - Len(o))
    <3>1. R \in SUBSET PlacesOf(c, o) /\ Apart(R, Len(o))
      BY <1>3
    <3> HIDE DEF made
    <3> QED BY <1>1, <3>1, ReplacedLength DEF made
  <2> HIDE DEF made
  <2> QED BY <1>3, <2>1
<1>6. ASSUME Len(t) = 1
      PROVE  \E k \in PlacesOf(c, o) :
               made = SubSeq(c, 1, k - 1) \o w \o SubSeq(c, k + Len(o), Len(c))
  <2>1. R = {t[1]}
    BY <1>2, <1>6 DEF R, Range
  <2>2. t[1] \in PlacesOf(c, o)
    BY <1>3, <2>1
  <2>3. Replaced(c, o, w, {t[1]}) =
          SubSeq(c, 1, t[1] - 1) \o w \o SubSeq(c, t[1] + Len(o), Len(c))
    BY <1>1, <2>2, OneReplaced
  <2> QED BY <2>1, <2>2, <2>3
<1> HIDE DEF made
<1>7. Edited(c, o, w, t, made)
  BY <1>4, <1>5, <1>6 DEF Edited
<1> QED BY <1>2, <1>5, <1>7 DEF t, made, R

----------------------------------------------------------------------------
(* A change of a file.                                                     *)

\* ChangeExplained of a file d that was b, the arguments a and the summary r.
Explanation(d, b, a, r) ==
  /\ r.kind \in {"created", "unchanged", "changed"} =>
       /\ EndsOnce(d.content)
       /\ r.kind = "created" <=> ~b.exists
       /\ r.kind = "created" => r.count = Cardinality(Ends(d.content))
       /\ r.kind = "unchanged" <=> d = b
       /\ r.kind = "changed" =>
            DiffersBy(SplitLines(b.content), SplitLines(d.content), r.removed, r.added)
  /\ r.kind = "edited" =>
       /\ r.count > 1 => a.all
       /\ r.count = Max(Sizes(b.content, a.old))
       /\ Len(d.content) = Len(b.content) + r.count * (Len(a.new) - Len(a.old))
       /\ r.count = 1 =>
            \E k \in PlacesOf(b.content, a.old) :
              d.content = SubSeq(b.content, 1, k - 1) \o a.new
                            \o SubSeq(b.content, k + Len(a.old), Len(b.content))

LEMMA ExplanationIs == ChangeExplained <=> Explanation(disk, before, asked, summary)
BY DEF ChangeExplained, Explanation, Explains, DiffersBy, Sizes, PlacesOf, Apart

LEMMA ExplanationNext ==
  ChangeExplained' <=> Explanation(disk', before', asked', summary')
BY DEF ChangeExplained, Explanation, Explains, DiffersBy, Sizes, PlacesOf, Apart

\* Until it has returned, a tool has changed nothing.
Untouched == summary = Nothing => disk = before

WriteInv == WriteTypeOK /\ Untouched /\ ChangeExplained

LEMMA AskedIs ==
  ASSUME asked \in Asked
  PROVE  /\ Writing => asked.content \in Seq(Char)
         /\ ~Writing => asked.old \in Seq(Char) /\ asked.new \in Seq(Char) /\ asked.all \in BOOLEAN
<1>1. CASE asked \in [content : Seq(Char)]
  <2>1. Writing
    BY <1>1 DEF Writing
  <2> QED BY <1>1, <2>1
<1>2. CASE asked \in [old : Seq(Char), new : Seq(Char), all : BOOLEAN]
  <2>1. DOMAIN asked = {"old", "new", "all"}
    BY <1>2
  <2>2. ~Writing
    BY <2>1 DEF Writing
  <2> QED BY <1>2, <2>2
<1> QED BY <1>1, <1>2 DEF Asked

LEMMA NothingSaid ==
  /\ Nothing.kind = "none" /\ Nothing.count = 0
  /\ Nothing.removed = <<>> /\ Nothing.added = <<>>
  /\ Error.kind = "error" /\ Error.count = 0 /\ Error.removed = <<>> /\ Error.added = <<>>
  /\ <<>> \in Seq(Seq(Char))
BY DEF Nothing, Error, Summary

LEMMA InitWritten == Init => WriteInv
<1> SUFFICES ASSUME Init PROVE WriteInv
  OBVIOUS
<1>1. /\ before \in {Absent} \cup {Stored(c) : c \in Contents}
      /\ asked \in [content : Contents] \cup [old : OldStrings, new : NewStrings, all : BOOLEAN]
      /\ disk = before /\ summary = Nothing
  BY DEF Init, WriteInit
<1>2. /\ Contents \subseteq Seq(Char)
      /\ OldStrings \subseteq Seq(Char) /\ NewStrings \subseteq Seq(Char)
  BY ContentsAssumption
<1>3. asked \in Asked
  BY <1>1, <1>2 DEF Asked
<1>4. before \in [exists : BOOLEAN, content : Seq(Char)]
  <2>1. Absent \in [exists : BOOLEAN, content : Seq(Char)]
    <3>1. <<>> \in Seq(Char)
      OBVIOUS
    <3> QED BY <3>1 DEF Absent
  <2>2. ASSUME NEW c \in Contents PROVE Stored(c) \in [exists : BOOLEAN, content : Seq(Char)]
    BY <1>2 DEF Stored
  <2> QED BY <1>1, <2>1, <2>2
<1>5. WriteTypeOK
  BY <1>1, <1>3, <1>4, NothingSaid DEF WriteTypeOK
<1>6. ChangeExplained
  <2>1. Explanation(disk, before, asked, summary)
    BY <1>1, NothingSaid DEF Explanation
  <2> QED BY <2>1, ExplanationIs
<1> QED BY <1>1, <1>5, <1>6 DEF WriteInv, Untouched

\* What a failed store leaves behind has its type.
LEMMA StoreFails ==
  ASSUME WriteTypeOK, NEW content \in Seq(Char),
         disk' \in {disk} \cup {Stored(SubSeq(content, 1, k)) : k \in 0..(Len(content) - 1)},
         summary' = Error, UNCHANGED <<before, asked>>
  PROVE  WriteInv'
<1>1. disk' \in [exists : BOOLEAN, content : Seq(Char)]
  <2>1. ASSUME NEW k \in 0..(Len(content) - 1)
        PROVE  Stored(SubSeq(content, 1, k)) \in [exists : BOOLEAN, content : Seq(Char)]
    <3>1. SubSeq(content, 1, k) \in Seq(Char)
      OBVIOUS
    <3> QED BY <3>1 DEF Stored
  <2> QED BY <2>1 DEF WriteTypeOK
<1>2. WriteTypeOK'
  BY <1>1, NothingSaid DEF WriteTypeOK
<1>3. Explanation(disk', before', asked', summary')
  BY NothingSaid DEF Explanation
<1>4. ChangeExplained'
  BY <1>3, ExplanationNext
<1>5. summary' # Nothing
  BY NothingSaid
<1> QED BY <1>2, <1>4, <1>5 DEF WriteInv, Untouched

LEMMA WriteKeeps ==
  ASSUME WriteInv, Write
  PROVE  WriteInv'
<1> DEFINE new == Normalized(asked.content)
           r == SummarizeWrite(disk, new)
<1>1. /\ summary = Nothing /\ Writing /\ Store(new, r) /\ UNCHANGED <<before, asked>>
  BY DEF Write
<1>2. /\ WriteTypeOK /\ disk = before /\ disk \in [exists : BOOLEAN, content : Seq(Char)]
      /\ asked.content \in Seq(Char) /\ asked \in Asked
  BY <1>1, AskedIs DEF WriteInv, WriteTypeOK, Untouched
<1>3. new \in Seq(Char) /\ EndsOnce(new)
  BY <1>2, NormalizedEnds
<1> HIDE DEF new
<1>4. Tells(r, disk, new)
  BY <1>2, <1>3, WriteSays
<1> HIDE DEF r
<1>5. CASE disk' = Stored(new) /\ summary' = r
  <2>1. Stored(new) \in [exists : BOOLEAN, content : Seq(Char)] /\ Stored(new).content = new
    BY <1>3 DEF Stored
  <2>2. WriteTypeOK'
    <3>1. summary'.kind \in {"created", "unchanged", "changed"} /\ summary'.count \in Nat
          /\ summary'.removed \in Seq(Seq(Char)) /\ summary'.added \in Seq(Seq(Char))
      BY <1>4, <1>5 DEF Tells
    <3> QED BY <1>1, <1>2, <1>5, <2>1, <3>1 DEF WriteTypeOK
  <2>3. Explanation(Stored(new), disk, asked, r)
    BY <1>3, <1>4, <2>1 DEF Explanation, Tells
  <2>4. ChangeExplained'
    BY <1>1, <1>2, <1>5, <2>3, ExplanationNext
  <2>5. summary' # Nothing
    BY <1>4, <1>5, NothingSaid DEF Tells
  <2> QED BY <2>2, <2>4, <2>5 DEF WriteInv, Untouched
<1>6. CASE /\ disk' \in {disk} \cup {Stored(SubSeq(new, 1, k)) : k \in 0..(Len(new) - 1)}
           /\ summary' = Error
  BY <1>1, <1>2, <1>3, <1>6, StoreFails
<1> QED BY <1>1, <1>5, <1>6 DEF Store

LEMMA EditKeeps ==
  ASSUME WriteInv, Edit
  PROVE  WriteInv'
<1> DEFINE c == disk.content
           found == Occurrences(c, asked.old)
           made == Replaced(c, asked.old, asked.new, Range(found))
           r == Summary("edited", Len(found), <<>>, <<>>)
<1>1. /\ summary = Nothing /\ ~Writing /\ UNCHANGED <<before, asked>>
      /\ IF Refused(Len(found)) THEN summary' = Error /\ UNCHANGED disk ELSE Store(made, r)
  BY DEF Edit
<1>2. /\ WriteTypeOK /\ disk = before /\ disk \in [exists : BOOLEAN, content : Seq(Char)]
      /\ c \in Seq(Char) /\ asked \in Asked
      /\ asked.old \in Seq(Char) /\ asked.new \in Seq(Char) /\ asked.all \in BOOLEAN
  BY <1>1, AskedIs DEF WriteInv, WriteTypeOK, Untouched
<1>3. CASE Refused(Len(found))
  <2>1. disk' \in {disk} \cup {Stored(SubSeq(<<>>, 1, k)) : k \in 0..(Len(<<>>) - 1)}
        /\ summary' = Error
    BY <1>1, <1>3
  <2>2. <<>> \in Seq(Char)
    OBVIOUS
  <2> QED BY <1>1, <1>2, <2>1, <2>2, StoreFails
<1>4. CASE ~Refused(Len(found))
  <2>1. asked.old # <<>> /\ (Len(found) > 1 => asked.all)
    BY <1>4 DEF Refused
  <2>2. found \in Seq(Nat) /\ made \in Seq(Char) /\ Edited(c, asked.old, asked.new, found, made)
    BY <1>2, <2>1, EditSays
  <2>3. Store(made, r)
    BY <1>1, <1>4
  <2> HIDE DEF found, made
  <2>4. Len(found) \in Nat /\ r.kind = "edited" /\ r.count = Len(found)
        /\ r.removed = <<>> /\ r.added = <<>>
    BY <2>2 DEF Summary
  <2> HIDE DEF r
  <2>5. CASE disk' = Stored(made) /\ summary' = r
    <3>1. Stored(made) \in [exists : BOOLEAN, content : Seq(Char)] /\ Stored(made).content = made
      BY <2>2 DEF Stored
    <3>2. WriteTypeOK'
      BY <1>1, <1>2, <2>4, <2>5, <3>1, NothingSaid DEF WriteTypeOK
    <3>3. Explanation(Stored(made), disk, asked, r)
      BY <2>1, <2>2, <2>4, <3>1 DEF Explanation, Edited
    <3>4. ChangeExplained'
      BY <1>1, <1>2, <2>5, <3>3, ExplanationNext
    <3>5. summary' # Nothing
      BY <2>4, <2>5, NothingSaid
    <3> QED BY <3>2, <3>4, <3>5 DEF WriteInv, Untouched
  <2>6. CASE /\ disk' \in {disk} \cup {Stored(SubSeq(made, 1, k)) : k \in 0..(Len(made) - 1)}
             /\ summary' = Error
    BY <1>1, <1>2, <2>2, <2>6, StoreFails
  <2> QED BY <2>3, <2>5, <2>6 DEF Store
<1> QED BY <1>3, <1>4

LEMMA NextWritten == WriteInv /\ [Next]_vars => WriteInv'
<1> SUFFICES ASSUME WriteInv, [Next]_vars PROVE WriteInv'
  OBVIOUS
<1>1. CASE Write
  BY <1>1, WriteKeeps
<1>2. CASE Edit
  BY <1>2, EditKeeps
<1>3. CASE UNCHANGED writeVars
  <2>1. /\ disk' = disk /\ before' = before /\ asked' = asked /\ summary' = summary
    BY <1>3 DEF writeVars
  <2>2. ChangeExplained'
    <3>1. Explanation(disk, before, asked, summary)
      BY ExplanationIs DEF WriteInv
    <3> QED BY <2>1, <3>1, ExplanationNext
  <2> QED BY <2>1, <2>2 DEF WriteInv, WriteTypeOK, Untouched
<1> QED BY <1>1, <1>2, <1>3 DEF Next, OfCommand, Reading, Changing, Returned, WriteNext, vars

LEMMA WriteHeld == Spec => []WriteInv
BY InitWritten, NextWritten, PTL DEF Spec

\* For every content, every file and every argument of write and edit: the
\* summary of a change that succeeded tells all of it.
THEOREM ChangeAlwaysExplained == Spec => []ChangeExplained
<1>1. WriteInv => ChangeExplained
  BY DEF WriteInv
<1> QED BY <1>1, WriteHeld, PTL

\* Every variable of a call keeps its type, whatever is called.
THEOREM ToolsTyped == Spec => []TypeOK
<1> DEFINE Serving == serving \in {"command", "read", "change"}
<1>1. Init => Serving
  BY DEF Init
<1>2. Serving /\ [Next]_vars => Serving'
  BY DEF Next, OfCommand, Reading, Changing, Returned, vars
<1>3. Spec => []Serving
  BY <1>1, <1>2, PTL DEF Spec
<1>4. CommandInv /\ ReadInv /\ WriteInv /\ Serving => TypeOK
  BY DEF TypeOK, CommandInv, ReadInv, WriteInv
<1> QED BY <1>3, <1>4, CommandHeld, ReadHeld, WriteHeld, PTL

=============================================================================
