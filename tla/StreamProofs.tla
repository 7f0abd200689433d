---------------------------- MODULE StreamProofs ----------------------------
(***************************************************************************)
(* What holds of a parsed stream, for every stream of fragments.           *)
(***************************************************************************)
EXTENDS StreamParser, StepLemmas

----------------------------------------------------------------------------
(* Tool calls.                                                             *)

Values == STRING \cup {""}

Call == [id : Values, name : Values, type : Values, args : Seq(STRING)]

ShownCall == [id : Values, name : Values, args : Seq(STRING)]

\* Maps from indexes of calls.
Indexed(V) == UNION {[D -> V] : D \in SUBSET Int}

CallStates == [acc : Indexed(Call), order : Seq(Int), shown : Indexed(ShownCall)]

LEMMA IndexedFacts ==
  ASSUME NEW V
  PROVE  /\ \A f : f \in Indexed(V) <=> \E D \in SUBSET Int : f \in [D -> V]
         /\ <<>> \in Indexed(V)
<1>1. \A f : f \in Indexed(V) <=> \E D \in SUBSET Int : f \in [D -> V]
  BY DEF Indexed
<1>2. <<>> \in [{} -> V]
  OBVIOUS
<1> QED BY <1>1, <1>2

LEMMA IndexedWith ==
  ASSUME NEW V, NEW f \in Indexed(V), NEW i \in Int, NEW v \in V
  PROVE  /\ With(f, i, v) \in Indexed(V)
         /\ DOMAIN With(f, i, v) = DOMAIN f \cup {i}
         /\ With(f, i, v)[i] = v
         /\ \A j \in DOMAIN f : j # i => With(f, i, v)[j] = f[j]
         /\ DOMAIN f \subseteq Int /\ \A j \in DOMAIN f : f[j] \in V
<1>1. PICK D \in SUBSET Int : f \in [D -> V]
  BY IndexedFacts
<1>2. DOMAIN f = D /\ \A j \in D : f[j] \in V
  BY <1>1
<1> DEFINE g == With(f, i, v)
<1>3. g = [j \in D \cup {i} |-> IF j = i THEN v ELSE f[j]]
  BY <1>2 DEF With
<1>4. D \cup {i} \in SUBSET Int /\ g \in [D \cup {i} -> V]
  BY <1>1, <1>2, <1>3
<1>5. g \in Indexed(V)
  BY <1>4, IndexedFacts
<1>6. DOMAIN g = DOMAIN f \cup {i} /\ g[i] = v
  BY <1>2, <1>3
<1>7. \A j \in DOMAIN f : j # i => g[j] = f[j]
  <2>1. \A j \in D : j \in D \cup {i}
    OBVIOUS
  <2> QED BY <1>2, <1>3, <2>1
<1> HIDE DEF g
<1>8. DOMAIN f \subseteq Int /\ \A j \in DOMAIN f : f[j] \in V
  BY <1>1, <1>2
<1> QED BY <1>5, <1>6, <1>7, <1>8 DEF g

\* What a fragment makes of its call.
LEMMA MergedTypes ==
  ASSUME NEW cur \in Call, NEW f \in Fragment
  PROVE  /\ Merged(cur, f) \in Call
         /\ Merged(cur, f).id = Latest(f.id, cur.id)
         /\ Merged(cur, f).name = Latest(f.name, cur.name)
         /\ Merged(cur, f).args = cur.args \o f.args
<1>1. /\ cur.id \in Values /\ cur.name \in Values /\ cur.type \in Values
      /\ cur.args \in Seq(STRING)
  BY DEF Call
<1>2. f.id \in Values /\ f.name \in Values /\ f.type \in Values /\ f.args \in Seq(STRING)
  BY DEF Fragment, Values
<1>3. /\ Latest(f.id, cur.id) \in Values /\ Latest(f.name, cur.name) \in Values
      /\ Latest(f.type, cur.type) \in Values
  BY <1>1, <1>2 DEF Latest
<1>4. cur.args \o f.args \in Seq(STRING)
  BY <1>1, <1>2
<1>5. Merged(cur, f) = [id |-> Latest(f.id, cur.id), name |-> Latest(f.name, cur.name),
                        type |-> Latest(f.type, cur.type), args |-> cur.args \o f.args]
  BY DEF Merged
<1>6. Merged(cur, f) \in Call
  BY <1>3, <1>4, <1>5 DEF Call
<1> DEFINE m == Merged(cur, f)
           a == cur.args \o f.args
<1>7. m.id = Latest(f.id, cur.id) /\ m.name = Latest(f.name, cur.name)
  BY ONLY <1>5
<1>8. m.args = a
  <2> HIDE DEF a
  <2>1. m = [id |-> Latest(f.id, cur.id), name |-> Latest(f.name, cur.name),
             type |-> Latest(f.type, cur.type), args |-> a]
    BY <1>5 DEF a
  <2> HIDE DEF m
  <2> QED BY ONLY <2>1
<1> QED BY <1>6, <1>7, <1>8

LEMMA BlankTypes == /\ Blank \in Call /\ Blank.id = "" /\ Blank.name = "" /\ Blank.args = <<>>
<1>1. "" \in Values /\ <<>> \in Seq(STRING)
  BY DEF Values
<1> QED BY <1>1 DEF Blank, Call

\* What a fragment makes of the calls.
LEMMA TakeEffect ==
  ASSUME NEW s \in CallStates, NEW f \in Fragment
  PROVE  LET cur == At(s.acc, f.index, Blank)
             new == Merged(cur, f)
             t   == TakeCall(s, f)
         IN  /\ t \in CallStates /\ f.index \in Int
             /\ cur \in Call
             /\ t.acc = With(s.acc, f.index, new)
             /\ t.order = IF f.index \in DOMAIN s.acc THEN s.order ELSE Append(s.order, f.index)
             /\ t.shown = IF Changed(cur, f) THEN Show(s.shown, f.index, new, f.args)
                                             ELSE s.shown
<1> DEFINE cur == At(s.acc, f.index, Blank)
           new == Merged(cur, f)
           t   == TakeCall(s, f)
<1>1. /\ s.acc \in Indexed(Call) /\ s.order \in Seq(Int) /\ s.shown \in Indexed(ShownCall)
  BY DEF CallStates
<1>2. f.index \in Int /\ f.args \in Seq(STRING)
  BY DEF Fragment
<1>3. cur \in Call
  <2>1. \A j \in DOMAIN s.acc : s.acc[j] \in Call
    BY <1>1, <1>2, BlankTypes, IndexedWith
  <2> QED BY <2>1, BlankTypes DEF At
<1> HIDE DEF cur
<1>4. new \in Call
  BY <1>3, MergedTypes
<1> HIDE DEF new
<1>5. t = [acc |-> With(s.acc, f.index, new),
           order |-> IF f.index \in DOMAIN s.acc THEN s.order ELSE Append(s.order, f.index),
           shown |-> IF Changed(cur, f) THEN Show(s.shown, f.index, new, f.args) ELSE s.shown]
  BY DEF TakeCall, cur, new
<1>6. With(s.acc, f.index, new) \in Indexed(Call)
  BY <1>1, <1>2, <1>4, IndexedWith
<1>7. Append(s.order, f.index) \in Seq(Int)
  BY <1>1, <1>2
<1>8. Show(s.shown, f.index, new, f.args) \in Indexed(ShownCall)
  <2>1. At(s.shown, f.index, Blank).args \in Seq(STRING)
    <3>1. CASE f.index \in DOMAIN s.shown
      <4>1. PICK D \in SUBSET Int : s.shown \in [D -> ShownCall]
        BY <1>1, IndexedFacts
      <4>2. s.shown[f.index] \in ShownCall
        BY <3>1, <4>1
      <4> QED BY <3>1, <4>2 DEF At, ShownCall
    <3>2. CASE f.index \notin DOMAIN s.shown
      <4>1. At(s.shown, f.index, Blank).args = <<>>
        BY <3>2, BlankTypes DEF At
      <4>2. <<>> \in Seq(STRING)
        OBVIOUS
      <4> QED BY <4>1, <4>2
    <3> QED BY <3>1, <3>2
  <2> DEFINE v == [id |-> new.id, name |-> new.name,
                   args |-> At(s.shown, f.index, Blank).args \o f.args]
  <2>2. v \in ShownCall
    <3>1. new.id \in Values /\ new.name \in Values
      BY <1>4 DEF Call
    <3>2. At(s.shown, f.index, Blank).args \o f.args \in Seq(STRING)
      BY <1>2, <2>1
    <3> QED BY <3>1, <3>2 DEF ShownCall
  <2>3. Show(s.shown, f.index, new, f.args) = With(s.shown, f.index, v)
    BY DEF Show
  <2> HIDE DEF v
  <2>4. With(s.shown, f.index, v) \in Indexed(ShownCall)
    BY <1>1, <1>2, <2>2, IndexedWith
  <2> QED BY <2>3, <2>4
<1>9. t \in CallStates
  <2>1. t.acc \in Indexed(Call)
    BY <1>5, <1>6
  <2>2. t.order \in Seq(Int)
    BY <1>1, <1>5, <1>7
  <2>3. t.shown \in Indexed(ShownCall)
    BY <1>1, <1>5, <1>8
  <2> QED BY <1>5, <2>1, <2>2, <2>3 DEF CallStates
<1>10. /\ t.acc = With(s.acc, f.index, new)
       /\ t.order = IF f.index \in DOMAIN s.acc THEN s.order ELSE Append(s.order, f.index)
       /\ t.shown = IF Changed(cur, f) THEN Show(s.shown, f.index, new, f.args) ELSE s.shown
  BY <1>5
<1> QED BY <1>2, <1>3, <1>9, <1>10 DEF cur, new

\* The calls that the fragments all have made, read off the fragments.
Of(all, i) == {k \in DOMAIN all : all[k].index = i}

Args(all, i) ==
  FlattenSeq([k \in DOMAIN all |-> IF k \in Of(all, i) THEN all[k].args ELSE <<>>])

\* The last of some values that says anything.
Recent(v, S) ==
  LET given == {k \in S : v[k] # ""}
  IN  IF given = {} THEN "" ELSE v[Max(given)]

Ids(all) == [k \in DOMAIN all |-> all[k].id]

Names(all) == [k \in DOMAIN all |-> all[k].name]

GoesOn(w, v, n) == \A k \in 1..n : w[k] = v[k]

\* A later value that says something is the last one.
LEMMA RecentGrows ==
  ASSUME NEW n \in Nat, NEW S \in SUBSET (1..n), NEW v, NEW w, GoesOn(w, v, n)
  PROVE  /\ Recent(w, S) = Recent(v, S)
         /\ Recent(w, S \cup {n + 1}) = Latest(w[n + 1], Recent(v, S))
<1> DEFINE given == {k \in S : v[k] # ""}
           more == {k \in S \cup {n + 1} : w[k] # ""}
<1>0. \A k \in 1..n : w[k] = v[k]
  BY DEF GoesOn
<1>1. given = {k \in S : w[k] # ""}
  BY <1>0
<1>2. given # {} => Max(given) \in given
  BY GreatestOf
<1>3. Recent(v, S) = IF given = {} THEN "" ELSE v[Max(given)]
  BY DEF Recent
<1>4. Recent(w, S) = IF given = {} THEN "" ELSE w[Max(given)]
  BY <1>1 DEF Recent
<1>5. Recent(w, S) = Recent(v, S)
  BY <1>0, <1>2, <1>3, <1>4
<1>6. Recent(w, S \cup {n + 1}) = IF more = {} THEN "" ELSE w[Max(more)]
  BY DEF Recent
<1>7. CASE w[n + 1] = ""
  <2>1. more = given
    BY <1>1, <1>7
  <2> QED BY <1>4, <1>5, <1>6, <1>7, <2>1 DEF Latest
<1>8. CASE w[n + 1] # ""
  <2>1. n + 1 \in more
    BY <1>8
  <2>2. \A k \in more : k \in 1..n \/ k = n + 1
    OBVIOUS
  <2> HIDE DEF more
  <2>3. \A k \in more : k \in 1..(n + 1)
    BY <2>2
  <2>4. more \in SUBSET (1..(n + 1)) /\ n + 1 \in Nat /\ more # {}
    BY <2>1, <2>3
  <2>5. Max(more) \in more /\ Max(more) >= n + 1
    BY <2>1, <2>4, GreatestOf
  <2>6. Max(more) = n + 1
    BY <2>3, <2>5
  <2>7. Recent(w, S \cup {n + 1}) = w[n + 1]
    BY <1>6, <2>4, <2>6
  <2>8. Latest(w[n + 1], Recent(v, S)) = w[n + 1]
    BY <1>8 DEF Latest
  <2> QED BY <1>5, <2>7, <2>8
<1> QED BY <1>5, <1>7, <1>8

LEMMA OfGrows ==
  ASSUME NEW all \in Seq(Fragment), NEW f \in Fragment, NEW i
  PROVE  /\ Of(all, i) \in SUBSET (1..Len(all)) /\ Len(all) \in Nat
         /\ f.index = i => Of(Append(all, f), i) = Of(all, i) \cup {Len(all) + 1}
         /\ f.index # i => Of(Append(all, f), i) = Of(all, i)
<1>1. /\ Len(all) \in Nat /\ DOMAIN all = 1..Len(all)
      /\ DOMAIN Append(all, f) = 1..(Len(all) + 1)
      /\ Append(all, f)[Len(all) + 1] = f
      /\ \A k \in 1..Len(all) : Append(all, f)[k] = all[k]
  OBVIOUS
<1>2. \A k : k \in Of(Append(all, f), i) <=>
               \/ k \in Of(all, i)
               \/ k = Len(all) + 1 /\ f.index = i
  BY <1>1 DEF Of
<1>3. Of(all, i) \in SUBSET (1..Len(all))
  BY <1>1 DEF Of
<1> QED BY <1>1, <1>2, <1>3

LEMMA ArgsGrow ==
  ASSUME NEW all \in Seq(Fragment), NEW f \in Fragment, NEW i
  PROVE  /\ Args(all, i) \in Seq(STRING)
         /\ f.index = i => Args(Append(all, f), i) = Args(all, i) \o f.args
         /\ f.index # i => Args(Append(all, f), i) = Args(all, i)
<1> DEFINE bll == Append(all, f)
           n == Len(all)
           ss == [k \in DOMAIN all |-> IF k \in Of(all, i) THEN all[k].args ELSE <<>>]
           tt == [k \in DOMAIN bll |-> IF k \in Of(bll, i) THEN bll[k].args ELSE <<>>]
           t == IF f.index = i THEN f.args ELSE <<>>
<1>1. /\ n \in Nat /\ DOMAIN all = 1..n /\ DOMAIN bll = 1..(n + 1)
      /\ bll[n + 1] = f /\ \A k \in 1..n : bll[k] = all[k]
  OBVIOUS
<1>2. f.args \in Seq(STRING) /\ <<>> \in Seq(STRING)
  BY DEF Fragment
<1>3. ss \in Seq(Seq(STRING)) /\ Len(ss) = n
  <2>1. ASSUME NEW k \in 1..n
        PROVE  (IF k \in Of(all, i) THEN all[k].args ELSE <<>>) \in Seq(STRING)
    <3>1. all[k] \in Fragment
      BY <1>1
    <3> QED BY <1>2, <3>1 DEF Fragment
  <2>2. ss \in [1..n -> Seq(STRING)]
    BY <1>1, <2>1
  <2> QED BY <1>1, <2>2
<1>4. t \in Seq(STRING)
  BY <1>2
<1>5. tt = Append(ss, t)
  <2>1. \A k \in 1..n : k \in Of(bll, i) <=> k \in Of(all, i)
    BY <1>1 DEF Of
  <2>2. n + 1 \in Of(bll, i) <=> f.index = i
    BY <1>1 DEF Of
  <2>3. \A k \in 1..n : tt[k] = ss[k]
    BY <1>1, <2>1
  <2>4. tt[n + 1] = t
    BY <1>1, <2>2
  <2>5. tt \in [1..(n + 1) -> Seq(STRING)]
    <3>1. \A k \in 1..n : ss[k] \in Seq(STRING)
      <4> HIDE DEF ss
      <4> QED BY <1>3
    <3>2. \A k \in 1..(n + 1) : k \in 1..n \/ k = n + 1
      BY <1>1
    <3>3. \A k \in 1..(n + 1) : tt[k] \in Seq(STRING)
      BY <1>4, <2>3, <2>4, <3>1, <3>2
    <3>4. tt = [k \in 1..(n + 1) |-> tt[k]]
      BY <1>1
    <3> HIDE DEF tt
    <3> QED BY <3>3, <3>4
  <2> HIDE DEF tt, ss, t
  <2>6. /\ Append(ss, t) \in [1..(n + 1) -> Seq(STRING)]
        /\ Append(ss, t)[n + 1] = t /\ \A k \in 1..n : Append(ss, t)[k] = ss[k]
    <3> DEFINE aa == Append(ss, t)
    <3>1. aa \in Seq(Seq(STRING)) /\ Len(aa) = n + 1
      BY <1>1, <1>3, <1>4
    <3>2. aa[n + 1] = t /\ \A k \in 1..n : aa[k] = ss[k]
      BY <1>1, <1>3, <1>4
    <3> HIDE DEF aa, n
    <3>3. aa \in [1..(n + 1) -> Seq(STRING)]
      BY <1>1, <3>1
    <3> QED BY <3>2, <3>3 DEF aa
  <2>7. \A k \in 1..(n + 1) : tt[k] = Append(ss, t)[k]
    BY <1>1, <2>3, <2>4, <2>6
  <2> QED BY <2>5, <2>6, <2>7
<1>6. FlattenSeq(ss) \in Seq(STRING) /\ FlattenSeq(Append(ss, t)) = FlattenSeq(ss) \o t
  <2> HIDE DEF ss, t
  <2> QED BY <1>3, <1>4, FlattenAppend
<1>7. Args(all, i) = FlattenSeq(ss) /\ Args(bll, i) = FlattenSeq(tt)
  BY DEF Args
<1> HIDE DEF ss, tt
<1>8. f.index # i => FlattenSeq(ss) \o t = FlattenSeq(ss)
  <2>1. f.index # i => t = <<>>
    OBVIOUS
  <2> HIDE DEF t
  <2> QED BY <1>6, <2>1
<1>9. f.index = i => t = f.args
  OBVIOUS
<1> HIDE DEF t, bll
<1>10. Args(bll, i) = Args(all, i) \o t
  BY <1>5, <1>6, <1>7
<1> QED BY <1>6, <1>7, <1>8, <1>9, <1>10 DEF bll

LEMMA GivenGrows ==
  ASSUME NEW all \in Seq(Fragment), NEW f \in Fragment, NEW i
  PROVE  LET bll == Append(all, f)
         IN  /\ Recent(Ids(bll), Of(bll, i))
                  = IF f.index = i THEN Latest(f.id, Recent(Ids(all), Of(all, i)))
                    ELSE Recent(Ids(all), Of(all, i))
             /\ Recent(Names(bll), Of(bll, i))
                  = IF f.index = i THEN Latest(f.name, Recent(Names(all), Of(all, i)))
                    ELSE Recent(Names(all), Of(all, i))
<1> DEFINE bll == Append(all, f)
           n == Len(all)
<1>1. /\ n \in Nat /\ DOMAIN all = 1..n /\ DOMAIN bll = 1..(n + 1)
      /\ bll[n + 1] = f /\ \A k \in 1..n : bll[k] = all[k]
  OBVIOUS
<1>2. Ids(bll)[n + 1] = f.id /\ GoesOn(Ids(bll), Ids(all), n)
  BY <1>1 DEF Ids, GoesOn
<1>2a. Names(bll)[n + 1] = f.name /\ GoesOn(Names(bll), Names(all), n)
  BY <1>1 DEF Names, GoesOn
<1>3. /\ Of(all, i) \in SUBSET (1..n)
      /\ f.index = i => Of(bll, i) = Of(all, i) \cup {n + 1}
      /\ f.index # i => Of(bll, i) = Of(all, i)
  BY OfGrows
<1> HIDE DEF bll, n
<1>4. /\ Recent(Ids(bll), Of(all, i)) = Recent(Ids(all), Of(all, i))
      /\ Recent(Ids(bll), Of(all, i) \cup {n + 1})
           = Latest(Ids(bll)[n + 1], Recent(Ids(all), Of(all, i)))
  BY <1>1, <1>2, <1>3, RecentGrows
<1>5. /\ Recent(Names(bll), Of(all, i)) = Recent(Names(all), Of(all, i))
      /\ Recent(Names(bll), Of(all, i) \cup {n + 1})
           = Latest(Names(bll)[n + 1], Recent(Names(all), Of(all, i)))
  <2> DEFINE v == Names(all)
             w == Names(bll)
             S == Of(all, i)
  <2>1. n \in Nat /\ S \in SUBSET (1..n) /\ GoesOn(w, v, n)
    BY <1>1, <1>2a, <1>3
  <2> HIDE DEF v, w, S
  <2>2. /\ Recent(w, S) = Recent(v, S)
        /\ Recent(w, S \cup {n + 1}) = Latest(w[n + 1], Recent(v, S))
    BY <2>1, RecentGrows
  <2> QED BY <2>2 DEF v, w, S
<1>6. /\ Recent(Ids(bll), Of(bll, i))
           = IF f.index = i THEN Latest(f.id, Recent(Ids(all), Of(all, i)))
             ELSE Recent(Ids(all), Of(all, i))
      /\ Recent(Names(bll), Of(bll, i))
           = IF f.index = i THEN Latest(f.name, Recent(Names(all), Of(all, i)))
             ELSE Recent(Names(all), Of(all, i))
  BY <1>2, <1>3, <1>4, <1>5, <1>2a
<1> QED BY <1>6 DEF bll

\* What is accumulated of each call is what its fragments say.
Holds(all, s) ==
  \A i \in Int :
    LET call == At(s.acc, i, Blank)
    IN  /\ call.args = Args(all, i)
        /\ call.id = Recent(Ids(all), Of(all, i))
        /\ call.name = Recent(Names(all), Of(all, i))

\* What the caller shows of each call is what is accumulated.
Follows(s) ==
  \A i \in Int :
    LET call == At(s.acc, i, Blank)
        seen == At(s.shown, i, Blank)
    IN  seen.id = call.id /\ seen.name = call.name /\ seen.args = call.args

\* The calls are listed in the order their indexes appeared.
Listed(all, s) ==
  /\ \A i : i \in DOMAIN s.acc <=> \E k \in DOMAIN all : all[k].index = i
  /\ \A i : i \in DOMAIN s.acc <=> \E j \in DOMAIN s.order : s.order[j] = i
  /\ \A j, k \in DOMAIN s.order : s.order[j] = s.order[k] => j = k
  /\ \A j, k \in DOMAIN s.order : j < k =>
       \E n \in DOMAIN all :
         /\ all[n].index = s.order[j]
         /\ \A m \in 1..n : all[m].index # s.order[k]

Assembled(all, s) == s \in CallStates /\ Holds(all, s) /\ Follows(s) /\ Listed(all, s)

LEMMA AtWith ==
  ASSUME NEW V, NEW f \in Indexed(V), NEW i \in Int, NEW v \in V, NEW j
  PROVE  At(With(f, i, v), j, Blank) = IF j = i THEN v ELSE At(f, j, Blank)
<1> DEFINE g == With(f, i, v)
<1>0. g = [k \in DOMAIN f \cup {i} |-> IF k = i THEN v ELSE f[k]]
  BY DEF With
<1>1. DOMAIN With(f, i, v) = DOMAIN f \cup {i} /\ With(f, i, v)[i] = v
  BY <1>0
<1>2. \A k \in DOMAIN f : k # i => With(f, i, v)[k] = f[k]
  BY <1>0
<1> HIDE DEF g
<1>3. DOMAIN g = DOMAIN f \cup {i} /\ g[i] = v /\ \A k \in DOMAIN f : k # i => g[k] = f[k]
  BY <1>1, <1>2 DEF g
<1>4. At(g, j, Blank) = IF j = i THEN v ELSE At(f, j, Blank)
  BY <1>3, Zenon DEF At
<1> QED BY <1>4 DEF g

LEMMA HoldsStill ==
  ASSUME NEW all \in Seq(Fragment), NEW s \in CallStates, Holds(all, s), NEW f \in Fragment
  PROVE  Holds(Append(all, f), TakeCall(s, f))
<1> DEFINE bll == Append(all, f)
           t   == TakeCall(s, f)
           cur == At(s.acc, f.index, Blank)
           new == Merged(cur, f)
<1>1. f.index \in Int /\ cur \in Call /\ t.acc = With(s.acc, f.index, new)
  BY TakeEffect
<1>2. /\ new \in Call /\ new.id = Latest(f.id, cur.id) /\ new.name = Latest(f.name, cur.name)
      /\ new.args = cur.args \o f.args
  <2> HIDE DEF cur
  <2> QED BY <1>1, MergedTypes
<1>3. s.acc \in Indexed(Call)
  BY DEF CallStates
<1> SUFFICES ASSUME NEW i \in Int
             PROVE  /\ At(t.acc, i, Blank).args = Args(bll, i)
                    /\ At(t.acc, i, Blank).id = Recent(Ids(bll), Of(bll, i))
                    /\ At(t.acc, i, Blank).name = Recent(Names(bll), Of(bll, i))
  BY DEF Holds
<1>4. /\ At(s.acc, i, Blank).args = Args(all, i)
      /\ At(s.acc, i, Blank).id = Recent(Ids(all), Of(all, i))
      /\ At(s.acc, i, Blank).name = Recent(Names(all), Of(all, i))
  BY DEF Holds
<1>5. /\ f.index = i => Args(bll, i) = Args(all, i) \o f.args
      /\ f.index # i => Args(bll, i) = Args(all, i)
  BY ArgsGrow
<1>6. /\ Recent(Ids(bll), Of(bll, i))
           = IF f.index = i THEN Latest(f.id, Recent(Ids(all), Of(all, i)))
             ELSE Recent(Ids(all), Of(all, i))
      /\ Recent(Names(bll), Of(bll, i))
           = IF f.index = i THEN Latest(f.name, Recent(Names(all), Of(all, i)))
             ELSE Recent(Names(all), Of(all, i))
  BY GivenGrows
<1> HIDE DEF t, bll, new
<1>7. At(t.acc, i, Blank) = IF i = f.index THEN new ELSE At(s.acc, i, Blank)
  <2>1. At(With(s.acc, f.index, new), i, Blank)
          = IF i = f.index THEN new ELSE At(s.acc, i, Blank)
    BY <1>1, <1>2, <1>3, AtWith
  <2> QED BY <1>1, <2>1
<1>8. CASE i = f.index
  <2>1. At(t.acc, i, Blank) = new /\ cur = At(s.acc, i, Blank)
    BY <1>7, <1>8
  <2> HIDE DEF cur
  <2> QED BY <1>2, <1>4, <1>5, <1>6, <1>8, <2>1
<1>9. CASE i # f.index
  <2>1. At(t.acc, i, Blank) = At(s.acc, i, Blank)
    BY <1>7, <1>9
  <2> QED BY <1>4, <1>5, <1>6, <1>9, <2>1
<1> QED BY <1>8, <1>9

LEMMA FollowsStill ==
  ASSUME NEW s \in CallStates, Follows(s), NEW f \in Fragment
  PROVE  Follows(TakeCall(s, f))
<1> DEFINE t   == TakeCall(s, f)
           cur == At(s.acc, f.index, Blank)
           old == At(s.shown, f.index, Blank)
           new == Merged(cur, f)
           v   == [id |-> new.id, name |-> new.name, args |-> old.args \o f.args]
<1>1. /\ f.index \in Int /\ cur \in Call /\ t.acc = With(s.acc, f.index, new)
      /\ t.shown = IF Changed(cur, f) THEN Show(s.shown, f.index, new, f.args) ELSE s.shown
  BY TakeEffect
<1>2. /\ new \in Call /\ new.id = Latest(f.id, cur.id) /\ new.name = Latest(f.name, cur.name)
      /\ new.args = cur.args \o f.args
  <2> HIDE DEF cur
  <2> QED BY <1>1, MergedTypes
<1>3. s.acc \in Indexed(Call) /\ s.shown \in Indexed(ShownCall)
  BY DEF CallStates
<1>4. old.id = cur.id /\ old.name = cur.name /\ old.args = cur.args
  BY <1>1 DEF Follows
<1>5. f.args \in Seq(STRING) /\ cur.args \in Seq(STRING)
  <2> HIDE DEF cur
  <2> QED BY <1>1 DEF Call, Fragment
<1>6. Show(s.shown, f.index, new, f.args) = With(s.shown, f.index, v)
  BY DEF Show
<1>7. v.id = new.id /\ v.name = new.name /\ v.args = new.args /\ v \in ShownCall
  <2> DEFINE a == old.args \o f.args
  <2>1. a = new.args
    BY <1>2, <1>4
  <2>2. new.id \in Values /\ new.name \in Values /\ new.args \in Seq(STRING)
    <3> HIDE DEF new
    <3> QED BY <1>2 DEF Call
  <2>3. v = [id |-> new.id, name |-> new.name, args |-> new.args]
    BY <2>1
  <2> HIDE DEF v, new
  <2> QED BY <2>2, <2>3 DEF ShownCall
<1> HIDE DEF v
<1>8. /\ At(With(s.acc, f.index, new), f.index, Blank) = new
      /\ \A i \in Int : i # f.index =>
           At(With(s.acc, f.index, new), i, Blank) = At(s.acc, i, Blank)
  <2> HIDE DEF new
  <2> QED BY <1>1, <1>2, <1>3, AtWith
<1>9. /\ At(With(s.shown, f.index, v), f.index, Blank) = v
      /\ \A i \in Int : i # f.index =>
           At(With(s.shown, f.index, v), i, Blank) = At(s.shown, i, Blank)
  BY <1>1, <1>3, <1>7, AtWith
<1>10. ~Changed(cur, f) => new.id = cur.id /\ new.name = cur.name /\ new.args = cur.args
  <2> SUFFICES ASSUME ~Changed(cur, f)
               PROVE  new.id = cur.id /\ new.name = cur.name /\ new.args = cur.args
    OBVIOUS
  <2>1. f.args = <<>> /\ f.id \in {"", cur.id} /\ f.name \in {"", cur.name}
    BY DEF Changed
  <2>2. cur.args \o f.args = cur.args
    <3> DEFINE a == cur.args
    <3>1. a \in Seq(STRING)
      BY <1>5
    <3> HIDE DEF a
    <3>2. a \o <<>> = a
      BY <3>1
    <3> QED BY <2>1, <3>2 DEF a
  <2>3. Latest(f.id, cur.id) = cur.id /\ Latest(f.name, cur.name) = cur.name
    BY <2>1 DEF Latest
  <2> HIDE DEF cur, new
  <2> QED BY <1>2, <2>2, <2>3
<1> SUFFICES ASSUME NEW i \in Int
             PROVE  /\ At(t.shown, i, Blank).id = At(t.acc, i, Blank).id
                    /\ At(t.shown, i, Blank).name = At(t.acc, i, Blank).name
                    /\ At(t.shown, i, Blank).args = At(t.acc, i, Blank).args
  BY DEF Follows
<1>11. /\ At(s.shown, i, Blank).id = At(s.acc, i, Blank).id
       /\ At(s.shown, i, Blank).name = At(s.acc, i, Blank).name
       /\ At(s.shown, i, Blank).args = At(s.acc, i, Blank).args
  BY DEF Follows
<1> HIDE DEF t, new
<1>12. CASE i = f.index /\ Changed(cur, f)
  BY <1>1, <1>6, <1>7, <1>8, <1>9, <1>12
<1>13. CASE i = f.index /\ ~Changed(cur, f)
  <2>1. t.shown = s.shown /\ At(t.acc, i, Blank) = new
    BY <1>1, <1>8, <1>13
  <2> QED BY <1>4, <1>10, <1>13, <2>1
<1>14. CASE i # f.index
  <2>1. At(t.acc, i, Blank) = At(s.acc, i, Blank)
    BY <1>1, <1>8, <1>14
  <2>2. At(t.shown, i, Blank) = At(s.shown, i, Blank)
    BY <1>1, <1>6, <1>9, <1>14
  <2> QED BY <1>11, <2>1, <2>2
<1> QED BY <1>12, <1>13, <1>14

LEMMA ListedStill ==
  ASSUME NEW all \in Seq(Fragment), NEW s \in CallStates, Listed(all, s), NEW f \in Fragment
  PROVE  Listed(Append(all, f), TakeCall(s, f))
<1> DEFINE bll == Append(all, f)
           n   == Len(all)
           t   == TakeCall(s, f)
           new == Merged(At(s.acc, f.index, Blank), f)
<1>1. /\ f.index \in Int /\ t.acc = With(s.acc, f.index, new)
      /\ t.order = IF f.index \in DOMAIN s.acc THEN s.order ELSE Append(s.order, f.index)
      /\ new \in Call
  BY TakeEffect, MergedTypes
<1>2. s.acc \in Indexed(Call) /\ s.order \in Seq(Int)
  BY DEF CallStates
<1>3. /\ n \in Nat /\ DOMAIN all = 1..n /\ DOMAIN bll = 1..(n + 1)
      /\ bll[n + 1] = f /\ \A k \in 1..n : bll[k] = all[k]
  OBVIOUS
<1> HIDE DEF t, new, bll, n
<1>4. DOMAIN t.acc = DOMAIN s.acc \cup {f.index}
  <2>1. DOMAIN With(s.acc, f.index, new) = DOMAIN s.acc \cup {f.index}
    BY DEF With
  <2> QED BY <1>1, <2>1
<1>5. /\ \A i : i \in DOMAIN s.acc <=> \E k \in 1..n : all[k].index = i
      /\ \A i : i \in DOMAIN s.acc <=> \E j \in DOMAIN s.order : s.order[j] = i
      /\ \A j, k \in DOMAIN s.order : s.order[j] = s.order[k] => j = k
      /\ \A j, k \in DOMAIN s.order : j < k =>
           \E x \in 1..n :
             /\ all[x].index = s.order[j]
             /\ \A m \in 1..x : all[m].index # s.order[k]
  BY <1>3 DEF Listed
<1>6. \A i : i \in DOMAIN t.acc <=> \E k \in DOMAIN bll : bll[k].index = i
  <2>1. \A i : (\E k \in 1..(n + 1) : bll[k].index = i)
                 <=> f.index = i \/ \E k \in 1..n : all[k].index = i
    BY <1>3
  <2> QED BY <1>3, <1>4, <1>5, <2>1
<1>7. \A i : \A x \in 1..n : all[x].index = i /\ (\A m \in 1..x : all[m].index # f.index)
        => bll[x].index = i /\ (\A m \in 1..x : bll[m].index # f.index)
  BY <1>3
<1>8. CASE f.index \in DOMAIN s.acc
  <2>1. t.order = s.order /\ DOMAIN t.acc = DOMAIN s.acc
    BY <1>1, <1>4, <1>8
  <2>2. ASSUME NEW j \in DOMAIN t.order, NEW k \in DOMAIN t.order, j < k
        PROVE  \E x \in DOMAIN bll : /\ bll[x].index = t.order[j]
                                     /\ \A m \in 1..x : bll[m].index # t.order[k]
    <3>1. PICK x \in 1..n : /\ all[x].index = s.order[j]
                            /\ \A m \in 1..x : all[m].index # s.order[k]
      BY <1>5, <2>1, <2>2
    <3>2. \A m \in 1..x : m \in 1..n
      BY <1>3
    <3>3. x \in DOMAIN bll
      BY <1>3
    <3> QED BY <1>3, <2>1, <3>1, <3>2, <3>3
  <2> QED BY <1>5, <1>6, <2>1, <2>2 DEF Listed, bll, t
<1>9. CASE f.index \notin DOMAIN s.acc
  <2> DEFINE q == Len(s.order)
  <2>1. /\ q \in Nat /\ DOMAIN s.order = 1..q /\ DOMAIN t.order = 1..(q + 1)
        /\ t.order[q + 1] = f.index /\ \A j \in 1..q : t.order[j] = s.order[j]
    BY <1>1, <1>2, <1>9
  <2> HIDE DEF q
  <2>2. \A j \in 1..q : s.order[j] # f.index
    BY <1>5, <1>9, <2>1
  <2>3. \A i : i \in DOMAIN t.acc <=> \E j \in DOMAIN t.order : t.order[j] = i
    <3>1. \A i : (\E j \in 1..(q + 1) : t.order[j] = i)
                   <=> f.index = i \/ \E j \in 1..q : s.order[j] = i
      BY <2>1
    <3> QED BY <1>4, <1>5, <2>1, <3>1
  <2>4. \A j \in 1..(q + 1) : j \in 1..q \/ j = q + 1
    BY <2>1
  <2>5. \A j, k \in DOMAIN t.order : t.order[j] = t.order[k] => j = k
    BY <1>5, <2>1, <2>2, <2>4
  <2>6. ASSUME NEW j \in DOMAIN t.order, NEW k \in DOMAIN t.order, j < k
        PROVE  \E x \in DOMAIN bll : /\ bll[x].index = t.order[j]
                                     /\ \A m \in 1..x : bll[m].index # t.order[k]
    <3>1. j \in 1..q
      BY <2>1, <2>6
    <3>2. CASE k \in 1..q
      <4>1. PICK x \in 1..n : /\ all[x].index = s.order[j]
                              /\ \A m \in 1..x : all[m].index # s.order[k]
        BY <1>5, <2>1, <2>6, <3>1, <3>2
      <4>2. \A m \in 1..x : m \in 1..n
        BY <1>3
      <4>3. x \in DOMAIN bll
        BY <1>3
      <4> QED BY <1>3, <2>1, <3>1, <3>2, <4>1, <4>2, <4>3
    <3>3. CASE k = q + 1
      <4>1. PICK x \in 1..n : all[x].index = s.order[j]
        BY <1>5, <2>1, <3>1
      <4>2. \A m \in 1..x : m \in 1..n /\ all[m].index # f.index
        BY <1>3, <1>5, <1>9
      <4>3. x \in DOMAIN bll
        BY <1>3
      <4> QED BY <1>3, <2>1, <3>1, <3>3, <4>1, <4>2, <4>3
    <3> QED BY <2>1, <2>4, <3>2, <3>3
  <2> QED BY <1>6, <2>3, <2>5, <2>6 DEF Listed, bll, t
<1> QED BY <1>8, <1>9

LEMMA AssembledStill ==
  ASSUME NEW all \in Seq(Fragment), NEW s, Assembled(all, s), NEW f \in Fragment
  PROVE  Assembled(Append(all, f), TakeCall(s, f))
<1>1. s \in CallStates /\ Holds(all, s) /\ Follows(s) /\ Listed(all, s)
  BY DEF Assembled
<1>2. TakeCall(s, f) \in CallStates
  BY <1>1, TakeEffect
<1> QED BY <1>1, <1>2, HoldsStill, FollowsStill, ListedStill DEF Assembled

\* So do all fragments of a chunk, one after another.
LEMMA AssembledAfter ==
  ASSUME NEW all \in Seq(Fragment), NEW s, Assembled(all, s), NEW fs \in Seq(Fragment)
  PROVE  Assembled(all \o fs, TakeCalls(s, fs))
<1> DEFINE N == Len(fs)
           step == [n \in 1..N |-> [x \in CallStates |-> TakeCall(x, fs[n])]]
<1>1. N \in Nat /\ s \in CallStates /\ \A n \in 1..N : fs[n] \in Fragment
  BY DEF Assembled
<1>2. \A n \in 1..N, x \in CallStates : TakeCall(x, fs[n]) \in CallStates
  BY <1>1, TakeEffect
<1>3. /\ step \in [1..N -> [CallStates -> CallStates]]
      /\ \A n \in 1..N, x \in CallStates : step[n][x] = TakeCall(x, fs[n])
  BY <1>2
<1> HIDE DEF step
<1>4. PICK f : Passes(f, CallStates, N, s, step)
  BY <1>1, <1>3, Steps
<1>5. /\ f \in [0..N -> CallStates] /\ f[0] = s
      /\ \A n \in 1..N : f[n] = TakeCall(f[n - 1], fs[n])
  <2>1. /\ f \in [0..N -> CallStates] /\ f[0] = s
        /\ \A n \in 1..N : f[n] = step[n][f[n - 1]]
    BY <1>4 DEF Passes
  <2>2. \A n \in 1..N : n - 1 \in 0..N
    BY <1>1
  <2> QED BY <1>3, <2>1, <2>2
<1> DEFINE Is(g) == g = [n \in 0..N |-> IF n = 0 THEN s ELSE TakeCall(g[n - 1], fs[n])]
           h == [n \in 0..N |-> f[n]]
           after == CHOOSE g : Is(g)
<1>6. Is(h)
  <2>1. ASSUME NEW n \in 0..N
        PROVE  f[n] = IF n = 0 THEN s ELSE TakeCall(h[n - 1], fs[n])
    <3>1. n # 0 => n - 1 \in 0..N /\ n \in 1..N
      BY <1>1
    <3> QED BY <1>5, <3>1
  <2> QED BY <2>1
<1> HIDE DEF h
<1>7. Is(after)
  BY <1>6
<1>8. TakeCalls(s, fs) = after[N]
  BY DEF TakeCalls
<1> HIDE DEF after
<1>9. \A n \in 0..N : after[n] = IF n = 0 THEN s ELSE TakeCall(after[n - 1], fs[n])
  BY <1>7
<1> HIDE DEF Is
<1>10. Alike(f, after, N)
  <2>1. 0 \in 0..N /\ \A n \in 1..N : n \in 0..N /\ n # 0
    BY <1>1
  <2>2. f[0] = after[0]
    BY <1>5, <1>9, <2>1
  <2>3. ASSUME NEW n \in 1..N, f[n - 1] = after[n - 1] PROVE f[n] = after[n]
    BY <1>5, <1>9, <2>1, <2>3
  <2> QED BY <2>2, <2>3 DEF Alike
<1>11. TakeCalls(s, fs) = f[N]
  <2>1. \A n \in 0..N : f[n] = after[n]
    BY <1>1, <1>10, SameSteps
  <2>2. N \in 0..N
    BY <1>1
  <2> QED BY <1>8, <2>1, <2>2
<1> DEFINE upTo(n) == all \o SubSeq(fs, 1, n)
           Bad == {n \in 0..N : ~Assembled(upTo(n), f[n])}
<1>12. Bad = {}
  <2> SUFFICES ASSUME Bad # {} PROVE FALSE
    OBVIOUS
  <2>1. Bad \in SUBSET Nat
    OBVIOUS
  <2>2. PICK n \in Bad : \A m \in Bad : n <= m
    BY <2>1, LeastOf
  <2>3. n \in 0..N /\ ~Assembled(upTo(n), f[n])
    BY <2>2
  <2>4. n # 0
    <3>1. upTo(0) = all
      OBVIOUS
    <3> QED BY <1>5, <2>3, <3>1
  <2>5. n \in 1..N /\ n - 1 \in 0..N /\ ~(n <= n - 1)
    BY <1>1, <2>3, <2>4
  <2>6. Assembled(upTo(n - 1), f[n - 1])
    <3>1. n - 1 \notin Bad
      BY <2>2, <2>5
    <3> QED BY <2>5, <3>1
  <2>7. upTo(n - 1) \in Seq(Fragment) /\ upTo(n) = Append(upTo(n - 1), fs[n])
    <3>1. SubSeq(fs, 1, n - 1) \in Seq(Fragment) /\ fs[n] \in Fragment
      BY <1>1, <2>5
    <3>2. SubSeq(fs, 1, n) = Append(SubSeq(fs, 1, n - 1), fs[n])
      BY <1>1, <2>5
    <3> DEFINE p == SubSeq(fs, 1, n - 1)
    <3> HIDE DEF p
    <3>3. all \o p \in Seq(Fragment) /\ all \o Append(p, fs[n]) = Append(all \o p, fs[n])
      BY <3>1 DEF p
    <3> QED BY <3>2, <3>3 DEF p
  <2> HIDE DEF upTo
  <2>8. Assembled(Append(upTo(n - 1), fs[n]), TakeCall(f[n - 1], fs[n]))
    BY <1>1, <2>5, <2>6, <2>7, AssembledStill
  <2> QED BY <1>5, <2>3, <2>5, <2>7, <2>8
<1>13. Assembled(upTo(N), f[N])
  <2>1. N \in 0..N /\ N \notin Bad
    BY <1>1, <1>12
  <2> QED BY <2>1
<1>14. upTo(N) = all \o fs
  OBVIOUS
<1> QED BY <1>11, <1>13, <1>14

----------------------------------------------------------------------------
(* Content in the Harmony format.                                          *)

\* What the end of the arguments of a call is to be.
EndsArgument(c, at, e) ==
  /\ e \in at + 1..Len(c) + 1
  /\ \A i \in Headers(c) : i > at => e <= i
  /\ (\A i \in Headers(c) : i <= at) => \A i \in at + 1..e - 1 : ~IsFraming(c[i])

LEMMA ArgEndIs ==
  ASSUME NEW c \in Seq(Tokens), NEW at \in 1..Len(c)
  PROVE  EndsArgument(c, at, ArgEnd(c, at))
<1> DEFINE N == Len(c)
           later == {i \in Headers(c) : i > at}
           marks == {i \in at + 1..N : IsFraming(c[i])}
           e == ArgEnd(c, at)
<1>1. N \in Nat /\ at \in 1..N /\ DOMAIN c = 1..N /\ Headers(c) \in SUBSET (1..N)
  BY DEF Headers
<1>2. later \in SUBSET Nat /\ marks \in SUBSET Nat
  BY <1>1
<1>3. CASE later # {}
  <2>1. e = Min(later)
    BY <1>3 DEF ArgEnd, FirstOf
  <2>2. Min(later) \in later /\ \A y \in later : Min(later) <= y
    BY <1>2, <1>3, SmallestOf
  <2> HIDE DEF e
  <2>3. e \in at + 1..N + 1
    BY <1>1, <2>1, <2>2
  <2>4. ~\A i \in Headers(c) : i <= at
    BY <1>1, <2>2
  <2> QED BY <2>1, <2>2, <2>3, <2>4 DEF EndsArgument, e
<1>4. CASE later = {}
  <2>1. e = IF marks = {} THEN N + 1 ELSE Min(marks)
    BY <1>4 DEF ArgEnd, FirstOf
  <2>2. marks # {} => Min(marks) \in marks /\ \A y \in marks : Min(marks) <= y
    BY <1>2, SmallestOf
  <2> HIDE DEF e
  <2>3. e \in at + 1..N + 1 /\ \A y \in marks : e <= y
    BY <1>1, <2>1, <2>2
  <2>4. ASSUME NEW i \in at + 1..e - 1 PROVE ~IsFraming(c[i])
    <3>1. i \in at + 1..N /\ ~(e <= i)
      BY <1>1, <2>3
    <3> QED BY <2>3, <3>1
  <2>5. \A i \in Headers(c) : ~(i > at)
    BY <1>4
  <2> QED BY <2>3, <2>4, <2>5 DEF EndsArgument, e
<1> QED BY <1>3, <1>4

Within(c, at) == at + 1..ArgEnd(c, at) - 1

\* The prose in the arguments of the calls up to n.
Spoken(c, n) ==
  {i \in Places(c, "prose") : \E h \in Headers(c) : h <= n /\ i \in Within(c, h)}

LEMMA ArgumentIs ==
  ASSUME NEW c \in Seq(Tokens), NEW at \in 1..Len(c)
  PROVE  /\ Argument(c, at) = SubSeq(c, at + 1, ArgEnd(c, at) - 1)
         /\ Argument(c, at) \in Seq(Tokens)
         /\ ArgEnd(c, at) - 1 \in at..Len(c)
         /\ (\A i \in Headers(c) : i <= at) =>
              \A k \in DOMAIN Argument(c, at) : ~IsFraming(Argument(c, at)[k])
<1> DEFINE N == Len(c)
           e == ArgEnd(c, at)
           b == e - 1
           arg == SubSeq(c, at + 1, b)
<1>1. N \in Nat /\ at \in 1..N
  OBVIOUS
<1>2. EndsArgument(c, at, e)
  BY ArgEndIs
<1> HIDE DEF e
<1>3. e \in at + 1..N + 1 /\ b \in at..N /\ b = e - 1
  BY <1>1, <1>2 DEF EndsArgument
<1> HIDE DEF b
<1>4. Argument(c, at) = arg
  BY DEF Argument, e, b
<1>5. arg \in Seq(Tokens) /\ Len(arg) = b - at /\ \A k \in 1..(b - at) : arg[k] = c[at + k]
  BY <1>1, <1>3
<1> HIDE DEF arg
<1>6. ASSUME \A i \in Headers(c) : i <= at, NEW k \in DOMAIN arg PROVE ~IsFraming(arg[k])
  <2>1. k \in 1..(b - at)
    BY <1>5
  <2>2. at + k \in at + 1..e - 1
    BY <1>1, <1>3, <2>1
  <2> QED BY <1>2, <1>5, <1>6, <2>1, <2>2 DEF EndsArgument
<1> QED BY <1>3, <1>4, <1>5, <1>6 DEF arg, e, b

\* The arguments of one more call say what is in them and nothing said before.
LEMMA SpokenNext ==
  ASSUME NEW c \in Seq(Tokens), NEW n \in 1..Len(c)
  PROVE  /\ n \notin Headers(c) => Spoken(c, n) = Spoken(c, n - 1)
         /\ n \in Headers(c) =>
              Cardinality(Spoken(c, n)) = Cardinality(Spoken(c, n - 1))
                + Cardinality(Places(c, "prose") \cap Within(c, n))
         /\ Cardinality(Spoken(c, n - 1)) \in Nat
<1> DEFINE H == Headers(c)
           A == Spoken(c, n)
           B == Spoken(c, n - 1)
           T == Places(c, "prose") \cap Within(c, n)
<1>1. Len(c) \in Nat /\ n \in Nat /\ H \in SUBSET (1..Len(c))
  BY DEF Headers
<1>2. \A h \in H : h <= n <=> h <= n - 1 \/ h = n
  BY <1>1
<1>3. n \notin H => A = B
  BY <1>2 DEF Spoken
<1>4. n \in H => A = B \cup T
  <2>1. ~(n <= n - 1) /\ n <= n
    BY <1>1
  <2> QED BY <1>2, <2>1 DEF Spoken
<1>5. n \in H => B \cap T = {}
  <2> SUFFICES ASSUME n \in H, NEW i \in B, i \in T PROVE FALSE
    OBVIOUS
  <2>1. PICK h \in H : h <= n - 1 /\ i \in Within(c, h)
    BY DEF Spoken
  <2>2. h \in 1..Len(c) /\ n > h
    BY <1>1, <2>1
  <2>3. EndsArgument(c, h, ArgEnd(c, h)) /\ EndsArgument(c, n, ArgEnd(c, n))
    BY <2>2, ArgEndIs
  <2>4. ArgEnd(c, h) <= n /\ ArgEnd(c, h) \in Int /\ ArgEnd(c, n) \in Int
    BY <1>1, <2>2, <2>3 DEF EndsArgument
  <2>5. i \in h + 1..ArgEnd(c, h) - 1 /\ i \in n + 1..ArgEnd(c, n) - 1
    BY <2>1 DEF Within
  <2> QED BY <1>1, <2>2, <2>4, <2>5
<1>6. IsFiniteSet(B) /\ IsFiniteSet(T) /\ Cardinality(B) \in Nat /\ Cardinality(T) \in Nat
  <2>1. /\ IsFiniteSet(Places(c, "prose"))
        /\ IsFiniteSet(T) /\ Cardinality(T) \in Nat
    BY PlacesFinite
  <2>2. B \in SUBSET Places(c, "prose")
    BY DEF Spoken
  <2> HIDE DEF B
  <2>3. IsFiniteSet(B)
    BY <2>1, <2>2, FS_Subset
  <2> QED BY <2>1, <2>3, FS_CardinalityType
<1>7. n \in H => Cardinality(A) = Cardinality(B) + Cardinality(T)
  <2> SUFFICES ASSUME n \in H PROVE Cardinality(A) = Cardinality(B) + Cardinality(T)
    OBVIOUS
  <2> HIDE DEF A, B, T
  <2>1. Cardinality(B \cup T) = Cardinality(B) + Cardinality(T) - Cardinality(B \cap T)
    BY <1>6, FS_Union
  <2>2. Cardinality(B \cap T) = 0
    BY <1>5, FS_EmptySet
  <2>3. A = B \cup T
    BY <1>4
  <2> QED BY ONLY <1>6, <2>1, <2>2, <2>3
<1> QED BY <1>3, <1>6, <1>7

\* Which call is the last of those extracted from the first n tokens.
LastCall(c, n, args) ==
  \/ args = <<>> /\ \A h \in Headers(c) : h > n
  \/ /\ args # <<>>
     /\ \E h \in Headers(c) : /\ h <= n /\ \A g \in Headers(c) : g <= n => g <= h
                              /\ Last(args) = Argument(c, h)

Extracts(c, n, args) ==
  /\ args \in Seq(Seq(Tokens)) /\ LastCall(c, n, args)
  /\ Cardinality(Places(FlattenSeq(args), "prose")) = Cardinality(Spoken(c, n))

LEMMA ExtractNone == ASSUME NEW c \in Seq(Tokens) PROVE Extracts(c, 0, <<>>)
<1>1. \A h \in Headers(c) : h > 0
  BY DEF Headers
<1>2. Spoken(c, 0) = {}
  <2>1. \A h \in Headers(c) : ~(h <= 0)
    BY DEF Headers
  <2> QED BY <2>1 DEF Spoken
<1>3. Places(FlattenSeq(<<>>), "prose") = {}
  <2>1. Places(<<>>, "prose") = {}
    BY DEF Places
  <2> QED BY <2>1, FlattenEmpty
<1>4. <<>> \in Seq(Seq(Tokens))
  OBVIOUS
<1> QED BY <1>1, <1>2, <1>3, <1>4 DEF Extracts, LastCall

LEMMA ExtractNext ==
  ASSUME NEW c \in Seq(Tokens), NEW n \in 1..Len(c), NEW args, Extracts(c, n - 1, args)
  PROVE  /\ n \in Headers(c) => Extracts(c, n, Append(args, Argument(c, n)))
         /\ n \notin Headers(c) => Extracts(c, n, args)
<1> DEFINE arg == Argument(c, n)
           b == ArgEnd(c, n) - 1
<1>0. /\ n \in Nat /\ Len(c) \in Nat
      /\ \A h \in Headers(c) : h \in Nat /\ (h <= n <=> h <= n - 1 \/ h = n)
  BY DEF Headers
<1>1. /\ args \in Seq(Seq(Tokens)) /\ LastCall(c, n - 1, args)
      /\ Cardinality(Places(FlattenSeq(args), "prose")) = Cardinality(Spoken(c, n - 1))
  BY DEF Extracts
<1>2. /\ arg = SubSeq(c, n + 1, b) /\ arg \in Seq(Tokens) /\ b \in n..Len(c)
  BY ArgumentIs
<1>3. ASSUME n \in Headers(c) PROVE Extracts(c, n, Append(args, arg))
  <2> DEFINE more == Append(args, arg)
  <2>1. more \in Seq(Seq(Tokens)) /\ more # <<>> /\ Last(more) = arg
    <3> DEFINE X == Seq(Tokens)
    <3>1. args \in Seq(X) /\ arg \in X
      BY <1>1, <1>2
    <3> HIDE DEF arg, X
    <3>2. Append(args, arg) \in Seq(X) /\ Append(args, arg) # <<>> /\ Last(Append(args, arg)) = arg
      BY <3>1, Appended
    <3> QED BY <3>2 DEF X
  <2>2. LastCall(c, n, more)
    <3>1. n <= n /\ \A g \in Headers(c) : g <= n => g <= n
      BY <1>0
    <3> HIDE DEF more
    <3> QED BY <1>3, <2>1, <3>1 DEF LastCall
  <2> DEFINE u == FlattenSeq(args)
  <2>3. u \in Seq(Tokens) /\ FlattenSeq(more) = u \o arg
    <3> HIDE DEF arg
    <3> QED BY <1>1, <1>2, FlattenAppend
  <2> HIDE DEF u, arg, more, b
  <2>4. CountsSlice(u, c, n, b, "prose")
    <3>1. n \in 0..Len(c)
      BY <1>0
    <3> QED BY <1>2, <2>3, <3>1, SliceCounted
  <2>5. Cardinality(Places(u \o arg, "prose"))
          = Cardinality(Places(u, "prose")) + Cardinality(Places(c, "prose") \cap (n + 1..b))
    BY <1>2, <2>4 DEF CountsSlice
  <2>6. Within(c, n) = (n + 1..b)
    BY DEF Within, b
  <2>7. Cardinality(Places(u, "prose")) = Cardinality(Spoken(c, n - 1))
    BY <1>1 DEF u
  <2>8. Cardinality(Spoken(c, n)) = Cardinality(Spoken(c, n - 1))
          + Cardinality(Places(c, "prose") \cap Within(c, n))
    BY <1>3, SpokenNext
  <2>9. Cardinality(Places(FlattenSeq(more), "prose")) = Cardinality(Spoken(c, n))
    BY ONLY <2>3, <2>5, <2>6, <2>7, <2>8
  <2> QED BY <2>1, <2>2, <2>9 DEF Extracts, more
<1>4. ASSUME n \notin Headers(c) PROVE Extracts(c, n, args)
  <2>1. \A h \in Headers(c) : (h <= n <=> h <= n - 1) /\ (h > n - 1 => h > n)
    BY <1>0, <1>4
  <2>2. LastCall(c, n, args)
    BY <1>1, <2>1 DEF LastCall
  <2>3. Spoken(c, n) = Spoken(c, n - 1)
    BY <1>4, SpokenNext
  <2> QED BY <1>1, <2>2, <2>3 DEF Extracts
<1> QED BY <1>3, <1>4

LEMMA ExtractAll ==
  ASSUME NEW c \in Seq(Tokens)
  PROVE  Extracts(c, Len(c), Extracted(c)) /\ Len(Extracted(c)) = Cardinality(Headers(c))
<1> DEFINE N == Len(c)
           H == Headers(c)
           args == [i \in 1..N |-> Argument(c, i)]
<1>1. N \in Nat /\ DOMAIN c = 1..N /\ H \in SUBSET (1..N)
  BY DEF Headers
<1>2. args \in Seq(Seq(Tokens)) /\ Len(args) = N /\ \A i \in 1..N : args[i] = Argument(c, i)
  <2>1. \A i \in 1..N : Argument(c, i) \in Seq(Tokens)
    BY ArgumentIs
  <2>2. args \in [1..N -> Seq(Tokens)]
    BY <2>1
  <2> QED BY <1>1, <2>2
<1>3. Extracted(c) = Picked(args, H)
  BY <1>1 DEF Extracted
<1> HIDE DEF args
<1>4. PICK f \in [0..Len(args) -> Seq(Seq(Tokens))] : Picks(f, args, H)
  BY <1>2, PicksExist
<1>5. f[0] = <<>>
      /\ \A n \in 1..N : f[n] = IF n \in H THEN Append(f[n - 1], args[n]) ELSE f[n - 1]
  BY <1>2, <1>4 DEF Picks
<1>6. Picked(args, H) = f[N] /\ Len(Picked(args, H)) = Cardinality(H)
  <2>1. Picked(args, H) = f[N]
    BY <1>1, <1>2, <1>4, PickedIs
  <2>2. H \cap (1..N) = H
    BY <1>1
  <2> HIDE DEF H, N
  <2>3. Len(Picked(args, H)) = Cardinality(H \cap (1..N))
    BY <1>2, PickedOnly
  <2> QED BY <2>1, <2>2, <2>3
<1> DEFINE S == {n \in 0..N : Extracts(c, n, f[n])}
<1>7. 0 \in S
  BY <1>1, <1>5, ExtractNone
<1>8. ASSUME NEW n \in 1..N, n - 1 \in S PROVE n \in S
  <2>1. Extracts(c, n - 1, f[n - 1]) /\ n \in 0..N
    BY <1>1, <1>8
  <2>2. /\ n \in H => Extracts(c, n, Append(f[n - 1], Argument(c, n)))
        /\ n \notin H => Extracts(c, n, f[n - 1])
    BY <2>1, ExtractNext
  <2>3. /\ n \in H => f[n] = Append(f[n - 1], Argument(c, n))
        /\ n \notin H => f[n] = f[n - 1]
    BY <1>2, <1>5
  <2>4. Extracts(c, n, f[n])
    BY ONLY <2>2, <2>3
  <2> QED BY <2>1, <2>4
<1> HIDE DEF S
<1>9. \A n \in 0..N : n \in S
  BY <1>1, <1>7, <1>8, Climb
<1>10. Extracts(c, N, f[N])
  BY <1>1, <1>9 DEF S
<1> QED BY <1>3, <1>6, <1>10

\* Nothing but prose is left, and all of it that is in no arguments.
LEMMA RestIs ==
  ASSUME NEW c \in Seq(Tokens)
  PROVE  /\ Prose(Rest(c)) = DOMAIN Rest(c)
         /\ Cardinality(Prose(c)) = Cardinality(Prose(Rest(c))) + Cardinality(Spoken(c, Len(c)))
<1> DEFINE N == Len(c)
           P == {i \in DOMAIN c \ Taken(c) : ~IsFraming(c[i])}
           r == Rest(c)
           all == Places(c, "prose")
           said == Spoken(c, N)
<1>1. N \in Nat /\ DOMAIN c = 1..N /\ Headers(c) \in SUBSET (1..N)
  BY DEF Headers
<1>2. r = Picked(c, P)
  BY DEF Rest
<1>3. P \cap (1..N) = P /\ \A i \in P : c[i] = "prose"
  BY <1>1 DEF IsFraming
<1>4. r \in Seq(Tokens) /\ Len(r) = Cardinality(P)
      /\ \A k \in 1..Len(r) : r[k] = "prose"
  <2> HIDE DEF P, r
  <2>1. Picked(c, P) \in Seq(Tokens)
    BY PickedType
  <2>2. /\ Len(Picked(c, P)) = Cardinality(P \cap (1..N))
        /\ \A k \in 1..Len(Picked(c, P)) : \E i \in P \cap (1..N) : Picked(c, P)[k] = c[i]
    BY PickedOnly
  <2> QED BY <1>2, <1>3, <2>1, <2>2
<1> HIDE DEF r
<1>5. Len(r) \in Nat /\ DOMAIN r = 1..Len(r)
  BY <1>4
<1>6. Prose(r) = 1..Len(r)
  BY <1>4, <1>5 DEF Prose
<1>7. Cardinality(Prose(r)) = Cardinality(P)
  <2>1. Cardinality(1..Len(r)) = Len(r)
    <3> DEFINE m == Len(r)
    <3>1. m \in Nat /\ m \in Int /\ 1 \in Int
      BY <1>5
    <3> HIDE DEF m
    <3>2. Cardinality(1..m) = IF 1 > m THEN 0 ELSE m - 1 + 1
      BY <3>1, FS_Interval
    <3>3. Cardinality(1..m) = m
      BY <3>1, <3>2
    <3> QED BY <3>3 DEF m
  <2> QED BY <1>4, <1>6, <2>1
<1>8. all = P \cup said /\ P \cap said = {}
  <2>1. \A i \in all : i \in 1..N /\ c[i] = "prose" /\ ~IsFraming(c[i])
    BY <1>1 DEF Places, IsFraming
  <2>2. ASSUME NEW i \in all PROVE i \in Taken(c) <=> i \in said
    <3>1. ASSUME NEW h \in Headers(c)
          PROVE  i \in h..(ArgEnd(c, h) - 1) <=> h <= N /\ i \in Within(c, h)
      <4>1. h \in 1..N /\ c[h] = "call" /\ i \in 1..N /\ h # i
        BY <1>1, <2>1 DEF Headers
      <4>2. ArgEnd(c, h) \in Int
        BY <1>1, <4>1, ArgEndIs DEF EndsArgument
      <4> QED BY <1>1, <4>1, <4>2 DEF Within
    <3>2. i \in Taken(c) <=> \E h \in Headers(c) : i \in h..(ArgEnd(c, h) - 1)
      BY DEF Taken
    <3>3. i \in said <=> \E h \in Headers(c) : h <= N /\ i \in Within(c, h)
      BY DEF Spoken
    <3> QED BY <3>1, <3>2, <3>3
  <2>3. \A i : i \in P <=> i \in all /\ i \notin Taken(c)
    BY <1>1 DEF Places, IsFraming
  <2>4. \A i \in said : i \in all
    BY DEF Spoken
  <2> HIDE DEF P, said, all
  <2> QED BY <2>2, <2>3, <2>4
<1>9. IsFiniteSet(P) /\ IsFiniteSet(said) /\ Cardinality(P) \in Nat /\ Cardinality(said) \in Nat
  <2>1. IsFiniteSet(all)
    BY PlacesFinite
  <2> HIDE DEF P, said, all
  <2>2. P \in SUBSET all /\ said \in SUBSET all
    BY <1>8
  <2> QED BY <2>1, <2>2, FS_Subset, FS_CardinalityType
<1>10. Cardinality(all) = Cardinality(P) + Cardinality(said)
  <2> HIDE DEF P, said, all
  <2>1. Cardinality(P \cup said) = Cardinality(P) + Cardinality(said) - Cardinality(P \cap said)
    BY <1>9, FS_Union
  <2>2. Cardinality(P \cap said) = 0
    BY <1>8, FS_EmptySet
  <2> QED BY <1>8, <1>9, <2>1, <2>2
<1>11. Prose(c) = all
  BY DEF Prose, Places
<1> QED BY <1>5, <1>6, <1>7, <1>10, <1>11 DEF r

----------------------------------------------------------------------------
(* Reasoning details: the text of an entry.                                *)

Fits(D) == \A f \in D : IsDetail(f)

\* The fragments that a list of positions stands for.
Parts(all, from) == [j \in 1..Len(from) |-> all[from[j]]]

\* The strings since the last value that was none, and the pieces they add.
Since(ps) ==
  {j \in DOMAIN ps : /\ HasText(ps[j], "string")
                     /\ \A k \in DOMAIN ps : k > j => ~HasText(ps[k], "other")}

PiecesOf(ps) ==
  [j \in DOMAIN ps |-> IF j \in Since(ps) THEN ps[j].keys["text"].pieces ELSE <<>>]

JoinsText(ps, e) ==
  /\ DOMAIN e.fields \cap DOMAIN e.cat = {}
  /\ "text" \in DOMAIN e.cat <=> Since(ps) # {}
  /\ Since(ps) # {} => e.cat["text"] = FlattenSeq(PiecesOf(ps))

LEMMA KindOfText ==
  ASSUME NEW f PROVE ~(HasText(f, "string") /\ HasText(f, "other"))
<1>1. "string" # "other"
  OBVIOUS
<1> QED BY <1>1 DEF HasText

LEMMA SinceGrows ==
  ASSUME NEW D, NEW ps \in Seq(D), NEW f \in D
  PROVE  /\ HasText(f, "other") => Since(Append(ps, f)) = {}
         /\ HasText(f, "string") => Since(Append(ps, f)) = Since(ps) \cup {Len(ps) + 1}
         /\ ~HasText(f, "string") /\ ~HasText(f, "other") => Since(Append(ps, f)) = Since(ps)
         /\ Since(ps) \in SUBSET (1..Len(ps))
<1> DEFINE n == Len(ps)
           qs == Append(ps, f)
<1>1. /\ n \in Nat /\ DOMAIN ps = 1..n /\ DOMAIN qs = 1..(n + 1) /\ qs[n + 1] = f
      /\ \A k \in 1..n : qs[k] = ps[k]
  OBVIOUS
<1> HIDE DEF n, qs
<1>2. (\A k : k \in 1..(n + 1) <=> k \in 1..n \/ k = n + 1) /\ n + 1 \notin 1..n
      /\ \A k \in 1..n : n + 1 > k
  BY <1>1
<1>3. HasText(f, "other") => Since(qs) = {}
  <2> SUFFICES ASSUME HasText(f, "other"), NEW j \in Since(qs) PROVE FALSE
    OBVIOUS
  <2>1. j \in 1..(n + 1) /\ HasText(qs[j], "string")
        /\ \A k \in 1..(n + 1) : k > j => ~HasText(qs[k], "other")
    BY <1>1 DEF Since
  <2>2. CASE j = n + 1
    BY <1>1, <2>1, <2>2, KindOfText
  <2>3. CASE j \in 1..n
    BY <1>1, <1>2, <2>1, <2>3
  <2> QED BY <1>2, <2>1, <2>2, <2>3
<1>4. ASSUME ~HasText(f, "other")
      PROVE  \A j : j \in Since(qs) <=> j \in Since(ps) \/ (j = n + 1 /\ HasText(f, "string"))
  <2> SUFFICES ASSUME NEW j
               PROVE  j \in Since(qs) <=> j \in Since(ps) \/ (j = n + 1 /\ HasText(f, "string"))
    OBVIOUS
  <2>1. CASE j \in 1..n
    <3>1. qs[j] = ps[j] /\ j # n + 1
      BY <1>1, <1>2, <2>1
    <3>2. (\A k \in DOMAIN qs : k > j => ~HasText(qs[k], "other"))
            <=> (\A k \in DOMAIN ps : k > j => ~HasText(ps[k], "other"))
      BY <1>1, <1>2, <1>4
    <3> QED BY <1>1, <1>2, <2>1, <3>1, <3>2 DEF Since
  <2>2. CASE j = n + 1
    <3>1. \A k \in 1..(n + 1) : ~(k > n + 1)
      BY <1>1
    <3> QED BY <1>1, <1>2, <2>2, <3>1 DEF Since
  <2>3. CASE j \notin 1..(n + 1)
    BY <1>1, <1>2, <2>3 DEF Since
  <2> QED BY <1>2, <2>1, <2>2, <2>3
<1>5. HasText(f, "string") => Since(qs) = Since(ps) \cup {n + 1}
  BY <1>4, KindOfText
<1>6. ~HasText(f, "string") /\ ~HasText(f, "other") => Since(qs) = Since(ps)
  BY <1>4
<1>7. Since(ps) \in SUBSET (1..n)
  BY <1>1 DEF Since
<1> QED BY <1>3, <1>5, <1>6, <1>7 DEF qs, n

LEMMA PiecesTyped ==
  ASSUME NEW D, Fits(D), NEW ps \in Seq(D)
  PROVE  PiecesOf(ps) \in Seq(Seq(STRING)) /\ Len(PiecesOf(ps)) = Len(ps)
<1>1. Len(ps) \in Nat /\ DOMAIN ps = 1..Len(ps) /\ \A k \in 1..Len(ps) : ps[k] \in D
  OBVIOUS
<1>2. ASSUME NEW j \in 1..Len(ps)
      PROVE  (IF j \in Since(ps) THEN ps[j].keys["text"].pieces ELSE <<>>) \in Seq(STRING)
  <2>1. j \in Since(ps) => "text" \in DOMAIN ps[j].keys
    BY DEF Since, HasText
  <2>2. IsDetail(ps[j])
    BY <1>1 DEF Fits
  <2>3. j \in Since(ps) => ps[j].keys["text"].pieces \in Seq(STRING)
    BY <2>1, <2>2 DEF IsDetail
  <2>4. <<>> \in Seq(STRING)
    OBVIOUS
  <2> QED BY <2>3, <2>4
<1>3. PiecesOf(ps) \in [1..Len(ps) -> Seq(STRING)]
  BY <1>1, <1>2 DEF PiecesOf
<1> DEFINE pp == PiecesOf(ps)
<1> HIDE DEF pp
<1>4. pp \in [1..Len(ps) -> Seq(STRING)]
  BY <1>3 DEF pp
<1>5. pp \in Seq(Seq(STRING)) /\ Len(pp) = Len(ps)
  BY <1>1, <1>4
<1> QED BY <1>5 DEF pp

\* Unless it takes the text away, a fragment adds its piece.
LEMMA PiecesGrow ==
  ASSUME NEW D, Fits(D), NEW ps \in Seq(D), NEW f \in D, ~HasText(f, "other"),
         NEW t \in Seq(STRING),
         t = IF HasText(f, "string") THEN f.keys["text"].pieces ELSE <<>>
  PROVE  /\ FlattenSeq(PiecesOf(ps)) \in Seq(STRING)
         /\ FlattenSeq(PiecesOf(Append(ps, f))) = FlattenSeq(PiecesOf(ps)) \o t
<1> DEFINE n == Len(ps)
           qs == Append(ps, f)
           pp == PiecesOf(ps)
           pq == PiecesOf(qs)
           aa == Append(pp, t)
<1>1. /\ n \in Nat /\ DOMAIN ps = 1..n /\ qs[n + 1] = f /\ Len(qs) = n + 1 /\ DOMAIN qs = 1..(n + 1)
      /\ qs \in Seq(D) /\ \A k \in 1..n : qs[k] = ps[k]
  OBVIOUS
<1>2. /\ Since(ps) \in SUBSET (1..n)
      /\ HasText(f, "string") => Since(qs) = Since(ps) \cup {n + 1}
      /\ ~HasText(f, "string") => Since(qs) = Since(ps)
  BY SinceGrows
<1> HIDE DEF n, qs
<1>3. pp \in Seq(Seq(STRING)) /\ Len(pp) = n /\ pq \in Seq(Seq(STRING)) /\ Len(pq) = n + 1
  <2>1. pp \in Seq(Seq(STRING)) /\ Len(pp) = n
    BY PiecesTyped DEF n
  <2>2. pq \in Seq(Seq(STRING)) /\ Len(pq) = n + 1
    BY <1>1, PiecesTyped
  <2> QED BY <2>1, <2>2
<1>4. \A k \in 1..n : pq[k] = pp[k]
  <2> SUFFICES ASSUME NEW k \in 1..n PROVE pq[k] = pp[k]
    OBVIOUS
  <2>1. k \in 1..(n + 1) /\ k # n + 1 /\ qs[k] = ps[k]
    BY <1>1
  <2>2. k \in Since(qs) <=> k \in Since(ps)
    BY <1>2, <2>1
  <2> QED BY <1>1, <2>1, <2>2 DEF PiecesOf
<1>5. pq[n + 1] = t
  <2>1. n + 1 \in 1..(n + 1) /\ n + 1 \notin Since(ps)
    BY <1>1, <1>2
  <2>2. n + 1 \in Since(qs) <=> HasText(f, "string")
    BY <1>2, <2>1
  <2> QED BY <1>1, <2>1, <2>2 DEF PiecesOf
<1> HIDE DEF pp, pq
<1>6. aa \in Seq(Seq(STRING)) /\ Len(aa) = n + 1 /\ aa[n + 1] = t /\ \A k \in 1..n : aa[k] = pp[k]
  <2> DEFINE X == Seq(STRING)
  <2>1. pp \in Seq(X) /\ t \in X
    BY <1>3
  <2> HIDE DEF X, aa
  <2>2. /\ aa \in Seq(X) /\ Len(aa) = Len(pp) + 1 /\ aa[Len(pp) + 1] = t
        /\ \A k \in 1..Len(pp) : aa[k] = pp[k]
    BY <2>1, Appended DEF aa
  <2> QED BY <1>3, <2>2 DEF X
<1> HIDE DEF aa
<1>7. pq = aa
  <2> DEFINE X == Seq(STRING)
  <2>1. pq \in Seq(X) /\ aa \in Seq(X) /\ Len(pq) = Len(aa)
    BY <1>3, <1>6
  <2>2. \A k \in 1..Len(pq) : pq[k] = aa[k]
    <3>1. \A k \in 1..Len(pq) : k \in 1..n \/ k = n + 1
      BY <1>1, <1>3
    <3> QED BY <1>4, <1>5, <1>6, <3>1
  <2> HIDE DEF X
  <2> QED BY <2>1, <2>2, SameElements
<1>8. FlattenSeq(pp) \in Seq(STRING) /\ FlattenSeq(Append(pp, t)) = FlattenSeq(pp) \o t
  BY <1>3, FlattenAppend
<1> QED BY <1>7, <1>8 DEF aa, pp, pq, qs

\* Before the first string there is no text.
LEMMA NoPieces ==
  ASSUME NEW D, Fits(D), NEW ps \in Seq(D), Since(ps) = {}
  PROVE  FlattenSeq(PiecesOf(ps)) = <<>>
<1>1. PiecesOf(ps) \in Seq(Seq(STRING)) /\ Len(PiecesOf(ps)) = Len(ps)
  BY PiecesTyped
<1>2. \A k \in 1..Len(ps) : PiecesOf(ps)[k] = <<>>
  <2>1. DOMAIN ps = 1..Len(ps)
    OBVIOUS
  <2> QED BY <2>1 DEF PiecesOf
<1> QED BY <1>1, <1>2, FlattenBlank

\* The piece a fragment adds.
Piece(f) == IF HasText(f, "string") THEN f.keys["text"].pieces ELSE <<>>

LEMMA PieceType ==
  ASSUME NEW D, Fits(D), NEW f \in D PROVE Piece(f) \in Seq(STRING)
<1>1. IsDetail(f)
  BY DEF Fits
<1>2. HasText(f, "string") => f.keys["text"].pieces \in Seq(STRING)
  BY <1>1 DEF IsDetail, HasText
<1>3. <<>> \in Seq(STRING)
  OBVIOUS
<1> QED BY <1>2, <1>3 DEF Piece

LEMMA TextBegins ==
  ASSUME NEW D, Fits(D), NEW f \in D, NEW id
  PROVE  JoinsText(<<f>>, NewEntry(f, id))
<1> DEFINE e == NewEntry(f, id)
           ps == <<f>>
           t == Piece(f)
<1>1. <<>> \in Seq(D) /\ ps \in Seq(D) /\ ps = Append(<<>>, f)
  OBVIOUS
<1>2. Since(<<>>) = {}
  BY DEF Since
<1>3. /\ HasText(f, "other") => Since(ps) = {}
      /\ HasText(f, "string") => Since(ps) # {}
      /\ ~HasText(f, "string") => Since(ps) = {}
  <2>1. /\ HasText(f, "other") => Since(Append(<<>>, f)) = {}
        /\ HasText(f, "string") => Since(Append(<<>>, f)) = Since(<<>>) \cup {Len(<<>>) + 1}
        /\ ~HasText(f, "string") /\ ~HasText(f, "other") => Since(Append(<<>>, f)) = Since(<<>>)
    BY <1>1, SinceGrows
  <2> QED BY <1>1, <1>2, <2>1
<1> HIDE DEF ps
<1>4. /\ e.fields = [k \in {x \in DOMAIN f.keys : ~IsConcat(x, f.keys[x])} |-> f.keys[k]]
      /\ e.cat = [k \in {x \in DOMAIN f.keys : IsConcat(x, f.keys[x])} |-> f.keys[k].pieces]
  BY DEF NewEntry
<1> HIDE DEF e
<1>5. DOMAIN e.fields \cap DOMAIN e.cat = {}
  BY <1>4
<1>6. "text" \in DOMAIN e.cat <=> HasText(f, "string")
  BY <1>4 DEF IsConcat, ConcatKey, HasText
<1>7. ASSUME HasText(f, "string") PROVE e.cat["text"] = FlattenSeq(PiecesOf(ps))
  <2>1. e.cat["text"] = t
    BY <1>4, <1>6, <1>7 DEF Piece
  <2>2. t \in Seq(STRING) /\ t = IF HasText(f, "string") THEN f.keys["text"].pieces ELSE <<>>
    BY PieceType DEF Piece
  <2> HIDE DEF t
  <2>3. FlattenSeq(PiecesOf(Append(<<>>, f))) = FlattenSeq(PiecesOf(<<>>)) \o t
    <3>1. ~HasText(f, "other")
      BY <1>7, KindOfText
    <3> QED BY <1>1, <2>2, <3>1, PiecesGrow
  <2>4. FlattenSeq(PiecesOf(<<>>)) = <<>>
    BY <1>1, <1>2, NoPieces
  <2>5. <<>> \o t = t
    BY <2>2
  <2> QED BY <1>1, <2>1, <2>3, <2>4, <2>5
<1> QED BY <1>3, <1>5, <1>6, <1>7 DEF JoinsText, ps, e

\* What an entry keeps after a fragment.
LEMMA MergedText ==
  ASSUME NEW D, Fits(D), NEW f \in D, NEW e, NEW id, DOMAIN e.fields \cap DOMAIN e.cat = {}
  PROVE  /\ DOMAIN Merge(e, f, id).fields \cap DOMAIN Merge(e, f, id).cat = {}
         /\ "text" \in DOMAIN Merge(e, f, id).cat
              <=> ~HasText(f, "other") /\ ("text" \in DOMAIN e.cat \/ HasText(f, "string"))
         /\ "text" \in DOMAIN Merge(e, f, id).cat =>
              Merge(e, f, id).cat["text"]
                = (IF "text" \in DOMAIN e.cat THEN e.cat["text"] ELSE <<>>) \o Piece(f)
<1> DEFINE joins == {k \in DOMAIN f.keys : IsConcat(k, f.keys[k])}
           sets  == {k \in DOMAIN f.keys \ joins : ~EmptyJSON(f.keys[k])}
           m == Merge(e, f, id)
<1>1. /\ m.fields = [k \in (DOMAIN e.fields \ joins) \cup sets |->
                       IF k \in sets THEN f.keys[k] ELSE e.fields[k]]
      /\ m.cat = [k \in (DOMAIN e.cat \cup joins) \ sets |->
                    (IF k \in DOMAIN e.cat THEN e.cat[k] ELSE <<>>)
                      \o (IF k \in joins THEN f.keys[k].pieces ELSE <<>>)]
  BY DEF Merge
<1>2. "text" \in joins <=> HasText(f, "string")
  BY DEF HasText, IsConcat, ConcatKey
<1>3. "text" \in sets <=> HasText(f, "other")
  <2>1. \A v : v.kind = "other" => ~EmptyJSON(v)
    <3>1. Text(<<>>).kind = "string" /\ "string" # "other" /\ "null" # "other"
      BY DEF Text
    <3> QED BY <3>1 DEF EmptyJSON
  <2>2. \A v : v.kind = "null" => EmptyJSON(v)
    BY DEF EmptyJSON
  <2>3. "text" \in DOMAIN f.keys => f.keys["text"].kind \in {"string", "null", "other"}
    BY DEF Fits, IsDetail
  <2>4. "string" # "other"
    OBVIOUS
  <2>5. CASE "text" \in DOMAIN f.keys /\ f.keys["text"].kind = "string"
    <3>1. "text" \in joins /\ ~HasText(f, "other")
      BY <1>2, <2>4, <2>5 DEF HasText
    <3> QED BY <3>1
  <2>6. CASE "text" \in DOMAIN f.keys /\ f.keys["text"].kind # "string"
    <3>1. "text" \notin joins
      BY <1>2, <2>6 DEF HasText
    <3>2. "text" \in sets <=> ~EmptyJSON(f.keys["text"])
      BY <2>6, <3>1
    <3>3. "null" # "other"
      OBVIOUS
    <3> HIDE DEF sets, joins
    <3> QED BY <2>1, <2>2, <2>3, <2>6, <3>2, <3>3 DEF HasText
  <2>7. CASE "text" \notin DOMAIN f.keys
    BY <2>7 DEF HasText
  <2> QED BY <2>5, <2>6, <2>7
<1>4. sets \cap joins = {}
  OBVIOUS
<1> HIDE DEF m, sets
<1>5. DOMAIN m.fields = (DOMAIN e.fields \ joins) \cup sets
      /\ DOMAIN m.cat = (DOMAIN e.cat \cup joins) \ sets
  BY <1>1
<1>6. DOMAIN m.fields \cap DOMAIN m.cat = {}
  <2> HIDE DEF joins
  <2> QED BY <1>4, <1>5
<1>7. "text" \in DOMAIN m.cat
        <=> ~HasText(f, "other") /\ ("text" \in DOMAIN e.cat \/ HasText(f, "string"))
  <2> HIDE DEF joins
  <2> QED BY <1>2, <1>3, <1>5
<1>8. "text" \in DOMAIN m.cat =>
        m.cat["text"] = (IF "text" \in DOMAIN e.cat THEN e.cat["text"] ELSE <<>>) \o Piece(f)
  <2>1. Piece(f) = IF "text" \in joins THEN f.keys["text"].pieces ELSE <<>>
    BY <1>2 DEF Piece
  <2> HIDE DEF joins
  <2>2. "text" \in (DOMAIN e.cat \cup joins) \ sets =>
          m.cat["text"] = (IF "text" \in DOMAIN e.cat THEN e.cat["text"] ELSE <<>>)
                            \o (IF "text" \in joins THEN f.keys["text"].pieces ELSE <<>>)
    BY <1>1
  <2> QED BY <1>5, <2>1, <2>2
<1> QED BY <1>6, <1>7, <1>8 DEF m

\* A fragment leaves the text of its entry joined.
LEMMA TextMerges ==
  ASSUME NEW D, Fits(D), NEW ps \in Seq(D), NEW f \in D, NEW e, NEW id, JoinsText(ps, e)
  PROVE  JoinsText(Append(ps, f), Merge(e, f, id))
<1> DEFINE m == Merge(e, f, id)
           qs == Append(ps, f)
           t == Piece(f)
           old == FlattenSeq(PiecesOf(ps))
<1>1. /\ DOMAIN e.fields \cap DOMAIN e.cat = {}
      /\ "text" \in DOMAIN e.cat <=> Since(ps) # {}
      /\ Since(ps) # {} => e.cat["text"] = old
  BY DEF JoinsText
<1>2. /\ DOMAIN m.fields \cap DOMAIN m.cat = {}
      /\ "text" \in DOMAIN m.cat
           <=> ~HasText(f, "other") /\ ("text" \in DOMAIN e.cat \/ HasText(f, "string"))
      /\ "text" \in DOMAIN m.cat =>
           m.cat["text"] = (IF "text" \in DOMAIN e.cat THEN e.cat["text"] ELSE <<>>) \o t
  BY <1>1, MergedText
<1>3. /\ HasText(f, "other") => Since(qs) = {}
      /\ HasText(f, "string") => Since(qs) # {}
      /\ ~HasText(f, "string") /\ ~HasText(f, "other") => Since(qs) = Since(ps)
  <2>1. /\ HasText(f, "other") => Since(Append(ps, f)) = {}
        /\ HasText(f, "string") => Since(Append(ps, f)) = Since(ps) \cup {Len(ps) + 1}
        /\ ~HasText(f, "string") /\ ~HasText(f, "other") => Since(Append(ps, f)) = Since(ps)
    BY SinceGrows
  <2> QED BY <2>1
<1>4. t \in Seq(STRING) /\ t = IF HasText(f, "string") THEN f.keys["text"].pieces ELSE <<>>
  BY PieceType DEF Piece
<1>5. ~HasText(f, "other") => FlattenSeq(PiecesOf(Append(ps, f))) = old \o t
  <2> HIDE DEF t
  <2> QED BY <1>4, PiecesGrow
<1>6. Since(ps) = {} => old = <<>>
  BY NoPieces
<1> HIDE DEF m, t, old
<1>7. "text" \in DOMAIN m.cat <=> Since(qs) # {}
  BY <1>1, <1>2, <1>3, KindOfText
<1>8. Since(qs) # {} => m.cat["text"] = FlattenSeq(PiecesOf(qs))
  BY <1>1, <1>2, <1>3, <1>5, <1>6, <1>7
<1> QED BY <1>2, <1>7, <1>8 DEF JoinsText, m

----------------------------------------------------------------------------
(* Reasoning details: an entry.                                            *)

\* An entry is of fragments of its index and of one type, in the order they
\* came, and has their text.
Whole(all, e) ==
  /\ e.from \in Seq(1..Len(all)) /\ e.from # <<>>
  /\ \A j \in 1..Len(e.from) :
       /\ all[e.from[j]].kind # "null"
       /\ all[e.from[j]].index = e.index
       /\ all[e.from[j]].type \in {NoType, e.type}
  /\ \A j, k \in 1..Len(e.from) : j < k => e.from[j] < e.from[k] /\ e.index # NoIndex
  /\ JoinsText(Parts(all, e.from), e)

LEMMA WholeFacts ==
  ASSUME NEW all, Len(all) \in Nat, NEW e, Whole(all, e)
  PROVE  /\ Len(e.from) \in Nat /\ 1 \in 1..Len(e.from) /\ DOMAIN e.from = 1..Len(e.from)
         /\ \A j \in 1..Len(e.from) : e.from[j] \in 1..Len(all)
<1>1. e.from \in Seq(1..Len(all)) /\ e.from # <<>>
  BY DEF Whole
<1> QED BY <1>1

\* What comes later is nothing to an entry.
LEMMA WholeStill ==
  ASSUME NEW D, NEW all \in Seq(D), NEW f \in D, NEW e, Whole(all, e)
  PROVE  Whole(Append(all, f), e)
<1> DEFINE n == Len(all)
           bll == Append(all, f)
           from == e.from
<1>1. n \in Nat /\ Len(bll) = n + 1 /\ \A k \in 1..n : bll[k] = all[k]
  OBVIOUS
<1>2. from \in Seq(1..n) /\ from # <<>>
  BY DEF Whole
<1>3. \A j \in 1..Len(from) : from[j] \in 1..n /\ bll[from[j]] = all[from[j]]
  <2>1. \A j \in 1..Len(from) : from[j] \in 1..n
    BY <1>2
  <2> QED BY <1>1, <2>1
<1> HIDE DEF bll, n
<1>4. from \in Seq(1..Len(bll))
  <2>1. 1..n \subseteq 1..(n + 1)
    BY <1>1
  <2> QED BY <1>1, <1>2, <2>1
<1>5. Parts(bll, from) = Parts(all, from)
  BY <1>3 DEF Parts
<1>6. \A j \in 1..Len(from) :
        /\ bll[from[j]].kind # "null"
        /\ bll[from[j]].index = e.index
        /\ bll[from[j]].type \in {NoType, e.type}
  BY <1>3 DEF Whole
<1>7. \A j, k \in 1..Len(from) : j < k => from[j] < from[k] /\ e.index # NoIndex
  BY DEF Whole
<1>8. JoinsText(Parts(bll, from), e)
  BY <1>5 DEF Whole
<1> QED BY <1>2, <1>4, <1>6, <1>7, <1>8 DEF Whole, bll

\* A fragment makes an entry of its own.
LEMMA WholeNew ==
  ASSUME NEW D, NEW all \in Seq(D), NEW f \in D, f.kind # "null", NEW e,
         e.from = <<Len(all) + 1>>, e.index = f.index, e.type = f.type, JoinsText(<<f>>, e)
  PROVE  Whole(Append(all, f), e)
<1> DEFINE n == Len(all)
           bll == Append(all, f)
           from == e.from
<1>1. n \in Nat /\ Len(bll) = n + 1 /\ bll[n + 1] = f
  OBVIOUS
<1> HIDE DEF bll, n
<1>2. from \in Seq(1..Len(bll)) /\ from # <<>> /\ Len(from) = 1 /\ from[1] = n + 1
  <2>1. n + 1 \in 1..Len(bll) /\ from = <<n + 1>>
    BY <1>1 DEF n
  <2> HIDE DEF from
  <2> QED BY <2>1
<1> HIDE DEF from
<1>3. \A j \in 1..Len(from) : j = 1
  BY <1>2
<1>4. Parts(bll, from) = <<f>>
  BY <1>1, <1>2 DEF Parts
<1>5. \A j \in 1..Len(from) : bll[from[j]] = f
  BY <1>1, <1>2, <1>3
<1>6. \A j, k \in 1..Len(from) : ~(j < k)
  BY <1>3
<1> QED BY <1>2, <1>4, <1>5, <1>6 DEF Whole, bll, from

\* A fragment that fits an entry makes it longer.
LEMMA WholeMerged ==
  ASSUME NEW D, Fits(D), NEW all \in Seq(D), NEW f \in D, f.kind # "null", NEW e, Whole(all, e),
         f.index = e.index, f.index # NoIndex, ~StartsBlock(e, f)
  PROVE  LET m == Merge(e, f, Len(all) + 1)
         IN  /\ Whole(Append(all, f), m) /\ m.index = e.index
             /\ m.from = Append(e.from, Len(all) + 1)
<1> DEFINE n == Len(all)
           bll == Append(all, f)
           m == Merge(e, f, n + 1)
           old == e.from
           new == Append(old, n + 1)
           L == Len(old)
<1>1. n \in Nat /\ Len(bll) = n + 1 /\ bll[n + 1] = f /\ bll \in Seq(D)
      /\ \A k \in 1..n : bll[k] = all[k] /\ all[k] \in D
  OBVIOUS
<1>2. /\ m.index = e.index /\ m.from = new
      /\ m.type = IF e.type = NoType THEN f.type ELSE e.type
  BY DEF Merge
<1>3. old \in Seq(1..n) /\ old # <<>> /\ L \in Nat /\ \A j \in 1..L : old[j] \in 1..n
  <2>1. old \in Seq(1..n) /\ old # <<>>
    BY DEF Whole
  <2> HIDE DEF old
  <2> QED BY <2>1
<1>4. /\ \A j \in 1..L : /\ all[old[j]].kind # "null"
                         /\ all[old[j]].index = e.index
                         /\ all[old[j]].type \in {NoType, e.type}
      /\ \A j, k \in 1..L : j < k => old[j] < old[k]
      /\ JoinsText(Parts(all, old), e)
  BY DEF Whole
<1> HIDE DEF bll, n, old
<1>5. /\ new \in Seq(1..Len(bll)) /\ new # <<>> /\ Len(new) = L + 1
      /\ new[L + 1] = n + 1 /\ \A j \in 1..L : new[j] = old[j]
  <2> DEFINE X == 1..(n + 1)
  <2>1. old \in Seq(X) /\ n + 1 \in X
    <3>1. 1..n \subseteq X
      BY <1>1
    <3> QED BY <1>1, <1>3, <3>1
  <2> HIDE DEF X
  <2>2. /\ new \in Seq(X) /\ new # <<>> /\ Len(new) = L + 1
        /\ new[L + 1] = n + 1 /\ \A j \in 1..L : new[j] = old[j]
    BY <2>1, Appended
  <2> QED BY <1>1, <2>2 DEF X
<1> HIDE DEF new, m, L
<1>6. \A j \in 1..Len(new) : j \in 1..L \/ j = L + 1
  BY <1>3, <1>5
<1>7. \A j \in 1..L : bll[new[j]] = all[old[j]] /\ new[j] < n + 1 /\ new[j] = old[j]
  BY <1>1, <1>3, <1>5
<1>8. ASSUME NEW j \in 1..Len(new)
      PROVE  /\ bll[new[j]].kind # "null"
             /\ bll[new[j]].index = m.index
             /\ bll[new[j]].type \in {NoType, m.type}
  <2>1. CASE j \in 1..L
    <3>1. all[old[j]].type \in {NoType, m.type}
      BY <1>2, <1>4, <2>1
    <3> QED BY <1>2, <1>4, <1>7, <2>1, <3>1
  <2>2. CASE j = L + 1
    <3>1. f.type \in {NoType, m.type}
      BY <1>2 DEF StartsBlock
    <3> QED BY <1>1, <1>2, <1>5, <2>2, <3>1
  <2> QED BY <1>6, <2>1, <2>2
<1>9. ASSUME NEW j \in 1..Len(new), NEW k \in 1..Len(new), j < k
      PROVE  new[j] < new[k] /\ m.index # NoIndex
  <2>1. j \in 1..L
    BY <1>3, <1>5, <1>9
  <2> QED BY <1>2, <1>4, <1>5, <1>6, <1>7, <1>9, <2>1
<1>10. Parts(bll, new) = Append(Parts(all, old), f) /\ Parts(all, old) \in Seq(D)
  <2> DEFINE ps == Parts(all, old)
             qs == Parts(bll, new)
  <2>1. ps \in Seq(D) /\ Len(ps) = L /\ \A j \in 1..L : ps[j] = all[old[j]]
    BY <1>1, <1>3 DEF Parts, L
  <2>2. qs \in Seq(D) /\ Len(qs) = L + 1 /\ \A j \in 1..(L + 1) : qs[j] = bll[new[j]]
    <3>1. qs = [j \in 1..(L + 1) |-> bll[new[j]]]
      BY <1>5 DEF Parts
    <3>2. \A j \in 1..(L + 1) : bll[new[j]] \in D
      <4>1. \A j \in 1..L : bll[new[j]] \in D
        BY <1>1, <1>3, <1>7
      <4> QED BY <1>1, <1>5, <1>6, <4>1
    <3>3. L + 1 \in Nat
      BY <1>3
    <3> HIDE DEF qs
    <3> QED BY <3>1, <3>2, <3>3
  <2> HIDE DEF ps, qs
  <2> DEFINE aa == Append(ps, f)
  <2>3. aa \in Seq(D) /\ Len(aa) = L + 1 /\ aa[L + 1] = f /\ \A j \in 1..L : aa[j] = ps[j]
    BY <2>1, Appended
  <2> HIDE DEF aa
  <2>4. \A j \in 1..Len(qs) : qs[j] = aa[j]
    <3>1. \A j \in 1..Len(qs) : j \in 1..(L + 1) /\ (j \in 1..L \/ j = L + 1)
      BY <1>3, <2>2
    <3>2. bll[new[L + 1]] = f
      BY <1>1, <1>5
    <3> QED BY <1>7, <2>1, <2>2, <2>3, <3>1, <3>2
  <2>5. qs = aa
    BY <2>2, <2>3, <2>4, SameElements
  <2> QED BY <2>1, <2>5 DEF ps, qs, aa
<1>11. JoinsText(Parts(bll, new), m)
  <2>1. JoinsText(Append(Parts(all, old), f), Merge(e, f, n + 1))
    BY <1>4, <1>10, TextMerges
  <2> QED BY <1>10, <2>1 DEF m
<1>12. Whole(bll, m)
  <2>1. m.from \in Seq(1..Len(bll)) /\ m.from # <<>>
    BY <1>2, <1>5
  <2>2. \A j \in 1..Len(m.from) : /\ bll[m.from[j]].kind # "null"
                                  /\ bll[m.from[j]].index = m.index
                                  /\ bll[m.from[j]].type \in {NoType, m.type}
    BY <1>2, <1>8
  <2>3. \A j, k \in 1..Len(m.from) : j < k => m.from[j] < m.from[k] /\ m.index # NoIndex
    BY <1>2, <1>9
  <2>4. JoinsText(Parts(bll, m.from), m)
    BY <1>2, <1>11
  <2> QED BY <2>1, <2>2, <2>3, <2>4 DEF Whole
<1> QED BY <1>2, <1>12 DEF m, bll, n, new, old

----------------------------------------------------------------------------
(* Reasoning details: the accumulator.                                     *)

In(e, k) == \E j \in 1..Len(e.from) : e.from[j] = k

\* Each index leads to the last entry that has it.
Indexes(es, last) ==
  /\ \A i \in DOMAIN last : i # NoIndex /\ last[i] \in 1..Len(es) /\ es[last[i]].index = i
  /\ \A n \in 1..Len(es) : es[n].index # NoIndex =>
       es[n].index \in DOMAIN last /\ n <= last[es[n].index]

\* Every fragment but null is in an entry, and in one.
Covered(all, es) ==
  \A k \in 1..Len(all) : all[k].kind # "null" => \E n \in 1..Len(es) : In(es[n], k)

Apart(es) ==
  \A m, n \in 1..Len(es) : \A k : In(es[m], k) /\ In(es[n], k) => m = n

\* Why the later of two entries of an index is an entry of its own.
Opened(all, es, m, n) ==
  \/ \E o \in (m + 1)..(n - 1) : es[o].index = es[n].index
  \/ /\ es[m].type # NoType
     /\ all[es[n].from[1]].type \notin {NoType, es[m].type}

Follow(all, es, m, n) ==
  /\ es[m].from[1] < es[n].from[1]
  /\ es[m].index = es[n].index /\ es[m].index # NoIndex =>
       /\ \A j \in 1..Len(es[m].from) : es[m].from[j] < es[n].from[1]
       /\ Opened(all, es, m, n)

InOrder(all, es) == \A m, n \in 1..Len(es) : m < n => Follow(all, es, m, n)

Gathers(all, es, last) ==
  /\ IsList(es) /\ Indexes(es, last)
  /\ \A n \in 1..Len(es) : Whole(all, es[n])
  /\ Covered(all, es) /\ Apart(es) /\ InOrder(all, es)

Gathered(all, a) ==
  /\ a = [entries |-> a.entries, byIndex |-> a.byIndex]
  /\ Gathers(all, a.entries, a.byIndex)

LEMMA OneFragmentMore ==
  ASSUME NEW D, NEW all \in Seq(D), NEW f \in D
  PROVE  /\ Len(all) \in Nat /\ Len(Append(all, f)) = Len(all) + 1
         /\ Append(all, f)[Len(all) + 1] = f
         /\ \A k \in 1..Len(all) : Append(all, f)[k] = all[k]
OBVIOUS

\* Null goes nowhere.
LEMMA GathersSame ==
  ASSUME NEW D, NEW all \in Seq(D), NEW f \in D, f.kind = "null",
         NEW es, NEW last, Gathers(all, es, last)
  PROVE  Gathers(Append(all, f), es, last)
<1> DEFINE n == Len(all)
           bll == Append(all, f)
<1>1. n \in Nat /\ Len(bll) = n + 1 /\ bll[n + 1] = f /\ \A k \in 1..n : bll[k] = all[k]
  BY OneFragmentMore
<1>2. /\ IsList(es) /\ Indexes(es, last) /\ \A m \in 1..Len(es) : Whole(all, es[m])
      /\ Covered(all, es) /\ Apart(es) /\ InOrder(all, es)
  BY DEF Gathers
<1>3. \A m \in 1..Len(es) : Whole(bll, es[m])
  BY <1>2, WholeStill
<1>4. \A m \in 1..Len(es) : es[m].from[1] \in 1..n
  BY <1>1, <1>2, WholeFacts
<1> HIDE DEF n, bll
<1>5. Covered(bll, es)
  <2> SUFFICES ASSUME NEW k \in 1..Len(bll), bll[k].kind # "null"
               PROVE  \E m \in 1..Len(es) : In(es[m], k)
    BY DEF Covered
  <2>1. k \in 1..n \/ k = n + 1
    BY <1>1
  <2>2. k \in 1..n
    BY <1>1, <2>1
  <2> QED BY <1>1, <1>2, <2>2 DEF Covered, n
<1>6. InOrder(bll, es)
  <2> SUFFICES ASSUME NEW m \in 1..Len(es), NEW o \in 1..Len(es), m < o
               PROVE  Follow(bll, es, m, o)
    BY DEF InOrder
  <2>1. Follow(all, es, m, o) /\ bll[es[o].from[1]] = all[es[o].from[1]]
    BY <1>1, <1>2, <1>4 DEF InOrder
  <2> QED BY <2>1 DEF Follow, Opened
<1> QED BY <1>2, <1>3, <1>5, <1>6 DEF Gathers, bll

\* A fragment with an entry of its own: it has no index, a new one, or cannot
\* join the last entry of its index.
LEMMA GathersNew ==
  ASSUME NEW D, NEW all \in Seq(D), NEW f \in D, f.kind # "null",
         NEW es, NEW last, Gathers(all, es, last),
         f.index \in DOMAIN last => StartsBlock(es[last[f.index]], f),
         NEW e, e.from = <<Len(all) + 1>>, e.index = f.index, e.type = f.type,
         JoinsText(<<f>>, e),
         NEW new,
         new = IF f.index = NoIndex THEN last
               ELSE [i \in DOMAIN last \cup {f.index} |->
                       IF i = f.index THEN Len(es) + 1 ELSE last[i]]
  PROVE  Gathers(Append(all, f), Append(es, e), new)
<1> DEFINE n == Len(all)
           N == Len(es)
           bll == Append(all, f)
           fs == Append(es, e)
<1>1. n \in Nat /\ Len(bll) = n + 1 /\ bll[n + 1] = f /\ \A k \in 1..n : bll[k] = all[k]
  BY OneFragmentMore
<1>2. /\ IsList(es) /\ Indexes(es, last) /\ \A m \in 1..N : Whole(all, es[m])
      /\ Covered(all, es) /\ Apart(es) /\ InOrder(all, es)
  BY DEF Gathers
<1>3. /\ IsList(fs) /\ N \in Nat /\ Len(fs) = N + 1 /\ fs[N + 1] = e
      /\ \A m \in 1..N : fs[m] = es[m]
  BY <1>2, ListAppend
<1>4. \A m \in 1..N : Whole(bll, es[m])
  BY <1>2, WholeStill
<1>5. Whole(bll, e)
  BY WholeNew
<1>6. \A m \in 1..N : \A j \in 1..Len(es[m].from) : es[m].from[j] \in 1..n
  BY <1>1, <1>2, WholeFacts
<1>6a. \A m \in 1..N : 1 \in 1..Len(es[m].from)
  BY <1>1, <1>2, WholeFacts
<1>7. Len(e.from) = 1 /\ e.from[1] = n + 1
  <2> DEFINE from == e.from
  <2>1. from = <<n + 1>>
    OBVIOUS
  <2> HIDE DEF from
  <2>2. Len(from) = 1 /\ from[1] = n + 1
    BY <2>1
  <2> QED BY <2>2 DEF from
<1> HIDE DEF n, N, bll, fs
<1>8. \A m \in 1..Len(fs) : m \in 1..N \/ m = N + 1
  BY <1>3
<1>9. \A m \in 1..Len(fs) : Whole(bll, fs[m])
  BY <1>3, <1>4, <1>5, <1>8
<1>10. Indexes(fs, new)
  <2>1. /\ \A i \in DOMAIN last : i # NoIndex /\ last[i] \in 1..N /\ es[last[i]].index = i
        /\ \A m \in 1..N : es[m].index # NoIndex =>
             es[m].index \in DOMAIN last /\ m <= last[es[m].index]
    BY <1>2 DEF Indexes, N
  <2>2. CASE f.index = NoIndex
    <3>1. new = last
      BY <2>2
    <3>2. \A i \in DOMAIN last : last[i] \in 1..Len(fs) /\ fs[last[i]].index = i
      BY <1>3, <2>1
    <3>3. ASSUME NEW m \in 1..Len(fs), fs[m].index # NoIndex
          PROVE  fs[m].index \in DOMAIN last /\ m <= last[fs[m].index]
      BY <1>3, <1>8, <2>1, <2>2, <3>3
    <3> QED BY <2>1, <3>1, <3>2, <3>3 DEF Indexes
  <2>3. CASE f.index # NoIndex
    <3>1. new = [i \in DOMAIN last \cup {f.index} |-> IF i = f.index THEN N + 1 ELSE last[i]]
      BY <2>3 DEF N
    <3>2. /\ DOMAIN new = DOMAIN last \cup {f.index} /\ new[f.index] = N + 1
          /\ \A i \in DOMAIN last : i # f.index => new[i] = last[i]
      BY <3>1
    <3>3. ASSUME NEW i \in DOMAIN new
          PROVE  i # NoIndex /\ new[i] \in 1..Len(fs) /\ fs[new[i]].index = i
      <4>1. CASE i = f.index
        BY <1>3, <2>3, <3>2, <4>1
      <4>2. CASE i # f.index
        <5>1. i \in DOMAIN last /\ new[i] = last[i]
          BY <3>2, <3>3, <4>2
        <5> QED BY <1>3, <2>1, <5>1
      <4> QED BY <4>1, <4>2
    <3>4. ASSUME NEW m \in 1..Len(fs), fs[m].index # NoIndex
          PROVE  fs[m].index \in DOMAIN new /\ m <= new[fs[m].index]
      <4>1. CASE fs[m].index = f.index
        BY <1>3, <3>2, <3>4, <4>1
      <4>2. CASE fs[m].index # f.index
        <5>1. m \in 1..N /\ fs[m] = es[m]
          BY <1>3, <1>8, <4>2
        <5> QED BY <2>1, <3>2, <3>4, <4>2, <5>1
      <4> QED BY <4>1, <4>2
    <3> QED BY <3>3, <3>4 DEF Indexes
  <2> QED BY <2>2, <2>3
<1>11. Covered(bll, fs)
  <2> SUFFICES ASSUME NEW k \in 1..Len(bll), bll[k].kind # "null"
               PROVE  \E m \in 1..Len(fs) : In(fs[m], k)
    BY DEF Covered
  <2>1. CASE k = n + 1
    <3>1. In(e, k)
      BY <1>7, <2>1 DEF In
    <3>2. N + 1 \in 1..Len(fs)
      BY <1>3
    <3> QED BY <1>3, <3>1, <3>2
  <2>2. CASE k \in 1..n
    <3>1. PICK m \in 1..N : In(es[m], k)
      BY <1>1, <1>2, <2>2 DEF Covered, n, N
    <3>2. m \in 1..Len(fs) /\ fs[m] = es[m]
      BY <1>3
    <3> QED BY <3>1, <3>2
  <2> QED BY <1>1, <2>1, <2>2
<1>12. Apart(fs)
  <2> SUFFICES ASSUME NEW m \in 1..Len(fs), NEW o \in 1..Len(fs), NEW k,
                      In(fs[m], k), In(fs[o], k)
               PROVE  m = o
    BY DEF Apart
  <2>1. \A x \in 1..N : In(es[x], k) => k \in 1..n
    BY <1>6 DEF In
  <2>2. In(e, k) => k = n + 1
    BY <1>7 DEF In
  <2>3. n + 1 \notin 1..n
    BY <1>1
  <2> QED BY <1>2, <1>3, <1>8, <2>1, <2>2, <2>3 DEF Apart, N
<1>13. InOrder(bll, fs)
  <2> SUFFICES ASSUME NEW m \in 1..Len(fs), NEW o \in 1..Len(fs), m < o
               PROVE  Follow(bll, fs, m, o)
    BY DEF InOrder
  <2>1. m \in 1..N /\ fs[m] = es[m]
    BY <1>3, <1>8
  <2>2. CASE o \in 1..N
    <3>1. Follow(all, es, m, o) /\ fs[o] = es[o]
      BY <1>2, <1>3, <2>1, <2>2 DEF InOrder, N
    <3>2. bll[es[o].from[1]] = all[es[o].from[1]]
      BY <1>1, <1>6, <1>6a, <2>2
    <3>3. Opened(all, es, m, o) => Opened(bll, fs, m, o)
      <4>1. \A x \in (m + 1)..(o - 1) : fs[x] = es[x]
        <5>1. N \in Nat /\ m \in 1..N /\ o \in 1..N
          BY <1>3, <2>1, <2>2
        <5>2. \A x \in (m + 1)..(o - 1) : x \in 1..N
          BY ONLY <5>1
        <5> QED BY <1>3, <5>2
      <4> QED BY <2>1, <3>1, <3>2, <4>1 DEF Opened
    <3> QED BY <2>1, <3>1, <3>3 DEF Follow
  <2>3. CASE o = N + 1
    <3>1. fs[o] = e /\ fs[o].from[1] = n + 1
      BY <1>3, <1>7, <2>3
    <3>2. \A j \in 1..Len(es[m].from) : es[m].from[j] < n + 1
      BY <1>1, <1>6, <2>1
    <3>3. es[m].from[1] < n + 1
      BY <1>6a, <2>1, <3>2
    <3>4. ASSUME es[m].index = e.index, e.index # NoIndex PROVE Opened(bll, fs, m, o)
      <4> DEFINE p == last[f.index]
      <4>1. f.index \in DOMAIN last /\ m <= p /\ p \in 1..N /\ es[p].index = f.index
        BY <1>2, <2>1, <3>4 DEF Indexes, N
      <4>2. CASE m = p
        <5>1. f.type # NoType /\ es[m].type # NoType /\ f.type # es[m].type
          BY <4>1, <4>2 DEF StartsBlock
        <5> QED BY <1>1, <2>1, <3>1, <5>1 DEF Opened
      <4>3. CASE m # p
        <5> HIDE DEF p
        <5>1. p \in (m + 1)..(o - 1)
          BY <1>3, <2>1, <2>3, <4>1, <4>3
        <5>2. fs[p].index = fs[o].index
          BY <1>3, <3>1, <4>1
        <5> QED BY <5>1, <5>2 DEF Opened
      <4> QED BY <4>2, <4>3
    <3> QED BY <2>1, <3>1, <3>2, <3>3, <3>4 DEF Follow
  <2> QED BY <1>8, <2>2, <2>3
<1> QED BY <1>3, <1>9, <1>10, <1>11, <1>12, <1>13 DEF Gathers, bll, fs

\* A fragment that goes to the last entry of its index.
LEMMA GathersMerged ==
  ASSUME NEW D, Fits(D), NEW all \in Seq(D), NEW f \in D, f.kind # "null",
         NEW es, NEW last, Gathers(all, es, last),
         f.index \in DOMAIN last, ~StartsBlock(es[last[f.index]], f)
  PROVE  Gathers(Append(all, f),
                 [es EXCEPT ![last[f.index]] = Merge(es[last[f.index]], f, Len(all) + 1)],
                 last)
<1> DEFINE n == Len(all)
           N == Len(es)
           bll == Append(all, f)
           p == last[f.index]
           old == es[p]
           e == Merge(old, f, n + 1)
           fs == [es EXCEPT ![p] = e]
<1>1. n \in Nat /\ Len(bll) = n + 1 /\ bll[n + 1] = f /\ \A k \in 1..n : bll[k] = all[k]
  BY OneFragmentMore
<1>2. /\ IsList(es) /\ Indexes(es, last) /\ \A m \in 1..N : Whole(all, es[m])
      /\ Covered(all, es) /\ Apart(es) /\ InOrder(all, es)
  BY DEF Gathers
<1>3. p \in 1..N /\ old.index = f.index /\ f.index # NoIndex
  BY <1>2 DEF Indexes
<1>3a. N \in Nat
  BY <1>2, ListAppend
<1>4. /\ IsList(fs) /\ Len(fs) = N /\ fs[p] = e
      /\ \A m \in 1..N : m # p => fs[m] = es[m]
  <2> HIDE DEF e, p
  <2> QED BY <1>2, <1>3, ListReplace
<1>5. Whole(bll, e) /\ e.index = f.index /\ e.from = Append(old.from, n + 1)
  <2>1. Whole(all, old)
    BY <1>2, <1>3
  <2> HIDE DEF old
  <2> QED BY <1>3, <2>1, WholeMerged DEF old
<1>6. \A m \in 1..N : Whole(bll, es[m])
  BY <1>2, WholeStill
<1>7. \A m \in 1..N : \A j \in 1..Len(es[m].from) : es[m].from[j] \in 1..n
  BY <1>1, <1>2, WholeFacts
<1>8. \A m \in 1..N : Len(es[m].from) \in Nat /\ 1 \in 1..Len(es[m].from)
  BY <1>1, <1>2, WholeFacts
<1> DEFINE L == Len(old.from)
<1>9. /\ Len(e.from) = L + 1 /\ e.from[L + 1] = n + 1 /\ L \in Nat /\ 1 \in 1..L
      /\ \A j \in 1..L : e.from[j] = old.from[j]
  <2> DEFINE from == old.from
  <2>1. from \in Seq(1..n)
    BY <1>2, <1>3 DEF Whole
  <2>2. e.from = Append(from, n + 1)
    BY <1>5
  <2>3. 1 \in 1..Len(from)
    BY <1>3, <1>8
  <2>4. IsList(from)
    BY <2>1 DEF IsList
  <2> HIDE DEF e, from
  <2> QED BY <2>2, <2>3, <2>4, ListAppend DEF from
<1> HIDE DEF n, N, bll, fs, e, old, p, L
<1>10. \A k : In(e, k) <=> In(old, k) \/ k = n + 1
  <2>1. \A j : j \in 1..(L + 1) <=> j \in 1..L \/ j = L + 1
    BY <1>9
  <2> QED BY <1>9, <2>1 DEF In, L
<1>11. es[p] = old
  BY DEF old
<1>12. \A m \in 1..Len(fs) : Whole(bll, fs[m])
  BY <1>4, <1>5, <1>6
<1>13. \A m \in 1..N : fs[m].index = es[m].index
  BY <1>3, <1>4, <1>5, <1>11
<1>14. \A m \in 1..N : fs[m].from[1] = es[m].from[1] /\ es[m].from[1] \in 1..n
  <2>1. e.from[1] = old.from[1]
    BY <1>9
  <2> QED BY <1>4, <1>7, <1>8, <1>11, <2>1
<1>15. Indexes(fs, last)
  BY <1>2, <1>4, <1>13 DEF Indexes, N
<1>16. Covered(bll, fs)
  <2> SUFFICES ASSUME NEW k \in 1..Len(bll), bll[k].kind # "null"
               PROVE  \E m \in 1..Len(fs) : In(fs[m], k)
    BY DEF Covered
  <2>1. CASE k = n + 1
    BY <1>3, <1>4, <1>10, <2>1
  <2>2. CASE k \in 1..n
    <3>1. PICK m \in 1..N : In(es[m], k)
      BY <1>1, <1>2, <2>2 DEF Covered, n, N
    <3>2. In(fs[m], k)
      BY <1>4, <1>10, <1>11, <3>1
    <3> QED BY <1>4, <3>2
  <2> QED BY <1>1, <2>1, <2>2
<1>17. Apart(fs)
  <2> SUFFICES ASSUME NEW m \in 1..Len(fs), NEW o \in 1..Len(fs), NEW k,
                      In(fs[m], k), In(fs[o], k)
               PROVE  m = o
    BY DEF Apart
  <2>1. \A x \in 1..N : In(es[x], k) => k \in 1..n
    BY <1>7 DEF In
  <2>2. \A x \in 1..N : In(fs[x], k) => In(es[x], k) \/ (x = p /\ k = n + 1)
    BY <1>4, <1>10, <1>11
  <2>3. n + 1 \notin 1..n
    BY <1>1
  <2> QED BY <1>2, <1>4, <2>1, <2>2, <2>3 DEF Apart, N
<1>18. InOrder(bll, fs)
  <2> SUFFICES ASSUME NEW m \in 1..N, NEW o \in 1..N, m < o
               PROVE  Follow(bll, fs, m, o)
    BY <1>4 DEF InOrder
  <2>1. Follow(all, es, m, o)
    BY <1>2 DEF InOrder, N
  <2>2. fs[m].from[1] < fs[o].from[1]
    BY <1>14, <2>1 DEF Follow
  <2>3. CASE m = p
    <3>1. fs[m].index # fs[o].index
      <4>1. es[o].index = f.index => o <= p
        BY <1>2, <1>3 DEF Indexes, N, p
      <4>2. p \in Nat /\ o \in Nat
        BY <1>3
      <4>3. es[m].index = f.index
        BY <1>3, <2>3 DEF old
      <4> QED BY <1>13, <2>3, <4>1, <4>2, <4>3
    <3> QED BY <2>2, <3>1 DEF Follow
  <2>4. CASE m # p
    <3>1. fs[m] = es[m] /\ bll[fs[o].from[1]] = all[es[o].from[1]]
      BY <1>1, <1>4, <1>14, <2>4
    <3>2. \A x \in (m + 1)..(o - 1) : x \in 1..N
      BY ONLY <1>3a, m \in 1..N, o \in 1..N
    <3>3. Opened(all, es, m, o) => Opened(bll, fs, m, o)
      BY <1>13, <3>1, <3>2 DEF Opened
    <3> QED BY <1>13, <1>14, <2>1, <2>2, <3>1, <3>3 DEF Follow
  <2> QED BY <2>3, <2>4
<1> QED BY <1>2, <1>4, <1>12, <1>15, <1>16, <1>17, <1>18 DEF Gathers, bll, fs, e, old, p, n

LEMMA VerbatimText ==
  ASSUME NEW f, DOMAIN f.keys = {}, NEW id
  PROVE  JoinsText(<<f>>, Verbatim(id))
<1> DEFINE ps == <<f>>
<1>1. \A j \in DOMAIN ps : ps[j] = f
  OBVIOUS
<1> HIDE DEF ps
<1>2. Since(ps) = {}
  BY <1>1 DEF Since, HasText
<1>3. Verbatim(id).fields = <<>> /\ Verbatim(id).cat = <<>> /\ DOMAIN <<>> = {}
  BY DEF Verbatim
<1> QED BY <1>2, <1>3 DEF JoinsText, ps

\* Whatever fragment comes next, all of them are gathered.
LEMMA AddKeeps ==
  ASSUME NEW D, Fits(D), NEW all \in Seq(D), NEW f \in D, NEW a, Gathered(all, a)
  PROVE  Gathered(Append(all, f), Add(a, f, Len(all) + 1))
<1> DEFINE id   == Len(all) + 1
           es   == a.entries
           last == a.byIndex
           b    == Add(a, f, id)
           bll  == Append(all, f)
<1>1. a = [entries |-> es, byIndex |-> last] /\ Gathers(all, es, last) /\ Indexes(es, last)
  BY DEF Gathered, Gathers
<1>2. IsDetail(f)
  BY DEF Fits
<1>3. NoIndex \notin DOMAIN last
  BY <1>1 DEF Indexes
<1> SUFFICES b = [entries |-> b.entries, byIndex |-> b.byIndex]
             /\ Gathers(bll, b.entries, b.byIndex)
  BY DEF Gathered
<1> HIDE DEF es, last, bll
<1>4. CASE f.kind = "null"
  <2>1. b = a
    BY <1>4 DEF Add
  <2>2. Gathers(bll, es, last)
    BY <1>1, <1>4, GathersSame DEF bll
  <2>3. b.entries = es /\ b.byIndex = last
    BY <2>1 DEF es, last
  <2> HIDE DEF b
  <2> QED BY <1>1, <2>1, <2>2, <2>3
<1>5. CASE f.kind = "verbatim"
  <2> DEFINE e == Verbatim(id)
             new == Append(es, e)
  <2>1. f.kind # "null" /\ f.index = NoIndex /\ f.type = NoType /\ DOMAIN f.keys = {}
    BY <1>2, <1>5 DEF IsDetail
  <2>2. e.from = <<id>> /\ e.index = f.index /\ e.type = f.type
    BY <2>1 DEF Verbatim
  <2>3. JoinsText(<<f>>, e)
    BY <2>1, VerbatimText
  <2>4. b = [a EXCEPT !.entries = new]
    BY <1>5, <2>1 DEF Add, es
  <2> HIDE DEF e, id
  <2>5. Gathers(bll, new, last)
    <3>1. f.index \in DOMAIN last => StartsBlock(es[last[f.index]], f)
      BY <1>3, <2>1
    <3>2. last = IF f.index = NoIndex THEN last
                 ELSE [i \in DOMAIN last \cup {f.index} |->
                         IF i = f.index THEN Len(es) + 1 ELSE last[i]]
      BY <2>1
    <3> QED BY <1>1, <2>1, <2>2, <2>3, <3>1, <3>2, GathersNew DEF bll, id
  <2> HIDE DEF new, b
  <2>6. b = [entries |-> new, byIndex |-> last]
    BY <1>1, <2>4
  <2>7. b.entries = new /\ b.byIndex = last
    BY <2>6
  <2> QED BY <2>5, <2>6, <2>7
<1>6. CASE f.kind = "object"
  <2>1. f.kind # "null" /\ f.kind # "verbatim"
    BY <1>6
  <2>2. CASE f.index \in DOMAIN last /\ ~StartsBlock(es[last[f.index]], f)
    <3> DEFINE p == last[f.index]
               new == [es EXCEPT ![p] = Merge(es[p], f, id)]
    <3>1. b = [a EXCEPT !.entries[p] = Merge(@, f, id)]
      BY <2>1, <2>2 DEF Add, es, last
    <3>2. Gathers(bll, new, last)
      BY <1>1, <2>1, <2>2, GathersMerged DEF bll
    <3>3. b = [a EXCEPT !.entries = new]
      BY <3>1 DEF es
    <3> HIDE DEF new, b
    <3>4. b = [entries |-> new, byIndex |-> last]
      BY <1>1, <3>3
    <3>5. b.entries = new /\ b.byIndex = last
      BY <3>4
    <3> QED BY <3>2, <3>4, <3>5
  <2>3. CASE ~(f.index \in DOMAIN last /\ ~StartsBlock(es[last[f.index]], f))
    <3> DEFINE e == NewEntry(f, id)
               new == Append(es, e)
               to == IF f.index = NoIndex THEN last
                     ELSE [i \in DOMAIN last \cup {f.index} |->
                             IF i = f.index THEN Len(es) + 1 ELSE last[i]]
    <3>1. b = Start(a, f, id)
      BY <2>1, <2>3 DEF Add, es, last
    <3>2. b = [entries |-> new, byIndex |-> to]
      BY <3>1 DEF Start, Opens, es, last
    <3>3. e.from = <<id>> /\ e.index = f.index /\ e.type = f.type
      BY DEF NewEntry
    <3>4. JoinsText(<<f>>, e)
      BY TextBegins
    <3> HIDE DEF e, id, to
    <3>5. Gathers(bll, new, to)
      BY <1>1, <2>1, <2>3, <3>3, <3>4, GathersNew DEF bll, id, to
    <3> HIDE DEF new, b
    <3>6. b.entries = new /\ b.byIndex = to
      BY <3>2
    <3> QED BY <3>2, <3>5, <3>6
  <2> QED BY <2>2, <2>3
<1>7. f.kind \in {"object", "null", "verbatim"}
  BY <1>2 DEF IsDetail
<1> QED BY <1>4, <1>5, <1>6, <1>7

\* The accumulator after each of the fragments of a chunk, with n before them.
Adds(g, a, fs, n) ==
  /\ g[0] = a
  /\ \A k \in 1..Len(fs) : g[k] = Add(g[k - 1], fs[k], n + k)

\* There is one, whatever the accumulators are.
LEMMA AddsExist ==
  ASSUME NEW D, NEW fs \in Seq(D), NEW a, NEW n
  PROVE  \E g : Adds(g, a, fs, n)
<1> DEFINE N == Len(fs)
           Upto(g, m) == g[0] = a /\ \A k \in 1..m : g[k] = Add(g[k - 1], fs[k], n + k)
           S == {m \in 0..N : \E g : Upto(g, m)}
<1>1. N \in Nat
  OBVIOUS
<1> HIDE DEF N
<1>2. 0 \in S
  <2> DEFINE g == [k \in {0} |-> a]
  <2>1. g[0] = a /\ \A k \in 1..0 : FALSE
    OBVIOUS
  <2> HIDE DEF g
  <2>2. Upto(g, 0)
    BY <2>1
  <2>3. 0 \in 0..N
    BY <1>1
  <2> QED BY <2>2, <2>3
<1>3. ASSUME NEW m \in 1..N, m - 1 \in S PROVE m \in S
  <2>1. PICK g : Upto(g, m - 1)
    BY <1>3
  <2> DEFINE next == Add(g[m - 1], fs[m], n + m)
             h == [k \in 0..m |-> IF k = m THEN next ELSE g[k]]
  <2>2. m \in Nat /\ m \in 0..N /\ m # 0 /\ 0 \in 0..m /\ m \in 0..m
        /\ (\A k \in 0..(m - 1) : k \in 0..m /\ k # m)
        /\ 0 \in 0..(m - 1) /\ m - 1 \in 0..(m - 1)
        /\ \A k \in 1..m : k = m \/ (k \in 1..(m - 1) /\ k \in 0..(m - 1) /\ k - 1 \in 0..(m - 1))
    BY <1>1
  <2> HIDE DEF next
  <2>3. h[m] = next /\ \A k \in 0..(m - 1) : h[k] = g[k]
    BY <2>2
  <2> HIDE DEF h
  <2>4. g[0] = a /\ \A k \in 1..(m - 1) : g[k] = Add(g[k - 1], fs[k], n + k)
    BY <2>1
  <2>5. h[0] = a
    BY <2>2, <2>3, <2>4
  <2>6. ASSUME NEW k \in 1..m PROVE h[k] = Add(h[k - 1], fs[k], n + k)
    <3>1. CASE k = m
      BY <2>2, <2>3, <3>1 DEF next
    <3>2. CASE k # m
      BY <2>2, <2>3, <2>4, <3>2
    <3> QED BY <3>1, <3>2
  <2>7. Upto(h, m)
    BY <2>5, <2>6
  <2> QED BY <2>2, <2>7
<1> HIDE DEF S
<1>4. \A m \in 0..N : m \in S
  BY <1>1, <1>2, <1>3, Climb
<1>5. N \in S
  BY <1>1, <1>4
<1> QED BY <1>5 DEF S, N, Adds

LEMMA AddAllIs ==
  ASSUME NEW D, NEW fs \in Seq(D), NEW a, NEW n, NEW f, Adds(f, a, fs, n)
  PROVE  AddAll(a, fs, n) = f[Len(fs)]
<1> DEFINE N == Len(fs)
           Is(g) == g = [k \in 0..N |-> IF k = 0 THEN a ELSE Add(g[k - 1], fs[k], n + k)]
           h == [k \in 0..N |-> f[k]]
           after == CHOOSE g : Is(g)
<1>1. N \in Nat
  OBVIOUS
<1>2. f[0] = a /\ \A k \in 1..N : f[k] = Add(f[k - 1], fs[k], n + k)
  BY DEF Adds
<1>3. Is(h)
  <2>1. ASSUME NEW k \in 0..N
        PROVE  f[k] = IF k = 0 THEN a ELSE Add(h[k - 1], fs[k], n + k)
    <3>1. k # 0 => k - 1 \in 0..N /\ k \in 1..N
      BY <1>1
    <3> QED BY <1>2, <3>1
  <2> QED BY <2>1
<1> HIDE DEF h
<1>4. Is(after)
  BY <1>3
<1>5. AddAll(a, fs, n) = after[N]
  BY DEF AddAll
<1> HIDE DEF after
<1>6. \A k \in 0..N : after[k] = IF k = 0 THEN a ELSE Add(after[k - 1], fs[k], n + k)
  BY <1>4
<1> HIDE DEF Is
<1>7. Alike(f, after, N)
  <2>1. 0 \in 0..N /\ \A k \in 1..N : k \in 0..N /\ k # 0
    BY <1>1
  <2>2. f[0] = after[0]
    BY <1>2, <1>6, <2>1
  <2>3. ASSUME NEW k \in 1..N, f[k - 1] = after[k - 1] PROVE f[k] = after[k]
    BY <1>2, <1>6, <2>1, <2>3
  <2> QED BY <2>2, <2>3 DEF Alike
<1>8. \A k \in 0..N : f[k] = after[k]
  BY <1>1, <1>7, SameSteps
<1>9. N \in 0..N
  BY <1>1
<1> QED BY <1>5, <1>8, <1>9

\* And after a chunk of them.
LEMMA AddAllKeeps ==
  ASSUME NEW D, Fits(D), NEW all \in Seq(D), NEW fs \in Seq(D), NEW a, Gathered(all, a)
  PROVE  Gathered(all \o fs, AddAll(a, fs, Len(all)))
<1> DEFINE N == Len(fs)
           n == Len(all)
           upTo(k) == all \o SubSeq(fs, 1, k)
<1>1. PICK f : Adds(f, a, fs, n)
  BY AddsExist
<1>2. N \in Nat /\ n \in Nat /\ \A k \in 1..N : fs[k] \in D
  OBVIOUS
<1>3. f[0] = a /\ \A k \in 1..N : f[k] = Add(f[k - 1], fs[k], n + k)
  BY <1>1 DEF Adds
<1>4. AddAll(a, fs, n) = f[N]
  BY <1>1, AddAllIs
<1> DEFINE S == {k \in 0..N : Gathered(upTo(k), f[k])}
<1>5. 0 \in S
  <2>1. upTo(0) = all
    OBVIOUS
  <2>2. 0 \in 0..N
    BY <1>2
  <2> HIDE DEF upTo
  <2>3. Gathered(upTo(0), f[0])
    BY <1>3, <2>1
  <2> QED BY <2>2, <2>3
<1>6. ASSUME NEW k \in 1..N, k - 1 \in S PROVE k \in S
  <2>1. k \in 0..N /\ k - 1 \in 0..N /\ n + (k - 1) + 1 = n + k
    BY <1>2
  <2>2. Gathered(upTo(k - 1), f[k - 1])
    BY <1>6
  <2>3. upTo(k - 1) \in Seq(D) /\ upTo(k) = Append(upTo(k - 1), fs[k])
        /\ Len(upTo(k - 1)) + 1 = n + k
    <3>1. SubSeq(fs, 1, k - 1) \in Seq(D) /\ fs[k] \in D /\ Len(SubSeq(fs, 1, k - 1)) = k - 1
      BY <1>2, <2>1
    <3>2. SubSeq(fs, 1, k) = Append(SubSeq(fs, 1, k - 1), fs[k])
      BY <1>2, <2>1
    <3> DEFINE p == SubSeq(fs, 1, k - 1)
    <3> HIDE DEF p
    <3>3. all \o p \in Seq(D) /\ all \o Append(p, fs[k]) = Append(all \o p, fs[k])
          /\ Len(all \o p) = n + Len(p)
      BY <3>1 DEF p
    <3> QED BY <2>1, <3>1, <3>2, <3>3 DEF p
  <2> HIDE DEF upTo, S, n
  <2>4. Gathered(Append(upTo(k - 1), fs[k]), Add(f[k - 1], fs[k], Len(upTo(k - 1)) + 1))
    BY <1>2, <2>2, <2>3, AddKeeps
  <2>5. Gathered(upTo(k), f[k])
    BY <1>3, <2>3, <2>4
  <2> QED BY <2>1, <2>5 DEF S
<1> HIDE DEF S
<1>7. \A k \in 0..N : k \in S
  BY <1>2, <1>5, <1>6, Climb
<1>8. N \in S
  BY <1>2, <1>7
<1>9. upTo(N) = all \o fs
  OBVIOUS
<1>10. Gathered(upTo(N), f[N])
  BY <1>8 DEF S
<1> QED BY <1>4, <1>9, <1>10

----------------------------------------------------------------------------
(* The stream.                                                             *)

\* What chunks carry of one kind, in the order of the chunks.
Carried(chunks, part) == FlattenSeq([k \in DOMAIN chunks |-> part[chunks[k]]])

CarriesOn(w, c, part) == Carried(Append(w, c), part) = Carried(w, part) \o part[c]

LEMMA CarriedMore ==
  ASSUME NEW C, NEW X, NEW part \in [C -> Seq(X)], NEW w \in Seq(C)
  PROVE  /\ Carried(w, part) \in Seq(X)
         /\ \A c \in C : CarriesOn(w, c, part)
<1> DEFINE n == Len(w)
           ss == [k \in DOMAIN w |-> part[w[k]]]
           Y == Seq(X)
<1>1. n \in Nat /\ DOMAIN w = 1..n /\ \A k \in 1..n : w[k] \in C
  OBVIOUS
<1>2. part \in [C -> Y]
  OBVIOUS
<1> HIDE DEF Y
<1>3. ss \in Seq(Y) /\ Len(ss) = n /\ \A k \in 1..n : ss[k] = part[w[k]]
  <2>1. ss \in [1..n -> Y]
    BY <1>1, <1>2
  <2> QED BY <1>1, <2>1
<1> HIDE DEF ss, n
<1>4. ASSUME NEW c \in C
      PROVE  CarriesOn(w, c, part)
  <2> DEFINE v == Append(w, c)
             x == part[c]
             tt == [k \in DOMAIN v |-> part[v[k]]]
             aa == Append(ss, x)
  <2>1. v \in Seq(C) /\ Len(v) = n + 1 /\ v[n + 1] = c /\ \A k \in 1..n : v[k] = w[k]
    BY Appended DEF n
  <2>2. DOMAIN v = 1..(n + 1)
    BY <2>1
  <2> HIDE DEF v
  <2>3. x \in Y
    BY <1>2
  <2>4. \A k \in 1..(n + 1) : v[k] \in C /\ part[v[k]] \in Y
    <3>1. \A k \in 1..(n + 1) : k \in 1..n \/ k = n + 1
      BY <1>1
    <3>2. \A k \in 1..(n + 1) : v[k] \in C
      BY <1>1, <2>1, <3>1
    <3> QED BY <1>2, <3>2
  <2>5. tt \in Seq(Y) /\ Len(tt) = n + 1 /\ \A k \in 1..(n + 1) : tt[k] = part[v[k]]
    <3>1. tt \in [1..(n + 1) -> Y]
      BY <2>2, <2>4
    <3> QED BY <1>1, <2>2, <3>1
  <2> HIDE DEF tt, x
  <2>6. aa \in Seq(Y) /\ Len(aa) = n + 1 /\ aa[n + 1] = x /\ \A k \in 1..n : aa[k] = ss[k]
    BY <1>3, <2>3, Appended
  <2> HIDE DEF aa
  <2>7. \A k \in 1..Len(tt) : tt[k] = aa[k]
    <3>1. \A k \in 1..Len(tt) : k \in 1..(n + 1) /\ (k \in 1..n \/ k = n + 1)
      BY <1>1, <2>5
    <3>2. tt[n + 1] = x
      BY <1>1, <2>1, <2>5 DEF x
    <3>3. ASSUME NEW k \in 1..n PROVE tt[k] = aa[k]
      <4>1. k \in 1..(n + 1)
        BY <1>1
      <4>2. tt[k] = part[v[k]]
        BY <2>5, <4>1
      <4> QED BY <1>3, <2>1, <2>6, <4>2
    <3> QED BY <2>6, <3>1, <3>2, <3>3
  <2>8. tt = aa
    BY <2>5, <2>6, <2>7, SameElements
  <2>9. FlattenSeq(Append(ss, x)) = FlattenSeq(ss) \o x
    BY <1>3, <2>3, FlattenAppend DEF Y
  <2> QED BY <2>8, <2>9 DEF CarriesOn, Carried, aa, tt, v, x, ss
<1>5. FlattenSeq(ss) \in Seq(X)
  BY <1>3, FlattenType DEF Y
<1> QED BY <1>4, <1>5 DEF Carried, ss

\* The fragments of details that the chunks of a stream may carry.
Pieces == UNION {Range(c.details) : c \in feed}

LEMMA FeedTypes ==
  ASSUME feed \in Feeds
  PROVE  /\ \A c \in feed : /\ c.calls \in Seq(Fragment) /\ c.content \in Seq(Tokens)
                            /\ c.details \in Seq(Pieces)
         /\ Fits(Pieces)
<1>1. \A c \in feed : /\ c.calls \in Seq(Fragment) /\ c.content \in Seq(Tokens)
                      /\ c.details \in Seq(Range(c.details))
                      /\ \A f \in Range(c.details) : IsDetail(f)
  BY FeedAssumption
<1>2. ASSUME NEW c \in feed PROVE c.details \in Seq(Pieces)
  <2> DEFINE R == Range(c.details)
             fs == c.details
  <2>1. R \subseteq Pieces
    BY DEF Pieces
  <2>2. fs \in Seq(R)
    BY <1>1
  <2> HIDE DEF R, fs
  <2>3. fs \in Seq(Pieces)
    BY <2>1, <2>2
  <2> QED BY <2>3 DEF fs
<1>3. Fits(Pieces)
  BY <1>1 DEF Fits, Pieces
<1> QED BY <1>1, <1>2, <1>3

\* What is read of a stream; a chunk's fragments come after all that were read.
LEMMA ReadTypes ==
  ASSUME feed \in Feeds, wire \in Seq(feed)
  PROVE  AllCalls \in Seq(Fragment) /\ AllDetails \in Seq(Pieces)
<1> DEFINE p == [c \in feed |-> c.calls]
           q == [c \in feed |-> c.details]
<1>1. p \in [feed -> Seq(Fragment)] /\ q \in [feed -> Seq(Pieces)]
  BY FeedTypes
<1>2. /\ [k \in DOMAIN wire |-> p[wire[k]]] = [k \in DOMAIN wire |-> wire[k].calls]
      /\ [k \in DOMAIN wire |-> q[wire[k]]] = [k \in DOMAIN wire |-> wire[k].details]
  OBVIOUS
<1>3. AllCalls = Carried(wire, p) /\ AllDetails = Carried(wire, q)
  BY <1>2 DEF AllCalls, AllDetails, Carried
<1> HIDE DEF p, q
<1> QED BY <1>1, <1>3, CarriedMore

LEMMA ReadMore ==
  ASSUME feed \in Feeds, wire \in Seq(feed), NEW c \in feed, wire' = Append(wire, c)
  PROVE  AllCalls' = AllCalls \o c.calls /\ AllDetails' = AllDetails \o c.details
<1> DEFINE p == [x \in feed |-> x.calls]
           q == [x \in feed |-> x.details]
           v == Append(wire, c)
<1>1. p \in [feed -> Seq(Fragment)] /\ q \in [feed -> Seq(Pieces)]
  BY FeedTypes
<1>2. /\ [k \in DOMAIN wire |-> p[wire[k]]] = [k \in DOMAIN wire |-> wire[k].calls]
      /\ [k \in DOMAIN wire |-> q[wire[k]]] = [k \in DOMAIN wire |-> wire[k].details]
  OBVIOUS
<1>3. AllCalls = Carried(wire, p) /\ AllDetails = Carried(wire, q)
  BY <1>2 DEF AllCalls, AllDetails, Carried
<1>4. \A k \in DOMAIN v : v[k] \in feed
  <2>1. v \in Seq(feed)
    OBVIOUS
  <2> HIDE DEF v
  <2> QED BY <2>1
<1>5. /\ [k \in DOMAIN v |-> p[v[k]]] = [k \in DOMAIN v |-> v[k].calls]
      /\ [k \in DOMAIN v |-> q[v[k]]] = [k \in DOMAIN v |-> v[k].details]
  <2> HIDE DEF v
  <2> QED BY <1>4
<1>6. p[c] = c.calls /\ q[c] = c.details
  OBVIOUS
<1> HIDE DEF p, q
<1>7. AllCalls' = Carried(v, p) /\ AllDetails' = Carried(v, q)
  <2>1. wire' = v
    OBVIOUS
  <2> HIDE DEF v
  <2> QED BY <1>5, <2>1 DEF AllCalls, AllDetails, Carried
<1>8. /\ Carried(v, p) = Carried(wire, p) \o p[c]
      /\ Carried(v, q) = Carried(wire, q) \o q[c]
  <2>1. CarriesOn(wire, c, p) /\ CarriesOn(wire, c, q)
    BY <1>1, CarriedMore
  <2> QED BY <2>1 DEF CarriesOn
<1> QED BY <1>3, <1>6, <1>7, <1>8

LEMMA NoneRead == wire = <<>> => AllCalls = <<>> /\ AllDetails = <<>>
<1> SUFFICES ASSUME wire = <<>> PROVE AllCalls = <<>> /\ AllDetails = <<>>
  OBVIOUS
<1>1. DOMAIN wire = {}
  OBVIOUS
<1>2. [k \in DOMAIN wire |-> wire[k].calls] = <<>> /\ [k \in DOMAIN wire |-> wire[k].details] = <<>>
  BY <1>1
<1> QED BY <1>2, FlattenEmpty DEF AllCalls, AllDetails

\* An accumulator with nothing added.
LEMMA NothingGathered == Gathered(<<>>, EmptyAccumulator)
<1> DEFINE a == EmptyAccumulator
<1>1. a = [entries |-> <<>>, byIndex |-> <<>>] /\ a.entries = <<>> /\ a.byIndex = <<>>
  BY DEF EmptyAccumulator
<1>2. IsList(<<>>)
  <2>1. <<>> \in Seq({})
    OBVIOUS
  <2> QED BY <2>1 DEF IsList
<1>3. Len(<<>>) = 0 /\ DOMAIN <<>> = {} /\ \A n : n \notin 1..0
  OBVIOUS
<1>4. Gathers(<<>>, <<>>, <<>>)
  BY <1>2, <1>3 DEF Gathers, Indexes, Covered, Apart, InOrder
<1> HIDE DEF a
<1> QED BY <1>1, <1>4 DEF Gathered, a

\* Why a stream was taken for a reply, and for which.
Concluded ==
  /\ finish # "" => \E k \in DOMAIN wire : wire[k].finish # ""
  /\ result = "ok" => (sawDone \/ finish # "") /\ reply = Normalized
  /\ result = "ok" /\ calls.order = <<>> /\ reply.calls # <<>> => reply.finish \notin {"", "stop"}

StreamInv ==
  /\ feed \in Feeds /\ wire \in Seq(feed) /\ content \in Seq(Tokens)
  /\ Assembled(AllCalls, calls)
  /\ Gathered(AllDetails, details)
  /\ Concluded

LEMMA InitStream == Init => StreamInv
<1> SUFFICES ASSUME Init PROVE StreamInv
  OBVIOUS
<1>1. /\ feed \in Feeds /\ wire = <<>> /\ result = "" /\ finish = ""
      /\ calls = [acc |-> <<>>, order |-> <<>>, shown |-> <<>>]
      /\ content = <<>> /\ details = EmptyAccumulator
  BY DEF Init
<1>2. AllCalls = <<>> /\ AllDetails = <<>>
  BY <1>1, NoneRead
<1>3. calls \in CallStates
  <2>1. <<>> \in Indexed(Call) /\ <<>> \in Indexed(ShownCall)
    BY IndexedFacts
  <2>2. <<>> \in Seq(Int)
    OBVIOUS
  <2> QED BY <1>1, <2>1, <2>2 DEF CallStates
<1>0. /\ calls.acc = <<>> /\ calls.shown = <<>> /\ calls.order = <<>>
      /\ \A i : i \notin DOMAIN <<>>
  <2>1. calls.acc = <<>> /\ calls.shown = <<>> /\ calls.order = <<>>
    BY <1>1
  <2>2. DOMAIN <<>> = {}
    OBVIOUS
  <2> QED BY <2>1, <2>2
<1>4. \A i : At(calls.acc, i, Blank) = Blank /\ At(calls.shown, i, Blank) = Blank
  BY <1>0 DEF At
<1>5. Follows(calls)
  BY <1>4 DEF Follows
<1>6. \A i : Of(<<>>, i) = {}
  BY DEF Of
<1>7. Holds(<<>>, calls)
  <2>1. \A i : Args(<<>>, i) = <<>>
    <3>1. \A i : [k \in DOMAIN <<>> |-> IF k \in Of(<<>>, i) THEN <<>>[k].args ELSE <<>>] = <<>>
      OBVIOUS
    <3> QED BY <3>1, FlattenEmpty DEF Args
  <2>2. \A i, v : Recent(v, Of(<<>>, i)) = ""
    BY <1>6 DEF Recent
  <2> QED BY <1>4, <2>1, <2>2, BlankTypes DEF Holds
<1>8. Listed(<<>>, calls)
  BY <1>0 DEF Listed
<1>9. Assembled(AllCalls, calls)
  BY <1>2, <1>3, <1>5, <1>7, <1>8 DEF Assembled
<1>10. wire \in Seq(feed) /\ content \in Seq(Tokens)
  <2>1. <<>> \in Seq(feed) /\ <<>> \in Seq(Tokens)
    OBVIOUS
  <2> QED BY <1>1, <2>1
<1>11. Concluded
  BY <1>1 DEF Concluded
<1>12. Gathered(AllDetails, details)
  BY <1>1, <1>2, NothingGathered
<1> QED BY <1>1, <1>9, <1>10, <1>11, <1>12 DEF StreamInv

\* Priming distributes over what speaks of no variable.
LEMMA GatheredNext == Gathered(AllDetails', details') => Gathered(AllDetails, details)'
BY DEF Gathered, Gathers, IsList, Indexes, Whole, JoinsText, Parts, Since, PiecesOf,
       HasText, Covered, In, Apart, InOrder, Follow, Opened

LEMMA ReadKeeps == StreamInv /\ ReadChunk => StreamInv'
<1> SUFFICES ASSUME StreamInv, ReadChunk PROVE StreamInv'
  OBVIOUS
<1>1. PICK c \in feed : /\ wire' = Append(wire, c)
                        /\ finish' = Latest(c.finish, finish)
                        /\ calls' = TakeCalls(calls, c.calls)
                        /\ content' = content \o c.content
                        /\ details' = AddAll(details, c.details, Len(AllDetails))
  BY DEF ReadChunk
<1>2. result = "" /\ feed' = feed /\ result' = result
  BY DEF ReadChunk
<1>3. /\ feed \in Feeds /\ wire \in Seq(feed) /\ content \in Seq(Tokens)
      /\ Assembled(AllCalls, calls) /\ Gathered(AllDetails, details) /\ Concluded
  BY DEF StreamInv
<1>4. feed' \in Feeds /\ wire' \in Seq(feed') /\ content' \in Seq(Tokens)
  <2>1. Append(wire, c) \in Seq(feed)
    BY <1>1, <1>3
  <2>2. c.content \in Seq(Tokens)
    BY <1>3, FeedTypes
  <2>3. content \o c.content \in Seq(Tokens)
    BY <1>3, <2>2
  <2> QED BY <1>1, <1>2, <1>3, <2>1, <2>3
<1>5. Assembled(AllCalls, calls)'
  <2>1. AllCalls \in Seq(Fragment) /\ AllCalls' = AllCalls \o c.calls
    BY <1>1, <1>3, ReadTypes, ReadMore
  <2>2. c.calls \in Seq(Fragment)
    BY <1>3, FeedTypes
  <2>3. Assembled(AllCalls \o c.calls, TakeCalls(calls, c.calls))
    BY <1>3, <2>1, <2>2, AssembledAfter
  <2>4. Assembled(AllCalls', calls')
    BY <1>1, <2>1, <2>3
  <2> QED BY <2>4 DEF Assembled, Holds, Follows, Listed
<1>6. Concluded'
  <2>1. finish' # "" => \E k \in DOMAIN wire' : wire'[k].finish # ""
    <3>1. CASE c.finish = ""
      <4>1. finish' = finish
        BY <1>1, <3>1 DEF Latest
      <4>2. \A k \in DOMAIN wire : k \in DOMAIN wire' /\ wire'[k] = wire[k]
        BY <1>1, <1>3
      <4> QED BY <1>3, <4>1, <4>2 DEF Concluded
    <3>2. CASE c.finish # ""
      <4>1. Len(wire) + 1 \in DOMAIN wire' /\ wire'[Len(wire) + 1] = c
        BY <1>1, <1>3
      <4> QED BY <3>2, <4>1
    <3> QED BY <3>1, <3>2
  <2>2. result' # "ok"
    BY <1>2
  <2> QED BY <2>1, <2>2 DEF Concluded
<1>7. Gathered(AllDetails, details)'
  <2>1. AllDetails \in Seq(Pieces) /\ AllDetails' = AllDetails \o c.details
    BY <1>1, <1>3, ReadTypes, ReadMore
  <2>2. c.details \in Seq(Pieces) /\ Fits(Pieces)
    BY <1>3, FeedTypes
  <2>3. Gathered(AllDetails \o c.details, AddAll(details, c.details, Len(AllDetails)))
    BY <1>3, <2>1, <2>2, AddAllKeeps
  <2>4. Gathered(AllDetails', details')
    BY <1>1, <2>1, <2>3
  <2> QED BY <2>4, GatheredNext
<1> QED BY <1>4, <1>5, <1>6, <1>7 DEF StreamInv

LEMMA NoCalls ==
  ASSUME calls.order = <<>>, Normalized.calls # <<>>
  PROVE  Normalized.finish \notin {"", "stop"}
<1> DEFINE args == Extracted(content)
           taken == [k \in DOMAIN args |-> HarmonyCall(k, args[k])]
           said == IF args # <<>> /\ finish \in {"stop", ""} THEN "tool_calls" ELSE finish
<1>1. HasChannel(content)
  <2> SUFFICES ASSUME ~HasChannel(content) PROVE FALSE
    OBVIOUS
  <2>1. Normalized.calls = CallList
    BY DEF Normalized
  <2>2. CallList = <<>>
    BY DEF CallList
  <2> QED BY <2>1, <2>2
<1>2. Normalized.calls = taken /\ Normalized.finish = said
  BY <1>1 DEF Normalized
<1>3. args # <<>>
  <2> SUFFICES ASSUME args = <<>> PROVE FALSE
    OBVIOUS
  <2>1. DOMAIN args = {}
    OBVIOUS
  <2>2. taken = <<>>
    BY <2>1
  <2> QED BY <1>2, <2>2
<1>4. said \notin {"", "stop"}
  <2> HIDE DEF args
  <2> QED BY <1>3
<1> QED BY <1>2, <1>4

LEMMA NextStream == StreamInv /\ [Next]_vars => StreamInv'
<1> SUFFICES ASSUME StreamInv, [Next]_vars PROVE StreamInv'
  OBVIOUS
<1>1. /\ feed \in Feeds /\ wire \in Seq(feed) /\ content \in Seq(Tokens)
      /\ Assembled(AllCalls, calls) /\ Gathered(AllDetails, details) /\ Concluded
  BY DEF StreamInv
<1>2. ASSUME UNCHANGED <<feed, wire, content, calls, details>>
      PROVE  /\ feed' \in Feeds /\ wire' \in Seq(feed') /\ content' \in Seq(Tokens)
             /\ Assembled(AllCalls, calls)' /\ Gathered(AllDetails, details)'
  <2>1. AllCalls' = AllCalls /\ AllDetails' = AllDetails
    BY <1>2 DEF AllCalls, AllDetails
  <2>2. Assembled(AllCalls', calls')
    BY <1>1, <1>2, <2>1
  <2>3. Assembled(AllCalls, calls)'
    BY <2>2 DEF Assembled, Holds, Follows, Listed
  <2>4. Gathered(AllDetails', details')
    BY <1>1, <1>2, <2>1
  <2> QED BY <1>1, <1>2, <2>3, <2>4, GatheredNext
<1>2a. UNCHANGED <<content, calls, finish, details>> => Normalized' = Normalized
  BY DEF Normalized, CallList
<1>3. CASE Break
  <2>1. /\ UNCHANGED <<feed, wire, sawDone, content, calls, finish, details, reply>>
        /\ result' = "error"
    BY <1>3 DEF Break
  <2>2. Concluded'
    BY <1>1, <2>1 DEF Concluded
  <2> QED BY <1>2, <2>1, <2>2 DEF StreamInv
<1>4. CASE End
  <2>1. PICK done \in BOOLEAN :
          /\ sawDone' = done
          /\ \/ Complete(done) /\ result' = "ok" /\ reply' = Normalized
             \/ ~Complete(done) /\ result' = "truncated" /\ UNCHANGED reply
    BY <1>4 DEF End
  <2>2. UNCHANGED <<feed, wire, content, finish, calls, details>>
    BY <1>4 DEF End
  <2>3. finish' # "" => \E k \in DOMAIN wire' : wire'[k].finish # ""
    BY <1>1, <2>2 DEF Concluded
  <2>4. result' = "ok" => (sawDone' \/ finish' # "") /\ reply' = Normalized'
    BY <1>2a, <2>1, <2>2 DEF Complete
  <2>5. result' = "ok" /\ calls'.order = <<>> /\ reply'.calls # <<>>
          => reply'.finish \notin {"", "stop"}
    BY <2>1, <2>2, NoCalls
  <2>6. Concluded'
    BY <2>3, <2>4, <2>5 DEF Concluded
  <2> QED BY <1>2, <2>2, <2>6 DEF StreamInv
<1>5. CASE Parsed \/ UNCHANGED vars
  <2>1. UNCHANGED vars
    BY <1>5 DEF Parsed
  <2>2. UNCHANGED <<feed, wire, content, calls, finish, details, result, sawDone, reply>>
    BY <2>1 DEF vars
  <2>3. Concluded'
    BY <1>1, <1>2a, <2>2 DEF Concluded
  <2> QED BY <1>2, <2>2, <2>3 DEF StreamInv
<1> QED BY <1>3, <1>4, <1>5, ReadKeeps DEF Next

LEMMA StreamAlways == Spec => []StreamInv
BY InitStream, NextStream, PTL DEF Spec

LEMMA Shows == StreamInv => ShownIsAssembled
<1> SUFFICES ASSUME StreamInv, NEW i \in DOMAIN calls.acc
             PROVE  LET call == calls.acc[i]
                        seen == At(calls.shown, i, Blank)
                    IN  seen.id = call.id /\ seen.name = call.name /\ seen.args = call.args
  BY DEF ShownIsAssembled
<1>1. calls \in CallStates /\ Follows(calls)
  BY DEF StreamInv, Assembled
<1>2. i \in Int
  <2>1. calls.acc \in Indexed(Call)
    BY <1>1 DEF CallStates
  <2>2. PICK D \in SUBSET Int : calls.acc \in [D -> Call]
    BY <2>1, IndexedFacts
  <2> QED BY <2>2
<1>3. At(calls.acc, i, Blank) = calls.acc[i]
  BY DEF At
<1> QED BY <1>1, <1>2, <1>3 DEF Follows

LEMMA Sent == StreamInv => CallsAsSent
<1> SUFFICES ASSUME StreamInv PROVE CallsAsSent
  OBVIOUS
<1>1. calls \in CallStates /\ Holds(AllCalls, calls) /\ Listed(AllCalls, calls)
  BY DEF StreamInv, Assembled
<1>2. ASSUME NEW i \in DOMAIN calls.acc
      PROVE  LET call  == calls.acc[i]
                 ids   == {k \in CallsOf(i) : AllCalls[k].id # ""}
                 names == {k \in CallsOf(i) : AllCalls[k].name # ""}
             IN  /\ call.args = FlattenSeq([k \in DOMAIN AllCalls |->
                                  IF k \in CallsOf(i) THEN AllCalls[k].args ELSE <<>>])
                 /\ call.id = IF ids = {} THEN "" ELSE AllCalls[Max(ids)].id
                 /\ call.name = IF names = {} THEN "" ELSE AllCalls[Max(names)].name
  <2> DEFINE all == AllCalls
  <2>1. i \in Int
    <3>1. calls.acc \in Indexed(Call)
      BY <1>1 DEF CallStates
    <3>2. PICK D \in SUBSET Int : calls.acc \in [D -> Call]
      BY <3>1, IndexedFacts
    <3> QED BY <3>2
  <2>2. At(calls.acc, i, Blank) = calls.acc[i]
    BY DEF At
  <2>3. CallsOf(i) = Of(all, i)
    BY DEF CallsOf, Of
  <2>4. /\ calls.acc[i].args = Args(all, i)
        /\ calls.acc[i].id = Recent(Ids(all), Of(all, i))
        /\ calls.acc[i].name = Recent(Names(all), Of(all, i))
    BY <1>1, <2>1, <2>2 DEF Holds
  <2> HIDE DEF all
  <2>5. all \in Seq(Fragment)
    BY ReadTypes DEF StreamInv, all
  <2>6. DOMAIN all = 1..Len(all) /\ Len(all) \in Nat /\ Of(all, i) \in SUBSET (1..Len(all))
    BY <2>5 DEF Of
  <2>7. Recent(Ids(all), Of(all, i))
          = LET ids == {k \in Of(all, i) : all[k].id # ""}
            IN  IF ids = {} THEN "" ELSE all[Max(ids)].id
    <3> DEFINE ids == {k \in Of(all, i) : all[k].id # ""}
               given == {k \in Of(all, i) : Ids(all)[k] # ""}
    <3>1. \A k \in Of(all, i) : Ids(all)[k] = all[k].id
      BY <2>6 DEF Ids
    <3>2. given = ids
      BY <3>1
    <3>3. ids # {} => Max(ids) \in ids
      BY <2>6, GreatestOf
    <3>4. Recent(Ids(all), Of(all, i)) = IF given = {} THEN "" ELSE Ids(all)[Max(given)]
      BY DEF Recent
    <3> QED BY <3>1, <3>2, <3>3, <3>4
  <2>8. Recent(Names(all), Of(all, i))
          = LET names == {k \in Of(all, i) : all[k].name # ""}
            IN  IF names = {} THEN "" ELSE all[Max(names)].name
    <3> DEFINE names == {k \in Of(all, i) : all[k].name # ""}
               given == {k \in Of(all, i) : Names(all)[k] # ""}
    <3>1. \A k \in Of(all, i) : Names(all)[k] = all[k].name
      BY <2>6 DEF Names
    <3>2. given = names
      BY <3>1
    <3>3. names # {} => Max(names) \in names
      BY <2>6, GreatestOf
    <3>4. Recent(Names(all), Of(all, i)) = IF given = {} THEN "" ELSE Names(all)[Max(given)]
      BY DEF Recent
    <3> QED BY <3>1, <3>2, <3>3, <3>4
  <2> QED BY <2>3, <2>4, <2>7, <2>8 DEF Args, all
<1>3. IsInjective(calls.order) /\ Range(calls.order) = DOMAIN calls.acc
  <2>1. IsInjective(calls.order)
    BY <1>1 DEF Listed, IsInjective
  <2>2. \A i : i \in Range(calls.order) <=> \E j \in DOMAIN calls.order : calls.order[j] = i
    BY DEF Range
  <2> QED BY <1>1, <2>1, <2>2 DEF Listed
<1>4. \A j, k \in DOMAIN calls.order : j < k =>
        \E n \in DOMAIN AllCalls :
          /\ AllCalls[n].index = calls.order[j]
          /\ \A m \in 1..n : AllCalls[m].index # calls.order[k]
  BY <1>1 DEF Listed
<1> QED BY <1>2, <1>3, <1>4 DEF CallsAsSent

LEMMA Harmonious == StreamInv => HarmonyExtracted
<1> SUFFICES ASSUME StreamInv, result = "ok", calls.order = <<>>, HasChannel(content)
             PROVE  LET args == [k \in DOMAIN reply.calls |-> reply.calls[k].args]
                    IN  /\ Len(reply.calls) = Cardinality(Headers(content))
                        /\ Prose(reply.content) = DOMAIN reply.content
                        /\ Cardinality(Prose(content)) = Cardinality(Prose(reply.content))
                                                         + Cardinality(Prose(FlattenSeq(args)))
                        /\ args # <<>> => \A k \in DOMAIN Last(args) : ~IsFraming(Last(args)[k])
  BY DEF HarmonyExtracted
<1> DEFINE c == content
           all == Extracted(c)
           made == [k \in DOMAIN all |-> HarmonyCall(k, all[k])]
           args == [k \in DOMAIN reply.calls |-> reply.calls[k].args]
           N == Len(c)
<1>1. content \in Seq(Tokens) /\ reply = Normalized
  BY DEF StreamInv, Concluded
<1>2. reply.calls = made /\ reply.content = Rest(c)
  <2>1. Normalized.calls = made /\ Normalized.content = Rest(c)
    BY DEF Normalized
  <2> QED BY <1>1, <2>1
<1> HIDE DEF c
<1>3. c \in Seq(Tokens)
  BY <1>1 DEF c
<1>4. Extracts(c, N, all) /\ Len(all) = Cardinality(Headers(c))
  BY <1>3, ExtractAll
<1> HIDE DEF all
<1>5. all \in Seq(Seq(Tokens)) /\ LastCall(c, N, all)
      /\ Cardinality(Places(FlattenSeq(all), "prose")) = Cardinality(Spoken(c, N))
  BY <1>4 DEF Extracts
<1>6. DOMAIN all = 1..Len(all) /\ Len(all) \in Nat
  BY <1>5
<1>7. DOMAIN made = 1..Len(all) /\ Len(made) = Len(all)
      /\ \A k \in 1..Len(all) : made[k].args = all[k]
  <2>1. DOMAIN made = 1..Len(all) /\ \A k \in 1..Len(all) : made[k] = HarmonyCall(k, all[k])
    BY <1>6
  <2>2. \A k \in 1..Len(all) : made[k].args = all[k]
    BY <2>1 DEF HarmonyCall
  <2> HIDE DEF made
  <2>3. Len(made) = Len(all)
    BY <1>6, <2>1
  <2> QED BY <2>1, <2>2, <2>3
<1>8. args = all
  <2> HIDE DEF made
  <2>1. args = [k \in 1..Len(all) |-> all[k]]
    BY <1>2, <1>7
  <2>2. all = [k \in 1..Len(all) |-> all[k]]
    BY <1>5
  <2> QED BY <2>1, <2>2
<1> HIDE DEF made, args
<1>9. /\ Prose(Rest(c)) = DOMAIN Rest(c)
      /\ Cardinality(Prose(c)) = Cardinality(Prose(Rest(c))) + Cardinality(Spoken(c, N))
  BY <1>3, RestIs
<1>10. Prose(FlattenSeq(all)) = Places(FlattenSeq(all), "prose")
  BY DEF Prose, Places
<1>11. ASSUME all # <<>> PROVE \A k \in DOMAIN Last(all) : ~IsFraming(Last(all)[k])
  <2>1. PICK h \in Headers(c) : /\ h <= N /\ \A g \in Headers(c) : g <= N => g <= h
                                /\ Last(all) = Argument(c, h)
    BY <1>5, <1>11 DEF LastCall
  <2>2. \A g \in Headers(c) : g \in 1..N
    BY <1>3 DEF Headers
  <2>3. \A g \in Headers(c) : g <= h
    BY <1>3, <2>1, <2>2
  <2>4. \A k \in DOMAIN Argument(c, h) : ~IsFraming(Argument(c, h)[k])
    BY <1>3, <2>2, <2>3, ArgumentIs
  <2> QED BY <2>1, <2>4
<1>12. Len(reply.calls) = Cardinality(Headers(c))
  BY <1>2, <1>4, <1>7
<1>13. Cardinality(Prose(c)) = Cardinality(Prose(reply.content))
                               + Cardinality(Prose(FlattenSeq(args)))
  BY <1>2, <1>5, <1>8, <1>9, <1>10
<1>14. Prose(reply.content) = DOMAIN reply.content
  BY <1>2, <1>9
<1> QED BY <1>8, <1>11, <1>12, <1>13, <1>14 DEF args, c

LEMMA InvDetails ==
  ASSUME StreamInv
  PROVE  LET all == AllDetails
             es  == Entries
         IN  /\ all \in Seq(Pieces) /\ DOMAIN all = 1..Len(all) /\ Len(all) \in Nat
             /\ DOMAIN es = 1..Len(es) /\ Len(es) \in Nat
             /\ \A n \in 1..Len(es) : Whole(all, es[n])
             /\ Covered(all, es) /\ Apart(es) /\ InOrder(all, es)
             /\ \A n \in 1..Len(es) : DOMAIN es[n].from = 1..Len(es[n].from)
             /\ \A n \in 1..Len(es) : \A k : Holding(n, k) <=> In(es[n], k)
<1> DEFINE all == AllDetails
           es  == Entries
<1>1. all \in Seq(Pieces)
  BY ReadTypes DEF StreamInv
<1>2. IsList(es) /\ (\A n \in 1..Len(es) : Whole(all, es[n]))
      /\ Covered(all, es) /\ Apart(es) /\ InOrder(all, es)
  BY DEF StreamInv, Gathered, Gathers, Entries
<1> HIDE DEF all
<1>3. DOMAIN all = 1..Len(all) /\ Len(all) \in Nat
  BY <1>1
<1>4. \A n \in 1..Len(es) : DOMAIN es[n].from = 1..Len(es[n].from)
  BY <1>2, <1>3, WholeFacts
<1>5. \A n \in 1..Len(es) : \A k : Holding(n, k) <=> In(es[n], k)
  BY <1>4 DEF Holding, In
<1> HIDE DEF es
<1>6. DOMAIN es = 1..Len(es) /\ Len(es) \in Nat
  BY <1>2 DEF IsList
<1> QED BY <1>1, <1>2, <1>3, <1>4, <1>5, <1>6 DEF all, es

LEMMA KeptApart == StreamInv => BlocksKeptApart
<1> SUFFICES ASSUME StreamInv PROVE BlocksKeptApart
  OBVIOUS
<1> DEFINE all == AllDetails
           es  == Entries
<1>1. /\ DOMAIN all = 1..Len(all) /\ Len(all) \in Nat
      /\ DOMAIN es = 1..Len(es)
      /\ \A n \in 1..Len(es) : Whole(all, es[n])
      /\ Covered(all, es) /\ Apart(es)
      /\ \A n \in 1..Len(es) : DOMAIN es[n].from = 1..Len(es[n].from)
  BY InvDetails
<1>2. \A n \in 1..Len(es) : \A k : Holding(n, k) <=> In(es[n], k)
  BY InvDetails
<1>3. \A n \in 1..Len(es) : \A j \in 1..Len(es[n].from) : es[n].from[j] \in 1..Len(all)
  BY <1>1, WholeFacts
<1> HIDE DEF all, es
<1>4. ASSUME NEW k \in 1..Len(all)
      PROVE  all[k].kind # "null" <=> \E n \in 1..Len(es) : Holding(n, k)
  <2>1. ASSUME NEW n \in 1..Len(es), Holding(n, k) PROVE all[k].kind # "null"
    <3>1. PICK j \in 1..Len(es[n].from) : es[n].from[j] = k
      BY <1>2, <2>1 DEF In
    <3> QED BY <1>1, <3>1 DEF Whole
  <2>2. ASSUME all[k].kind # "null" PROVE \E n \in 1..Len(es) : Holding(n, k)
    BY <1>1, <1>2, <2>2 DEF Covered
  <2> QED BY <2>1, <2>2
<1>5. ASSUME NEW m \in 1..Len(es), NEW n \in 1..Len(es), NEW k, Holding(m, k), Holding(n, k)
      PROVE  m = n
  BY <1>1, <1>2, <1>5 DEF Apart
<1>6. ASSUME NEW n \in 1..Len(es)
      PROVE  /\ \A j \in DOMAIN es[n].from :
                  /\ es[n].from[j] \in 1..Len(all)
                  /\ all[es[n].from[j]].index = es[n].index
                  /\ all[es[n].from[j]].type \in {NoType, es[n].type}
             /\ \A j, k \in DOMAIN es[n].from :
                  j < k => es[n].from[j] < es[n].from[k] /\ es[n].index # NoIndex
  BY <1>1, <1>3 DEF Whole
<1> QED BY <1>1, <1>4, <1>5, <1>6 DEF BlocksKeptApart, all, es

LEMMA InTheirOrder == StreamInv => BlocksInOrder
<1> SUFFICES ASSUME StreamInv, NEW m \in DOMAIN Entries, NEW n \in DOMAIN Entries, m < n
             PROVE  LET first == Head(Entries[n].from)
                    IN  /\ Head(Entries[m].from) < first
                        /\ Entries[m].index = Entries[n].index /\ Entries[m].index # NoIndex =>
                             /\ \A j \in DOMAIN Entries[m].from : Entries[m].from[j] < first
                             /\ \/ \E o \in m + 1..n - 1 : Entries[o].index = Entries[n].index
                                \/ /\ Entries[m].type # NoType
                                   /\ AllDetails[first].type \notin {NoType, Entries[m].type}
  BY DEF BlocksInOrder
<1> DEFINE all == AllDetails
           es  == Entries
<1>1. /\ Len(all) \in Nat /\ m \in 1..Len(es) /\ n \in 1..Len(es)
      /\ \A x \in 1..Len(es) : Whole(all, es[x])
      /\ InOrder(all, es)
      /\ \A x \in 1..Len(es) : DOMAIN es[x].from = 1..Len(es[x].from)
  BY InvDetails
<1> HIDE DEF all, es
<1>2. Follow(all, es, m, n)
  BY <1>1 DEF InOrder
<1>3. Head(es[m].from) = es[m].from[1] /\ Head(es[n].from) = es[n].from[1]
  BY <1>1 DEF Whole
<1> QED BY <1>1, <1>2, <1>3 DEF Follow, Opened, all, es

LEMMA TextAsSent == StreamInv => TextJoined
<1> SUFFICES ASSUME StreamInv, NEW n \in DOMAIN Entries
             PROVE  LET e     == Entries[n]
                        piece == [j \in DOMAIN e.from |-> AllDetails[e.from[j]]]
                        since == {j \in DOMAIN piece :
                                    /\ HasText(piece[j], "string")
                                    /\ \A k \in DOMAIN piece : k > j => ~HasText(piece[k], "other")}
                    IN  /\ DOMAIN e.fields \cap DOMAIN e.cat = {}
                        /\ "text" \in DOMAIN e.cat <=> since # {}
                        /\ since # {} =>
                             e.cat["text"] = FlattenSeq([j \in DOMAIN piece |->
                               IF j \in since THEN piece[j].keys["text"].pieces ELSE <<>>])
  BY DEF TextJoined
<1> DEFINE all == AllDetails
           e   == Entries[n]
           ps  == Parts(all, e.from)
           piece == [j \in DOMAIN e.from |-> all[e.from[j]]]
           since == {j \in DOMAIN piece :
                       /\ HasText(piece[j], "string")
                       /\ \A k \in DOMAIN piece : k > j => ~HasText(piece[k], "other")}
<1>1. n \in 1..Len(Entries) /\ Whole(all, e) /\ DOMAIN e.from = 1..Len(e.from)
  BY InvDetails
<1>2. JoinsText(ps, e)
  BY <1>1 DEF Whole
<1> HIDE DEF all, e
<1>3. piece = ps
  BY <1>1 DEF Parts
<1> HIDE DEF piece, ps
<1>4. since = Since(ps)
  BY <1>3 DEF Since
<1>5. [j \in DOMAIN piece |-> IF j \in since THEN piece[j].keys["text"].pieces ELSE <<>>]
        = PiecesOf(ps)
  <2> HIDE DEF since
  <2> QED BY <1>3, <1>4 DEF PiecesOf
<1> HIDE DEF since
<1>6. /\ DOMAIN e.fields \cap DOMAIN e.cat = {}
      /\ "text" \in DOMAIN e.cat <=> since # {}
      /\ since # {} =>
           e.cat["text"] = FlattenSeq([j \in DOMAIN piece |->
                             IF j \in since THEN piece[j].keys["text"].pieces ELSE <<>>])
  BY <1>2, <1>4, <1>5 DEF JoinsText
<1> QED BY <1>6 DEF since, piece, e, all

\* Whatever the fragments of a stream are and however they interleave, what the
\* deltas made the caller show of a call is what the parser has of it.
THEOREM AlwaysShownAsAssembled == Spec => []ShownIsAssembled
BY StreamAlways, Shows, PTL

\* Each call of a stream of any length is what the fragments of its index said,
\* and the calls are in the order their indexes appeared.
THEOREM AlwaysAsSent == Spec => []CallsAsSent
BY StreamAlways, Sent, PTL

\* A stream that is taken for a reply was ended with [DONE] or with a finish
\* reason, whatever it held.
THEOREM TruncationAlwaysDetected == Spec => []TruncationDetected
<1>1. StreamInv => TruncationDetected
  BY DEF StreamInv, Concluded, TruncationDetected
<1> QED BY <1>1, StreamAlways, PTL

\* Whatever the content of a Harmony stream is, it becomes one call per header,
\* no prose is lost, and no framing is left in the text or the last call.
THEOREM HarmonyAlwaysExtracted == Spec => []HarmonyExtracted
BY StreamAlways, Harmonious, PTL

\* However the fragments of reasoning details interleave, every one is in one
\* block of its index and type, blocks are in the order they began, and each
\* has the text of its own fragments joined in order.
THEOREM DetailsAlwaysAssembled == Spec => []DetailsAssembled
<1>1. StreamInv => DetailsAssembled
  BY KeptApart, InTheirOrder, TextAsSent DEF DetailsAssembled
<1> QED BY <1>1, StreamAlways, PTL
=============================================================================
