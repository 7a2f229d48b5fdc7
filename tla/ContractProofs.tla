--------------------------- MODULE ContractProofs ---------------------------
(***************************************************************************)
(* What becomes of an input value, for every text: no placeholder of an    *)
(* artifact is left without a value at replay; replaying with the recorded *)
(* values gives the recorded texts; what was typed as an input follows it; *)
(* secrets are in no artifact and no event.                                *)
(*                                                                         *)
(* The lemmas about texts come first: passes over a text, replacements,    *)
(* placeholders, substitution.                                             *)
(***************************************************************************)
EXTENDS Contract, FiniteSetTheorems, SequenceTheorems, WellFoundedInduction, TLAPS

-----------------------------------------------------------------------------
(* Induction.                                                              *)

\* The order of the natural numbers.
Before == {p \in Nat \X Nat : p[1] < p[2]}

\* Induction over the naturals, for a set instead of a predicate.
LEMMA NatSetInduction ==
    ASSUME NEW T, 0 \in T, \A n \in Nat : n \in T => n + 1 \in T
    PROVE  \A n \in Nat : n \in T
<1> SUFFICES ASSUME NEW k \in Nat, k \notin T PROVE FALSE
  OBVIOUS
<1> DEFINE Missing == {n \in Nat : n \notin T}
<1>1. IsWellFoundedOn(Before, Nat)
  BY NatLessThanWellFounded DEF OpToRel, Before
<1>2. PICK n \in Missing : \A m \in Missing : ~(<<m, n>> \in Before)
  <2>1. Missing \subseteq Nat /\ Missing # {}
    OBVIOUS
  <2> HIDE DEF Missing
  <2> QED
    BY <1>1, <2>1, WFMin
<1>3. n # 0 /\ n \in Nat /\ n - 1 \in Nat
  OBVIOUS
<1>4. n - 1 \notin Missing
  <2>1. <<n - 1, n>> \in Before
    BY <1>3 DEF Before
  <2> QED
    BY <1>2, <2>1
<1>5. n - 1 + 1 \in T
  BY <1>3, <1>4
<1> QED
  BY <1>2, <1>3, <1>5

\* Induction downwards, from n + 1 to 1: what holds of a position if it holds of
\* all that come after it, holds of each.
LEMMA Downwards ==
    ASSUME NEW n \in Nat, NEW T,
           \A i \in 1 .. n + 1 : (\A j \in i + 1 .. n + 1 : j \in T) => i \in T
    PROVE  \A i \in 1 .. n + 1 : i \in T
<1> DEFINE U == {k \in Nat : k <= n => \A j \in n + 1 - k .. n + 1 : j \in T}
<1>1. 0 \in U
  <2>1. n + 1 \in 1 .. n + 1 /\ \A j \in n + 1 + 1 .. n + 1 : j \in T
    OBVIOUS
  <2>2. n + 1 \in T
    BY <2>1
  <2> QED
    BY <2>2
<1>2. ASSUME NEW k \in Nat, k \in U PROVE k + 1 \in U
  <2> SUFFICES ASSUME k + 1 <= n PROVE \A j \in n + 1 - (k + 1) .. n + 1 : j \in T
    OBVIOUS
  <2> DEFINE i == n - k
  <2>1. i \in 1 .. n + 1 /\ \A j \in i + 1 .. n + 1 : j \in T
    BY <1>2
  <2>2. i \in T
    BY <2>1
  <2> QED
    BY <2>1, <2>2
<1>3. \A k \in Nat : k \in U
  <2> HIDE DEF U
  <2> QED
    BY <1>1, <1>2, NatSetInduction
<1> QED
  BY <1>3

-----------------------------------------------------------------------------
(* Passes over a text.                                                     *)

\* The recursive function that Pass(output, next) takes the first value of.
IsPass(from, output, next) ==
    from = [i \in 1 .. Len(output) + 1 |->
               IF i > Len(output) THEN <<>> ELSE output[i] \o from[next[i]]]

\* A pass over n positions moves on at each of them.
MovesOn(output, next, n, S) ==
    \A i \in 1 .. n : output[i] \in Seq(S) /\ next[i] \in i + 1 .. n + 1

\* rest[i] is what a pass puts out from position i on.
Unfolds(rest, output, next, n, S) ==
    /\ rest \in [1 .. n + 1 -> Seq(S)]
    /\ rest[1] = Pass(output, next)
    /\ rest[n + 1] = <<>>
    /\ \A i \in 1 .. n : rest[i] = output[i] \o rest[next[i]]

\* A pass that moves on at each position has a result.
LEMMA PassUnfolds ==
    ASSUME NEW S, NEW output, NEW next, NEW n \in Nat, Len(output) = n,
           MovesOn(output, next, n, S)
    PROVE  \E rest : Unfolds(rest, output, next, n, S)
<1> DEFINE Put(i, r) == IF i > n THEN <<>> ELSE output[i] \o r
           Builds(g, k) == g = [i \in n + 1 - k .. n + 1 |-> Put(i, g[next[i]])]
           T == {k \in Nat : k <= n => \E g : Builds(g, k)}
           from == CHOOSE g : IsPass(g, output, next)
<1>0. \A i \in 1 .. n : output[i] \in Seq(S) /\ next[i] \in i + 1 .. n + 1
  BY DEF MovesOn
<1>1. 0 \in T
  <2> DEFINE g == [i \in n + 1 .. n + 1 |-> <<>>]
  <2>1. \A i \in n + 1 .. n + 1 : Put(i, g[next[i]]) = <<>>
    OBVIOUS
  <2> HIDE DEF Put
  <2>2. g = [i \in n + 1 - 0 .. n + 1 |-> Put(i, g[next[i]])]
    BY <2>1
  <2>3. Builds(g, 0)
    BY <2>2
  <2> HIDE DEF g, Builds
  <2> QED
    BY <2>3
<1>2. ASSUME NEW k \in Nat, k \in T PROVE k + 1 \in T
  <2> SUFFICES ASSUME k + 1 <= n PROVE \E g : Builds(g, k + 1)
    <3> HIDE DEF Builds
    <3> QED
      OBVIOUS
  <2>0. PICK g : Builds(g, k)
    <3> HIDE DEF Builds
    <3> QED
      BY <1>2
  <2> DEFINE h == [i \in n + 1 - (k + 1) .. n + 1 |-> Put(i, g[next[i]])]
  <2>1. \A i \in n + 1 - k .. n + 1 : h[i] = g[i]
    <3> HIDE DEF Put
    <3>1. \A i \in n + 1 - k .. n + 1 : g[i] = Put(i, g[next[i]])
      BY <2>0
    <3>2. \A i \in n + 1 - k .. n + 1 : i \in n + 1 - (k + 1) .. n + 1
      OBVIOUS
    <3> QED
      BY <3>1, <3>2
  <2>2. \A i \in n + 1 - (k + 1) .. n : next[i] \in n + 1 - k .. n + 1
    BY <1>0
  <2>3. \A i \in n + 1 - (k + 1) .. n + 1 : Put(i, g[next[i]]) = Put(i, h[next[i]])
    <3> TAKE i \in n + 1 - (k + 1) .. n + 1
    <3>1. CASE i > n
      BY <3>1
    <3>2. CASE i \in n + 1 - (k + 1) .. n
      <4>1. g[next[i]] = h[next[i]]
        BY <2>1, <2>2, <3>2
      <4> HIDE DEF Put
      <4> QED
        BY <4>1
    <3> QED
      BY <3>1, <3>2
  <2>4. Builds(h, k + 1)
    <3> HIDE DEF Put
    <3> QED
      BY <2>3
  <2> HIDE DEF h, Builds
  <2> QED
    BY <2>4
<1>3. n \in T
  <2>1. \A k \in Nat : k \in T
    <3> HIDE DEF T
    <3> QED
      BY <1>1, <1>2, NatSetInduction
  <2> QED
    BY <2>1
<1>4. \E g : IsPass(g, output, next)
  <2>1. PICK g : Builds(g, n)
    <3> HIDE DEF Builds
    <3> QED
      BY <1>3
  <2>2. n + 1 - n = 1
    OBVIOUS
  <2> QED
    BY <2>1, <2>2 DEF IsPass
<1>5. IsPass(from, output, next)
  BY <1>4
<1>6. Pass(output, next) = from[1]
  BY DEF Pass, IsPass
<1> HIDE DEF from
<1>7. /\ DOMAIN from = 1 .. n + 1 /\ from[n + 1] = <<>>
      /\ \A i \in 1 .. n : from[i] = output[i] \o from[next[i]]
  <2>1. from = [i \in 1 .. n + 1 |-> Put(i, from[next[i]])]
    BY <1>5 DEF IsPass
  <2>2. DOMAIN from = 1 .. n + 1 /\ \A i \in 1 .. n + 1 : from[i] = Put(i, from[next[i]])
    <3> HIDE DEF Put
    <3> QED
      BY <2>1
  <2>3. n + 1 \in 1 .. n + 1 /\ n + 1 > n /\ \A i \in 1 .. n : i \in 1 .. n + 1 /\ ~(i > n)
    OBVIOUS
  <2>4. from[n + 1] = <<>>
    BY <2>2, <2>3
  <2>5. ASSUME NEW i \in 1 .. n PROVE from[i] = output[i] \o from[next[i]]
    <3>1. from[i] = Put(i, from[next[i]])
      <4> HIDE DEF Put
      <4> QED
        BY <2>2, <2>3
    <3> QED
      BY <2>3, <3>1
  <2> QED
    BY <2>2, <2>4, <2>5
<1>8. \A i \in 1 .. n + 1 : from[i] \in Seq(S)
  <2> DEFINE W == {i \in 1 .. n + 1 : from[i] \in Seq(S)}
  <2>1. ASSUME NEW i \in 1 .. n + 1, \A j \in i + 1 .. n + 1 : j \in W PROVE i \in W
    <3>1. CASE i = n + 1
      <4>1. <<>> \in Seq(S)
        BY EmptySeq
      <4> QED
        BY <1>7, <3>1, <4>1
    <3>2. CASE i \in 1 .. n
      <4>1. from[next[i]] \in Seq(S) /\ output[i] \in Seq(S)
        BY <1>0, <2>1, <3>2
      <4>2. output[i] \o from[next[i]] \in Seq(S)
        BY <4>1, ConcatProperties
      <4> QED
        BY <1>7, <3>2, <4>2
    <3> QED
      BY <3>1, <3>2
  <2>2. \A i \in 1 .. n + 1 : i \in W
    <3> HIDE DEF W
    <3> QED
      BY <2>1, Downwards
  <2> QED
    BY <2>2
<1>9. from \in [1 .. n + 1 -> Seq(S)]
  <2>1. from = [i \in 1 .. n + 1 |-> Put(i, from[next[i]])]
    BY <1>5 DEF IsPass
  <2> HIDE DEF Put
  <2>2. from = [i \in 1 .. n + 1 |-> from[i]]
    BY <2>1
  <2> QED
    BY <1>8, <2>2
<1> QED
  BY <1>6, <1>7, <1>9 DEF Unfolds

-----------------------------------------------------------------------------
(* Texts and what occurs in them.                                          *)

LEMMA TextIs ==
    ASSUME NEW t \in Text
    PROVE  /\ Len(t) \in Nat /\ DOMAIN t = 1 .. Len(t)
           /\ \A k \in 1 .. Len(t) : t[k] \in Character
           /\ t = <<>> <=> Len(t) = 0
  BY DEF Text

LEMMA TextsEqual ==
    ASSUME NEW s \in Text, NEW t \in Text, Len(s) = Len(t), \A k \in 1 .. Len(s) : s[k] = t[k]
    PROVE  s = t
  BY SeqEqual DEF Text

\* u is s followed by t, character by character.
IsJoin(u, s, t) ==
    /\ u \in Text /\ Len(s) \in Nat /\ Len(t) \in Nat /\ Len(u) = Len(s) + Len(t)
    /\ \A k \in 1 .. Len(s) : u[k] = s[k]
    /\ \A k \in 1 .. Len(t) : u[Len(s) + k] = t[k]

LEMMA Joined ==
    ASSUME NEW s \in Text, NEW t \in Text
    PROVE  IsJoin(s \o t, s, t)
<1>1. /\ s \o t \in Text /\ Len(s \o t) = Len(s) + Len(t)
      /\ \A k \in 1 .. Len(s) + Len(t) :
             (s \o t)[k] = IF k <= Len(s) THEN s[k] ELSE t[k - Len(s)]
  BY ConcatProperties DEF Text
<1>2. Len(s) \in Nat /\ Len(t) \in Nat
  BY TextIs
<1>3. ASSUME NEW k \in 1 .. Len(t) PROVE (s \o t)[Len(s) + k] = t[k]
  <2>1. Len(s) + k \in 1 .. Len(s) + Len(t) /\ ~(Len(s) + k <= Len(s)) /\ Len(s) + k - Len(s) = k
    BY <1>2
  <2> QED
    BY <1>1, <2>1
<1> QED
  BY <1>1, <1>2, <1>3 DEF IsJoin

LEMMA JoinedTwice ==
    ASSUME NEW s \in Text, NEW t \in Text, NEW u \in Text
    PROVE  (s \o t) \o u = s \o (t \o u)
  BY ConcatAssociative DEF Text

LEMMA JoinedEmpty ==
    ASSUME NEW t \in Text
    PROVE  <<>> \in Text /\ t \o <<>> = t /\ <<>> \o t = t
  BY ConcatEmptySeq, EmptySeq DEF Text

\* One character.
LEMMA Single ==
    ASSUME NEW c \in Character
    PROVE  <<c>> \in Text /\ Len(<<c>>) = 1 /\ <<c>>[1] = c
  BY DEF Text

LEMMA PartIs ==
    ASSUME NEW t \in Text, NEW i \in 1 .. Len(t) + 1, NEW j \in 0 .. Len(t), i <= j + 1
    PROVE  /\ SubSeq(t, i, j) \in Text /\ Len(SubSeq(t, i, j)) = j + 1 - i
           /\ \A k \in 1 .. j + 1 - i : SubSeq(t, i, j)[k] = t[i + k - 1]
<1>1. Len(t) \in Nat /\ \A k \in 1 .. Len(t) : t[k] \in Character
  BY TextIs
<1>2. \A k \in i .. j : t[k] \in Character
  BY <1>1
<1>3. /\ SubSeq(t, i, j) \in Seq(Character)
      /\ Len(SubSeq(t, i, j)) = IF i <= j THEN j - i + 1 ELSE 0
      /\ \A k \in 1 .. j - i + 1 : SubSeq(t, i, j)[k] = t[i + k - 1]
  BY <1>1, <1>2, SubSeqProperties
<1>4. j - i + 1 = j + 1 - i /\ (IF i <= j THEN j - i + 1 ELSE 0) = j + 1 - i
  BY <1>1
<1> QED
  BY <1>3, <1>4 DEF Text

\* s occurs in t at i: character by character.
LEMMA AtIs ==
    ASSUME NEW t \in Text, NEW s \in Text, NEW i \in Nat \ {0}
    PROVE  At(t, s, i) <=> /\ i + Len(s) - 1 <= Len(t)
                           /\ \A k \in 1 .. Len(s) : t[i + k - 1] = s[k]
<1> DEFINE j == i + Len(s) - 1
<1>0. Len(t) \in Nat /\ Len(s) \in Nat
  BY TextIs
<1> SUFFICES ASSUME j <= Len(t)
             PROVE  SubSeq(t, i, j) = s <=> \A k \in 1 .. Len(s) : t[i + k - 1] = s[k]
  BY DEF At
<1>1. i \in 1 .. Len(t) + 1 /\ j \in 0 .. Len(t) /\ i <= j + 1 /\ j + 1 - i = Len(s)
  BY <1>0
<1> HIDE DEF j
<1>2. /\ SubSeq(t, i, j) \in Text /\ Len(SubSeq(t, i, j)) = Len(s)
      /\ \A k \in 1 .. Len(s) : SubSeq(t, i, j)[k] = t[i + k - 1]
  BY <1>1, PartIs
<1>3. ASSUME \A k \in 1 .. Len(s) : t[i + k - 1] = s[k] PROVE SubSeq(t, i, j) = s
  BY <1>2, <1>3, TextsEqual
<1> QED
  BY <1>2, <1>3

LEMMA MarksAre ==
    /\ "${" \in Character /\ "}" \in Character /\ "#" \in Character
    /\ "${" \in Marks /\ "}" \in Marks /\ "#" \in Marks
    /\ Letters \subseteq Character /\ Digits \subseteq Character
    /\ "${" \notin Letters \cup Digits /\ "}" \notin Letters \cup Digits
    /\ "#" \notin Letters \cup Digits
  BY CharactersAssumption DEF Marks, Character

\* t is s between two characters.
Encloses(t, a, s, z) ==
    /\ t \in Text /\ Len(s) \in Nat /\ Len(t) = Len(s) + 2
    /\ t[1] = a /\ t[Len(s) + 2] = z
    /\ \A k \in 1 .. Len(s) : t[k + 1] = s[k]

LEMMA Enclosed ==
    ASSUME NEW a \in Character, NEW s \in Text, NEW z \in Character
    PROVE  Encloses((<<a>> \o s) \o <<z>>, a, s, z)
<1>1. PICK first, last : first = <<a>> /\ last = <<z>>
  OBVIOUS
<1>2. /\ first \in Text /\ Len(first) = 1 /\ first[1] = a
      /\ last \in Text /\ Len(last) = 1 /\ last[1] = z
  BY <1>1, Single
<1>3. PICK u : u = first \o s
  OBVIOUS
<1>4. IsJoin(u, first, s)
  BY <1>2, <1>3, Joined
<1>5. u \in Text
  BY <1>4 DEF IsJoin
<1>6. PICK t : t = u \o last
  OBVIOUS
<1>7. IsJoin(t, u, last)
  BY <1>2, <1>5, <1>6, Joined
<1>8. Len(u) = Len(s) + 1 /\ Len(s) \in Nat /\ t \in Text /\ Len(t) = Len(s) + 2
  BY <1>2, <1>4, <1>7 DEF IsJoin
<1>9. u[1] = a /\ \A k \in 1 .. Len(s) : u[k + 1] = s[k]
  BY <1>2, <1>4 DEF IsJoin
<1>10. \A k \in 1 .. Len(s) + 1 : t[k] = u[k]
  BY <1>7, <1>8 DEF IsJoin
<1>11. t[Len(s) + 2] = z
  BY <1>2, <1>7, <1>8 DEF IsJoin
<1>12. Encloses(t, a, s, z)
  BY <1>8, <1>9, <1>10, <1>11 DEF Encloses
<1> QED
  BY <1>1, <1>3, <1>6, <1>12

LEMMA PlaceholderIs ==
    ASSUME NEW name \in Text
    PROVE  Encloses(Placeholder(name), "${", name, "}")
<1>1. Encloses((<<"${">> \o name) \o <<"}">>, "${", name, "}")
  BY MarksAre, Enclosed
<1> QED
  BY <1>1 DEF Placeholder

-----------------------------------------------------------------------------
(* str.replace.                                                            *)

\* rest[i] is what a replacement makes of t from position i on.
Replaces(rest, t, old, new) ==
    /\ rest \in [1 .. Len(t) + 1 -> Text]
    /\ rest[Len(t) + 1] = <<>>
    /\ \A i \in 1 .. Len(t) :
           rest[i] = IF At(t, old, i) THEN new \o rest[i + Len(old)]
                     ELSE <<t[i]>> \o rest[i + 1]

LEMMA ReplaceUnfolds ==
    ASSUME NEW t \in Text, NEW old \in Text, NEW new \in Text, old # <<>>
    PROVE  \E rest : Replaces(rest, t, old, new) /\ rest[1] = Replace(t, old, new)
<1> DEFINE n == Len(t)
           output == [i \in 1 .. n |-> IF At(t, old, i) THEN new ELSE <<t[i]>>]
           next == [i \in 1 .. n |-> IF At(t, old, i) THEN i + Len(old) ELSE i + 1]
<1>1. n \in Nat /\ Len(old) \in Nat /\ Len(old) > 0
  BY TextIs
<1>2. Len(output) = n
  <2>1. DOMAIN output = 1 .. n /\ output \in Seq(Text)
    <3>1. \A i \in 1 .. n : <<t[i]>> \in Text
      BY TextIs, Single
    <3> QED
      BY <1>1, <3>1
  <2> QED
    BY <1>1, <2>1
<1>3. \A i \in 1 .. n : output[i] \in Seq(Character) /\ next[i] \in i + 1 .. n + 1
  <2> TAKE i \in 1 .. n
  <2>1. <<t[i]>> \in Text /\ new \in Text
    BY TextIs, Single
  <2>2. output[i] \in Seq(Character)
    BY <2>1 DEF Text
  <2>3. At(t, old, i) => i + Len(old) - 1 <= n
    BY <1>1, AtIs
  <2> QED
    BY <1>1, <2>2, <2>3
<1>4. Replace(t, old, new) = Pass(output, next)
  BY DEF Replace
<1>5. MovesOn(output, next, n, Character)
  BY <1>3 DEF MovesOn
<1>6. PICK rest : Unfolds(rest, output, next, n, Character)
  <2> HIDE DEF output, next, n
  <2> QED
    BY <1>1, <1>2, <1>5, PassUnfolds
<1> HIDE DEF output, next
<1>7. ASSUME NEW i \in 1 .. n
      PROVE  rest[i] = IF At(t, old, i) THEN new \o rest[i + Len(old)] ELSE <<t[i]>> \o rest[i + 1]
  <2>1. /\ output[i] = IF At(t, old, i) THEN new ELSE <<t[i]>>
        /\ next[i] = IF At(t, old, i) THEN i + Len(old) ELSE i + 1
    BY DEF output, next
  <2>2. rest[i] = output[i] \o rest[next[i]]
    BY <1>6 DEF Unfolds
  <2> QED
    BY <2>1, <2>2
<1>8. Replaces(rest, t, old, new)
  BY <1>6, <1>7 DEF Unfolds, Replaces, Text
<1> QED
  BY <1>4, <1>6, <1>8 DEF Unfolds

LEMMA ReplaceIsText ==
    ASSUME NEW t \in Text, NEW old \in Text, NEW new \in Text, old # <<>>
    PROVE  Replace(t, old, new) \in Text
<1>1. PICK rest : Replaces(rest, t, old, new) /\ rest[1] = Replace(t, old, new)
  BY ReplaceUnfolds
<1>2. 1 \in 1 .. Len(t) + 1
  BY TextIs
<1> QED
  BY <1>1, <1>2 DEF Replaces

\* u is the character c followed by t.
IsCons(u, c, t) ==
    /\ u \in Text /\ Len(t) \in Nat /\ Len(u) = Len(t) + 1 /\ u[1] = c
    /\ \A k \in 1 .. Len(t) : u[k + 1] = t[k]

LEMMA ConsIs ==
    ASSUME NEW c \in Character, NEW t \in Text
    PROVE  IsCons(<<c>> \o t, c, t)
<1>1. PICK first : first = <<c>>
  OBVIOUS
<1>2. first \in Text /\ Len(first) = 1 /\ first[1] = c
  BY <1>1, Single
<1>3. PICK u : u = first \o t
  OBVIOUS
<1>4. IsJoin(u, first, t)
  BY <1>2, <1>3, Joined
<1>5. IsCons(u, c, t)
  BY <1>2, <1>4 DEF IsJoin, IsCons
<1> QED
  BY <1>1, <1>3, <1>5

\* The two ways in which a replacement goes on from a position.
LEMMA RestGoesOn ==
    ASSUME NEW t \in Text, NEW old \in Text, NEW new \in Text, old # <<>>,
           NEW rest, Replaces(rest, t, old, new), NEW i \in 1 .. Len(t)
    PROVE  \/ /\ At(t, old, i) /\ i + Len(old) \in i + 1 .. Len(t) + 1
              /\ IsJoin(rest[i], new, rest[i + Len(old)])
           \/ ~At(t, old, i) /\ IsCons(rest[i], t[i], rest[i + 1])
<1>1. Len(t) \in Nat /\ Len(old) \in Nat \ {0} /\ t[i] \in Character
  BY TextIs
<1>2. CASE At(t, old, i)
  <2>1. i + Len(old) \in i + 1 .. Len(t) + 1
    BY <1>1, <1>2, AtIs
  <2>2. rest[i + Len(old)] \in Text
    BY <1>1, <2>1 DEF Replaces
  <2>3. rest[i] = new \o rest[i + Len(old)]
    BY <1>2 DEF Replaces
  <2> QED
    BY <1>2, <2>1, <2>2, <2>3, Joined
<1>3. CASE ~At(t, old, i)
  <2>1. rest[i + 1] \in Text
    BY <1>1 DEF Replaces
  <2>2. rest[i] = <<t[i]>> \o rest[i + 1]
    BY <1>3 DEF Replaces
  <2> QED
    BY <1>1, <1>3, <2>1, <2>2, ConsIs
<1> QED
  BY <1>2, <1>3

\* Where a text is copied character by character, it is copied as a whole.
LEMMA CopyRun ==
    ASSUME NEW t \in Text, NEW rest \in [1 .. Len(t) + 1 -> Text],
           NEW i \in 1 .. Len(t) + 1, NEW j \in i .. Len(t) + 1,
           \A k \in i .. j - 1 : rest[k] = <<t[k]>> \o rest[k + 1]
    PROVE  rest[i] = SubSeq(t, i, j - 1) \o rest[j]
<1> DEFINE n == Len(t)
           T == {h \in 1 .. n + 1 : h \in i .. j => rest[h] = SubSeq(t, h, j - 1) \o rest[j]}
<1>1. n \in Nat
  BY TextIs
<1>2. ASSUME NEW h \in 1 .. n + 1, \A g \in h + 1 .. n + 1 : g \in T PROVE h \in T
  <2> SUFFICES ASSUME h \in i .. j PROVE rest[h] = SubSeq(t, h, j - 1) \o rest[j]
    OBVIOUS
  <2>1. CASE h = j
    <3>1. SubSeq(t, h, j - 1) = <<>>
      BY <1>1, <2>1, SubSeqEmpty
    <3>2. rest[j] \in Text
      BY <1>1
    <3>3. <<>> \o rest[j] = rest[j]
      BY <3>2, JoinedEmpty
    <3> QED
      BY <2>1, <3>1, <3>3
  <2>2. CASE h # j
    <3>1. h \in i .. j - 1 /\ h + 1 \in i .. j /\ h + 1 \in h + 1 .. n + 1
          /\ h \in 1 .. n /\ j - 1 \in h .. n
      BY <1>1, <2>2
    <3>2. rest[h + 1] = SubSeq(t, h + 1, j - 1) \o rest[j]
      BY <1>2, <3>1
    <3>3. rest[h] = <<t[h]>> \o rest[h + 1]
      BY <3>1
    <3>4. <<t[h]>> \in Text /\ SubSeq(t, h + 1, j - 1) \in Text /\ rest[j] \in Text
      <4>1. t[h] \in Character
        BY <3>1, TextIs
      <4>2. h + 1 \in 1 .. n + 1 /\ j - 1 \in 0 .. n /\ h + 1 <= j - 1 + 1
        BY <1>1, <3>1
      <4>3. <<t[h]>> \in Text
        BY <4>1, Single
      <4>4. SubSeq(t, h + 1, j - 1) \in Text
        BY <4>2, PartIs
      <4>5. rest[j] \in Text
        BY <1>1
      <4> QED
        BY <4>3, <4>4, <4>5
    <3>5. SubSeq(t, h, j - 1) = <<t[h]>> \o SubSeq(t, h + 1, j - 1)
      BY <3>1, SubSeqRecursiveFirst DEF Text
    <3>6. (<<t[h]>> \o SubSeq(t, h + 1, j - 1)) \o rest[j]
              = <<t[h]>> \o (SubSeq(t, h + 1, j - 1) \o rest[j])
      BY <3>4, JoinedTwice
    <3> QED
      BY <3>2, <3>3, <3>5, <3>6
  <2> QED
    BY <2>1, <2>2
<1>3. \A h \in 1 .. n + 1 : h \in T
  <2> HIDE DEF T, n
  <2> QED
    BY <1>1, <1>2, Downwards
<1>4. i \in i .. j /\ i \in 1 .. n + 1
  BY <1>1
<1> QED
  BY <1>3, <1>4

\* A text in which old does not occur stays as it is.
LEMMA ReplaceNothing ==
    ASSUME NEW t \in Text, NEW old \in Text, NEW new \in Text, old # <<>>, ~Occurs(old, t)
    PROVE  Replace(t, old, new) = t
<1>1. PICK rest : Replaces(rest, t, old, new) /\ rest[1] = Replace(t, old, new)
  BY ReplaceUnfolds
<1>2. Len(t) \in Nat
  BY TextIs
<1>3. rest \in [1 .. Len(t) + 1 -> Text] /\ rest[Len(t) + 1] = <<>>
  BY <1>1 DEF Replaces
<1>4. PICK j : j = Len(t) + 1
  OBVIOUS
<1>5. j \in 1 .. Len(t) + 1 /\ 1 \in 1 .. Len(t) + 1 /\ j - 1 = Len(t)
  BY <1>2, <1>4
<1>6. ASSUME NEW k \in 1 .. j - 1 PROVE rest[k] = <<t[k]>> \o rest[k + 1]
  <2>1. k \in 1 .. Len(t)
    BY <1>5
  <2>2. ~At(t, old, k)
    BY <2>1 DEF Occurs
  <2> QED
    BY <1>1, <2>1, <2>2 DEF Replaces
<1>7. rest[1] = SubSeq(t, 1, j - 1) \o rest[j]
  BY <1>3, <1>5, <1>6, CopyRun
<1>8. SubSeq(t, 1, Len(t)) = t
  BY SubSeqFull DEF Text
<1>9. t \o <<>> = t
  BY JoinedEmpty
<1> QED
  BY <1>1, <1>3, <1>4, <1>5, <1>7, <1>8, <1>9

\* A text that is old becomes new.
LEMMA ReplaceWhole ==
    ASSUME NEW old \in Text, NEW new \in Text, old # <<>>
    PROVE  Replace(old, old, new) = new
<1>1. PICK rest : Replaces(rest, old, old, new) /\ rest[1] = Replace(old, old, new)
  BY ReplaceUnfolds
<1>2. Len(old) \in Nat \ {0}
  BY TextIs
<1>3. 1 \in Nat \ {0} /\ 1 + Len(old) - 1 <= Len(old)
      /\ \A k \in 1 .. Len(old) : old[1 + k - 1] = old[k]
  BY <1>2
<1>4. At(old, old, 1)
  BY <1>3, AtIs
<1>5. rest[1] = new \o rest[1 + Len(old)] /\ 1 + Len(old) = Len(old) + 1
      /\ rest[Len(old) + 1] = <<>>
  <2>1. 1 \in 1 .. Len(old) /\ 1 + Len(old) = Len(old) + 1
    BY <1>2
  <2>2. rest[1] = new \o rest[1 + Len(old)]
    BY <1>1, <1>4, <2>1 DEF Replaces
  <2>3. rest[Len(old) + 1] = <<>>
    BY <1>1 DEF Replaces
  <2> QED
    BY <2>1, <2>2, <2>3
<1>6. new \o <<>> = new
  BY JoinedEmpty
<1> QED
  BY <1>1, <1>5, <1>6

\* What occurs in a text that is put together occurs in one of its parts, or across.
LEMMA AtJoin ==
    ASSUME NEW s \in Text, NEW t \in Text, NEW u, IsJoin(u, s, t),
           NEW v \in Text, v # <<>>, NEW p \in 1 .. Len(u), At(u, v, p)
    PROVE  \/ p - Len(s) \in 1 .. Len(t) /\ At(t, v, p - Len(s))
           \/ p \in 1 .. Len(s) /\ At(s, v, p)
           \/ \E k \in 1 .. Len(v) - 1 : v[k] = s[Len(s)]
<1>1. /\ Len(s) \in Nat /\ Len(t) \in Nat /\ Len(v) \in Nat \ {0} /\ u \in Text
      /\ Len(u) = Len(s) + Len(t) /\ p \in Nat \ {0}
  BY TextIs DEF IsJoin
<1>2. p + Len(v) - 1 <= Len(u) /\ \A k \in 1 .. Len(v) : u[p + k - 1] = v[k]
  BY <1>1, AtIs
<1>3. CASE p > Len(s)
  <2>1. p - Len(s) \in 1 .. Len(t) /\ p - Len(s) + Len(v) - 1 <= Len(t)
    BY <1>1, <1>2, <1>3
  <2>2. ASSUME NEW k \in 1 .. Len(v) PROVE t[p - Len(s) + k - 1] = v[k]
    <3>1. p - Len(s) + k - 1 \in 1 .. Len(t) /\ Len(s) + (p - Len(s) + k - 1) = p + k - 1
      BY <1>1, <1>2, <2>1
    <3>2. u[Len(s) + (p - Len(s) + k - 1)] = t[p - Len(s) + k - 1]
      BY <3>1 DEF IsJoin
    <3> QED
      BY <1>2, <3>1, <3>2
  <2>3. PICK q : q = p - Len(s)
    OBVIOUS
  <2>4. q \in Nat \ {0} /\ q + Len(v) - 1 <= Len(t) /\ \A k \in 1 .. Len(v) : t[q + k - 1] = v[k]
    BY <1>1, <2>1, <2>2, <2>3
  <2>5. At(t, v, q)
    BY <2>4, AtIs
  <2> QED
    BY <2>1, <2>3, <2>5
<1>4. CASE p + Len(v) - 1 <= Len(s)
  <2>1. p \in 1 .. Len(s) /\ \A k \in 1 .. Len(v) : p + k - 1 \in 1 .. Len(s)
    BY <1>1, <1>4
  <2>2. \A k \in 1 .. Len(v) : s[p + k - 1] = v[k]
    BY <1>2, <2>1 DEF IsJoin
  <2> QED
    BY <1>1, <1>4, <2>1, <2>2, AtIs
<1>5. CASE p <= Len(s) /\ p + Len(v) - 1 > Len(s)
  <2>1. Len(s) - p + 1 \in 1 .. Len(v) - 1 /\ Len(s) - p + 1 \in 1 .. Len(v)
        /\ p + (Len(s) - p + 1) - 1 = Len(s) /\ Len(s) \in 1 .. Len(s)
    BY <1>1, <1>5
  <2>2. u[Len(s)] = s[Len(s)]
    BY <2>1 DEF IsJoin
  <2>3. u[Len(s)] = v[Len(s) - p + 1]
    BY <1>2, <2>1
  <2> QED
    BY <2>1, <2>2, <2>3
<1> QED
  BY <1>1, <1>3, <1>4, <1>5

LEMMA AtCons ==
    ASSUME NEW c, NEW t \in Text, NEW u, IsCons(u, c, t),
           NEW v \in Text, v # <<>>, NEW p \in 2 .. Len(u), At(u, v, p)
    PROVE  p - 1 \in 1 .. Len(t) /\ At(t, v, p - 1)
<1>1. Len(t) \in Nat /\ Len(v) \in Nat \ {0} /\ u \in Text /\ Len(u) = Len(t) + 1
      /\ p \in Nat \ {0}
  BY TextIs DEF IsCons
<1>2. p + Len(v) - 1 <= Len(u) /\ \A k \in 1 .. Len(v) : u[p + k - 1] = v[k]
  BY <1>1, AtIs
<1>3. p - 1 \in 1 .. Len(t) /\ p - 1 + Len(v) - 1 <= Len(t) /\ p - 1 \in Nat \ {0}
  BY <1>1, <1>2
<1>4. ASSUME NEW k \in 1 .. Len(v) PROVE t[p - 1 + k - 1] = v[k]
  <2>1. p - 1 + k - 1 \in 1 .. Len(t) /\ p - 1 + k - 1 + 1 = p + k - 1
    BY <1>1, <1>2
  <2>2. u[p - 1 + k - 1 + 1] = t[p - 1 + k - 1]
    BY <2>1 DEF IsCons
  <2> QED
    BY <1>2, <2>1, <2>2
<1> QED
  BY <1>3, <1>4, AtIs

\* A character of a text that is no mark.
Plain(t) == \A k \in 1 .. Len(t) : t[k] \notin Marks

\* What a replacement puts out up to the next beginning of new is copied.
Copied(rest, t, new, i) ==
    \A m \in 1 .. Len(rest[i]) :
        (\A k \in 1 .. m : rest[i][k] # new[1]) =>
            i + m - 1 <= Len(t) /\ \A k \in 1 .. m : t[i + k - 1] = rest[i][k]

LEMMA PrefixCopied ==
    ASSUME NEW t \in Text, NEW old \in Text, NEW new \in Text, old # <<>>, new # <<>>,
           NEW rest, Replaces(rest, t, old, new)
    PROVE  \A i \in 1 .. Len(t) + 1 : Copied(rest, t, new, i)
<1> DEFINE n == Len(t)
           T == {i \in 1 .. n + 1 : Copied(rest, t, new, i)}
<1>1. n \in Nat /\ Len(new) \in Nat \ {0}
  BY TextIs
<1>2. ASSUME NEW i \in 1 .. n + 1, \A j \in i + 1 .. n + 1 : j \in T PROVE i \in T
  <2>1. CASE i = n + 1
    <3>1. Len(rest[i]) = 0
      BY <2>1 DEF Replaces
    <3> QED
      BY <3>1 DEF Copied
  <2>2. CASE i \in 1 .. n /\ IsJoin(rest[i], new, rest[i + Len(old)])
    <3>1. rest[i][1] = new[1]
      BY <1>1, <2>2 DEF IsJoin
    <3>2. \A m \in 1 .. Len(rest[i]) : 1 \in 1 .. m
      BY <2>2 DEF IsJoin
    <3>3. Copied(rest, t, new, i)
      BY <3>1, <3>2 DEF Copied
    <3> QED
      BY <3>3
  <2>3. CASE i \in 1 .. n /\ IsCons(rest[i], t[i], rest[i + 1])
    <3> SUFFICES ASSUME NEW m \in 1 .. Len(rest[i]), \A k \in 1 .. m : rest[i][k] # new[1]
                 PROVE  i + m - 1 <= Len(t) /\ \A k \in 1 .. m : t[i + k - 1] = rest[i][k]
      BY DEF Copied
    <3>1. /\ Len(rest[i + 1]) \in Nat /\ Len(rest[i]) = Len(rest[i + 1]) + 1
          /\ rest[i][1] = t[i] /\ \A k \in 1 .. Len(rest[i + 1]) : rest[i][k + 1] = rest[i + 1][k]
      BY <2>3 DEF IsCons
    <3>2. CASE m = 1
      BY <1>1, <2>3, <3>1, <3>2
    <3>3. CASE m # 1
      <4>1. m - 1 \in 1 .. Len(rest[i + 1]) /\ m \in Nat /\ i + 1 \in i + 1 .. n + 1
            /\ \A k \in 1 .. m - 1 : k + 1 \in 1 .. m /\ k \in 1 .. Len(rest[i + 1])
        BY <1>1, <2>3, <3>1, <3>3
      <4>2. \A k \in 1 .. m - 1 : rest[i + 1][k] # new[1]
        <5> TAKE k \in 1 .. m - 1
        <5>1. rest[i][k + 1] = rest[i + 1][k] /\ rest[i][k + 1] # new[1]
          BY <3>1, <4>1
        <5> QED
          BY <5>1
      <4>3. Copied(rest, t, new, i + 1)
        BY <1>2, <4>1
      <4>4. i + 1 + (m - 1) - 1 <= Len(t)
            /\ \A k \in 1 .. m - 1 : t[i + 1 + k - 1] = rest[i + 1][k]
        BY <4>1, <4>2, <4>3 DEF Copied
      <4>5. ASSUME NEW k \in 1 .. m PROVE t[i + k - 1] = rest[i][k]
        <5>1. CASE k = 1
          BY <2>3, <3>1, <5>1
        <5>2. CASE k # 1
          <6>1. k - 1 \in 1 .. m - 1 /\ i + 1 + (k - 1) - 1 = i + k - 1 /\ k - 1 + 1 = k
            BY <2>3, <4>1, <5>2
          <6>2. t[i + 1 + (k - 1) - 1] = rest[i + 1][k - 1]
            BY <4>4, <6>1
          <6>3. rest[i][k - 1 + 1] = rest[i + 1][k - 1]
            BY <3>1, <4>1, <6>1
          <6> QED
            BY <6>1, <6>2, <6>3
        <5> QED
          BY <5>1, <5>2
      <4>6. i + m - 1 <= Len(t)
        BY <1>1, <2>3, <4>1, <4>4
      <4> QED
        BY <4>5, <4>6
    <3> QED
      BY <3>2, <3>3
  <2>4. i = n + 1 \/ i \in 1 .. n
    BY <1>1
  <2> QED
    BY <2>1, <2>2, <2>3, <2>4, RestGoesOn
<1>3. \A i \in 1 .. n + 1 : i \in T
  <2> HIDE DEF T, n
  <2> QED
    BY <1>1, <1>2, Downwards
<1> QED
  BY <1>3

\* What stands between two marks.
Marked(new) == new # <<>> /\ new[1] \in Marks /\ new[Len(new)] \in Marks

\* A plain text comes out of a replacement only if it was there and is not what is
\* replaced, or if it is in what is put in.
LEMMA NothingNewOccurs ==
    ASSUME NEW t \in Text, NEW old \in Text, NEW new \in Text, old # <<>>, Marked(new),
           NEW v \in Text, v # <<>>, Plain(v), ~Occurs(v, new), Occurs(v, t) => v = old
    PROVE  ~Occurs(v, Replace(t, old, new))
<1>1. PICK rest : Replaces(rest, t, old, new) /\ rest[1] = Replace(t, old, new)
  BY ReplaceUnfolds
<1> DEFINE n == Len(t)
           T == {i \in 1 .. n + 1 : ~Occurs(v, rest[i])}
<1>2. n \in Nat /\ Len(new) \in Nat \ {0} /\ Len(v) \in Nat \ {0} /\ new # <<>>
  BY TextIs DEF Marked
<1>3. \A i \in 1 .. n + 1 : rest[i] \in Text
  BY <1>1 DEF Replaces
<1>4. ASSUME NEW i \in 1 .. n + 1, \A j \in i + 1 .. n + 1 : j \in T PROVE i \in T
  <2> SUFFICES ASSUME NEW p \in 1 .. Len(rest[i]), At(rest[i], v, p) PROVE FALSE
    BY DEF Occurs
  <2>1. i \in 1 .. n
    <3>1. i = n + 1 => Len(rest[i]) = 0
      BY <1>1 DEF Replaces
    <3> QED
      BY <1>2, <3>1
  <2>2. CASE i + Len(old) \in i + 1 .. n + 1 /\ IsJoin(rest[i], new, rest[i + Len(old)])
    <3> DEFINE r == rest[i + Len(old)]
    <3>1. r \in Text /\ ~Occurs(v, r)
      <4>1. i + Len(old) \in 1 .. n + 1
        BY <1>2, <2>2
      <4> QED
        BY <1>3, <1>4, <2>2, <4>1
    <3> HIDE DEF r
    <3>2. IsJoin(rest[i], new, r)
      BY <2>2 DEF r
    <3>3. \/ p - Len(new) \in 1 .. Len(r) /\ At(r, v, p - Len(new))
          \/ p \in 1 .. Len(new) /\ At(new, v, p)
          \/ \E k \in 1 .. Len(v) - 1 : v[k] = new[Len(new)]
      BY <3>1, <3>2, AtJoin
    <3>4. \A k \in 1 .. Len(v) - 1 : v[k] # new[Len(new)]
      BY <1>2 DEF Plain, Marked
    <3> QED
      BY <3>1, <3>3, <3>4 DEF Occurs
  <2>3. CASE ~At(t, old, i) /\ IsCons(rest[i], t[i], rest[i + 1])
    <3>1. i + 1 \in i + 1 .. n + 1 /\ i + 1 \in 1 .. n + 1 /\ p \in Nat \ {0}
      BY <1>2, <2>1
    <3>2. rest[i + 1] \in Text /\ ~Occurs(v, rest[i + 1])
      BY <1>3, <1>4, <3>1
    <3>3. CASE p = 1
      <4>1. 1 + Len(v) - 1 <= Len(rest[i]) /\ \A k \in 1 .. Len(v) : rest[i][1 + k - 1] = v[k]
        <5>1. rest[i] \in Text /\ At(rest[i], v, 1) /\ 1 \in Nat \ {0}
          BY <1>3, <3>3
        <5> QED
          BY <5>1, AtIs
      <4>2. Len(v) \in 1 .. Len(rest[i]) /\ \A k \in 1 .. Len(v) : 1 + k - 1 = k
        BY <1>2, <4>1
      <4>3. \A k \in 1 .. Len(v) : rest[i][k] = v[k] /\ v[k] # new[1]
        BY <4>1, <4>2 DEF Plain, Marked
      <4>4. i + Len(v) - 1 <= Len(t) /\ \A k \in 1 .. Len(v) : t[i + k - 1] = rest[i][k]
        <5>1. Copied(rest, t, new, i)
          BY <1>1, <1>2, PrefixCopied
        <5> QED
          BY <4>2, <4>3, <5>1 DEF Copied
      <4>5. At(t, v, i)
        <5>1. \A k \in 1 .. Len(v) : t[i + k - 1] = v[k]
          BY <4>3, <4>4
        <5>2. i \in Nat \ {0}
          BY <1>2, <2>1
        <5> QED
          BY <4>4, <5>1, <5>2, AtIs
      <4> QED
        BY <2>1, <2>3, <4>5 DEF Occurs
    <3>4. CASE p # 1
      <4>1. p \in 2 .. Len(rest[i])
        BY <3>1, <3>4
      <4>2. p - 1 \in 1 .. Len(rest[i + 1]) /\ At(rest[i + 1], v, p - 1)
        BY <2>3, <3>2, <4>1, AtCons
      <4> QED
        BY <3>2, <4>2 DEF Occurs
    <3> QED
      BY <3>3, <3>4
  <2> QED
    BY <1>1, <2>1, <2>2, <2>3, RestGoesOn
<1>5. \A i \in 1 .. n + 1 : i \in T
  <2> HIDE DEF T, n
  <2> QED
    BY <1>2, <1>4, Downwards
<1>6. 1 \in 1 .. n + 1
  BY <1>2
<1> QED
  BY <1>1, <1>5, <1>6

-----------------------------------------------------------------------------
(* Several replacements.                                                   *)

Replacements == Seq([old : Text, new : Text])

\* A function on 1 .. n is a sequence.
LEMMA Listed ==
    ASSUME NEW S, NEW n \in Nat, NEW f \in [1 .. n -> S]
    PROVE  f \in Seq(S) /\ Len(f) = n
<1>1. f \in Seq(S)
  BY SeqDef
<1>2. DOMAIN f = 1 .. n
  OBVIOUS
<1>3. Len(f) \in Nat /\ 1 .. Len(f) = 1 .. n
  BY <1>1, <1>2, LenProperties
<1> QED
  BY <1>1, <1>3

LEMMA ReplacementsListed ==
    ASSUME NEW n \in Nat, NEW f, DOMAIN f = 1 .. n, f = [k \in 1 .. n |-> f[k]],
           \A k \in 1 .. n : f[k] \in [old : Text, new : Text]
    PROVE  f \in Replacements /\ Len(f) = n
<1>1. f \in [1 .. n -> [old : Text, new : Text]]
  OBVIOUS
<1> QED
  BY <1>1, Listed DEF Replacements

LEMMA ReplacementIs ==
    ASSUME NEW replacements \in Replacements
    PROVE  /\ Len(replacements) \in Nat
           /\ \A k \in 1 .. Len(replacements) :
                  replacements[k].old \in Text /\ replacements[k].new \in Text
<1>1. \A k \in 1 .. Len(replacements) : replacements[k] \in [old : Text, new : Text]
  BY ElementOfSeq DEF Replacements
<1>2. Len(replacements) \in Nat
  BY LenProperties DEF Replacements
<1>3. \A r \in [old : Text, new : Text] : r.old \in Text /\ r.new \in Text
  OBVIOUS
<1> QED
  BY <1>1, <1>2, <1>3

\* after[n] is what the first n replacements make of t.
Replacing(after, t, replacements, least) ==
    /\ after \in [0 .. Len(replacements) -> Text] /\ after[0] = t
    /\ \A n \in 1 .. Len(replacements) :
           after[n] = IF Len(replacements[n].old) < least THEN after[n - 1]
                      ELSE Replace(after[n - 1], replacements[n].old, replacements[n].new)

LEMMA EachUnfolds ==
    ASSUME NEW t \in Text, NEW replacements \in Replacements, NEW least \in Nat \ {0}
    PROVE  \E after : /\ Replacing(after, t, replacements, least)
                      /\ after[Len(replacements)] = ReplaceEach(t, replacements, least)
<1> DEFINE n == Len(replacements)
           Put(m, u) == IF Len(replacements[m].old) < least THEN u
                        ELSE Replace(u, replacements[m].old, replacements[m].new)
           Builds(g, k) == g = [m \in 0 .. k |-> IF m = 0 THEN t ELSE Put(m, g[m - 1])]
           T == {k \in Nat : \E g : Builds(g, k)}
           after == CHOOSE g : Builds(g, n)
<1>1. /\ n \in Nat
      /\ \A m \in 1 .. n : replacements[m].old \in Text /\ replacements[m].new \in Text
  BY ReplacementIs
<1>2. 0 \in T
  <2>1. Builds([m \in 0 .. 0 |-> t], 0)
    <3> HIDE DEF Put
    <3> QED
      OBVIOUS
  <2> HIDE DEF Builds
  <2> QED
    BY <2>1
<1>3. ASSUME NEW k \in Nat, k \in T PROVE k + 1 \in T
  <2> PICK g : Builds(g, k)
    BY <1>3
  <2> HIDE DEF Put
  <2> DEFINE h == [m \in 0 .. k + 1 |-> IF m = 0 THEN t ELSE Put(m, g[m - 1])]
  <2>1. \A m \in 0 .. k : h[m] = g[m]
    OBVIOUS
  <2>2. Builds(h, k + 1)
    BY <2>1
  <2> HIDE DEF h, Builds
  <2> QED
    BY <2>2
<1>4. Builds(after, n)
  <2>1. \A k \in Nat : k \in T
    <3> HIDE DEF T
    <3> QED
      BY <1>2, <1>3, NatSetInduction
  <2>2. \E g : Builds(g, n)
    <3> HIDE DEF Builds, n
    <3> QED
      BY <1>1, <2>1
  <2> HIDE DEF Builds
  <2> QED
    BY <2>2
<1>5. ReplaceEach(t, replacements, least) = after[n]
  BY DEF ReplaceEach
<1> HIDE DEF after
<1>6. /\ DOMAIN after = 0 .. n /\ after[0] = t /\ \A m \in 1 .. n : after[m] = Put(m, after[m - 1])
      /\ after = [m \in 0 .. n |-> after[m]]
  <2> HIDE DEF Put
  <2> QED
    BY <1>1, <1>4
<1> HIDE DEF Builds
<1>7. ASSUME NEW u \in Text, NEW m \in 1 .. n PROVE Put(m, u) \in Text
  <2>1. CASE Len(replacements[m].old) < least
    BY <2>1
  <2>2. CASE ~(Len(replacements[m].old) < least)
    <3>1. replacements[m].old # <<>>
      <4>1. Len(replacements[m].old) \in Nat /\ replacements[m].old \in Text
        BY <1>1, TextIs
      <4> QED
        BY <2>2, <4>1, TextIs
    <3> QED
      BY <1>1, <2>2, <3>1, ReplaceIsText
  <2> QED
    BY <2>1, <2>2
<1>8. \A m \in 0 .. n : after[m] \in Text
  <2> DEFINE U == {k \in Nat : k <= n => after[k] \in Text}
  <2>1. 0 \in U
    BY <1>6
  <2>2. ASSUME NEW k \in Nat, k \in U PROVE k + 1 \in U
    <3> HIDE DEF Put
    <3> SUFFICES ASSUME k + 1 <= n PROVE after[k + 1] \in Text
      OBVIOUS
    <3>1. PICK m \in 1 .. n : m = k + 1
      BY <1>1
    <3>2. after[m - 1] \in Text
      <4>1. k <= n /\ m - 1 = k
        BY <1>1, <3>1
      <4> QED
        BY <2>2, <4>1
    <3>3. after[m] = Put(m, after[m - 1])
      BY <1>6
    <3>4. after[m] \in Text
      BY <1>7, <3>2, <3>3
    <3> QED
      BY <3>1, <3>4
  <2>3. \A k \in Nat : k \in U
    <3> HIDE DEF U
    <3> QED
      BY <2>1, <2>2, NatSetInduction
  <2> QED
    BY <1>1, <2>3
<1>9. after \in [0 .. n -> Text]
  BY <1>6, <1>8
<1>10. Replacing(after, t, replacements, least)
  BY <1>6, <1>9 DEF Replacing
<1> QED
  BY <1>5, <1>10

\* A plain text that is replaced, by texts between marks that do not contain it,
\* occurs in the result no more; and one that was not there is not put together.
LEMMA ReplacedIsGone ==
    ASSUME NEW t \in Text, NEW replacements \in Replacements, NEW least \in Nat \ {0},
           NEW v \in Text, v # <<>>, Plain(v),
           \A k \in 1 .. Len(replacements) :
               Len(replacements[k].old) >= least =>
                   Marked(replacements[k].new) /\ ~Occurs(v, replacements[k].new),
           \/ ~Occurs(v, t)
           \/ Len(v) >= least /\ \E k \in 1 .. Len(replacements) : replacements[k].old = v
    PROVE  ~Occurs(v, ReplaceEach(t, replacements, least))
<1> DEFINE n == Len(replacements)
<1>1. PICK after : /\ Replacing(after, t, replacements, least)
                   /\ after[n] = ReplaceEach(t, replacements, least)
  BY EachUnfolds
<1>2. n \in Nat /\ \A k \in 1 .. n : replacements[k].old \in Text /\ replacements[k].new \in Text
  BY ReplacementIs
<1> DEFINE Gone(k) == ~Occurs(v, t) \/ \E j \in 1 .. k : replacements[j].old = v
           U == {k \in Nat : k <= n => (Gone(k) => ~Occurs(v, after[k]))}
<1>3. 0 \in U
  BY <1>1 DEF Replacing
<1>4. ASSUME NEW k \in Nat, k \in U PROVE k + 1 \in U
  <2> SUFFICES ASSUME k + 1 <= n, Gone(k + 1) PROVE ~Occurs(v, after[k + 1])
    OBVIOUS
  <2> DEFINE r == replacements[k + 1]
  <2>1. k + 1 \in 1 .. n /\ k + 1 - 1 = k /\ k \in 0 .. n
    BY <1>2
  <2>2. Gone(k) => ~Occurs(v, after[k])
    BY <1>4, <2>1
  <2>3. Gone(k) \/ r.old = v
    BY <2>1
  <2>4. r.old \in Text /\ r.new \in Text /\ after[k] \in Text
    BY <1>1, <1>2, <2>1 DEF Replacing
  <2>5. after[k + 1] = IF Len(r.old) < least THEN after[k] ELSE Replace(after[k], r.old, r.new)
    BY <1>1, <2>1 DEF Replacing
  <2> HIDE DEF Gone
  <2>6. Len(r.old) \in Nat
    BY <2>4, TextIs
  <2>7. CASE Len(r.old) < least
    <3>1. Gone(k)
      <4>1. CASE Gone(k)
        BY <4>1
      <4>2. CASE r.old = v
        <5>1. ~Occurs(v, t)
          BY <2>6, <2>7, <4>2
        <5> QED
          BY <5>1 DEF Gone
      <4> QED
        BY <2>3, <4>1, <4>2
    <3> QED
      BY <2>2, <2>5, <2>7, <3>1
  <2>8. CASE Len(r.old) >= least
    <3>1. r.old # <<>> /\ ~(Len(r.old) < least)
      BY <2>4, <2>6, <2>8, TextIs
    <3>2. Marked(r.new) /\ ~Occurs(v, r.new)
      BY <2>1, <2>8
    <3>3. Occurs(v, after[k]) => v = r.old
      BY <2>2, <2>3
    <3>4. ~Occurs(v, Replace(after[k], r.old, r.new))
      <4> HIDE DEF r
      <4> QED
        BY <2>4, <3>1, <3>2, <3>3, NothingNewOccurs
    <3> QED
      BY <2>5, <3>1, <3>4
  <2> QED
    BY <2>6, <2>7, <2>8
<1>5. \A k \in Nat : k \in U
  <2> HIDE DEF U
  <2> QED
    BY <1>3, <1>4, NatSetInduction
<1>6. Gone(n)
  OBVIOUS
<1> QED
  BY <1>1, <1>2, <1>5, <1>6

LEMMA EachIsText ==
    ASSUME NEW t \in Text, NEW replacements \in Replacements, NEW least \in Nat \ {0}
    PROVE  ReplaceEach(t, replacements, least) \in Text
<1>1. PICK after : /\ Replacing(after, t, replacements, least)
                   /\ after[Len(replacements)] = ReplaceEach(t, replacements, least)
  BY EachUnfolds
<1>2. Len(replacements) \in 0 .. Len(replacements)
  BY ReplacementIs
<1> QED
  BY <1>1, <1>2 DEF Replacing

-----------------------------------------------------------------------------
(* Values in the order in which they are looked for.                       *)

Input == [name : Text, value : Text, sensitive : BOOLEAN]

LEMMA InputIs ==
    ASSUME NEW ins \in Seq(Input)
    PROVE  /\ Len(ins) \in Nat /\ DOMAIN ins = 1 .. Len(ins)
           /\ \A i \in 1 .. Len(ins) :
                  ins[i].name \in Text /\ ins[i].value \in Text /\ ins[i].sensitive \in BOOLEAN
<1>1. \A i \in 1 .. Len(ins) : ins[i] \in Input
  BY ElementOfSeq
<1>2. Len(ins) \in Nat /\ DOMAIN ins = 1 .. Len(ins)
  BY LenProperties
<1>3. \A r \in Input : r.name \in Text /\ r.value \in Text /\ r.sensitive \in BOOLEAN
  BY DEF Input
<1> QED
  BY <1>1, <1>2, <1>3

\* Input i is looked for before input j.
ComesFirst(ins, i, j) ==
    \/ Len(ins[i].value) > Len(ins[j].value)
    \/ Len(ins[i].value) = Len(ins[j].value) /\ i < j

Earlier(ins, i) == {j \in DOMAIN ins : ComesFirst(ins, j, i)}

Place(ins) == [i \in DOMAIN ins |-> 1 + Cardinality(Earlier(ins, i))]

\* order[k] is the input that is looked for in the k-th place: each once, the
\* longest values first.
InOrder(order, ins) ==
    /\ order \in [1 .. Len(ins) -> 1 .. Len(ins)]
    /\ \A i \in 1 .. Len(ins) : \E k \in 1 .. Len(ins) : order[k] = i
    /\ \A j, k \in 1 .. Len(ins) :
           j < k => Len(ins[order[j]].value) >= Len(ins[order[k]].value)

LEMMA LongestComesFirst ==
    ASSUME NEW ins \in Seq(Input)
    PROVE  \E order : /\ InOrder(order, ins)
                      /\ LongestFirst(ins) = [k \in 1 .. Len(ins) |-> ins[order[k]]]
<1> DEFINE n == Len(ins)
           place == Place(ins)
           order == [k \in 1 .. n |-> CHOOSE i \in 1 .. n : place[i] = k]
<1>1. n \in Nat /\ DOMAIN ins = 1 .. n /\ \A i \in 1 .. n : Len(ins[i].value) \in Nat
  BY InputIs, TextIs
<1>2. IsFiniteSet(1 .. n) /\ Cardinality(1 .. n) = n
  BY <1>1, FS_Interval
<1>3. ASSUME NEW i \in 1 .. n
      PROVE  /\ IsFiniteSet(Earlier(ins, i)) /\ Cardinality(Earlier(ins, i)) \in 0 .. n - 1
             /\ place[i] = 1 + Cardinality(Earlier(ins, i)) /\ place[i] \in 1 .. n
  <2>1. i \notin Earlier(ins, i) /\ Earlier(ins, i) \subseteq 1 .. n
    BY <1>1 DEF Earlier, ComesFirst
  <2>2. Earlier(ins, i) \subseteq 1 .. n /\ Earlier(ins, i) # 1 .. n
    BY <2>1
  <2>3. IsFiniteSet(Earlier(ins, i)) /\ Cardinality(Earlier(ins, i)) < n
        /\ Cardinality(Earlier(ins, i)) \in Nat
    BY <1>2, <2>2, FS_Subset, FS_CardinalityType
  <2>4. place[i] = 1 + Cardinality(Earlier(ins, i))
    BY <1>1 DEF Place
  <2> QED
    BY <1>1, <2>3, <2>4
<1>4. ASSUME NEW i \in 1 .. n, NEW j \in 1 .. n, ComesFirst(ins, i, j)
      PROVE  place[i] < place[j]
  <2>1. Earlier(ins, i) \subseteq Earlier(ins, j) /\ i \in Earlier(ins, j)
    BY <1>1, <1>4 DEF Earlier, ComesFirst
  <2>2. i \notin Earlier(ins, i)
    BY <1>1 DEF Earlier, ComesFirst
  <2>3. Cardinality(Earlier(ins, i)) < Cardinality(Earlier(ins, j))
    BY <1>3, <2>1, <2>2, FS_Subset
  <2> QED
    BY <1>3, <2>3
<1>5. \A i, j \in 1 .. n : i # j => ComesFirst(ins, i, j) \/ ComesFirst(ins, j, i)
  BY <1>1 DEF ComesFirst
<1>6. \A i \in 1 .. n : place[i] \in 1 .. n
  BY <1>3
<1>7. \A i, j \in 1 .. n : place[i] = place[j] => i = j
  <2> TAKE i, j \in 1 .. n
  <2>1. place[i] \in Nat /\ place[j] \in Nat
    BY <1>1, <1>6
  <2> HIDE DEF place
  <2> QED
    BY <1>4, <1>5, <2>1
<1>8. \A k \in 1 .. n : \E i \in 1 .. n : place[i] = k
  <2>1. place \in [1 .. n -> 1 .. n]
    <3>1. place = [i \in 1 .. n |-> place[i]]
      BY <1>1 DEF Place
    <3> HIDE DEF place
    <3> QED
      BY <1>6, <3>1
  <2>2. place \in Injection(1 .. n, 1 .. n)
    <3>1. IsInjective(place)
      <4> HIDE DEF place
      <4> QED
        BY <1>7, <2>1 DEF IsInjective
    <3> QED
      BY <2>1, <3>1 DEF Injection
  <2>3. place \in Surjection(1 .. n, 1 .. n)
    <3> HIDE DEF place, n
    <3> QED
      BY <1>2, <2>2, FS_Injection
  <2> HIDE DEF place
  <2> QED
    BY <2>3 DEF Surjection
<1>9. \A k \in 1 .. n : order[k] \in 1 .. n /\ place[order[k]] = k
  <2> HIDE DEF place
  <2> QED
    BY <1>8
<1>10. ASSUME NEW i \in 1 .. n PROVE \E k \in 1 .. n : order[k] = i
  <2> HIDE DEF place, order
  <2>1. place[i] \in 1 .. n
    BY <1>6
  <2>2. order[place[i]] \in 1 .. n /\ place[order[place[i]]] = place[i]
    BY <1>9, <2>1
  <2>3. order[place[i]] = i
    BY <1>7, <2>2
  <2> QED
    BY <2>1, <2>3
<1>11. ASSUME NEW j \in 1 .. n, NEW k \in 1 .. n, j < k
       PROVE  Len(ins[order[j]].value) >= Len(ins[order[k]].value)
  <2> HIDE DEF place, order
  <2>1. /\ order[j] \in 1 .. n /\ order[k] \in 1 .. n
        /\ place[order[j]] = j /\ place[order[k]] = k
    BY <1>9
  <2>2. ~ComesFirst(ins, order[k], order[j])
    <3> SUFFICES ASSUME ComesFirst(ins, order[k], order[j]) PROVE FALSE
      OBVIOUS
    <3>1. place[order[k]] < place[order[j]]
      BY <1>4, <2>1
    <3> QED
      BY <1>1, <1>11, <2>1, <3>1
  <2>3. Len(ins[order[j]].value) \in Nat /\ Len(ins[order[k]].value) \in Nat
    BY <1>1, <2>1
  <2> DEFINE a == Len(ins[order[j]].value)
             b == Len(ins[order[k]].value)
  <2>4. ~(b > a)
    BY <2>2, Zenon DEF ComesFirst
  <2> HIDE DEF a, b
  <2>5. a \in Nat /\ b \in Nat => a >= b
    BY <2>4
  <2> QED
    BY <2>3, <2>5 DEF a, b
<1>12. InOrder(order, ins)
  <2>1. order \in [1 .. n -> 1 .. n]
    <3> HIDE DEF place
    <3> QED
      BY <1>9
  <2> HIDE DEF order
  <2> QED
    BY <1>10, <1>11, <2>1 DEF InOrder
<1>13. LongestFirst(ins) = [k \in 1 .. n |-> ins[order[k]]]
  <2>1. LongestFirst(ins) = [k \in DOMAIN ins |-> ins[CHOOSE i \in DOMAIN ins : place[i] = k]]
    BY DEF LongestFirst, Place, Earlier, ComesFirst
  <2> HIDE DEF place
  <2> QED
    BY <1>1, <2>1
<1> QED
  BY <1>12, <1>13

-----------------------------------------------------------------------------
(* canonicalize and redact_text: what no longer occurs in their results.   *)

LEMMA PlaceholdersAreMarked ==
    ASSUME NEW name \in Text
    PROVE  Placeholder(name) \in Text /\ Marked(Placeholder(name))
<1>1. Encloses(Placeholder(name), "${", name, "}")
  BY PlaceholderIs
<1>2. PICK p : p = Placeholder(name)
  OBVIOUS
<1>3. PICK n : n = Len(name) + 2
  OBVIOUS
<1>4. p \in Text /\ Len(p) = n /\ p[1] = "${" /\ p[n] = "}" /\ n \in Nat /\ n # 0
  <2>1. Encloses(p, "${", name, "}")
    BY <1>1, <1>2
  <2>2. /\ p \in Text /\ Len(p) = Len(name) + 2 /\ Len(name) \in Nat
        /\ p[1] = "${" /\ p[Len(name) + 2] = "}"
    BY <2>1 DEF Encloses
  <2>3. n \in Nat /\ n # 0
    <3>1. Len(name) \in Nat
      BY <2>2
    <3> QED
      BY <1>3, <3>1
  <2>4. p[n] = "}" /\ Len(p) = n
    BY <1>3, <2>2, Zenon
  <2> QED
    BY <2>2, <2>3, <2>4
<1>5. p # <<>>
  BY <1>4, TextIs
<1>6. Marked(p)
  BY <1>4, <1>5, MarksAre DEF Marked
<1> QED
  BY <1>2, <1>4, <1>6

\* What canonicalize looks for in the first place: the values of the inputs.
LEMMA InputsAreReplaced ==
    ASSUME NEW ins \in Seq(Input)
    PROVE  \E order : /\ InOrder(order, ins)
                      /\ Parameterized(LongestFirst(ins)) \in Replacements
                      /\ Len(Parameterized(LongestFirst(ins))) = Len(ins)
                      /\ \A k \in 1 .. Len(ins) :
                             /\ Parameterized(LongestFirst(ins))[k].old = ins[order[k]].value
                             /\ Parameterized(LongestFirst(ins))[k].new
                                    = Placeholder(ins[order[k]].name)
<1>1. PICK order : /\ InOrder(order, ins)
                   /\ LongestFirst(ins) = [k \in 1 .. Len(ins) |-> ins[order[k]]]
  BY LongestComesFirst
<1> DEFINE n == Len(ins)
           r == [k \in 1 .. n |-> [old |-> ins[order[k]].value,
                                   new |-> Placeholder(ins[order[k]].name)]]
<1>2. n \in Nat /\ \A i \in 1 .. n : ins[i].name \in Text /\ ins[i].value \in Text
  BY InputIs
<1>3. DOMAIN LongestFirst(ins) = 1 .. n /\ \A k \in 1 .. n : LongestFirst(ins)[k] = ins[order[k]]
  BY <1>1
<1>4. Parameterized(LongestFirst(ins)) = r
  BY <1>3 DEF Parameterized
<1>5. \A k \in 1 .. n : r[k] \in [old : Text, new : Text]
  <2> TAKE k \in 1 .. n
  <2>1. order[k] \in 1 .. n
    BY <1>1 DEF InOrder
  <2>2. ins[order[k]].value \in Text /\ Placeholder(ins[order[k]].name) \in Text
    BY <1>2, <2>1, PlaceholdersAreMarked
  <2> QED
    BY <2>2
<1>6. DOMAIN r = 1 .. n /\ r = [k \in 1 .. n |-> r[k]]
  OBVIOUS
<1>7. r \in Replacements /\ Len(r) = n
  <2> HIDE DEF r, n
  <2> QED
    BY <1>2, <1>5, <1>6, ReplacementsListed
<1>8. \A k \in 1 .. n : /\ r[k].old = ins[order[k]].value
                       /\ r[k].new = Placeholder(ins[order[k]].name)
  OBVIOUS
<1> HIDE DEF r
<1> QED
  BY <1>1, <1>4, <1>7, <1>8

\* What it looks for at last: the base URL.
LEMMA BaseIsReplaced ==
    ASSUME NEW url \in Text
    PROVE  /\ Parameterized(<<Base(url)>>) \in Replacements
           /\ Len(Parameterized(<<Base(url)>>)) = 1
           /\ Parameterized(<<Base(url)>>)[1] = [old |-> url, new |-> Placeholder(BASE_URL)]
<1>1. BASE_URL \in Text
  BY NamesAssumption, MarksAre, SeqMonotonic DEF Text
<1>2. Placeholder(BASE_URL) \in Text
  BY <1>1, PlaceholdersAreMarked
<1> DEFINE r == [old |-> url, new |-> Placeholder(BASE_URL)]
<1>3. Base(url).value = url /\ Base(url).name = BASE_URL
  BY DEF Base
<1>4. Parameterized(<<Base(url)>>) = [k \in 1 .. 1 |-> r]
  <2>1. PICK b : b = Base(url)
    OBVIOUS
  <2>2. DOMAIN <<b>> = 1 .. 1 /\ \A k \in 1 .. 1 : <<b>>[k] = b
    OBVIOUS
  <2>3. Parameterized(<<b>>) = [k \in 1 .. 1 |-> [old |-> b.value, new |-> Placeholder(b.name)]]
    BY <2>2 DEF Parameterized
  <2> QED
    BY <1>3, <2>1, <2>3
<1>5. r \in [old : Text, new : Text]
  BY <1>2
<1> HIDE DEF r
<1>6. [k \in 1 .. 1 |-> r] \in Seq([old : Text, new : Text]) /\ Len([k \in 1 .. 1 |-> r]) = 1
      /\ [k \in 1 .. 1 |-> r][1] = r
  BY <1>5
<1> QED
  BY <1>4, <1>6 DEF r, Replacements

LEMMA CanonicalIsText ==
    ASSUME NEW t \in Text, NEW ins \in Seq(Input), NEW url \in Text
    PROVE  canonicalize(t, ins, Base(url)) \in Text
<1>1. Parameterized(LongestFirst(ins)) \in Replacements
  BY InputsAreReplaced
<1>2. Parameterized(<<Base(url)>>) \in Replacements
  BY BaseIsReplaced
<1>3. ReplaceEach(t, Parameterized(LongestFirst(ins)), MIN_CANONICALIZED_LENGTH) \in Text
  BY <1>1, LengthsAssumption, EachIsText
<1>4. 1 \in Nat \ {0}
  OBVIOUS
<1> QED
  BY <1>2, <1>3, <1>4, EachIsText DEF canonicalize

\* A plain value that is long enough to be looked for, and in no placeholder, does
\* not occur in a text that was canonicalized.
LEMMA ValueIsParameterized ==
    ASSUME NEW t \in Text, NEW ins \in Seq(Input), NEW url \in Text, NEW i \in 1 .. Len(ins),
           Plain(ins[i].value), Len(ins[i].value) >= MIN_CANONICALIZED_LENGTH,
           \A j \in 1 .. Len(ins) : ~Occurs(ins[i].value, Placeholder(ins[j].name)),
           ~Occurs(ins[i].value, Placeholder(BASE_URL))
    PROVE  ~Occurs(ins[i].value, canonicalize(t, ins, Base(url)))
<1> DEFINE v == ins[i].value
           first == Parameterized(LongestFirst(ins))
           last == Parameterized(<<Base(url)>>)
           u == ReplaceEach(t, first, MIN_CANONICALIZED_LENGTH)
<1>1. PICK order : /\ InOrder(order, ins) /\ first \in Replacements /\ Len(first) = Len(ins)
                   /\ \A k \in 1 .. Len(ins) :
                          /\ first[k].old = ins[order[k]].value
                          /\ first[k].new = Placeholder(ins[order[k]].name)
  BY InputsAreReplaced
<1>2. last \in Replacements /\ Len(last) = 1
      /\ last[1] = [old |-> url, new |-> Placeholder(BASE_URL)]
  BY BaseIsReplaced
<1>3. /\ \A j \in 1 .. Len(ins) : ins[j].name \in Text /\ ins[j].value \in Text
      /\ BASE_URL \in Text /\ v \in Text
  <2>1. BASE_URL \in Text
    BY NamesAssumption, MarksAre, SeqMonotonic DEF Text
  <2> QED
    BY <2>1, InputIs
<1>4. v # <<>> /\ Len(v) >= MIN_CANONICALIZED_LENGTH
  <2>1. Len(v) \in Nat /\ MIN_CANONICALIZED_LENGTH \in Nat \ {0}
    BY <1>3, TextIs, LengthsAssumption
  <2> QED
    BY <1>3, <2>1, TextIs
<1>5. \A k \in 1 .. Len(first) : Marked(first[k].new) /\ ~Occurs(v, first[k].new)
  <2> TAKE k \in 1 .. Len(first)
  <2> HIDE DEF first
  <2>1. k \in 1 .. Len(ins)
    BY <1>1
  <2>2. order[k] \in 1 .. Len(ins)
    BY <1>1, <2>1 DEF InOrder
  <2>3. first[k].new = Placeholder(ins[order[k]].name)
    BY <1>1, <2>1
  <2>4. ~Occurs(v, Placeholder(ins[order[k]].name)) /\ ins[order[k]].name \in Text
    BY <1>3, <2>2
  <2> QED
    BY <2>3, <2>4, PlaceholdersAreMarked
<1>6. \E k \in 1 .. Len(first) : first[k].old = v
  <2>1. PICK k \in 1 .. Len(ins) : order[k] = i
    BY <1>1 DEF InOrder
  <2> HIDE DEF first
  <2>2. first[k].old = ins[order[k]].value
    BY <1>1, <2>1
  <2>3. k \in 1 .. Len(first) /\ first[k].old = v
    BY <1>1, <2>1, <2>2
  <2> QED
    BY <2>3
<1>7. ~Occurs(v, u) /\ u \in Text
  <2> HIDE DEF v, first
  <2>1. Plain(v)
    BY DEF v
  <2> QED
    BY <1>1, <1>3, <1>4, <1>5, <1>6, <2>1, ReplacedIsGone, EachIsText, LengthsAssumption
<1>8. \A k \in 1 .. Len(last) : Marked(last[k].new) /\ ~Occurs(v, last[k].new)
  BY <1>2, <1>3, PlaceholdersAreMarked
<1>9. ~Occurs(v, ReplaceEach(u, last, 1))
  <2> HIDE DEF v, u, last
  <2>1. Plain(v) /\ 1 \in Nat \ {0}
    BY DEF v
  <2> QED
    BY <1>2, <1>3, <1>4, <1>7, <1>8, <2>1, ReplacedIsGone
<1> QED
  BY <1>9 DEF canonicalize

-----------------------------------------------------------------------------
(* Placeholders in a text.                                                 *)

\* A placeholder stands in t from position i to position j.
Stands(t, i, j) ==
    /\ i \in 1 .. Len(t) /\ j \in 1 .. Len(t) /\ i + 1 < j
    /\ t[i] = "${" /\ t[j] = "}" /\ t[i + 1] \in Letters
    /\ \A k \in i + 1 .. j - 1 : t[k] \in Letters \cup Digits

\* The name in it.
Between(t, i, j) == SubSeq(t, i + 1, j - 1)

LEMMA StandsWhere ==
    ASSUME NEW t \in Text, NEW i, NEW j, Stands(t, i, j)
    PROVE  /\ i \in 1 .. Len(t) /\ j \in 1 .. Len(t) /\ i \in Nat /\ j \in Nat /\ i + 1 < j
           /\ i >= 1 /\ j <= Len(t) /\ Len(t) \in Nat /\ j + 1 \in i + 1 .. Len(t) + 1
<1>1. i \in 1 .. Len(t) /\ j \in 1 .. Len(t) /\ i + 1 < j
  BY Zenon DEF Stands
<1>2. Len(t) \in Nat
  BY TextIs
<1> QED
  BY <1>1, <1>2

LEMMA MatchesStand ==
    ASSUME NEW t \in Text, NEW m \in Matches(t)
    PROVE  Stands(t, m[1], m[2]) /\ NameOf(t, m) = Between(t, m[1], m[2]) /\ m = <<m[1], m[2]>>
<1>1. m \in (1 .. Len(t)) \X (1 .. Len(t))
  BY DEF Matches
<1>2. m[1] \in 1 .. Len(t) /\ m[2] \in 1 .. Len(t) /\ m = <<m[1], m[2]>>
  BY <1>1
<1>3. Stands(t, m[1], m[2])
  BY <1>2 DEF Matches, Stands
<1> QED
  BY <1>2, <1>3 DEF NameOf, Between

LEMMA StandsMatches ==
    ASSUME NEW t \in Text, NEW i, NEW j, Stands(t, i, j)
    PROVE  /\ <<i, j>> \in Matches(t) /\ NameOf(t, <<i, j>>) = Between(t, i, j)
           /\ Between(t, i, j) \in find_placeholders(t)
<1>1. PICK m : m = <<i, j>>
  OBVIOUS
<1>2. m[1] = i /\ m[2] = j /\ m \in (1 .. Len(t)) \X (1 .. Len(t))
  BY <1>1 DEF Stands
<1>3. m \in Matches(t)
  BY <1>2 DEF Matches, Stands
<1>4. NameOf(t, m) = Between(t, i, j)
  BY <1>2 DEF NameOf, Between
<1> QED
  BY <1>1, <1>3, <1>4 DEF find_placeholders

\* Each name that is found stands somewhere.
LEMMA FoundStands ==
    ASSUME NEW t \in Text, NEW name \in find_placeholders(t)
    PROVE  \E i, j : Stands(t, i, j) /\ Between(t, i, j) = name
<1>1. PICK m \in Matches(t) : NameOf(t, m) = name
  BY DEF find_placeholders
<1> QED
  BY <1>1, MatchesStand

\* Two placeholders are one, or stand apart.
LEMMA StandApart ==
    ASSUME NEW t \in Text, NEW i, NEW j, NEW p, NEW q, Stands(t, i, j), Stands(t, p, q)
    PROVE  (i = p /\ j = q) \/ j < p \/ q < i
<1>1. i \in Nat /\ j \in Nat /\ p \in Nat /\ q \in Nat /\ i + 1 < j /\ p + 1 < q
  BY StandsWhere
<1>2. ASSUME NEW a \in Nat, NEW b \in Nat, NEW c \in Nat, NEW d \in Nat,
             Stands(t, a, b), Stands(t, c, d)
      PROVE  c \notin a + 1 .. b - 1 /\ d \notin a + 1 .. b - 1
  <2>1. t[c] = "${" /\ t[d] = "}" /\ \A k \in a + 1 .. b - 1 : t[k] \in Letters \cup Digits
    BY <1>2 DEF Stands
  <2> QED
    BY <2>1, MarksAre
<1>3. /\ p \notin i + 1 .. j - 1 /\ q \notin i + 1 .. j - 1
      /\ i \notin p + 1 .. q - 1 /\ j \notin p + 1 .. q - 1
  BY <1>1, <1>2
<1>4. i # q /\ j # p
  <2>1. t[i] = "${" /\ t[j] = "}" /\ t[p] = "${" /\ t[q] = "}"
    BY DEF Stands
  <2>2. "${" # "}"
    OBVIOUS
  <2> QED
    BY <2>1, <2>2
<1> QED
  BY <1>1, <1>3, <1>4

\* name is what is in it, character by character.
IsBetween(name, t, i, j) ==
    /\ name \in Text /\ Len(name) = j - 1 - i
    /\ \A k \in 1 .. j - 1 - i : name[k] = t[i + k]

LEMMA NameIsText ==
    ASSUME NEW t \in Text, NEW i, NEW j, Stands(t, i, j)
    PROVE  IsBetween(Between(t, i, j), t, i, j)
<1>1. i \in Nat /\ j \in Nat /\ i + 1 < j /\ j <= Len(t) /\ Len(t) \in Nat /\ i >= 1
  BY StandsWhere
<1>2. i + 1 \in 1 .. Len(t) + 1 /\ j - 1 \in 0 .. Len(t) /\ i + 1 <= j - 1 + 1
      /\ j - 1 + 1 - (i + 1) = j - 1 - i /\ \A k \in 1 .. j - 1 - i : i + 1 + k - 1 = i + k
  BY <1>1
<1>3. /\ SubSeq(t, i + 1, j - 1) \in Text /\ Len(SubSeq(t, i + 1, j - 1)) = j - 1 + 1 - (i + 1)
      /\ \A k \in 1 .. j - 1 + 1 - (i + 1) : SubSeq(t, i + 1, j - 1)[k] = t[i + 1 + k - 1]
  BY <1>2, PartIs
<1> QED
  BY <1>2, <1>3 DEF Between, IsBetween

-----------------------------------------------------------------------------
(* substitute.                                                             *)

\* values has a text for each placeholder of t.
Binds(bound, t) == \A name \in find_placeholders(t) : bound[name] \in Text

\* rest[i] is what a substitution makes of t from position i on.
Substitutes(rest, t, bound) ==
    /\ rest \in [1 .. Len(t) + 1 -> Text]
    /\ rest[Len(t) + 1] = <<>>
    /\ \A i, j \in 1 .. Len(t) :
           Stands(t, i, j) => rest[i] = bound[Between(t, i, j)] \o rest[j + 1]
    /\ \A i \in 1 .. Len(t) :
           (\A j \in 1 .. Len(t) : ~Stands(t, i, j)) => rest[i] = <<t[i]>> \o rest[i + 1]

LEMMA SubstituteUnfolds ==
    ASSUME NEW t \in Text, NEW bound, Binds(bound, t)
    PROVE  \E rest : Substitutes(rest, t, bound) /\ rest[1] = substitute(t, bound)
<1> DEFINE n == Len(t)
           matches == Matches(t)
           MatchAt(i) == CHOOSE m \in matches : m[1] = i
           starts == {m[1] : m \in matches}
           output == [i \in 1 .. n |-> IF i \in starts THEN bound[NameOf(t, MatchAt(i))] ELSE <<t[i]>>]
           next == [i \in 1 .. n |-> IF i \in starts THEN MatchAt(i)[2] + 1 ELSE i + 1]
<1>1. n \in Nat
  BY TextIs
<1>2. substitute(t, bound) = Pass(output, next)
  BY DEF substitute
<1>3. ASSUME NEW i \in 1 .. n, NEW j \in 1 .. n, Stands(t, i, j)
      PROVE  i \in starts /\ MatchAt(i) = <<i, j>>
  <2>1. PICK m : m = <<i, j>>
    OBVIOUS
  <2>2. m \in matches /\ m[1] = i /\ m[2] = j
    BY <1>3, <2>1, StandsMatches
  <2>3. i \in starts
    BY <2>2
  <2>4. MatchAt(i) \in matches /\ MatchAt(i)[1] = i
    BY <2>2
  <2> HIDE DEF MatchAt, starts
  <2>5. PICK o : o = MatchAt(i)
    OBVIOUS
  <2>6. Stands(t, o[1], o[2]) /\ o = <<o[1], o[2]>> /\ o[1] = i
    BY <2>4, <2>5, MatchesStand
  <2>7. (i = o[1] /\ j = o[2]) \/ j < o[1] \/ o[2] < i
    BY <1>3, <2>6, StandApart
  <2>8. i < j /\ i < o[2] /\ j \in Nat /\ i \in Nat /\ o[2] \in Nat
    <3>1. i < j /\ j \in Nat /\ i \in Nat
      BY <1>3, StandsWhere
    <3>2. o[1] + 1 < o[2] /\ o[1] \in Nat /\ o[2] \in Nat
      BY <2>6, StandsWhere
    <3> QED
      BY <2>6, <3>1, <3>2
  <2>9. o[2] = j
    BY <2>6, <2>7, <2>8
  <2> QED
    BY <2>3, <2>5, <2>6, <2>9
<1>4. ASSUME NEW i \in 1 .. n, i \in starts
      PROVE  \E j \in 1 .. n : Stands(t, i, j)
  <2>1. PICK m \in matches : m[1] = i
    BY <1>4
  <2>2. Stands(t, m[1], m[2])
    BY MatchesStand
  <2> QED
    BY <2>1, <2>2 DEF Stands
<1>5. ASSUME NEW i \in 1 .. n, NEW j \in 1 .. n, Stands(t, i, j)
      PROVE  output[i] = bound[Between(t, i, j)] /\ next[i] = j + 1
             /\ output[i] \in Text /\ next[i] \in i + 1 .. n + 1
  <2>1. i \in starts /\ MatchAt(i) = <<i, j>>
    BY <1>3, <1>5
  <2> HIDE DEF MatchAt, starts
  <2>2. NameOf(t, <<i, j>>) = Between(t, i, j) /\ bound[Between(t, i, j)] \in Text
    BY <1>5, StandsMatches DEF Binds
  <2>3. output[i] = bound[NameOf(t, MatchAt(i))] /\ next[i] = MatchAt(i)[2] + 1
    BY <2>1
  <2>4. output[i] = bound[Between(t, i, j)]
    BY <2>1, <2>2, <2>3
  <2>5. next[i] = j + 1
    BY <2>1, <2>3
  <2>6. j + 1 \in i + 1 .. n + 1
    BY <1>5, StandsWhere
  <2> HIDE DEF output, next
  <2> QED
    BY <2>2, <2>4, <2>5, <2>6
<1>6. ASSUME NEW i \in 1 .. n, \A j \in 1 .. n : ~Stands(t, i, j)
      PROVE  output[i] = <<t[i]>> /\ next[i] = i + 1 /\ output[i] \in Text
             /\ next[i] \in i + 1 .. n + 1
  <2>1. i \notin starts
    BY <1>4, <1>6
  <2>2. <<t[i]>> \in Text
    BY TextIs, Single
  <2> HIDE DEF starts, MatchAt
  <2>3. output[i] = <<t[i]>> /\ next[i] = i + 1
    BY <2>1
  <2>4. i + 1 \in i + 1 .. n + 1
    BY <1>1
  <2> HIDE DEF output, next
  <2> QED
    BY <2>2, <2>3, <2>4
<1>7. DOMAIN output = 1 .. n
  OBVIOUS
<1>8. output = [i \in 1 .. n |-> output[i]]
  OBVIOUS
<1> HIDE DEF output, next
<1>9. MovesOn(output, next, n, Character)
  <2>1. \A i \in 1 .. n : output[i] \in Text /\ next[i] \in i + 1 .. n + 1
    BY <1>5, <1>6
  <2> QED
    BY <2>1 DEF MovesOn, Text
<1>10. Len(output) = n
  <2>1. \A i \in 1 .. n : output[i] \in Text
    BY <1>5, <1>6
  <2>2. output \in [1 .. n -> Text]
    BY <1>7, <1>8, <2>1
  <2> QED
    BY <1>1, <2>2, Listed
<1>11. PICK rest : Unfolds(rest, output, next, n, Character)
  <2> HIDE DEF n
  <2> QED
    BY <1>1, <1>9, <1>10, PassUnfolds
<1>12. \A i \in 1 .. n : rest[i] = output[i] \o rest[next[i]]
  BY <1>11 DEF Unfolds
<1>13. \A i, j \in 1 .. n : Stands(t, i, j) => rest[i] = bound[Between(t, i, j)] \o rest[j + 1]
  <2> TAKE i, j \in 1 .. n
  <2> HAVE Stands(t, i, j)
  <2>1. output[i] = bound[Between(t, i, j)] /\ next[i] = j + 1
    BY <1>5
  <2> QED
    BY <1>12, <2>1
<1>14. \A i \in 1 .. n :
           (\A j \in 1 .. n : ~Stands(t, i, j)) => rest[i] = <<t[i]>> \o rest[i + 1]
  <2> TAKE i \in 1 .. n
  <2> HAVE \A j \in 1 .. n : ~Stands(t, i, j)
  <2>1. output[i] = <<t[i]>> /\ next[i] = i + 1
    BY <1>6
  <2> QED
    BY <1>12, <2>1
<1>15. Substitutes(rest, t, bound)
  BY <1>11, <1>13, <1>14 DEF Unfolds, Substitutes, Text
<1> QED
  BY <1>2, <1>11, <1>15 DEF Unfolds

LEMMA SubstituteIsText ==
    ASSUME NEW t \in Text, NEW bound, Binds(bound, t)
    PROVE  substitute(t, bound) \in Text
<1>1. PICK rest : Substitutes(rest, t, bound) /\ rest[1] = substitute(t, bound)
  BY SubstituteUnfolds
<1>2. 1 \in 1 .. Len(t) + 1
  BY TextIs
<1> QED
  BY <1>1, <1>2 DEF Substitutes

\* The names of inputs.
Name == Seq(Letters) \ {<<>>}

LEMMA NamesAreTexts ==
    ASSUME NEW name \in Name
    PROVE  /\ name \in Text /\ Len(name) \in Nat \ {0}
           /\ \A k \in 1 .. Len(name) : name[k] \in Letters
<1>1. name \in Seq(Letters) /\ name # <<>>
  BY DEF Name
<1>2. Letters \subseteq Character
  BY MarksAre
<1>3. name \in Text
  BY <1>1, <1>2, SeqMonotonic DEF Text
<1>4. \A k \in 1 .. Len(name) : name[k] \in Letters
  BY <1>1, ElementOfSeq
<1> QED
  BY <1>1, <1>3, <1>4, TextIs

\* A text that begins with a placeholder, or is nothing else.
LEMMA PlaceholderFirst ==
    ASSUME NEW name \in Name, NEW r \in Text, NEW u, IsJoin(u, Placeholder(name), r)
    PROVE  Stands(u, 1, Len(name) + 2) /\ Between(u, 1, Len(name) + 2) = name
<1>1. PICK p, z : p = Placeholder(name) /\ z = Len(name) + 2
  OBVIOUS
<1>2. name \in Text /\ Len(name) \in Nat \ {0} /\ \A k \in 1 .. Len(name) : name[k] \in Letters
  BY NamesAreTexts
<1>3. Encloses(p, "${", name, "}")
  BY <1>1, <1>2, PlaceholderIs
<1>4. Len(p) = z /\ p[1] = "${" /\ p[z] = "}" /\ \A k \in 1 .. Len(name) : p[k + 1] = name[k]
  BY <1>1, <1>3, Zenon DEF Encloses
<1>5. z \in Nat /\ z > 2 /\ Len(name) = z - 2
  BY <1>1, <1>2
<1>6. u \in Text /\ Len(u) \in Nat /\ Len(u) >= z /\ \A k \in 1 .. z : u[k] = p[k]
  <2>1. IsJoin(u, p, r)
    BY <1>1
  <2>2. u \in Text /\ Len(r) \in Nat /\ Len(u) = Len(p) + Len(r) /\ \A k \in 1 .. Len(p) : u[k] = p[k]
    BY <2>1 DEF IsJoin
  <2>3. Len(p) = z
    BY <1>4
  <2> QED
    BY <1>5, <2>2, <2>3
<1>7. ASSUME NEW k \in 2 .. z - 1
      PROVE  u[k] = name[k - 1] /\ u[k] \in Letters
  <2>1. k - 1 \in 1 .. Len(name) /\ k - 1 + 1 = k /\ k \in 1 .. z
    BY <1>5
  <2>2. p[k - 1 + 1] = name[k - 1] /\ u[k] = p[k] /\ name[k - 1] \in Letters
    BY <1>2, <1>4, <1>6, <2>1
  <2> QED
    BY <2>1, <2>2
<1>8. u[1] = "${" /\ u[z] = "}"
  <2>1. 1 \in 1 .. z /\ z \in 1 .. z
    BY <1>5
  <2> QED
    BY <1>4, <1>6, <2>1
<1>9. 1 \in 1 .. Len(u) /\ z \in 1 .. Len(u) /\ 1 + 1 < z /\ 1 + 1 \in 2 .. z - 1
  BY <1>5, <1>6
<1>10. \A k \in 1 + 1 .. z - 1 : u[k] \in Letters \cup Digits
  BY <1>7
<1>11. Stands(u, 1, z)
  BY <1>7, <1>8, <1>9, <1>10 DEF Stands
<1>12. Between(u, 1, z) = name
  <2>1. PICK b : b = Between(u, 1, z)
    OBVIOUS
  <2>2. b \in Text /\ Len(b) = z - 1 - 1 /\ \A k \in 1 .. z - 1 - 1 : b[k] = u[1 + k]
    BY <1>6, <1>11, <2>1, NameIsText DEF IsBetween
  <2>3. ASSUME NEW k \in 1 .. Len(b) PROVE b[k] = name[k]
    <3>1. 1 + k \in 2 .. z - 1 /\ 1 + k - 1 = k /\ k \in 1 .. z - 1 - 1
      BY <1>5, <2>2
    <3>2. u[1 + k] = name[1 + k - 1]
      BY <1>7, <3>1
    <3> QED
      BY <2>2, <3>1, <3>2
  <2>4. Len(b) = Len(name)
    BY <1>5, <2>2
  <2> QED
    BY <1>2, <2>1, <2>2, <2>3, <2>4, TextsEqual
<1> QED
  BY <1>1, <1>11, <1>12

\* What stands in a placeholder is its name, and substitution puts its value there.
LEMMA PlaceholderAlone ==
    ASSUME NEW name \in Name
    PROVE  /\ Placeholder(name) \in Text
           /\ find_placeholders(Placeholder(name)) = {name}
           /\ \A bound : bound[name] \in Text => substitute(Placeholder(name), bound) = bound[name]
<1>1. PICK p, z : p = Placeholder(name) /\ z = Len(name) + 2
  OBVIOUS
<1>2. name \in Text /\ Len(name) \in Nat \ {0}
  BY NamesAreTexts
<1>3. p \in Text /\ Len(p) = z
  <2>1. Encloses(p, "${", name, "}")
    BY <1>1, <1>2, PlaceholderIs
  <2> QED
    BY <1>1, <2>1, Zenon DEF Encloses
<1>4. <<>> \in Text /\ p \o <<>> = p
  BY <1>3, JoinedEmpty
<1>5. IsJoin(p, p, <<>>)
  BY <1>3, <1>4, Joined
<1>6. Stands(p, 1, z) /\ Between(p, 1, z) = name
  BY <1>1, <1>4, <1>5, PlaceholderFirst
<1>7. ASSUME NEW i, NEW j, Stands(p, i, j)
      PROVE  i = 1 /\ j = z
  <2>1. (i = 1 /\ j = z) \/ j < 1 \/ z < i
    BY <1>3, <1>6, <1>7, StandApart
  <2>2. i \in Nat /\ j \in Nat /\ j >= 1 /\ i <= z /\ z \in Nat
    BY <1>3, <1>7, StandsWhere
  <2> QED
    BY <2>1, <2>2
<1>8. find_placeholders(p) = {name}
  <2>1. name \in find_placeholders(p)
    BY <1>3, <1>6, StandsMatches
  <2>2. ASSUME NEW other \in find_placeholders(p) PROVE other = name
    <3>1. PICK i, j : Stands(p, i, j) /\ Between(p, i, j) = other
      BY <1>3, FoundStands
    <3> QED
      BY <1>6, <1>7, <3>1
  <2> QED
    BY <2>1, <2>2
<1>9. ASSUME NEW bound, bound[name] \in Text
      PROVE  substitute(p, bound) = bound[name]
  <2>1. Binds(bound, p)
    BY <1>8, <1>9 DEF Binds
  <2>2. PICK rest : Substitutes(rest, p, bound) /\ rest[1] = substitute(p, bound)
    BY <1>3, <2>1, SubstituteUnfolds
  <2>3. 1 \in 1 .. Len(p) /\ z \in 1 .. Len(p)
    BY <1>3, <1>6, StandsWhere
  <2>4. rest[1] = bound[Between(p, 1, z)] \o rest[z + 1]
    BY <1>6, <2>2, <2>3 DEF Substitutes
  <2>5. rest[z + 1] = <<>>
    BY <1>3, <2>2 DEF Substitutes
  <2>6. bound[name] \o <<>> = bound[name]
    BY <1>9, JoinedEmpty
  <2> QED
    BY <1>6, <2>2, <2>4, <2>5, <2>6
<1> QED
  BY <1>1, <1>3, <1>8, <1>9

-----------------------------------------------------------------------------
(* What is one value and nothing else.                                     *)

\* A text that is as long as another, or longer, does not occur in it.
LEMMA TooLong ==
    ASSUME NEW s \in Text, NEW t \in Text, s # <<>>, Len(s) >= Len(t), s # t
    PROVE  ~Occurs(s, t)
<1> SUFFICES ASSUME NEW i \in 1 .. Len(t), At(t, s, i) PROVE FALSE
  BY DEF Occurs
<1>1. Len(s) \in Nat \ {0} /\ Len(t) \in Nat
  BY TextIs
<1>2. i + Len(s) - 1 <= Len(t) /\ \A k \in 1 .. Len(s) : t[i + k - 1] = s[k]
  BY <1>1, AtIs
<1>3. i = 1 /\ Len(s) = Len(t)
  BY <1>1, <1>2
<1>4. ASSUME NEW k \in 1 .. Len(s) PROVE s[k] = t[k]
  <2>1. t[i + k - 1] = s[k] /\ i + k - 1 = k
    BY <1>1, <1>2, <1>3
  <2> QED
    BY <2>1
<1> QED
  BY <1>3, <1>4, TextsEqual

\* A value becomes the placeholder of its input, if no other input has the same and
\* no value occurs in the placeholder: values that contain it are longer, values
\* that it contains come later.
LEMMA OwnPlaceholder ==
    ASSUME NEW ins \in Seq(Input), NEW url \in Text, NEW i \in 1 .. Len(ins),
           Len(ins[i].value) >= MIN_CANONICALIZED_LENGTH,
           \A j \in 1 .. Len(ins) : ins[j].value = ins[i].value => j = i,
           \A j \in 1 .. Len(ins) :
               Len(ins[j].value) >= MIN_CANONICALIZED_LENGTH =>
                   ~Occurs(ins[j].value, Placeholder(ins[i].name)),
           ~Occurs(url, Placeholder(ins[i].name))
    PROVE  canonicalize(ins[i].value, ins, Base(url)) = Placeholder(ins[i].name)
<1>1. PICK v, p, first, last :
          /\ v = ins[i].value /\ p = Placeholder(ins[i].name)
          /\ first = Parameterized(LongestFirst(ins)) /\ last = Parameterized(<<Base(url)>>)
  OBVIOUS
<1>2. PICK n, least : n = Len(ins) /\ least = MIN_CANONICALIZED_LENGTH
  OBVIOUS
<1>3. /\ n \in Nat /\ least \in Nat \ {0} /\ v \in Text /\ p \in Text
      /\ \A j \in 1 .. n : ins[j].name \in Text /\ ins[j].value \in Text
  BY <1>1, <1>2, InputIs, PlaceholdersAreMarked, LengthsAssumption
<1>4. Len(v) \in Nat /\ Len(v) >= least /\ v # <<>>
  BY <1>1, <1>2, <1>3, TextIs
<1>5. PICK order : /\ InOrder(order, ins) /\ first \in Replacements /\ Len(first) = n
                   /\ \A k \in 1 .. n : /\ first[k].old = ins[order[k]].value
                                        /\ first[k].new = Placeholder(ins[order[k]].name)
  BY <1>1, <1>2, InputsAreReplaced
<1>6. PICK after : /\ Replacing(after, v, first, least)
                   /\ after[n] = ReplaceEach(v, first, least)
  BY <1>3, <1>5, EachUnfolds
<1> DEFINE U == {k \in Nat : k <= n => /\ (\E j \in 1 .. k : order[j] = i) => after[k] = p
                                       /\ (\A j \in 1 .. k : order[j] # i) => after[k] = v}
<1>7. 0 \in U
  BY <1>6 DEF Replacing
<1>8. ASSUME NEW k \in Nat, k \in U PROVE k + 1 \in U
  <2> SUFFICES ASSUME k + 1 <= n
               PROVE  /\ (\E j \in 1 .. k + 1 : order[j] = i) => after[k + 1] = p
                      /\ (\A j \in 1 .. k + 1 : order[j] # i) => after[k + 1] = v
    OBVIOUS
  <2>1. PICK m : m = k + 1
    OBVIOUS
  <2>2. m \in 1 .. n /\ m - 1 = k /\ m \in 1 .. Len(first) /\ k <= n /\ m \in Nat
    BY <1>3, <1>5, <2>1
  <2>3. PICK o, old, new : o = order[m] /\ old = first[m].old /\ new = first[m].new
    OBVIOUS
  <2>4. o \in 1 .. n
    BY <1>2, <1>5, <2>2, <2>3 DEF InOrder
  <2>5. old = ins[o].value /\ new = Placeholder(ins[o].name)
    BY <1>5, <2>2, <2>3
  <2>6. old \in Text /\ new \in Text /\ Len(old) \in Nat
    <3>1. ins[o].value \in Text /\ ins[o].name \in Text
      BY <1>3, <2>4
    <3> QED
      BY <2>5, <3>1, PlaceholdersAreMarked, TextIs
  <2>7. after[m] = IF Len(old) < least THEN after[k] ELSE Replace(after[k], old, new)
    BY <1>6, <2>2, <2>3 DEF Replacing
  <2>8. /\ (\E j \in 1 .. k : order[j] = i) => after[k] = p
        /\ (\A j \in 1 .. k : order[j] # i) => after[k] = v
    BY <1>8, <2>2
  <2>9. (\E j \in 1 .. m : order[j] = i) <=> (\E j \in 1 .. k : order[j] = i) \/ o = i
    <3>1. 1 .. m = 1 .. k \cup {m}
      BY <2>1
    <3> QED
      BY <2>3, <3>1
  <2>10. o = i => old = v /\ new = p
    BY <1>1, <2>5
  <2>11. Len(old) >= least => ~Occurs(old, p)
    BY <1>1, <1>2, <2>4, <2>5
  <2>12. CASE Len(old) < least
    <3>1. o # i
      BY <1>3, <1>4, <2>6, <2>10, <2>12
    <3> QED
      BY <2>1, <2>7, <2>8, <2>9, <2>12, <3>1
  <2>13. CASE Len(old) >= least
    <3>1. after[m] = Replace(after[k], old, new) /\ old # <<>> /\ ~Occurs(old, p)
      BY <1>3, <2>6, <2>7, <2>11, <2>13, TextIs
    <3>2. CASE \E j \in 1 .. k : order[j] = i
      <4>1. after[k] = p
        BY <2>8, <3>2
      <4>2. Replace(p, old, new) = p
        BY <1>3, <2>6, <3>1, ReplaceNothing
      <4> QED
        BY <2>1, <2>9, <3>1, <3>2, <4>1, <4>2
    <3>3. CASE (\A j \in 1 .. k : order[j] # i) /\ o = i
      <4>1. after[k] = v
        BY <2>8, <3>3
      <4>2. Replace(v, v, p) = p
        BY <1>3, <1>4, ReplaceWhole
      <4> QED
        BY <2>1, <2>9, <2>10, <3>1, <3>3, <4>1, <4>2
    <3>4. CASE (\A j \in 1 .. k : order[j] # i) /\ o # i
      <4>1. after[k] = v
        BY <2>8, <3>4
      <4>2. PICK q \in 1 .. n : order[q] = i
        BY <1>2, <1>5 DEF InOrder
      <4>3. m < q
        <5>1. q \notin 1 .. k /\ q # m
          BY <2>3, <3>4, <4>2
        <5> QED
          BY <1>3, <2>1, <5>1
      <4>4. Len(old) >= Len(v)
        <5>1. Len(ins[order[m]].value) >= Len(ins[order[q]].value)
          BY <1>2, <1>5, <2>2, <4>2, <4>3 DEF InOrder
        <5> QED
          BY <1>1, <2>3, <2>5, <4>2, <5>1
      <4>5. old # v
        BY <1>1, <1>2, <2>4, <2>5, <3>4
      <4>6. ~Occurs(old, v)
        BY <1>3, <2>6, <3>1, <4>4, <4>5, TooLong
      <4>7. Replace(v, old, new) = v
        BY <1>3, <2>6, <3>1, <4>6, ReplaceNothing
      <4> QED
        BY <2>1, <2>9, <3>1, <3>4, <4>1, <4>7
    <3> QED
      BY <3>2, <3>3, <3>4
  <2> QED
    BY <1>3, <2>6, <2>12, <2>13
<1>9. \A k \in Nat : k \in U
  <2> HIDE DEF U
  <2> QED
    BY <1>7, <1>8, NatSetInduction
<1>10. ReplaceEach(v, first, least) = p
  <2>1. \E j \in 1 .. n : order[j] = i
    BY <1>2, <1>5 DEF InOrder
  <2> QED
    BY <1>3, <1>6, <1>9, <2>1
<1>11. /\ last \in Replacements /\ Len(last) = 1
       /\ last[1] = [old |-> url, new |-> Placeholder(BASE_URL)]
  BY <1>1, BaseIsReplaced
<1>12. 1 \in Nat \ {0}
  OBVIOUS
<1>13. PICK based : Replacing(based, p, last, 1) /\ based[Len(last)] = ReplaceEach(p, last, 1)
  BY <1>3, <1>11, <1>12, EachUnfolds
<1>14. PICK b : b = Placeholder(BASE_URL)
  OBVIOUS
<1>15. b \in Text
  <2>1. last[1].new = b /\ 1 \in 1 .. Len(last)
    BY <1>11, <1>14
  <2> QED
    BY <1>11, <2>1, ReplacementIs
<1>16. based[1] = IF Len(url) < 1 THEN p ELSE Replace(p, url, b)
  <2>1. last[1].old = url /\ last[1].new = b /\ 1 \in 1 .. Len(last) /\ 1 - 1 = 0
    BY <1>11, <1>14
  <2>2. based[0] = p
    BY <1>13 DEF Replacing
  <2>3. based[1] = IF Len(last[1].old) < 1 THEN based[1 - 1]
                   ELSE Replace(based[1 - 1], last[1].old, last[1].new)
    BY <1>13, <2>1 DEF Replacing
  <2> QED
    BY <2>1, <2>2, <2>3
<1>17. ~(Len(url) < 1) => Replace(p, url, b) = p
  <2>1. ~(Len(url) < 1) => url # <<>>
    BY TextIs
  <2> QED
    BY <1>1, <1>3, <1>15, <2>1, ReplaceNothing
<1>18. ReplaceEach(p, last, 1) = p
  BY <1>11, <1>13, <1>16, <1>17
<1> QED
  BY <1>1, <1>2, <1>10, <1>18 DEF canonicalize

-----------------------------------------------------------------------------
(* The invariant.                                                          *)

\* The inputs are those of the goal, each under a name of its own.
Supplied ==
    /\ Len(inputs) = Len(Names)
    /\ \A k \in 1 .. Len(inputs) : inputs[k].name = Names[k]

\* What the recorder made of what was seen, and the loop of what was decided.
Made(item) ==
    /\ item.text = canonicalize(item.seen, inputs, Base(base))
    /\ item.kind = "value" =>
           Bound(item.source, values) /\ item.seen = substitute(item.source, values)

Recordings == \A k \in 1 .. Len(recorded) : Made(recorded[k])

\* What Build declares.
Declaration ==
    [name \in {i.name : i \in Used} |->
        LET input == CHOOSE i \in Used : i.name = name
        IN  [sensitive |-> input.sensitive, digits |-> IsDigits(input.value)]]

Declares == phase # "recording" => declared = Declaration

\* Build lets an artifact through only if it declares what it mentions, and
\* neither changes after that.
Declared == phase \in {"saved", "replayed"} => Placeholders \subseteq DOMAIN declared \cup {BASE_URL}

\* What a replay sends and logs.
Sends ==
    sent = [k \in DOMAIN recorded |->
               [text |-> substitute(recorded[k].text, Params(given, tenant)),
                secret |-> value_is_secret(recorded[k])]]

Logs ==
    \E order \in Orders(Secrets(given)) :
        logged = [k \in DOMAIN recorded |-> redact(sent[k].text, order)]

Replayed ==
    IF phase = "replayed" THEN Valid(given) /\ Sends /\ Logs ELSE sent = <<>> /\ logged = <<>>

ContractInv ==
    /\ TypeOK /\ Supplied /\ Recordings /\ Declares /\ Declared /\ Replayed
    /\ SubstitutionIsTotal

LEMMA Members ==
    ASSUME NEW S, NEW s \in Seq(S)
    PROVE  /\ DOMAIN s = 1 .. Len(s) /\ Len(s) \in Nat
           /\ \A x \in ToSet(s) : x \in S /\ \E k \in 1 .. Len(s) : x = s[k]
           /\ \A k \in 1 .. Len(s) : s[k] \in ToSet(s) /\ s[k] \in S
<1>1. DOMAIN s = 1 .. Len(s) /\ Len(s) \in Nat
  BY LenProperties
<1>2. \A k \in 1 .. Len(s) : s[k] \in S
  BY ElementOfSeq
<1> QED
  BY <1>1, <1>2 DEF ToSet

\* The inputs, one by one.
LEMMA InputsAre ==
    ASSUME TypeOK, Supplied
    PROVE  /\ inputs \in Seq(Input) /\ base \in Text /\ Len(inputs) \in Nat
           /\ \A k \in 1 .. Len(inputs) :
                  /\ inputs[k] \in ToSet(inputs) /\ inputs[k].name \in Name
                  /\ inputs[k].name # BASE_URL
                  /\ inputs[k].name \in Text /\ inputs[k].value \in Text
           /\ \A i \in ToSet(inputs) : \E k \in 1 .. Len(inputs) : i = inputs[k]
           /\ \A j, k \in 1 .. Len(inputs) : inputs[j].name = inputs[k].name => j = k
           /\ \A i, j \in ToSet(inputs) : i.name = j.name => i = j
<1>1. inputs \in Seq(Input) /\ base \in Text
  BY DEF TypeOK, Input
<1>2. /\ Len(inputs) \in Nat
      /\ \A i \in ToSet(inputs) : \E k \in 1 .. Len(inputs) : i = inputs[k]
      /\ \A k \in 1 .. Len(inputs) : inputs[k] \in ToSet(inputs)
  BY <1>1, Members
<1>3. \A k \in 1 .. Len(inputs) : inputs[k].name \in Text /\ inputs[k].value \in Text
  BY <1>1, InputIs
<1>4. Names \in Seq(Name) /\ IsInjective(Names) /\ BASE_URL \notin ToSet(Names)
  BY NamesAssumption DEF Name
<1>5. /\ DOMAIN Names = 1 .. Len(Names)
      /\ \A k \in 1 .. Len(Names) : Names[k] \in ToSet(Names) /\ Names[k] \in Name
  BY <1>4, Members
<1>6. \A k \in 1 .. Len(inputs) : inputs[k].name \in Name /\ inputs[k].name # BASE_URL
  BY <1>4, <1>5 DEF Supplied
<1>7. \A j, k \in 1 .. Len(inputs) : inputs[j].name = inputs[k].name => j = k
  BY <1>4, <1>5 DEF Supplied, IsInjective
<1>8. \A i, j \in ToSet(inputs) : i.name = j.name => i = j
  BY <1>2, <1>7
<1> QED
  BY <1>1, <1>2, <1>3, <1>6, <1>7, <1>8

\* values has the value of each input under its name.
LEMMA ValuesAre ==
    ASSUME TypeOK, Supplied
    PROVE  /\ DOMAIN values = {i.name : i \in ToSet(inputs)}
           /\ \A k \in 1 .. Len(inputs) :
                  inputs[k].name \in DOMAIN values /\ values[inputs[k].name] = inputs[k].value
           /\ \A name \in DOMAIN values : values[name] \in Text
<1>1. /\ \A k \in 1 .. Len(inputs) : inputs[k] \in ToSet(inputs) /\ inputs[k].value \in Text
      /\ \A i \in ToSet(inputs) : \E k \in 1 .. Len(inputs) : i = inputs[k]
      /\ \A i, j \in ToSet(inputs) : i.name = j.name => i = j
  BY InputsAre
<1>2. DOMAIN values = {i.name : i \in ToSet(inputs)}
  BY DEF values
<1>3. ASSUME NEW i \in ToSet(inputs) PROVE values[i.name] = i.value
  <2>1. values[i.name] = (CHOOSE j \in ToSet(inputs) : j.name = i.name).value
    BY DEF values
  <2>2. (CHOOSE j \in ToSet(inputs) : j.name = i.name) = i
    BY <1>1
  <2> QED
    BY <2>1, <2>2
<1>4. \A k \in 1 .. Len(inputs) :
          inputs[k].name \in DOMAIN values /\ values[inputs[k].name] = inputs[k].value
  BY <1>1, <1>2, <1>3
<1>5. ASSUME NEW name \in DOMAIN values PROVE values[name] \in Text
  <2>1. PICK i \in ToSet(inputs) : i.name = name
    BY <1>2
  <2>2. PICK k \in 1 .. Len(inputs) : i = inputs[k]
    BY <1>1
  <2> QED
    BY <1>1, <1>3, <2>1, <2>2
<1> QED
  BY <1>2, <1>4, <1>5

\* What one item mentions is among what all of them mention.
LEMMA ItemsAreMentioned ==
    ASSUME TypeOK, NEW k \in 1 .. Len(recorded)
    PROVE  /\ find_placeholders(recorded[k].text) \subseteq Placeholders
           /\ recorded[k].kind \in {"value", "url"} =>
                  find_placeholders(recorded[k].text) \subseteq Mentioned({"value", "url"})
<1>1. recorded \in Seq([kind : Kind, source : Text, seen : Text, text : Text])
  BY DEF TypeOK
<1>2. /\ recorded[k] \in ToSet(recorded)
      /\ recorded[k] \in [kind : Kind, source : Text, seen : Text, text : Text]
  BY <1>1, Members
<1>3. recorded[k].kind \in Kind
  BY <1>2
<1> QED
  BY <1>2, <1>3 DEF Placeholders, Mentioned

\* Validated inputs and the base URL bind everything a saved artifact mentions.
LEMMA ValidInputsBind ==
    ASSUME TypeOK, Declared, phase = "saved",
           NEW supplied, Valid(supplied), NEW url, NEW item \in ToSet(recorded)
    PROVE  Bound(item.text, Params(supplied, url))
<1>1. DOMAIN Params(supplied, url) = DOMAIN declared \cup {BASE_URL}
  BY DEF Params, Valid
<1>2. find_placeholders(item.text) \subseteq DOMAIN declared \cup {BASE_URL}
  <2>1. PICK k \in 1 .. Len(recorded) : item = recorded[k]
    BY Members DEF TypeOK
  <2> QED
    BY <2>1, ItemsAreMentioned DEF Declared
<1> QED
  BY <1>1, <1>2 DEF Bound

\* What the inputs of a replay make of a text.
LEMMA ParamsAre ==
    ASSUME NEW t, NEW supplied, NEW url \in Text,
           \A name \in DOMAIN supplied : supplied[name] \in Text,
           Bound(t, Params(supplied, url))
    PROVE  Binds(Params(supplied, url), t)
<1>1. ASSUME NEW name \in DOMAIN Params(supplied, url)
      PROVE  Params(supplied, url)[name] \in Text
  BY <1>1 DEF Params
<1> QED
  BY <1>1 DEF Bound, Binds

\* A run starts with an empty recording.
LEMMA Initially == Init => ContractInv
<1> SUFFICES ASSUME Init PROVE ContractInv
  OBVIOUS
<1>1. PICK supplied \in [DOMAIN Names -> Values], secret \in SUBSET DOMAIN Names :
          inputs = [i \in DOMAIN Names |-> [name |-> Names[i], value |-> supplied[i],
                                            sensitive |-> i \in secret]]
  BY DEF Init
<1>2. Names \in Seq(Name)
  BY NamesAssumption DEF Name
<1>3. DOMAIN Names = 1 .. Len(Names) /\ Len(Names) \in Nat /\ \A i \in 1 .. Len(Names) : Names[i] \in Name
  BY <1>2, Members
<1>4. PICK n : n = Len(Names)
  OBVIOUS
<1>5. ASSUME NEW i \in 1 .. n
      PROVE  [name |-> Names[i], value |-> supplied[i], sensitive |-> i \in secret] \in Input
  <2>1. Names[i] \in Text
    BY <1>3, <1>4, <1>5, NamesAreTexts
  <2>2. supplied[i] \in Values
    BY <1>3, <1>4, <1>5
  <2>3. supplied[i] \in Text
    BY <2>2, TextsAssumption
  <2>4. (i \in secret) \in BOOLEAN
    OBVIOUS
  <2> QED
    BY <2>1, <2>3, <2>4 DEF Input
<1>6. inputs \in [1 .. n -> Input]
  BY <1>1, <1>3, <1>4, <1>5
<1>7. inputs \in Seq(Input) /\ Len(inputs) = n
  BY <1>3, <1>4, <1>6, Listed
<1>8. Supplied
  <2>1. \A k \in 1 .. n : inputs[k].name = Names[k]
    BY <1>1, <1>3, <1>4
  <2> QED
    BY <1>4, <1>7, <2>1 DEF Supplied
<1>9. /\ phase = "recording" /\ recorded = <<>> /\ declared = NoInputs /\ given = NoInputs
      /\ tenant = base /\ sent = <<>> /\ logged = <<>> /\ base \in BaseUrls
  BY DEF Init
<1>10. base \in Text
  BY <1>9, TextsAssumption
<1>11. DOMAIN NoInputs = {}
  BY DEF NoInputs
<1>12. TypeOK
  <2>1. inputs \in Seq([name : Text, value : Text, sensitive : BOOLEAN])
    BY <1>7 DEF Input
  <2>2. /\ recorded \in Seq([kind : Kind, source : Text, seen : Text, text : Text])
        /\ sent \in Seq([text : Text, secret : BOOLEAN]) /\ logged \in Seq(Text)
    BY <1>9, EmptySeq
  <2>3. phase \in Phase
    BY <1>9 DEF Phase
  <2> QED
    BY <1>9, <1>10, <1>11, <2>1, <2>2, <2>3 DEF TypeOK
<1>13. Recordings
  <2>1. Len(recorded) = 0
    BY <1>9, EmptySeq
  <2> QED
    BY <2>1 DEF Recordings
<1> QED
  BY <1>8, <1>9, <1>12, <1>13
     DEF ContractInv, Declares, Declared, Replayed, SubstitutionIsTotal

\* What Record appends was made as the recorder makes it.
LEMMA RecordKeeps ==
    ASSUME ContractInv, phase = "recording", NEW kind \in Kind, NEW source \in Text,
           NEW seen \in Text, Record(kind, source, seen),
           kind = "value" => Bound(source, values) /\ seen = substitute(source, values)
    PROVE  ContractInv'
<1> DEFINE item == [kind |-> kind, source |-> source, seen |-> seen,
                    text |-> canonicalize(seen, inputs, Base(base))]
           Items == [kind : Kind, source : Text, seen : Text, text : Text]
<1>1. TypeOK /\ Supplied /\ Recordings /\ Replayed
  BY DEF ContractInv
<1>2. recorded' = Append(recorded, item)
      /\ UNCHANGED <<phase, inputs, base, declared, given, tenant, sent, logged>>
  BY DEF Record
<1>3. item \in Items
  <2>1. inputs \in Seq(Input) /\ base \in Text
    BY <1>1, InputsAre
  <2>2. canonicalize(seen, inputs, Base(base)) \in Text
    BY <2>1, CanonicalIsText
  <2> QED
    BY <2>2
<1>4. /\ item.kind = kind /\ item.source = source /\ item.seen = seen
      /\ item.text = canonicalize(seen, inputs, Base(base))
  OBVIOUS
<1> HIDE DEF item
<1>5. recorded \in Seq(Items)
  BY <1>1 DEF TypeOK
<1>6. /\ recorded' \in Seq(Items) /\ Len(recorded') = Len(recorded) + 1 /\ Len(recorded) \in Nat
      /\ \A k \in 1 .. Len(recorded) : recorded'[k] = recorded[k]
      /\ recorded'[Len(recorded) + 1] = item
  <2> HIDE DEF Items
  <2> QED
    BY <1>2, <1>3, <1>5, AppendProperties, LenProperties
<1>7. TypeOK'
  BY <1>1, <1>2, <1>6 DEF TypeOK
<1>8. Supplied'
  BY <1>1, <1>2 DEF Supplied
<1>9. values' = values
  BY <1>2 DEF values
<1>10. Recordings'
  <2> SUFFICES ASSUME NEW k \in 1 .. Len(recorded')
               PROVE  /\ recorded'[k].text = canonicalize(recorded'[k].seen, inputs, Base(base))
                      /\ recorded'[k].kind = "value" =>
                             /\ Bound(recorded'[k].source, values)
                             /\ recorded'[k].seen = substitute(recorded'[k].source, values)
    BY <1>2, <1>9 DEF Recordings, Made
  <2>1. CASE k \in 1 .. Len(recorded)
    BY <1>1, <1>6, <2>1 DEF Recordings, Made
  <2>2. CASE k = Len(recorded) + 1
    BY <1>4, <1>6, <2>2
  <2> QED
    BY <1>6, <2>1, <2>2
<1>11. Replayed'
  BY <1>1, <1>2 DEF Replayed
<1> QED
  BY <1>2, <1>7, <1>8, <1>10, <1>11
     DEF ContractInv, Declares, Declared, SubstitutionIsTotal

\* What a function makes of a finite set is finite.
LEMMA FiniteImage ==
    ASSUME NEW S, IsFiniteSet(S), NEW f
    PROVE  IsFiniteSet({f[x] : x \in S})
<1> DEFINE T == {f[x] : x \in S}
           g == [x \in S |-> f[x]]
<1>1. g \in Surjection(S, T)
  <2>1. g \in [S -> T] /\ \A t \in T : \E s \in S : g[s] = t
    OBVIOUS
  <2> QED
    BY <2>1 DEF Surjection
<1> HIDE DEF T, g
<1>2. IsFiniteSet(T)
  BY <1>1, FS_Surjection
<1> QED
  BY <1>2 DEF T

\* The secrets of a replay are finitely many texts.
LEMMA SecretsAre ==
    ASSUME TypeOK, Supplied, NEW supplied,
           DOMAIN supplied \subseteq {i.name : i \in ToSet(inputs)},
           \A name \in DOMAIN supplied : supplied[name] \in Text
    PROVE  Secrets(supplied) \subseteq Text /\ IsFiniteSet(Secrets(supplied))
<1> DEFINE n == Len(inputs)
           name == [k \in 1 .. n |-> inputs[k].name]
           secret == {x \in DOMAIN supplied : declared[x].sensitive}
<1>1. n \in Nat /\ \A i \in ToSet(inputs) : \E k \in 1 .. n : i = inputs[k]
  BY InputsAre
<1>2. IsFiniteSet(1 .. n)
  BY <1>1, FS_Interval
<1>3. IsFiniteSet({name[k] : k \in 1 .. n})
  <2>1. PICK S : S = 1 .. n
    OBVIOUS
  <2>2. IsFiniteSet({name[k] : k \in S})
    <3>1. IsFiniteSet(S)
      BY <1>2, <2>1
    <3> HIDE DEF n, name
    <3> QED
      BY <3>1, FiniteImage
  <2> QED
    BY <2>1, <2>2
<1>4. DOMAIN supplied \subseteq {name[k] : k \in 1 .. n}
  BY <1>1
<1>5. IsFiniteSet(secret)
  <2>1. secret \subseteq {name[k] : k \in 1 .. n}
    BY <1>4
  <2> HIDE DEF secret, name, n
  <2> QED
    BY <1>3, <2>1, FS_Subset
<1>6. IsFiniteSet({supplied[x] : x \in secret})
  <2> HIDE DEF secret
  <2> QED
    BY <1>5, FiniteImage
<1>7. Secrets(supplied) = {supplied[x] : x \in secret}
  BY DEF Secrets
<1>8. {supplied[x] : x \in secret} \subseteq Text
  OBVIOUS
<1> QED
  BY <1>6, <1>7, <1>8

\* The replacements of a redaction, in an order of the secrets.
LEMMA SecretsAreReplaced ==
    ASSUME NEW secrets \in SUBSET Text, IsFiniteSet(secrets), NEW order \in Orders(secrets)
    PROVE  \E r \in Replacements :
               /\ \A t : redact(t, order) = ReplaceEach(t, r, MIN_SECRET_LENGTH)
               /\ \A k \in 1 .. Len(r) : r[k].new = <<"#">>
               /\ \A s \in secrets : Len(s) >= MIN_SECRET_LENGTH =>
                      \E k \in 1 .. Len(r) : r[k].old = s
<1> DEFINE known == {s \in secrets : Len(s) >= MIN_SECRET_LENGTH}
           n == Cardinality(known)
           hash == <<"#">>
           r == [k \in DOMAIN order |-> [old |-> order[k], new |-> hash]]
<1>1. n \in Nat
  <2>1. IsFiniteSet(known)
    BY FS_Subset
  <2> HIDE DEF known
  <2> QED
    BY <2>1, FS_CardinalityType
<1>2. order \in [1 .. n -> known] /\ ToSet(order) = known
  BY DEF Orders
<1>3. hash \in Text
  BY MarksAre, Single
<1> HIDE DEF hash
<1>4. r \in Replacements /\ Len(r) = n
      /\ \A k \in 1 .. n : r[k].old = order[k] /\ r[k].new = hash
  <2>1. DOMAIN r = 1 .. n /\ r = [k \in 1 .. n |-> r[k]]
    BY <1>2
  <2>2. DOMAIN order = 1 .. n /\ \A k \in 1 .. n : order[k] \in Text
    BY <1>2
  <2>3. \A k \in 1 .. n : r[k] \in [old : Text, new : Text]
    <3> HIDE DEF n
    <3> QED
      BY <1>3, <2>2
  <2>4. \A k \in 1 .. n : r[k].old = order[k] /\ r[k].new = hash
    <3> HIDE DEF n
    <3> QED
      BY <2>2
  <2> HIDE DEF r, n
  <2> QED
    BY <1>1, <2>1, <2>3, <2>4, ReplacementsListed
<1>5. \A s \in known : \E k \in 1 .. n : r[k].old = s
  <2> TAKE s \in known
  <2>1. s \in ToSet(order)
    BY <1>2
  <2>2. PICK k \in 1 .. n : order[k] = s
    BY <1>2, <2>1 DEF ToSet
  <2> HIDE DEF r, n, known
  <2> QED
    BY <1>4, <2>2
<1>6. \A t : redact(t, order) = ReplaceEach(t, r, MIN_SECRET_LENGTH)
  BY DEF redact, hash
<1> HIDE DEF r, n
<1> QED
  BY <1>4, <1>5, <1>6 DEF hash

LEMMA RedactedIsText ==
    ASSUME NEW t \in Text, NEW secrets \in SUBSET Text, IsFiniteSet(secrets),
           NEW order \in Orders(secrets)
    PROVE  redact(t, order) \in Text
<1>1. PICK r \in Replacements : \A u : redact(u, order) = ReplaceEach(u, r, MIN_SECRET_LENGTH)
  BY SecretsAreReplaced
<1>2. ReplaceEach(t, r, MIN_SECRET_LENGTH) \in Text
  BY LengthsAssumption, EachIsText
<1> QED
  BY <1>1, <1>2

\* A plain secret of the redactor does not occur in a text that was redacted, in
\* whatever order the secrets were taken.
LEMMA SecretIsRedacted ==
    ASSUME NEW t \in Text, NEW secrets \in SUBSET Text, IsFiniteSet(secrets),
           NEW order \in Orders(secrets),
           NEW v \in secrets, Plain(v), Len(v) >= MIN_SECRET_LENGTH
    PROVE  ~Occurs(v, redact(t, order))
<1>1. PICK hash : hash = <<"#">>
  OBVIOUS
<1>2. PICK r \in Replacements :
          /\ \A u : redact(u, order) = ReplaceEach(u, r, MIN_SECRET_LENGTH)
          /\ \A k \in 1 .. Len(r) : r[k].new = hash
          /\ \A s \in secrets : Len(s) >= MIN_SECRET_LENGTH => \E k \in 1 .. Len(r) : r[k].old = s
  BY <1>1, SecretsAreReplaced
<1>3. hash \in Text /\ Len(hash) = 1 /\ hash[1] = "#" /\ hash # <<>>
  BY <1>1, MarksAre, Single
<1>4. Marked(hash)
  BY <1>3, MarksAre DEF Marked
<1>5. v \in Text /\ v # <<>> /\ Len(v) \in Nat \ {0} /\ v[1] \notin Marks
  <2>1. v \in Text /\ Len(v) \in Nat /\ MIN_SECRET_LENGTH \in Nat \ {0}
    BY TextIs, LengthsAssumption
  <2>2. Len(v) \in Nat \ {0}
    BY <2>1
  <2> QED
    BY <2>1, <2>2, TextIs DEF Plain
<1>6. ~Occurs(v, hash)
  <2> SUFFICES ASSUME NEW p \in 1 .. Len(hash), At(hash, v, p) PROVE FALSE
    BY DEF Occurs
  <2>1. p = 1
    BY <1>3
  <2>2. At(hash, v, 1) /\ 1 \in Nat \ {0}
    BY <2>1
  <2>3. \A k \in 1 .. Len(v) : hash[1 + k - 1] = v[k]
    BY <1>3, <1>5, <2>2, AtIs
  <2>4. 1 \in 1 .. Len(v) /\ 1 + 1 - 1 = 1
    BY <1>5
  <2>5. hash[1 + 1 - 1] = v[1]
    BY <2>3, <2>4
  <2>6. hash[1] = v[1]
    BY <2>4, <2>5
  <2> QED
    BY <1>3, <1>5, <2>6, MarksAre
<1>7. \A k \in 1 .. Len(r) : Marked(r[k].new) /\ ~Occurs(v, r[k].new)
  BY <1>2, <1>4, <1>6
<1>8. \E k \in 1 .. Len(r) : r[k].old = v
  BY <1>2
<1>9. ~Occurs(v, ReplaceEach(t, r, MIN_SECRET_LENGTH))
  BY <1>5, <1>7, <1>8, LengthsAssumption, ReplacedIsGone
<1> QED
  BY <1>2, <1>9

\* What Build declares is what the invariant says, and it is typed.
LEMMA DeclarationIs ==
    ASSUME TypeOK, Supplied
    PROVE  /\ DOMAIN Declaration = {i.name : i \in Used}
           /\ \A i \in Used : /\ i \in ToSet(inputs)
                              /\ Declaration[i.name]
                                     = [sensitive |-> i.sensitive, digits |-> IsDigits(i.value)]
           /\ \A name \in DOMAIN Declaration :
                  Declaration[name] \in [sensitive : BOOLEAN, digits : BOOLEAN]
<1>1. Used \subseteq ToSet(inputs)
  BY DEF Used
<1>2. \A i, j \in ToSet(inputs) : i.name = j.name => i = j
  BY InputsAre
<1>3. DOMAIN Declaration = {i.name : i \in Used}
  BY DEF Declaration
<1>4. ASSUME NEW i \in Used
      PROVE  Declaration[i.name] = [sensitive |-> i.sensitive, digits |-> IsDigits(i.value)]
  <2>1. (CHOOSE j \in Used : j.name = i.name) = i
    BY <1>1, <1>2
  <2> QED
    BY <2>1 DEF Declaration
<1>5. ASSUME NEW i \in Used
      PROVE  [sensitive |-> i.sensitive, digits |-> IsDigits(i.value)]
                 \in [sensitive : BOOLEAN, digits : BOOLEAN]
  <2>1. i \in Input
    <3>1. inputs \in Seq(Input)
      BY DEF TypeOK, Input
    <3> QED
      BY <1>1, <3>1, Members
  <2>2. i.sensitive \in BOOLEAN
    BY <2>1 DEF Input
  <2>3. IsDigits(i.value) \in BOOLEAN
    BY DEF IsDigits
  <2> QED
    BY <2>2, <2>3
<1> QED
  BY <1>1, <1>3, <1>4, <1>5

LEMMA BuildKeeps ==
    ASSUME ContractInv, Build
    PROVE  ContractInv'
<1>1. TypeOK /\ Supplied /\ Recordings /\ Replayed /\ phase = "recording"
  BY DEF ContractInv, Build
<1>2. /\ declared' = Declaration
      /\ phase' = IF Placeholders \subseteq DOMAIN declared' \cup {BASE_URL}
                  THEN "saved" ELSE "invalid"
      /\ UNCHANGED <<inputs, base, recorded, given, tenant, sent, logged>>
  BY DEF Build, Declaration
<1>3. TypeOK'
  <2>1. \A name \in DOMAIN declared' : declared'[name] \in [sensitive : BOOLEAN, digits : BOOLEAN]
    BY <1>1, <1>2, DeclarationIs
  <2>2. phase' \in Phase
    BY <1>2 DEF Phase
  <2> QED
    BY <1>1, <1>2, <2>1, <2>2 DEF TypeOK
<1>4. values' = values
  BY <1>2 DEF values
<1>5. Supplied' /\ Recordings'
  BY <1>1, <1>2, <1>4 DEF Supplied, Recordings, Made
<1>6. Placeholders' = Placeholders /\ Used' = Used
  BY <1>2 DEF Placeholders, Mentioned, Used
<1>7. Declaration' = Declaration
  BY <1>6 DEF Declaration
<1>8. Declares' /\ Declared'
  BY <1>2, <1>6, <1>7 DEF Declares, Declared
<1>9. phase' \in {"saved", "invalid"}
  BY <1>2
<1>10. Replayed'
  BY <1>1, <1>2, <1>9 DEF Replayed
<1> QED
  BY <1>3, <1>5, <1>8, <1>9, <1>10 DEF ContractInv, SubstitutionIsTotal

\* The inputs that a replay is given are texts, some of them secrets.
LEMMA GivenIs ==
    ASSUME ContractInv, Replay
    PROVE  /\ DOMAIN given' \subseteq {i.name : i \in ToSet(inputs)}
           /\ \A name \in DOMAIN given' : given'[name] \in Text
           /\ tenant' \in Text
           /\ Secrets(given') \subseteq Text /\ IsFiniteSet(Secrets(given'))
<1>1. TypeOK /\ Supplied
  BY DEF ContractInv
<1>2. tenant' \in Text
  BY TextsAssumption DEF Replay
<1>3. PICK names \in SUBSET {i.name : i \in ToSet(inputs)} :
          given' \in [names -> Others \cup {i.value : i \in ToSet(inputs)}]
  BY DEF Replay
<1>4. Others \cup {i.value : i \in ToSet(inputs)} \subseteq Text
  <2>1. \A i \in ToSet(inputs) : i.value \in Text
    BY <1>1, InputsAre
  <2> QED
    BY <2>1, TextsAssumption
<1>5. /\ DOMAIN given' \subseteq {i.name : i \in ToSet(inputs)}
      /\ \A name \in DOMAIN given' : given'[name] \in Text
  BY <1>3, <1>4
<1>6. PICK supplied : supplied = given'
  OBVIOUS
<1>7. Secrets(supplied) \subseteq Text /\ IsFiniteSet(Secrets(supplied))
  BY <1>1, <1>5, <1>6, SecretsAre
<1> QED
  BY <1>2, <1>5, <1>6, <1>7

\* A replay whose inputs were accepted binds every item, and sends and logs texts.
LEMMA ReplayKeeps ==
    ASSUME ContractInv, Replay
    PROVE  ContractInv'
<1>1. /\ TypeOK /\ Supplied /\ Recordings /\ Declares /\ Declared /\ phase = "saved"
      /\ sent = <<>> /\ logged = <<>>
  BY DEF ContractInv, Replay, Replayed
<1>2. UNCHANGED <<inputs, base, recorded, declared>>
  BY DEF Replay
<1>3. /\ DOMAIN given' \subseteq {i.name : i \in ToSet(inputs)}
      /\ \A name \in DOMAIN given' : given'[name] \in Text
      /\ tenant' \in Text
      /\ Secrets(given') \subseteq Text /\ IsFiniteSet(Secrets(given'))
  BY GivenIs
<1>4. PICK supplied, params : supplied = given' /\ params = Params(given', tenant')
  OBVIOUS
<1>5. recorded \in Seq([kind : Kind, source : Text, seen : Text, text : Text])
  BY <1>1 DEF TypeOK
<1>6. /\ DOMAIN recorded = 1 .. Len(recorded) /\ Len(recorded) \in Nat
      /\ \A k \in 1 .. Len(recorded) : recorded[k] \in ToSet(recorded) /\ recorded[k].text \in Text
  <2>1. /\ DOMAIN recorded = 1 .. Len(recorded) /\ Len(recorded) \in Nat
        /\ \A k \in 1 .. Len(recorded) :
               /\ recorded[k] \in ToSet(recorded)
               /\ recorded[k] \in [kind : Kind, source : Text, seen : Text, text : Text]
    <3>1. PICK Item : Item = [kind : Kind, source : Text, seen : Text, text : Text]
      OBVIOUS
    <3>2. recorded \in Seq(Item)
      BY <1>5, <3>1
    <3> QED
      BY <3>1, <3>2, Members
  <2>2. \A k \in 1 .. Len(recorded) : recorded[k].text \in Text
    BY <2>1
  <2> QED
    BY <2>1, <2>2
<1>7. Valid(supplied) => \A item \in ToSet(recorded) : Bound(item.text, params)
  BY <1>1, <1>4, ValidInputsBind
<1>8. \/ phase' = "refused" /\ sent' = <<>> /\ logged' = <<>>
      \/ /\ Valid(supplied) /\ phase' = "replayed"
         /\ sent' = [k \in DOMAIN recorded |-> [text |-> substitute(recorded[k].text, params),
                                                secret |-> value_is_secret(recorded[k])]]
         /\ \E order \in Orders(Secrets(supplied)) :
                logged' = [k \in DOMAIN recorded |-> redact(sent'[k].text, order)]
  BY <1>1, <1>4, <1>7 DEF Replay
<1>9. phase' \in {"refused", "replayed"} /\ phase' \in Phase
  BY <1>8 DEF Phase
<1>10. Supplied' /\ Recordings'
  <2>1. values' = values
    BY <1>2 DEF values
  <2> QED
    BY <1>1, <1>2, <2>1 DEF Supplied, Recordings, Made
<1>11. Declares' /\ Declared'
  <2>1. Placeholders' = Placeholders /\ Used' = Used
    BY <1>2 DEF Placeholders, Mentioned, Used
  <2>2. Declaration' = Declaration
    BY <2>1 DEF Declaration
  <2> QED
    BY <1>1, <1>2, <2>1, <2>2 DEF Declares, Declared
<1>12. CASE phase' = "refused" /\ sent' = <<>> /\ logged' = <<>>
  <2>1. Replayed'
    BY <1>12 DEF Replayed
  <2>2. sent' \in Seq([text : Text, secret : BOOLEAN]) /\ logged' \in Seq(Text)
    BY <1>12, EmptySeq
  <2>3. TypeOK'
    BY <1>1, <1>2, <1>3, <1>9, <2>2 DEF TypeOK
  <2> QED
    BY <1>9, <1>10, <1>11, <2>1, <2>3 DEF ContractInv, SubstitutionIsTotal
<1>13. CASE /\ Valid(supplied) /\ phase' = "replayed"
            /\ sent' = [k \in DOMAIN recorded |->
                          [text |-> substitute(recorded[k].text, params),
                           secret |-> value_is_secret(recorded[k])]]
            /\ \E order \in Orders(Secrets(supplied)) :
                   logged' = [k \in DOMAIN recorded |-> redact(sent'[k].text, order)]
  <2>1. PICK order \in Orders(Secrets(supplied)) :
            logged' = [k \in DOMAIN recorded |-> redact(sent'[k].text, order)]
    BY <1>13
  <2>2. PICK n : n = Len(recorded)
    OBVIOUS
  <2>3. n \in Nat /\ DOMAIN recorded = 1 .. n
    BY <1>6, <2>2
  <2>4. ASSUME NEW k \in 1 .. n
        PROVE  /\ substitute(recorded[k].text, params) \in Text
               /\ sent'[k].text = substitute(recorded[k].text, params)
               /\ sent'[k] \in [text : Text, secret : BOOLEAN]
    <3>1. recorded[k].text \in Text /\ Bound(recorded[k].text, params)
      BY <1>6, <1>7, <1>13, <2>2
    <3>2. Binds(params, recorded[k].text)
      BY <1>3, <1>4, <3>1, ParamsAre
    <3>3. substitute(recorded[k].text, params) \in Text
      BY <3>1, <3>2, SubstituteIsText
    <3>4. sent'[k] = [text |-> substitute(recorded[k].text, params),
                      secret |-> value_is_secret(recorded[k])]
      BY <1>13, <2>3
    <3>5. value_is_secret(recorded[k]) \in BOOLEAN
      BY DEF value_is_secret
    <3> QED
      BY <3>3, <3>4, <3>5
  <2>5. sent' \in Seq([text : Text, secret : BOOLEAN])
    <3>1. sent' \in [1 .. n -> [text : Text, secret : BOOLEAN]]
      <4>1. DOMAIN sent' = 1 .. n /\ sent' = [k \in 1 .. n |-> sent'[k]]
        BY <1>13, <2>3
      <4> QED
        BY <2>4, <4>1
    <3> QED
      BY <2>3, <3>1, Listed
  <2>6. logged' \in Seq(Text)
    <3>1. \A k \in 1 .. n : redact(sent'[k].text, order) \in Text
      BY <1>3, <1>4, <2>1, <2>4, RedactedIsText
    <3>2. logged' \in [1 .. n -> Text]
      BY <2>1, <2>3, <3>1
    <3> QED
      BY <2>3, <3>2, Listed
  <2>7. TypeOK'
    BY <1>1, <1>2, <1>3, <1>9, <2>5, <2>6 DEF TypeOK
  <2>8. Valid(given)'
    BY <1>2, <1>4, <1>13 DEF Valid
  <2>9. Sends'
    BY <1>2, <1>4, <1>13 DEF Sends, value_is_secret
  <2>10. Logs'
    <3>1. Secrets(given)' = Secrets(supplied)
      BY <1>2, <1>4 DEF Secrets
    <3> QED
      BY <1>2, <2>1, <3>1 DEF Logs
  <2>11. Replayed'
    BY <1>13, <2>8, <2>9, <2>10 DEF Replayed
  <2> QED
    BY <1>9, <1>10, <1>11, <2>7, <2>11 DEF ContractInv, SubstitutionIsTotal
<1> QED
  BY <1>8, <1>12, <1>13

\* Every step keeps the invariant.
LEMMA Inductive == ContractInv /\ [Next]_vars => ContractInv'
<1> SUFFICES ASSUME ContractInv, [Next]_vars PROVE ContractInv'
  OBVIOUS
<1>1. TypeOK /\ Supplied
  BY DEF ContractInv
<1>2. CASE TypeValue
  <2>1. PICK decision \in Decisions :
            Acceptable(decision) /\ Record("value", decision, substitute(decision, values))
    BY <1>2 DEF TypeValue
  <2>2. phase = "recording" /\ "value" \in Kind /\ Bound(decision, values) /\ decision \in Text
    BY <1>2, <2>1, TextsAssumption DEF TypeValue, Kind, Acceptable
  <2>3. Binds(values, decision)
    BY <1>1, <2>2, ValuesAre DEF Bound, Binds
  <2>4. substitute(decision, values) \in Text
    BY <2>2, <2>3, SubstituteIsText
  <2> QED
    BY <2>1, <2>2, <2>4, RecordKeeps
<1>3. CASE OpenUrl
  <2>1. PICK path \in Paths : Record("url", base \o path, base \o path)
    BY <1>3 DEF OpenUrl
  <2>2. phase = "recording" /\ "url" \in Kind /\ "url" # "value"
    BY <1>3 DEF OpenUrl, Kind
  <2>3. base \o path \in Text
    <3>1. base \in Text /\ path \in Text
      BY <1>1, TextsAssumption, InputsAre
    <3> QED
      BY <3>1, Joined DEF IsJoin
  <2> QED
    BY <2>1, <2>2, <2>3, RecordKeeps
<1>4. CASE SeePage
  <2>1. PICK path \in Paths \cup {i.value : i \in ToSet(inputs)} : Record("condition", path, path)
    BY <1>4 DEF SeePage
  <2>2. phase = "recording" /\ "condition" \in Kind /\ "condition" # "value"
    BY <1>4 DEF SeePage, Kind
  <2>3. path \in Text
    <3>1. \A i \in ToSet(inputs) : i.value \in Text
      BY <1>1, InputsAre
    <3> QED
      BY <3>1, TextsAssumption
  <2> QED
    BY <2>1, <2>2, <2>3, RecordKeeps
<1>5. CASE Build
  BY <1>5, BuildKeeps
<1>6. CASE Replay
  BY <1>6, ReplayKeeps
<1>7. CASE UNCHANGED vars
  <2>1. TypeOK' /\ Supplied'
    BY <1>1, <1>7 DEF vars, TypeOK, Supplied
  <2>2. values' = values /\ Placeholders' = Placeholders /\ Used' = Used
    BY <1>7 DEF vars, values, Placeholders, Mentioned, Used
  <2>3. Declaration' = Declaration
    BY <2>2 DEF Declaration
  <2>4. Recordings'
    BY <1>7, <2>2 DEF ContractInv, vars, Recordings, Made
  <2>5. Declares' /\ Declared'
    BY <1>7, <2>2, <2>3 DEF ContractInv, vars, Declares, Declared
  <2>6. Secrets(given)' = Secrets(given)
    BY <1>7 DEF vars, Secrets
  <2>7. Valid(given)' = Valid(given) /\ Sends' = Sends
    BY <1>7 DEF vars, Valid, Sends, value_is_secret
  <2>8. Logs' = Logs
    BY <1>7, <2>6 DEF vars, Logs
  <2>9. Replayed'
    BY <1>7, <2>7, <2>8 DEF ContractInv, vars, Replayed
  <2> QED
    BY <1>7, <2>1, <2>4, <2>5, <2>9 DEF ContractInv, vars, SubstitutionIsTotal
<1> QED
  BY <1>2, <1>3, <1>4, <1>5, <1>6, <1>7 DEF Next

LEMMA Invariance == Spec => []ContractInv
  BY Initially, Inductive, PTL DEF Spec

\* Every variable has its type: what is typed, recorded, sent and logged are texts.
THEOREM TypeCorrectness == Spec => []TypeOK
<1>1. ContractInv => TypeOK
  BY DEF ContractInv
<1> QED
  BY <1>1, Invariance, PTL

\* A replay whose inputs were accepted has a value for every placeholder of the
\* artifact, for every recording that the schema admitted (schema.py's
\* validation and validate_inputs leave nothing open between them).
THEOREM NothingIsUnbound == Spec => []SubstitutionIsTotal
<1>1. ContractInv => SubstitutionIsTotal
  BY DEF ContractInv
<1> QED
  BY <1>1, Invariance, PTL

-----------------------------------------------------------------------------
(* Secrets.                                                                *)

\* No secret contains "${", "}" or [REDACTED].
PlainSecrets ==
    /\ \A i \in ToSet(inputs) : i.sensitive => Plain(i.value)
    /\ phase = "replayed" => \A secret \in Secrets(given) : Plain(secret)

\* What NamesApart says of the inputs, one by one.
LEMMA Apart ==
    ASSUME TypeOK, Supplied, NamesApart
    PROVE  \A j, k \in 1 .. Len(inputs) :
               /\ Len(inputs[j].value) >= MIN_CANONICALIZED_LENGTH =>
                      /\ ~Occurs(inputs[j].value, Placeholder(inputs[k].name))
                      /\ ~Occurs(inputs[j].value, Placeholder(BASE_URL))
               /\ ~Occurs(base, Placeholder(inputs[k].name))
               /\ ~Occurs(base, Placeholder(BASE_URL))
<1>1. \A k \in 1 .. Len(inputs) : inputs[k] \in ToSet(inputs)
  BY InputsAre
<1>2. \A k \in 1 .. Len(inputs) : inputs[k].name \in {i.name : i \in ToSet(inputs)}
  BY <1>1
<1>3. \A k \in 1 .. Len(inputs) : Len(inputs[k].value) >= MIN_CANONICALIZED_LENGTH =>
          inputs[k].value \in {i.value : i \in Sought}
  BY <1>1 DEF Sought
<1> QED
  BY <1>2, <1>3 DEF NamesApart

\* What a replay was given are values for declared inputs.
LEMMA GivenAre ==
    ASSUME ContractInv, phase = "replayed"
    PROVE  /\ DOMAIN given = {i.name : i \in Used} /\ declared = Declaration
           /\ \A name \in DOMAIN given : given[name] \in Text
           /\ Secrets(given) \subseteq Text /\ IsFiniteSet(Secrets(given))
<1>1. TypeOK /\ Supplied /\ declared = Declaration /\ Valid(given)
  BY DEF ContractInv, Declares, Replayed
<1>2. DOMAIN given = {i.name : i \in Used} /\ \A name \in DOMAIN given : given[name] \in Text
  BY <1>1, DeclarationIs DEF Valid, TypeOK
<1>3. DOMAIN given \subseteq {i.name : i \in ToSet(inputs)}
  BY <1>2 DEF Used
<1>4. PICK supplied : supplied = given
  OBVIOUS
<1>5. Secrets(supplied) \subseteq Text /\ IsFiniteSet(Secrets(supplied))
  BY <1>1, <1>2, <1>3, <1>4, SecretsAre
<1> QED
  BY <1>1, <1>2, <1>4, <1>5

LEMMA ArtifactsKeepNoSecret ==
    ASSUME ContractInv, PlainSecrets, NamesApart,
           NEW item \in ToSet(recorded), NEW i \in Sought, i.sensitive
    PROVE  ~Occurs(i.value, item.text)
<1>1. TypeOK /\ Supplied /\ Recordings
  BY DEF ContractInv
<1>2. i \in ToSet(inputs) /\ Len(i.value) >= MIN_CANONICALIZED_LENGTH
  BY DEF Sought
<1>3. PICK q \in 1 .. Len(inputs) : i = inputs[q]
  BY <1>1, <1>2, InputsAre
<1>4. recorded \in Seq([kind : Kind, source : Text, seen : Text, text : Text])
  BY <1>1 DEF TypeOK
<1>5. PICK k \in 1 .. Len(recorded) : item = recorded[k]
  BY <1>4, Members
<1>6. item.text = canonicalize(item.seen, inputs, Base(base))
  BY <1>1, <1>5 DEF Recordings, Made
<1>7. item.seen \in Text
  <2>1. item \in [kind : Kind, source : Text, seen : Text, text : Text]
    BY <1>4, Members
  <2> QED
    BY <2>1
<1>8. Plain(inputs[q].value) /\ Len(inputs[q].value) >= MIN_CANONICALIZED_LENGTH
  BY <1>2, <1>3 DEF PlainSecrets
<1>9. /\ \A j \in 1 .. Len(inputs) : ~Occurs(inputs[q].value, Placeholder(inputs[j].name))
      /\ ~Occurs(inputs[q].value, Placeholder(BASE_URL))
  BY <1>1, <1>8, Apart
<1>10. inputs \in Seq(Input) /\ base \in Text
  BY <1>1, InputsAre
<1>11. ~Occurs(inputs[q].value, canonicalize(item.seen, inputs, Base(base)))
  BY <1>7, <1>8, <1>9, <1>10, ValueIsParameterized
<1> QED
  BY <1>3, <1>6, <1>11

LEMMA EventsKeepNoSecret ==
    ASSUME ContractInv, PlainSecrets, NEW text \in ToSet(logged), NEW secret \in Secrets(given),
           Len(secret) >= MIN_SECRET_LENGTH
    PROVE  ~Occurs(secret, text)
<1>1. phase = "replayed"
  <2>1. logged # <<>>
    <3>1. PICK q \in 1 .. Len(logged) : text = logged[q]
      <4>1. logged \in Seq(Text)
        BY DEF ContractInv, TypeOK
      <4> QED
        BY <4>1, Members
    <3>2. Len(logged) # 0
      BY <3>1
    <3> QED
      BY <3>2
  <2> QED
    BY <2>1 DEF ContractInv, Replayed
<1>2. Secrets(given) \subseteq Text /\ IsFiniteSet(Secrets(given))
  BY <1>1, GivenAre
<1>3. PICK order \in Orders(Secrets(given)) :
          logged = [k \in DOMAIN recorded |-> redact(sent[k].text, order)]
  BY <1>1 DEF ContractInv, Replayed, Logs
<1>4. PICK k \in DOMAIN recorded : text = redact(sent[k].text, order)
  BY <1>3 DEF ToSet
<1>5. sent[k].text \in Text
  <2>1. sent \in Seq([text : Text, secret : BOOLEAN])
    BY DEF ContractInv, TypeOK
  <2>2. k \in DOMAIN sent
    BY <1>1, <1>4 DEF ContractInv, Replayed, Sends
  <2>3. PICK Sent : Sent = [text : Text, secret : BOOLEAN]
    OBVIOUS
  <2>4. sent \in Seq(Sent)
    BY <2>1, <2>3
  <2>5. k \in 1 .. Len(sent)
    BY <2>2, <2>4, Members
  <2>6. sent[k] \in Sent
    BY <2>4, <2>5, Members
  <2> QED
    BY <2>3, <2>6
<1>6. Plain(secret)
  BY <1>1 DEF PlainSecrets
<1> QED
  BY <1>2, <1>4, <1>5, <1>6, SecretIsRedacted

\* A secret that contains no mark, and is long enough to be looked for, is in no
\* text of the artifact, whatever was typed or seen (canonicalize); and in no
\* event, in whatever order the redactor takes its secrets (redact_text).
THEOREM SecretsAreKept == Spec => [](PlainSecrets => SecretsStayInside)
<1>1. ASSUME ContractInv, PlainSecrets PROVE SecretsStayInside
  BY <1>1, ArtifactsKeepNoSecret, EventsKeepNoSecret DEF SecretsStayInside
<1> QED
  BY <1>1, Invariance, PTL

-----------------------------------------------------------------------------
(* What was typed as an input.                                             *)

LEMMA TypedInputFollows ==
    ASSUME ContractInv, phase = "replayed", NamesApart,
           NEW k \in DOMAIN recorded, NEW i \in Sought,
           recorded[k].kind = "value", recorded[k].source = Placeholder(i.name),
           \A j \in ToSet(inputs) : j.value = i.value => j = i
    PROVE  /\ i.name \in DOMAIN given
           /\ sent[k].text = given[i.name]
           /\ i.sensitive => sent[k].secret
<1>1. TypeOK /\ Supplied /\ Recordings /\ Sends
  BY DEF ContractInv, Replayed
<1>2. i \in ToSet(inputs) /\ Len(i.value) >= MIN_CANONICALIZED_LENGTH
  BY DEF Sought
<1>3. PICK q \in 1 .. Len(inputs) : i = inputs[q]
  BY <1>1, <1>2, InputsAre
<1>4. /\ i.name \in Name /\ i.name # BASE_URL /\ i.value \in Text
      /\ inputs \in Seq(Input) /\ base \in Text
  BY <1>1, <1>3, InputsAre
<1>5. k \in 1 .. Len(recorded)
  BY <1>1, Members DEF TypeOK
<1>6. recorded[k].seen = i.value
  <2>1. recorded[k].seen = substitute(Placeholder(i.name), values)
    BY <1>1, <1>5 DEF Recordings, Made
  <2>2. values[i.name] = i.value
    BY <1>1, <1>3, ValuesAre
  <2> QED
    BY <1>4, <2>1, <2>2, PlaceholderAlone
<1>7. recorded[k].text = Placeholder(i.name)
  <2>1. recorded[k].text = canonicalize(inputs[q].value, inputs, Base(base))
    BY <1>1, <1>3, <1>5, <1>6 DEF Recordings, Made
  <2>2. \A j \in 1 .. Len(inputs) : inputs[j].value = inputs[q].value => j = q
    <3>1. \A j \in 1 .. Len(inputs) : inputs[j] \in ToSet(inputs)
      BY <1>1, InputsAre
    <3>2. \A j \in 1 .. Len(inputs) : inputs[j] = inputs[q] => j = q
      BY <1>1, InputsAre
    <3> QED
      BY <1>3, <3>1, <3>2
  <2>3. /\ \A j \in 1 .. Len(inputs) :
               Len(inputs[j].value) >= MIN_CANONICALIZED_LENGTH =>
                   ~Occurs(inputs[j].value, Placeholder(inputs[q].name))
        /\ ~Occurs(base, Placeholder(inputs[q].name))
    BY <1>1, Apart
  <2>4. canonicalize(inputs[q].value, inputs, Base(base)) = Placeholder(inputs[q].name)
    BY <1>2, <1>3, <1>4, <2>2, <2>3, OwnPlaceholder
  <2> QED
    BY <1>3, <2>1, <2>4
<1>8. find_placeholders(recorded[k].text) = {i.name}
  BY <1>4, <1>7, PlaceholderAlone
<1>9. i \in Used
  <2>1. i.name \in Mentioned({"value", "url"})
    BY <1>1, <1>5, <1>8, ItemsAreMentioned
  <2> QED
    BY <1>2, <2>1 DEF Used
<1>10. /\ DOMAIN given = {j.name : j \in Used} /\ declared = Declaration
       /\ \A name \in DOMAIN given : given[name] \in Text
  BY GivenAre
<1>11. i.name \in DOMAIN given /\ given[i.name] \in Text
  BY <1>9, <1>10
<1>12. sent[k].text = given[i.name]
  <2>1. PICK params : params = Params(given, tenant)
    OBVIOUS
  <2>2. params[i.name] = given[i.name]
    BY <1>4, <1>11, <2>1 DEF Params
  <2>3. sent[k].text = substitute(Placeholder(i.name), params)
    BY <1>1, <1>7, <2>1 DEF Sends
  <2> QED
    BY <1>4, <1>11, <2>2, <2>3, PlaceholderAlone
<1>13. ASSUME i.sensitive PROVE sent[k].secret
  <2>1. declared[i.name] = [sensitive |-> i.sensitive, digits |-> IsDigits(i.value)]
        /\ i.name \in DOMAIN declared
    BY <1>1, <1>9, <1>10, DeclarationIs
  <2>2. i.name \in find_placeholders(recorded[k].text) \cap DOMAIN declared
        /\ declared[i.name].sensitive
    BY <1>8, <1>13, <2>1
  <2>3. value_is_secret(recorded[k])
    BY <2>2 DEF value_is_secret
  <2> QED
    BY <1>1, <2>3 DEF Sends
<1> QED
  BY <1>11, <1>12, <1>13

\* What the model typed as one input follows that input at replay, for every
\* recording and every inputs: no value that contains it or is contained in it
\* gets in the way (Recorder.canonicalize replaces the longest values first), and
\* the replay knows it for a secret where the input is one.
THEOREM TypedInputsFollow == Spec => []FollowsItsInput
<1>1. ContractInv => FollowsItsInput
  BY TypedInputFollows DEF FollowsItsInput
<1> QED
  BY <1>1, Invariance, PTL

-----------------------------------------------------------------------------
(* Placeholders and substitution in a text that is put together.           *)

\* What stands in the second part of a text stands in the whole.
LEMMA StandsInRest ==
    ASSUME NEW s \in Text, NEW r \in Text, NEW u, IsJoin(u, s, r),
           NEW i \in Nat \ {0}, NEW j \in Nat
    PROVE  /\ Stands(u, Len(s) + i, Len(s) + j) <=> Stands(r, i, j)
           /\ Stands(r, i, j) => Between(u, Len(s) + i, Len(s) + j) = Between(r, i, j)
<1>1. PICK n, p, q : n = Len(s) /\ p = n + i /\ q = n + j
  OBVIOUS
<1>2. /\ u \in Text /\ n \in Nat /\ Len(r) \in Nat /\ Len(u) = n + Len(r)
      /\ \A k \in 1 .. Len(r) : u[n + k] = r[k]
  BY <1>1 DEF IsJoin
<1>3. p \in Nat /\ q \in Nat /\ p + 1 = n + (i + 1) /\ q - 1 = n + (j - 1)
  BY <1>1, <1>2
<1>4. p \in 1 .. Len(u) /\ q \in 1 .. Len(u) /\ p + 1 < q
          <=> i \in 1 .. Len(r) /\ j \in 1 .. Len(r) /\ i + 1 < j
  BY <1>1, <1>2
<1>5. ASSUME i \in 1 .. Len(r), j \in 1 .. Len(r), i + 1 < j
      PROVE  /\ u[p] = r[i] /\ u[q] = r[j] /\ u[p + 1] = r[i + 1]
             /\ \A k \in i + 1 .. j - 1 : n + k \in p + 1 .. q - 1 /\ u[n + k] = r[k]
             /\ \A h \in p + 1 .. q - 1 : h - n \in i + 1 .. j - 1 /\ u[h] = r[h - n]
  <2>1. i + 1 \in 1 .. Len(r) /\ \A k \in i + 1 .. j - 1 : k \in 1 .. Len(r)
    BY <1>2, <1>5
  <2>2. u[p] = r[i] /\ u[q] = r[j] /\ u[p + 1] = r[i + 1]
    BY <1>1, <1>2, <1>3, <1>5, <2>1
  <2>3. ASSUME NEW k \in i + 1 .. j - 1 PROVE n + k \in p + 1 .. q - 1 /\ u[n + k] = r[k]
    <3>1. n + k \in p + 1 .. q - 1
      BY <1>1, <1>2
    <3> QED
      BY <1>2, <2>1, <3>1
  <2>4. ASSUME NEW h \in p + 1 .. q - 1 PROVE h - n \in i + 1 .. j - 1 /\ u[h] = r[h - n]
    <3>1. PICK k : k = h - n
      OBVIOUS
    <3>2. k \in i + 1 .. j - 1 /\ n + k = h
      BY <1>1, <1>2, <3>1
    <3> QED
      BY <2>3, <3>1, <3>2
  <2> QED
    BY <2>2, <2>3, <2>4
<1>6. ASSUME Stands(r, i, j) PROVE Stands(u, p, q)
  <2>1. i \in 1 .. Len(r) /\ j \in 1 .. Len(r) /\ i + 1 < j
    BY <1>6, StandsWhere
  <2>2. p \in 1 .. Len(u) /\ q \in 1 .. Len(u) /\ p + 1 < q
    BY <1>4, <2>1
  <2>3. /\ r[i] = "${" /\ r[j] = "}" /\ r[i + 1] \in Letters
        /\ \A k \in i + 1 .. j - 1 : r[k] \in Letters \cup Digits
    BY <1>6, Zenon DEF Stands
  <2>4. u[p] = "${" /\ u[q] = "}" /\ u[p + 1] \in Letters
    BY <1>5, <2>1, <2>3
  <2>5. \A h \in p + 1 .. q - 1 : u[h] \in Letters \cup Digits
    BY <1>5, <2>1, <2>3
  <2> QED
    BY <2>2, <2>4, <2>5, Zenon DEF Stands
<1>7. ASSUME Stands(u, p, q) PROVE Stands(r, i, j)
  <2>1. p \in 1 .. Len(u) /\ q \in 1 .. Len(u) /\ p + 1 < q
    BY <1>2, <1>7, StandsWhere
  <2>2. i \in 1 .. Len(r) /\ j \in 1 .. Len(r) /\ i + 1 < j
    BY <1>4, <2>1
  <2>3. /\ u[p] = "${" /\ u[q] = "}" /\ u[p + 1] \in Letters
        /\ \A h \in p + 1 .. q - 1 : u[h] \in Letters \cup Digits
    BY <1>7, Zenon DEF Stands
  <2>4. r[i] = "${" /\ r[j] = "}" /\ r[i + 1] \in Letters
    BY <1>5, <2>2, <2>3
  <2>5. \A k \in i + 1 .. j - 1 : r[k] \in Letters \cup Digits
    BY <1>5, <2>2, <2>3
  <2> QED
    BY <2>2, <2>4, <2>5, Zenon DEF Stands
<1>8. ASSUME Stands(r, i, j) PROVE Between(u, p, q) = Between(r, i, j)
  <2>1. PICK a, b : a = Between(u, p, q) /\ b = Between(r, i, j)
    OBVIOUS
  <2>2. Stands(u, p, q) /\ i \in 1 .. Len(r) /\ j \in 1 .. Len(r) /\ i + 1 < j
    BY <1>6, <1>8, StandsWhere
  <2>3. /\ Between(u, p, q) \in Text /\ Len(Between(u, p, q)) = q - 1 - p
        /\ \A k \in 1 .. q - 1 - p : Between(u, p, q)[k] = u[p + k]
    BY <1>2, <2>2, NameIsText DEF IsBetween
  <2>4. /\ Between(r, i, j) \in Text /\ Len(Between(r, i, j)) = j - 1 - i
        /\ \A k \in 1 .. j - 1 - i : Between(r, i, j)[k] = r[i + k]
    <3>1. IsBetween(Between(r, i, j), r, i, j)
      BY <1>8, NameIsText
    <3> QED
      BY <3>1 DEF IsBetween
  <2>5. q - 1 - p = j - 1 - i
    BY <1>1, <1>2
  <2>6. ASSUME NEW k \in 1 .. j - 1 - i PROVE a[k] = b[k]
    <3>1. i + k \in i + 1 .. j - 1 /\ n + (i + k) = p + k
      BY <1>1, <1>2
    <3>2. u[n + (i + k)] = r[i + k]
      BY <1>5, <2>2, <3>1
    <3>3. a[k] = u[p + k] /\ b[k] = r[i + k]
      BY <2>1, <2>3, <2>4, <2>5
    <3> QED
      BY <3>1, <3>2, <3>3
  <2>7. a \in Text /\ b \in Text /\ Len(a) = j - 1 - i /\ Len(b) = j - 1 - i
    BY <2>1, <2>3, <2>4, <2>5
  <2>8. \A k \in 1 .. Len(a) : a[k] = b[k]
    BY <2>6, <2>7
  <2> QED
    BY <2>1, <2>7, <2>8, TextsEqual
<1> QED
  BY <1>1, <1>6, <1>7, <1>8

\* What stands in the first part of a text stands in the whole.
LEMMA StandsInFirst ==
    ASSUME NEW s \in Text, NEW r \in Text, NEW u, IsJoin(u, s, r),
           NEW i, NEW j, Stands(s, i, j)
    PROVE  Stands(u, i, j) /\ Between(u, i, j) = Between(s, i, j)
<1>1. /\ u \in Text /\ Len(s) \in Nat /\ Len(r) \in Nat /\ Len(u) = Len(s) + Len(r)
      /\ \A k \in 1 .. Len(s) : u[k] = s[k]
  BY DEF IsJoin
<1>2. i \in 1 .. Len(s) /\ j \in 1 .. Len(s) /\ i + 1 < j
  BY StandsWhere
<1>3. i \in 1 .. Len(u) /\ j \in 1 .. Len(u) /\ i + 1 \in 1 .. Len(s)
      /\ \A k \in i + 1 .. j - 1 : k \in 1 .. Len(s)
  BY <1>1, <1>2
<1>4. u[i] = s[i] /\ u[j] = s[j] /\ u[i + 1] = s[i + 1] /\ \A k \in i + 1 .. j - 1 : u[k] = s[k]
  BY <1>1, <1>2, <1>3
<1>5. Stands(u, i, j)
  BY <1>2, <1>3, <1>4, Zenon DEF Stands
<1>6. PICK a, b : a = Between(u, i, j) /\ b = Between(s, i, j)
  OBVIOUS
<1>7. a \in Text /\ Len(a) = j - 1 - i /\ \A k \in 1 .. j - 1 - i : a[k] = u[i + k]
  BY <1>1, <1>5, <1>6, NameIsText DEF IsBetween
<1>8. b \in Text /\ Len(b) = j - 1 - i /\ \A k \in 1 .. j - 1 - i : b[k] = s[i + k]
  BY <1>6, NameIsText DEF IsBetween
<1>9. \A k \in 1 .. j - 1 - i : i + k \in i + 1 .. j - 1
  BY <1>2
<1>10. \A k \in 1 .. Len(a) : a[k] = b[k]
  BY <1>4, <1>7, <1>8, <1>9
<1> QED
  BY <1>5, <1>6, <1>7, <1>8, <1>10, TextsEqual

\* What is made of the second part of a text does not depend on the first.
LEMMA SubstituteRest ==
    ASSUME NEW s \in Text, NEW r \in Text, NEW u, IsJoin(u, s, r), NEW bound,
           NEW whole, NEW part, Substitutes(whole, u, bound), Substitutes(part, r, bound)
    PROVE  whole[Len(s) + 1] = part[1]
<1>1. PICK l, n : l = Len(s) /\ n = Len(r)
  OBVIOUS
<1>2. /\ u \in Text /\ l \in Nat /\ n \in Nat /\ Len(u) = l + n
      /\ \A k \in 1 .. n : u[l + k] = r[k]
  BY <1>1 DEF IsJoin
<1> DEFINE T == {k \in 1 .. n + 1 : whole[l + k] = part[k]}
<1>3. ASSUME NEW k \in 1 .. n + 1, \A j \in k + 1 .. n + 1 : j \in T PROVE k \in T
  <2> SUFFICES whole[l + k] = part[k]
    OBVIOUS
  <2>1. PICK p : p = l + k
    OBVIOUS
  <2>2. p \in 1 .. l + n + 1 /\ p \in Nat /\ k \in Nat \ {0}
    BY <1>2, <2>1
  <2>3. CASE k = n + 1
    <3>1. whole[Len(u) + 1] = <<>> /\ part[Len(r) + 1] = <<>>
      BY DEF Substitutes
    <3>2. p = Len(u) + 1 /\ k = Len(r) + 1
      BY <1>1, <1>2, <2>1, <2>3
    <3> QED
      BY <2>1, <3>1, <3>2
  <2>4. CASE \E j \in 1 .. n : Stands(r, k, j)
    <3>1. PICK j \in 1 .. n : Stands(r, k, j)
      BY <2>4
    <3>2. PICK q : q = l + j
      OBVIOUS
    <3>3. Stands(u, p, q) /\ Between(u, p, q) = Between(r, k, j)
      BY <1>1, <2>1, <2>2, <3>1, <3>2, StandsInRest
    <3>4. /\ p \in 1 .. Len(u) /\ q \in 1 .. Len(u) /\ k \in 1 .. Len(r) /\ j \in 1 .. Len(r)
      BY <1>2, <3>1, <3>3, StandsWhere
    <3>5. whole[p] = bound[Between(u, p, q)] \o whole[q + 1]
      BY <3>3, <3>4 DEF Substitutes
    <3>6. part[k] = bound[Between(r, k, j)] \o part[j + 1]
      BY <3>1, <3>4 DEF Substitutes
    <3>7. j + 1 \in k + 1 .. n + 1 /\ q + 1 = l + (j + 1)
      <4>1. k + 1 < j /\ k \in Nat
        BY <3>1, StandsWhere
      <4> QED
        BY <1>2, <3>2, <4>1
    <3>8. whole[q + 1] = part[j + 1]
      BY <1>3, <3>7
    <3> QED
      BY <2>1, <3>3, <3>5, <3>6, <3>8
  <2>5. CASE k # n + 1 /\ \A j \in 1 .. n : ~Stands(r, k, j)
    <3>1. k \in 1 .. n /\ p \in 1 .. Len(u) /\ k + 1 \in k + 1 .. n + 1 /\ p + 1 = l + (k + 1)
      BY <1>2, <2>1, <2>5
    <3>2. ASSUME NEW q \in 1 .. Len(u), Stands(u, p, q) PROVE FALSE
      <4>1. PICK j : j = q - l
        OBVIOUS
      <4>2. p + 1 < q
        BY <1>2, <3>2, StandsWhere
      <4>3. j \in Nat /\ q = l + j /\ j \in 1 .. n
        BY <1>2, <2>1, <2>2, <4>1, <4>2
      <4>4. Stands(r, k, j)
        BY <1>1, <2>1, <2>2, <3>2, <4>3, StandsInRest
      <4> QED
        BY <2>5, <4>3, <4>4
    <3>3. whole[p] = <<u[p]>> \o whole[p + 1]
      BY <3>1, <3>2 DEF Substitutes
    <3>4. part[k] = <<r[k]>> \o part[k + 1]
      BY <1>1, <2>5, <3>1 DEF Substitutes
    <3>5. u[p] = r[k] /\ whole[p + 1] = part[k + 1]
      BY <1>2, <1>3, <2>1, <3>1
    <3> QED
      BY <2>1, <3>3, <3>4, <3>5
  <2>6. k = n + 1 \/ k \in 1 .. n
    BY <1>2
  <2> QED
    BY <2>3, <2>4, <2>5, <2>6
<1>4. \A k \in 1 .. n + 1 : k \in T
  <2> HIDE DEF T
  <2> QED
    BY <1>2, <1>3, Downwards
<1>5. 1 \in 1 .. n + 1
  BY <1>2
<1> QED
  BY <1>1, <1>4, <1>5

\* s is one placeholder, of name.
OnePlaceholder(s, name) == Stands(s, 1, Len(s)) /\ Between(s, 1, Len(s)) = name

\* Substitution in a text that begins with a placeholder.
LEMMA PlaceholderSubstituted ==
    ASSUME NEW s \in Text, NEW name, OnePlaceholder(s, name), NEW r \in Text, NEW u,
           IsJoin(u, s, r)
    PROVE  /\ find_placeholders(u) \subseteq {name} \cup find_placeholders(r)
           /\ \A bound : bound[name] \in Text /\ Binds(bound, r) =>
                  substitute(u, bound) = bound[name] \o substitute(r, bound)
<1>1. PICK l : l = Len(s)
  OBVIOUS
<1>2. u \in Text /\ l \in Nat /\ Len(u) = l + Len(r) /\ Len(r) \in Nat
  BY <1>1 DEF IsJoin
<1>3. Stands(s, 1, l) /\ Between(s, 1, l) = name
  BY <1>1 DEF OnePlaceholder
<1>4. Stands(u, 1, l) /\ Between(u, 1, l) = name
  BY <1>3, StandsInFirst
<1>5. ASSUME NEW other \in find_placeholders(u) PROVE other \in {name} \cup find_placeholders(r)
  <2>1. PICK p, q : Stands(u, p, q) /\ Between(u, p, q) = other
    BY <1>2, FoundStands
  <2>2. (1 = p /\ l = q) \/ q < 1 \/ l < p
    BY <1>2, <1>4, <2>1, StandApart
  <2>3. p \in Nat /\ q \in Nat /\ q >= 1 /\ p + 1 < q
    BY <1>2, <2>1, StandsWhere
  <2>4. CASE l < p
    <3>1. PICK i, j : i = p - l /\ j = q - l
      OBVIOUS
    <3>2. i \in Nat \ {0} /\ j \in Nat /\ p = l + i /\ q = l + j
      BY <1>2, <2>3, <2>4, <3>1
    <3>3. Stands(r, i, j) /\ Between(u, p, q) = Between(r, i, j)
      <4>1. /\ Stands(u, Len(s) + i, Len(s) + j) <=> Stands(r, i, j)
            /\ Stands(r, i, j) => Between(u, Len(s) + i, Len(s) + j) = Between(r, i, j)
        BY <3>2, StandsInRest
      <4>2. p = Len(s) + i /\ q = Len(s) + j
        BY <1>1, <3>2
      <4>3. Stands(u, Len(s) + i, Len(s) + j)
        BY <2>1, <4>2
      <4> QED
        BY <4>1, <4>2, <4>3
    <3> QED
      BY <2>1, <3>3, StandsMatches
  <2>5. CASE 1 = p /\ l = q
    BY <1>4, <2>1, <2>5
  <2> QED
    BY <2>2, <2>3, <2>4, <2>5
<1>6. ASSUME NEW bound, bound[name] \in Text, Binds(bound, r)
      PROVE  substitute(u, bound) = bound[name] \o substitute(r, bound)
  <2>1. Binds(bound, u)
    BY <1>5, <1>6 DEF Binds
  <2>2. PICK whole : Substitutes(whole, u, bound) /\ whole[1] = substitute(u, bound)
    BY <1>2, <2>1, SubstituteUnfolds
  <2>3. PICK part : Substitutes(part, r, bound) /\ part[1] = substitute(r, bound)
    BY <1>6, SubstituteUnfolds
  <2>4. whole[l + 1] = part[1]
    BY <1>1, <2>2, <2>3, SubstituteRest
  <2>5. 1 \in 1 .. Len(u) /\ l \in 1 .. Len(u)
    BY <1>2, <1>4, StandsWhere
  <2>6. whole[1] = bound[Between(u, 1, l)] \o whole[l + 1]
    BY <1>4, <2>2, <2>5 DEF Substitutes
  <2> QED
    BY <1>4, <2>2, <2>3, <2>4, <2>6
<1> QED
  BY <1>5, <1>6

\* Substitution in a text that begins with a character of no placeholder.
LEMMA CharacterJoined ==
    ASSUME NEW c \in Character, NEW r \in Text, NEW u, IsCons(u, c, r)
    PROVE  \E s \in Text : Len(s) = 1 /\ IsJoin(u, s, r)
<1>1. PICK s : s = <<c>>
  OBVIOUS
<1>2. s \in Text /\ Len(s) = 1 /\ s[1] = c
  BY <1>1, Single
<1>3. u \in Text /\ Len(r) \in Nat /\ Len(u) = Len(r) + 1 /\ u[1] = c
      /\ \A k \in 1 .. Len(r) : u[k + 1] = r[k]
  BY DEF IsCons
<1>4. IsJoin(u, s, r)
  <2>1. Len(u) = 1 + Len(r) /\ 1 \in Nat /\ \A k \in 1 .. Len(r) : 1 + k = k + 1
    BY <1>3
  <2>2. \A k \in 1 .. 1 : u[k] = s[k]
    BY <1>2, <1>3
  <2>3. \A k \in 1 .. Len(r) : u[1 + k] = r[k]
    BY <1>3, <2>1
  <2> QED
    BY <1>2, <1>3, <2>1, <2>2, <2>3 DEF IsJoin
<1> QED
  BY <1>2, <1>4

LEMMA CharacterFound ==
    ASSUME NEW c \in Character, NEW r \in Text, NEW u, IsCons(u, c, r),
           NEW name \in find_placeholders(u), name \notin find_placeholders(r)
    PROVE  \E q : Stands(u, 1, q) /\ Between(u, 1, q) = name
<1>1. PICK s \in Text : Len(s) = 1 /\ IsJoin(u, s, r)
  BY CharacterJoined
<1>2. u \in Text
  BY DEF IsCons
<1>3. PICK p, q : Stands(u, p, q) /\ Between(u, p, q) = name
  BY <1>2, FoundStands
<1> SUFFICES ASSUME p # 1 PROVE FALSE
  BY <1>3
<1>4. p \in Nat /\ q \in Nat /\ p + 1 < q /\ p >= 1
  BY <1>2, <1>3, StandsWhere
<1>5. PICK i, j : i = p - 1 /\ j = q - 1
  OBVIOUS
<1>6. i \in Nat \ {0} /\ j \in Nat /\ p = 1 + i /\ q = 1 + j
  BY <1>4, <1>5
<1>7. Stands(r, i, j) /\ Between(u, p, q) = Between(r, i, j)
  <2>1. /\ Stands(u, Len(s) + i, Len(s) + j) <=> Stands(r, i, j)
        /\ Stands(r, i, j) => Between(u, Len(s) + i, Len(s) + j) = Between(r, i, j)
    <3>1. IsJoin(u, s, r)
      BY <1>1
    <3> QED
      BY <1>6, <3>1, StandsInRest
  <2>2. p = Len(s) + i /\ q = Len(s) + j
    BY <1>1, <1>6
  <2>3. Stands(u, Len(s) + i, Len(s) + j)
    BY <1>3, <2>2
  <2> QED
    BY <2>1, <2>2, <2>3
<1> QED
  BY <1>3, <1>7, StandsMatches

LEMMA CharacterSubstituted ==
    ASSUME NEW c \in Character, NEW r \in Text, NEW u, IsCons(u, c, r),
           \A q : ~Stands(u, 1, q), NEW bound, Binds(bound, r)
    PROVE  substitute(u, bound) = <<c>> \o substitute(r, bound)
<1>1. PICK s \in Text : Len(s) = 1 /\ IsJoin(u, s, r)
  BY CharacterJoined
<1>2. u \in Text /\ Len(r) \in Nat /\ Len(u) = Len(r) + 1 /\ u[1] = c
  BY DEF IsCons
<1>3. Binds(bound, u)
  BY CharacterFound DEF Binds
<1>4. PICK whole : Substitutes(whole, u, bound) /\ whole[1] = substitute(u, bound)
  BY <1>2, <1>3, SubstituteUnfolds
<1>5. PICK part : Substitutes(part, r, bound) /\ part[1] = substitute(r, bound)
  BY SubstituteUnfolds
<1>6. whole[1 + 1] = part[1]
  <2>1. whole[Len(s) + 1] = part[1]
    <3>1. IsJoin(u, s, r)
      BY <1>1
    <3> QED
      BY <1>4, <1>5, <3>1, SubstituteRest
  <2> QED
    BY <1>1, <2>1
<1>7. 1 \in 1 .. Len(u)
  BY <1>2
<1>8. whole[1] = <<u[1]>> \o whole[1 + 1]
  BY <1>4, <1>7 DEF Substitutes
<1> QED
  BY <1>2, <1>4, <1>5, <1>6, <1>8

-----------------------------------------------------------------------------
(* What a replacement by a placeholder does to the other placeholders of a *)
(* text, and to substitution.                                              *)

\* v occurs neither in a placeholder of t nor across its marks.
Untouched(t, v) == \A i, j, k : Stands(t, i, j) /\ k \in i .. j => ~At(t, v, k)

LEMMA PlainUntouched ==
    ASSUME NEW t \in Text, NEW v \in Text, v # <<>>, Plain(v),
           \A name \in find_placeholders(t) : ~Occurs(v, Placeholder(name))
    PROVE  Untouched(t, v)
<1> SUFFICES ASSUME NEW i, NEW j, NEW k, Stands(t, i, j), k \in i .. j, At(t, v, k)
             PROVE  FALSE
  BY DEF Untouched
<1>1. PICK x, p : x = Between(t, i, j) /\ p = Placeholder(x)
  OBVIOUS
<1>2. /\ i \in Nat /\ j \in Nat /\ i + 1 < j /\ i >= 1 /\ j <= Len(t) /\ Len(t) \in Nat
  BY StandsWhere
<1>3. k \in Nat \ {0} /\ i <= k /\ k <= j /\ Len(v) \in Nat \ {0}
  BY <1>2, TextIs
<1>4. k + Len(v) - 1 <= Len(t) /\ \A m \in 1 .. Len(v) : t[k + m - 1] = v[m] /\ v[m] \notin Marks
  BY <1>3, AtIs DEF Plain
<1>5. t[i] \in Marks /\ t[j] \in Marks
  <2>1. t[i] = "${" /\ t[j] = "}"
    BY DEF Stands
  <2> QED
    BY <2>1, MarksAre
<1>6. i < k
  <2>1. t[k + 1 - 1] = v[1] /\ v[1] \notin Marks /\ k + 1 - 1 = k
    BY <1>3, <1>4
  <2>2. t[k] \notin Marks
    BY <2>1
  <2>3. k # i
    BY <1>5, <2>2
  <2> QED
    BY <1>2, <1>3, <2>3
<1>7. k + Len(v) - 1 < j
  <2> SUFFICES ASSUME k + Len(v) - 1 >= j PROVE FALSE
    BY <1>2, <1>3
  <2>1. PICK m : m = j - k + 1
    OBVIOUS
  <2>2. m \in 1 .. Len(v) /\ k + m - 1 = j
    BY <1>2, <1>3, <2>1
  <2>3. t[k + m - 1] \notin Marks
    BY <1>4, <2>2
  <2> QED
    BY <1>5, <2>2, <2>3
<1>8. x \in Text /\ Len(x) = j - 1 - i /\ \A h \in 1 .. j - 1 - i : x[h] = t[i + h]
  <2>1. IsBetween(x, t, i, j)
    BY <1>1, NameIsText
  <2> QED
    BY <2>1 DEF IsBetween
<1>9. p \in Text /\ Len(p) = Len(x) + 2 /\ \A h \in 1 .. Len(x) : p[h + 1] = x[h]
  <2>1. Encloses(p, "${", x, "}")
    BY <1>1, <1>8, PlaceholderIs
  <2> QED
    BY <2>1, Zenon DEF Encloses
<1>10. PICK o : o = k - i + 1
  OBVIOUS
<1>11. o \in 1 .. Len(p) /\ o \in Nat \ {0} /\ o + Len(v) - 1 <= Len(p)
  BY <1>2, <1>3, <1>6, <1>7, <1>8, <1>9, <1>10
<1>12. ASSUME NEW m \in 1 .. Len(v) PROVE p[o + m - 1] = v[m]
  <2>1. PICK h : h = k - i + m - 1
    OBVIOUS
  <2>2. h \in 1 .. j - 1 - i /\ h \in 1 .. Len(x) /\ h + 1 = o + m - 1 /\ i + h = k + m - 1
    BY <1>2, <1>3, <1>6, <1>7, <1>8, <1>10, <2>1
  <2>3. p[h + 1] = x[h] /\ x[h] = t[i + h]
    BY <1>8, <1>9, <2>2
  <2>4. t[k + m - 1] = v[m]
    BY <1>4
  <2> QED
    BY <2>2, <2>3, <2>4
<1>13. At(p, v, o)
  BY <1>9, <1>11, <1>12, AtIs
<1>14. Occurs(v, Placeholder(x))
  BY <1>1, <1>11, <1>13 DEF Occurs
<1>15. x \in find_placeholders(t)
  BY <1>1, StandsMatches
<1> QED
  BY <1>14, <1>15

\* What stands in a text, taken out of it.
LEMMA StandsAlone ==
    ASSUME NEW t \in Text, NEW i, NEW j, Stands(t, i, j)
    PROVE  SubSeq(t, i, j) \in Text /\ OnePlaceholder(SubSeq(t, i, j), Between(t, i, j))
<1>1. PICK s, l : s = SubSeq(t, i, j) /\ l = j + 1 - i
  OBVIOUS
<1>2. /\ i \in Nat /\ j \in Nat /\ i + 1 < j /\ i >= 1 /\ j <= Len(t) /\ Len(t) \in Nat
  BY StandsWhere
<1>3. s \in Text /\ Len(s) = l /\ \A k \in 1 .. l : s[k] = t[i + k - 1]
  <2>1. i \in 1 .. Len(t) + 1 /\ j \in 0 .. Len(t) /\ i <= j + 1
    BY <1>2
  <2>2. /\ SubSeq(t, i, j) \in Text /\ Len(SubSeq(t, i, j)) = j + 1 - i
        /\ \A k \in 1 .. j + 1 - i : SubSeq(t, i, j)[k] = t[i + k - 1]
    BY <2>1, PartIs
  <2> QED
    BY <1>1, <2>2
<1>4. /\ t[i] = "${" /\ t[j] = "}" /\ t[i + 1] \in Letters
      /\ \A k \in i + 1 .. j - 1 : t[k] \in Letters \cup Digits
  BY Zenon DEF Stands
<1>5. l \in Nat /\ l > 2 /\ 1 \in 1 .. l /\ l \in 1 .. l /\ 1 + 1 < l /\ 1 + 1 \in 1 .. l
      /\ i + 1 - 1 = i /\ i + l - 1 = j /\ i + (1 + 1) - 1 = i + 1
  BY <1>1, <1>2
<1>6. s[1] = t[i] /\ s[l] = t[j] /\ s[1 + 1] = t[i + 1]
  BY <1>3, <1>5
<1>7. ASSUME NEW k \in 1 + 1 .. l - 1 PROVE s[k] \in Letters \cup Digits
  <2>1. k \in 1 .. l /\ i + k - 1 \in i + 1 .. j - 1
    BY <1>1, <1>2, <1>5
  <2> QED
    BY <1>3, <1>4, <2>1
<1>8. s[1] = "${" /\ s[l] = "}" /\ s[1 + 1] \in Letters
  BY <1>4, <1>6
<1>9. 1 \in 1 .. Len(s) /\ l \in 1 .. Len(s) /\ 1 + 1 < l
  BY <1>3, <1>5
<1>10. Stands(s, 1, l)
  BY <1>7, <1>8, <1>9, Zenon DEF Stands
<1>11. PICK a, b : a = Between(s, 1, l) /\ b = Between(t, i, j)
  OBVIOUS
<1>12. IsBetween(a, s, 1, l) /\ IsBetween(b, t, i, j)
  BY <1>3, <1>10, <1>11, NameIsText
<1>13. a \in Text /\ Len(a) = l - 1 - 1 /\ \A k \in 1 .. l - 1 - 1 : a[k] = s[1 + k]
  BY <1>12 DEF IsBetween
<1>14. b \in Text /\ Len(b) = j - 1 - i /\ \A k \in 1 .. j - 1 - i : b[k] = t[i + k]
  BY <1>12 DEF IsBetween
<1>15. l - 1 - 1 = j - 1 - i
  BY <1>1, <1>2
<1>16. ASSUME NEW k \in 1 .. j - 1 - i PROVE a[k] = b[k]
  <2>1. 1 + k \in 1 .. l /\ i + (1 + k) - 1 = i + k
    BY <1>1, <1>2
  <2>2. s[1 + k] = t[i + (1 + k) - 1]
    BY <1>3, <2>1
  <2> QED
    BY <1>13, <1>14, <1>15, <2>1, <2>2
<1>17. Len(a) = Len(b) /\ \A k \in 1 .. Len(a) : a[k] = b[k]
  BY <1>13, <1>14, <1>15, <1>16
<1>18. a = b
  BY <1>13, <1>14, <1>17, TextsEqual
<1>19. Stands(s, 1, Len(s)) /\ Between(s, 1, Len(s)) = Between(t, i, j)
  BY <1>3, <1>10, <1>11, <1>18
<1> QED
  BY <1>1, <1>3, <1>19 DEF OnePlaceholder

Opens(new) == new \in Text /\ new # <<>> /\ new[1] = "${"

\* A placeholder that a replacement puts out from a character on that it copies was
\* there.
LEMMA StandCopied ==
    ASSUME NEW t \in Text, NEW old \in Text, NEW new \in Text, old # <<>>, Opens(new),
           NEW rest, Replaces(rest, t, old, new),
           NEW i \in 1 .. Len(t), IsCons(rest[i], t[i], rest[i + 1]),
           NEW q, Stands(rest[i], 1, q)
    PROVE  Stands(t, i, i + q - 1) /\ Between(t, i, i + q - 1) = Between(rest[i], 1, q)
<1>1. PICK u, r, n : u = rest[i] /\ r = rest[i + 1] /\ n = Len(t)
  OBVIOUS
<1>2. /\ u \in Text /\ Len(r) \in Nat /\ Len(u) = Len(r) + 1 /\ u[1] = t[i]
      /\ \A k \in 1 .. Len(r) : u[k + 1] = r[k]
  BY <1>1 DEF IsCons
<1>3. n \in Nat /\ i \in Nat /\ i >= 1 /\ i <= n /\ i + 1 \in 1 .. n + 1
  BY <1>1, TextIs
<1>4. Stands(u, 1, q)
  BY <1>1
<1>5. q \in Nat /\ 1 + 1 < q /\ q <= Len(u)
  BY <1>2, <1>4, StandsWhere
<1>6. /\ u[1] = "${" /\ u[q] = "}" /\ u[1 + 1] \in Letters
      /\ \A k \in 1 + 1 .. q - 1 : u[k] \in Letters \cup Digits
  BY <1>4, Zenon DEF Stands
<1>7. PICK m : m = q - 1
  OBVIOUS
<1>8. m \in 1 .. Len(r) /\ m \in Nat
  BY <1>2, <1>5, <1>7
<1>9. ASSUME NEW k \in 1 .. m PROVE r[k] # new[1]
  <2>1. k \in 1 .. Len(r) /\ (k + 1 \in 1 + 1 .. q - 1 \/ k + 1 = q)
    BY <1>5, <1>7, <1>8
  <2>2. u[k + 1] = r[k]
    BY <1>2, <2>1
  <2>3. u[k + 1] \in Letters \cup Digits \/ u[k + 1] = "}"
    BY <1>6, <2>1
  <2>4. u[k + 1] # "${"
    BY <2>3, MarksAre
  <2>5. new[1] = "${"
    BY DEF Opens
  <2> QED
    BY <2>2, <2>4, <2>5
<1>10. Copied(rest, t, new, i + 1)
  <2>1. new # <<>>
    BY DEF Opens
  <2> QED
    BY <1>1, <1>3, <2>1, PrefixCopied
<1>11. i + 1 + m - 1 <= n /\ \A k \in 1 .. m : t[i + 1 + k - 1] = r[k]
  BY <1>1, <1>8, <1>9, <1>10 DEF Copied
<1>12. ASSUME NEW k \in 1 .. q PROVE t[i + k - 1] = u[k]
  <2>1. CASE k = 1
    <3>1. i + 1 - 1 = i
      BY <1>3
    <3> QED
      BY <1>2, <2>1, <3>1
  <2>2. CASE k # 1
    <3>1. PICK h : h = k - 1
      OBVIOUS
    <3>2. h \in 1 .. m /\ i + 1 + h - 1 = i + k - 1 /\ h + 1 = k /\ h \in 1 .. Len(r)
      BY <1>3, <1>5, <1>7, <1>8, <2>2, <3>1
    <3>3. t[i + 1 + h - 1] = r[h] /\ u[h + 1] = r[h]
      BY <1>2, <1>11, <3>2
    <3> QED
      BY <3>2, <3>3
  <2> QED
    BY <2>1, <2>2
<1>13. PICK j : j = i + q - 1
  OBVIOUS
<1>14. j \in 1 .. n /\ i \in 1 .. n /\ i + 1 < j /\ j \in Nat
  BY <1>3, <1>5, <1>7, <1>11, <1>13
<1>15. t[i] = u[1] /\ t[j] = u[q] /\ t[i + 1] = u[1 + 1]
  <2>1. 1 \in 1 .. q /\ q \in 1 .. q /\ 1 + 1 \in 1 .. q /\ i + (1 + 1) - 1 = i + 1
    BY <1>3, <1>5
  <2> QED
    BY <1>2, <1>12, <1>13, <2>1
<1>16. ASSUME NEW k \in i + 1 .. j - 1 PROVE t[k] \in Letters \cup Digits
  <2>1. PICK h : h = k - i + 1
    OBVIOUS
  <2>2. h \in 1 + 1 .. q - 1 /\ h \in 1 .. q /\ i + h - 1 = k
    BY <1>3, <1>5, <1>13, <1>14, <2>1
  <2>3. t[i + h - 1] = u[h]
    BY <1>12, <2>2
  <2> QED
    BY <1>6, <2>2, <2>3
<1>17. Stands(t, i, j)
  <2>1. t[i] = "${" /\ t[j] = "}" /\ t[i + 1] \in Letters
    BY <1>6, <1>15
  <2>2. j \in 1 .. Len(t) /\ i \in 1 .. Len(t) /\ i + 1 < j
    BY <1>1, <1>14
  <2> QED
    BY <1>16, <2>1, <2>2, Zenon DEF Stands
<1>18. PICK a, b : a = Between(u, 1, q) /\ b = Between(t, i, j)
  OBVIOUS
<1>19. IsBetween(a, u, 1, q) /\ IsBetween(b, t, i, j)
  BY <1>2, <1>4, <1>17, <1>18, NameIsText
<1>20. a \in Text /\ Len(a) = q - 1 - 1 /\ \A k \in 1 .. q - 1 - 1 : a[k] = u[1 + k]
  BY <1>19 DEF IsBetween
<1>21. b \in Text /\ Len(b) = j - 1 - i /\ \A k \in 1 .. j - 1 - i : b[k] = t[i + k]
  BY <1>19 DEF IsBetween
<1>22. q - 1 - 1 = j - 1 - i
  BY <1>3, <1>5, <1>13
<1>23. ASSUME NEW k \in 1 .. q - 1 - 1 PROVE a[k] = b[k]
  <2>1. 1 + k \in 1 .. q /\ i + (1 + k) - 1 = i + k
    BY <1>3, <1>5
  <2>2. t[i + (1 + k) - 1] = u[1 + k]
    BY <1>12, <2>1
  <2> QED
    BY <1>20, <1>21, <1>22, <2>1, <2>2
<1>24. Len(a) = Len(b) /\ \A k \in 1 .. Len(a) : a[k] = b[k]
  BY <1>20, <1>21, <1>22, <1>23
<1>25. a = b
  BY <1>20, <1>21, <1>24, TextsEqual
<1> QED
  BY <1>1, <1>13, <1>17, <1>18, <1>25

LEMMA PlaceholderIsOne ==
    ASSUME NEW name \in Name
    PROVE  /\ Placeholder(name) \in Text /\ Opens(Placeholder(name))
           /\ OnePlaceholder(Placeholder(name), name)
<1>1. PICK p : p = Placeholder(name)
  OBVIOUS
<1>2. name \in Text
  BY NamesAreTexts
<1>3. Encloses(p, "${", name, "}")
  BY <1>1, <1>2, PlaceholderIs
<1>4. p \in Text /\ p[1] = "${" /\ Len(p) = Len(name) + 2 /\ Len(name) \in Nat
  BY <1>3, Zenon DEF Encloses
<1>5. p # <<>>
  <2>1. Len(name) \in Nat /\ Len(p) = Len(name) + 2
    BY <1>4
  <2>2. Len(p) # 0
    BY <2>1
  <2> QED
    BY <1>4, <2>2, TextIs
<1>6. p \o <<>> = p /\ <<>> \in Text
  BY <1>4, JoinedEmpty
<1>7. IsJoin(p, p, <<>>)
  BY <1>4, <1>6, Joined
<1>8. Stands(p, 1, Len(name) + 2) /\ Between(p, 1, Len(name) + 2) = name
  BY <1>1, <1>6, <1>7, PlaceholderFirst
<1>9. OnePlaceholder(p, name)
  BY <1>4, <1>8 DEF OnePlaceholder
<1>10. Opens(p)
  BY <1>4, <1>5 DEF Opens
<1> QED
  BY <1>1, <1>4, <1>9, <1>10

\* A text without placeholders stays as it is.
LEMMA NoPlaceholder ==
    ASSUME NEW t \in Text, find_placeholders(t) = {}, NEW bound
    PROVE  substitute(t, bound) = t
<1>1. Len(t) \in Nat
  BY TextIs
<1>2. Binds(bound, t)
  BY DEF Binds
<1>3. PICK rest : Substitutes(rest, t, bound) /\ rest[1] = substitute(t, bound)
  BY <1>2, SubstituteUnfolds
<1>4. PICK j : j = Len(t) + 1
  OBVIOUS
<1>5. j \in 1 .. Len(t) + 1 /\ 1 \in 1 .. Len(t) + 1 /\ j - 1 = Len(t)
  BY <1>1, <1>4
<1>6. ASSUME NEW k \in 1 .. j - 1 PROVE rest[k] = <<t[k]>> \o rest[k + 1]
  <2>1. k \in 1 .. Len(t)
    BY <1>5
  <2>2. \A q : ~Stands(t, k, q)
    BY StandsMatches
  <2> QED
    BY <1>3, <2>1, <2>2 DEF Substitutes
<1>7. rest \in [1 .. Len(t) + 1 -> Text] /\ rest[Len(t) + 1] = <<>>
  BY <1>3 DEF Substitutes
<1>8. rest[1] = SubSeq(t, 1, j - 1) \o rest[j]
  BY <1>5, <1>6, <1>7, CopyRun
<1>9. SubSeq(t, 1, Len(t)) = t
  BY SubSeqFull DEF Text
<1>10. t \o <<>> = t
  BY JoinedEmpty
<1> QED
  BY <1>3, <1>4, <1>5, <1>7, <1>8, <1>9, <1>10

LEMMA NothingStands ==
    /\ <<>> \in Text /\ find_placeholders(<<>>) = {}
    /\ \A bound : substitute(<<>>, bound) = <<>>
<1>1. PICK e : e = <<>>
  OBVIOUS
<1>2. e \in Text /\ Len(e) = 0
  BY <1>1, TextIs DEF Text
<1>3. find_placeholders(e) = {}
  <2> SUFFICES ASSUME NEW name \in find_placeholders(e) PROVE FALSE
    OBVIOUS
  <2>1. PICK i, j : Stands(e, i, j)
    BY <1>2, FoundStands
  <2>2. i \in 1 .. Len(e)
    BY <1>2, <2>1, StandsWhere
  <2> QED
    BY <1>2, <2>2
<1> QED
  BY <1>1, <1>2, <1>3, NoPlaceholder

\* A replacement by a placeholder adds no other placeholder to a text.
LEMMA FoundInReplaced ==
    ASSUME NEW t \in Text, NEW old \in Text, NEW name \in Name, old # <<>>,
           NEW rest, Replaces(rest, t, old, Placeholder(name))
    PROVE  \A i \in 1 .. Len(t) + 1 : find_placeholders(rest[i]) \subseteq find_placeholders(t) \cup {name}
<1>1. PICK p, n : p = Placeholder(name) /\ n = Len(t)
  OBVIOUS
<1>2. p \in Text /\ Opens(p) /\ OnePlaceholder(p, name) /\ Replaces(rest, t, old, p) /\ n \in Nat
  BY <1>1, NamesAreTexts, PlaceholderIsOne, TextIs
<1> DEFINE T == {i \in 1 .. n + 1 : find_placeholders(rest[i]) \subseteq find_placeholders(t) \cup {name}}
<1>3. \A i \in 1 .. n + 1 : rest[i] \in Text
  BY <1>1, <1>2 DEF Replaces
<1>4. ASSUME NEW i \in 1 .. n + 1, \A j \in i + 1 .. n + 1 : j \in T PROVE i \in T
  <2> SUFFICES find_placeholders(rest[i]) \subseteq find_placeholders(t) \cup {name}
    OBVIOUS
  <2>1. CASE i = n + 1
    <3>1. rest[i] = <<>>
      BY <1>1, <1>2, <2>1 DEF Replaces
    <3> QED
      BY <3>1, NothingStands
  <2>2. CASE i \in 1 .. n
    <3>1. i \in 1 .. Len(t) /\ i \in Nat
      BY <1>1, <2>2
    <3>2. \/ /\ i + Len(old) \in i + 1 .. Len(t) + 1
             /\ IsJoin(rest[i], p, rest[i + Len(old)])
          \/ IsCons(rest[i], t[i], rest[i + 1])
      BY <1>2, <3>1, RestGoesOn
    <3>3. CASE i + Len(old) \in i + 1 .. Len(t) + 1 /\ IsJoin(rest[i], p, rest[i + Len(old)])
      <4>1. PICK j : j = i + Len(old)
        OBVIOUS
      <4>2. j \in i + 1 .. n + 1 /\ j \in 1 .. n + 1
        BY <1>1, <1>2, <3>1, <3>3, <4>1
      <4>3. rest[j] \in Text /\ find_placeholders(rest[j]) \subseteq find_placeholders(t) \cup {name}
        BY <1>3, <1>4, <4>2
      <4>4. find_placeholders(rest[i]) \subseteq {name} \cup find_placeholders(rest[j])
        <5>1. IsJoin(rest[i], p, rest[j])
          BY <3>3, <4>1
        <5> QED
          BY <1>2, <4>3, <5>1, PlaceholderSubstituted
      <4> QED
        BY <4>3, <4>4
    <3>4. CASE IsCons(rest[i], t[i], rest[i + 1])
      <4>1. i + 1 \in i + 1 .. n + 1 /\ i + 1 \in 1 .. n + 1 /\ t[i] \in Character
        BY <1>2, <2>2, <3>1, TextIs
      <4>2. rest[i + 1] \in Text
            /\ find_placeholders(rest[i + 1]) \subseteq find_placeholders(t) \cup {name}
        BY <1>3, <1>4, <4>1
      <4>3. ASSUME NEW other \in find_placeholders(rest[i])
            PROVE  other \in find_placeholders(t) \cup {name}
        <5>1. \/ other \in find_placeholders(rest[i + 1])
              \/ \E q : Stands(rest[i], 1, q) /\ Between(rest[i], 1, q) = other
          <6>1. PICK u, r, c : u = rest[i] /\ r = rest[i + 1] /\ c = t[i]
            OBVIOUS
          <6>2. IsCons(u, c, r) /\ r \in Text /\ c \in Character /\ other \in find_placeholders(u)
            BY <3>4, <4>1, <4>2, <6>1
          <6>3. other \in find_placeholders(r) \/ \E q : Stands(u, 1, q) /\ Between(u, 1, q) = other
            BY <6>2, CharacterFound
          <6> QED
            BY <6>1, <6>3
        <5>2. CASE \E q : Stands(rest[i], 1, q) /\ Between(rest[i], 1, q) = other
          <6>1. PICK q : Stands(rest[i], 1, q) /\ Between(rest[i], 1, q) = other
            BY <5>2
          <6>2. Stands(t, i, i + q - 1) /\ Between(t, i, i + q - 1) = other
            BY <1>2, <3>1, <3>4, <6>1, StandCopied
          <6> QED
            BY <6>2, StandsMatches
        <5> QED
          BY <4>2, <5>1, <5>2
      <4> QED
        BY <4>3
    <3> QED
      BY <3>2, <3>3, <3>4
  <2>3. i = n + 1 \/ i \in 1 .. n
    BY <1>2
  <2> QED
    BY <2>1, <2>2, <2>3
<1>5. \A i \in 1 .. n + 1 : i \in T
  <2> HIDE DEF T
  <2> QED
    BY <1>2, <1>4, Downwards
<1> QED
  BY <1>1, <1>5

\* i is not inside a placeholder of t.
Boundary(t, i) == \A p, q : Stands(t, p, q) => ~(p < i /\ i <= q)

\* Replacing a plain text by a placeholder that is bound to it does not change what
\* substitution makes of a text.
LEMMA ReplacedSubstitutes ==
    ASSUME NEW t \in Text, NEW v \in Text, NEW name \in Name, v # <<>>, Plain(v), Untouched(t, v),
           NEW bound, bound[name] = v, Binds(bound, t),
           NEW rest, Replaces(rest, t, v, Placeholder(name)),
           NEW sub, Substitutes(sub, t, bound)
    PROVE  substitute(rest[1], bound) = sub[1]
<1>1. PICK p, n : p = Placeholder(name) /\ n = Len(t)
  OBVIOUS
<1>2. p \in Text /\ Opens(p) /\ OnePlaceholder(p, name) /\ Replaces(rest, t, v, p) /\ n \in Nat
      /\ Len(v) \in Nat \ {0}
  BY <1>1, PlaceholderIsOne, TextIs
<1>3. \A i \in 1 .. n + 1 : rest[i] \in Text /\ sub[i] \in Text /\ Binds(bound, rest[i])
  <2>1. \A i \in 1 .. n + 1 : rest[i] \in Text
    BY <1>1, <1>2 DEF Replaces
  <2>2. \A i \in 1 .. n + 1 : sub[i] \in Text
    BY <1>1 DEF Substitutes
  <2>3. ASSUME NEW i \in 1 .. n + 1 PROVE Binds(bound, rest[i])
    <3>1. find_placeholders(rest[i]) \subseteq find_placeholders(t) \cup {name}
      BY <1>1, FoundInReplaced
    <3> QED
      BY <3>1 DEF Binds
  <2> QED
    BY <2>1, <2>2, <2>3
<1> DEFINE T == {i \in 1 .. n + 1 : Boundary(t, i) => substitute(rest[i], bound) = sub[i]}
<1>4. ASSUME NEW i \in 1 .. n + 1, \A j \in i + 1 .. n + 1 : j \in T PROVE i \in T
  <2> SUFFICES ASSUME Boundary(t, i) PROVE substitute(rest[i], bound) = sub[i]
    OBVIOUS
  <2>1. CASE i = n + 1
    <3>1. rest[i] = <<>> /\ sub[i] = <<>>
      BY <1>1, <1>2, <2>1 DEF Replaces, Substitutes
    <3> QED
      BY <3>1, NothingStands
  <2>2. CASE i \in 1 .. n /\ At(t, v, i)
    <3>1. PICK j : j = i + Len(v)
      OBVIOUS
    <3>2. j \in i + 1 .. n + 1 /\ j \in 1 .. n + 1 /\ IsJoin(rest[i], p, rest[j])
      <4>1. i \in 1 .. Len(t) /\ i \in Nat
        BY <1>1, <2>2
      <4>2. i + Len(v) \in i + 1 .. Len(t) + 1 /\ IsJoin(rest[i], p, rest[i + Len(v)])
        BY <1>2, <2>2, <4>1, RestGoesOn
      <4> QED
        BY <1>1, <1>2, <3>1, <4>1, <4>2
    <3>3. ASSUME NEW a, NEW b, Stands(t, a, b) PROVE b < i \/ j <= a
      <4>1. a \in Nat /\ b \in Nat /\ a + 1 < b
        BY <3>3, StandsWhere
      <4>2. ~(a < i /\ i <= b)
        BY <3>3 DEF Boundary
      <4>3. i \notin a .. b
        BY <2>2, <3>3 DEF Untouched
      <4>4. ASSUME i < a, a < j PROVE FALSE
        <5>1. i \in Nat \ {0}
          BY <2>2
        <5>6. t[a] = "${"
          BY <3>3, Zenon DEF Stands
        <5>2. PICK m : m = a - i + 1
          OBVIOUS
        <5>3. m \in 1 .. Len(v) /\ i + m - 1 = a
          BY <1>2, <2>2, <3>1, <4>1, <4>4, <5>2
        <5>4. t[i + m - 1] = v[m]
          BY <2>2, <5>1, <5>3, AtIs
        <5>5. v[m] \notin Marks
          BY <5>3 DEF Plain
        <5> QED
          BY <5>3, <5>4, <5>5, <5>6, MarksAre
      <4> QED
        BY <1>2, <2>2, <3>2, <4>1, <4>2, <4>3, <4>4
    <3>4. Boundary(t, j)
      <4> SUFFICES ASSUME NEW a, NEW b, Stands(t, a, b), a < j, j <= b PROVE FALSE
        BY DEF Boundary
      <4>1. a \in Nat /\ b \in Nat
        BY StandsWhere
      <4>2. b < i \/ j <= a
        BY <3>3
      <4> QED
        BY <2>2, <3>2, <4>1, <4>2
    <3>5. substitute(rest[j], bound) = sub[j]
      BY <1>4, <3>2, <3>4
    <3>6. sub[i] = v \o sub[j]
      <4>1. ASSUME NEW k \in i .. j - 1 PROVE sub[k] = <<t[k]>> \o sub[k + 1]
        <5>1. k \in 1 .. Len(t)
          BY <1>1, <1>2, <2>2, <3>2
        <5>2. ASSUME NEW b \in 1 .. Len(t), Stands(t, k, b) PROVE FALSE
          <6>1. b < i \/ j <= k
            BY <3>3, <5>2
          <6>2. k + 1 < b /\ b \in Nat /\ k \in Nat
            BY <5>2, StandsWhere
          <6> QED
            BY <2>2, <3>2, <6>1, <6>2
        <5> QED
          BY <5>1, <5>2 DEF Substitutes
      <4>2. i \in 1 .. Len(t) + 1 /\ j \in i .. Len(t) + 1
        BY <1>1, <1>2, <2>2, <3>2
      <4>3. sub \in [1 .. Len(t) + 1 -> Text]
        BY DEF Substitutes
      <4>4. sub[i] = SubSeq(t, i, j - 1) \o sub[j]
        BY <4>1, <4>2, <4>3, CopyRun
      <4>5. SubSeq(t, i, j - 1) = v
        <5>1. SubSeq(t, i, i + Len(v) - 1) = v
          BY <2>2 DEF At
        <5> QED
          BY <3>1, <5>1
      <4> QED
        BY <4>4, <4>5
    <3>7. substitute(rest[i], bound) = bound[name] \o substitute(rest[j], bound)
      <4>1. PICK u, r : u = rest[i] /\ r = rest[j]
        OBVIOUS
      <4>2. IsJoin(u, p, r) /\ r \in Text /\ Binds(bound, r) /\ bound[name] \in Text
        BY <1>3, <3>2, <4>1
      <4>3. \A b : b[name] \in Text /\ Binds(b, r) =>
                substitute(u, b) = b[name] \o substitute(r, b)
        BY <1>2, <4>2, PlaceholderSubstituted
      <4> QED
        BY <4>1, <4>2, <4>3
    <3> QED
      BY <3>5, <3>6, <3>7
  <2>3. CASE i \in 1 .. n /\ ~At(t, v, i) /\ \E j : Stands(t, i, j)
    <3>1. PICK j : Stands(t, i, j)
      BY <2>3
    <3>2. i \in Nat /\ j \in Nat /\ i >= 1 /\ i + 1 < j /\ j <= n /\ j \in 1 .. Len(t) /\ i \in 1 .. Len(t)
      BY <1>1, <3>1, StandsWhere
    <3>3. PICK z : z = j + 1
      OBVIOUS
    <3>4. z \in i + 1 .. n + 1 /\ z \in 1 .. n + 1 /\ z \in i .. Len(t) + 1 /\ i \in 1 .. Len(t) + 1
          /\ z - 1 = j
      BY <1>1, <1>2, <3>2, <3>3
    <3>5. Boundary(t, z)
      <4> SUFFICES ASSUME NEW a, NEW b, Stands(t, a, b), a < z, z <= b PROVE FALSE
        BY DEF Boundary
      <4>1. a \in Nat /\ b \in Nat /\ a + 1 < b
        BY StandsWhere
      <4>2. (i = a /\ j = b) \/ j < a \/ b < i
        BY <3>1, StandApart
      <4> QED
        BY <3>2, <3>3, <4>1, <4>2
    <3>6. substitute(rest[z], bound) = sub[z]
      BY <1>4, <3>4, <3>5
    <3>7. sub[i] = bound[Between(t, i, j)] \o sub[z]
      BY <3>1, <3>2, <3>3 DEF Substitutes
    <3>8. PICK s : s = SubSeq(t, i, j)
      OBVIOUS
    <3>9. s \in Text /\ OnePlaceholder(s, Between(t, i, j))
      BY <3>1, <3>8, StandsAlone
    <3>10. rest[i] = s \o rest[z]
      <4>1. ASSUME NEW k \in i .. z - 1 PROVE rest[k] = <<t[k]>> \o rest[k + 1]
        <5>1. k \in 1 .. Len(t) /\ k \in i .. j
          BY <3>2, <3>4
        <5>2. ~At(t, v, k)
          BY <3>1, <5>1 DEF Untouched
        <5> QED
          BY <1>2, <5>1, <5>2 DEF Replaces
      <4>2. rest \in [1 .. Len(t) + 1 -> Text]
        BY DEF Replaces
      <4>3. rest[i] = SubSeq(t, i, z - 1) \o rest[z]
        BY <3>4, <4>1, <4>2, CopyRun
      <4> QED
        BY <3>4, <3>8, <4>3
    <3>11. IsJoin(rest[i], s, rest[z])
      BY <1>3, <3>4, <3>9, <3>10, Joined
    <3>12. Between(t, i, j) \in find_placeholders(t)
      BY <3>1, StandsMatches
    <3>13. bound[Between(t, i, j)] \in Text
      BY <3>12 DEF Binds
    <3>14. substitute(rest[i], bound) = bound[Between(t, i, j)] \o substitute(rest[z], bound)
      <4>1. rest[z] \in Text /\ Binds(bound, rest[z])
        BY <1>3, <3>4
      <4>2. PICK u, r, x : u = rest[i] /\ r = rest[z] /\ x = Between(t, i, j)
        OBVIOUS
      <4>3. /\ IsJoin(u, s, r) /\ r \in Text /\ Binds(bound, r) /\ bound[x] \in Text
            /\ s \in Text /\ OnePlaceholder(s, x)
        BY <3>9, <3>11, <3>13, <4>1, <4>2
      <4>4. \A b : b[x] \in Text /\ Binds(b, r) => substitute(u, b) = b[x] \o substitute(r, b)
        BY <4>3, PlaceholderSubstituted
      <4> QED
        BY <4>2, <4>3, <4>4
    <3> QED
      BY <3>6, <3>7, <3>14
  <2>4. CASE i \in 1 .. n /\ ~At(t, v, i) /\ \A j : ~Stands(t, i, j)
    <3>1. /\ i \in 1 .. Len(t) /\ i + 1 \in i + 1 .. n + 1 /\ i + 1 \in 1 .. n + 1 /\ i \in Nat
          /\ t[i] \in Character
      BY <1>1, <1>2, <2>4, TextIs
    <3>2. IsCons(rest[i], t[i], rest[i + 1])
      BY <1>2, <2>4, <3>1, RestGoesOn
    <3>3. ASSUME NEW q, Stands(rest[i], 1, q) PROVE FALSE
      <4>1. Stands(t, i, i + q - 1)
        BY <1>2, <3>1, <3>2, <3>3, StandCopied
      <4> QED
        BY <2>4, <4>1
    <3>4. substitute(rest[i], bound) = <<t[i]>> \o substitute(rest[i + 1], bound)
      <4>1. rest[i + 1] \in Text /\ Binds(bound, rest[i + 1])
        BY <1>3, <3>1
      <4> QED
        BY <3>1, <3>2, <3>3, <4>1, CharacterSubstituted
    <3>5. sub[i] = <<t[i]>> \o sub[i + 1]
      BY <2>4, <3>1 DEF Substitutes
    <3>6. Boundary(t, i + 1)
      <4> SUFFICES ASSUME NEW a, NEW b, Stands(t, a, b), a < i + 1, i + 1 <= b PROVE FALSE
        BY DEF Boundary
      <4>1. a \in Nat /\ b \in Nat
        BY StandsWhere
      <4>2. ~(a < i /\ i <= b)
        BY DEF Boundary
      <4>3. a = i
        BY <3>1, <4>1, <4>2
      <4> QED
        BY <2>4, <4>3
    <3> QED
      BY <1>4, <3>1, <3>4, <3>5, <3>6
  <2>5. i = n + 1 \/ i \in 1 .. n
    BY <1>2
  <2> QED
    BY <2>1, <2>2, <2>3, <2>4, <2>5
<1>5. \A i \in 1 .. n + 1 : i \in T
  <2> HIDE DEF T
  <2> QED
    BY <1>2, <1>4, Downwards
<1>6. 1 \in 1 .. n + 1
  BY <1>2
<1>7. Boundary(t, 1)
  <2> SUFFICES ASSUME NEW a, NEW b, Stands(t, a, b), a < 1, 1 <= b PROVE FALSE
    BY DEF Boundary
  <2>1. a \in Nat /\ a >= 1
    BY StandsWhere
  <2> QED
    BY <2>1
<1> QED
  BY <1>5, <1>6, <1>7

\* u mentions known names only, and substitution makes of it what it makes of t.
Restored(u, t, known, bound) ==
    /\ u \in Text /\ find_placeholders(u) \subseteq known
    /\ substitute(u, bound) = substitute(t, bound)

LEMMA ReplacedIsRestored ==
    ASSUME NEW t \in Text, NEW v \in Text, NEW name \in Name, v # <<>>, Plain(v),
           NEW known, find_placeholders(t) \subseteq known, name \in known,
           \A x \in known : ~Occurs(v, Placeholder(x)),
           NEW bound, bound[name] = v, \A x \in known : bound[x] \in Text
    PROVE  Restored(Replace(t, v, Placeholder(name)), t, known, bound)
<1>1. PICK p : p = Placeholder(name)
  OBVIOUS
<1>2. p \in Text
  BY <1>1, NamesAreTexts, PlaceholdersAreMarked
<1>3. Binds(bound, t) /\ Untouched(t, v)
  BY PlainUntouched DEF Binds
<1>4. PICK sub : Substitutes(sub, t, bound) /\ sub[1] = substitute(t, bound)
  BY <1>3, SubstituteUnfolds
<1>5. PICK rest : Replaces(rest, t, v, p) /\ rest[1] = Replace(t, v, p)
  BY <1>2, ReplaceUnfolds
<1>6. Len(t) \in Nat /\ 1 \in 1 .. Len(t) + 1
  BY TextIs
<1>7. rest[1] \in Text
  BY <1>5, <1>6 DEF Replaces
<1>8. find_placeholders(rest[1]) \subseteq find_placeholders(t) \cup {name}
  BY <1>1, <1>5, <1>6, FoundInReplaced
<1>9. substitute(rest[1], bound) = sub[1]
  BY <1>1, <1>3, <1>4, <1>5, ReplacedSubstitutes
<1> QED
  BY <1>1, <1>4, <1>5, <1>7, <1>8, <1>9 DEF Restored

\* Each plain text that is looked for is replaced by a placeholder that is bound to
\* it, and occurs in no placeholder.
Restorable(replacements, least, known, bound) ==
    \A k \in 1 .. Len(replacements) : Len(replacements[k].old) >= least =>
        \E name \in known \cap Name :
            /\ replacements[k].new = Placeholder(name)
            /\ bound[name] = replacements[k].old
            /\ Plain(replacements[k].old)
            /\ \A x \in known : ~Occurs(replacements[k].old, Placeholder(x))

LEMMA EachIsRestored ==
    ASSUME NEW t \in Text, NEW replacements \in Replacements, NEW least \in Nat \ {0},
           NEW known, find_placeholders(t) \subseteq known,
           NEW bound, \A x \in known : bound[x] \in Text,
           Restorable(replacements, least, known, bound)
    PROVE  Restored(ReplaceEach(t, replacements, least), t, known, bound)
<1>1. PICK after : /\ Replacing(after, t, replacements, least)
                   /\ after[Len(replacements)] = ReplaceEach(t, replacements, least)
  BY EachUnfolds
<1>2. PICK n : n = Len(replacements)
  OBVIOUS
<1>3. n \in Nat /\ \A k \in 1 .. n : replacements[k].old \in Text
  BY <1>2, ReplacementIs
<1> DEFINE T == {k \in Nat : k <= n => Restored(after[k], t, known, bound)}
<1>4. 0 \in T
  <2>1. after[0] = t
    BY <1>1 DEF Replacing
  <2> QED
    BY <2>1 DEF Restored
<1>5. ASSUME NEW k \in Nat, k \in T PROVE k + 1 \in T
  <2> SUFFICES ASSUME k + 1 <= n PROVE Restored(after[k + 1], t, known, bound)
    OBVIOUS
  <2>1. PICK m : m = k + 1
    OBVIOUS
  <2>2. m \in 1 .. n /\ m - 1 = k /\ k <= n
    BY <1>3, <2>1
  <2>3. PICK u, old, new :
            u = after[m - 1] /\ old = replacements[m].old /\ new = replacements[m].new
    OBVIOUS
  <2>4. Restored(u, t, known, bound)
    BY <1>5, <2>2, <2>3
  <2>5. after[m] = IF Len(old) < least THEN u ELSE Replace(u, old, new)
    BY <1>1, <1>2, <2>2, <2>3 DEF Replacing
  <2>6. old \in Text /\ Len(old) \in Nat
    BY <1>3, <2>2, <2>3, TextIs
  <2>7. CASE Len(old) < least
    BY <2>1, <2>4, <2>5, <2>7
  <2>8. CASE Len(old) >= least
    <3>1. PICK name \in known \cap Name :
              /\ new = Placeholder(name) /\ bound[name] = old /\ Plain(old)
              /\ \A x \in known : ~Occurs(old, Placeholder(x))
      BY <1>2, <2>2, <2>3, <2>8 DEF Restorable
    <3>2. old # <<>>
      BY <2>6, <2>8, TextIs
    <3>3. u \in Text /\ find_placeholders(u) \subseteq known
          /\ substitute(u, bound) = substitute(t, bound)
      BY <2>4 DEF Restored
    <3>4. Restored(Replace(u, old, Placeholder(name)), u, known, bound)
      BY <2>6, <3>1, <3>2, <3>3, ReplacedIsRestored
    <3>5. after[m] = Replace(u, old, Placeholder(name))
      BY <2>5, <2>6, <2>8, <3>1
    <3>6. Restored(Replace(u, old, Placeholder(name)), t, known, bound)
      BY <3>3, <3>4 DEF Restored
    <3> QED
      BY <2>1, <3>5, <3>6
  <2> QED
    BY <2>6, <2>7, <2>8
<1>6. \A k \in Nat : k \in T
  <2> HIDE DEF T
  <2> QED
    BY <1>4, <1>5, NatSetInduction
<1>7. Restored(after[n], t, known, bound)
  BY <1>3, <1>6
<1> QED
  BY <1>1, <1>2, <1>7

\* Only the values of the names in a text matter.
LEMMA SubstituteAgrees ==
    ASSUME NEW t \in Text, NEW a, NEW b, \A name \in find_placeholders(t) : a[name] = b[name]
    PROVE  substitute(t, a) = substitute(t, b)
<1> DEFINE matches == Matches(t)
           MatchAt(i) == CHOOSE m \in matches : m[1] = i
           starts == {m[1] : m \in matches}
           Output(f) == [i \in 1 .. Len(t) |->
                            IF i \in starts THEN f[NameOf(t, MatchAt(i))] ELSE <<t[i]>>]
           next == [i \in 1 .. Len(t) |-> IF i \in starts THEN MatchAt(i)[2] + 1 ELSE i + 1]
<1>1. substitute(t, a) = Pass(Output(a), next) /\ substitute(t, b) = Pass(Output(b), next)
  BY DEF substitute
<1>2. \A i \in starts : a[NameOf(t, MatchAt(i))] = b[NameOf(t, MatchAt(i))]
  <2> TAKE i \in starts
  <2>1. MatchAt(i) \in matches
    OBVIOUS
  <2>2. NameOf(t, MatchAt(i)) \in find_placeholders(t)
    BY <2>1 DEF find_placeholders
  <2> QED
    BY <2>2
<1>3. Output(a) = Output(b)
  <2> HIDE DEF MatchAt, starts
  <2> QED
    BY <1>2
<1> HIDE DEF Output, next
<1> QED
  BY <1>1, <1>3

-----------------------------------------------------------------------------
(* A replay with the values of the discovery.                              *)

\* No value that is looked for, and no base URL, contains "${", "}" or
\* [REDACTED], and nothing that was typed, opened or seen looks like a placeholder.
PlainTexts ==
    /\ \A i \in Sought : Plain(i.value)
    /\ Plain(base)
    /\ \A item \in ToSet(recorded) : find_placeholders(item.seen) = {}

\* The names that canonicalize puts in, and what they stand for.
Known == DOMAIN values \cup {BASE_URL}

Meant == [name \in Known |-> IF name = BASE_URL THEN base ELSE values[name]]

LEMMA MeantIs ==
    ASSUME TypeOK, Supplied
    PROVE  /\ \A k \in 1 .. Len(inputs) :
                  inputs[k].name \in Known \cap Name /\ Meant[inputs[k].name] = inputs[k].value
           /\ BASE_URL \in Known \cap Name /\ Meant[BASE_URL] = base
           /\ \A name \in Known : Meant[name] \in Text
<1>1. BASE_URL \in Name
  BY NamesAssumption DEF Name, BASE_URL
<1>2. \A k \in 1 .. Len(inputs) : /\ inputs[k].name \in Name /\ inputs[k].name # BASE_URL
                                 /\ inputs[k].name \in DOMAIN values
                                 /\ values[inputs[k].name] = inputs[k].value
  BY InputsAre, ValuesAre
<1>3. base \in Text /\ \A name \in DOMAIN values : values[name] \in Text
  BY InputsAre, ValuesAre
<1> QED
  BY <1>1, <1>2, <1>3 DEF Known, Meant

\* No value that is looked for occurs in a placeholder that is put in.
LEMMA ApartFromKnown ==
    ASSUME TypeOK, Supplied, NamesApart
    PROVE  \A x \in Known :
               /\ ~Occurs(base, Placeholder(x))
               /\ \A j \in 1 .. Len(inputs) : Len(inputs[j].value) >= MIN_CANONICALIZED_LENGTH =>
                      ~Occurs(inputs[j].value, Placeholder(x))
<1>1. \A j \in 1 .. Len(inputs) : Len(inputs[j].value) >= MIN_CANONICALIZED_LENGTH =>
          inputs[j].value \in {i.value : i \in Sought}
  BY InputsAre DEF Sought
<1>2. Known = {i.name : i \in ToSet(inputs)} \cup {BASE_URL}
  BY ValuesAre DEF Known
<1> QED
  BY <1>1, <1>2 DEF NamesApart

LEMMA CanonicalIsRestored ==
    ASSUME TypeOK, Supplied, NamesApart, PlainTexts, NEW t \in Text, find_placeholders(t) = {}
    PROVE  Restored(canonicalize(t, inputs, Base(base)), t, Known, Meant)
<1> DEFINE first == Parameterized(LongestFirst(inputs))
           last == Parameterized(<<Base(base)>>)
           u == ReplaceEach(t, first, MIN_CANONICALIZED_LENGTH)
<1>1. inputs \in Seq(Input) /\ base \in Text /\ Len(inputs) \in Nat
      /\ \A k \in 1 .. Len(inputs) : inputs[k] \in ToSet(inputs)
  BY InputsAre
<1>2. PICK order : /\ InOrder(order, inputs) /\ first \in Replacements /\ Len(first) = Len(inputs)
                   /\ \A k \in 1 .. Len(inputs) :
                          /\ first[k].old = inputs[order[k]].value
                          /\ first[k].new = Placeholder(inputs[order[k]].name)
  BY <1>1, InputsAreReplaced
<1>3. last \in Replacements /\ Len(last) = 1
      /\ last[1] = [old |-> base, new |-> Placeholder(BASE_URL)]
  BY <1>1, BaseIsReplaced
<1> HIDE DEF first, last
<1>4. Restorable(first, MIN_CANONICALIZED_LENGTH, Known, Meant)
  <2> SUFFICES ASSUME NEW k \in 1 .. Len(first), Len(first[k].old) >= MIN_CANONICALIZED_LENGTH
               PROVE  \E name \in Known \cap Name :
                          /\ first[k].new = Placeholder(name) /\ Meant[name] = first[k].old
                          /\ Plain(first[k].old)
                          /\ \A x \in Known : ~Occurs(first[k].old, Placeholder(x))
    BY DEF Restorable
  <2>1. PICK j : j = order[k]
    OBVIOUS
  <2>2. j \in 1 .. Len(inputs)
    BY <1>2, <2>1 DEF InOrder
  <2>3. first[k].old = inputs[j].value /\ first[k].new = Placeholder(inputs[j].name)
    BY <1>2, <2>1
  <2>4. Plain(inputs[j].value)
    BY <1>1, <2>2, <2>3 DEF PlainTexts, Sought
  <2>5. \A x \in Known : ~Occurs(inputs[j].value, Placeholder(x))
    BY <2>2, <2>3, ApartFromKnown
  <2>6. inputs[j].name \in Known \cap Name /\ Meant[inputs[j].name] = inputs[j].value
    BY <2>2, MeantIs
  <2> QED
    BY <2>3, <2>4, <2>5, <2>6
<1>5. Restorable(last, 1, Known, Meant)
  <2>1. last[1].old = base /\ last[1].new = Placeholder(BASE_URL)
    BY <1>3
  <2>2. BASE_URL \in Known \cap Name /\ Meant[BASE_URL] = base
    BY MeantIs
  <2>3. Plain(base) /\ \A x \in Known : ~Occurs(base, Placeholder(x))
    BY ApartFromKnown DEF PlainTexts
  <2>4. \A k \in 1 .. Len(last) : k = 1
    BY <1>3
  <2> QED
    BY <2>1, <2>2, <2>3, <2>4 DEF Restorable
<1>6. \A x \in Known : Meant[x] \in Text
  BY MeantIs
<1>7. Restored(u, t, Known, Meant)
  BY <1>2, <1>4, <1>6, EachIsRestored, LengthsAssumption
<1> HIDE DEF u
<1>8. u \in Text /\ find_placeholders(u) \subseteq Known /\ substitute(u, Meant) = substitute(t, Meant)
  BY <1>7 DEF Restored
<1>9. Restored(ReplaceEach(u, last, 1), u, Known, Meant)
  <2>1. 1 \in Nat \ {0}
    OBVIOUS
  <2> QED
    BY <1>3, <1>5, <1>6, <1>8, <2>1, EachIsRestored
<1>10. canonicalize(t, inputs, Base(base)) = ReplaceEach(u, last, 1)
  BY DEF canonicalize, u, first, last
<1> QED
  BY <1>8, <1>9, <1>10 DEF Restored

LEMMA RecordingReturns ==
    ASSUME ContractInv, phase = "replayed", NamesApart, PlainTexts, tenant = base,
           \A name \in DOMAIN given : given[name] = values[name],
           NEW k \in DOMAIN recorded
    PROVE  sent[k].text = recorded[k].seen
<1>1. TypeOK /\ Supplied /\ Recordings /\ Declared /\ Sends /\ Valid(given)
  BY DEF ContractInv, Replayed
<1>2. recorded \in Seq([kind : Kind, source : Text, seen : Text, text : Text])
  BY <1>1 DEF TypeOK
<1>3. /\ k \in 1 .. Len(recorded) /\ recorded[k] \in ToSet(recorded)
      /\ recorded[k] \in [kind : Kind, source : Text, seen : Text, text : Text]
  <2>1. DOMAIN recorded = 1 .. Len(recorded)
    BY <1>2, LenProperties
  <2>2. \A j \in 1 .. Len(recorded) :
            /\ recorded[j] \in ToSet(recorded)
            /\ recorded[j] \in [kind : Kind, source : Text, seen : Text, text : Text]
    BY <1>2, Members, Zenon
  <2> QED
    BY <2>1, <2>2, Zenon
<1>4. PICK t, u : t = recorded[k].seen /\ u = recorded[k].text
  OBVIOUS
<1>5. t \in Text /\ find_placeholders(t) = {}
  BY <1>3, <1>4 DEF PlainTexts
<1>6. u = canonicalize(t, inputs, Base(base))
  BY <1>1, <1>3, <1>4 DEF Recordings, Made
<1>7. Restored(u, t, Known, Meant)
  BY <1>1, <1>5, <1>6, CanonicalIsRestored
<1>8. u \in Text /\ find_placeholders(u) \subseteq Known /\ substitute(u, Meant) = t
  BY <1>5, <1>7, NoPlaceholder DEF Restored
<1>9. find_placeholders(u) \subseteq DOMAIN given \cup {BASE_URL}
  BY <1>1, <1>3, <1>4, ItemsAreMentioned DEF Declared, Valid
<1>10. PICK params : params = Params(given, tenant)
  OBVIOUS
<1>11. \A name \in find_placeholders(u) : params[name] = Meant[name]
  BY <1>8, <1>9, <1>10 DEF Params, Meant
<1>12. sent[k].text = substitute(u, params)
  BY <1>1, <1>4, <1>10 DEF Sends
<1> QED
  BY <1>4, <1>8, <1>11, <1>12, SubstituteAgrees

\* Parameterization never changes what a run does: replayed with the values of its
\* discovery, an artifact types, opens and expects exactly what was typed, opened
\* and seen, for any inputs whose values overlap, repeat or contain each other and
\* any number of items (Recorder.canonicalize and params.substitute are inverses).
THEOREM RecordingsRoundTrip == Spec => [](PlainTexts => RoundTrip)
<1>1. ASSUME ContractInv, PlainTexts PROVE RoundTrip
  BY <1>1, RecordingReturns DEF RoundTrip
<1> QED
  BY <1>1, Invariance, PTL
=============================================================================
