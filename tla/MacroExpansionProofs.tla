------------------------ MODULE MacroExpansionProofs ------------------------
(***************************************************************************)
(* For any table of macros: _expand_macro returns the tokens that are left *)
(* when every object macro is replaced again and again, and raises when    *)
(* that does not end.                                                      *)
(*                                                                         *)
(* The recursion goes down one chain of macros after the other; a round of *)
(* replacement goes through all tokens at once.  Both are related by      *)
(* the round after which a macro has ended (Ended): a call on a macro that *)
(* ends meets only macros that end a round earlier, and a call on one that *)
(* does not keeps meeting such macros until it meets one on its stack.     *)
(*                                                                         *)
(* The provers have no induction over data.  The first lemmas derive it    *)
(* from the fact that < is well founded on Nat, with a set for the         *)
(* property (SetInduction, SequenceInduction), and what a recursive        *)
(* function computes from the fact that there is a sequence of values that *)
(* follows the recursion (FollowsExist, FlattenFollows, RoundsFollow).     *)
(***************************************************************************)
EXTENDS MacroExpansion, FiniteSetTheorems, SequenceTheorems, TLAPS

(* Of some numbers one is the least.                                       *)
LEMMA LeastNumber ==
    ASSUME NEW T \in SUBSET Nat, T # {}
    PROVE  \E m \in T : \A k \in T : m <= k
<1> DEFINE R == OpToRel(<, Nat)
<1>1. IsWellFoundedOn(R, Nat)
  BY NatLessThanWellFounded
<1>2. \A x, y \in Nat : <<y, x>> \in R <=> y < x
  BY DEF OpToRel
<1> HIDE DEF R
<1>3. PICK m \in T : \A k \in T : ~(<<k, m>> \in R)
  BY <1>1, WFMin
<1>4. ASSUME NEW k \in T PROVE m <= k
  <2>1. m \in Nat /\ k \in Nat /\ ~(<<k, m>> \in R)
    BY <1>3
  <2>2. ~(k < m)
    BY <1>2, <2>1
  <2> QED
    BY <2>1, <2>2
<1> QED
  BY <1>4

(* A set with 0 and the successor of each of its numbers has them all.     *)
LEMMA SetInduction ==
    ASSUME NEW S, 0 \in S, \A n \in Nat : n \in S => n + 1 \in S
    PROVE  \A n \in Nat : n \in S
<1> SUFFICES ASSUME Nat \ S # {} PROVE FALSE
  OBVIOUS
<1> DEFINE T == Nat \ S
<1>1. T \in SUBSET Nat /\ T # {}
  OBVIOUS
<1>2. \A n \in Nat : n \in T <=> n \notin S
  OBVIOUS
<1> HIDE DEF T
<1>3. PICK m \in T : \A k \in T : m <= k
  BY <1>1, LeastNumber
<1>4. m \in Nat /\ m # 0
  BY <1>1, <1>2
<1>5. m - 1 \in Nat /\ ~(m <= m - 1)
  BY <1>4
<1>6. m - 1 \in S
  BY <1>2, <1>3, <1>5
<1>7. (m - 1) + 1 \in S
  BY <1>5, <1>6
<1>8. (m - 1) + 1 = m
  BY <1>4
<1> QED
  BY <1>2, <1>4, <1>7, <1>8

(* A set of sequences with the empty one and every extension of its        *)
(* members has them all.                                                   *)
LEMMA SequenceInduction ==
    ASSUME NEW A, NEW P, <<>> \in P,
           \A s \in Seq(A), x \in A : s \in P => Append(s, x) \in P
    PROVE  \A s \in Seq(A) : s \in P
<1> DEFINE S == {n \in Nat : \A s \in Seq(A) : Len(s) = n => s \in P}
<1>1. 0 \in S
  <2>1. \A s \in Seq(A) : Len(s) = 0 => s = <<>>
    OBVIOUS
  <2> QED
    BY <2>1
<1>2. ASSUME NEW n \in Nat, n \in S PROVE n + 1 \in S
  <2> SUFFICES ASSUME NEW s \in Seq(A), Len(s) = n + 1 PROVE s \in P
    OBVIOUS
  <2> DEFINE t == [i \in 1..n |-> s[i]]
  <2>1. t \in Seq(A) /\ Len(t) = n /\ s[n + 1] \in A
    OBVIOUS
  <2>2. s = Append(t, s[n + 1])
    OBVIOUS
  <2> HIDE DEF t
  <2>3. t \in P
    BY <1>2, <2>1
  <2>4. Append(t, s[n + 1]) \in P
    BY <2>1, <2>3
  <2> QED
    BY <2>2, <2>4
<1> HIDE DEF S
<1>3. \A n \in Nat : n \in S
  BY <1>1, <1>2, SetInduction
<1>4. ASSUME NEW s \in Seq(A) PROVE s \in P
  <2>1. Len(s) \in Nat /\ Len(s) \in S
    BY <1>3
  <2> QED
    BY <2>1 DEF S
<1> QED
  BY <1>4

-----------------------------------------------------------------------------
(* A sequence of values, each found from the one before.                   *)
Follows(f, n, init, next) ==
    /\ f[0] = init
    /\ \A k \in 0..(n - 1) : f[k + 1] = next[k][f[k]]

(* There is such a sequence whatever its length.                           *)
LEMMA FollowsExist ==
    ASSUME NEW A, NEW init \in A, NEW next \in [Nat -> [A -> A]], NEW m \in Nat
    PROVE  \E f \in [0..m -> A] : Follows(f, m, init, next)
<1> DEFINE S == {n \in Nat : \E f \in [0..n -> A] : Follows(f, n, init, next)}
<1>1. 0 \in S
  <2> DEFINE f == [k \in 0..0 |-> init]
  <2>1. f \in [0..0 -> A] /\ Follows(f, 0, init, next)
    BY DEF Follows
  <2> QED
    BY <2>1
<1>2. ASSUME NEW n \in Nat, n \in S PROVE n + 1 \in S
  <2>1. PICK g \in [0..n -> A] : Follows(g, n, init, next)
    BY <1>2
  <2> DEFINE f == [k \in 0..(n + 1) |-> IF k = n + 1 THEN next[n][g[n]] ELSE g[k]]
  <2>2. f \in [0..(n + 1) -> A]
    OBVIOUS
  <2>3. f[0] = init
    BY <2>1 DEF Follows
  <2>4. ASSUME NEW k \in 0..((n + 1) - 1) PROVE f[k + 1] = next[k][f[k]]
    <3>1. CASE k = n
      BY <3>1
    <3>2. CASE k # n
      BY <2>1, <3>2 DEF Follows
    <3> QED
      BY <3>1, <3>2
  <2>5. Follows(f, n + 1, init, next)
    BY <2>3, <2>4 DEF Follows
  <2> QED
    BY <2>2, <2>5
<1> HIDE DEF S
<1>3. m \in S
  BY <1>1, <1>2, SetInduction
<1> QED
  BY <1>3 DEF S

-----------------------------------------------------------------------------
(* Sequences joined, hidden from the provers but for these facts.          *)
Cat(s, t) == s \o t

(* Joined sequences keep their elements' type; the empty sequence adds     *)
(* nothing, and the order of joining does not matter.                      *)
LEMMA CatFacts ==
    ASSUME NEW T
    PROVE  /\ \A s, t \in Seq(T) : Cat(s, t) \in Seq(T)
           /\ \A s \in Seq(T) : Cat(s, <<>>) = s /\ Cat(<<>>, s) = s
           /\ \A s, t \in Seq(T), x \in T : Cat(s, Append(t, x)) = Append(Cat(s, t), x)
           /\ \A s, t, u \in Seq(T) : Cat(Cat(s, t), u) = Cat(s, Cat(t, u))
<1> USE DEF Cat
<1>1. \A s, t \in Seq(T) : Cat(s, t) \in Seq(T)
  OBVIOUS
<1>2. \A s \in Seq(T) : Cat(s, <<>>) = s /\ Cat(<<>>, s) = s
  OBVIOUS
<1>3. \A s, t \in Seq(T), x \in T : Cat(s, Append(t, x)) = Append(Cat(s, t), x)
  OBVIOUS
<1>4. \A s, t, u \in Seq(T) : Cat(Cat(s, t), u) = Cat(s, Cat(t, u))
  OBVIOUS
<1> QED
  BY <1>1, <1>2, <1>3, <1>4

(* FlattenSeq joins one sequence after the other.                          *)
Joining(T, ss) ==
    [k \in Nat |-> [s \in Seq(T) |-> IF k + 1 <= Len(ss) THEN Cat(s, ss[k + 1]) ELSE s]]

(* Joining is a step from sequence to sequence.                            *)
LEMMA JoiningType ==
    ASSUME NEW T, NEW ss \in Seq(Seq(T))
    PROVE  Joining(T, ss) \in [Nat -> [Seq(T) -> Seq(T)]]
<1> SUFFICES ASSUME NEW k \in Nat, NEW s \in Seq(T), k + 1 <= Len(ss)
             PROVE  Cat(s, ss[k + 1]) \in Seq(T)
  BY DEF Joining
<1>1. ss[k + 1] \in Seq(T)
  OBVIOUS
<1> QED
  BY <1>1, CatFacts

(* Following it is to join the sequences from the first on.                *)
LEMMA JoiningSteps ==
    ASSUME NEW T, NEW ss \in Seq(Seq(T)), NEW n \in Nat, n <= Len(ss), NEW f,
           \A k \in 0..n : f[k] \in Seq(T)
    PROVE  Follows(f, n, <<>>, Joining(T, ss)) <=>
              f[0] = <<>> /\ \A k \in 0..(n - 1) : f[k + 1] = Cat(f[k], ss[k + 1])
<1>1. ASSUME NEW k \in 0..(n - 1)
      PROVE  Joining(T, ss)[k][f[k]] = Cat(f[k], ss[k + 1])
  <2>1. k \in Nat /\ f[k] \in Seq(T) /\ k + 1 <= Len(ss)
    OBVIOUS
  <2> QED
    BY <2>1 DEF Joining
<1> QED
  BY <1>1 DEF Follows

(* FlattenSeq computes the last of the values that follow it.              *)
LEMMA FlattenFollows ==
    ASSUME NEW T, NEW ss \in Seq(Seq(T)), NEW f \in [0..Len(ss) -> Seq(T)],
           Follows(f, Len(ss), <<>>, Joining(T, ss))
    PROVE  FlattenSeq(ss) = f[Len(ss)]
<1> DEFINE n == Len(ss)
           Sound(g) == g = [i \in 1..n |-> IF i = 1 THEN ss[i] ELSE Cat(g[i - 1], ss[i])]
           flatten == CHOOSE g : Sound(g)
<1>0. n \in Nat
  OBVIOUS
<1>1. CASE n = 0
  <2>1. ss = <<>> /\ f[0] = <<>>
    BY <1>1 DEF Follows
  <2> QED
    BY <1>1, <2>1 DEF FlattenSeq
<1>2. CASE n # 0
  <2>1. FlattenSeq(ss) = flatten[n]
    BY <1>2 DEF FlattenSeq, Cat
  <2>2. /\ f[0] = <<>>
        /\ \A k \in 0..(n - 1) : f[k + 1] = Cat(f[k], ss[k + 1])
    <3>1. \A k \in 0..n : f[k] \in Seq(T)
      OBVIOUS
    <3>2. n <= Len(ss)
      BY <1>0
    <3> QED
      BY <1>0, <3>1, <3>2, JoiningSteps
  <2> DEFINE g == [i \in 1..n |-> f[i]]
  <2>3. Sound(g)
    <3>1. ASSUME NEW i \in 1..n
          PROVE  f[i] = IF i = 1 THEN ss[i] ELSE Cat(g[i - 1], ss[i])
      <4>1. i - 1 \in 0..(n - 1) /\ (i - 1) + 1 = i
        BY <1>0
      <4>2. f[i] = Cat(f[i - 1], ss[i])
        BY <2>2, <4>1
      <4>3. CASE i = 1
        <5>1. ss[1] \in Seq(T)
          BY <1>0, <4>3
        <5>2. Cat(<<>>, ss[1]) = ss[1]
          BY <5>1, CatFacts
        <5> QED
          BY <2>2, <4>2, <4>3, <5>2
      <4>4. CASE i # 1
        BY <4>2, <4>4
      <4> QED
        BY <4>3, <4>4
    <3> QED
      BY <3>1
  <2> HIDE DEF g
  <2>4. Sound(flatten)
    BY <2>3
  <2> HIDE DEF flatten
  <2> DEFINE h == [k \in 0..n |-> IF k = 0 THEN <<>> ELSE flatten[k]]
  <2>5. ASSUME NEW k \in 0..n, k # 0, f[k - 1] = h[k - 1]
        PROVE  f[k] = h[k]
    <3>1. k \in 1..n /\ k - 1 \in 0..(n - 1) /\ (k - 1) + 1 = k
      BY <2>5
    <3>2. f[k] = Cat(f[k - 1], ss[k])
      BY <2>2, <3>1
    <3>3. flatten[k] = IF k = 1 THEN ss[k] ELSE Cat(flatten[k - 1], ss[k])
      BY <2>4, <3>1
    <3>4. CASE k = 1
      <4>1. ss[1] \in Seq(T) /\ f[0] = <<>>
        BY <1>0, <2>2, <3>1, <3>4
      <4>2. Cat(<<>>, ss[1]) = ss[1]
        BY <4>1, CatFacts
      <4> QED
        BY <3>1, <3>2, <3>3, <3>4, <4>1, <4>2
    <3>5. CASE k # 1
      BY <2>5, <3>1, <3>2, <3>3, <3>5
    <3> QED
      BY <3>4, <3>5
  <2> DEFINE S == {k \in Nat : k <= n => f[k] = h[k]}
  <2>6. 0 \in S
    BY <2>2
  <2>7. ASSUME NEW k \in Nat, k \in S PROVE k + 1 \in S
    <3>1. (k + 1) - 1 = k
      OBVIOUS
    <3> HIDE DEF h
    <3>2. ASSUME k + 1 <= n PROVE f[k + 1] = h[k + 1]
      <4>1. k + 1 \in 0..n /\ k + 1 # 0 /\ k <= n
        BY <1>0, <3>2
      <4> QED
        BY <2>5, <2>7, <3>1, <4>1
    <3> QED
      BY <3>2
  <2> HIDE DEF S, h
  <2>8. n \in S
    <3>1. \A k \in Nat : k \in S
      BY <2>6, <2>7, SetInduction
    <3> QED
      BY <1>0, <3>1
  <2> QED
    BY <1>2, <2>1, <2>8 DEF S, h
<1> QED
  BY <1>1, <1>2

(* The sequences joined up to each of them,                                *)
LEMMA FlattenPrefixes ==
    ASSUME NEW T, NEW ss \in Seq(Seq(T))
    PROVE  \E f \in [0..Len(ss) -> Seq(T)] :
              /\ f[0] = <<>>
              /\ \A k \in 0..(Len(ss) - 1) : f[k + 1] = Cat(f[k], ss[k + 1])
<1>1. Len(ss) \in Nat /\ Len(ss) <= Len(ss) /\ <<>> \in Seq(T)
  OBVIOUS
<1>2. PICK f \in [0..Len(ss) -> Seq(T)] : Follows(f, Len(ss), <<>>, Joining(T, ss))
  BY <1>1, JoiningType, FollowsExist
<1>3. \A k \in 0..Len(ss) : f[k] \in Seq(T)
  OBVIOUS
<1>4. /\ f[0] = <<>>
      /\ \A k \in 0..(Len(ss) - 1) : f[k + 1] = Cat(f[k], ss[k + 1])
  BY <1>1, <1>2, <1>3, JoiningSteps
<1> QED
  BY <1>4

(* and the last of these is what FlattenSeq makes of them.                 *)
LEMMA FlattenIsPrefix ==
    ASSUME NEW T, NEW ss \in Seq(Seq(T)), NEW f \in [0..Len(ss) -> Seq(T)],
           f[0] = <<>>,
           \A k \in 0..(Len(ss) - 1) : f[k + 1] = Cat(f[k], ss[k + 1])
    PROVE  FlattenSeq(ss) = f[Len(ss)]
<1>1. Len(ss) \in Nat /\ Len(ss) <= Len(ss)
  OBVIOUS
<1>2. \A k \in 0..Len(ss) : f[k] \in Seq(T)
  OBVIOUS
<1>3. Follows(f, Len(ss), <<>>, Joining(T, ss))
  BY <1>1, <1>2, JoiningSteps
<1> QED
  BY <1>3, FlattenFollows

(* So a sequence more is joined at the end.                                *)
LEMMA FlattenAppend ==
    ASSUME NEW T, NEW ss \in Seq(Seq(T)), NEW s \in Seq(T)
    PROVE  /\ FlattenSeq(ss) \in Seq(T)
           /\ FlattenSeq(Append(ss, s)) = Cat(FlattenSeq(ss), s)
<1> DEFINE n == Len(ss)
           tt == Append(ss, s)
<1>1. /\ n \in Nat /\ tt \in Seq(Seq(T)) /\ Len(tt) = n + 1 /\ tt[n + 1] = s
      /\ \A i \in 1..n : tt[i] = ss[i]
  OBVIOUS
<1> HIDE DEF tt
<1>2. PICK f \in [0..Len(tt) -> Seq(T)] :
              /\ f[0] = <<>>
              /\ \A k \in 0..(Len(tt) - 1) : f[k + 1] = Cat(f[k], tt[k + 1])
  BY <1>1, FlattenPrefixes
<1>3. FlattenSeq(tt) = f[n + 1]
  BY <1>1, <1>2, FlattenIsPrefix
<1>4. \A k \in 0..n : k \in 0..Len(tt) /\ k \in 0..(Len(tt) - 1)
  BY <1>1
<1> DEFINE g == [k \in 0..Len(ss) |-> f[k]]
<1>5. g \in [0..Len(ss) -> Seq(T)] /\ g[n] = f[n] /\ g[0] = <<>>
  BY <1>1, <1>2, <1>4
<1>6. ASSUME NEW k \in 0..(n - 1) PROVE g[k + 1] = Cat(g[k], ss[k + 1])
  <2>1. k \in 0..n /\ k + 1 \in 0..n /\ k + 1 \in 1..n
    BY <1>1
  <2> QED
    BY <1>1, <1>2, <1>4, <2>1
<1> HIDE DEF g
<1>7. FlattenSeq(ss) = g[Len(ss)]
  BY <1>5, <1>6, FlattenIsPrefix
<1>8. f[n + 1] = Cat(f[n], s) /\ f[n] \in Seq(T)
  <2>1. n \in 0..n
    BY <1>1
  <2>2. f[n + 1] = Cat(f[n], tt[n + 1])
    BY <1>2, <1>4, <2>1
  <2> QED
    BY <1>1, <1>4, <2>1, <2>2
<1> QED
  BY <1>3, <1>5, <1>7, <1>8 DEF tt

(* Nothing joined is nothing.                                              *)
LEMMA FlattenNothing == FlattenSeq(<<>>) = <<>>
BY DEF FlattenSeq

-----------------------------------------------------------------------------
(* Every token of a sequence replaced by a sequence.                       *)
Mapped(h, s) == FlattenSeq([i \in DOMAIN s |-> h[s[i]]])
TokensIn(s) == {s[i] : i \in 1..Len(s)}

(* No tokens stay none.                                                    *)
LEMMA MapNothing == ASSUME NEW h PROVE Mapped(h, <<>>) = <<>>
<1>1. [i \in DOMAIN <<>> |-> h[<<>>[i]]] = <<>>
  OBVIOUS
<1> QED
  BY <1>1, FlattenNothing DEF Mapped

(* A token more adds what replaces it.                                     *)
LEMMA MapAppend ==
    ASSUME NEW T, NEW h \in [T -> Seq(T)], NEW s \in Seq(T), NEW x \in T
    PROVE  /\ Mapped(h, s) \in Seq(T)
           /\ Mapped(h, Append(s, x)) = Cat(Mapped(h, s), h[x])
<1> DEFINE ss == [i \in DOMAIN s |-> h[s[i]]]
           t == Append(s, x)
           tt == [i \in DOMAIN t |-> h[t[i]]]
<1>1. ss \in Seq(Seq(T)) /\ h[x] \in Seq(T)
  OBVIOUS
<1>2. tt = Append(ss, h[x])
  <2>1. DOMAIN t = 1..(Len(s) + 1) /\ DOMAIN s = 1..Len(s) /\ Len(s) \in Nat
    OBVIOUS
  <2>2. t[Len(s) + 1] = x /\ \A i \in 1..Len(s) : t[i] = s[i]
    OBVIOUS
  <2> HIDE DEF t
  <2>3. tt \in Seq(Seq(T)) /\ Len(tt) = Len(s) + 1
    <3>1. \A i \in DOMAIN t : t[i] \in T
      BY <2>1, <2>2
    <3> QED
      BY <2>1, <3>1
  <2>4. \A i \in 1..(Len(s) + 1) : tt[i] = Append(ss, h[x])[i]
    BY <2>1, <2>2
  <2>5. Append(ss, h[x]) \in Seq(Seq(T)) /\ Len(Append(ss, h[x])) = Len(s) + 1
    BY <1>1
  <2> DEFINE uu == Append(ss, h[x])
  <2> HIDE DEF tt, ss, uu
  <2> QED
    BY <2>3, <2>4, <2>5, SeqEqual DEF uu
<1> HIDE DEF ss, tt, t
<1>3. /\ FlattenSeq(ss) \in Seq(T)
      /\ FlattenSeq(tt) = Cat(FlattenSeq(ss), h[x])
  BY <1>1, <1>2, FlattenAppend
<1> QED
  BY <1>3 DEF Mapped, ss, tt, t

(* Replacing tokens by tokens makes tokens.                                *)
LEMMA MapType ==
    ASSUME NEW T, NEW h \in [T -> Seq(T)], NEW s \in Seq(T)
    PROVE  Mapped(h, s) \in Seq(T)
<1>1. [i \in DOMAIN s |-> h[s[i]]] \in Seq(Seq(T))
  <2>1. DOMAIN s = 1..Len(s) /\ Len(s) \in Nat /\ \A i \in 1..Len(s) : h[s[i]] \in Seq(T)
    OBVIOUS
  <2> QED
    BY <2>1
<1>2. <<>> \in Seq(T)
  OBVIOUS
<1> QED
  BY <1>1, <1>2, FlattenAppend DEF Mapped

(* A single token becomes what replaces it.                                *)
LEMMA MapOne ==
    ASSUME NEW T, NEW h \in [T -> Seq(T)], NEW x \in T
    PROVE  Mapped(h, <<x>>) = h[x]
<1>1. <<x>> = Append(<<>>, x) /\ <<>> \in Seq(T) /\ h[x] \in Seq(T)
  OBVIOUS
<1> QED
  <2>1. Mapped(h, Append(<<>>, x)) = Cat(Mapped(h, <<>>), h[x])
    BY <1>1, MapAppend
  <2>2. Mapped(h, <<>>) = <<>> /\ Cat(<<>>, h[x]) = h[x]
    BY <1>1, MapNothing, CatFacts
  <2> HIDE DEF Mapped
  <2> QED
    BY <1>1, <2>1, <2>2, Zenon

(* Joined sequences are replaced one by one.                               *)
LEMMA MapCat ==
    ASSUME NEW T, NEW h \in [T -> Seq(T)], NEW s \in Seq(T)
    PROVE  \A t \in Seq(T) : Mapped(h, Cat(s, t)) = Cat(Mapped(h, s), Mapped(h, t))
<1> DEFINE P == {t \in Seq(T) : Mapped(h, Cat(s, t)) = Cat(Mapped(h, s), Mapped(h, t))}
<1>1. <<>> \in P
  <2>1. /\ Mapped(h, <<>>) = <<>> /\ Mapped(h, s) \in Seq(T) /\ <<>> \in Seq(T)
    BY MapNothing, MapType
  <2>2. Cat(s, <<>>) = s /\ Cat(Mapped(h, s), <<>>) = Mapped(h, s)
    BY <2>1, CatFacts
  <2> QED
    BY <2>1, <2>2
<1>2. ASSUME NEW t \in Seq(T), NEW x \in T, t \in P
      PROVE  Append(t, x) \in P
  <2>1. /\ Cat(s, Append(t, x)) = Append(Cat(s, t), x) /\ Cat(s, t) \in Seq(T)
        /\ Append(t, x) \in Seq(T) /\ h[x] \in Seq(T)
    BY CatFacts
  <2>2. Mapped(h, Append(Cat(s, t), x)) = Cat(Mapped(h, Cat(s, t)), h[x])
    BY <2>1, MapAppend
  <2>3. Mapped(h, Append(t, x)) = Cat(Mapped(h, t), h[x])
    BY MapAppend
  <2>4. /\ Mapped(h, s) \in Seq(T) /\ Mapped(h, t) \in Seq(T)
    BY MapType
  <2>5. Cat(Cat(Mapped(h, s), Mapped(h, t)), h[x])
          = Cat(Mapped(h, s), Cat(Mapped(h, t), h[x]))
    BY <2>1, <2>4, CatFacts
  <2> QED
    BY <1>2, <2>1, <2>2, <2>3, <2>5
<1>3. \A t \in Seq(T) : t \in P
  <2> HIDE DEF P
  <2> QED
    BY <1>1, <1>2, SequenceInduction
<1> QED
  BY <1>3

(* What replaces the tokens, hidden from the provers, and two of them one  *)
(* after the other.                                                        *)
Replacements(T) == [T -> Seq(T)]
Composes(T, h, g, f) == \A x \in T : f[x] = Mapped(g, h[x])

(* What is replaced twice is replaced once by the replaced replacements.   *)
LEMMA MapMap ==
    ASSUME NEW T, NEW h \in Replacements(T), NEW g \in Replacements(T),
           NEW f \in Replacements(T), Composes(T, h, g, f), NEW z \in Seq(T)
    PROVE  Mapped(g, Mapped(h, z)) = Mapped(f, z)
<1> DEFINE gh == [x \in T |-> Mapped(g, h[x])]
           P == {s \in Seq(T) : Mapped(g, Mapped(h, s)) = Mapped(gh, s)}
<1>1. h \in [T -> Seq(T)] /\ g \in [T -> Seq(T)]
  BY DEF Replacements
<1>2. gh \in [T -> Seq(T)] /\ \A x \in T : gh[x] = Mapped(g, h[x]) /\ h[x] \in Seq(T)
  <2>1. \A x \in T : Mapped(g, h[x]) \in Seq(T)
    BY <1>1, MapType
  <2> QED
    BY <1>1, <2>1
<1> HIDE DEF gh
<1>3. <<>> \in P
  BY MapNothing
<1>4. ASSUME NEW s \in Seq(T), NEW x \in T, s \in P
      PROVE  Append(s, x) \in P
  <2>1. Mapped(h, Append(s, x)) = Cat(Mapped(h, s), h[x]) /\ Mapped(h, s) \in Seq(T)
    BY <1>1, MapAppend
  <2>2. Mapped(g, Cat(Mapped(h, s), h[x])) = Cat(Mapped(g, Mapped(h, s)), gh[x])
    <3>1. h[x] \in Seq(T) /\ gh[x] = Mapped(g, h[x])
      BY <1>2
    <3>2. Mapped(g, Cat(Mapped(h, s), h[x]))
            = Cat(Mapped(g, Mapped(h, s)), Mapped(g, h[x]))
      BY <1>1, <2>1, <3>1, MapCat
    <3> QED
      BY <3>1, <3>2
  <2>3. Mapped(gh, Append(s, x)) = Cat(Mapped(gh, s), gh[x])
    BY <1>2, MapAppend
  <2>4. Append(s, x) \in Seq(T)
    OBVIOUS
  <2> QED
    BY <1>4, <2>1, <2>2, <2>3, <2>4
<1>5. \A s \in Seq(T) : s \in P
  <2> HIDE DEF P
  <2> QED
    BY <1>3, <1>4, SequenceInduction
<1>6. f = gh
  BY <1>2 DEF Replacements, Composes
<1> QED
  BY <1>5, <1>6

(* The tokens of a sequence.                                               *)
LEMMA TokenFacts ==
    ASSUME NEW T
    PROVE  /\ TokensIn(<<>>) = {}
           /\ \A s \in Seq(T), x \in T : TokensIn(Append(s, x)) = TokensIn(s) \cup {x}
           /\ \A s, t \in Seq(T) : TokensIn(Cat(s, t)) = TokensIn(s) \cup TokensIn(t)
           /\ \A s \in Seq(T) : TokensIn(s) \subseteq T
           /\ \A x : TokensIn(<<x>>) = {x}
<1>1. TokensIn(<<>>) = {} /\ \A x : TokensIn(<<x>>) = {x}
  BY DEF TokensIn
<1>2. ASSUME NEW s \in Seq(T), NEW x \in T
      PROVE  TokensIn(Append(s, x)) = TokensIn(s) \cup {x}
  BY DEF TokensIn
<1>3. ASSUME NEW s \in Seq(T), NEW t \in Seq(T)
      PROVE  TokensIn(Cat(s, t)) = TokensIn(s) \cup TokensIn(t)
  <2> DEFINE c == Cat(s, t)
  <2>1. /\ Len(s) \in Nat /\ Len(t) \in Nat /\ Len(c) = Len(s) + Len(t)
        /\ \A i \in 1..Len(s) : c[i] = s[i]
        /\ \A i \in 1..Len(t) : c[Len(s) + i] = t[i]
    BY DEF Cat
  <2>2. ASSUME NEW i \in 1..Len(c) PROVE c[i] \in TokensIn(s) \cup TokensIn(t)
    <3>1. CASE i <= Len(s)
      BY <2>1, <3>1 DEF TokensIn
    <3>2. CASE i > Len(s)
      <4>1. i - Len(s) \in 1..Len(t) /\ Len(s) + (i - Len(s)) = i
        BY <2>1, <3>2
      <4> QED
        BY <2>1, <4>1 DEF TokensIn
    <3> QED
      BY <2>1, <3>1, <3>2
  <2>3. ASSUME NEW i \in 1..Len(s) PROVE s[i] \in TokensIn(c)
    <3>1. i \in 1..Len(c)
      BY <2>1
    <3> QED
      BY <2>1, <3>1 DEF TokensIn
  <2>4. ASSUME NEW i \in 1..Len(t) PROVE t[i] \in TokensIn(c)
    <3>1. Len(s) + i \in 1..Len(c)
      BY <2>1
    <3> QED
      BY <2>1, <3>1 DEF TokensIn
  <2> HIDE DEF c
  <2>5. TokensIn(c) = TokensIn(s) \cup TokensIn(t)
    BY <2>2, <2>3, <2>4 DEF TokensIn
  <2> QED
    BY <2>5 DEF c
<1>4. \A s \in Seq(T) : TokensIn(s) \subseteq T
  BY DEF TokensIn
<1> QED
  BY <1>1, <1>2, <1>3, <1>4

(* The tokens that are there afterwards are those of the replacements.     *)
LEMMA MapTokens ==
    ASSUME NEW T, NEW h \in [T -> Seq(T)]
    PROVE  \A s \in Seq(T) : TokensIn(Mapped(h, s)) = UNION {TokensIn(h[x]) : x \in TokensIn(s)}
<1> DEFINE P == {s \in Seq(T) : TokensIn(Mapped(h, s))
                                   = UNION {TokensIn(h[x]) : x \in TokensIn(s)}}
<1>1. <<>> \in P
  <2>1. <<>> \in Seq(T) /\ TokensIn(<<>>) = {}
    BY TokenFacts
  <2> QED
    BY <2>1, MapNothing
<1>2. ASSUME NEW s \in Seq(T), NEW x \in T, s \in P
      PROVE  Append(s, x) \in P
  <2>1. /\ Mapped(h, Append(s, x)) = Cat(Mapped(h, s), h[x])
        /\ Mapped(h, s) \in Seq(T) /\ h[x] \in Seq(T) /\ Append(s, x) \in Seq(T)
    BY MapAppend
  <2>2. TokensIn(Cat(Mapped(h, s), h[x])) = TokensIn(Mapped(h, s)) \cup TokensIn(h[x])
    BY <2>1, TokenFacts
  <2>3. TokensIn(Append(s, x)) = TokensIn(s) \cup {x}
    BY TokenFacts
  <2> QED
    BY <1>2, <2>1, <2>2, <2>3
<1>3. \A s \in Seq(T) : s \in P
  <2> HIDE DEF P
  <2> QED
    BY <1>1, <1>2, SequenceInduction
<1> QED
  BY <1>3

(* A sequence whose tokens are all replaced by themselves stays as it is.  *)
LEMMA MapSame ==
    ASSUME NEW T, NEW h \in [T -> Seq(T)]
    PROVE  \A s \in Seq(T) : (\A x \in TokensIn(s) : h[x] = <<x>>) => Mapped(h, s) = s
<1> DEFINE P == {s \in Seq(T) : (\A x \in TokensIn(s) : h[x] = <<x>>) => Mapped(h, s) = s}
<1>1. <<>> \in P
  BY MapNothing
<1>2. ASSUME NEW s \in Seq(T), NEW x \in T, s \in P
      PROVE  Append(s, x) \in P
  <2> SUFFICES ASSUME \A y \in TokensIn(Append(s, x)) : h[y] = <<y>>
               PROVE  Mapped(h, Append(s, x)) = Append(s, x)
    OBVIOUS
  <2>1. TokensIn(Append(s, x)) = TokensIn(s) \cup {x}
    BY TokenFacts
  <2>2. Mapped(h, s) = s /\ h[x] = <<x>>
    BY <1>2, <2>1
  <2>3. Cat(s, <<x>>) = Append(s, x)
    BY DEF Cat
  <2> QED
    BY <2>2, <2>3, MapAppend
<1>3. \A s \in Seq(T) : s \in P
  <2> HIDE DEF P
  <2> QED
    BY <1>1, <1>2, SequenceInduction
<1> QED
  BY <1>3

-----------------------------------------------------------------------------
(* The tables of macros: finitely many names, and every object macro a     *)
(* sequence of tokens, which is not what the expansion gives up with.      *)
TableOK(T) ==
    /\ IsFiniteSet(MacroNames)
    /\ MacroNames \subseteq T
    /\ ObjectMacros \subseteq MacroNames
    /\ \A m \in ObjectMacros : macros[m] \in Seq(T)
    /\ Raises \notin Seq(T)

(* What one round makes of a token.                                        *)
Step(T) == [x \in T |-> IF x \in ObjectMacros THEN macros[x] ELSE <<x>>]

(* A token is replaced by tokens.                                          *)
LEMMA StepType ==
    ASSUME NEW T, TableOK(T)
    PROVE  /\ Step(T) \in [T -> Seq(T)]
           /\ \A x \in T : Step(T)[x] = IF x \in ObjectMacros THEN macros[x] ELSE <<x>>
<1>1. \A x \in T : <<x>> \in Seq(T)
  OBVIOUS
<1>2. \A x \in T : (IF x \in ObjectMacros THEN macros[x] ELSE <<x>>) \in Seq(T)
  BY <1>1 DEF TableOK
<1> QED
  BY <1>2 DEF Step

(* A round of replacement maps the step over the tokens.                   *)
LEMMA RoundMaps ==
    ASSUME NEW T, TableOK(T), NEW s \in Seq(T)
    PROVE  FlattenSeq([i \in DOMAIN s |->
                IF s[i] \in ObjectMacros THEN macros[s[i]] ELSE <<s[i]>>])
             = Mapped(Step(T), s)
<1>1. \A i \in DOMAIN s : s[i] \in T
  OBVIOUS
<1>2. \A i \in DOMAIN s :
         Step(T)[s[i]] = IF s[i] \in ObjectMacros THEN macros[s[i]] ELSE <<s[i]>>
  BY <1>1, StepType
<1>3. [i \in DOMAIN s |-> IF s[i] \in ObjectMacros THEN macros[s[i]] ELSE <<s[i]>>]
        = [i \in DOMAIN s |-> Step(T)[s[i]]]
  BY <1>2
<1> QED
  BY <1>3 DEF Mapped

Stepping(T) == [k \in Nat |-> [s \in Seq(T) |-> Mapped(Step(T), s)]]

(* Every round is a step from sequence to sequence.                        *)
LEMMA SteppingType ==
    ASSUME NEW T, TableOK(T)
    PROVE  /\ Stepping(T) \in [Nat -> [Seq(T) -> Seq(T)]]
           /\ \A k \in Nat, s \in Seq(T) : Stepping(T)[k][s] = Mapped(Step(T), s)
<1>1. Step(T) \in [T -> Seq(T)]
  BY StepType
<1>2. \A s \in Seq(T) : Mapped(Step(T), s) \in Seq(T)
  BY <1>1, MapType
<1> QED
  BY <1>2 DEF Stepping

(* The rounds of Replaced are a sequence of values, each found from the    *)
(* one before.                                                             *)
LEMMA RoundsFollow ==
    ASSUME NEW T, TableOK(T), NEW s \in Seq(T), NEW n \in Nat,
           NEW f \in [0..n -> Seq(T)], Follows(f, n, s, Stepping(T))
    PROVE  Replaced(s, n) = f[n]
<1> DEFINE Once(r) == FlattenSeq([i \in DOMAIN r |->
                           IF r[i] \in ObjectMacros THEN macros[r[i]] ELSE <<r[i]>>])
           Sound(g) == g = [k \in 0..n |-> IF k = 0 THEN s ELSE Once(g[k - 1])]
           round == CHOOSE g : Sound(g)
<1>1. Replaced(s, n) = round[n]
  BY DEF Replaced
<1>2. \A r \in Seq(T) : Once(r) = Mapped(Step(T), r)
  BY RoundMaps
<1> HIDE DEF Once
<1>3. f[0] = s /\ \A k \in 0..n : f[k] \in Seq(T)
  BY DEF Follows
<1>4. ASSUME NEW k \in 0..n, k # 0 PROVE f[k] = Once(f[k - 1])
  <2>1. k - 1 \in 0..(n - 1) /\ k - 1 \in 0..n /\ k - 1 \in Nat /\ (k - 1) + 1 = k
    <3>1. k \in Int /\ n \in Int /\ 0 < k /\ k <= n
      BY <1>4
    <3> QED
      BY <3>1
  <2>2. f[k] = Stepping(T)[k - 1][f[k - 1]]
    BY <2>1 DEF Follows
  <2> QED
    BY <1>2, <1>3, <2>1, <2>2, SteppingType
<1>5. Sound(f)
  <2>1. f = [k \in 0..n |-> f[k]]
    OBVIOUS
  <2>2. \A k \in 0..n : f[k] = IF k = 0 THEN s ELSE Once(f[k - 1])
    BY <1>3, <1>4
  <2> QED
    BY <2>1, <2>2
<1>6. Sound(round)
  BY <1>5
<1> HIDE DEF round
<1>7. \A k \in 0..n : round[k] = IF k = 0 THEN s ELSE Once(round[k - 1])
  BY <1>6
<1> HIDE DEF Sound
<1> DEFINE S == {k \in Nat : k <= n => round[k] = f[k]}
<1>8. 0 \in S
  BY <1>3, <1>7
<1>9. ASSUME NEW k \in Nat, k \in S PROVE k + 1 \in S
  <2> SUFFICES ASSUME k + 1 <= n PROVE round[k + 1] = f[k + 1]
    OBVIOUS
  <2>1. k + 1 \in 0..n /\ k + 1 # 0 /\ (k + 1) - 1 = k /\ k <= n
    OBVIOUS
  <2>2. round[k + 1] = Once(round[k])
    BY <1>7, <2>1
  <2>3. f[k + 1] = Once(f[k])
    BY <1>4, <2>1
  <2> QED
    BY <1>9, <2>1, <2>2, <2>3
<1> HIDE DEF S
<1>10. n \in S
  BY <1>8, <1>9, SetInduction
<1> QED
  BY <1>1, <1>10 DEF S

(* A round more of Replaced maps the step once more.                       *)
LEMMA ReplacedRounds ==
    ASSUME NEW T, TableOK(T)
    PROVE  \A s \in Seq(T), k \in Nat :
              /\ Replaced(s, 0) = s
              /\ Replaced(s, k) \in Seq(T)
              /\ Replaced(s, k + 1) = Mapped(Step(T), Replaced(s, k))
<1> SUFFICES ASSUME NEW s \in Seq(T), NEW k \in Nat
             PROVE  /\ Replaced(s, 0) = s
                    /\ Replaced(s, k) \in Seq(T)
                    /\ Replaced(s, k + 1) = Mapped(Step(T), Replaced(s, k))
  OBVIOUS
<1>1. PICK f \in [0..(k + 1) -> Seq(T)] : Follows(f, k + 1, s, Stepping(T))
  <2>1. k + 1 \in Nat
    OBVIOUS
  <2> QED
    BY <2>1, SteppingType, FollowsExist
<1>2. \A j \in 0..(k + 1) : f[j] \in Seq(T)
  OBVIOUS
<1>3. ASSUME NEW j \in 0..(k + 1) PROVE Replaced(s, j) = f[j]
  <2> DEFINE g == [i \in 0..j |-> f[i]]
  <2>1. j \in Nat /\ g \in [0..j -> Seq(T)] /\ g[j] = f[j]
    BY <1>2
  <2>2. Follows(g, j, s, Stepping(T))
    <3>1. g[0] = s
      BY <1>1 DEF Follows
    <3>2. ASSUME NEW i \in 0..(j - 1) PROVE g[i + 1] = Stepping(T)[i][g[i]]
      <4>1. i \in 0..((k + 1) - 1) /\ i \in 0..j /\ i + 1 \in 0..j
        OBVIOUS
      <4> QED
        BY <1>1, <4>1 DEF Follows
    <3> HIDE DEF g
    <3> QED
      BY <3>1, <3>2 DEF Follows
  <2> HIDE DEF g
  <2> QED
    BY <2>1, <2>2, RoundsFollow
<1>4. Replaced(s, 0) = f[0] /\ Replaced(s, k) = f[k] /\ Replaced(s, k + 1) = f[k + 1]
  BY <1>3
<1>5. f[0] = s /\ f[k] \in Seq(T) /\ f[k + 1] = Stepping(T)[k][f[k]]
  <2>1. k \in 0..((k + 1) - 1) /\ k \in 0..(k + 1)
    OBVIOUS
  <2> QED
    BY <1>1, <1>2, <2>1 DEF Follows
<1> QED
  BY <1>4, <1>5, SteppingType

(* Rounds of replacement of a single token: R(k) in what follows.          *)
Rounds(T, k) == [x \in T |-> Replaced(<<x>>, k)]

(* A token is replaced by tokens in any number of rounds.                  *)
LEMMA RoundsType ==
    ASSUME NEW T, TableOK(T), NEW k \in Nat
    PROVE  /\ Rounds(T, k) \in [T -> Seq(T)]
           /\ \A x \in T : <<x>> \in Seq(T) /\ Rounds(T, k)[x] = Replaced(<<x>>, k)
<1>1. \A x \in T : <<x>> \in Seq(T)
  OBVIOUS
<1>2. \A x \in T : Replaced(<<x>>, k) \in Seq(T)
  BY <1>1, ReplacedRounds
<1> QED
  BY <1>1, <1>2 DEF Rounds

(* Each round of a single token is a step of the one before.               *)
LEMMA RoundOfToken ==
    ASSUME NEW T, TableOK(T), NEW k \in Nat, NEW x \in T
    PROVE  /\ Replaced(<<x>>, k) \in Seq(T)
           /\ Replaced(<<x>>, k + 1) = Mapped(Step(T), Replaced(<<x>>, k))
<1> DEFINE t == <<x>>
<1>1. t \in Seq(T)
  OBVIOUS
<1> HIDE DEF t
<1>2. Replaced(t, k) \in Seq(T) /\ Replaced(t, k + 1) = Mapped(Step(T), Replaced(t, k))
  BY <1>1, ReplacedRounds
<1> QED
  BY <1>2 DEF t

(* A sequence is replaced token by token.                                  *)
LEMMA ReplacedMaps ==
    ASSUME NEW T, TableOK(T), NEW s \in Seq(T)
    PROVE  \A k \in Nat : Replaced(s, k) = Mapped(Rounds(T, k), s)
<1> DEFINE S == {k \in Nat : Replaced(s, k) = Mapped(Rounds(T, k), s)}
<1>1. 0 \in S
  <2>1. Rounds(T, 0) \in [T -> Seq(T)] /\ \A x \in T : Rounds(T, 0)[x] = <<x>>
    <3>1. 0 \in Nat
      OBVIOUS
    <3>2. /\ Rounds(T, 0) \in [T -> Seq(T)]
          /\ \A x \in T : <<x>> \in Seq(T) /\ Rounds(T, 0)[x] = Replaced(<<x>>, 0)
      BY <3>1, RoundsType
    <3>3. \A t \in Seq(T) : Replaced(t, 0) = t
      BY <3>1, ReplacedRounds
    <3> QED
      BY <3>2, <3>3
  <2>2. TokensIn(s) \subseteq T
    BY TokenFacts
  <2>3. Mapped(Rounds(T, 0), s) = s
    BY <2>1, <2>2, MapSame
  <2>4. Replaced(s, 0) = s
    BY ReplacedRounds
  <2> QED
    BY <2>3, <2>4
<1>2. ASSUME NEW k \in Nat, k \in S PROVE k + 1 \in S
  <2>1. Replaced(s, k + 1) = Mapped(Step(T), Mapped(Rounds(T, k), s))
    BY <1>2, ReplacedRounds
  <2>2. /\ Rounds(T, k) \in [T -> Seq(T)] /\ Step(T) \in [T -> Seq(T)]
        /\ Rounds(T, k + 1) \in [T -> Seq(T)]
    BY RoundsType, StepType
  <2>3. ASSUME NEW x \in T
        PROVE  Rounds(T, k + 1)[x] = Mapped(Step(T), Rounds(T, k)[x])
    <3>1. k + 1 \in Nat
      OBVIOUS
    <3>2. <<x>> \in Seq(T) /\ Rounds(T, k)[x] = Replaced(<<x>>, k)
      BY RoundsType
    <3>3. Rounds(T, k + 1)[x] = Replaced(<<x>>, k + 1)
      BY <3>1, RoundsType
    <3>4. Replaced(<<x>>, k + 1) = Mapped(Step(T), Replaced(<<x>>, k))
      BY RoundOfToken
    <3> QED
      BY <3>2, <3>3, <3>4
  <2>4. Mapped(Step(T), Mapped(Rounds(T, k), s)) = Mapped(Rounds(T, k + 1), s)
    <3>1. Rounds(T, k) \in Replacements(T) /\ Rounds(T, k + 1) \in Replacements(T)
          /\ Step(T) \in Replacements(T)
      BY <2>2 DEF Replacements
    <3>2. Composes(T, Rounds(T, k), Step(T), Rounds(T, k + 1))
      BY <2>3 DEF Composes
    <3> QED
      BY <3>1, <3>2, MapMap
  <2> QED
    BY <2>1, <2>4
<1> HIDE DEF S
<1>3. \A k \in Nat : k \in S
  BY <1>1, <1>2, SetInduction
<1> QED
  BY <1>3 DEF S

(* The first round may as well be done first.                              *)
LEMMA FirstRound ==
    ASSUME NEW T, TableOK(T), NEW s \in Seq(T)
    PROVE  \A k \in Nat : Replaced(Mapped(Step(T), s), k) = Replaced(s, k + 1)
<1> DEFINE t == Mapped(Step(T), s)
           S == {k \in Nat : Replaced(t, k) = Replaced(s, k + 1)}
<1>0. t \in Seq(T)
  BY StepType, MapType
<1> HIDE DEF t
<1>1. 0 \in S
  <2>1. Replaced(s, 0 + 1) = Mapped(Step(T), s) /\ Replaced(t, 0) = t
    <3>1. 0 \in Nat
      OBVIOUS
    <3> QED
      BY <1>0, <3>1, ReplacedRounds
  <2> QED
    BY <2>1 DEF t
<1>2. ASSUME NEW k \in Nat, k \in S PROVE k + 1 \in S
  <2>1. k + 1 \in Nat
    OBVIOUS
  <2>2. Replaced(t, k + 1) = Mapped(Step(T), Replaced(t, k))
    BY <1>0, ReplacedRounds
  <2>3. Replaced(s, (k + 1) + 1) = Mapped(Step(T), Replaced(s, k + 1))
    BY <2>1, ReplacedRounds
  <2> QED
    BY <1>2, <2>1, <2>2, <2>3
<1> HIDE DEF S
<1>3. \A k \in Nat : k \in S
  BY <1>1, <1>2, SetInduction
<1> QED
  BY <1>3 DEF S, t

(* So a macro becomes what its tokens become in a round less, and any      *)
(* other token stays what it is.                                           *)
LEMMA MacroRounds ==
    ASSUME NEW T, TableOK(T), NEW k \in Nat
    PROVE  /\ \A x \in ObjectMacros :
                 Replaced(<<x>>, k + 1) = Mapped(Rounds(T, k), macros[x])
           /\ \A x \in T \ ObjectMacros : Replaced(<<x>>, k) = <<x>>
<1>1. ASSUME NEW x \in ObjectMacros
      PROVE  Replaced(<<x>>, k + 1) = Mapped(Rounds(T, k), macros[x])
  <2>1. x \in T /\ macros[x] \in Seq(T)
    BY DEF TableOK
  <2>2. <<x>> \in Seq(T)
    BY <2>1
  <2>3. Mapped(Step(T), <<x>>) = macros[x]
    <3>1. Step(T)[x] = macros[x] /\ Step(T) \in [T -> Seq(T)]
      BY <2>1, StepType
    <3> QED
      BY <2>1, <3>1, MapOne
  <2>4. Replaced(macros[x], k) = Replaced(<<x>>, k + 1)
    BY <2>2, <2>3, FirstRound
  <2> QED
    BY <2>1, <2>4, ReplacedMaps
<1>2. ASSUME NEW x \in T \ ObjectMacros PROVE Replaced(<<x>>, k) = <<x>>
  <2> DEFINE S == {n \in Nat : Replaced(<<x>>, n) = <<x>>}
  <2>1. <<x>> \in Seq(T) /\ Mapped(Step(T), <<x>>) = <<x>>
    BY StepType, MapOne
  <2>2. 0 \in S
    BY <2>1, ReplacedRounds
  <2>3. ASSUME NEW n \in Nat, n \in S PROVE n + 1 \in S
    <3>1. Replaced(<<x>>, n) = <<x>>
      BY <2>3
    <3>2. Replaced(<<x>>, n + 1) = Mapped(Step(T), Replaced(<<x>>, n))
      BY <2>1, ReplacedRounds
    <3> QED
      BY <2>1, <3>1, <3>2
  <2> HIDE DEF S
  <2>4. k \in S
    BY <2>2, <2>3, SetInduction
  <2> QED
    BY <2>4 DEF S
<1> QED
  BY <1>1, <1>2

-----------------------------------------------------------------------------
(* The macros with nothing left to replace after k rounds.                 *)
Ended(k) == {x \in ObjectMacros : TokensIn(Replaced(<<x>>, k)) \cap ObjectMacros = {}}

(* A macro has ended after a round more than the last of its tokens.       *)
LEMMA EndedNext ==
    ASSUME NEW T, TableOK(T)
    PROVE  /\ Ended(0) = {}
           /\ \A k \in Nat : Ended(k + 1)
                = {x \in ObjectMacros : TokensIn(macros[x]) \cap ObjectMacros \subseteq Ended(k)}
<1>1. Ended(0) = {}
  <2>1. ASSUME NEW x \in ObjectMacros
        PROVE  TokensIn(Replaced(<<x>>, 0)) = {x}
    <3>1. x \in T
      BY DEF TableOK
    <3>2. <<x>> \in Seq(T)
      BY <3>1
    <3>3. Replaced(<<x>>, 0) = <<x>>
      <4>1. 0 \in Nat
        OBVIOUS
      <4> QED
        BY <3>2, <4>1, ReplacedRounds
    <3> QED
      BY <3>3, TokenFacts
  <2> QED
    BY <2>1 DEF Ended
<1>2. ASSUME NEW k \in Nat, NEW x \in ObjectMacros
      PROVE  TokensIn(Replaced(<<x>>, k + 1)) \cap ObjectMacros = {}
               <=> TokensIn(macros[x]) \cap ObjectMacros \subseteq Ended(k)
  <2>1. macros[x] \in Seq(T)
    BY DEF TableOK
  <2>2. TokensIn(macros[x]) \subseteq T
    BY <2>1, TokenFacts
  <2>3. TokensIn(Replaced(<<x>>, k + 1))
          = UNION {TokensIn(Rounds(T, k)[y]) : y \in TokensIn(macros[x])}
    BY <2>1, MacroRounds, RoundsType, MapTokens
  <2>4. ASSUME NEW y \in TokensIn(macros[x])
        PROVE  TokensIn(Rounds(T, k)[y]) \cap ObjectMacros = {}
                  <=> (y \in ObjectMacros => y \in Ended(k))
    <3>1. Rounds(T, k)[y] = Replaced(<<y>>, k) /\ y \in T
      BY <2>2, RoundsType
    <3>2. CASE y \in ObjectMacros
      BY <3>1, <3>2 DEF Ended
    <3>3. CASE y \notin ObjectMacros
      <4>1. TokensIn(Rounds(T, k)[y]) = {y}
        <5>1. Replaced(<<y>>, k) = <<y>>
          BY <3>1, <3>3, MacroRounds
        <5>2. TokensIn(<<y>>) = {y}
          BY TokenFacts
        <5> QED
          BY <3>1, <5>1, <5>2
      <4> QED
        BY <3>3, <4>1
    <3> QED
      BY <3>2, <3>3
  <2>5. TokensIn(Replaced(<<x>>, k + 1)) \cap ObjectMacros = {}
          <=> \A y \in TokensIn(macros[x]) : TokensIn(Rounds(T, k)[y]) \cap ObjectMacros = {}
    BY <2>3
  <2> QED
    BY <2>4, <2>5
<1>3. ASSUME NEW k \in Nat
      PROVE  Ended(k + 1) = {x \in ObjectMacros :
                               TokensIn(macros[x]) \cap ObjectMacros \subseteq Ended(k)}
  BY <1>2 DEF Ended
<1> QED
  BY <1>1, <1>3

(* A round more ends no fewer macros.                                      *)
LEMMA EndedGrows ==
    ASSUME NEW T, TableOK(T)
    PROVE  \A k \in Nat : Ended(k) \subseteq Ended(k + 1)
<1> DEFINE S == {k \in Nat : Ended(k) \subseteq Ended(k + 1)}
<1>1. 0 \in S
  BY EndedNext
<1>2. ASSUME NEW k \in Nat, k \in S PROVE k + 1 \in S
  <2>1. k + 1 \in Nat /\ Ended(k) \subseteq Ended(k + 1)
    BY <1>2
  <2>2. /\ Ended(k + 1) = {x \in ObjectMacros :
                             TokensIn(macros[x]) \cap ObjectMacros \subseteq Ended(k)}
        /\ Ended((k + 1) + 1) = {x \in ObjectMacros :
                             TokensIn(macros[x]) \cap ObjectMacros \subseteq Ended(k + 1)}
    BY <2>1, EndedNext
  <2> QED
    BY <2>1, <2>2
<1> HIDE DEF S
<1>3. \A k \in Nat : k \in S
  BY <1>1, <1>2, SetInduction
<1> QED
  BY <1>3 DEF S

(* There are as many rounds as names before no round ends another macro.   *)
LEMMA EndedStops ==
    ASSUME NEW T, TableOK(T), NEW n, n = Cardinality(MacroNames)
    PROVE  n \in Nat /\ Ended(n + 1) = Ended(n)
<1> DEFINE S == {k \in Nat : \/ Cardinality(Ended(k)) >= k
                             \/ Ended(k + 1) = Ended(k)}
<1>0. IsFiniteSet(MacroNames) /\ n \in Nat
  BY FS_CardinalityType DEF TableOK
<1>1. ASSUME NEW k \in Nat
      PROVE  /\ Ended(k) \subseteq MacroNames /\ IsFiniteSet(Ended(k))
             /\ Cardinality(Ended(k)) \in Nat /\ Cardinality(Ended(k)) <= n
  <2>1. Ended(k) \subseteq MacroNames
    BY DEF Ended, TableOK
  <2> QED
    BY <1>0, <2>1, FS_Subset, FS_CardinalityType
<1>2. 0 \in S
  BY <1>1
<1>3. ASSUME NEW k \in Nat, k \in S PROVE k + 1 \in S
  <2>1. k + 1 \in Nat
    OBVIOUS
  <2>2. CASE Ended(k + 1) = Ended(k)
    <3>1. Ended((k + 1) + 1) = Ended(k + 1)
      BY <2>1, <2>2, EndedNext
    <3> QED
      BY <2>1, <3>1
  <2>3. CASE Ended(k + 1) # Ended(k) /\ Cardinality(Ended(k)) >= k
    <3>1. Ended(k) \subseteq Ended(k + 1) /\ IsFiniteSet(Ended(k + 1))
      BY <1>1, <2>1, EndedGrows
    <3>2. Cardinality(Ended(k)) # Cardinality(Ended(k + 1))
          /\ Cardinality(Ended(k)) <= Cardinality(Ended(k + 1))
      BY <2>3, <3>1, FS_Subset
    <3>3. Cardinality(Ended(k)) \in Nat /\ Cardinality(Ended(k + 1)) \in Nat
      BY <1>1, <2>1
    <3>4. Cardinality(Ended(k + 1)) >= k + 1
      BY <2>3, <3>2, <3>3
    <3> QED
      BY <2>1, <3>4
  <2> QED
    BY <1>3, <2>2, <2>3
<1> HIDE DEF S
<1>4. n \in S
  BY <1>0, <1>2, <1>3, SetInduction
<1>5. CASE Cardinality(Ended(n)) >= n
  <2>1. Ended(n) \subseteq MacroNames /\ Cardinality(Ended(n)) = n
    BY <1>0, <1>1, <1>5
  <2>2. Ended(n) = MacroNames
    BY <1>0, <2>1, FS_Subset
  <2>3. n + 1 \in Nat
    BY <1>0
  <2>4. Ended(n + 1) \subseteq MacroNames /\ Ended(n) \subseteq Ended(n + 1)
    BY <1>0, <1>1, <2>3, EndedGrows
  <2> QED
    BY <1>0, <2>2, <2>4
<1> QED
  BY <1>0, <1>4, <1>5 DEF S

-----------------------------------------------------------------------------
(* What a call of _expand_macro returns, by what the calls it makes return.*)
Parts(expand, x, stack) ==
    [i \in DOMAIN macros[x] |->
        IF macros[x][i] \in ObjectMacros THEN expand[<<macros[x][i], stack \cup {x}>>]
        ELSE <<macros[x][i]>>]

Call(expand, x, stack) ==
    IF x \in stack \/ x \notin ObjectMacros THEN Raises
    ELSE IF \E i \in DOMAIN macros[x] : Parts(expand, x, stack)[i] = Raises THEN Raises
    ELSE FlattenSeq(Parts(expand, x, stack))

Expands(expand, calls) == \A c \in calls : expand[c] = Call(expand, c[1], c[2])

Calls == MacroNames \X SUBSET MacroNames

(* A call whose chain of macros ends returns the tokens it ends with.      *)
LEMMA ChainsThatEnd ==
    ASSUME NEW T, TableOK(T), NEW expand, Expands(expand, Calls)
    PROVE  \A k \in Nat : \A x \in Ended(k), stack \in SUBSET MacroNames :
              stack \cap Ended(k) = {} => expand[<<x, stack>>] = Replaced(<<x>>, k)
<1> DEFINE Good(k) == \A x \in Ended(k), stack \in SUBSET MacroNames :
              stack \cap Ended(k) = {} => expand[<<x, stack>>] = Replaced(<<x>>, k)
           S == {k \in Nat : Good(k)}
<1>1. 0 \in S
  BY EndedNext
<1>2. ASSUME NEW k \in Nat, k \in S PROVE k + 1 \in S
  <2>0. Good(k)
    BY <1>2
  <2> SUFFICES ASSUME NEW x \in Ended(k + 1), NEW stack \in SUBSET MacroNames,
                      stack \cap Ended(k + 1) = {}
               PROVE  expand[<<x, stack>>] = Replaced(<<x>>, k + 1)
    OBVIOUS
  <2>1. /\ Ended(k) \subseteq Ended(k + 1)
        /\ Ended(k + 1) = {y \in ObjectMacros :
                             TokensIn(macros[y]) \cap ObjectMacros \subseteq Ended(k)}
    BY EndedGrows, EndedNext
  <2>2. /\ x \in ObjectMacros /\ x \in MacroNames /\ x \in T /\ x \notin stack
        /\ TokensIn(macros[x]) \cap ObjectMacros \subseteq Ended(k)
        /\ macros[x] \in Seq(T) /\ <<x>> \in Seq(T)
    <3>1. x \in ObjectMacros /\ TokensIn(macros[x]) \cap ObjectMacros \subseteq Ended(k)
      BY <2>1
    <3>2. x \in MacroNames /\ x \in T /\ macros[x] \in Seq(T)
      BY <3>1 DEF TableOK
    <3>3. <<x>> \in Seq(T)
      BY <3>2
    <3> QED
      BY <3>1, <3>2, <3>3
  <2> HIDE DEF Good
  <2>3. CASE x \in Ended(k)
    <3>1. expand[<<x, stack>>] = Replaced(<<x>>, k)
      BY <2>0, <2>1, <2>3 DEF Good
    <3>2. Replaced(<<x>>, k + 1) = Mapped(Step(T), Replaced(<<x>>, k))
          /\ Replaced(<<x>>, k) \in Seq(T)
      BY <2>2, RoundOfToken
    <3>3. \A y \in TokensIn(Replaced(<<x>>, k)) : y \in T /\ y \notin ObjectMacros
      BY <2>3, <3>2, TokenFacts DEF Ended
    <3>4. \A y \in TokensIn(Replaced(<<x>>, k)) : Step(T)[y] = <<y>>
      BY <3>3, StepType
    <3>5. Mapped(Step(T), Replaced(<<x>>, k)) = Replaced(<<x>>, k)
      BY <3>2, <3>4, StepType, MapSame
    <3> QED
      BY <3>1, <3>2, <3>5
  <2>4. CASE x \notin Ended(k)
    <3>1. (stack \cup {x}) \in SUBSET MacroNames /\ (stack \cup {x}) \cap Ended(k) = {}
      BY <2>1, <2>2, <2>4
    <3>2. ASSUME NEW i \in DOMAIN macros[x]
          PROVE  /\ Parts(expand, x, stack)[i] = Rounds(T, k)[macros[x][i]]
                 /\ Parts(expand, x, stack)[i] \in Seq(T)
      <4>1. PICK y \in T : y = macros[x][i] /\ y \in TokensIn(macros[x])
        BY <2>2 DEF TokensIn
      <4>2. Rounds(T, k)[y] = Replaced(<<y>>, k) /\ Rounds(T, k)[y] \in Seq(T)
        BY RoundsType
      <4>3. CASE y \in ObjectMacros
        <5>1. expand[<<y, stack \cup {x}>>] = Replaced(<<y>>, k)
          BY <2>0, <2>2, <3>1, <4>1, <4>3 DEF Good
        <5> QED
          BY <4>1, <4>2, <4>3, <5>1 DEF Parts
      <4>4. CASE y \notin ObjectMacros
        <5>1. Replaced(<<y>>, k) = <<y>>
          BY <4>4, MacroRounds
        <5> QED
          BY <4>1, <4>2, <4>4, <5>1 DEF Parts
      <4> QED
        BY <4>3, <4>4
    <3>3. ~ \E i \in DOMAIN macros[x] : Parts(expand, x, stack)[i] = Raises
      BY <3>2 DEF TableOK
    <3>4. FlattenSeq(Parts(expand, x, stack)) = Mapped(Rounds(T, k), macros[x])
      <4>1. Parts(expand, x, stack) = [i \in DOMAIN macros[x] |-> Rounds(T, k)[macros[x][i]]]
        BY <3>2 DEF Parts
      <4> QED
        BY <4>1 DEF Mapped
    <3>5. expand[<<x, stack>>] = Call(expand, x, stack)
      <4>1. <<x, stack>> \in Calls
        BY <2>2 DEF Calls
      <4> QED
        BY <4>1 DEF Expands
    <3>6. expand[<<x, stack>>] = Mapped(Rounds(T, k), macros[x])
      BY <2>2, <3>3, <3>4, <3>5 DEF Call
    <3> QED
      BY <2>2, <3>6, MacroRounds
  <2> QED
    BY <2>3, <2>4
<1> HIDE DEF S
<1>3. \A k \in Nat : k \in S
  BY <1>1, <1>2, SetInduction
<1> QED
  BY <1>3 DEF S

(* A call whose chain does not end raises: it meets itself on the stack.   *)
LEMMA ChainsThatDoNot ==
    ASSUME NEW T, TableOK(T), NEW expand, Expands(expand, Calls),
           NEW n, n = Cardinality(MacroNames)
    PROVE  \A x \in MacroNames \ Ended(n), stack \in SUBSET MacroNames :
              expand[<<x, stack>>] = Raises
<1> DEFINE Bad(k) == \A x \in MacroNames \ Ended(n), stack \in SUBSET MacroNames :
              Cardinality(MacroNames \ stack) = k => expand[<<x, stack>>] = Raises
           S == {k \in Nat : Bad(k)}
<1>0. IsFiniteSet(MacroNames) /\ n \in Nat /\ Ended(n + 1) = Ended(n)
  BY EndedStops DEF TableOK
<1>1. ASSUME NEW x \in MacroNames \ Ended(n), NEW stack \in SUBSET MacroNames,
             x \in stack \/ x \notin ObjectMacros
      PROVE  expand[<<x, stack>>] = Raises
  <2>1. <<x, stack>> \in Calls
    BY DEF Calls
  <2>2. expand[<<x, stack>>] = Call(expand, x, stack)
    BY <2>1 DEF Expands
  <2> QED
    BY <1>1, <2>2 DEF Call
<1>2. 0 \in S
  <2>1. ASSUME NEW x \in MacroNames \ Ended(n), NEW stack \in SUBSET MacroNames,
               Cardinality(MacroNames \ stack) = 0
        PROVE  expand[<<x, stack>>] = Raises
    <3>1. IsFiniteSet(MacroNames \ stack)
      BY <1>0, FS_Difference
    <3>2. MacroNames \ stack = {}
      BY <2>1, <3>1, FS_EmptySet
    <3> QED
      BY <1>1, <3>2
  <2> QED
    BY <2>1
<1>3. ASSUME NEW k \in Nat, k \in S PROVE k + 1 \in S
  <2>0. Bad(k)
    BY <1>3
  <2> SUFFICES ASSUME NEW x \in MacroNames \ Ended(n), NEW stack \in SUBSET MacroNames,
                      Cardinality(MacroNames \ stack) = k + 1
               PROVE  expand[<<x, stack>>] = Raises
    OBVIOUS
  <2> HIDE DEF Bad
  <2>1. CASE x \in stack \/ x \notin ObjectMacros
    BY <1>1, <2>1
  <2>2. CASE x \notin stack /\ x \in ObjectMacros
    <3>1. macros[x] \in Seq(T)
      BY <2>2 DEF TableOK
    <3>2. PICK y \in TokensIn(macros[x]) \cap ObjectMacros : y \notin Ended(n)
      <4>1. Ended(n) = {z \in ObjectMacros :
                          TokensIn(macros[z]) \cap ObjectMacros \subseteq Ended(n)}
        BY <1>0, EndedNext
      <4> QED
        BY <2>2, <4>1
    <3>3. PICK i \in DOMAIN macros[x] : macros[x][i] = y
      BY <3>1, <3>2 DEF TokensIn
    <3>4. y \in MacroNames \ Ended(n)
      BY <3>2 DEF TableOK
    <3>5. Cardinality(MacroNames \ (stack \cup {x})) = k
      <4>1. MacroNames \ (stack \cup {x}) = (MacroNames \ stack) \ {x}
        OBVIOUS
      <4>2. x \in MacroNames \ stack /\ IsFiniteSet(MacroNames \ stack)
        BY <1>0, <2>2, FS_Difference
      <4>3. Cardinality((MacroNames \ stack) \ {x}) = Cardinality(MacroNames \ stack) - 1
        BY <4>2, FS_RemoveElement
      <4>4. (k + 1) - 1 = k
        OBVIOUS
      <4> QED
        BY <4>1, <4>3, <4>4
    <3>6. (stack \cup {x}) \in SUBSET MacroNames
      OBVIOUS
    <3>7. expand[<<y, stack \cup {x}>>] = Raises
      BY <2>0, <3>4, <3>5, <3>6 DEF Bad
    <3>8. Parts(expand, x, stack)[i] = Raises
      BY <3>2, <3>3, <3>7 DEF Parts
    <3>9. expand[<<x, stack>>] = Call(expand, x, stack)
      <4>1. <<x, stack>> \in Calls
        BY DEF Calls
      <4> QED
        BY <4>1 DEF Expands
    <3> QED
      BY <3>3, <3>8, <3>9 DEF Call
  <2> QED
    BY <2>1, <2>2
<1> HIDE DEF S
<1>4. \A k \in Nat : k \in S
  BY <1>2, <1>3, SetInduction
<1>5. ASSUME NEW x \in MacroNames \ Ended(n), NEW stack \in SUBSET MacroNames
      PROVE  expand[<<x, stack>>] = Raises
  <2>1. Cardinality(MacroNames \ stack) \in Nat
    BY <1>0, FS_Difference, FS_CardinalityType
  <2>2. Bad(Cardinality(MacroNames \ stack))
    BY <1>4, <2>1 DEF S
  <2> QED
    BY <2>2
<1> QED
  BY <1>5

(* The recursion of _expand_macro is well founded: there is a function of  *)
(* the calls that it describes.                                            *)
LEMMA ExpansionExists ==
    ASSUME NEW T, TableOK(T)
    PROVE  \E expand : /\ expand = [c \in Calls |-> Call(expand, c[1], c[2])]
<1> DEFINE Left(c) == Cardinality(MacroNames \ c[2])
           Upto(k) == {c \in Calls : Left(c) <= k}
           S == {k \in Nat : \E f : Expands(f, Upto(k))}
<1>0. IsFiniteSet(MacroNames)
  BY DEF TableOK
<1>1. ASSUME NEW c \in Calls
      PROVE  /\ c[1] \in MacroNames /\ c[2] \in SUBSET MacroNames
             /\ Left(c) \in Nat /\ Left(c) <= Cardinality(MacroNames)
             /\ c[1] \notin c[2] =>
                   \A y \in MacroNames :
                      /\ <<y, c[2] \cup {c[1]}>> \in Calls
                      /\ Left(<<y, c[2] \cup {c[1]}>>) = Left(c) - 1
  <2>1. c[1] \in MacroNames /\ c[2] \in SUBSET MacroNames
    BY DEF Calls
  <2>2. IsFiniteSet(MacroNames \ c[2]) /\ MacroNames \ c[2] \subseteq MacroNames
    BY <1>0, FS_Difference
  <2>3. Left(c) \in Nat /\ Left(c) <= Cardinality(MacroNames)
    BY <1>0, <2>2, FS_Subset, FS_CardinalityType
  <2>4. ASSUME c[1] \notin c[2], NEW y \in MacroNames
        PROVE  /\ <<y, c[2] \cup {c[1]}>> \in Calls
               /\ Left(<<y, c[2] \cup {c[1]}>>) = Left(c) - 1
    <3>1. <<y, c[2] \cup {c[1]}>> \in Calls
      BY <2>1 DEF Calls
    <3>2. MacroNames \ (c[2] \cup {c[1]}) = (MacroNames \ c[2]) \ {c[1]}
      OBVIOUS
    <3>3. c[1] \in MacroNames \ c[2]
      BY <2>1, <2>4
    <3>4. Cardinality((MacroNames \ c[2]) \ {c[1]}) = Cardinality(MacroNames \ c[2]) - 1
      BY <2>2, <3>3, FS_RemoveElement
    <3> QED
      BY <3>1, <3>2, <3>4
  <2> QED
    BY <2>1, <2>3, <2>4
<1> HIDE DEF Left
(* What a call returns depends on the calls it makes only.                 *)
<1>2. ASSUME NEW f, NEW g, NEW c \in Calls,
             c[1] \notin c[2] => \A y \in MacroNames :
                 f[<<y, c[2] \cup {c[1]}>>] = g[<<y, c[2] \cup {c[1]}>>]
      PROVE  Call(f, c[1], c[2]) = Call(g, c[1], c[2])
  <2>1. CASE c[1] \in c[2] \/ c[1] \notin ObjectMacros
    BY <2>1 DEF Call
  <2>2. CASE c[1] \notin c[2] /\ c[1] \in ObjectMacros
    <3>1. \A y \in ObjectMacros : f[<<y, c[2] \cup {c[1]}>>] = g[<<y, c[2] \cup {c[1]}>>]
      BY <1>2, <2>2 DEF TableOK
    <3>2. Parts(f, c[1], c[2]) = Parts(g, c[1], c[2])
      BY <3>1 DEF Parts
    <3> QED
      BY <3>2 DEF Call
  <2> QED
    BY <2>1, <2>2
<1>3. ASSUME NEW k \in Nat, NEW f, Expands(f, Upto(k))
      PROVE  \E g : Expands(g, Upto(k + 1))
  <2> DEFINE g == [c \in Calls |-> Call(f, c[1], c[2])]
  <2>1. ASSUME NEW c \in Upto(k) PROVE g[c] = f[c]
    BY <1>3, <2>1 DEF Expands
  <2>2. \A c \in Calls : g[c] = Call(f, c[1], c[2])
    OBVIOUS
  <2> HIDE DEF g
  <2>3. ASSUME NEW c \in Upto(k + 1) PROVE g[c] = Call(g, c[1], c[2])
    <3>1. c \in Calls /\ Left(c) \in Nat /\ Left(c) <= k + 1
      BY <1>1
    <3>2. ASSUME c[1] \notin c[2], NEW y \in MacroNames
          PROVE  f[<<y, c[2] \cup {c[1]}>>] = g[<<y, c[2] \cup {c[1]}>>]
      <4>1. /\ <<y, c[2] \cup {c[1]}>> \in Calls
            /\ Left(<<y, c[2] \cup {c[1]}>>) = Left(c) - 1
        BY <1>1, <3>1, <3>2
      <4>2. Left(c) - 1 <= k
        BY <3>1
      <4>3. <<y, c[2] \cup {c[1]}>> \in Upto(k)
        BY <4>1, <4>2
      <4> QED
        BY <2>1, <4>3
    <3>3. Call(f, c[1], c[2]) = Call(g, c[1], c[2])
      BY <1>2, <3>1, <3>2
    <3> QED
      BY <2>2, <3>1, <3>3
  <2> QED
    BY <2>3 DEF Expands
<1>4. 0 \in S
  <2> DEFINE f == [c \in Calls |-> Raises]
  <2>1. ASSUME NEW c \in Upto(0) PROVE f[c] = Call(f, c[1], c[2])
    <3>1. c \in Calls /\ Left(c) = 0
      BY <1>1
    <3>2. c[1] \in MacroNames /\ IsFiniteSet(MacroNames \ c[2])
      BY <1>0, <1>1, <3>1, FS_Difference
    <3>3. c[1] \in c[2]
      BY <3>1, <3>2, FS_EmptySet DEF Left
    <3> QED
      BY <3>1, <3>3 DEF Call
  <2>2. Expands(f, Upto(0))
    BY <2>1 DEF Expands
  <2> QED
    BY <2>2
<1>5. ASSUME NEW k \in Nat, k \in S PROVE k + 1 \in S
  <2>1. PICK f : Expands(f, Upto(k))
    BY <1>5
  <2>2. \E g : Expands(g, Upto(k + 1))
    BY <1>3, <2>1
  <2> HIDE DEF Upto
  <2> QED
    BY <2>2
<1>6. \A k \in Nat : k \in S
  <2> HIDE DEF S
  <2> QED
    BY <1>4, <1>5, SetInduction
<1>7. PICK f : Expands(f, Upto(Cardinality(MacroNames)))
  <2>1. Cardinality(MacroNames) \in Nat
    BY <1>0, FS_CardinalityType
  <2> QED
    BY <1>6, <2>1
<1>8. \A c \in Calls : f[c] = Call(f, c[1], c[2])
  BY <1>1, <1>7 DEF Expands
<1> DEFINE g == [c \in Calls |-> f[c]]
<1>9. ASSUME NEW c \in Calls PROVE f[c] = Call(g, c[1], c[2])
  <2>1. ASSUME c[1] \notin c[2], NEW y \in MacroNames
        PROVE  f[<<y, c[2] \cup {c[1]}>>] = g[<<y, c[2] \cup {c[1]}>>]
    BY <1>1, <2>1
  <2> HIDE DEF g
  <2>2. Call(f, c[1], c[2]) = Call(g, c[1], c[2])
    BY <1>2, <2>1
  <2> QED
    BY <1>8, <2>2
<1>10. g = [c \in Calls |-> Call(g, c[1], c[2])]
  <2> DEFINE h == [c \in Calls |-> Call(g, c[1], c[2])]
  <2>1. \A c \in Calls : g[c] = h[c]
    <3> HIDE DEF g
    <3>1. \A c \in Calls : h[c] = Call(g, c[1], c[2])
      OBVIOUS
    <3> QED
      BY <1>9, <3>1 DEF g
  <2> QED
    BY <1>9
<1> QED
  BY <1>10

(* _expand_macro gives a macro the tokens that are left when as many       *)
(* rounds of replacement are done as there are names, and raises when      *)
(* there is something to replace even then.                                *)
THEOREM ExpandMacroIsReplaced ==
    ASSUME NEW T, TableOK(T), NEW m \in MacroNames
    PROVE  LET all == Replaced(<<m>>, Cardinality(MacroNames))
               finite == /\ m \in ObjectMacros
                         /\ \A i \in DOMAIN all : all[i] \notin ObjectMacros
           IN  ExpandMacro(m) = IF finite THEN all ELSE Raises
<1> DEFINE n == Cardinality(MacroNames)
           all == Replaced(<<m>>, n)
           finite == /\ m \in ObjectMacros
                     /\ \A i \in DOMAIN all : all[i] \notin ObjectMacros
           Sound(f) == f = [c \in Calls |-> Call(f, c[1], c[2])]
           expand == CHOOSE f : Sound(f)
<1>1. \E f : Sound(f)
  BY ExpansionExists
<1>2. ExpandMacro(m) = expand[<<m, {}>>]
  BY DEF ExpandMacro, Calls, Call, Parts
<1>3. Sound(expand)
  BY <1>1
<1> HIDE DEF expand
<1>4. Expands(expand, Calls)
  BY <1>3 DEF Expands
<1> HIDE DEF Sound
<1>5. n \in Nat /\ m \in T /\ all \in Seq(T)
  <2>1. n \in Nat /\ m \in T
    BY EndedStops DEF TableOK
  <2>2. <<m>> \in Seq(T)
    BY <2>1
  <2> QED
    BY <2>1, <2>2, ReplacedRounds
<1>6. finite <=> m \in Ended(n)
  <2>1. TokensIn(all) \cap ObjectMacros = {}
          <=> \A i \in DOMAIN all : all[i] \notin ObjectMacros
    <3> HIDE DEF all
    <3> QED
      BY <1>5 DEF TokensIn
  <2> QED
    BY <2>1 DEF Ended
<1>7. CASE m \in Ended(n)
  <2>1. {} \in SUBSET MacroNames /\ {} \cap Ended(n) = {}
    OBVIOUS
  <2>2. expand[<<m, {}>>] = Replaced(<<m>>, n)
    BY <1>4, <1>5, <1>7, <2>1, ChainsThatEnd
  <2> QED
    BY <1>2, <1>6, <1>7, <2>2
<1>8. CASE m \notin Ended(n)
  <2>1. {} \in SUBSET MacroNames
    OBVIOUS
  <2>2. expand[<<m, {}>>] = Raises
    BY <1>4, <1>8, <2>1, ChainsThatDoNot
  <2> QED
    BY <1>2, <1>6, <1>8, <2>2
<1> QED
  BY <1>7, <1>8
=============================================================================
