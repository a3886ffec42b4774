----------------------------- MODULE PeekProofs -----------------------------
(***************************************************************************)
(* The host that the test proxy finds in the first bytes of a connection   *)
(* is the one the client asked for, for every hello in order, of any       *)
(* lengths, and every request of any lines, however it comes in; and for   *)
(* any record at all nothing is read from behind a slice.                  *)
(*                                                                         *)
(* Both parsers are recursions over their input.  What is proved about     *)
(* them rests on the least element of a set of numbers, from which follow  *)
(* induction over a set (Induction) and the first place where something is *)
(* found (MinOf); a sequence of sequences is a sequence of places at which *)
(* each of them begins (Flat).                                             *)
(***************************************************************************)
EXTENDS Peek, WellFoundedInduction, TLAPS

-----------------------------------------------------------------------------
(* Numbers *)

(* A set of numbers has a least element. *)
LEMMA Smallest == ASSUME NEW T, T \subseteq Nat, T # {}
   PROVE \E x \in T : \A y \in T : x <= y
<1> DEFINE R == {p \in Nat \X Nat : p[1] < p[2]}
<1>1. IsWellFoundedOn(R, Nat) BY NatLessThanWellFounded DEF OpToRel
<1> HIDE DEF R
<1>2. PICK x \in T : \A y \in T : ~ (<<y, x>> \in R) BY <1>1, WFMin
<1>3. \A y \in T : ~ (y < x) BY <1>2 DEF R
<1>q. QED BY <1>3

(* A set with 0 and, with every number, the next one has all of them. *)
LEMMA Induction == ASSUME NEW T, 0 \in T, \A k \in Nat : k \in T => k + 1 \in T
   PROVE Nat \subseteq T
<1> DEFINE U == Nat \ T
<1>1. SUFFICES ASSUME U # {} PROVE FALSE OBVIOUS
<1>2. PICK x \in U : \A y \in U : x <= y BY <1>1, Smallest
<1>3. x # 0 /\ x \in Nat OBVIOUS
<1>4. x - 1 \in Nat /\ x - 1 \notin U BY <1>2, <1>3
<1>q. QED BY <1>4, <1>3

(* The least element is the one that is below all. *)
LEMMA MinIs == ASSUME NEW T, T \subseteq Int, NEW x \in T, \A y \in T : x <= y PROVE Min(T) = x
<1>1. \A y \in T : Min(T) <= y BY DEF Min
<1>2. Min(T) \in T BY DEF Min
<1>3. Min(T) <= x /\ x <= Min(T) /\ x \in Int /\ Min(T) \in Int BY <1>1, <1>2
<1>q. QED BY <1>3

(* A set of numbers has its minimum. *)
LEMMA MinOf ==
  ASSUME NEW T, T \subseteq Nat, T # {} PROVE Min(T) \in T /\ \A y \in T : Min(T) <= y
<1>1. PICK x \in T : \A y \in T : x <= y BY Smallest
<1>2. T \subseteq Int OBVIOUS
<1>3. Min(T) = x BY <1>1, <1>2, MinIs
<1>q. QED BY <1>1, <1>3

(* A bounded set of numbers has its maximum. *)
LEMMA MaxOf ==
  ASSUME NEW T, NEW m \in Nat, T \subseteq 0..m, T # {}
  PROVE Max(T) \in T /\ \A y \in T : Max(T) >= y
<1> DEFINE U == {m - y : y \in T}
<1>1. U \subseteq Nat /\ U # {} OBVIOUS
<1>2. PICK u \in U : \A v \in U : u <= v BY <1>1, Smallest
<1>3. PICK x \in T : u = m - x OBVIOUS
<1>4. \A y \in T : m - x <= m - y BY <1>2, <1>3
<1>5. \A y \in T : x >= y BY <1>4
<1>6. \E z \in T : \A y \in T : z >= y BY <1>5
<1>q. QED BY <1>6 DEF Max

-----------------------------------------------------------------------------
(* Sequences, and sequences of sequences *)

(* Concatenation, as an operator the provers do not look into. *)
Cat(a, b) == a \o b

(* What a concatenation is made of. *)
LEMMA CatType == ASSUME NEW S, NEW a \in Seq(S), NEW b \in Seq(S)
  PROVE /\ Cat(a, b) \in Seq(S) /\ Len(Cat(a, b)) = Len(a) + Len(b)
        /\ Len(a) \in Nat /\ Len(b) \in Nat
        /\ \A i \in 1..Len(a) : Cat(a, b)[i] = a[i]
        /\ \A i \in 1..Len(b) : Cat(a, b)[Len(a) + i] = b[i]
BY DEF Cat

(* The empty sequence adds nothing. *)
LEMMA CatEmpty == ASSUME NEW S, NEW a \in Seq(S) PROVE Cat(<<>>, a) = a /\ Cat(a, <<>>) = a
BY DEF Cat

(* c is a followed by b. *)
Joined(c, a, b) ==
    /\ Len(c) = Len(a) + Len(b)
    /\ \A i \in 1..Len(a) : c[i] = a[i]
    /\ \A i \in 1..Len(b) : c[Len(a) + i] = b[i]

(* A concatenation is the one followed by the other. *)
LEMMA CatJoined == ASSUME NEW S, NEW a \in Seq(S), NEW b \in Seq(S)
  PROVE Cat(a, b) \in Seq(S) /\ Joined(Cat(a, b), a, b)
<1>1. Cat(a, b) \in Seq(S) /\ Len(Cat(a, b)) = Len(a) + Len(b) BY CatType
<1>2. \A i \in 1..Len(a) : Cat(a, b)[i] = a[i] BY CatType
<1>3. \A i \in 1..Len(b) : Cat(a, b)[Len(a) + i] = b[i] BY CatType
<1>q. QED BY <1>1, <1>2, <1>3, Zenon DEF Joined

(* The beginning of a sequence. *)
LEMMA FrontType == ASSUME NEW S, NEW s \in Seq(S), NEW k \in 0..Len(s)
  PROVE /\ SubSeq(s, 1, k) \in Seq(S) /\ Len(SubSeq(s, 1, k)) = k
        /\ \A i \in 1..k : SubSeq(s, 1, k)[i] = s[i]
OBVIOUS

(* The beginning up to the end is all. *)
LEMMA FrontAll == ASSUME NEW S, NEW s \in Seq(S) PROVE SubSeq(s, 1, Len(s)) = s
OBVIOUS

(* Any piece of a sequence. *)
LEMMA SubType ==
  ASSUME NEW S, NEW s \in Seq(S), NEW a \in 1..(Len(s) + 1), NEW b \in (a - 1)..Len(s)
  PROVE /\ SubSeq(s, a, b) \in Seq(S) /\ Len(SubSeq(s, a, b)) = b - a + 1
        /\ \A i \in 1..(b - a + 1) : SubSeq(s, a, b)[i] = s[a + i - 1]
<1>1. Len(s) \in Nat OBVIOUS
<1>q. QED BY <1>1

(* A sequence is a function. *)
LEMMA SeqIsFcn == ASSUME NEW S, NEW s \in Seq(S) PROVE s = [i \in 1..Len(s) |-> s[i]]
OBVIOUS

(* A prefix, place by place. *)
LEMMA PrefixIs == ASSUME NEW S, NEW a \in Seq(S), NEW b \in Seq(S)
  PROVE IsPrefix(a, b) <=> Len(a) <= Len(b) /\ \A i \in 1..Len(a) : a[i] = b[i]
<1>1. Len(a) \in Nat /\ Len(b) \in Nat OBVIOUS
<1>2. SubSeq(a, 1, Len(a)) = a OBVIOUS
<1>3. ASSUME Len(a) <= Len(b) PROVE a = SubSeq(b, 1, Len(a)) <=> \A i \in 1..Len(a) : a[i] = b[i]
  <2> DEFINE c == SubSeq(b, 1, Len(a))
  <2>1. c \in Seq(S) /\ Len(c) = Len(a) /\ \A i \in 1..Len(a) : c[i] = b[i]
    BY <1>1, <1>3, FrontType
  <2> HIDE DEF c
  <2>2. a = c <=> \A i \in 1..Len(a) : a[i] = c[i] BY <2>1
  <2>q. QED BY <2>1, <2>2 DEF c
<1>q. QED BY <1>2, <1>3 DEF IsPrefix

(* f[i] is the concatenation of the first i sequences of s. *)
IsParts(f, s, m) ==
    /\ f[0] = <<>>
    /\ \A i \in 1..m : f[i] = Cat(f[i - 1], s[i])

(* There is such an f, by induction over i. *)
LEMMA PartsExist == ASSUME NEW S, NEW s \in Seq(Seq(S))
  PROVE \E f \in [0..Len(s) -> Seq(S)] : IsParts(f, s, Len(s))
<1> DEFINE P(k) == k <= Len(s) => \E f \in [0..k -> Seq(S)] : IsParts(f, s, k)
           T == {k \in Nat : P(k)}
<1>1. P(0)
  <2>1. [i \in 0..0 |-> <<>>] \in [0..0 -> Seq(S)] OBVIOUS
  <2>2. IsParts([i \in 0..0 |-> <<>>], s, 0) BY DEF IsParts
  <2>q. QED BY <2>1, <2>2
<1>2. ASSUME NEW k \in Nat, P(k) PROVE P(k + 1)
  <2>1. SUFFICES ASSUME k + 1 <= Len(s) PROVE \E f \in [0..(k+1) -> Seq(S)] : IsParts(f, s, k + 1)
    OBVIOUS
  <2>2. PICK f \in [0..k -> Seq(S)] : IsParts(f, s, k) BY <1>2, <2>1
  <2> DEFINE g == [i \in 0..(k+1) |-> IF i = k + 1 THEN Cat(f[k], s[k + 1]) ELSE f[i]]
  <2>3. f[k] \in Seq(S) /\ s[k+1] \in Seq(S) BY <2>1
  <2>4. Cat(f[k], s[k + 1]) \in Seq(S) BY <2>3, CatType
  <2>5. g \in [0..(k+1) -> Seq(S)] BY <2>4
  <2>6. g[0] = <<>> BY <2>2 DEF IsParts
  <2>7. \A i \in 1..(k+1) : g[i] = Cat(g[i - 1], s[i]) 
    <3> TAKE i \in 1..(k+1)
    <3>1. CASE i = k + 1 BY <3>1
    <3>2. CASE i # k + 1 BY <3>2, <2>2 DEF IsParts
    <3>q. QED BY <3>1, <3>2
  <2>8. IsParts(g, s, k + 1) BY <2>6, <2>7 DEF IsParts
  <2> HIDE DEF g
  <2>q. QED BY <2>5, <2>8
<1> HIDE DEF P
<1>3. Nat \subseteq T
  <2>1. 0 \in T BY <1>1
  <2>2. \A k \in Nat : k \in T => k + 1 \in T BY <1>2
  <2> HIDE DEF T
  <2>q. QED BY <2>1, <2>2, Induction
<1>4. P(Len(s)) BY <1>3
<1>q. QED BY <1>4 DEF P

(* FlattenSeq is its last value: both satisfy the same recursion. *)
LEMMA FlattenParts ==
  ASSUME NEW S, NEW s \in Seq(Seq(S)), NEW f \in [0..Len(s) -> Seq(S)], IsParts(f, s, Len(s))
   PROVE FlattenSeq(s) = f[Len(s)]
<1>1. Len(s) \in Nat OBVIOUS
<1>2. CASE Len(s) = 0 
  <2>1. s = <<>> BY <1>2
   <2>q. QED BY <1>2, <2>1 DEF FlattenSeq, IsParts
<1>3. CASE Len(s) # 0
  <2> DEFINE P(g) == g = [i \in 1..Len(s) |-> IF i = 1 THEN s[i] ELSE Cat(g[i - 1], s[i])]
             h == CHOOSE g : P(g)
             f1 == [i \in 1..Len(s) |-> f[i]]
  <2>1. FlattenSeq(s) = h[Len(s)] BY <1>3 DEF FlattenSeq, Cat
  <2>2. f[1] = s[1]
    <3>1. s[1] \in Seq(S) BY <1>3
    <3>2. f[1] = Cat(f[1 - 1], s[1]) BY <1>3, <1>1 DEF IsParts
    <3>3. f[0] = <<>> BY DEF IsParts
    <3>q. QED BY <3>1, <3>2, <3>3, CatEmpty
  <2>3. \A i \in 1..Len(s) : f1[i] = IF i = 1 THEN s[i] ELSE Cat(f1[i - 1], s[i])
    BY <2>2, <1>1 DEF IsParts
  <2>4. P(f1) BY <2>3
  <2> HIDE DEF P, f1
  <2>5. P(h) BY <2>4, Zenon
  <2> HIDE DEF h
  <2> DEFINE Q(k) == k + 1 <= Len(s) => h[k + 1] = f[k + 1]
             T == {k \in Nat : Q(k)}
  <2>6. \A i \in 1..Len(s) : h[i] = IF i = 1 THEN s[i] ELSE Cat(h[i - 1], s[i])
    BY <2>5, Zenon DEF P
  <2>7. h[1] = s[1] /\ \A i \in 2..Len(s) : h[i] = Cat(h[i - 1], s[i])
    <3>1. 1 \in 1..Len(s) /\ \A i \in 2..Len(s) : i \in 1..Len(s) /\ i # 1 BY <1>1, <1>3
    <3>2. h[1] = s[1] BY <2>6, <3>1
    <3>3. \A i \in 2..Len(s) : h[i] = Cat(h[i - 1], s[i]) BY <2>6, <3>1
    <3>q. QED BY <3>2, <3>3
  <2>8. Q(0) BY <2>7, <2>2
  <2>9. ASSUME NEW k \in Nat, Q(k) PROVE Q(k + 1)
    <3>1. SUFFICES ASSUME k + 2 <= Len(s) PROVE h[k + 2] = f[k + 2] OBVIOUS
    <3>2. h[k + 1] = f[k + 1] BY <3>1, <2>9
    <3>3. h[k + 2] = Cat(h[k + 1], s[k + 2]) BY <2>7, <3>1
    <3>4. f[k + 2] = Cat(f[k + 1], s[k + 2]) BY <3>1 DEF IsParts
    <3>q. QED BY <3>2, <3>3, <3>4
  <2> HIDE DEF Q
  <2>10. Nat \subseteq T
    <3>1. 0 \in T BY <2>8
    <3>2. \A k \in Nat : k \in T => k + 1 \in T BY <2>9
    <3> HIDE DEF T
    <3>q. QED BY <3>1, <3>2, Induction
  <2>11. Q(Len(s) - 1) BY <1>3, <1>1, <2>10
  <2>q. QED BY <2>1, <2>11, <1>3, <1>1 DEF Q
<1>q. QED BY <1>2, <1>3

(* The first k of the sequences of s, one after the other. *)
Flat(s, k) == FlattenSeq(SubSeq(s, 1, k))

(* These are the f[k]. *)
LEMMA FlatParts ==
  ASSUME NEW S, NEW s \in Seq(Seq(S)), NEW f \in [0..Len(s) -> Seq(S)], IsParts(f, s, Len(s)),
         NEW k \in 0..Len(s)
   PROVE Flat(s, k) = f[k]
<1> DEFINE t == SubSeq(s, 1, k)
           g == [i \in 0..k |-> f[i]]
<1>1. Len(s) \in Nat OBVIOUS
<1>2. t \in Seq(Seq(S)) /\ Len(t) = k /\ \A i \in 1..k : t[i] = s[i] BY FrontType
<1> HIDE DEF t
<1>3. g \in [0..k -> Seq(S)] BY <1>1
<1>4. IsParts(g, t, k)
  <2>1. g[0] = <<>> BY <1>1 DEF IsParts
  <2>2. \A i \in 1..k : g[i] = Cat(g[i - 1], t[i])
    <3> TAKE i \in 1..k
    <3>1. g[i] = f[i] /\ g[i - 1] = f[i - 1] /\ i \in 1..Len(s) BY <1>1
    <3>2. f[i] = Cat(f[i - 1], s[i]) BY <3>1 DEF IsParts
    <3>q. QED BY <3>1, <3>2, <1>2
  <2>q. QED BY <2>1, <2>2 DEF IsParts
<1>5. g[k] = f[k] BY <1>1
<1> HIDE DEF g
<1>6. FlattenSeq(t) = g[k] BY <1>2, <1>3, <1>4, FlattenParts
<1>q. QED BY <1>5, <1>6 DEF Flat, t

(* The recursion of Flat. *)
LEMMA FlatStep == ASSUME NEW S, NEW s \in Seq(Seq(S))
  PROVE /\ Flat(s, 0) = <<>>
        /\ \A k \in 0..Len(s) : Flat(s, k) \in Seq(S) /\ Len(Flat(s, k)) \in Nat
        /\ \A k \in 1..Len(s) : Flat(s, k) = Cat(Flat(s, k - 1), s[k])
        /\ Flat(s, Len(s)) = FlattenSeq(s)
<1>1. Len(s) \in Nat OBVIOUS
<1>2. PICK f \in [0..Len(s) -> Seq(S)] : IsParts(f, s, Len(s)) BY PartsExist
<1>3. \A k \in 0..Len(s) : Flat(s, k) = f[k] BY <1>2, FlatParts
<1>4. \A k \in 0..Len(s) : f[k] \in Seq(S) /\ Len(f[k]) \in Nat OBVIOUS
<1>5. f[0] = <<>> /\ \A k \in 1..Len(s) : f[k] = Cat(f[k - 1], s[k]) BY <1>2 DEF IsParts
<1>6. Flat(s, Len(s)) = FlattenSeq(s) BY FrontAll DEF Flat
<1>7. \A k \in 1..Len(s) : Flat(s, k) = Cat(Flat(s, k - 1), s[k])
  <2> TAKE k \in 1..Len(s)
  <2>1. k \in 0..Len(s) /\ k - 1 \in 0..Len(s) BY <1>1
  <2>q. QED BY <2>1, <1>3, <1>5
<1>q. QED BY <1>1, <1>3, <1>4, <1>5, <1>6, <1>7

(* The beginning stays when more follows, by induction over what follows. *)
LEMMA FlatGrows == ASSUME NEW S, NEW s \in Seq(Seq(S)), NEW k \in 0..Len(s), NEW j \in k..Len(s)
  PROVE /\ Len(Flat(s, k)) <= Len(Flat(s, j))
        /\ \A i \in 1..Len(Flat(s, k)) : Flat(s, j)[i] = Flat(s, k)[i]
<1> DEFINE P(d) == k + d <= Len(s) =>
             /\ Len(Flat(s, k)) <= Len(Flat(s, k + d))
             /\ \A i \in 1..Len(Flat(s, k)) : Flat(s, k + d)[i] = Flat(s, k)[i]
           T == {d \in Nat : P(d)}
<1>1. Len(s) \in Nat /\ k \in Nat /\ j \in Nat OBVIOUS
<1>2. P(0) BY <1>1, FlatStep
<1>3. ASSUME NEW d \in Nat, P(d) PROVE P(d + 1)
  <2>1. SUFFICES ASSUME k + d + 1 <= Len(s)
        PROVE /\ Len(Flat(s, k)) <= Len(Flat(s, k + d + 1))
              /\ \A i \in 1..Len(Flat(s, k)) : Flat(s, k + d + 1)[i] = Flat(s, k)[i]
    BY <1>1
  <2> DEFINE a == Flat(s, k + d) 
             b == s[k + d + 1]
             c == Flat(s, k)
             e == Flat(s, k + d + 1)
  <2>2. k + d + 1 \in 1..Len(s) /\ k + d \in 0..Len(s) /\ k \in 0..Len(s) /\ k + d + 1 - 1 = k + d
    BY <1>1, <2>1
  <2>3. a \in Seq(S) /\ b \in Seq(S) /\ c \in Seq(S) /\ Len(c) \in Nat BY <2>2, FlatStep
  <2>4. e = Cat(a, b) BY <2>2, FlatStep
  <2>5. Len(c) <= Len(a) /\ \A i \in 1..Len(c) : a[i] = c[i] BY <1>3, <2>1, <2>2
  <2> HIDE DEF a, b, c, e
  <2>6. Len(e) = Len(a) + Len(b) /\ Len(a) \in Nat /\ Len(b) \in Nat
        /\ \A i \in 1..Len(a) : e[i] = a[i]
    BY <2>3, <2>4, CatType
  <2>7. Len(c) <= Len(e) /\ \A i \in 1..Len(c) : e[i] = c[i] BY <2>3, <2>5, <2>6
  <2>q. QED BY <2>7 DEF c, e
<1> HIDE DEF P
<1>4. Nat \subseteq T
  <2>1. 0 \in T BY <1>2
  <2>2. \A d \in Nat : d \in T => d + 1 \in T BY <1>3
  <2> HIDE DEF T
  <2>q. QED BY <2>1, <2>2, Induction
<1>5. P(j - k) BY <1>1, <1>4
<1>6. k + (j - k) = j /\ j <= Len(s) BY <1>1
<1>q. QED BY <1>5, <1>6 DEF P

(* Where the k-th of the sequences lies in all of them. *)
LEMMA FlattenAt == ASSUME NEW S, NEW s \in Seq(Seq(S)), NEW k \in 1..Len(s)
  PROVE /\ Len(Flat(s, k - 1)) \in Nat /\ Len(s[k]) \in Nat
        /\ Len(Flat(s, k)) = Len(Flat(s, k - 1)) + Len(s[k])
        /\ Len(Flat(s, k)) <= Len(FlattenSeq(s))
        /\ \A i \in 1..Len(s[k]) : FlattenSeq(s)[Len(Flat(s, k - 1)) + i] = s[k][i]
<1> DEFINE a == Flat(s, k - 1) 
           b == s[k]
           c == Flat(s, k)
           w == FlattenSeq(s)
<1>1. Len(s) \in Nat /\ k \in 0..Len(s) /\ k - 1 \in 0..Len(s) /\ Len(s) \in k..Len(s) OBVIOUS
<1>2. a \in Seq(S) /\ b \in Seq(S) /\ c = Cat(a, b) BY <1>1, FlatStep
<1>3. w = Flat(s, Len(s)) BY FlatStep
<1>4. Len(c) <= Len(w) /\ \A i \in 1..Len(c) : w[i] = c[i] BY <1>1, <1>3, FlatGrows
<1> HIDE DEF a, b, c, w
<1>5. Len(a) \in Nat /\ Len(b) \in Nat /\ Len(c) = Len(a) + Len(b)
      /\ \A i \in 1..Len(b) : c[Len(a) + i] = b[i]
  <2>1. a \in Seq(S) /\ b \in Seq(S) BY <1>2
  <2>2. Len(a) \in Nat /\ Len(b) \in Nat /\ Len(Cat(a, b)) = Len(a) + Len(b) BY <2>1, CatType
  <2>3. \A i \in 1..Len(b) : Cat(a, b)[Len(a) + i] = b[i] BY <2>1, CatType
  <2>q. QED BY <1>2, <2>2, <2>3
<1>6. \A i \in 1..Len(b) : w[Len(a) + i] = b[i]
  <2> TAKE i \in 1..Len(b)
  <2>1. Len(a) + i \in 1..Len(c) BY <1>5
  <2>q. QED BY <2>1, <1>4, <1>5
<1>q. QED BY <1>4, <1>5, <1>6 DEF a, b, c, w

(* Every place in all of them lies in one of the sequences. *)
LEMMA FlattenWhere == ASSUME NEW S, NEW s \in Seq(Seq(S)), NEW p \in 1..Len(FlattenSeq(s))
  PROVE \E k \in 1..Len(s) : Len(Flat(s, k - 1)) < p /\ p <= Len(Flat(s, k))
<1> DEFINE T == {k \in 0..Len(s) : p <= Len(Flat(s, k))}
<1>1. Len(s) \in Nat OBVIOUS
<1>2. Len(s) \in T BY <1>1, FlatStep
<1>3. T \subseteq Nat BY <1>1
<1> HIDE DEF T
<1>4. PICK k \in T : \A j \in T : k <= j BY <1>2, <1>3, Smallest
<1>5. k \in 0..Len(s) /\ p <= Len(Flat(s, k)) BY <1>4 DEF T
<1>6. k # 0 
  <2>1. Len(Flat(s, 0)) = 0 BY FlatStep
  <2>2. p > 0 /\ p \in Int OBVIOUS
  <2>q. QED BY <2>1, <2>2, <1>5
<1>7. k \in 1..Len(s) /\ k - 1 \in 0..Len(s) BY <1>1, <1>5, <1>6
<1>8. ~ (p <= Len(Flat(s, k - 1))) BY <1>4, <1>7 DEF T
<1>9. Len(Flat(s, k - 1)) \in Nat BY <1>7, FlatStep
<1>10. p \in Int OBVIOUS
<1>q. QED BY <1>5, <1>7, <1>8, <1>9, <1>10

-----------------------------------------------------------------------------
(* extractSNI and parseSNI on any record *)

(* Past the check of the handshake the hello lies within the record; in the  *)
(* loop the extensions lie within the hello, and there is no name before the *)
(* end.                                                                      *)
Checked == at \notin {"record", "done"} => rec.len >= tlsHandshakeHdrLen + rec.hsLen
Within  == at = "loop" => end <= HelloLen
Unnamed == at # "done" => name = None

(* The invariant on any record. *)
IInv == TypeOK /\ InBounds /\ Checked /\ Within /\ Unnamed

(* A byte of the hello is a number from 0 to 255. *)
LEMMA ByteType == ASSUME TypeOK, NEW i \in Nat PROVE B(i) \in Nat
<1>1. rec \in TlsRecord BY DEF TypeOK
<1>2. rec.tail \in Seq(Byte) BY <1>1 DEF TlsRecord
<1>3. CASE i >= clientHelloRandOffset /\ i < clientHelloRandOffset + Len(rec.tail)
  <2>1. Len(rec.tail) \in Nat BY <1>2
  <2>2. i - clientHelloRandOffset + 1 \in 1..Len(rec.tail)
    BY <1>3, <2>1 DEF clientHelloRandOffset
  <2>3. rec.tail[i - clientHelloRandOffset + 1] \in Byte BY <1>2, <2>2
  <2>q. QED BY <1>3, <2>3 DEF B, Byte
<1>4. CASE ~ (i >= clientHelloRandOffset /\ i < clientHelloRandOffset + Len(rec.tail))
  BY <1>4 DEF B
<1>q. QED BY <1>3, <1>4

(* So is a field of two bytes. *)
LEMMA U16Type == ASSUME TypeOK, NEW i \in Nat PROVE U16(i) \in Nat
<1>1. B(i) \in Nat BY ByteType
<1>2. B(i + 1) \in Nat BY ByteType
<1>q. QED BY <1>1, <1>2 DEF U16

(* The walk starts within bounds. *)
LEMMA InitIInv == Init => IInv
<1> SUFFICES ASSUME Init PROVE IInv OBVIOUS
<1>1. rec \in TlsRecord BY RecordsAssumption DEF Init
<1>2. TypeOK BY <1>1 DEF Init, TypeOK, None
<1>3. rec.len \in Nat BY <1>1 DEF TlsRecord
<1>q. QED BY <1>2, <1>3 DEF Init, IInv, InBounds, Checked, Within, Unnamed, None

(* The header of the handshake message is read only if the record has one,   *)
(* and the walk goes on only if the record has the whole message.            *)
LEMMA HandshakeStep == ASSUME IInv, Handshake PROVE IInv'
<1>1. rec.len \in Nat /\ rec.hsLen \in Nat BY DEF IInv, TypeOK, TlsRecord
<1>2. TypeOK'
  BY <1>1 DEF IInv, TypeOK, Handshake, HasHeader, Goto, Return, None,
              tlsHandshakeHdrLen, clientHelloRandOffset
<1>3. InBounds'
  BY <1>1 DEF IInv, TypeOK, InBounds, Unnamed, Handshake, HasHeader, Goto, Return,
              None, tlsHandshakeHdrLen
<1>4. Checked' /\ Within' /\ Unnamed'
  BY <1>1 DEF IInv, Handshake, Complete, Goto, Return, Checked, Within, Unnamed
<1>q. QED BY <1>2, <1>3, <1>4 DEF IInv

(* The three vectors before the extensions: a length is read only if it lies *)
(* within the hello.                                                         *)
LEMMA Skip1Step ==
    ASSUME IInv, NEW part \in {"session", "compression"}, NEW next \in {"ciphers", "extensions"},
           Skip1(part, next)
    PROVE  IInv'
<1>1. rec.len \in Nat /\ rec.hsLen \in Nat /\ pos \in Nat BY DEF IInv, TypeOK, TlsRecord
<1>2. B(pos) \in Nat BY <1>1, ByteType DEF IInv
<1>3. at \notin {"record", "done", "loop"} /\ at' # "loop" /\ at' # "record"
  BY DEF Skip1, Goto, Return
<1>4. TypeOK'
  BY <1>1, <1>2 DEF IInv, TypeOK, Skip1, Reads, Goto, Return, None, HelloLen, tlsHandshakeHdrLen
<1>5. InBounds'
  BY <1>1, <1>3 DEF IInv, TypeOK, InBounds, Checked, Unnamed, Skip1, Reads, Goto, Return, None,
                    HelloLen, tlsHandshakeHdrLen
<1>6. Checked' /\ Within' /\ Unnamed'
  BY <1>3 DEF IInv, Checked, Within, Unnamed, Skip1, Goto, Return
<1>q. QED BY <1>4, <1>5, <1>6 DEF IInv

(* The list of cipher suites has a length of two bytes. *)
LEMMA CipherSuitesStep == ASSUME IInv, CipherSuites PROVE IInv'
<1>1. rec.len \in Nat /\ rec.hsLen \in Nat /\ pos \in Nat BY DEF IInv, TypeOK, TlsRecord
<1>2. U16(pos) \in Nat BY <1>1, U16Type DEF IInv
<1>3. TypeOK'
  BY <1>1, <1>2 DEF IInv, TypeOK, CipherSuites, Reads, Goto, Return, None, HelloLen,
                    tlsHandshakeHdrLen
<1>4. InBounds'
  BY <1>1 DEF IInv, TypeOK, InBounds, Checked, Unnamed, CipherSuites, Reads, Goto, Return, None,
              HelloLen, tlsHandshakeHdrLen
<1>5. Checked' /\ Within' /\ Unnamed'
  BY DEF IInv, Checked, Within, Unnamed, CipherSuites, Goto, Return
<1>q. QED BY <1>3, <1>4, <1>5 DEF IInv

(* The end of the extensions is clamped to the end of the hello. *)
LEMMA ExtensionsStep == ASSUME IInv, Extensions PROVE IInv'
<1>1. rec.len \in Nat /\ rec.hsLen \in Nat /\ pos \in Nat BY DEF IInv, TypeOK, TlsRecord
<1>2. U16(pos) \in Nat BY <1>1, U16Type DEF IInv
<1>3. TypeOK'
  BY <1>1, <1>2 DEF IInv, TypeOK, Extensions, Reads, Return, None, HelloLen, tlsHandshakeHdrLen
<1>4. InBounds'
  BY <1>1 DEF IInv, TypeOK, InBounds, Checked, Unnamed, Extensions, Reads, Return, None,
              HelloLen, tlsHandshakeHdrLen
<1>5. Checked' /\ Within' /\ Unnamed'
  BY <1>1, <1>2 DEF IInv, Checked, Within, Unnamed, Extensions, Return, HelloLen
<1>q. QED BY <1>3, <1>4, <1>5 DEF IInv

(* A turn of the loop: the header of the extension ends before end, its body *)
(* if Fits holds, and the name within the body.                              *)
LEMMA LoopStep ==
    ASSUME IInv, NoExtension \/ ExtensionTooLong \/ ServerName \/ NextExtension PROVE IInv'
<1>1. rec.len \in Nat /\ rec.hsLen \in Nat /\ pos \in Nat /\ end \in Nat
  BY DEF IInv, TypeOK, TlsRecord
<1>2. at = "loop" /\ name = None /\ end <= rec.hsLen
      /\ rec.len >= tlsHandshakeHdrLen + rec.hsLen
  BY DEF IInv, Checked, Within, Unnamed, NoExtension, ExtensionTooLong, ServerName,
         NextExtension, HelloLen
<1>3. Body \in Nat /\ Body = pos + 4 BY <1>1 DEF Body, tlsExtHdrLen
<1>4. ExtLen \in Nat BY <1>1, U16Type DEF IInv, ExtLen
<1>5. U16(Body + sniNameLenOffset) \in Nat BY <1>3, U16Type DEF IInv, sniNameLenOffset
<1>6. NameFrom \in Nat /\ NameTo \in Nat /\ NameFrom = Body + 5
  BY <1>3, <1>5 DEF NameFrom, NameTo, sniNameOffset
<1>7. CASE NoExtension
  BY <1>1, <1>7 DEF IInv, TypeOK, InBounds, Checked, Within, Unnamed, NoExtension, Return, None
<1>8. CASE ExtensionTooLong
  <2>1. Body <= rec.hsLen
    BY <1>1, <1>2, <1>8 DEF ExtensionTooLong, HasExtension, Body, tlsExtHdrLen
  <2>q. QED
    BY <1>1, <1>2, <1>3, <1>8, <2>1 DEF IInv, TypeOK, InBounds, Checked, Within, Unnamed,
       ExtensionTooLong, Reads, Return, None, HelloLen, tlsHandshakeHdrLen
<1>9. CASE ServerName
  <2>1. Body + ExtLen <= rec.hsLen BY <1>1, <1>2, <1>3, <1>4, <1>9 DEF ServerName, Fits
  <2>2. NameTo <= Body + ExtLen BY <1>9 DEF ServerName, NameFits
  <2>q. QED
    BY <1>1, <1>2, <1>3, <1>4, <1>6, <1>9, <2>1, <2>2 DEF IInv, TypeOK, InBounds, Checked,
       Within, Unnamed, ServerName, Reads, Return, None, tlsHandshakeHdrLen
<1>10. CASE NextExtension
  <2>1. Body + ExtLen <= rec.hsLen BY <1>1, <1>2, <1>3, <1>4, <1>10 DEF NextExtension, Fits
  <2>2. IsSNI => NameFrom <= Body + ExtLen
    BY <1>3, <1>4, <1>6 DEF IsSNI, sniExtMinLen
  <2>q. QED
    BY <1>1, <1>2, <1>3, <1>4, <1>6, <1>10, <2>1, <2>2 DEF IInv, TypeOK, InBounds, Checked,
       Within, Unnamed, NextExtension, AfterExtension, Reads, Goto, None, HelloLen,
       tlsHandshakeHdrLen
<1>q. QED BY <1>7, <1>8, <1>9, <1>10

(* Every step stays within bounds. *)
LEMMA NextIInv == IInv /\ [Next]_vars => IInv'
<1> SUFFICES ASSUME IInv, [Next]_vars PROVE IInv' OBVIOUS
<1>1. CASE Handshake BY <1>1, HandshakeStep
<1>2. CASE SessionID BY <1>2, Skip1Step DEF SessionID
<1>3. CASE CipherSuites BY <1>3, CipherSuitesStep
<1>4. CASE Compression BY <1>4, Skip1Step DEF Compression
<1>5. CASE Extensions BY <1>5, ExtensionsStep
<1>6. CASE NoExtension \/ ExtensionTooLong \/ ServerName \/ NextExtension BY <1>6, LoopStep
<1>7. CASE UNCHANGED vars
  BY <1>7 DEF vars, IInv, TypeOK, InBounds, Checked, Within, Unnamed, HelloLen
<1>q. QED BY <1>1, <1>2, <1>3, <1>4, <1>5, <1>6, <1>7 DEF Next

(* extractSNI and parseSNI read only bytes of the record, of the hello and   *)
(* of the extension they are looking at, whatever the client sends.          *)
THEOREM SNIInBounds == Spec => []InBounds
<1>1. Spec => []IInv BY InitIInv, NextIInv, PTL DEF Spec
<1>2. IInv => InBounds BY DEF IInv
<1>q. QED BY <1>1, <1>2, PTL

(* The offsets and the result of the walk are numbers. *)
THEOREM SNITypeCorrect == Spec => []TypeOK
<1>1. Spec => []IInv BY InitIInv, NextIInv, PTL DEF Spec
<1>2. IInv => TypeOK BY DEF IInv
<1>q. QED BY <1>1, <1>2, PTL

(* Why the walk ends, whatever lengths it is given: a step goes on to a      *)
(* later part of the hello, or past the header of one more extension, which  *)
(* lies before the end of the hello.                                         *)
Part(a) ==
    CASE a = "record"     -> 0 [] a = "session"    -> 1 [] a = "ciphers" -> 2
      [] a = "compression" -> 3 [] a = "extensions" -> 4 [] a = "loop"    -> 5
      [] a = "done"       -> 6

OneMoreExtension ==
    /\ at = "loop" /\ at' = "loop" /\ UNCHANGED <<rec, end>>
    /\ pos' >= pos + tlsExtHdrLen /\ pos' <= HelloLen
Advances == Part(at)' > Part(at) \/ OneMoreExtension

(* Only NextExtension stays in its part, and it goes forward. *)
LEMMA NextAdvances == IInv /\ [Next]_vars => [Advances]_vars
<1> SUFFICES ASSUME IInv, Next PROVE Advances OBVIOUS
<1>1. CASE Handshake \/ SessionID \/ CipherSuites \/ Compression \/ Extensions
           \/ NoExtension \/ ExtensionTooLong \/ ServerName
  BY <1>1 DEF Handshake, SessionID, Skip1, CipherSuites, Compression, Extensions, NoExtension,
              ExtensionTooLong, ServerName, Goto, Return, Advances, Part
<1>2. CASE NextExtension
  <2>1. pos \in Nat /\ end \in Nat /\ rec.hsLen \in Nat BY DEF IInv, TypeOK, TlsRecord
  <2>2. U16(pos + 2) \in Nat BY <2>1, U16Type DEF IInv
  <2>3. end <= rec.hsLen BY <1>2 DEF IInv, Within, HelloLen, NextExtension
  <2>4. pos' = pos + tlsExtHdrLen + U16(pos + 2) /\ pos' <= end
    BY <1>2 DEF NextExtension, Goto, AfterExtension, Body, ExtLen, Fits
  <2>5. at = "loop" /\ at' = "loop" /\ UNCHANGED <<rec, end>> BY <1>2 DEF NextExtension, Goto
  <2>q. QED
    BY <2>1, <2>2, <2>3, <2>4, <2>5 DEF Advances, OneMoreExtension, HelloLen, tlsExtHdrLen
<1>q. QED BY <1>1, <1>2 DEF Next

(* So parseSNI takes at most six steps and one for every four bytes of the   *)
(* hello: no lengths a client sends make it go around without an advance.    *)
THEOREM SNIAdvances == Spec => [][Advances]_vars
<1>1. Spec => []IInv BY InitIInv, NextIInv, PTL DEF Spec
<1>q. QED BY <1>1, NextAdvances, PTL DEF Spec

-----------------------------------------------------------------------------
(* The bytes of a hello in order *)

(* The fields of the encoding: zeros, and numbers of two bytes. *)
LEMMA ZerosType == ASSUME NEW k \in Nat PROVE Zeros(k) \in Seq(Byte) /\ Len(Zeros(k)) = k
BY DEF Zeros, Byte

(* A number below 65536 is two bytes, and the bytes are the number. *)
LEMMA TwoType == ASSUME NEW k \in Word
  PROVE /\ Two(k) \in Seq(Byte) /\ Len(Two(k)) = 2
        /\ 256 * Two(k)[1] + Two(k)[2] = k
<1> DEFINE hi == k \div 256
           lo == k % 256
<1>1. k \in Nat /\ k < 65536 BY DEF Word
<1>2. hi \in Nat /\ lo \in Nat /\ hi < 256 /\ lo < 256 /\ k = 256 * hi + lo BY <1>1
<1>3. Two(k) = <<hi, lo>> BY DEF Two
<1> HIDE DEF hi, lo
<1>4. <<hi, lo>> \in Seq(Byte) /\ Len(<<hi, lo>>) = 2 /\ <<hi, lo>>[1] = hi /\ <<hi, lo>>[2] = lo
  BY <1>2 DEF Byte
<1>q. QED BY <1>2, <1>3, <1>4

(* The same for a number that need not fit. *)
LEMMA TwoValue == ASSUME NEW k \in Nat
  PROVE Two(k) \in Seq(Nat) /\ Len(Two(k)) = 2 /\ 256 * Two(k)[1] + Two(k)[2] = k
<1> DEFINE hi == k \div 256
           lo == k % 256
<1>1. hi \in Nat /\ lo \in Nat /\ k = 256 * hi + lo OBVIOUS
<1>2. Two(k) = <<hi, lo>> BY DEF Two
<1> HIDE DEF hi, lo
<1>3. <<hi, lo>> \in Seq(Nat) /\ Len(<<hi, lo>>) = 2 /\ <<hi, lo>>[1] = hi /\ <<hi, lo>>[2] = lo
  BY <1>1
<1>q. QED BY <1>1, <1>2, <1>3

(* The bytes of a hello after the random: where each of its fields lies. *)
LEMMA TailLayout == ASSUME NEW h, InOrder(h), FlattenSeq(Encoded(h)) \in Seq(Byte)
  PROVE LET t == EncodeTail(h)
            e == FlattenSeq(Encoded(h))
            s == h.session
            c == h.ciphers
            m == h.compression
        IN  /\ t \in Seq(Byte) /\ Len(t) = 6 + s + c + m + Len(e)
            /\ t[1] = s
            /\ 256 * t[2 + s] + t[3 + s] = c
            /\ t[4 + s + c] = m
            /\ 256 * t[5 + s + c + m] + t[6 + s + c + m] = Len(e)
            /\ \A i \in 1..Len(e) : t[6 + s + c + m + i] = e[i]
<1> DEFINE t == EncodeTail(h)
           e == FlattenSeq(Encoded(h))
           s == h.session
           c == h.ciphers
           m == h.compression
           w == Two(Len(e))
           x1 == <<s>>
           x2 == Cat(x1, Zeros(s))
           x3 == Cat(x2, Two(c))
           x4 == Cat(x3, Zeros(c))
           x5 == Cat(x4, <<m>>)
           x6 == Cat(x5, Zeros(m))
           x7 == Cat(x6, w)
           x8 == Cat(x7, e)
<1>1. t = x8 BY DEF EncodeTail, Cat
<1>2. s \in Byte /\ c \in Word /\ m \in Byte /\ Len(e) \in Word /\ e \in Seq(Byte) BY DEF InOrder
<1> HIDE DEF t, e, s, c, m
<1>3. s \in Nat /\ c \in Nat /\ m \in Nat BY <1>2 DEF Byte, Word
<1>4. s \in Nat /\ c \in Nat /\ m \in Nat /\ Len(e) \in Nat BY <1>2, <1>3
<1>5. x1 \in Seq(Byte) /\ Len(x1) = 1 /\ x1[1] = s BY <1>2
<1>6. <<m>> \in Seq(Byte) /\ Len(<<m>>) = 1 /\ <<m>>[1] = m BY <1>2
<1>7. Two(c) \in Seq(Byte) /\ Len(Two(c)) = 2 /\ 256 * Two(c)[1] + Two(c)[2] = c BY <1>2, TwoType
<1>8. w \in Seq(Byte) /\ Len(w) = 2 /\ 256 * w[1] + w[2] = Len(e) BY <1>2, TwoType
<1>9. Zeros(s) \in Seq(Byte) /\ Len(Zeros(s)) = s BY <1>4, ZerosType
<1>10. Zeros(c) \in Seq(Byte) /\ Len(Zeros(c)) = c BY <1>4, ZerosType
<1>11. Zeros(m) \in Seq(Byte) /\ Len(Zeros(m)) = m BY <1>4, ZerosType
<1> HIDE DEF w
<1> HIDE DEF x1
<1>12. x2 \in Seq(Byte) /\ Joined(x2, x1, Zeros(s)) BY <1>5, <1>9, CatJoined
<1> HIDE DEF x2
<1>13. x3 \in Seq(Byte) /\ Joined(x3, x2, Two(c)) BY <1>12, <1>7, CatJoined
<1> HIDE DEF x3
<1>14. x4 \in Seq(Byte) /\ Joined(x4, x3, Zeros(c)) BY <1>13, <1>10, CatJoined
<1> HIDE DEF x4
<1>15. x5 \in Seq(Byte) /\ Joined(x5, x4, <<m>>) BY <1>14, <1>6, CatJoined
<1> HIDE DEF x5
<1>16. x6 \in Seq(Byte) /\ Joined(x6, x5, Zeros(m)) BY <1>15, <1>11, CatJoined
<1> HIDE DEF x6
<1>17. x7 \in Seq(Byte) /\ Joined(x7, x6, w) BY <1>16, <1>8, CatJoined
<1> HIDE DEF x7
<1>18. x8 \in Seq(Byte) /\ Joined(x8, x7, e) BY <1>17, <1>2, CatJoined
<1> HIDE DEF x8
<1>19. Len(x2) = 1 + s /\ Len(x3) = 3 + s BY <1>4, <1>5, <1>7, <1>9, <1>12, <1>13 DEF Joined
<1>20. Len(x4) = 3 + s + c /\ Len(x5) = 4 + s + c
  BY <1>4, <1>19, <1>6, <1>10, <1>14, <1>15 DEF Joined
<1>21. Len(x6) = 4 + s + c + m /\ Len(x7) = 6 + s + c + m
  BY <1>4, <1>20, <1>8, <1>11, <1>16, <1>17 DEF Joined
<1>22. Len(x8) = 6 + s + c + m + Len(e) BY <1>4, <1>21, <1>18 DEF Joined
<1>23. \A i \in 1..(4 + s + c + m) : x8[i] = x6[i]
  <2>1. \A i \in 1..(4 + s + c + m) : x7[i] = x6[i] BY <1>21, <1>17 DEF Joined
  <2>2. \A i \in 1..(6 + s + c + m) : x8[i] = x7[i] BY <1>21, <1>18 DEF Joined
  <2>q. QED BY <1>4, <2>1, <2>2
<1>24. \A i \in 1..(4 + s + c) : x8[i] = x5[i]
  <2>1. \A i \in 1..(4 + s + c) : x6[i] = x5[i] BY <1>20, <1>16 DEF Joined
  <2>q. QED BY <1>4, <1>23, <2>1
<1>25. \A i \in 1..(3 + s) : x8[i] = x3[i]
  <2>1. \A i \in 1..(3 + s) : x4[i] = x3[i] BY <1>19, <1>14 DEF Joined
  <2>2. \A i \in 1..(3 + s + c) : x5[i] = x4[i] BY <1>20, <1>15 DEF Joined
  <2>q. QED BY <1>4, <1>24, <2>1, <2>2
<1>26. x8[1] = s
  <2>1. x2[1] = x1[1] BY <1>5, <1>12 DEF Joined
  <2>2. x3[1] = x2[1] BY <1>4, <1>19, <1>13 DEF Joined
  <2>q. QED BY <1>4, <1>5, <1>25, <2>1, <2>2
<1>27. x8[2 + s] = Two(c)[1] /\ x8[3 + s] = Two(c)[2]
  <2>1. x3[1 + s + 1] = Two(c)[1] /\ x3[1 + s + 2] = Two(c)[2] BY <1>19, <1>7, <1>13 DEF Joined
  <2>q. QED BY <1>4, <2>1, <1>25
<1>28. x8[4 + s + c] = m
  <2>1. x5[3 + s + c + 1] = <<m>>[1] BY <1>20, <1>6, <1>15 DEF Joined
  <2>q. QED BY <1>4, <1>6, <2>1, <1>24
<1>29. x8[5 + s + c + m] = w[1] /\ x8[6 + s + c + m] = w[2]
  <2>1. x7[4 + s + c + m + 1] = w[1] /\ x7[4 + s + c + m + 2] = w[2]
    BY <1>21, <1>8, <1>17 DEF Joined
  <2>2. \A i \in 1..(6 + s + c + m) : x8[i] = x7[i] BY <1>21, <1>18 DEF Joined
  <2>q. QED BY <1>4, <2>1, <2>2
<1>30. \A i \in 1..Len(e) : x8[6 + s + c + m + i] = e[i] BY <1>21, <1>18 DEF Joined
<1>31. 256 * x8[2 + s] + x8[3 + s] = c BY <1>27, <1>7
<1>32. 256 * x8[5 + s + c + m] + x8[6 + s + c + m] = Len(e) BY <1>29, <1>8
<1>q. QED BY <1>1, <1>18, <1>26, <1>28, <1>31, <1>32, <1>22, <1>30 DEF t, e, s, c, m

(* The bytes of an extension: its type, its length and its body. *)
LEMMA EncodedExt == ASSUME NEW e, IsExtension(e)
  PROVE LET x == EncodeExt(e)
        IN  /\ x \in Seq(Byte) /\ Len(x) = 4 + Len(e.body) /\ Len(e.body) \in Nat
            /\ 256 * x[1] + x[2] = e.type /\ 256 * x[3] + x[4] = Len(e.body)
            /\ \A i \in 1..Len(e.body) : x[4 + i] = e.body[i]
<1> DEFINE a == Two(e.type)
           b == Two(Len(e.body))
           d == e.body
           y == Cat(a, b)
           x == Cat(y, d)
<1>1. EncodeExt(e) = x BY DEF EncodeExt, Cat
<1>2. e.type \in Word /\ d \in Seq(Byte) /\ Len(d) \in Word BY DEF IsExtension, Extension
<1>3. a \in Seq(Byte) /\ Len(a) = 2 /\ 256 * a[1] + a[2] = e.type BY <1>2, TwoType
<1>4. b \in Seq(Byte) /\ Len(b) = 2 /\ 256 * b[1] + b[2] = Len(d) BY <1>2, TwoType
<1> HIDE DEF a, b, d
<1>5. y \in Seq(Byte) /\ Joined(y, a, b) BY <1>3, <1>4, CatJoined
<1> HIDE DEF y
<1>6. x \in Seq(Byte) /\ Joined(x, y, d) BY <1>2, <1>5, CatJoined
<1> HIDE DEF x
<1>7. Len(y) = 4 BY <1>3, <1>4, <1>5 DEF Joined
<1>8. Len(d) \in Nat BY <1>2
<1>9. Len(x) = 4 + Len(d) /\ \A i \in 1..Len(d) : x[4 + i] = d[i] BY <1>6, <1>7 DEF Joined
<1>10. \A i \in 1..4 : x[i] = y[i] BY <1>6, <1>7 DEF Joined
<1>11. y[1] = a[1] /\ y[2] = a[2] BY <1>3, <1>5 DEF Joined
<1>12. y[2 + 1] = b[1] /\ y[2 + 2] = b[2] BY <1>3, <1>4, <1>5 DEF Joined
<1>13. 256 * x[1] + x[2] = e.type BY <1>3, <1>10, <1>11
<1>14. 256 * x[3] + x[4] = Len(d) BY <1>4, <1>10, <1>12
<1>q. QED BY <1>1, <1>6, <1>8, <1>9, <1>13, <1>14 DEF d

(* The body of a server_name: the length of the name, and the name. *)
LEMMA NamedExt == ASSUME NEW e, IsExtension(e), e.host # <<>>
  PROVE /\ e.type = 0 /\ Len(e.host) \in Nat /\ Len(e.body) >= 5 + Len(e.host)
        /\ 256 * e.body[4] + e.body[5] = Len(e.host)
        /\ \A i \in 1..Len(e.host) : e.body[5 + i] = e.host[i]
<1>1. PICK pad \in 0..Len(e.body) : e = SNI(e.host, pad) BY DEF IsExtension
<1>2. Len(e.body) \in Nat /\ e.host \in Seq(Byte) BY DEF IsExtension, Extension, Word
<1> DEFINE g == e.host
           a == Two(3 + Len(g) + pad)
           z == <<0>>
           b == Two(Len(g))
           o == Zeros(pad)
           x1 == Cat(a, z)
           x2 == Cat(x1, b)
           x3 == Cat(x2, g)
           x4 == Cat(x3, o)
<1>3. e.type = 0 BY <1>1 DEF SNI
<1>4. e.body = x4 
  <2>1. SNI(e.host, pad).body = x4 BY DEF SNI, Cat
  <2>q. QED BY <1>1, <2>1
<1>5. g \in Seq(Nat) /\ Len(g) \in Nat /\ pad \in Nat BY <1>2 DEF Byte
<1> HIDE DEF g
<1>6. a \in Seq(Nat) /\ Len(a) = 2
  <2>1. 3 + Len(g) + pad \in Nat BY <1>5
  <2>q. QED BY <2>1, TwoValue
<1>7. b \in Seq(Nat) /\ Len(b) = 2 /\ 256 * b[1] + b[2] = Len(g) BY <1>5, TwoValue
<1>8. z \in Seq(Nat) /\ Len(z) = 1 OBVIOUS
<1>9. o \in Seq(Nat) /\ Len(o) = pad BY <1>5 DEF Zeros
<1> HIDE DEF a, b, z, o
<1>10. x1 \in Seq(Nat) /\ Joined(x1, a, z) BY <1>6, <1>8, CatJoined
<1> HIDE DEF x1
<1>11. x2 \in Seq(Nat) /\ Joined(x2, x1, b) BY <1>7, <1>10, CatJoined
<1> HIDE DEF x2
<1>12. x3 \in Seq(Nat) /\ Joined(x3, x2, g) BY <1>5, <1>11, CatJoined
<1> HIDE DEF x3
<1>13. x4 \in Seq(Nat) /\ Joined(x4, x3, o) BY <1>9, <1>12, CatJoined
<1> HIDE DEF x4
<1>14. Len(x1) = 3 /\ Len(x2) = 5 BY <1>6, <1>7, <1>8, <1>10, <1>11 DEF Joined
<1>15. Len(x3) = 5 + Len(g) /\ Len(x4) = 5 + Len(g) + pad
  BY <1>5, <1>9, <1>12, <1>13, <1>14 DEF Joined
<1>16. \A i \in 1..(5 + Len(g)) : x4[i] = x3[i] BY <1>13, <1>15 DEF Joined
<1>17. \A i \in 1..Len(g) : x3[5 + i] = g[i] BY <1>12, <1>14 DEF Joined
<1>18. \A i \in 1..5 : x3[i] = x2[i] BY <1>12, <1>14 DEF Joined
<1>19. x2[3 + 1] = b[1] /\ x2[3 + 2] = b[2] BY <1>7, <1>11, <1>14 DEF Joined
<1>20. x4[4] = b[1] /\ x4[5] = b[2] BY <1>5, <1>16, <1>18, <1>19
<1>21. \A i \in 1..Len(g) : x4[5 + i] = g[i]
  <2> TAKE i \in 1..Len(g)
  <2>1. 5 + i \in 1..(5 + Len(g)) BY <1>5
  <2>q. QED BY <2>1, <1>16, <1>17
<1>22. 256 * x4[4] + x4[5] = Len(g) BY <1>7, <1>20
<1>23. Len(x4) >= 5 + Len(g) BY <1>5, <1>15
<1>q. QED BY <1>3, <1>4, <1>5, <1>21, <1>22, <1>23 DEF g

(* The extensions of a hello in order are encoded one by one. *)
LEMMA EncodedType == ASSUME NEW h, InOrder(h)
  PROVE /\ Encoded(h) \in Seq(Seq(Byte)) /\ Len(Encoded(h)) = Len(h.exts) /\ Len(h.exts) \in Nat
        /\ \A k \in 1..Len(h.exts) : IsExtension(h.exts[k]) /\ Encoded(h)[k] = EncodeExt(h.exts[k])
<1>1. Len(h.exts) \in Nat BY DEF InOrder
<1>2. \A k \in 1..Len(h.exts) : IsExtension(h.exts[k]) BY DEF InOrder
<1>3. \A k \in 1..Len(h.exts) : EncodeExt(h.exts[k]) \in Seq(Byte) BY <1>2, EncodedExt
<1>q. QED BY <1>1, <1>2, <1>3 DEF Encoded

(* Where the extensions of h begin in the hello, and its k-th extension. *)
ExtsAt(h) == 40 + h.session + h.ciphers + h.compression
ExtAt(h, k) == ExtsAt(h) + Len(Flat(Encoded(h), k - 1))

(* Every place of a hello in order is a number. *)
LEMMA Lengths == ASSUME NEW h, InOrder(h)
  PROVE /\ h.session \in Nat /\ h.ciphers \in Nat /\ h.compression \in Nat /\ ExtsAt(h) \in Nat
        /\ FlattenSeq(Encoded(h)) \in Seq(Byte) /\ Len(FlattenSeq(Encoded(h))) \in Nat
        /\ \A k \in 1..(Len(h.exts) + 1) : ExtAt(h, k) \in Nat
        /\ ExtAt(h, 1) = ExtsAt(h)
        /\ ExtAt(h, Len(h.exts) + 1) = ExtsAt(h) + Len(FlattenSeq(Encoded(h)))
<1>1. h.session \in Nat /\ h.ciphers \in Nat /\ h.compression \in Nat BY DEF InOrder, Byte, Word
<1>2. ExtsAt(h) \in Nat BY <1>1 DEF ExtsAt
<1>3. Encoded(h) \in Seq(Seq(Byte)) /\ Len(Encoded(h)) = Len(h.exts) /\ Len(h.exts) \in Nat
  BY EncodedType
<1>4. /\ Flat(Encoded(h), 0) = <<>> 
      /\ \A k \in 0..Len(h.exts) :
            Flat(Encoded(h), k) \in Seq(Byte) /\ Len(Flat(Encoded(h), k)) \in Nat
      /\ Flat(Encoded(h), Len(h.exts)) = FlattenSeq(Encoded(h))
  BY <1>3, FlatStep
<1>5. FlattenSeq(Encoded(h)) \in Seq(Byte) /\ Len(FlattenSeq(Encoded(h))) \in Nat
  <2>1. Len(h.exts) \in 0..Len(h.exts) BY <1>3
  <2>q. QED BY <1>4, <2>1
<1>6. \A k \in 1..(Len(h.exts) + 1) : ExtAt(h, k) \in Nat
  <2> TAKE k \in 1..(Len(h.exts) + 1)
  <2>1. k - 1 \in 0..Len(h.exts) BY <1>3
  <2>2. Len(Flat(Encoded(h), k - 1)) \in Nat BY <2>1, <1>4
  <2>q. QED BY <1>2, <2>2 DEF ExtAt
<1>7. ExtAt(h, 1) = ExtsAt(h)
  <2>1. Len(Flat(Encoded(h), 0)) = 0 BY <1>4
  <2>q. QED BY <1>2, <2>1 DEF ExtAt
<1>8. ExtAt(h, Len(h.exts) + 1) = ExtsAt(h) + Len(FlattenSeq(Encoded(h)))
  <2>1. Len(h.exts) + 1 - 1 = Len(h.exts) BY <1>3
  <2>q. QED BY <1>4, <2>1 DEF ExtAt
<1>q. QED BY <1>1, <1>2, <1>5, <1>6, <1>7, <1>8

(* hello[33 + i] is the i-th byte after the random. *)
LEMMA ByteAt ==
  ASSUME NEW h, InOrder(h), rec = Encode(h), NEW i \in 1..Len(EncodeTail(h)),
         Len(EncodeTail(h)) \in Nat
  PROVE B(33 + i) = EncodeTail(h)[i]
<1>1. rec.tail = EncodeTail(h) BY DEF Encode, Record
<1>2. 33 + i - 34 + 1 = i /\ 33 + i >= 34 /\ 33 + i < 34 + Len(EncodeTail(h)) OBVIOUS
<1>q. QED BY <1>1, <1>2 DEF B, clientHelloRandOffset

(* The bytes of the hello hold its fields. *)
LEMMA HelloBytes == ASSUME NEW h, InOrder(h), rec = Encode(h)
  PROVE /\ rec.len = 4 + rec.hsLen /\ rec.type = 1 /\ HelloLen = ExtAt(h, Len(h.exts) + 1)
        /\ B(34) = h.session
        /\ U16(35 + h.session) = h.ciphers
        /\ B(37 + h.session + h.ciphers) = h.compression
        /\ U16(38 + h.session + h.ciphers + h.compression) = Len(FlattenSeq(Encoded(h)))
        /\ \A i \in 1..Len(FlattenSeq(Encoded(h))) :
              B(ExtsAt(h) + i - 1) = FlattenSeq(Encoded(h))[i]
<1> DEFINE t == EncodeTail(h)
           e == FlattenSeq(Encoded(h))
           s == h.session
           c == h.ciphers
           m == h.compression
<1>1. /\ s \in Nat /\ c \in Nat /\ m \in Nat /\ e \in Seq(Byte) /\ Len(e) \in Nat
      /\ ExtAt(h, Len(h.exts) + 1) = ExtsAt(h) + Len(e)
  BY Lengths
<1>2. /\ t \in Seq(Byte) /\ Len(t) = 6 + s + c + m + Len(e)
      /\ t[1] = s /\ 256 * t[2 + s] + t[3 + s] = c /\ t[4 + s + c] = m
      /\ 256 * t[5 + s + c + m] + t[6 + s + c + m] = Len(e)
      /\ \A i \in 1..Len(e) : t[6 + s + c + m + i] = e[i]
  BY <1>1, TailLayout
<1>3. ExtsAt(h) = 40 + s + c + m BY DEF ExtsAt
<1>4. rec.len = 38 + Len(t) /\ rec.type = 1 /\ rec.hsLen = 34 + Len(t) BY DEF Encode, Record
<1>5. \A i \in 1..Len(t) : B(33 + i) = t[i]
  <2>1. Len(t) \in Nat BY <1>2
  <2>q. QED BY <2>1, ByteAt
<1> HIDE DEF t, e, s, c, m
<1>6. B(33 + 1) = s BY <1>1, <1>2, <1>5
<1>7. B(33 + (2 + s)) = t[2 + s] /\ B(33 + (3 + s)) = t[3 + s] BY <1>1, <1>2, <1>5
<1>8. U16(35 + s) = c
  <2>1. 33 + (2 + s) = 35 + s /\ 33 + (3 + s) = 35 + s + 1 BY <1>1
  <2>q. QED BY <1>2, <1>7, <2>1 DEF U16
<1>9. B(33 + (4 + s + c)) = m BY <1>1, <1>2, <1>5
<1>10. 33 + (4 + s + c) = 37 + s + c BY <1>1
<1>11. B(33 + (5 + s + c + m)) = t[5 + s + c + m] /\ B(33 + (6 + s + c + m)) = t[6 + s + c + m]
  BY <1>1, <1>2, <1>5
<1>12. U16(38 + s + c + m) = Len(e)
  <2>1. 33 + (5 + s + c + m) = 38 + s + c + m /\ 33 + (6 + s + c + m) = 38 + s + c + m + 1
    BY <1>1
  <2>q. QED BY <1>2, <1>11, <2>1 DEF U16
<1>13. \A i \in 1..Len(e) : B(ExtsAt(h) + i - 1) = e[i]
  <2> TAKE i \in 1..Len(e)
  <2>1. 6 + s + c + m + i \in 1..Len(t) BY <1>1, <1>2
  <2>2. B(33 + (6 + s + c + m + i)) = e[i] BY <1>2, <1>5, <2>1
  <2>3. 33 + (6 + s + c + m + i) = ExtsAt(h) + i - 1 BY <1>1, <1>3
  <2>q. QED BY <2>2, <2>3
<1>14. HelloLen = ExtAt(h, Len(h.exts) + 1) BY <1>1, <1>2, <1>3, <1>4 DEF HelloLen
<1>15. rec.len = 4 + rec.hsLen BY <1>1, <1>2, <1>4
<1>q. QED BY <1>4, <1>6, <1>8, <1>9, <1>10, <1>12, <1>13, <1>14, <1>15 DEF e, s, c, m

(* The bytes of the hello at its k-th extension are those of the extension. *)
LEMMA ExtBytes == ASSUME NEW h, InOrder(h), rec = Encode(h), NEW k \in 1..Len(h.exts)
  PROVE LET p == ExtAt(h, k)
            d == h.exts[k].body
        IN  /\ p \in Nat /\ Len(d) \in Nat
            /\ U16(p) = h.exts[k].type /\ U16(p + 2) = Len(d)
            /\ ExtAt(h, k + 1) = p + 4 + Len(d) /\ ExtAt(h, k + 1) <= HelloLen
            /\ \A i \in 1..Len(d) : B(p + 3 + i) = d[i]
<1> DEFINE p == ExtAt(h, k)
           d == h.exts[k].body
           s == Encoded(h)
           w == FlattenSeq(Encoded(h))
           x == EncodeExt(h.exts[k])
           l == Len(Flat(Encoded(h), k - 1))
           y == Len(Flat(Encoded(h), k))
<1>1. /\ s \in Seq(Seq(Byte)) /\ Len(s) = Len(h.exts) /\ Len(h.exts) \in Nat
      /\ IsExtension(h.exts[k]) /\ s[k] = x
  BY EncodedType
<1>2. k \in 1..Len(s) BY <1>1
<1>3. /\ l \in Nat /\ Len(s[k]) \in Nat /\ y = l + Len(s[k]) /\ y <= Len(w)
      /\ \A i \in 1..Len(s[k]) : w[l + i] = s[k][i]
  BY <1>1, <1>2, FlattenAt
<1>4. /\ Len(x) = 4 + Len(d) /\ Len(d) \in Nat
      /\ 256 * x[1] + x[2] = h.exts[k].type /\ 256 * x[3] + x[4] = Len(d)
      /\ \A i \in 1..Len(d) : x[4 + i] = d[i]
  BY <1>1, EncodedExt
<1>5. ExtsAt(h) \in Nat /\ Len(w) \in Nat /\ ExtAt(h, Len(h.exts) + 1) = ExtsAt(h) + Len(w)
  BY Lengths
<1>6. /\ HelloLen = ExtAt(h, Len(h.exts) + 1)
      /\ \A i \in 1..Len(w) : B(ExtsAt(h) + i - 1) = w[i]
  BY HelloBytes
<1>7. p = ExtsAt(h) + l BY DEF ExtAt
<1>8. ExtAt(h, k + 1) = ExtsAt(h) + y
  <2>1. k + 1 - 1 = k OBVIOUS
  <2>q. QED BY <2>1 DEF ExtAt
<1> HIDE DEF p, d, s, w, x, l, y
<1>9. \A i \in 1..Len(x) : B(p + i - 1) = x[i]
  <2> TAKE i \in 1..Len(x)
  <2>1. l + i \in 1..Len(w) BY <1>1, <1>3, <1>4, <1>5
  <2>2. B(ExtsAt(h) + (l + i) - 1) = x[i] BY <1>1, <1>3, <1>6, <2>1
  <2>3. i \in Int BY <1>4
  <2>4. ExtsAt(h) + (l + i) - 1 = p + i - 1 BY <1>3, <1>5, <1>7, <2>3
  <2>q. QED BY <2>2, <2>4
<1>10. p \in Nat BY <1>3, <1>5, <1>7
<1>11. B(p + 1 - 1) = x[1] /\ B(p + 2 - 1) = x[2] /\ B(p + 3 - 1) = x[3] /\ B(p + 4 - 1) = x[4]
  <2>1. 1 \in 1..Len(x) /\ 2 \in 1..Len(x) /\ 3 \in 1..Len(x) /\ 4 \in 1..Len(x) BY <1>4
  <2>q. QED BY <1>9, <2>1
<1>12. p + 1 - 1 = p /\ p + 2 - 1 = p + 1 /\ p + 3 - 1 = p + 2 /\ p + 4 - 1 = p + 2 + 1 BY <1>10
<1>13. U16(p) = h.exts[k].type BY <1>4, <1>11, <1>12 DEF U16
<1>14. U16(p + 2) = Len(d) BY <1>4, <1>11, <1>12 DEF U16
<1>15. \A i \in 1..Len(d) : B(p + 3 + i) = d[i]
  <2> TAKE i \in 1..Len(d)
  <2>1. 4 + i \in 1..Len(x) BY <1>4
  <2>2. B(p + (4 + i) - 1) = d[i] BY <1>4, <1>9, <2>1
  <2>3. p + (4 + i) - 1 = p + 3 + i BY <1>4, <1>10
  <2>q. QED BY <2>2, <2>3
<1>16. ExtAt(h, k + 1) = p + 4 + Len(d) /\ ExtAt(h, k + 1) <= HelloLen
  <2>1. y = l + 4 + Len(d) BY <1>1, <1>3, <1>4
  <2>2. l \in Nat /\ Len(d) \in Nat /\ ExtsAt(h) \in Nat BY <1>3, <1>4, <1>5
  <2>3. ExtAt(h, k + 1) = p + 4 + Len(d) BY <1>7, <1>8, <2>1, <2>2
  <2>4. HelloLen = ExtsAt(h) + Len(w) BY <1>5, <1>6
  <2>5. y \in Nat BY <1>3, <1>4, <2>1
  <2>6. ExtAt(h, k + 1) <= HelloLen BY <1>3, <1>5, <1>8, <2>4, <2>5
  <2>q. QED BY <2>3, <2>6
<1>q. QED BY <1>4, <1>10, <1>13, <1>14, <1>15, <1>16 DEF p, d

(* A name in an extension of the hello is where parseSNI looks for it. *)
LEMMA NameBytes ==
  ASSUME NEW h, InOrder(h), rec = Encode(h), NEW k \in 1..Len(h.exts), h.exts[k].host # <<>>
  PROVE LET p == ExtAt(h, k)
            g == h.exts[k].host
        IN  /\ p \in Nat /\ U16(p) = 0 /\ Len(g) \in Nat /\ U16(p + 2) >= 5 + Len(g)
            /\ U16(p + 7) = Len(g)
            /\ \A i \in 1..Len(g) : B(p + 8 + i) = g[i]
<1> DEFINE p == ExtAt(h, k)
           d == h.exts[k].body
           g == h.exts[k].host
<1>1. /\ p \in Nat /\ Len(d) \in Nat
      /\ U16(p) = h.exts[k].type /\ U16(p + 2) = Len(d)
      /\ \A i \in 1..Len(d) : B(p + 3 + i) = d[i]
  BY ExtBytes
<1>2. /\ h.exts[k].type = 0 /\ Len(g) \in Nat /\ Len(d) >= 5 + Len(g)
      /\ 256 * d[4] + d[5] = Len(g) /\ \A i \in 1..Len(g) : d[5 + i] = g[i]
  BY NamedExt, EncodedType
<1> HIDE DEF p, d, g
<1>3. B(p + 3 + 4) = d[4] /\ B(p + 3 + 5) = d[5]
  <2>1. 4 \in 1..Len(d) /\ 5 \in 1..Len(d) BY <1>1, <1>2
  <2>q. QED BY <1>1, <2>1
<1>4. p + 3 + 4 = p + 7 /\ p + 3 + 5 = p + 7 + 1 BY <1>1
<1>5. U16(p + 7) = Len(g) BY <1>2, <1>3, <1>4 DEF U16
<1>6. \A i \in 1..Len(g) : B(p + 8 + i) = g[i]
  <2> TAKE i \in 1..Len(g)
  <2>1. 5 + i \in 1..Len(d) BY <1>1, <1>2
  <2>2. B(p + 3 + (5 + i)) = g[i] BY <1>1, <1>2, <2>1
  <2>3. p + 3 + (5 + i) = p + 8 + i BY <1>1, <1>2
  <2>q. QED BY <2>2, <2>3
<1>q. QED BY <1>1, <1>2, <1>5, <1>6 DEF p, d, g

-----------------------------------------------------------------------------
(* parseSNI on the bytes of a hello in order *)

(* What is returned is the name of h. *)
Found(h) == Text = IF Named(h) = {} THEN <<>> ELSE h.exts[CHOOSE i \in Named(h) : TRUE].host

(* The walk is at the k-th extension and has passed no name. *)
AtExtension(h, k) == pos = ExtAt(h, k) /\ \A i \in 1..(k - 1) : h.exts[i].host = <<>>

(* Where the walk over the bytes of h is: at the field it says, at the       *)
(* beginning of an extension, or at the end with the name.                   *)
Walk(h) ==
    /\ at = "session"     => pos = 34
    /\ at = "ciphers"     => pos = 35 + h.session
    /\ at = "compression" => pos = 37 + h.session + h.ciphers
    /\ at = "extensions"  => pos = 38 + h.session + h.ciphers + h.compression
    /\ at = "loop"        => end = HelloLen /\ \E k \in 1..(Len(h.exts) + 1) : AtExtension(h, k)
    /\ at = "done"        => Found(h)

(* A hello in order is long enough for the walk to begin. *)
LEMMA WalkBegins ==
  ASSUME NEW h \in Hellos, IInv, rec = Encode(h), Walk(h), Handshake PROVE Walk(h)'
<1>1. InOrder(h) BY HellosAssumption
<1>2. rec.len = 4 + rec.hsLen /\ rec.type = 1 /\ HelloLen = ExtAt(h, Len(h.exts) + 1)
  BY <1>1, HelloBytes
<1>3. rec.len \in Nat /\ rec.hsLen \in Nat BY DEF IInv, TypeOK, TlsRecord
<1>4. HelloLen >= 40
  <2>1. /\ h.session \in Nat /\ h.ciphers \in Nat /\ h.compression \in Nat
        /\ Len(FlattenSeq(Encoded(h))) \in Nat
        /\ ExtAt(h, Len(h.exts) + 1) = ExtsAt(h) + Len(FlattenSeq(Encoded(h)))
    BY <1>1, Lengths
  <2>q. QED BY <1>2, <2>1 DEF ExtsAt
<1>5. at' = "session" /\ pos' = 34
  BY <1>2, <1>3, <1>4 DEF Handshake, HasHeader, Complete, Goto, HelloLen, tlsHandshakeHdrLen,
     tlsHandshakeClientHello, clientHelloMinLen, clientHelloRandOffset
<1>q. QED BY <1>5 DEF Walk

(* A field is read where it lies, and the next one lies behind it. *)
LEMMA WalkFields ==
    ASSUME NEW h \in Hellos, IInv, rec = Encode(h), Walk(h),
           SessionID \/ CipherSuites \/ Compression \/ Extensions
    PROVE  Walk(h)'
<1> DEFINE s == h.session
           c == h.ciphers
           m == h.compression
           l == Len(FlattenSeq(Encoded(h)))
<1>1. InOrder(h) BY HellosAssumption
<1>2. /\ B(34) = s /\ U16(35 + s) = c /\ B(37 + s + c) = m /\ U16(38 + s + c + m) = l
      /\ HelloLen = ExtAt(h, Len(h.exts) + 1)
  BY <1>1, HelloBytes
<1>3. /\ s \in Nat /\ c \in Nat /\ m \in Nat /\ l \in Nat
      /\ ExtAt(h, Len(h.exts) + 1) = ExtsAt(h) + l /\ ExtAt(h, 1) = ExtsAt(h)
  BY <1>1, Lengths
<1>4. ExtsAt(h) = 40 + s + c + m BY DEF ExtsAt
<1> HIDE DEF s, c, m, l
<1>5. HelloLen = 40 + s + c + m + l BY <1>2, <1>3, <1>4
<1>6. CASE SessionID
  <2>1. pos = 34 BY <1>6 DEF SessionID, Skip1, Walk, s, c, m
  <2>2. ~ (pos + 1 > HelloLen) BY <1>3, <1>5, <2>1
  <2>3. at' = "ciphers" /\ pos' = 35 + s
    BY <1>2, <1>3, <1>6, <2>1, <2>2 DEF SessionID, Skip1, Goto
  <2>q. QED BY <2>3 DEF Walk, s, c, m
<1>7. CASE CipherSuites
  <2>1. pos = 35 + s BY <1>7 DEF CipherSuites, Walk, s, c, m
  <2>2. ~ (pos + 2 > HelloLen) BY <1>3, <1>5, <2>1
  <2>3. at' = "compression" /\ pos' = pos + 2 + U16(pos) BY <1>7, <2>2 DEF CipherSuites, Goto
  <2>4. pos' = 37 + s + c BY <1>2, <1>3, <2>1, <2>3
  <2>q. QED BY <2>3, <2>4 DEF Walk, s, c, m
<1>8. CASE Compression
  <2>1. pos = 37 + s + c BY <1>8 DEF Compression, Skip1, Walk, s, c, m
  <2>2. ~ (pos + 1 > HelloLen) BY <1>3, <1>5, <2>1
  <2>3. at' = "extensions" /\ pos' = pos + 1 + B(pos) BY <1>8, <2>2 DEF Compression, Skip1, Goto
  <2>4. pos' = 38 + s + c + m BY <1>2, <1>3, <2>1, <2>3
  <2>q. QED BY <2>3, <2>4 DEF Walk, s, c, m
<1>9. CASE Extensions
  <2>1. pos = 38 + s + c + m BY <1>9 DEF Extensions, Walk, s, c, m
  <2>2. ~ (pos + 2 > HelloLen) BY <1>3, <1>5, <2>1
  <2>3. pos + 2 + U16(pos) = HelloLen BY <1>2, <1>3, <1>5, <2>1
  <2>4. at' = "loop" /\ pos' = pos + 2 /\ end' = HelloLen /\ rec' = rec
    <3>1. HelloLen \in Nat BY <1>3, <1>5
    <3>q. QED BY <1>9, <2>2, <2>3, <3>1 DEF Extensions
  <2>5. pos' = ExtAt(h, 1) BY <1>3, <1>4, <2>1, <2>4
  <2>6. HelloLen' = HelloLen BY <2>4 DEF HelloLen
  <2>7. \A i \in 1..(1 - 1) : h.exts[i].host = <<>> OBVIOUS
  <2>8. AtExtension(h, 1)' BY <2>5, <2>7 DEF AtExtension
  <2>9. 1 \in 1..(Len(h.exts) + 1) BY <1>1, EncodedType
  <2>q. QED BY <2>4, <2>6, <2>8, <2>9 DEF Walk
<1>q. QED BY <1>6, <1>7, <1>8, <1>9

(* A turn of the loop at the k-th extension of the hello. *)
LEMMA WalkTurn ==
    ASSUME NEW h \in Hellos, IInv, rec = Encode(h), Walk(h),
           ExtensionTooLong \/ ServerName \/ NextExtension \/ NoExtension
    PROVE  Walk(h)'
<1> DEFINE L == Len(h.exts)
<1>1. InOrder(h) BY HellosAssumption
<1>2. at = "loop" BY DEF ExtensionTooLong, ServerName, NextExtension, NoExtension
<1>3. end = HelloLen BY <1>2 DEF Walk
<1>4. PICK k \in 1..(L + 1) : AtExtension(h, k) BY <1>2 DEF Walk
<1>5. pos = ExtAt(h, k) /\ \A i \in 1..(k - 1) : h.exts[i].host = <<>> BY <1>4 DEF AtExtension
<1>6. L \in Nat /\ \A i \in 1..L : IsExtension(h.exts[i]) BY <1>1, EncodedType
<1>7. HelloLen = ExtAt(h, L + 1) /\ pos \in Nat /\ HelloLen \in Nat
  BY <1>1, HelloBytes DEF IInv, TypeOK, TlsRecord, HelloLen
<1>8. CASE k = L + 1
  <2>1. ~ HasExtension BY <1>3, <1>5, <1>7, <1>8 DEF HasExtension, tlsExtHdrLen
  <2>2. NoExtension BY <2>1 DEF ExtensionTooLong, ServerName, NextExtension
  <2>3. Named(h) = {} BY <1>5, <1>6, <1>8 DEF Named
  <2>4. at' = "done" /\ name' = None BY <2>2 DEF NoExtension, Return
  <2>5. Text' = <<>> BY <2>4 DEF Text, None
  <2>6. Found(h)' BY <2>3, <2>5 DEF Found
  <2>q. QED BY <2>4, <2>6 DEF Walk
<1>9. CASE k # L + 1
  <2> DEFINE p == ExtAt(h, k)
             e == h.exts[k]
  <2>1. k \in 1..L BY <1>6, <1>9
  <2>2. /\ U16(p) = e.type /\ U16(p + 2) = Len(e.body) /\ Len(e.body) \in Nat
        /\ ExtAt(h, k + 1) = p + 4 + Len(e.body) /\ ExtAt(h, k + 1) <= HelloLen
    BY <1>1, <2>1, ExtBytes
  <2>3. pos = p /\ Body = p + 4 /\ ExtLen = Len(e.body)
    BY <1>5, <2>2 DEF Body, ExtLen, tlsExtHdrLen
  <2>4. HasExtension /\ Fits
    <3>1. p \in Nat /\ Len(e.body) \in Nat /\ end \in Nat BY <1>3, <1>7, <2>2, <2>3
    <3>2. p + 4 + Len(e.body) <= end BY <1>3, <2>2
    <3>3. PICK q \in Nat, z \in Nat : q = p /\ z = Len(e.body) BY <3>1
    <3>4. q + 4 + z <= end /\ q + 4 <= end BY <3>1, <3>2, <3>3
    <3>5. HasExtension BY <2>3, <3>3, <3>4 DEF HasExtension, tlsExtHdrLen
    <3>6. Fits BY <2>3, <3>3, <3>4 DEF Fits
    <3>q. QED BY <3>5, <3>6
  <2>5. ~ NoExtension /\ ~ ExtensionTooLong BY <2>4 DEF NoExtension, ExtensionTooLong
  <2>6. CASE e.host = <<>>
    <3>1. e.type = 0 => Len(e.body) < 5
      BY <1>6, <2>1, <2>6 DEF IsExtension, tlsExtSNI, sniExtMinLen
    <3>2. ~ IsSNI BY <2>2, <2>3, <3>1 DEF IsSNI, tlsExtSNI, sniExtMinLen
    <3>3. NextExtension BY <2>5, <3>2 DEF ServerName
    <3>4. at' = "loop" /\ pos' = Body + ExtLen /\ end' = end /\ rec' = rec
      BY <3>3 DEF NextExtension, Goto, AfterExtension
    <3>5. pos' = ExtAt(h, k + 1) BY <2>2, <2>3, <3>4
    <3>6. \A i \in 1..k : h.exts[i].host = <<>>
      <4> TAKE i \in 1..k
      <4>1. CASE i = k BY <4>1, <2>6
      <4>2. CASE i # k BY <4>2, <1>5, <2>1, <1>6
      <4>q. QED BY <4>1, <4>2
    <3>7. k + 1 \in 1..(L + 1) /\ k + 1 - 1 = k BY <1>6, <2>1
    <3>8. AtExtension(h, k + 1)' BY <3>5, <3>6, <3>7 DEF AtExtension
    <3>9. HelloLen' = HelloLen BY <3>4 DEF HelloLen
    <3>q. QED BY <1>3, <3>4, <3>7, <3>8, <3>9 DEF Walk
  <2>7. CASE e.host # <<>>
    <3> DEFINE g == h.exts[k].host
    <3>1. /\ p \in Nat /\ U16(p) = 0 /\ Len(g) \in Nat /\ U16(p + 2) >= 5 + Len(g)
          /\ U16(p + 7) = Len(g)
          /\ \A i \in 1..Len(g) : B(p + 8 + i) = g[i]
      BY <1>1, <2>1, <2>7, NameBytes
    <3>2. g \in Seq(Byte) BY <1>6, <2>1 DEF IsExtension, Extension
    <3>3. NameFrom = p + 9 /\ NameTo = p + 9 + Len(g)
      <4>1. Body + 3 = p + 7 /\ Body + 5 = p + 9 BY <2>3, <3>1
      <4>q. QED BY <3>1, <4>1 DEF NameFrom, NameTo, sniNameOffset, sniNameLenOffset
    <3>4. IsSNI /\ NameFits
      <4>1. U16(pos) = 0 /\ ExtLen \in Nat /\ ExtLen >= 5 + Len(g) /\ Len(g) \in Nat /\ p \in Nat
        BY <2>2, <2>3, <3>1
      <4>2. IsSNI BY <4>1 DEF IsSNI, tlsExtSNI, sniExtMinLen
      <4>3. PICK q \in Nat, z \in Nat, l \in Nat : q = p /\ z = Len(g) /\ l = ExtLen BY <4>1
      <4>4. NameTo = q + 9 + z /\ Body = q + 4 /\ l >= 5 + z BY <2>3, <3>3, <4>1, <4>3
      <4>5. ExtLen = l BY <4>3
      <4>6. NameTo <= Body + ExtLen BY <4>4, <4>5
      <4>q. QED BY <4>2, <4>6 DEF NameFits
    <3>5. ServerName BY <2>5, <3>4 DEF NextExtension
    <3>6. at' = "done" /\ name' = [from |-> NameFrom, to |-> NameTo] /\ rec' = rec
      BY <3>5 DEF ServerName, Return
    <3>7. k \in Named(h) /\ \A i \in Named(h) : i = k BY <1>1, <2>1, <2>7 DEF Named, InOrder
    <3>8. Named(h) # {} /\ h.exts[CHOOSE i \in Named(h) : TRUE].host = g
      <4>1. (CHOOSE i \in Named(h) : TRUE) = k BY <3>7
      <4>q. QED BY <3>7, <4>1
    <3>9. Text' = g
      <4>1. p \in Nat /\ Len(g) \in Nat /\ g = [i \in 1..Len(g) |-> g[i]] BY <3>1, <3>2, SeqIsFcn
      <4>2. name'.from = NameFrom /\ name'.to = NameTo BY <3>6
      <4>3. PICK q \in Nat, z \in Nat : q = p /\ z = Len(g) BY <4>1
      <4>4. NameFrom = q + 9 /\ NameTo = q + 9 + z BY <3>3, <4>3
      <4>5. name'.to - name'.from = z /\ name'.from = q + 9 BY <4>2, <4>4
      <4>6. Text' = [i \in 1..z |-> B(q + 9 + i - 1)'] BY <4>5 DEF Text
      <4>7. \A i \in 1..z : B(q + 9 + i - 1)' = B(q + 9 + i - 1) BY <3>6 DEF B
      <4>8. \A i \in 1..z : q + 9 + i - 1 = q + 8 + i OBVIOUS
      <4>9. \A i \in 1..z : B(q + 8 + i) = g[i] BY <3>1, <4>3
      <4>10. \A i \in 1..z : B(q + 9 + i - 1)' = g[i] BY <4>7, <4>8, <4>9
      <4>11. Text' = [i \in 1..z |-> g[i]] BY <4>6, <4>10
      <4>q. QED BY <4>1, <4>3, <4>11
    <3>10. Found(h)' BY <3>8, <3>9 DEF Found
    <3>q. QED BY <3>6, <3>10 DEF Walk
  <2>q. QED BY <2>6, <2>7
<1>q. QED BY <1>8, <1>9

(* A hello in order has 40 bytes without any field. *)
LEMMA HelloLong == ASSUME NEW h \in Hellos, rec = Encode(h) PROVE HelloLen >= 40
<1>1. InOrder(h) BY HellosAssumption
<1>2. HelloLen = ExtAt(h, Len(h.exts) + 1) BY <1>1, HelloBytes
<1>3. /\ h.session \in Nat /\ h.ciphers \in Nat /\ h.compression \in Nat
      /\ Len(FlattenSeq(Encoded(h))) \in Nat
      /\ ExtAt(h, Len(h.exts) + 1) = ExtsAt(h) + Len(FlattenSeq(Encoded(h)))
  BY <1>1, Lengths
<1>q. QED BY <1>2, <1>3 DEF ExtsAt

(* The walk over a record that encodes a hello in order is on its way. *)
Walks == \A h \in Hellos : rec = Encode(h) => Walk(h)

(* The invariant of the walk. *)
SNIInv == IInv /\ Walks

(* The walk begins before all fields. *)
LEMMA InitSNI == Init => SNIInv
<1> SUFFICES ASSUME Init PROVE SNIInv OBVIOUS
<1>1. at = "record" BY DEF Init
<1>2. Walks BY <1>1 DEF Walks, Walk
<1>q. QED BY <1>2, InitIInv DEF SNIInv

(* Every step of the walk keeps it. *)
LEMMA NextSNI == SNIInv /\ [Next]_vars => SNIInv'
<1> SUFFICES ASSUME SNIInv, [Next]_vars PROVE SNIInv' OBVIOUS
<1>1. IInv' BY NextIInv DEF SNIInv
<1>2. ASSUME NEW h \in Hellos, rec' = Encode(h) PROVE Walk(h)'
  <2>1. rec' = rec
    BY DEF vars, Next, Handshake, SessionID, Skip1, CipherSuites, Compression, Extensions,
           NoExtension, ExtensionTooLong, ServerName, NextExtension
  <2>2. rec = Encode(h) /\ Walk(h) BY <1>2, <2>1 DEF SNIInv, Walks
  <2>3. CASE Handshake BY <2>2, <2>3, WalkBegins DEF SNIInv
  <2>4. CASE SessionID \/ CipherSuites \/ Compression \/ Extensions
    BY <2>2, <2>4, WalkFields DEF SNIInv
  <2>5. CASE ExtensionTooLong \/ ServerName \/ NextExtension \/ NoExtension
    BY <2>2, <2>5, WalkTurn DEF SNIInv
  <2>6. CASE UNCHANGED vars
    BY <2>2, <2>6 DEF vars, Walk, AtExtension, Found, Text, HelloLen, B
  <2>q. QED BY <2>3, <2>4, <2>5, <2>6 DEF Next
<1>3. Walks' BY <1>2 DEF Walks
<1>q. QED BY <1>1, <1>3 DEF SNIInv

(* At the end of its way it has found the name. *)
LEMMA WalksFind == SNIInv => FindsName
BY DEF SNIInv, Walks, Walk, Found, FindsName

(* Also of a walk alone, on any set of records: parseSNI finds the name of   *)
(* every record that encodes a hello in order.                               *)
THEOREM HelloFindsName == Spec => []FindsName
<1>1. Spec => []SNIInv BY InitSNI, NextSNI, PTL DEF Spec
<1>q. QED BY <1>1, WalksFind, PTL

-----------------------------------------------------------------------------
(* What the functions of package bytes find *)

(* The needle lies at p in s. *)
Occurs(s, p) == s[p] = CR /\ s[p + 1] = LF /\ s[p + 2] = Key /\ s[p + 3] = SP

(* The places where it does. *)
Places(s) == {i \in 1..(Len(s) - 3) : Occurs(s, i)}

(* What bytes.Index compares. *)
LEMMA SubIsNeedle == ASSUME NEW S, NEW s \in Seq(S), NEW p \in 1..(Len(s) - 3)
  PROVE SubSeq(s, p, p + 3) = needle <=> Occurs(s, p)
<1>1. Len(s) \in Nat OBVIOUS
<1> DEFINE t == SubSeq(s, p, p + 3)
<1>2. t \in Seq(S) /\ Len(t) = 4 BY <1>1
<1>3. t[1] = s[p] /\ t[2] = s[p + 1] /\ t[3] = s[p + 2] /\ t[4] = s[p + 3] BY <1>1
<1> HIDE DEF t
<1>4. ASSUME t = needle PROVE Occurs(s, p) BY <1>3, <1>4 DEF needle, Occurs
<1>5. ASSUME Occurs(s, p) PROVE t = needle
  <2>1. t = <<t[1], t[2], t[3], t[4]>> BY <1>2
  <2>q. QED BY <1>3, <1>5, <2>1 DEF needle, Occurs
<1>q. QED BY <1>4, <1>5 DEF t

(* bytes.Index finds the first of these places, or none. *)
LEMMA IndexIs == ASSUME NEW S, NEW s \in Seq(S)
  PROVE Index(s, needle) = IF Places(s) # {} THEN Min(Places(s)) ELSE 0
<1>1. Len(s) \in Nat /\ Len(needle) = 4 BY DEF needle
<1> DEFINE I == {i \in 1..(Len(s) - Len(needle) + 1) : 
                    SubSeq(s, [j \in 1..Len(s) |-> j][i],
                              [j \in 1..Len(s) |-> j][i] + Len(needle) - 1) = needle}
<1>2. Index(s, needle) = IF I # {} THEN Min(I) ELSE 0 BY DEF Index, SelectInSubSeq
<1>3. 1..(Len(s) - Len(needle) + 1) = 1..(Len(s) - 3) BY <1>1
<1>4. ASSUME NEW i \in 1..(Len(s) - 3) PROVE i \in I <=> Occurs(s, i)
  <2>1. [j \in 1..Len(s) |-> j][i] = i /\ i + Len(needle) - 1 = i + 3 BY <1>1
  <2>2. i \in I <=> SubSeq(s, i, i + 3) = needle BY <1>3, <2>1
  <2>q. QED BY <2>2, SubIsNeedle
<1>5. I \subseteq 1..(Len(s) - 3) BY <1>3
<1> HIDE DEF I
<1>6. I = Places(s) BY <1>4, <1>5 DEF Places
<1>q. QED BY <1>2, <1>6

(* bytes.IndexByte finds the first place of a byte, or none. *)
LEMMA IndexByteIs == ASSUME NEW S, NEW s \in Seq(S), NEW c
  PROVE LET I == {i \in 1..Len(s) : s[i] = c} IN IndexByte(s, c) = IF I # {} THEN Min(I) ELSE 0
BY DEF IndexByte, SelectInSeq

(* It finds none if there is none. *)
LEMMA IndexByteNone == ASSUME NEW S, NEW s \in Seq(S), NEW c
  PROVE IndexByte(s, c) = 0 <=> \A i \in 1..Len(s) : s[i] # c
<1> DEFINE I == {i \in 1..Len(s) : s[i] = c}
<1>1. IndexByte(s, c) = IF I # {} THEN Min(I) ELSE 0 BY IndexByteIs
<1>2. I \subseteq Nat OBVIOUS
<1>3. I # {} => Min(I) \in I BY <1>2, MinOf
<1>4. I # {} => Min(I) # 0 BY <1>3
<1>q. QED BY <1>1, <1>4

(* It finds the first. *)
LEMMA IndexByteFirst == ASSUME NEW S, NEW s \in Seq(S), NEW c, NEW p \in 1..Len(s), s[p] = c,
                               \A i \in 1..(p - 1) : s[i] # c
  PROVE IndexByte(s, c) = p
<1> DEFINE I == {i \in 1..Len(s) : s[i] = c}
<1>1. IndexByte(s, c) = IF I # {} THEN Min(I) ELSE 0 BY IndexByteIs
<1>2. I \subseteq Int /\ p \in I OBVIOUS
<1>3. \A i \in I : p <= i OBVIOUS
<1> HIDE DEF I
<1>4. Min(I) = p BY <1>2, <1>3, MinIs
<1>q. QED BY <1>1, <1>2, <1>4

(* bytes.ToLower keeps every byte that is not of a letter of several bytes,  *)
(* and puts only bytes of such letters for the others.                       *)
LEMMA LowerPieces == ASSUME NEW s \in Seq(Char)
  PROVE /\ Lowered(s) \in Seq(Seq(Char)) /\ Len(Lowered(s)) = Len(s) /\ Len(s) \in Nat
        /\ \A i \in 1..Len(s) : s[i] \notin Wide => Lowered(s)[i] = <<s[i]>>
        /\ \A i \in 1..Len(s) : s[i] \in Wide =>
             \A j \in 1..Len(Lowered(s)[i]) : Lowered(s)[i][j] = Raw
<1> DEFINE w == Lowered(s)
<1>1. Raw \in Char BY DEF Char, Wide
<1>2. Len(s) \in Nat /\ w = [i \in 1..Len(s) |-> w[i]] BY DEF Lowered
<1>3. ASSUME NEW i \in 1..Len(s)
      PROVE  \/ s[i] \notin Wide /\ w[i] = <<s[i]>>
             \/ s[i] \in Wide /\ w[i] \in {<<>>, <<Raw>>, <<Raw, Raw, Raw>>}
  <2>1. CASE s[i] \notin Wide
    <3>1. ~(LetterAt(s, i) /\ s[i] = Short) /\ ~(s[i] = Cont /\ LetterAt(s, i - 1))
      BY <2>1 DEF Wide
    <3>q. QED BY <2>1, <3>1 DEF Lowered
  <2>2. CASE s[i] \in Wide BY <2>2 DEF Lowered
  <2>q. QED BY <2>1, <2>2
<1> HIDE DEF w
<1>4. ASSUME NEW i \in 1..Len(s) PROVE w[i] \in Seq(Char)
  <2>1. s[i] \in Char OBVIOUS
  <2>2. <<>> \in Seq(Char) /\ <<Raw>> \in Seq(Char) /\ <<Raw, Raw, Raw>> \in Seq(Char)
        /\ <<s[i]>> \in Seq(Char)
    BY <1>1, <2>1
  <2>q. QED BY <1>3, <2>2
<1>5. w \in Seq(Seq(Char)) /\ Len(w) = Len(s)
  <2>1. w \in [1..Len(s) -> Seq(Char)] BY <1>2, <1>4
  <2>q. QED BY <1>2, <2>1
<1>6. ASSUME NEW i \in 1..Len(s), s[i] \in Wide, NEW j \in 1..Len(w[i]) PROVE w[i][j] = Raw
  <2>1. CASE w[i] = <<>> BY <2>1
  <2>2. CASE w[i] = <<Raw>> BY <2>2
  <2>3. CASE w[i] = <<Raw, Raw, Raw>> BY <2>3
  <2>q. QED BY <1>3, <1>6, <2>1, <2>2, <2>3
<1>q. QED BY <1>2, <1>3, <1>5, <1>6 DEF w

(* As far as every byte keeps its length, bytes.ToLower keeps it in its      *)
(* place, by induction over the places.                                      *)
LEMMA LowerPlain == ASSUME NEW s \in Seq(Char), NEW m \in 0..Len(s), \A i \in 1..m : s[i] \notin Wide
  PROVE /\ ToLower(s) \in Seq(Char) /\ Len(ToLower(s)) \in Nat /\ Len(ToLower(s)) >= m
        /\ \A i \in 1..m : ToLower(s)[i] = s[i]
        /\ m = Len(s) => Len(ToLower(s)) = m
<1> DEFINE w == Lowered(s)
<1>1. /\ w \in Seq(Seq(Char)) /\ Len(w) = Len(s) /\ Len(s) \in Nat
      /\ \A i \in 1..Len(s) : s[i] \notin Wide => w[i] = <<s[i]>>
  BY LowerPieces
<1> HIDE DEF w
<1>2. /\ Flat(w, 0) = <<>> /\ Flat(w, Len(w)) = ToLower(s)
      /\ \A k \in 0..Len(w) : Flat(w, k) \in Seq(Char) /\ Len(Flat(w, k)) \in Nat
  BY <1>1, FlatStep DEF ToLower, w
<1>3. ToLower(s) \in Seq(Char) /\ Len(ToLower(s)) \in Nat
  <2>1. Len(w) \in 0..Len(w) BY <1>1
  <2>q. QED BY <1>2, <2>1
<1> DEFINE P(k) == k <= m => Len(Flat(w, k)) = k
           T == {k \in Nat : P(k)}
<1>4. P(0) BY <1>2
<1>5. ASSUME NEW k \in Nat, P(k) PROVE P(k + 1)
  <2>1. SUFFICES ASSUME k + 1 <= m PROVE Len(Flat(w, k + 1)) = k + 1 OBVIOUS
  <2>2. k + 1 \in 1..Len(w) /\ k + 1 \in 1..Len(s) /\ k + 1 \in 1..m /\ k + 1 - 1 = k
    BY <1>1, <2>1
  <2>3. Len(Flat(w, k + 1)) = Len(Flat(w, k + 1 - 1)) + Len(w[k + 1])
    <3>1. PICK j \in 1..Len(w) : j = k + 1 BY <2>2
    <3>2. Len(Flat(w, j)) = Len(Flat(w, j - 1)) + Len(w[j]) BY <1>1, FlattenAt
    <3>q. QED BY <3>1, <3>2
  <2>4. Len(Flat(w, k + 1)) = Len(Flat(w, k)) + Len(w[k + 1]) BY <2>2, <2>3
  <2>5. Len(w[k + 1]) = 1
    <3>1. w[k + 1] = <<s[k + 1]>> BY <1>1, <2>2
    <3>q. QED BY <3>1
  <2>6. Len(Flat(w, k)) = k BY <1>5, <2>1
  <2>q. QED BY <2>4, <2>5, <2>6
<1> HIDE DEF P
<1>6. Nat \subseteq T
  <2>1. 0 \in T BY <1>4
  <2>2. \A k \in Nat : k \in T => k + 1 \in T BY <1>5
  <2> HIDE DEF T
  <2>q. QED BY <2>1, <2>2, Induction
<1>7. \A k \in 0..m : Len(Flat(w, k)) = k BY <1>6 DEF P
<1>8. Len(ToLower(s)) >= m
  <2>1. m \in 0..Len(w) /\ Len(w) \in m..Len(w) /\ m \in 0..m BY <1>1
  <2>2. Len(Flat(w, m)) <= Len(Flat(w, Len(w))) BY <1>1, <2>1, FlatGrows
  <2>q. QED BY <1>2, <1>3, <1>7, <2>1, <2>2
<1>9. \A i \in 1..m : ToLower(s)[i] = s[i]
  <2> TAKE i \in 1..m
  <2>1. i \in 1..Len(w) /\ i \in 1..Len(s) /\ i - 1 \in 0..m BY <1>1
  <2>2. w[i] = <<s[i]>> BY <1>1, <2>1
  <2>3. \A j \in 1..Len(w[i]) : FlattenSeq(w)[Len(Flat(w, i - 1)) + j] = w[i][j]
    BY <1>1, <2>1, FlattenAt
  <2>4. FlattenSeq(w)[(i - 1) + 1] = s[i] 
    <3>1. Len(w[i]) = 1 /\ w[i][1] = s[i] BY <2>2
    <3>2. Len(Flat(w, i - 1)) = i - 1 BY <1>7, <2>1
    <3>q. QED BY <2>3, <3>1, <3>2
  <2>5. (i - 1) + 1 = i OBVIOUS
  <2>q. QED BY <2>4, <2>5 DEF ToLower, w
<1>10. m = Len(s) => Len(ToLower(s)) = m
  <2>1. m \in 0..m BY <1>1
  <2>q. QED BY <1>1, <1>2, <1>7, <2>1
<1>q. QED BY <1>3, <1>8, <1>9, <1>10

(* If no byte before the last becomes longer, a blank of the lower-case copy *)
(* lies no further on than the one it is: the pieces before it add up to no  *)
(* more bytes than they were made of.                                        *)
LEMMA LowerBlank ==
  ASSUME NEW s \in Seq(Char), \A i \in 1..(Len(s) - 1) : Len(Lowered(s)[i]) <= 1,
         NEW p \in 1..Len(ToLower(s)), ToLower(s)[p] = SP
  PROVE  p <= Len(s)
<1> DEFINE w == Lowered(s)
<1>1. /\ w \in Seq(Seq(Char)) /\ Len(w) = Len(s) /\ Len(s) \in Nat
      /\ \A i \in 1..Len(s) : s[i] \notin Wide => w[i] = <<s[i]>>
      /\ \A i \in 1..Len(s) : s[i] \in Wide => \A j \in 1..Len(w[i]) : w[i][j] = Raw
  BY LowerPieces
<1>2. \A i \in 1..(Len(s) - 1) : Len(w[i]) <= 1 OBVIOUS
<1>3. p \in 1..Len(FlattenSeq(w)) /\ FlattenSeq(w)[p] = SP BY DEF ToLower
<1> HIDE DEF w
<1> DEFINE P(k) == k < Len(s) => Len(Flat(w, k)) <= k
           T == {k \in Nat : P(k)}
<1>4. P(0) BY <1>1, FlatStep
<1>5. ASSUME NEW k \in Nat, P(k) PROVE P(k + 1)
  <2>1. SUFFICES ASSUME k + 1 < Len(s) PROVE Len(Flat(w, k + 1)) <= k + 1 OBVIOUS
  <2>2. PICK j \in 1..Len(w) : j = k + 1 /\ j \in 1..(Len(s) - 1) /\ j - 1 = k BY <1>1, <2>1
  <2>3. /\ Len(Flat(w, j - 1)) \in Nat /\ Len(w[j]) \in Nat
        /\ Len(Flat(w, j)) = Len(Flat(w, j - 1)) + Len(w[j])
    BY <1>1, FlattenAt
  <2>4. Len(Flat(w, k)) <= k BY <1>1, <1>5, <2>1
  <2>5. Len(w[j]) <= 1 BY <1>2, <2>2
  <2>q. QED BY <2>2, <2>3, <2>4, <2>5
<1> HIDE DEF P
<1>6. Nat \subseteq T
  <2>1. 0 \in T BY <1>4
  <2>2. \A k \in Nat : k \in T => k + 1 \in T BY <1>5
  <2> HIDE DEF T
  <2>q. QED BY <2>1, <2>2, Induction
<1>7. PICK k \in 1..Len(w) : Len(Flat(w, k - 1)) < p /\ p <= Len(Flat(w, k))
  BY <1>1, <1>3, FlattenWhere
<1>8. /\ Len(Flat(w, k - 1)) \in Nat /\ Len(w[k]) \in Nat
      /\ Len(Flat(w, k)) = Len(Flat(w, k - 1)) + Len(w[k])
      /\ \A i \in 1..Len(w[k]) : FlattenSeq(w)[Len(Flat(w, k - 1)) + i] = w[k][i]
  BY <1>1, FlattenAt
<1>9. PICK j \in 1..Len(w[k]) : p = Len(Flat(w, k - 1)) + j
  <2>1. p \in Nat BY <1>3
  <2>2. PICK x \in Nat, y \in Nat : x = Len(Flat(w, k - 1)) /\ y = Len(w[k]) BY <1>8
  <2>3. x < p /\ p <= x + y BY <1>7, <1>8, <2>2
  <2>4. PICK j \in 1..y : p = x + j
    <3>1. PICK z \in Nat : z = p BY <2>1
    <3>2. x < z /\ z <= x + y BY <2>3, <3>1
    <3>3. z - x \in 1..y /\ z = x + (z - x) BY <3>2
    <3>q. QED BY <3>1, <3>3
  <2>q. QED BY <2>2, <2>4
<1>10. w[k][j] = SP BY <1>3, <1>8, <1>9
<1>11. w[k] = <<s[k]>>
  <2>1. SP # Raw BY HttpAssumption DEF Wide
  <2>q. QED BY <1>1, <1>10, <2>1
<1>12. j = 1 BY <1>9, <1>11
<1>13. Len(Flat(w, k - 1)) <= k - 1
  <2>1. k - 1 \in Nat /\ k - 1 < Len(s) BY <1>1
  <2>2. P(k - 1) BY <1>6, <2>1
  <2>q. QED BY <2>1, <2>2 DEF P
<1>q. QED BY <1>1, <1>8, <1>9, <1>12, <1>13

(* What bytes.TrimSpace keeps. *)
Solid(s) == {i \in 1..Len(s) : s[i] \notin {SP, CR, LF}}

(* The beginning of a value, trimmed, begins the trimmed value: more bytes   *)
(* move the end of what is kept and never its beginning.                     *)
LEMMA TrimPrefix == ASSUME NEW a \in Seq(Char), NEW b \in Seq(Char), IsPrefix(a, b)
  PROVE IsPrefix(TrimSpace(a), TrimSpace(b))
<1>1. Len(a) \in Nat /\ Len(b) \in Nat /\ Len(a) <= Len(b) /\ \A i \in 1..Len(a) : a[i] = b[i]
  BY PrefixIs
<1>2. TrimSpace(a) = IF Solid(a) = {} THEN <<>> ELSE SubSeq(a, Min(Solid(a)), Max(Solid(a)))
  BY DEF TrimSpace, Solid
<1>3. TrimSpace(b) = IF Solid(b) = {} THEN <<>> ELSE SubSeq(b, Min(Solid(b)), Max(Solid(b)))
  BY DEF TrimSpace, Solid
<1>4. Solid(a) \subseteq Solid(b) /\ \A i \in Solid(b) : i <= Len(a) => i \in Solid(a)
  BY <1>1 DEF Solid
<1>5. Solid(a) \subseteq 1..Len(a) /\ Solid(b) \subseteq 1..Len(b) BY DEF Solid
<1>6. \A s \in Seq(Char) : <<>> \in Seq(Char) /\ IsPrefix(<<>>, s)
  <2> TAKE s \in Seq(Char)
  <2>1. <<>> \in Seq(Char) /\ Len(<<>>) = 0 /\ Len(s) \in Nat OBVIOUS
  <2>2. Len(<<>>) <= Len(s) /\ \A i \in 1..Len(<<>>) : <<>>[i] = s[i] BY <2>1
  <2>q. QED BY <2>1, <2>2, PrefixIs, Zenon
<1>7. CASE Solid(a) = {}
  <2>1. CASE Solid(b) = {} BY <1>2, <1>3, <1>6, <1>7, <2>1
  <2>2. CASE Solid(b) # {}
    <3>1. Min(Solid(b)) \in Solid(b) /\ Max(Solid(b)) \in Solid(b)
      <4>1. Solid(b) \subseteq Nat /\ Solid(b) \subseteq 0..Len(b) BY <1>1, <1>5
      <4>q. QED BY <1>1, <2>2, <4>1, MinOf, MaxOf
    <3>2. SubSeq(b, Min(Solid(b)), Max(Solid(b))) \in Seq(Char)
      <4>1. Min(Solid(b)) \in 1..Len(b) /\ Max(Solid(b)) \in 1..Len(b) BY <1>5, <3>1
      <4>q. QED BY <1>1, <4>1
    <3>q. QED BY <1>2, <1>3, <1>6, <1>7, <2>2, <3>2
  <2>q. QED BY <2>1, <2>2
<1>8. CASE Solid(a) # {}
  <2> DEFINE x == Min(Solid(a))
             y == Max(Solid(a))
             z == Max(Solid(b))
  <2>1. x \in Solid(a) /\ (\A i \in Solid(a) : x <= i) /\ y \in Solid(a)
    <3>1. Solid(a) \subseteq Nat /\ Solid(a) \subseteq 0..Len(a) BY <1>1, <1>5
    <3>q. QED BY <1>1, <1>8, <3>1, MinOf, MaxOf
  <2>2. Solid(b) # {} BY <1>4, <1>8
  <2>3. z \in Solid(b) /\ \A i \in Solid(b) : z >= i
    <3>1. Solid(b) \subseteq 0..Len(b) BY <1>1, <1>5
    <3>q. QED BY <1>1, <2>2, <3>1, MaxOf
  <2>4. Min(Solid(b)) = x
    <3>1. \A i \in Solid(b) : x <= i
      <4> TAKE i \in Solid(b)
      <4>1. i \in Int /\ x \in 1..Len(a) BY <1>5, <2>1
      <4>2. CASE i <= Len(a) BY <1>4, <2>1, <4>2
      <4>3. CASE i > Len(a) BY <1>1, <4>1, <4>3
      <4>q. QED BY <1>1, <4>1, <4>2, <4>3
    <3>2. x \in Solid(b) /\ Solid(b) \subseteq Int BY <1>4, <1>5, <2>1
    <3>q. QED BY <3>1, <3>2, MinIs
  <2>5. y <= z /\ x \in 1..Len(a) /\ y \in 1..Len(a) /\ z \in 1..Len(b) /\ x <= y
    BY <1>4, <1>5, <2>1, <2>3
  <2> HIDE DEF x, y, z
  <2> DEFINE u == SubSeq(a, x, y)
             v == SubSeq(b, x, z)
  <2>6. u \in Seq(Char) /\ Len(u) = y - x + 1 /\ \A i \in 1..(y - x + 1) : u[i] = a[x + i - 1]
    BY <1>1, <2>5
  <2>7. v \in Seq(Char) /\ Len(v) = z - x + 1 /\ \A i \in 1..(z - x + 1) : v[i] = b[x + i - 1]
    BY <1>1, <2>5
  <2> HIDE DEF u, v
  <2>8. Len(u) <= Len(v) BY <1>1, <2>5, <2>6, <2>7
  <2>9. \A i \in 1..Len(u) : u[i] = v[i]
    <3> TAKE i \in 1..Len(u)
    <3>1. i \in 1..(y - x + 1) /\ i \in 1..(z - x + 1) /\ x + i - 1 \in 1..Len(a)
      BY <1>1, <2>5, <2>6
    <3>q. QED BY <1>1, <2>6, <2>7, <3>1
  <2>10. IsPrefix(u, v) BY <2>6, <2>7, <2>8, <2>9, PrefixIs
  <2>q. QED BY <1>2, <1>3, <1>8, <2>2, <2>4, <2>10 DEF x, y, z, u, v
<1>q. QED BY <1>7, <1>8

-----------------------------------------------------------------------------
(* The bytes of a request *)

(* A request has lines and a body of characters. *)
RequestOK == head \in Seq(Lines) /\ body \in Seq(Char)

(* How many bytes lie before the k-th line. *)
LineAt(k) == Len(Flat(HeadLines, k - 1))

(* A line, alone and with its end. *)
LEMMA LineType == ASSUME NEW l \in Lines
  PROVE /\ l \in Seq(Char) /\ Len(l) \in Nat \ {0}
        /\ Line(l) \in Seq(Char) /\ Len(Line(l)) = Len(l) + 2
        /\ \A i \in 1..Len(l) : Line(l)[i] = l[i] /\ l[i] # CR /\ l[i] # LF
        /\ Line(l)[Len(l) + 1] = CR /\ Line(l)[Len(l) + 2] = LF
<1>1. l \in Seq(Char) /\ l # <<>> /\ \A i \in 1..Len(l) : l[i] # CR /\ l[i] # LF
  BY HttpAssumption
<1>2. Len(l) \in Nat /\ Len(l) # 0 BY <1>1
<1> DEFINE e == <<CR, LF>>
<1>3. e \in Seq(Char) /\ Len(e) = 2 /\ e[1] = CR /\ e[2] = LF BY DEF Char
<1>4. Line(l) = Cat(l, e) BY DEF Line, Cat
<1> HIDE DEF e
<1>5. Cat(l, e) \in Seq(Char) /\ Joined(Cat(l, e), l, e) BY <1>1, <1>3, CatJoined
<1>6. Cat(l, e) \in Seq(Char) /\ Len(Cat(l, e)) = Len(l) + Len(e) BY <1>5 DEF Joined
<1>7. \A i \in 1..Len(l) : Cat(l, e)[i] = l[i] BY <1>5 DEF Joined
<1>8. \A i \in 1..Len(e) : Cat(l, e)[Len(l) + i] = e[i] BY <1>5 DEF Joined
<1>9. Cat(l, e)[Len(l) + 1] = CR /\ Cat(l, e)[Len(l) + 2] = LF
  <2>1. 1 \in 1..Len(e) /\ 2 \in 1..Len(e) BY <1>3
  <2>q. QED BY <1>3, <1>8, <2>1
<1>q. QED BY <1>1, <1>2, <1>3, <1>4, <1>6, <1>7, <1>9

(* The lines of a request. *)
LEMMA HeadLinesType == ASSUME RequestOK
  PROVE /\ HeadLines \in Seq(Seq(Char)) /\ Len(HeadLines) = Len(head) /\ Len(head) \in Nat
        /\ \A k \in 1..Len(head) : head[k] \in Lines /\ HeadLines[k] = Line(head[k])
<1>1. Len(head) \in Nat /\ \A k \in 1..Len(head) : head[k] \in Lines BY DEF RequestOK
<1>2. \A k \in 1..Len(head) : Line(head[k]) \in Seq(Char) BY <1>1, LineType
<1>q. QED BY <1>1, <1>2 DEF HeadLines

(* The data of a request: its lines, each followed by CR LF, one more CR LF, *)
(* and the body.                                                             *)
LEMMA DataType == ASSUME RequestOK
  PROVE LET L == Len(FlattenSeq(HeadLines))
        IN  /\ L \in Nat /\ Len(HeadData) = L + 2 /\ data \in Seq(Char)
            /\ Len(data) >= L + 2 /\ Len(data) \in Nat
            /\ data[L + 1] = CR /\ data[L + 2] = LF
            /\ \A i \in 1..L : data[i] = FlattenSeq(HeadLines)[i]
<1> DEFINE f == FlattenSeq(HeadLines)
           e == <<CR, LF>>
           b == body
           c == Cat(f, e)
           d == Cat(c, b)
<1>1. f \in Seq(Char)
  <2>1. HeadLines \in Seq(Seq(Char)) /\ Len(HeadLines) \in 0..Len(HeadLines) BY HeadLinesType
  <2>q. QED BY <2>1, FlatStep
<1>2. e \in Seq(Char) /\ Len(e) = 2 /\ e[1] = CR /\ e[2] = LF BY DEF Char
<1>3. HeadData = c BY DEF HeadData, Cat
<1>4. data = d BY <1>3 DEF data, Cat
<1>5. b \in Seq(Char) /\ Len(b) \in Nat BY DEF RequestOK
<1> HIDE DEF f, e, b
<1>6. c \in Seq(Char) /\ Joined(c, f, e) /\ Len(f) \in Nat BY <1>1, <1>2, CatJoined
<1>7. c \in Seq(Char) /\ Len(c) = Len(f) + Len(e) /\ Len(f) \in Nat BY <1>6 DEF Joined
<1>8. \A i \in 1..Len(f) : c[i] = f[i] BY <1>6 DEF Joined
<1>9. \A i \in 1..Len(e) : c[Len(f) + i] = e[i] BY <1>6 DEF Joined
<1>10. c[Len(f) + 1] = CR /\ c[Len(f) + 2] = LF
  <2>1. 1 \in 1..Len(e) /\ 2 \in 1..Len(e) BY <1>2
  <2>q. QED BY <1>2, <1>9, <2>1
<1> HIDE DEF c
<1>11. d \in Seq(Char) /\ Joined(d, c, b) BY <1>5, <1>7, CatJoined
<1>12. d \in Seq(Char) /\ Len(d) = Len(c) + Len(b) BY <1>11 DEF Joined
<1>13. \A i \in 1..Len(c) : d[i] = c[i] BY <1>11 DEF Joined
<1> HIDE DEF d
<1>14. Len(c) = Len(f) + 2 BY <1>2, <1>7
<1>15. Len(d) >= Len(f) + 2 /\ Len(d) \in Nat BY <1>5, <1>7, <1>12, <1>14
<1>16. d[Len(f) + 1] = CR /\ d[Len(f) + 2] = LF
  <2>1. Len(f) + 1 \in 1..Len(c) /\ Len(f) + 2 \in 1..Len(c) BY <1>7, <1>14
  <2>q. QED BY <1>10, <1>13, <2>1
<1>17. \A i \in 1..Len(f) : d[i] = f[i]
  <2> TAKE i \in 1..Len(f)
  <2>1. i \in 1..Len(c) BY <1>7, <1>14
  <2>q. QED BY <1>8, <1>13, <2>1
<1>q. QED BY <1>3, <1>4, <1>7, <1>12, <1>14, <1>15, <1>16, <1>17 DEF f

(* Where the k-th line lies in the data. *)
LEMMA LineBytes == ASSUME RequestOK, NEW k \in 1..Len(head)
  PROVE LET l == head[k]
            p == LineAt(k)
        IN  /\ p \in Nat /\ Len(l) \in Nat \ {0} /\ LineAt(k + 1) = p + Len(l) + 2
            /\ LineAt(k + 1) + 2 <= Len(HeadData) /\ Len(HeadData) <= Len(data)
            /\ \A i \in 1..Len(l) : data[p + i] = l[i] /\ l[i] # CR /\ l[i] # LF
            /\ data[p + Len(l) + 1] = CR /\ data[p + Len(l) + 2] = LF
<1> DEFINE l == head[k]
           p == LineAt(k)
           s == HeadLines
           f == FlattenSeq(HeadLines)
           y == Len(Flat(HeadLines, k))
<1>1. /\ s \in Seq(Seq(Char)) /\ Len(s) = Len(head) /\ Len(head) \in Nat
      /\ l \in Lines /\ s[k] = Line(l)
  BY HeadLinesType
<1>2. /\ l \in Seq(Char) /\ Len(l) \in Nat \ {0} /\ Len(Line(l)) = Len(l) + 2
      /\ \A i \in 1..Len(l) : Line(l)[i] = l[i] /\ l[i] # CR /\ l[i] # LF
      /\ Line(l)[Len(l) + 1] = CR /\ Line(l)[Len(l) + 2] = LF
  BY <1>1, LineType
<1>3. k \in 1..Len(s) BY <1>1
<1>4. /\ p \in Nat /\ y = p + Len(s[k]) /\ y <= Len(f)
      /\ \A i \in 1..Len(s[k]) : f[p + i] = s[k][i]
  BY <1>1, <1>3, FlattenAt DEF LineAt
<1>5. /\ Len(f) \in Nat /\ Len(HeadData) = Len(f) + 2
      /\ Len(data) >= Len(f) + 2 /\ Len(data) \in Nat
      /\ \A i \in 1..Len(f) : data[i] = f[i]
  BY DataType
<1>6. LineAt(k + 1) = y
  <2>1. k + 1 - 1 = k OBVIOUS
  <2>q. QED BY <2>1 DEF LineAt
<1> HIDE DEF l, p, s, f, y
<1>7. y = p + Len(l) + 2
  <2>1. Len(s[k]) = Len(l) + 2 BY <1>1, <1>2
  <2>2. p \in Nat /\ Len(l) \in Nat BY <1>1, <1>2, <1>4
  <2>3. y = p + Len(s[k]) BY <1>1, <1>2, <1>4
  <2>4. y = p + (Len(l) + 2) BY <2>1, <2>3
  <2>q. QED BY <2>2, <2>4
<1>8. \A i \in 1..(Len(l) + 2) : data[p + i] = Line(l)[i]
  <2> TAKE i \in 1..(Len(l) + 2)
  <2>1. p \in Nat /\ Len(l) \in Nat /\ Len(f) \in Nat /\ y <= Len(f) BY <1>2, <1>4, <1>5
  <2>2. p + i \in 1..Len(f) BY <1>7, <2>1
  <2>3. i \in 1..Len(s[k]) BY <1>1, <1>2
  <2>q. QED BY <1>1, <1>4, <1>5, <2>2, <2>3
<1>9. \A i \in 1..Len(l) : data[p + i] = l[i] /\ l[i] # CR /\ l[i] # LF
  <2> TAKE i \in 1..Len(l)
  <2>1. i \in 1..(Len(l) + 2) BY <1>2
  <2>q. QED BY <1>2, <1>8, <2>1
<1>10. data[p + (Len(l) + 1)] = CR /\ data[p + (Len(l) + 2)] = LF
  <2>1. Len(l) + 1 \in 1..(Len(l) + 2) /\ Len(l) + 2 \in 1..(Len(l) + 2) BY <1>2
  <2>q. QED BY <1>2, <1>8, <2>1
<1>11. p + (Len(l) + 1) = p + Len(l) + 1 /\ p + (Len(l) + 2) = p + Len(l) + 2 BY <1>2, <1>4
<1>12. LineAt(k + 1) + 2 <= Len(HeadData) /\ Len(HeadData) <= Len(data)
  <2>1. y \in Nat /\ Len(f) \in Nat /\ y <= Len(f) BY <1>2, <1>4, <1>5, <1>7
  <2>2. Len(HeadData) = Len(f) + 2 /\ Len(data) >= Len(f) + 2 BY <1>5
  <2>q. QED BY <1>6, <2>1, <2>2
<1>q. QED BY <1>2, <1>4, <1>6, <1>7, <1>9, <1>10, <1>11, <1>12 DEF l, p

(* Lines lie one after the other. *)
LEMMA LineOrder == ASSUME RequestOK, NEW k \in 1..(Len(head) + 1), NEW j \in k..(Len(head) + 1)
  PROVE LineAt(k) \in Nat /\ LineAt(j) \in Nat /\ LineAt(k) <= LineAt(j)
<1>1. HeadLines \in Seq(Seq(Char)) /\ Len(HeadLines) = Len(head) /\ Len(head) \in Nat
  BY HeadLinesType
<1>2. /\ k - 1 \in 0..Len(HeadLines) /\ j - 1 \in (k - 1)..Len(HeadLines)
      /\ j - 1 \in 0..Len(HeadLines)
  BY <1>1
<1>3. Len(Flat(HeadLines, k - 1)) <= Len(Flat(HeadLines, j - 1)) BY <1>1, <1>2, FlatGrows
<1>4. Len(Flat(HeadLines, k - 1)) \in Nat /\ Len(Flat(HeadLines, j - 1)) \in Nat
  BY <1>1, <1>2, FlatStep
<1>q. QED BY <1>3, <1>4 DEF LineAt

(* The empty line ends the head. *)
LEMMA HeadEnd == ASSUME RequestOK
  PROVE /\ LineAt(Len(head) + 1) \in Nat /\ Len(HeadData) = LineAt(Len(head) + 1) + 2
        /\ data[LineAt(Len(head) + 1) + 1] = CR /\ data[LineAt(Len(head) + 1) + 2] = LF
<1>1. HeadLines \in Seq(Seq(Char)) /\ Len(HeadLines) = Len(head) /\ Len(head) \in Nat
  BY HeadLinesType
<1>2. Flat(HeadLines, Len(head)) = FlattenSeq(HeadLines) BY <1>1, FlatStep
<1>3. Len(head) + 1 - 1 = Len(head) BY <1>1
<1>4. LineAt(Len(head) + 1) = Len(FlattenSeq(HeadLines)) BY <1>2, <1>3 DEF LineAt
<1>q. QED BY <1>4, DataType

(* Every place of the head before its end belongs to a line or ends one. *)
LEMMA WhereInHead == ASSUME RequestOK, NEW p \in 1..(Len(HeadData) - 2)
  PROVE \E k \in 1..Len(head) :
          /\ LineAt(k) < p
          /\ \/ p - LineAt(k) \in 1..Len(head[k]) /\ data[p] = head[k][p - LineAt(k)]
                /\ data[p] # CR /\ data[p] # LF
             \/ p + 1 = LineAt(k + 1) /\ data[p] = CR
             \/ p = LineAt(k + 1) /\ data[p] = LF
<1>1. HeadLines \in Seq(Seq(Char)) /\ Len(HeadLines) = Len(head) /\ Len(head) \in Nat
  BY HeadLinesType
<1>2. p \in 1..Len(FlattenSeq(HeadLines)) BY DataType
<1>3. PICK k \in 1..Len(head) : Len(Flat(HeadLines, k - 1)) < p /\ p <= Len(Flat(HeadLines, k))
  BY <1>1, <1>2, FlattenWhere
<1> DEFINE l == head[k]
           q == LineAt(k)
<1>4. /\ q \in Nat /\ Len(l) \in Nat /\ LineAt(k + 1) = q + Len(l) + 2
      /\ \A i \in 1..Len(l) : data[q + i] = l[i] /\ l[i] # CR /\ l[i] # LF
      /\ data[q + Len(l) + 1] = CR /\ data[q + Len(l) + 2] = LF
  BY LineBytes
<1>5. q < p /\ p <= LineAt(k + 1)
  <2>1. k + 1 - 1 = k OBVIOUS
  <2>q. QED BY <1>3, <2>1 DEF LineAt
<1>6. p \in Int OBVIOUS
<1> HIDE DEF l, q
<1>7. CASE p <= q + Len(l)
  <2>1. p - q \in 1..Len(l) /\ q + (p - q) = p BY <1>4, <1>5, <1>6, <1>7
  <2>2. data[p] = l[p - q] /\ data[p] # CR /\ data[p] # LF BY <1>4, <2>1
  <2>q. QED BY <1>5, <2>1, <2>2 DEF l, q
<1>8. CASE p = q + Len(l) + 2
  <2>1. p = LineAt(k + 1) /\ data[p] = LF BY <1>4, <1>8
  <2>q. QED BY <1>5, <2>1 DEF q
<1>9. CASE p = q + Len(l) + 1 
  <2>1. p + 1 = LineAt(k + 1) /\ data[p] = CR BY <1>4, <1>9
  <2>q. QED BY <1>5, <2>1 DEF q
<1>10. p <= q + Len(l) \/ p = q + Len(l) + 1 \/ p = q + Len(l) + 2
  <2>1. q \in Nat /\ Len(l) \in Nat /\ p <= q + Len(l) + 2 BY <1>4, <1>5
  <2>q. QED BY <1>6, <2>1
<1>q. QED BY <1>7, <1>8, <1>9, <1>10

(* Plain lines make plain data. *)
LEMMA PlainData ==
  ASSUME RequestOK, NEW k \in 1..(Len(head) + 1), PlainBefore(k), NEW p \in 1..LineAt(k)
  PROVE data[p] \notin Wide
<1>1. Len(head) \in Nat BY HeadLinesType
<1>2. p \in 1..(Len(HeadData) - 2)
  <2>1. Len(head) + 1 \in k..(Len(head) + 1) BY <1>1
  <2>2. LineAt(k) \in Nat /\ LineAt(k) <= LineAt(Len(head) + 1) BY <2>1, LineOrder
  <2>3. LineAt(Len(head) + 1) \in Nat /\ Len(HeadData) = LineAt(Len(head) + 1) + 2 BY HeadEnd
  <2>q. QED BY <2>2, <2>3
<1>3. PICK i \in 1..Len(head) :
          /\ LineAt(i) < p
          /\ \/ p - LineAt(i) \in 1..Len(head[i]) /\ data[p] = head[i][p - LineAt(i)]
             \/ data[p] = CR
             \/ data[p] = LF
  BY <1>2, WhereInHead
<1>4. i \in 1..(k - 1)
  <2>1. SUFFICES ASSUME i >= k PROVE FALSE BY <1>1
  <2>2. i \in k..(Len(head) + 1) BY <1>1, <2>1
  <2>3. LineAt(k) \in Nat /\ LineAt(i) \in Nat /\ LineAt(k) <= LineAt(i) BY <2>2, LineOrder
  <2>4. p <= LineAt(k) /\ p \in Int OBVIOUS
  <2>q. QED BY <1>3, <2>3, <2>4
<1>5. CR \notin Wide /\ LF \notin Wide BY HttpAssumption
<1>6. CASE p - LineAt(i) \in 1..Len(head[i]) /\ data[p] = head[i][p - LineAt(i)]
  <2>1. \A j \in 1..Len(head[i]) : head[i][j] \notin Wide BY <1>4 DEF PlainBefore
  <2>q. QED BY <1>6, <2>1
<1>q. QED BY <1>3, <1>5, <1>6

(* What a Host header begins with. *)
LEMMA HostLineIs == ASSUME RequestOK, NEW k
  PROVE k \in HostLines <=> /\ k \in 2..Len(head)
                            /\ Len(head[k]) >= 2 /\ head[k][1] = Key /\ head[k][2] = SP
<1>1. Len(head) \in Nat BY HeadLinesType
<1>2. ASSUME k \in 2..Len(head)
      PROVE IsPrefix(<<Key, SP>>, head[k]) <=>
              Len(head[k]) >= 2 /\ head[k][1] = Key /\ head[k][2] = SP
  <2> DEFINE a == <<Key, SP>>
             b == head[k]
  <2>1. b \in Seq(Char)
    <3>1. k \in 1..Len(head) BY <1>1, <1>2
    <3>q. QED BY <3>1, HeadLinesType, LineType
  <2>2. a \in Seq(Char) /\ Len(a) = 2 /\ a[1] = Key /\ a[2] = SP BY DEF Char
  <2> HIDE DEF a, b
  <2>3. IsPrefix(a, b) <=> Len(a) <= Len(b) /\ \A i \in 1..Len(a) : a[i] = b[i]
    BY <2>1, <2>2, PrefixIs
  <2>4. (\A i \in 1..Len(a) : a[i] = b[i]) <=> b[1] = Key /\ b[2] = SP
    <3>1. 1..Len(a) = {1, 2} BY <2>2
    <3>q. QED BY <2>2, <3>1
  <2>5. Len(a) <= Len(b) <=> Len(b) >= 2 BY <2>1, <2>2
  <2>q. QED BY <2>3, <2>4, <2>5 DEF a, b
<1>q. QED BY <1>2 DEF HostLines

(* A Host header makes an occurrence of the needle. *)
LEMMA HostNeedle == ASSUME RequestOK, NEW k \in HostLines
  PROVE /\ k \in 2..Len(head) /\ LineAt(k) \in Nat /\ LineAt(k) >= 2 /\ Occurs(data, LineAt(k) - 1)
        /\ LineAt(k) + Len(head[k]) + 4 <= Len(HeadData)
        /\ Len(head[k]) \in Nat /\ Len(head[k]) >= 2
<1> DEFINE p == LineAt(k)
<1>1. Len(head) \in Nat BY HeadLinesType
<1>2. k \in 2..Len(head) /\ Len(head[k]) >= 2 /\ head[k][1] = Key /\ head[k][2] = SP
  BY HostLineIs
<1>3. k \in 1..Len(head) /\ k - 1 \in 1..Len(head) /\ k - 1 + 1 = k BY <1>1, <1>2
<1>4. /\ p \in Nat /\ Len(head[k]) \in Nat \ {0} /\ LineAt(k + 1) = p + Len(head[k]) + 2
      /\ LineAt(k + 1) + 2 <= Len(HeadData)
      /\ \A i \in 1..Len(head[k]) : data[p + i] = head[k][i]
  BY <1>3, LineBytes
<1>5. PICK j \in 1..Len(head) : j = k - 1 BY <1>3
<1>6. /\ LineAt(j) \in Nat /\ Len(head[j]) \in Nat \ {0}
      /\ LineAt(j + 1) = LineAt(j) + Len(head[j]) + 2
      /\ data[LineAt(j) + Len(head[j]) + 1] = CR /\ data[LineAt(j) + Len(head[j]) + 2] = LF
  BY LineBytes
<1>7. p = LineAt(j) + Len(head[j]) + 2 BY <1>3, <1>5, <1>6
<1> HIDE DEF p
<1>8. data[p - 1] = CR /\ data[p] = LF /\ p >= 2
  <2>1. p - 1 = LineAt(j) + Len(head[j]) + 1 BY <1>6, <1>7
  <2>2. p >= 2 BY <1>6, <1>7
  <2>q. QED BY <1>6, <1>7, <2>1, <2>2
<1>9. data[p + 1] = Key /\ data[p + 2] = SP
  <2>1. 1 \in 1..Len(head[k]) /\ 2 \in 1..Len(head[k]) BY <1>2, <1>4
  <2>q. QED BY <1>2, <1>4, <2>1
<1>10. Occurs(data, p - 1)
  <2>1. p - 1 + 1 = p /\ p - 1 + 2 = p + 1 /\ p - 1 + 3 = p + 2 BY <1>4
  <2>q. QED BY <1>8, <1>9, <2>1 DEF Occurs
<1>11. p + Len(head[k]) + 4 <= Len(HeadData)
  <2>1. p \in Nat /\ Len(head[k]) \in Nat /\ p + Len(head[k]) + 2 + 2 <= Len(HeadData) BY <1>4
  <2>2. p + Len(head[k]) + 2 + 2 = p + Len(head[k]) + 4 BY <2>1
  <2>q. QED BY <2>1, <2>2
<1>q. QED BY <1>2, <1>4, <1>8, <1>10, <1>11 DEF p

(* The head has no other: a line never contains CR, so what follows CR LF is *)
(* the beginning of a line.                                                  *)
LEMMA NeedleIsHost == ASSUME RequestOK, NEW p \in 1..(Len(HeadData) - 3), Occurs(data, p)
  PROVE \E k \in HostLines : p = LineAt(k) - 1
<1>1. Len(head) \in Nat BY HeadLinesType
<1>2. data[p] = CR /\ data[p + 2] = Key /\ data[p + 3] = SP BY DEF Occurs
<1>3. CR # LF /\ CR # Key /\ CR # SP BY HttpAssumption
<1>4. LineAt(Len(head) + 1) \in Nat /\ Len(HeadData) = LineAt(Len(head) + 1) + 2
      /\ data[LineAt(Len(head) + 1) + 1] = CR
  BY HeadEnd
<1>5. p \in 1..(Len(HeadData) - 2) BY <1>4
<1>6. PICK k \in 1..Len(head) : p + 1 = LineAt(k + 1) BY <1>2, <1>3, <1>5, WhereInHead
<1>7. k # Len(head)
  <2>1. SUFFICES ASSUME k = Len(head) PROVE FALSE OBVIOUS
  <2>2. LineAt(k + 1) = LineAt(Len(head) + 1) BY <2>1
  <2>3. p + 2 = LineAt(Len(head) + 1) + 1 BY <1>4, <1>6, <2>2
  <2>q. QED BY <1>2, <1>3, <1>4, <2>3
<1>8. PICK j \in 1..Len(head) : j = k + 1 BY <1>1, <1>7
<1> DEFINE l == head[j]
           q == LineAt(j)
<1>9. /\ q \in Nat /\ Len(l) \in Nat \ {0}
      /\ \A i \in 1..Len(l) : data[q + i] = l[i]
      /\ data[q + Len(l) + 1] = CR
  BY LineBytes
<1>10. q = p + 1 BY <1>6, <1>8
<1> HIDE DEF l, q
<1>11. data[q + 1] = Key /\ data[q + 2] = SP
  <2>1. q + 1 = p + 2 /\ q + 2 = p + 3 BY <1>10
  <2>q. QED BY <1>2, <2>1
<1>12. Len(l) >= 2
  <2>1. Len(l) \in Nat /\ Len(l) # 0 BY <1>9
  <2>2. ASSUME Len(l) = 1 PROVE FALSE
    <3>1. q + Len(l) + 1 = q + 2 BY <1>9, <2>2
    <3>q. QED BY <1>3, <1>9, <1>11, <3>1
  <2>3. PICK z \in Nat : z = Len(l) BY <2>1
  <2>4. z # 0 /\ z # 1 BY <2>1, <2>2, <2>3
  <2>5. z >= 2 BY <2>4
  <2>q. QED BY <2>3, <2>5
<1>13. l[1] = Key /\ l[2] = SP
  <2>1. 1 \in 1..Len(l) /\ 2 \in 1..Len(l) BY <1>9, <1>12
  <2>q. QED BY <1>9, <1>11, <2>1
<1>14. j \in 2..Len(head) BY <1>1, <1>8
<1>15. j \in HostLines BY <1>12, <1>13, <1>14, HostLineIs DEF l
<1>16. p = q - 1 BY <1>9, <1>10
<1>q. QED BY <1>15, <1>16 DEF q

(* The buffer is the beginning of the data. *)
LEMMA BufType == ASSUME RequestOK, NEW m \in 0..Len(data)
  PROVE Buf(m) \in Seq(Char) /\ Len(Buf(m)) = m /\ \A i \in 1..m : Buf(m)[i] = data[i]
<1>1. data \in Seq(Char) BY DataType
<1>q. QED BY <1>1, FrontType DEF Buf

-----------------------------------------------------------------------------
(* parseHostHeader *)

(* If the first Host header has begun, and no byte before it changes its     *)
(* length in lower case, the needle is found in it.                          *)
LEMMA FirstHost ==
    ASSUME RequestOK, NEW m \in HostLines, \A k \in HostLines : m <= k,
           NEW c \in 1..Len(data), LineAt(m) + 2 <= c, PlainBefore(m)
    PROVE  Index(ToLower(Buf(c)), needle) = LineAt(m) - 1
<1> DEFINE x == LineAt(m)
           d == Buf(c)
           w == ToLower(d)
<1>1. Len(head) \in Nat BY HeadLinesType
<1>2. /\ m \in 2..Len(head) /\ x \in Nat /\ x >= 2 /\ Occurs(data, x - 1)
      /\ x + Len(head[m]) + 4 <= Len(HeadData) /\ Len(head[m]) \in Nat
  BY HostNeedle
<1>3. c \in 0..Len(data) /\ Len(data) \in Nat /\ Len(HeadData) \in Nat BY DataType
<1>4. d \in Seq(Char) /\ Len(d) = c /\ \A i \in 1..c : d[i] = data[i] BY <1>3, BufType
<1>5. \A i \in 1..x : data[i] \notin Wide
  <2>1. m \in 1..(Len(head) + 1) BY <1>1, <1>2
  <2>q. QED BY <2>1, PlainData
<1>6. data[x + 1] = Key /\ data[x + 2] = SP /\ Key \notin Wide /\ SP \notin Wide
  <2>1. x - 1 + 2 = x + 1 /\ x - 1 + 3 = x + 2 BY <1>2
  <2>q. QED BY <1>2, <2>1, HttpAssumption DEF Occurs
<1>7. x + 2 <= c /\ x + 2 \in 0..Len(d) BY <1>2, <1>4
<1> HIDE DEF x, d
<1>8. \A i \in 1..(x + 2) : d[i] = data[i] /\ d[i] \notin Wide
  <2> TAKE i \in 1..(x + 2)
  <2>1. d[i] = data[i] BY <1>2, <1>4, <1>7
  <2>2. i \in 1..x \/ i = x + 1 \/ i = x + 2 BY <1>2
  <2>q. QED BY <1>5, <1>6, <2>1, <2>2
<1>9. w \in Seq(Char) /\ Len(w) \in Nat /\ Len(w) >= x + 2 /\ \A i \in 1..(x + 2) : w[i] = d[i]
  BY <1>4, <1>7, <1>8, LowerPlain
<1> HIDE DEF w
<1>10. \A i \in 1..(x + 2) : w[i] = data[i] BY <1>8, <1>9
<1>11. \A p \in 1..(x - 1) : Occurs(w, p) <=> Occurs(data, p)
  <2> TAKE p \in 1..(x - 1)
  <2>1. p \in 1..(x + 2) /\ p + 1 \in 1..(x + 2) /\ p + 2 \in 1..(x + 2) /\ p + 3 \in 1..(x + 2)
    BY <1>2
  <2>q. QED BY <1>10, <2>1 DEF Occurs
<1>12. x - 1 \in Places(w)
  <2>1. x - 1 \in 1..(Len(w) - 3) /\ x - 1 \in 1..(x - 1) BY <1>2, <1>9
  <2>q. QED BY <1>2, <1>11, <2>1 DEF Places
<1>13. \A p \in Places(w) : x - 1 <= p
  <2> SUFFICES ASSUME NEW p \in Places(w), p < x - 1 PROVE FALSE
    BY <1>2, <1>9 DEF Places
  <2>1. p \in 1..(Len(w) - 3) /\ Occurs(w, p) BY DEF Places
  <2>2. p \in 1..(x - 1) /\ p \in 1..(Len(HeadData) - 3) BY <1>2, <1>3, <1>9, <2>1
  <2>3. PICK k \in HostLines : p = LineAt(k) - 1 BY <1>11, <2>1, <2>2, NeedleIsHost
  <2>4. k \in m..(Len(head) + 1) /\ m \in 1..(Len(head) + 1)
    <3>1. k \in 2..Len(head) BY HostNeedle
    <3>q. QED BY <1>1, <1>2, <3>1
  <2>5. x \in Nat /\ LineAt(k) \in Nat /\ x <= LineAt(k) BY <2>4, LineOrder DEF x
  <2>q. QED BY <2>3, <2>5
<1>14. Places(w) \subseteq Int BY DEF Places
<1>15. Min(Places(w)) = x - 1 BY <1>12, <1>13, <1>14, MinIs
<1>16. Index(w, needle) = x - 1 BY <1>9, <1>12, <1>15, IndexIs
<1>q. QED BY <1>16 DEF w, d, x

(* What is found in a head that was cut off is its first Host header. *)
LEMMA CutFinds ==
    ASSUME RequestOK, NEW c \in 1..Len(data), c < Len(HeadData), PlainBefore(Len(head) + 1),
           Index(ToLower(Buf(c)), needle) # 0
    PROVE  /\ HostLines # {} /\ LineAt(Min(HostLines)) + 2 <= c
           /\ Index(ToLower(Buf(c)), needle) = LineAt(Min(HostLines)) - 1
<1> DEFINE d == Buf(c)
           w == ToLower(d)
           idx == Index(w, needle)
           e == LineAt(Len(head) + 1)
           m == Min(HostLines)
<1>1. Len(head) \in Nat BY HeadLinesType
<1>2. c \in 0..Len(data) /\ Len(data) \in Nat /\ Len(HeadData) \in Nat BY DataType
<1>3. d \in Seq(Char) /\ Len(d) = c /\ \A i \in 1..c : d[i] = data[i] BY <1>2, BufType
<1>4. e \in Nat /\ Len(HeadData) = e + 2 /\ data[e + 1] = CR BY HeadEnd
<1>5. \A i \in 1..c : data[i] \notin Wide
  <2>1. Len(head) + 1 \in 1..(Len(head) + 1) BY <1>1
  <2>2. \A i \in 1..e : data[i] \notin Wide BY <2>1, PlainData
  <2>3. CR \notin Wide BY HttpAssumption
  <2> HIDE DEF e
  <2> TAKE i \in 1..c
  <2>4. i \in 1..e \/ i = e + 1 BY <1>2, <1>4
  <2>q. QED BY <1>4, <2>2, <2>3, <2>4
<1> HIDE DEF d, e
<1>6. w \in Seq(Char) /\ Len(w) = c /\ \A i \in 1..c : w[i] = data[i]
  <2>1. c \in 0..Len(d) /\ \A i \in 1..c : d[i] \notin Wide BY <1>2, <1>3, <1>5
  <2>2. Len(w) = c /\ w \in Seq(Char) /\ \A i \in 1..c : w[i] = d[i] BY <1>3, <2>1, LowerPlain
  <2>q. QED BY <1>3, <2>2
<1>7. idx # 0 BY DEF d
<1> HIDE DEF w
<1>8. Places(w) # {} /\ idx = Min(Places(w)) BY <1>6, <1>7, IndexIs
<1> HIDE DEF idx
<1>9. idx \in Places(w)
  <2>1. Places(w) \subseteq Nat BY DEF Places
  <2>q. QED BY <1>8, <2>1, MinOf
<1>10. idx \in 1..(c - 3) /\ Occurs(w, idx) BY <1>6, <1>9 DEF Places
<1>11. Occurs(data, idx)
  <2>1. idx \in 1..c /\ idx + 1 \in 1..c /\ idx + 2 \in 1..c /\ idx + 3 \in 1..c BY <1>2, <1>10
  <2>q. QED BY <1>6, <1>10, <2>1 DEF Occurs
<1>12. idx \in 1..(Len(HeadData) - 3) BY <1>2, <1>10
<1>13. PICK k \in HostLines : idx = LineAt(k) - 1 BY <1>11, <1>12, NeedleIsHost
<1>14. m \in HostLines /\ \A j \in HostLines : m <= j
  <2>1. HostLines \subseteq Nat BY DEF HostLines
  <2>q. QED BY <1>13, <2>1, MinOf
<1> HIDE DEF m
<1>15. m \in 2..Len(head) /\ k \in 2..Len(head) /\ m <= k BY <1>14, HostNeedle
<1>16. LineAt(m) \in Nat /\ LineAt(k) \in Nat /\ LineAt(m) <= LineAt(k)
  <2>1. m \in 1..(Len(head) + 1) /\ k \in m..(Len(head) + 1) BY <1>1, <1>15
  <2>q. QED BY <2>1, LineOrder
<1>17. LineAt(m) + 2 <= c BY <1>2, <1>10, <1>13, <1>16
<1>18. PlainBefore(m)
  <2>1. 1..(m - 1) \subseteq 1..(Len(head) + 1 - 1) BY <1>1, <1>15
  <2>q. QED BY <2>1 DEF PlainBefore
<1>19. Index(ToLower(Buf(c)), needle) = LineAt(m) - 1 BY <1>14, <1>17, <1>18, FirstHost
<1>q. QED BY <1>14, <1>17, <1>19 DEF m

(* What follows "host: " in the buffer and in the line. *)
LEMMA ValueBytes ==
    ASSUME RequestOK, NEW m \in HostLines, NEW c \in 1..Len(data), LineAt(m) + 2 <= c
    PROVE  LET x == LineAt(m)
               l == head[m]
               rest == SubSeq(Buf(c), x + 3, c)
               v == SubSeq(l, 3, Len(l))
           IN  /\ x \in Nat /\ Len(l) \in Nat /\ Len(l) >= 2 /\ c \in Nat
               /\ rest \in Seq(Char) /\ Len(rest) = c - x - 2
               /\ \A i \in 1..(c - x - 2) : rest[i] = data[x + 2 + i]
               /\ v \in Seq(Char) /\ Len(v) = Len(l) - 2
               /\ \A i \in 1..(Len(l) - 2) : v[i] = data[x + 2 + i] /\ v[i] # CR /\ v[i] # LF
               /\ data[x + Len(l) + 1] = CR
<1> DEFINE x == LineAt(m)
           l == head[m]
           d == Buf(c)
           rest == SubSeq(d, x + 3, c)
           v == SubSeq(l, 3, Len(l))
<1>1. Len(head) \in Nat BY HeadLinesType
<1>2. m \in 2..Len(head) /\ x \in Nat /\ Len(l) \in Nat /\ Len(l) >= 2 BY HostNeedle
<1>3. m \in 1..Len(head) BY <1>1, <1>2
<1>4. l \in Seq(Char) BY <1>3, HeadLinesType, LineType
<1>5. \A i \in 1..Len(l) : data[x + i] = l[i] /\ l[i] # CR /\ l[i] # LF BY <1>3, LineBytes
<1>6. data[x + Len(l) + 1] = CR BY <1>3, LineBytes
<1>7. c \in 0..Len(data) /\ c \in Nat /\ x + 2 <= c BY DataType
<1>8. d \in Seq(Char) /\ Len(d) = c /\ \A i \in 1..c : d[i] = data[i] BY <1>7, BufType
<1> HIDE DEF x, l, d
<1>9. /\ rest \in Seq(Char) /\ Len(rest) = c - x - 2
      /\ \A i \in 1..(c - x - 2) : rest[i] = data[x + 2 + i]
  <2>1. x + 3 \in 1..(Len(d) + 1) /\ c \in (x + 3 - 1)..Len(d) BY <1>2, <1>7, <1>8
  <2>2. c - (x + 3) + 1 = c - x - 2 BY <1>2, <1>7
  <2>3. /\ rest \in Seq(Char) /\ Len(rest) = c - x - 2
        /\ \A i \in 1..(c - x - 2) : rest[i] = d[x + 3 + i - 1]
    BY <1>8, <2>1, <2>2, SubType
  <2>4. ASSUME NEW i \in 1..(c - x - 2) PROVE d[x + 3 + i - 1] = data[x + 2 + i]
    <3>1. x + 3 + i - 1 = x + 2 + i /\ x + 2 + i \in 1..c BY <1>2, <1>7
    <3>q. QED BY <1>8, <3>1
  <2>q. QED BY <2>3, <2>4
<1>10. /\ v \in Seq(Char) /\ Len(v) = Len(l) - 2
      /\ \A i \in 1..(Len(l) - 2) : v[i] = data[x + 2 + i] /\ v[i] # CR /\ v[i] # LF
  <2>1. 3 \in 1..(Len(l) + 1) /\ Len(l) \in (3 - 1)..Len(l) /\ Len(l) - 3 + 1 = Len(l) - 2
    BY <1>2
  <2>2. /\ v \in Seq(Char) /\ Len(v) = Len(l) - 2
        /\ \A i \in 1..(Len(l) - 2) : v[i] = l[3 + i - 1]
    BY <1>4, <2>1, SubType
  <2>3. ASSUME NEW i \in 1..(Len(l) - 2)
        PROVE l[3 + i - 1] = data[x + 2 + i] /\ l[3 + i - 1] # CR /\ l[3 + i - 1] # LF
    <3>1. PICK j \in 1..Len(l) : j = 3 + i - 1 BY <1>2
    <3>2. x + j = x + 2 + i BY <1>2, <3>1
    <3>q. QED BY <1>5, <3>1, <3>2
  <2>q. QED BY <2>2, <2>3
<1>q. QED BY <1>2, <1>6, <1>7, <1>9, <1>10 DEF x, l, d

(* Where the value ends in what follows the needle. *)
Stop(rest) == IF IndexByte(rest, CR) # 0 THEN IndexByte(rest, CR) ELSE IndexByte(rest, LF)

(* parseHostHeader, once the needle is found there. *)
LEMMA ParseAt ==
    ASSUME RequestOK, NEW c \in 1..Len(data), NEW x \in Nat, x >= 2, x + 2 <= c,
           Index(ToLower(Buf(c)), needle) = x - 1
    PROVE  LET rest == SubSeq(Buf(c), x + 3, c)
           IN  /\ parseHostHeader(Buf(c)) =
                    TrimSpace(IF Stop(rest) = 0 THEN rest ELSE SubSeq(rest, 1, Stop(rest) - 1))
               /\ ~Panics(Buf(c))
<1>1. c \in 0..Len(data) /\ c \in Nat BY DataType
<1>2. Len(Buf(c)) = c BY <1>1, BufType
<1>3. Len(needle) = 4 BY DEF needle
<1>4. x - 1 # 0 /\ x - 1 + Len(needle) = x + 3 /\ ~(x + 3 > c + 1) BY <1>1, <1>3
<1>q. QED BY <1>2, <1>4, Zenon DEF parseHostHeader, Panics, Stop

(* Without the needle there is no host. *)
LEMMA ParseNone ==
    ASSUME NEW d, Index(ToLower(d), needle) = 0
    PROVE  parseHostHeader(d) = <<>> /\ ~Panics(d)
BY DEF parseHostHeader, Panics

(* The Host header is there up to its end: the result is its value. *)
LEMMA WholeValue ==
    ASSUME RequestOK, NEW m \in HostLines, NEW c \in 1..Len(data),
           LineAt(m) + Len(head[m]) + 1 <= c,
           Index(ToLower(Buf(c)), needle) = LineAt(m) - 1
    PROVE  /\ parseHostHeader(Buf(c)) = TrimSpace(SubSeq(head[m], 3, Len(head[m])))
           /\ ~Panics(Buf(c))
<1> DEFINE x == LineAt(m)
           l == head[m]
           rest == SubSeq(Buf(c), x + 3, c)
           v == SubSeq(l, 3, Len(l))
<1>1. x \in Nat /\ x >= 2 /\ Len(l) \in Nat /\ Len(l) >= 2 BY HostNeedle
<1>2. x + Len(l) + 1 <= c OBVIOUS
<1>3. c \in Nat BY DataType
<1>4. Index(ToLower(Buf(c)), needle) = x - 1 OBVIOUS
<1> HIDE DEF x, l
<1>5. x + 2 <= c BY <1>1, <1>2, <1>3
<1>6. /\ rest \in Seq(Char) /\ Len(rest) = c - x - 2
      /\ \A i \in 1..(c - x - 2) : rest[i] = data[x + 2 + i]
      /\ v \in Seq(Char) /\ Len(v) = Len(l) - 2
      /\ \A i \in 1..(Len(l) - 2) : v[i] = data[x + 2 + i] /\ v[i] # CR /\ v[i] # LF
      /\ data[x + Len(l) + 1] = CR
  BY <1>5, ValueBytes DEF x, l
<1>7. /\ parseHostHeader(Buf(c)) =
           TrimSpace(IF Stop(rest) = 0 THEN rest ELSE SubSeq(rest, 1, Stop(rest) - 1))
      /\ ~Panics(Buf(c))
  BY <1>1, <1>5, <1>4, ParseAt
<1> HIDE DEF rest, v
<1>8. IndexByte(rest, CR) = Len(l) - 1
  <2>1. /\ Len(l) - 1 \in 1..Len(rest) /\ Len(l) - 1 \in 1..(c - x - 2)
        /\ x + 2 + (Len(l) - 1) = x + Len(l) + 1
    BY <1>1, <1>2, <1>3, <1>6
  <2>2. rest[Len(l) - 1] = CR BY <1>6, <2>1
  <2>3. ASSUME NEW i \in 1..(Len(l) - 1 - 1) PROVE rest[i] # CR
    <3>1. i \in 1..(c - x - 2) /\ i \in 1..(Len(l) - 2) BY <1>1, <1>2, <1>3
    <3>q. QED BY <1>6, <3>1
  <2>q. QED BY <1>6, <2>1, <2>2, <2>3, IndexByteFirst
<1>9. SubSeq(rest, 1, Len(l) - 2) = v
  <2>1. Len(l) - 2 \in 0..Len(rest) BY <1>1, <1>2, <1>3, <1>6
  <2> DEFINE t == SubSeq(rest, 1, Len(l) - 2)
  <2>2. t \in Seq(Char) /\ Len(t) = Len(l) - 2 /\ \A i \in 1..(Len(l) - 2) : t[i] = rest[i]
    BY <1>6, <2>1, FrontType
  <2> HIDE DEF t
  <2>3. ASSUME NEW i \in 1..(Len(l) - 2) PROVE t[i] = v[i]
    <3>1. i \in 1..(c - x - 2) BY <1>1, <1>2, <1>3
    <3>q. QED BY <1>6, <2>2, <3>1
  <2>4. t = v
    <3>1. t \in Seq(Char) /\ v \in Seq(Char) /\ Len(t) = Len(v) /\ \A i \in 1..Len(t) : t[i] = v[i]
      BY <1>6, <2>2, <2>3
    <3>q. QED BY <3>1
  <2>q. QED BY <2>4 DEF t
<1>10. parseHostHeader(Buf(c)) = TrimSpace(v)
  <2>1. Len(l) - 1 # 0 /\ Len(l) - 1 - 1 = Len(l) - 2
    <3>1. PICK z \in Nat : z = Len(l) BY <1>1
    <3>2. z >= 2 BY <1>1, <3>1
    <3>3. z - 1 # 0 /\ z - 1 - 1 = z - 2 BY <3>2
    <3>q. QED BY <3>1, <3>3
  <2>2. Stop(rest) = Len(l) - 1 BY <1>8, <2>1 DEF Stop
  <2>q. QED BY <1>7, <1>9, <2>1, <2>2
<1>q. QED BY <1>7, <1>10 DEF v, l

(* The Host header is cut off: the result is a part of its value. *)
LEMMA PartValue ==
    ASSUME RequestOK, NEW m \in HostLines, NEW c \in 1..Len(data),
           LineAt(m) + 2 <= c, c < LineAt(m) + Len(head[m]) + 1,
           Index(ToLower(Buf(c)), needle) = LineAt(m) - 1
    PROVE  /\ IsPrefix(parseHostHeader(Buf(c)), TrimSpace(SubSeq(head[m], 3, Len(head[m]))))
           /\ ~Panics(Buf(c))
<1> DEFINE x == LineAt(m)
           l == head[m]
           rest == SubSeq(Buf(c), x + 3, c)
           v == SubSeq(l, 3, Len(l))
<1>1. x \in Nat /\ x >= 2 /\ Len(l) \in Nat /\ Len(l) >= 2 BY HostNeedle
<1>2. x + 2 <= c /\ c < x + Len(l) + 1 OBVIOUS
<1>3. c \in Nat BY DataType
<1>4. Index(ToLower(Buf(c)), needle) = x - 1 OBVIOUS
<1> HIDE DEF x, l
<1>5. /\ rest \in Seq(Char) /\ Len(rest) = c - x - 2
      /\ \A i \in 1..(c - x - 2) : rest[i] = data[x + 2 + i]
      /\ v \in Seq(Char) /\ Len(v) = Len(l) - 2
      /\ \A i \in 1..(Len(l) - 2) : v[i] = data[x + 2 + i] /\ v[i] # CR /\ v[i] # LF
  BY <1>2, ValueBytes DEF x, l
<1>6. /\ parseHostHeader(Buf(c)) =
           TrimSpace(IF Stop(rest) = 0 THEN rest ELSE SubSeq(rest, 1, Stop(rest) - 1))
      /\ ~Panics(Buf(c))
  BY <1>1, <1>2, <1>4, ParseAt
<1> HIDE DEF rest, v
<1>7. Len(rest) <= Len(v) BY <1>1, <1>2, <1>3, <1>5
<1>8. ASSUME NEW i \in 1..Len(rest) PROVE rest[i] = v[i] /\ rest[i] # CR /\ rest[i] # LF
  <2>1. i \in 1..(c - x - 2) /\ i \in 1..(Len(l) - 2) BY <1>1, <1>2, <1>3, <1>5
  <2>q. QED BY <1>5, <2>1
<1>9. IndexByte(rest, CR) = 0 /\ IndexByte(rest, LF) = 0 BY <1>5, <1>8, IndexByteNone
<1>10. parseHostHeader(Buf(c)) = TrimSpace(rest) BY <1>6, <1>9 DEF Stop
<1>11. IsPrefix(rest, v) BY <1>5, <1>7, <1>8, PrefixIs
<1>12. IsPrefix(TrimSpace(rest), TrimSpace(v)) BY <1>5, <1>11, TrimPrefix
<1>q. QED BY <1>6, <1>10, <1>12 DEF v, l

-----------------------------------------------------------------------------
(* extractHTTPHost *)

(* What extractHTTPHost returns for the buffer d. *)
Answer(d) == IF Panics(d) THEN st = "panic" ELSE st = "done" /\ host = parseHostHeader(d)

(* The buffer is a beginning of the data of a request, and what was returned *)
(* is the answer for all of it.                                              *)
HttpInv ==
    /\ RequestOK
    /\ n \in 1..Len(data)
    /\ st # "reading" => \A d : d = Buf(n) => Answer(d)

(* The whole head is in the buffer: its first Host header ends there, and    *)
(* before it no byte has moved.                                              *)
LEMMA WholeHead == HttpInv => HostOfHead
<1> SUFFICES ASSUME HttpInv, st # "reading", n >= Len(HeadData), HostLines # {},
                    PlainBefore(Min(HostLines))
             PROVE  st = "done" /\ host = HostValue
  BY DEF HostOfHead
<1> DEFINE m == Min(HostLines)
<1>1. RequestOK /\ n \in 1..Len(data) /\ Answer(Buf(n)) BY DEF HttpInv
<1>2. m \in HostLines /\ \A j \in HostLines : m <= j
  <2>1. HostLines \subseteq Nat BY DEF HostLines
  <2>q. QED BY <2>1, MinOf
<1>3. PlainBefore(m) OBVIOUS
<1> HIDE DEF m
<1>4. /\ LineAt(m) \in Nat /\ Len(head[m]) \in Nat /\ Len(head[m]) >= 2
      /\ LineAt(m) + Len(head[m]) + 4 <= Len(HeadData)
  BY <1>1, <1>2, HostNeedle
<1>5. Len(HeadData) \in Nat /\ n \in Nat BY <1>1, DataType
<1>6. LineAt(m) + 2 <= n /\ LineAt(m) + Len(head[m]) + 1 <= n BY <1>4, <1>5
<1>7. Index(ToLower(Buf(n)), needle) = LineAt(m) - 1 BY <1>1, <1>2, <1>3, <1>6, FirstHost
<1>8. /\ parseHostHeader(Buf(n)) = TrimSpace(SubSeq(head[m], 3, Len(head[m])))
      /\ ~Panics(Buf(n))
  BY <1>1, <1>2, <1>6, <1>7, WholeValue
<1>q. QED BY <1>1, <1>8 DEF Answer, HostValue, m

(* The head is cut off: nothing is found, or the first Host header, whole or *)
(* in part.                                                                  *)
LEMMA CutHead == HttpInv => CutHostIsPrefix
<1> SUFFICES ASSUME HttpInv, st # "reading", n < Len(HeadData), PlainBefore(Len(head) + 1)
             PROVE  st = "done" /\ (host = <<>> \/ (HostLines # {} /\ IsPrefix(host, HostValue)))
  BY DEF CutHostIsPrefix
<1> DEFINE m == Min(HostLines)
<1>1. RequestOK /\ n \in 1..Len(data) /\ Answer(Buf(n)) BY DEF HttpInv
<1>2. CASE Index(ToLower(Buf(n)), needle) = 0
  <2>1. parseHostHeader(Buf(n)) = <<>> /\ ~Panics(Buf(n)) BY <1>2, ParseNone
  <2>q. QED BY <1>1, <2>1 DEF Answer
<1>3. CASE Index(ToLower(Buf(n)), needle) # 0
  <2>1. /\ HostLines # {} /\ LineAt(m) + 2 <= n
        /\ Index(ToLower(Buf(n)), needle) = LineAt(m) - 1
    BY <1>1, <1>3, CutFinds
  <2>2. m \in HostLines
    <3>1. HostLines \subseteq Nat BY DEF HostLines
    <3>q. QED BY <2>1, <3>1, MinOf
  <2>3. HostValue = TrimSpace(SubSeq(head[m], 3, Len(head[m]))) BY DEF HostValue
  <2> HIDE DEF m
  <2>4. LineAt(m) \in Nat /\ Len(head[m]) \in Nat /\ n \in Nat
    BY <1>1, <2>2, HostNeedle, DataType
  <2>5. CASE LineAt(m) + Len(head[m]) + 1 <= n
    <3>1. parseHostHeader(Buf(n)) = HostValue /\ ~Panics(Buf(n))
      BY <1>1, <2>1, <2>2, <2>3, <2>5, WholeValue
    <3>2. IsPrefix(HostValue, HostValue) BY DEF IsPrefix
    <3>q. QED BY <1>1, <2>1, <3>1, <3>2 DEF Answer
  <2>6. CASE n < LineAt(m) + Len(head[m]) + 1
    <3>1. IsPrefix(parseHostHeader(Buf(n)), HostValue) /\ ~Panics(Buf(n))
      BY <1>1, <2>1, <2>2, <2>3, <2>6, PartValue
    <3>q. QED BY <1>1, <2>1, <3>1 DEF Answer
  <2>q. QED BY <2>4, <2>5, <2>6
<1>q. QED BY <1>2, <1>3

(* If no byte before the last becomes longer, the blank at the end of the    *)
(* needle lies in the buffer, and what follows it is a slice of the data.    *)
LEMMA NoPanic == HttpInv => PanicNeedsGrowth
<1> SUFFICES ASSUME HttpInv, st = "panic",
                    ~ \E i \in 1..(n - 1) : Len(Lowered(Buf(n))[i]) > 1
             PROVE  FALSE
  BY DEF PanicNeedsGrowth
<1> DEFINE d == Buf(n)
           w == ToLower(d)
           idx == Index(w, needle)
<1>1. RequestOK /\ n \in 1..Len(data) /\ Answer(d) BY DEF HttpInv
<1>2. n \in 0..Len(data) /\ n \in Nat BY <1>1, DataType
<1>3. d \in Seq(Char) /\ Len(d) = n BY <1>1, <1>2, BufType
<1>4. idx # 0 /\ idx + Len(needle) > Len(d) + 1 BY <1>1, Zenon DEF Answer, Panics
<1>5. ~ \E i \in 1..(n - 1) : Len(Lowered(d)[i]) > 1 OBVIOUS
<1> HIDE DEF d
<1>6. ASSUME NEW i \in 1..(Len(d) - 1) PROVE Len(Lowered(d)[i]) <= 1
  <2>1. i \in 1..Len(d) /\ i \in 1..(n - 1) BY <1>2, <1>3
  <2>2. Len(Lowered(d)[i]) \in Nat
    <3>1. Lowered(d) \in Seq(Seq(Char)) /\ Len(Lowered(d)) = Len(d) BY <1>3, LowerPieces
    <3>2. Lowered(d)[i] \in Seq(Char) BY <2>1, <3>1
    <3>q. QED BY <3>2
  <2>q. QED BY <1>5, <2>1, <2>2
<1>7. w \in Seq(Char) /\ Len(w) \in Nat
  <2>1. Lowered(d) \in Seq(Seq(Char)) /\ Len(Lowered(d)) \in Nat BY <1>3, LowerPieces
  <2>2. Len(Lowered(d)) \in 0..Len(Lowered(d)) BY <2>1
  <2>q. QED BY <2>1, <2>2, FlatStep DEF ToLower
<1>8. \A p \in 1..Len(w) : w[p] = SP => p <= n BY <1>3, <1>6, LowerBlank
<1> HIDE DEF w
<1>9. Places(w) # {} /\ idx = Min(Places(w)) BY <1>4, <1>7, IndexIs
<1> HIDE DEF idx
<1>10. idx \in Places(w)
  <2>1. Places(w) \subseteq Nat BY DEF Places
  <2>q. QED BY <1>9, <2>1, MinOf
<1>11. idx \in 1..(Len(w) - 3) /\ w[idx + 3] = SP BY <1>10 DEF Places, Occurs
<1>12. idx + 3 <= n
  <2>1. idx + 3 \in 1..Len(w) BY <1>7, <1>11
  <2>q. QED BY <1>8, <1>11, <2>1
<1>13. Len(needle) = 4 BY DEF needle
<1>q. QED BY <1>2, <1>3, <1>4, <1>11, <1>12, <1>13

(* Reading does not change the request. *)
LEMMA RequestStays == UNCHANGED <<head, body>> => data' = data /\ (RequestOK => RequestOK')
BY DEF data, HeadData, HeadLines, RequestOK

(* A return gives the answer for the buffer at hand. *)
LEMMA ReturnAnswers == ASSUME NEW k, NEW d, d = Buf(k), httpReturn(k) PROVE Answer(d)'
<1>1. CASE Panics(d)
  <2>1. st' = "panic" BY <1>1 DEF httpReturn
  <2>q. QED BY <1>1, <2>1 DEF Answer
<1>2. CASE ~Panics(d)
  <2>1. st' = "done" /\ host' = parseHostHeader(d) BY <1>2 DEF httpReturn
  <2>q. QED BY <1>2, <2>1 DEF Answer
<1>q. QED BY <1>1, <1>2

(* Every step of the reading loop keeps the invariant. *)
LEMMA NextHttp == HttpInv /\ [httpNext]_httpVars => HttpInv'
<1> SUFFICES ASSUME HttpInv, [httpNext]_httpVars PROVE HttpInv' OBVIOUS
<1>1. UNCHANGED <<head, body>> BY DEF httpVars, httpNext, Read, ReadFails, BufferFull
<1>2. data' = data /\ RequestOK' BY <1>1, RequestStays DEF HttpInv
<1>3. n \in 1..Len(data) /\ Len(data) \in Nat BY DataType DEF HttpInv
<1>4. n' \in 1..Len(data)
  <2>1. CASE Read BY <1>3, <2>1 DEF Read
  <2>2. CASE ReadFails \/ BufferFull \/ UNCHANGED httpVars
    BY <1>3, <2>2 DEF ReadFails, BufferFull, httpVars
  <2>q. QED BY <2>1, <2>2 DEF httpNext
<1>5. ASSUME NEW d, st' # "reading", d = SubSeq(data, 1, n') PROVE Answer(d)'
  <2>1. d = Buf(n') BY <1>5 DEF Buf
  <2>2. CASE httpReturn(n') BY <2>1, <2>2, ReturnAnswers
  <2>3. CASE Read
    <3>1. httpReturn(n') \/ UNCHANGED <<st, host>> BY <2>3 DEF Read
    <3>2. st = "reading" BY <2>3 DEF Read
    <3>q. QED BY <1>5, <2>2, <3>1, <3>2
  <2>4. CASE ReadFails \/ BufferFull
    <3>1. httpReturn(n') BY <2>4 DEF ReadFails, BufferFull
    <3>q. QED BY <2>2, <3>1
  <2>5. CASE UNCHANGED httpVars
    <3>1. st # "reading" /\ d = Buf(n) BY <1>5, <2>5 DEF httpVars, Buf
    <3>2. Answer(d) BY <3>1 DEF HttpInv
    <3>q. QED BY <2>5, <3>2 DEF Answer, httpVars
  <2>q. QED BY <2>3, <2>4, <2>5 DEF httpNext
<1>6. (st # "reading" => \A d : d = Buf(n) => Answer(d))' BY <1>2, <1>5 DEF Buf
<1>q. QED BY <1>2, <1>4, <1>6 DEF HttpInv

(* The first byte was read before the loop. *)
LEMMA InitHttp == httpInit => HttpInv
<1> SUFFICES ASSUME httpInit PROVE HttpInv OBVIOUS
<1>1. PICK k \in 1..MaxLines : head \in [1..k -> Lines] BY DEF httpInit
<1>2. head \in Seq(Lines) BY <1>1, HttpAssumption
<1>3. body \in Seq(Char) BY HttpAssumption DEF httpInit
<1>4. RequestOK BY <1>2, <1>3 DEF RequestOK
<1>5. 1 \in 1..Len(data)
  <2>1. /\ Len(FlattenSeq(HeadLines)) \in Nat /\ Len(data) \in Nat
        /\ Len(data) >= Len(FlattenSeq(HeadLines)) + 2
    BY <1>4, DataType
  <2>q. QED BY <2>1
<1>q. QED BY <1>4, <1>5 DEF HttpInv, httpInit

(* A turn of the loop returns, or the buffer grows, within its limit. *)
Grows == st' # "reading" \/ (n' > n /\ n' < httpMaxHeaderBuf + httpReadBufSize)

(* Only conn.Read makes the loop go around, and only below the limit. *)
LEMMA HttpGrows == HttpInv /\ [httpNext]_httpVars => [Grows]_httpVars
<1> SUFFICES ASSUME HttpInv, httpNext PROVE Grows OBVIOUS
<1>1. CASE Read
  <2>1. n \in Nat BY DataType DEF HttpInv
  <2>2. httpMaxHeaderBuf \in Nat /\ httpReadBufSize \in Nat BY HttpAssumption
  <2>q. QED BY <1>1, <2>1, <2>2 DEF Read, Grows
<1>2. CASE ReadFails \/ BufferFull BY <1>2 DEF ReadFails, BufferFull, httpReturn, Grows
<1>q. QED BY <1>1, <1>2 DEF httpNext

-----------------------------------------------------------------------------
(* The peek *)

(* A TLS connection has the empty request, with no host. *)
LEMMA TlsRests == IsTLS => HttpInv
<1> SUFFICES ASSUME IsTLS PROVE HttpInv OBVIOUS
<1>1. head = <<>> /\ body = <<>> /\ n = 1 /\ st = "done" /\ host = <<>> BY DEF IsTLS
<1>2. RequestOK BY <1>1 DEF RequestOK
<1>3. /\ Len(FlattenSeq(HeadLines)) \in Nat /\ Len(data) \in Nat
      /\ Len(data) >= Len(FlattenSeq(HeadLines)) + 2
      /\ Len(HeadData) = Len(FlattenSeq(HeadLines)) + 2
  BY <1>2, DataType
<1>4. 1 \in 0..Len(data) /\ 1 \in 1..Len(data) BY <1>3
<1>5. Buf(1) \in Seq(Char) /\ Len(Buf(1)) = 1 /\ Buf(1)[1] = data[1]
  <2>1. Buf(1) \in Seq(Char) /\ Len(Buf(1)) = 1 /\ \A i \in 1..1 : Buf(1)[i] = data[i]
    BY <1>2, <1>4, BufType
  <2>q. QED BY <2>1
<1>6. data[1] = CR
  <2>1. LineAt(1) = 0
    <3>1. HeadLines \in Seq(Seq(Char)) BY <1>2, HeadLinesType
    <3>2. Flat(HeadLines, 0) = <<>> BY <3>1, FlatStep
    <3>q. QED BY <3>2 DEF LineAt
  <2>2. data[LineAt(Len(head) + 1) + 1] = CR BY <1>2, HeadEnd
  <2>3. Len(head) + 1 = 1 BY <1>1
  <2>q. QED BY <2>1, <2>2, <2>3
<1>7. ToLower(Buf(1)) \in Seq(Char) /\ Len(ToLower(Buf(1))) = 1
  <2>1. 1 \in 0..Len(Buf(1)) /\ \A i \in 1..1 : Buf(1)[i] \notin Wide BY <1>5, <1>6, HttpAssumption
  <2>q. QED BY <1>5, <2>1, LowerPlain
<1>8. Places(ToLower(Buf(1))) = {}
  <2>1. \A i : i \notin 1..(1 - 3) OBVIOUS
  <2>q. QED BY <1>7, <2>1, Zenon DEF Places
<1>9. Index(ToLower(Buf(1)), needle) = 0 BY <1>7, <1>8, IndexIs
<1>10. parseHostHeader(Buf(1)) = <<>> /\ ~Panics(Buf(1)) BY <1>9, ParseNone
<1>q. QED BY <1>1, <1>2, <1>4, <1>10 DEF HttpInv, Answer

(* Any other has the empty record, which encodes no hello. *)
LEMMA HttpRests == IsHTTP => SNIInv
<1> SUFFICES ASSUME IsHTTP PROVE SNIInv OBVIOUS
<1>1. /\ rec = NoRecord /\ at = "done" /\ name = None
      /\ pos = 0 /\ end = 0 /\ limit = 0 /\ seen = 0
  BY DEF IsHTTP
<1>2. NoRecord \in TlsRecord BY DEF NoRecord, TlsRecord, Byte
<1>3. NoRecord.len = 0 /\ NoRecord.hsLen = 0 BY DEF NoRecord
<1>4. IInv
  BY <1>1, <1>2, <1>3 DEF IInv, TypeOK, InBounds, Checked, Within, Unnamed, None
<1>5. ASSUME NEW h \in Hellos, rec = Encode(h) PROVE FALSE
  <2>1. HelloLen >= 40 BY <1>5, HelloLong
  <2>q. QED BY <1>1, <1>3, <2>1 DEF HelloLen
<1>q. QED BY <1>4, <1>5 DEF SNIInv, Walks

(* The invariant of both branches. *)
PeekInv == SNIInv /\ HttpInv

(* It holds when the branch is taken. *)
LEMMA InitPeek == peekInit => PeekInv
<1>1. IsTLS => PeekInv BY InitSNI, TlsRests DEF IsTLS, PeekInv
<1>2. IsHTTP => PeekInv BY InitHttp, HttpRests DEF IsHTTP, PeekInv
<1>q. QED BY <1>1, <1>2 DEF peekInit

(* Every step of either parser keeps it. *)
LEMMA NextPeek == PeekInv /\ [peekNext]_peekVars => PeekInv'
<1> SUFFICES ASSUME PeekInv, [peekNext]_peekVars PROVE PeekInv' OBVIOUS
<1>1. [Next]_vars BY DEF peekNext, peekVars, StepSNI, StepHTTP
<1>2. [httpNext]_httpVars BY DEF peekNext, peekVars, StepSNI, StepHTTP
<1>q. QED BY <1>1, <1>2, NextSNI, NextHttp DEF PeekInv

(* Behind the results of both branches: the walk over a record that encodes  *)
(* a hello in order (extractSNI, parseSNI) is where its fields lie, and the  *)
(* answer of extractHTTPHost is that for the bytes it has read.              *)
THEOREM PeekInvariant == peekSpec => []PeekInv
BY InitPeek, NextPeek, PTL DEF peekSpec

(* parseSNI returns the host name of every hello in order, whatever lengths  *)
(* its fields have and however many extensions come before the name, and ""  *)
(* without one.                                                              *)
THEOREM SNIFindsName == peekSpec => []FindsName
<1>1. PeekInv => FindsName BY WalksFind DEF PeekInv
<1>q. QED BY <1>1, PeekInvariant, PTL

(* extractHTTPHost, with the whole head read, returns the value of the first *)
(* Host header, however the request came in pieces, and whatever its lines,  *)
(* the other headers and the body contain, if every byte before the header   *)
(* keeps its length in lower case.                                           *)
THEOREM HostFound == peekSpec => []HostOfHead
<1>1. PeekInv => HostOfHead BY WholeHead DEF PeekInv
<1>q. QED BY <1>1, PeekInvariant, PTL

(* If the head is cut off after any byte, extractHTTPHost returns a part of  *)
(* the Host header, or "", and never anything else, and it does not panic.   *)
THEOREM HostCut == peekSpec => []CutHostIsPrefix
<1>1. PeekInv => CutHostIsPrefix BY CutHead DEF PeekInv
<1>q. QED BY <1>1, PeekInvariant, PTL

(* The slice of parseHostHeader is out of range, for any request cut off     *)
(* anywhere or whole, only if bytes.ToLower makes some byte before the last  *)
(* one longer; what it makes shorter never leads there.                      *)
THEOREM HostPanic == peekSpec => []PanicNeedsGrowth
<1>1. PeekInv => PanicNeedsGrowth BY NoPanic DEF PeekInv
<1>q. QED BY <1>1, PeekInvariant, PTL

(* Whichever branch is taken, extractSNI and parseSNI read only bytes of the *)
(* slices they have made, and their offsets are numbers.                     *)
THEOREM PeekInBounds == peekSpec => [](TypeOK /\ InBounds)
<1>1. PeekInv => TypeOK /\ InBounds BY DEF PeekInv, SNIInv, IInv
<1>q. QED BY <1>1, PeekInvariant, PTL

(* extractHTTPHost takes at most as many turns as its limit has bytes, and   *)
(* its buffer never exceeds the limit by a whole read: a step of its loop    *)
(* returns, or adds a byte.                                                  *)
THEOREM HttpAdvances == peekSpec => [][Grows]_httpVars
<1>1. PeekInv /\ [peekNext]_peekVars => [Grows]_httpVars
  <2>1. [peekNext]_peekVars => [httpNext]_httpVars
    BY DEF peekNext, peekVars, StepSNI, StepHTTP
  <2>q. QED BY <2>1, HttpGrows DEF PeekInv
<1>q. QED BY <1>1, PeekInvariant, PTL DEF peekSpec
=============================================================================
