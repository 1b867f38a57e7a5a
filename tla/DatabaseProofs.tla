--------------------------- MODULE DatabaseProofs ---------------------------
(***************************************************************************)
(* Theorems about Database, for any facts that nest as deep as its key     *)
(* functions do and any patterns: keys tell facts apart, the table is      *)
(* indexed exactly, a function has one value, and the table is a set of    *)
(* facts.                                                                  *)
(***************************************************************************)
EXTENDS Database, FiniteSetTheorems, TLAPS

-----------------------------------------------------------------------------
(* Keys tell facts apart *)

\* What keys are made of.
KeyPart == Pred \cup Atom \cup Nat

\* The terms of facts, by how deep they nest.
Level1 == Ground(Atom)
Level2 == Ground(Atom \cup Level1)

\* The keys of e when B[i] are those of its i-th term.
KeysWith(e, B) ==
  {make_key_all(e)} \cup UNION {make_key_elt(e, i, B[i]) : i \in 1..Arity(e)}

\* The ends of the keys of a term whose subkeys are sub.
EltKeys(t, sub) == IF Composed(t) THEN sub ELSE {<<t>>}

LEMMA Expressions ==
  ASSUME NEW T, NEW e \in Ground(T)
  PROVE  /\ Len(e) \in Nat /\ Arity(e) \in Nat /\ Len(e) = Arity(e) + 1
         /\ Head1(e) \in Pred /\ Composed(e)
         /\ \A i \in 1..Arity(e) : e[i + 1] \in T
BY DEF Ground, Arity

LEMMA SameExpression ==
  ASSUME NEW T, NEW e \in Ground(T), NEW U, NEW f \in Ground(U),
         Head1(e) = Head1(f), Arity(e) = Arity(f),
         \A i \in 1..Arity(e) : e[i + 1] = f[i + 1]
  PROVE  e = f
<1>1. Len(e) \in Nat /\ Len(f) = Len(e) /\ Len(e) = Arity(e) + 1
  BY Expressions DEF Arity, Ground
<1>2. \A j \in 1..Len(e) : e[j] = f[j]
  <2> TAKE j \in 1..Len(e)
  <2>1. CASE j = 1
    BY <2>1 DEF Head1
  <2>2. CASE j # 1
    <3>1. j - 1 \in 1..Arity(e) /\ (j - 1) + 1 = j
      BY <1>1, <2>2 DEF Arity
    <3> QED
      BY <3>1
  <2> QED
    BY <2>1, <2>2
<1>3. e \in Seq(Pred \cup T) /\ f \in Seq(Pred \cup U)
  BY DEF Ground
<1>4. e = [j \in 1..Len(e) |-> e[j]] /\ f = [j \in 1..Len(e) |-> f[j]]
  BY <1>1, <1>3
<1> QED
  BY <1>2, <1>4

\* The key k of the i-th term of an expression of predicate h with n terms.
Prefix(h, n, i, k) == <<h, n, i>> \o k

IsPrefixed(x, h, n, i, k) ==
  /\ x \in Seq(KeyPart) /\ Len(x) = Len(k) + 3
  /\ x[1] = h /\ x[2] = n /\ x[3] = i
  /\ \A j \in 1..Len(k) : x[j + 3] = k[j]

LEMMA Prefixed ==
  ASSUME NEW h \in Pred, NEW n \in Nat, NEW i \in Nat, NEW k \in Seq(KeyPart)
  PROVE  IsPrefixed(Prefix(h, n, i, k), h, n, i, k)
<1>1. <<h, n, i>> \in Seq(KeyPart) /\ Len(<<h, n, i>>) = 3
  BY DEF KeyPart
<1> QED
  BY <1>1 DEF Prefix, IsPrefixed

LEMMA PrefixTells ==
  ASSUME NEW h \in Pred, NEW n \in Nat, NEW i \in Nat, NEW k \in Seq(KeyPart),
         NEW g \in Pred, NEW m \in Nat, NEW j \in Nat, NEW l \in Seq(KeyPart),
         NEW x, IsPrefixed(x, h, n, i, k), IsPrefixed(x, g, m, j, l)
  PROVE  h = g /\ n = m /\ i = j /\ k = l
<1>1. Len(k) = Len(l) /\ Len(k) \in Nat
  BY DEF IsPrefixed
<1>2. k = [q \in 1..Len(k) |-> k[q]] /\ l = [q \in 1..Len(k) |-> l[q]]
  BY <1>1
<1>3. k = l
  BY <1>1, <1>2 DEF IsPrefixed
<1> QED
  BY <1>3 DEF IsPrefixed

\* B gives keys to the composed terms of e.
SubKeys(B, e) ==
  \A i \in 1..Arity(e) : Composed(e[i + 1]) =>
    /\ B[i] # {}
    /\ \A k \in B[i] : k \in Seq(KeyPart) /\ Len(k) >= 3

Composeds(S) == \A t \in S : Composed(t)

LEMMA EltKeysTyped ==
  ASSUME NEW S, Composeds(S), NEW e \in Ground(Atom \cup S), NEW B, SubKeys(B, e),
         NEW i \in 1..Arity(e), NEW k \in EltKeys(e[i + 1], B[i])
  PROVE  /\ k \in Seq(KeyPart) /\ Len(k) >= 1
         /\ IF Composed(e[i + 1]) THEN k \in B[i] /\ Len(k) >= 3
            ELSE k = <<e[i + 1]>> /\ e[i + 1] \in Atom /\ Len(k) = 1
<1>1. CASE Composed(e[i + 1])
  BY <1>1 DEF EltKeys, SubKeys
<1>2. CASE ~Composed(e[i + 1])
  <2>1. k = <<e[i + 1]>>
    BY <1>2 DEF EltKeys
  <2>2. e[i + 1] \in Atom
    BY <1>2, Expressions DEF Composeds
  <2> QED
    BY <1>2, <2>1, <2>2 DEF KeyPart
<1> QED
  BY <1>1, <1>2

KeyOfTerm(x, e, B) ==
  \E i \in 1..Arity(e) : \E k \in EltKeys(e[i + 1], B[i]) :
    x = Prefix(Head1(e), Arity(e), i, k)

LEMMA KeyForms ==
  ASSUME NEW S, Composeds(S), NEW e \in Ground(Atom \cup S), NEW B, NEW x
  PROVE  x \in KeysWith(e, B) <=> x = make_key_all(e) \/ KeyOfTerm(x, e, B)
<1>1. ASSUME NEW i \in 1..Arity(e)
      PROVE  make_key_elt(e, i, B[i]) =
               {Prefix(Head1(e), Arity(e), i, k) : k \in EltKeys(e[i + 1], B[i])}
  <2>1. e[i + 1] \notin Var
    BY Expressions, TermAssumption DEF Composeds, Composed
  <2> QED
    BY <2>1 DEF make_key_elt, EltKeys, Prefix
<1>2. x \in UNION {make_key_elt(e, i, B[i]) : i \in 1..Arity(e)} <=>
        \E i \in 1..Arity(e) : x \in make_key_elt(e, i, B[i])
  OBVIOUS
<1> QED
  BY <1>1, <1>2 DEF KeysWith, KeyOfTerm

LEMMA KeysTyped ==
  ASSUME NEW S, Composeds(S), NEW e \in Ground(Atom \cup S), NEW B, SubKeys(B, e),
         NEW x \in KeysWith(e, B)
  PROVE  x \in Seq(KeyPart) /\ Len(x) >= 3
<1>e. Head1(e) \in Pred /\ Arity(e) \in Nat
  BY Expressions
<1>1. CASE x = make_key_all(e)
  BY <1>e, <1>1 DEF make_key_all, KeyPart
<1>2. ASSUME NEW i \in 1..Arity(e), NEW k \in EltKeys(e[i + 1], B[i]),
             x = Prefix(Head1(e), Arity(e), i, k)
      PROVE  x \in Seq(KeyPart) /\ Len(x) >= 3
  <2>1. k \in Seq(KeyPart) /\ Len(k) \in Nat
    BY EltKeysTyped
  <2>2. i \in Nat
    BY <1>e
  <2>3. IsPrefixed(x, Head1(e), Arity(e), i, k)
    BY <1>e, <1>2, <2>1, <2>2, Prefixed
  <2> QED
    BY <2>1, <2>3 DEF IsPrefixed
<1>3. x = make_key_all(e) \/ KeyOfTerm(x, e, B)
  BY KeyForms
<1> QED
  BY <1>1, <1>2, <1>3 DEF KeyOfTerm

\* A key of a term of e that f has is a key of the same term of f.
LEMMA TermOfKey ==
  ASSUME NEW S, Composeds(S), NEW e \in Ground(Atom \cup S), NEW B, SubKeys(B, e),
         NEW T, Composeds(T), NEW f \in Ground(Atom \cup T), NEW C, SubKeys(C, f),
         NEW i \in 1..Arity(e), NEW k \in EltKeys(e[i + 1], B[i]),
         Prefix(Head1(e), Arity(e), i, k) \in KeysWith(f, C)
  PROVE  Head1(e) = Head1(f) /\ Arity(e) = Arity(f) /\ k \in EltKeys(f[i + 1], C[i])
<1>e. Head1(e) \in Pred /\ Arity(e) \in Nat /\ i \in Nat
  BY Expressions
<1>f. Head1(f) \in Pred /\ Arity(f) \in Nat
  BY Expressions
<1>k. k \in Seq(KeyPart) /\ Len(k) \in Nat /\ Len(k) >= 1
  BY EltKeysTyped
<1> DEFINE x == Prefix(Head1(e), Arity(e), i, k)
<1>x. x \in KeysWith(f, C)
  OBVIOUS
<1>p. IsPrefixed(x, Head1(e), Arity(e), i, k)
  BY <1>e, <1>k, Prefixed
<1>1. x # make_key_all(f)
  <2>1. Len(x) = Len(k) + 3
    BY <1>p DEF IsPrefixed
  <2>2. Len(make_key_all(f)) = 3
    BY DEF make_key_all
  <2> HIDE DEF x
  <2>3. Len(x) # 3
    BY <1>k, <2>1
  <2> QED
    BY <2>2, <2>3
<1>y. KeyOfTerm(x, f, C)
  <2> HIDE DEF x
  <2> QED
    BY <1>x, <1>1, KeyForms
<1>j. PICK j \in 1..Arity(f) : \E l \in EltKeys(f[j + 1], C[j]) :
        Prefix(Head1(e), Arity(e), i, k) = Prefix(Head1(f), Arity(f), j, l)
  BY <1>y DEF KeyOfTerm
<1>2. PICK l \in EltKeys(f[j + 1], C[j]) :
        Prefix(Head1(e), Arity(e), i, k) = Prefix(Head1(f), Arity(f), j, l)
  BY <1>j
<1>3. l \in Seq(KeyPart) /\ j \in Nat
  BY EltKeysTyped, <1>f
<1>q. IsPrefixed(x, Head1(f), Arity(f), j, l)
  BY <1>2, <1>3, <1>f, Prefixed
<1> HIDE DEF x
<1> QED
  BY <1>p, <1>q, <1>3, <1>e, <1>f, <1>k, PrefixTells

\* The key of all the facts of a predicate is not the key of a term.
LEMMA AllKeyTells ==
  ASSUME NEW S, Composeds(S), NEW e \in Ground(Atom \cup S),
         NEW T, Composeds(T), NEW f \in Ground(Atom \cup T), NEW C, SubKeys(C, f),
         make_key_all(e) \in KeysWith(f, C)
  PROVE  Head1(e) = Head1(f) /\ Arity(e) = Arity(f)
<1>e. Head1(e) \in Pred /\ Arity(e) \in Nat
  BY Expressions
<1>f. Head1(f) \in Pred /\ Arity(f) \in Nat
  BY Expressions
<1>1. CASE make_key_all(e) = make_key_all(f)
  BY <1>1 DEF make_key_all
<1>2. ASSUME NEW j \in 1..Arity(f), NEW l \in EltKeys(f[j + 1], C[j]),
             make_key_all(e) = Prefix(Head1(f), Arity(f), j, l)
      PROVE  FALSE
  <2>1. l \in Seq(KeyPart) /\ j \in Nat /\ Len(l) \in Nat /\ Len(l) >= 1
    BY EltKeysTyped, <1>f
  <2>2. Len(make_key_all(e)) # 3
    <3>1. IsPrefixed(make_key_all(e), Head1(f), Arity(f), j, l)
      BY <1>f, <1>2, <2>1, Prefixed
    <3> QED
      BY <2>1, <3>1 DEF IsPrefixed
  <2>3. Len(make_key_all(e)) = 3
    BY DEF make_key_all
  <2> QED
    BY <2>2, <2>3
<1>3. make_key_all(e) = make_key_all(f) \/ KeyOfTerm(make_key_all(e), f, C)
  BY KeyForms
<1> QED
  BY <1>1, <1>2, <1>3 DEF KeyOfTerm


\* The subkeys of two terms tell them apart.
Tells(e, B, f, C) ==
  \A i \in 1..Arity(e) :
    Composed(e[i + 1]) /\ Composed(f[i + 1]) /\ B[i] \subseteq C[i] => e[i + 1] = f[i + 1]

LEMMA SameTerms ==
  ASSUME NEW S, Composeds(S), NEW e \in Ground(Atom \cup S), NEW B, SubKeys(B, e),
         NEW T, Composeds(T), NEW f \in Ground(Atom \cup T), NEW C, SubKeys(C, f),
         Tells(e, B, f, C),
         NEW i \in 1..Arity(e), Arity(e) = Arity(f),
         make_key_elt(e, i, B[i]) \subseteq KeysWith(f, C)
  PROVE  e[i + 1] = f[i + 1]
<1>1. ASSUME NEW k \in EltKeys(e[i + 1], B[i])
      PROVE  k \in EltKeys(f[i + 1], C[i])
  <2>1. e[i + 1] \notin Var
    BY Expressions, TermAssumption DEF Composeds, Composed
  <2>2. Prefix(Head1(e), Arity(e), i, k) \in KeysWith(f, C)
    BY <2>1 DEF make_key_elt, EltKeys, Prefix
  <2> QED
    BY <2>2, TermOfKey
<1>2. CASE Composed(e[i + 1])
  <2>1. PICK k \in B[i] : k \in EltKeys(e[i + 1], B[i])
    BY <1>2 DEF SubKeys, EltKeys
  <2>2. Composed(f[i + 1])
    <3> SUFFICES ASSUME ~Composed(f[i + 1]) PROVE FALSE
      OBVIOUS
    <3>1. k \in EltKeys(f[i + 1], C[i])
      BY <1>1, <2>1
    <3>2. Len(k) = 1
      BY <3>1, EltKeysTyped
    <3>3. Len(k) >= 3
      BY <1>2, <2>1, EltKeysTyped
    <3> QED
      BY <3>2, <3>3
  <2>3. B[i] \subseteq C[i]
    BY <1>1, <1>2, <2>2 DEF EltKeys
  <2> QED
    BY <1>2, <2>2, <2>3 DEF Tells
<1>3. CASE ~Composed(e[i + 1])
  <2> DEFINE k == <<e[i + 1]>>
  <2>1. k \in EltKeys(e[i + 1], B[i]) /\ k \in EltKeys(f[i + 1], C[i])
    BY <1>1, <1>3 DEF EltKeys
  <2>2. ~Composed(f[i + 1])
    <3> SUFFICES ASSUME Composed(f[i + 1]) PROVE FALSE
      OBVIOUS
    <3>1. Len(k) >= 3
      BY <2>1, EltKeysTyped
    <3> QED
      BY <3>1
  <2>3. k = <<f[i + 1]>>
    BY <2>1, <2>2 DEF EltKeys
  <2> QED
    BY <2>3
<1> QED
  BY <1>2, <1>3

\* The step from one level to the next.
LEMMA SameKeys ==
  ASSUME NEW S, Composeds(S), NEW e \in Ground(Atom \cup S), NEW B, SubKeys(B, e),
         NEW T, Composeds(T), NEW f \in Ground(Atom \cup T), NEW C, SubKeys(C, f),
         Tells(e, B, f, C), KeysWith(e, B) \subseteq KeysWith(f, C)
  PROVE  e = f
<1>1. Head1(e) = Head1(f) /\ Arity(e) = Arity(f)
  <2>1. make_key_all(e) \in KeysWith(f, C)
    BY DEF KeysWith
  <2> QED
    BY <2>1, AllKeyTells
<1>2. ASSUME NEW i \in 1..Arity(e)
      PROVE  e[i + 1] = f[i + 1]
  <2>1. make_key_elt(e, i, B[i]) \subseteq KeysWith(f, C)
    BY DEF KeysWith
  <2> QED
    BY <1>1, <2>1, SameTerms
<1> QED
  BY <1>1, <1>2, SameExpression

-----------------------------------------------------------------------------

LEMMA Level1Keys ==
  ASSUME NEW t \in Level1
  PROVE  /\ Composed(t)
         /\ Keys1(t) # {} /\ \A k \in Keys1(t) : k \in Seq(KeyPart) /\ Len(k) >= 3
         /\ \A u \in Level1 : Keys1(t) \subseteq Keys1(u) => t = u
<1> DEFINE None0(e) == [i \in 1..Arity(e) |-> {}]
<1>0. Composeds({}) /\ Level1 = Ground(Atom \cup {})
  BY DEF Composeds, Level1
<1>1. ASSUME NEW u \in Level1
      PROVE  /\ Keys1(u) = KeysWith(u, None0(u)) /\ SubKeys(None0(u), u)
             /\ \A i \in 1..Arity(u) : ~Composed(u[i + 1])
  <2>1. \A i \in 1..Arity(u) : u[i + 1] \in Atom
    BY Expressions DEF Level1
  <2>2. \A i \in 1..Arity(u) : ~Composed(u[i + 1])
    BY <2>1 DEF Composed
  <2>3. Keys1(u) = KeysWith(u, None0(u))
    BY DEF Keys1, KeysOfTerms, NoKeys, KeysWith
  <2> QED
    BY <2>2, <2>3 DEF SubKeys
<1>2. Composed(t)
  BY Expressions DEF Level1
<1>3. Keys1(t) # {} /\ \A k \in Keys1(t) : k \in Seq(KeyPart) /\ Len(k) >= 3
  <2>1. Keys1(t) # {}
    BY <1>1 DEF KeysWith
  <2>2. ASSUME NEW k \in Keys1(t)
        PROVE  k \in Seq(KeyPart) /\ Len(k) >= 3
    <3> HIDE DEF None0
    <3> QED
      BY <1>0, <1>1, KeysTyped
  <2> QED
    BY <2>1, <2>2
<1>4. ASSUME NEW u \in Level1, Keys1(t) \subseteq Keys1(u)
      PROVE  t = u
  <2>1. Tells(t, None0(t), u, None0(u))
    BY <1>1 DEF Tells
  <2> HIDE DEF None0
  <2> QED
    BY <1>0, <1>1, <1>4, <2>1, SameKeys
<1> QED
  BY <1>2, <1>3, <1>4

LEMMA Level2Keys ==
  ASSUME NEW t \in Level2
  PROVE  /\ Composed(t)
         /\ make_key_list_term(t) # {}
         /\ \A k \in make_key_list_term(t) : k \in Seq(KeyPart) /\ Len(k) >= 3
         /\ \A u \in Level2 : make_key_list_term(t) \subseteq make_key_list_term(u) => t = u
<1> DEFINE Sub1(e) == [i \in 1..Arity(e) |-> Keys1(e[i + 1])]
<1>0. Composeds(Level1) /\ Level2 = Ground(Atom \cup Level1)
  BY Level1Keys DEF Composeds, Level2
<1>1. ASSUME NEW u \in Level2
      PROVE  /\ make_key_list_term(u) = KeysWith(u, Sub1(u)) /\ SubKeys(Sub1(u), u)
             /\ \A i \in 1..Arity(u) : Composed(u[i + 1]) => u[i + 1] \in Level1
  <2>1. \A i \in 1..Arity(u) : u[i + 1] \in Atom \cup Level1
    BY Expressions DEF Level2
  <2>2. \A i \in 1..Arity(u) : Composed(u[i + 1]) => u[i + 1] \in Level1
    BY <2>1 DEF Composed
  <2>3. make_key_list_term(u) = KeysWith(u, Sub1(u))
    BY DEF make_key_list_term, KeysOfTerms, KeysWith
  <2>4. SubKeys(Sub1(u), u)
    BY <2>2, Level1Keys DEF SubKeys
  <2> QED
    BY <2>2, <2>3, <2>4
<1>2. Composed(t)
  BY Expressions DEF Level2
<1>3. /\ make_key_list_term(t) # {}
      /\ \A k \in make_key_list_term(t) : k \in Seq(KeyPart) /\ Len(k) >= 3
  <2>1. make_key_list_term(t) # {}
    BY <1>1 DEF KeysWith
  <2>2. ASSUME NEW k \in make_key_list_term(t)
        PROVE  k \in Seq(KeyPart) /\ Len(k) >= 3
    <3> HIDE DEF Sub1
    <3> QED
      BY <1>0, <1>1, KeysTyped
  <2> QED
    BY <2>1, <2>2
<1>4. ASSUME NEW u \in Level2, make_key_list_term(t) \subseteq make_key_list_term(u)
      PROVE  t = u
  <2>1. CASE Arity(t) = Arity(u)
    <3>1. Tells(t, Sub1(t), u, Sub1(u))
      BY <1>1, <2>1, Level1Keys DEF Tells
    <3> HIDE DEF Sub1
    <3> QED
      BY <1>0, <1>1, <1>4, <3>1, SameKeys
  <2>2. Arity(t) = Arity(u)
    <3>1. make_key_all(t) \in KeysWith(u, Sub1(u))
      BY <1>1, <1>4 DEF KeysWith
    <3> HIDE DEF Sub1
    <3> QED
      BY <1>0, <1>1, <3>1, AllKeyTells
  <2> QED
    BY <2>1, <2>2
<1> QED
  BY <1>2, <1>3, <1>4

Sub2(e) == [i \in 1..Arity(e) |-> make_key_list_term(e[i + 1])]

LEMMA FactKeys ==
  ASSUME NEW f \in Fact
  PROVE  /\ f \in Ground(Atom \cup Level2) /\ Composeds(Level2)
         /\ make_key_list(f) = KeysWith(f, Sub2(f)) /\ SubKeys(Sub2(f), f)
         /\ \A e \in Fact : Arity(e) = Arity(f) => Tells(e, Sub2(e), f, Sub2(f))
<1>1. ASSUME NEW u \in Fact
      PROVE  /\ u \in Ground(Atom \cup Level2)
             /\ \A i \in 1..Arity(u) : Composed(u[i + 1]) => u[i + 1] \in Level2
  <2>1. u \in Ground(Atom \cup Level2)
    BY FactAssumption DEF Level1, Level2
  <2>2. \A i \in 1..Arity(u) : u[i + 1] \in Atom \cup Level2
    BY <2>1, Expressions
  <2> QED
    BY <2>1, <2>2 DEF Composed
<1>2. Composeds(Level2)
  BY Level2Keys DEF Composeds
<1>3. make_key_list(f) = KeysWith(f, Sub2(f))
  BY DEF make_key_list, KeysOfTerms, KeysWith, Sub2
<1>4. SubKeys(Sub2(f), f)
  BY <1>1, Level2Keys DEF SubKeys, Sub2
<1>5. ASSUME NEW e \in Fact, Arity(e) = Arity(f)
      PROVE  Tells(e, Sub2(e), f, Sub2(f))
  BY <1>1, <1>5, Level2Keys DEF Tells, Sub2
<1> QED
  BY <1>1, <1>2, <1>3, <1>4, <1>5

(* "No duplicate variables... So all of them unify" (database.c:1382), for expressions without a
   variable: what is found under all the keys of a fact is that fact, and it is deleted or
   consulted without a comparison. *)
THEOREM KeysTellFacts ==
  \A e, f \in Fact : make_key_list(e) \subseteq make_key_list(f) => e = f
<1> TAKE e \in Fact, f \in Fact
<1> HAVE make_key_list(e) \subseteq make_key_list(f)
<1>1. KeysWith(e, Sub2(e)) \subseteq KeysWith(f, Sub2(f))
  BY FactKeys
<1>2. Arity(e) = Arity(f)
  <2>1. make_key_all(e) \in KeysWith(f, Sub2(f))
    BY <1>1 DEF KeysWith
  <2> QED
    BY <2>1, FactKeys, AllKeyTells
<1> QED
  BY <1>1, <1>2, FactKeys, SameKeys

\* The terms that the argument keys of a functional fact are made of.
Args(e) == {j \in 1..Arity(e) : j <= Ff[Head1(e)]}

\* The argument keys find the facts with the arguments of e, and with the value
\* keys of such a fact they are all its keys: delete_ff_expr misses no bucket.
LEMMA FfKeys ==
  ASSUME NEW e \in Fact, NEW f \in Fact, Functional(e)
  PROVE  /\ make_ff_arg_key_list(e) \subseteq make_key_list(f) =>
              /\ Head1(e) = Head1(f) /\ Arity(e) = Arity(f)
              /\ \A i \in Args(e) : e[i + 1] = f[i + 1]
         /\ (/\ Head1(e) = Head1(f) /\ Arity(e) = Arity(f)
             /\ \A i \in Args(e) : e[i + 1] = f[i + 1]) =>
              /\ make_ff_arg_key_list(e) \subseteq make_key_list(f)
              /\ make_ff_arg_key_list(e) \cup make_ff_val_key_list(f) = make_key_list(f)
<1> DEFINE Arg(u) == {make_key_all(u)} \cup UNION {make_key_elt(u, i, Sub2(u)[i]) : i \in Args(u)}
<1>f. \A u \in Fact : Arity(u) \in Nat /\ Head1(u) \in Pred /\ Ff[Head1(u)] \in Int
  BY FactKeys, Expressions, FunctionalAssumption
<1>0. \A u \in Fact : make_ff_arg_key_list(u) = Arg(u)
  BY DEF make_ff_arg_key_list, Sub2, Args
<1>1. ASSUME make_ff_arg_key_list(e) \subseteq make_key_list(f)
      PROVE  /\ Head1(e) = Head1(f) /\ Arity(e) = Arity(f)
             /\ \A i \in Args(e) : e[i + 1] = f[i + 1]
  <2>1. Arg(e) \subseteq KeysWith(f, Sub2(f))
    BY <1>0, <1>1, FactKeys
  <2>2. Head1(e) = Head1(f) /\ Arity(e) = Arity(f)
    <3>1. make_key_all(e) \in KeysWith(f, Sub2(f))
      BY <2>1
    <3> QED
      BY <3>1, FactKeys, AllKeyTells
  <2>3. ASSUME NEW i \in Args(e)
        PROVE  e[i + 1] = f[i + 1]
    <3>1. make_key_elt(e, i, Sub2(e)[i]) \subseteq KeysWith(f, Sub2(f)) /\ i \in 1..Arity(e)
      BY <2>1 DEF Args
    <3> QED
      BY <2>2, <3>1, FactKeys, SameTerms
  <2> QED
    BY <2>2, <2>3
<1>2. ASSUME /\ Head1(e) = Head1(f) /\ Arity(e) = Arity(f)
             /\ \A i \in Args(e) : e[i + 1] = f[i + 1]
      PROVE  /\ make_ff_arg_key_list(e) \subseteq make_key_list(f)
             /\ make_ff_arg_key_list(e) \cup make_ff_val_key_list(f) = make_key_list(f)
  <2>1. make_ff_arg_key_list(e) = make_ff_arg_key_list(f)
    <3>1. make_key_all(e) = make_key_all(f) /\ Args(e) = Args(f)
      BY <1>2 DEF make_key_all, Args
    <3>2. \A i \in Args(e) : make_key_elt(e, i, Sub2(e)[i]) = make_key_elt(f, i, Sub2(f)[i])
      BY <1>2 DEF make_key_elt, Sub2, Args
    <3>3. Arg(e) = Arg(f)
      BY <3>1, <3>2
    <3> QED
      BY <1>0, <3>3
  <2>2. 1..Arity(f) = Args(f) \cup (Ff[Head1(f)] + 1..Arity(f))
    BY <1>f, <1>2 DEF Args, Functional
  <2>3. make_ff_val_key_list(f) =
          UNION {make_key_elt(f, i, Sub2(f)[i]) : i \in Ff[Head1(f)] + 1..Arity(f)}
    <3>1. \A i \in Ff[Head1(f)] + 1..Arity(f) : i \in 1..Arity(f)
      BY <2>2
    <3>2. \A i \in Ff[Head1(f)] + 1..Arity(f) : Sub2(f)[i] = make_key_list_term(f[i + 1])
      BY <3>1 DEF Sub2
    <3> QED
      BY <3>2 DEF make_ff_val_key_list
  <2>4. make_key_list(f) = Arg(f) \cup make_ff_val_key_list(f)
    <3>1. make_key_list(f) =
            {make_key_all(f)} \cup UNION {make_key_elt(f, i, Sub2(f)[i]) : i \in 1..Arity(f)}
      BY FactKeys DEF KeysWith
    <3> QED
      BY <2>2, <2>3, <3>1
  <2> QED
    BY <1>0, <2>1, <2>4
<1> QED
  BY <1>1, <1>2

-----------------------------------------------------------------------------

(* The inductive invariant *)

\* The keys that hold o, and the expressions that some key holds.
Held(st, o) == {k \in Key : o \in st[k]}

InTable(st) == {o \in Expression : Held(st, o) # {}}

AllOrNone(st) == \A o \in InTable(st) : Held(st, o) = KeysOfStatement(o)

OneForAFact(st) == \A o1, o2 \in InTable(st) : Statement(o1) = Statement(o2) => o1 = o2

Counted(d) == \A k \in Key : d.nombre[k] = Cardinality(d.statements[k])

Saved(d) == {x.expr : x \in d.concluded_be}

\* The keys saved for a basic event are those that still hold it.
SavedKeys(d) ==
  \A x \in d.concluded_be :
    x.expr \in InTable(d.statements) => x.ko_list = Held(d.statements, x.expr)

SavedOnce(d) == \A x, y \in d.concluded_be : x.expr = y.expr => x = y

\* free_expr is called as often as there were references.
References(d) ==
  \A o \in Expression :
    d.refs[o] = (IF o \in InTable(d.statements) THEN 1 ELSE 0)
                  + (IF o \in Saved(d) THEN 1 ELSE 0)

TableInv(d) ==
  /\ d \in Table
  /\ AllOrNone(d.statements) /\ OneForAFact(d.statements) /\ Counted(d)
  /\ SavedKeys(d) /\ SavedOnce(d)

DbInv(d) == TableInv(d) /\ References(d)

LEMMA KeysIn ==
  ASSUME NEW f \in Fact
  PROVE  /\ KeysOfFact[f] = make_key_list(f) /\ make_key_list(f) \subseteq Key
         /\ make_key_all(f) \in make_key_list(f)
         /\ make_key_all(f) \in Predicates /\ Predicates \subseteq Key
<1>1. \A e \in Fact : KeysOfFact[e] = make_key_list(e) /\ make_key_list(e) \subseteq Key
  BY DEF KeysOfFact, Key
<1>2. \A e \in Fact : make_key_all(e) \in make_key_list(e)
  BY DEF make_key_list, KeysOfTerms
<1> QED
  BY <1>1, <1>2 DEF Predicates

LEMMA StatementIn ==
  ASSUME NEW o \in Expression
  PROVE  /\ Statement(o) \in Fact /\ KeysOfStatement(o) = make_key_list(Statement(o))
         /\ KeysOfStatements[o] = KeysOfStatement(o)
BY KeysIn DEF Expression, Statement, KeysOfStatement, KeysOfStatements

\* A bucket has at most one expression for a fact, so the counts do not wrap.
LEMMA BucketsFit ==
  ASSUME CountsFit, NEW st \in [Key -> SUBSET Expression],
         AllOrNone(st), OneForAFact(st), NEW k \in Key
  PROVE  IsFiniteSet(st[k]) /\ Cardinality(st[k]) \in 0..CountMod - 1
<1> DEFINE F == {f \in Fact : k \in make_key_list(f)}
           stated == [o \in st[k] |-> Statement(o)]
<1>1. IsFiniteSet(F) /\ Cardinality(F) < CountMod
  BY DEF CountsFit
<1>2. \A o \in st[k] : o \in InTable(st) /\ Statement(o) \in F
  BY StatementIn DEF AllOrNone, InTable, Held
<1>3. stated \in Injection(st[k], F)
  <2>1. stated \in [st[k] -> F]
    BY <1>2
  <2>2. \A o1, o2 \in st[k] : stated[o1] = stated[o2] => o1 = o2
    BY <1>2 DEF OneForAFact
  <2> HIDE DEF stated, F
  <2> QED
    BY <2>1, <2>2 DEF Injection, IsInjective
<1> HIDE DEF stated, F
<1>4. IsFiniteSet(st[k]) /\ Cardinality(st[k]) <= Cardinality(F)
  BY <1>1, <1>3, FS_Injection
<1>5. Cardinality(st[k]) \in Nat /\ Cardinality(F) \in Nat
  BY <1>1, <1>4, FS_CardinalityType
<1> QED
  BY <1>1, <1>4, <1>5, BoundAssumption

LEMMA SmallMod ==
  ASSUME NEW m \in Nat \ {0}, NEW n \in 0..m - 1
  PROVE  n % m = n
OBVIOUS

-----------------------------------------------------------------------------
(* Deleting *)

Without(st, O) == [k \in Key |-> st[k] \ O]

(* What deleting O from the buckets comes to. *)
Takes(d, j, O) ==
  /\ TableInv(j)
  /\ j.statements = Without(d.statements, O) /\ j.refs = d.refs
  /\ Saved(j) = Saved(d)

LEMMA WithoutTable ==
  ASSUME NEW st \in [Key -> SUBSET Expression], NEW O
  PROVE  /\ Without(st, O) \in [Key -> SUBSET Expression]
         /\ \A o \in Expression : Held(Without(st, O), o) = IF o \in O THEN {} ELSE Held(st, o)
         /\ InTable(Without(st, O)) = InTable(st) \ O
         /\ AllOrNone(st) => AllOrNone(Without(st, O))
         /\ OneForAFact(st) => OneForAFact(Without(st, O))
<1>1. Without(st, O) \in [Key -> SUBSET Expression]
  BY DEF Without
<1>2. \A o \in Expression : Held(Without(st, O), o) = IF o \in O THEN {} ELSE Held(st, o)
  BY DEF Without, Held
<1>3. InTable(Without(st, O)) = InTable(st) \ O
  BY <1>2 DEF InTable
<1> QED
  BY <1>1, <1>2, <1>3 DEF AllOrNone, OneForAFact, InTable

\* The fields of a table that is updated.
LEMMA TableFields ==
  ASSUME NEW d \in Table
  PROVE  /\ d.statements \in [Key -> SUBSET Expression]
         /\ d.nombre \in [Key -> 0..CountMod - 1]
         /\ d.refs \in [Expression -> Nat]
         /\ d.concluded_be \in SUBSET [expr : Expression, ko_list : SUBSET Key]
         /\ DOMAIN d = {"statements", "nombre", "refs", "concluded_be"}
         /\ d = [x \in {"statements", "nombre", "refs", "concluded_be"} |-> d[x]]
BY DEF Table

LEMMA TableOf ==
  ASSUME NEW j, j = [x \in {"statements", "nombre", "refs", "concluded_be"} |-> j[x]],
         j.statements \in [Key -> SUBSET Expression],
         j.nombre \in [Key -> 0..CountMod - 1],
         j.refs \in [Expression -> Nat],
         j.concluded_be \in SUBSET [expr : Expression, ko_list : SUBSET Key]
  PROVE  j \in Table
BY DEF Table

LEMMA SavedExpression ==
  ASSUME NEW b \in [expr : Expression, ko_list : SUBSET Key], NEW out
  PROVE  /\ b.expr \in Expression /\ b.ko_list \in SUBSET Key
         /\ b = [expr |-> b.expr, ko_list |-> b.ko_list]
         /\ [b EXCEPT !.ko_list = @ \ out] = [expr |-> b.expr, ko_list |-> b.ko_list \ out]
         /\ [expr |-> b.expr, ko_list |-> b.ko_list \ out] \in [expr : Expression, ko_list : SUBSET Key]
OBVIOUS

LEMMA FewerTakes ==
  ASSUME CountsFit, NEW d, TableInv(d), NEW O, NEW gone, NEW n,
         DOMAIN gone \subseteq Key,
         \A k \in DOMAIN gone :
           gone[k] = O \cap d.statements[k] /\ n[k] = Cardinality(gone[k]),
         \A k \in Key \ DOMAIN gone : O \cap d.statements[k] = {}
  PROVE  Takes(d, Fewer(d, gone, n), O)
<1> DEFINE j == Fewer(d, gone, n)
           st == d.statements
           out == {k \in DOMAIN gone : d.nombre[k] \in 1..n[k]}
           left == Without(st, O)
<1>1. /\ d \in Table /\ st \in [Key -> SUBSET Expression] /\ d.nombre \in [Key -> 0..CountMod - 1]
      /\ AllOrNone(st) /\ OneForAFact(st) /\ \A k \in Key : d.nombre[k] = Cardinality(st[k])
  BY DEF TableInv, Table, Counted
<1>2. ASSUME NEW k \in DOMAIN gone
      PROVE  /\ n[k] \in Nat /\ n[k] <= d.nombre[k] /\ IsFiniteSet(st[k])
             /\ Cardinality(st[k] \ O) = d.nombre[k] - n[k]
             /\ d.nombre[k] = n[k] => st[k] \ O = {}
  <2>1. k \in Key /\ gone[k] = O \cap st[k] /\ n[k] = Cardinality(gone[k])
    OBVIOUS
  <2>2. IsFiniteSet(st[k]) /\ d.nombre[k] = Cardinality(st[k])
    BY <1>1, <2>1, BucketsFit
  <2>3. gone[k] \in SUBSET st[k] /\ st[k] \ gone[k] = st[k] \ O /\ st[k] \cap gone[k] = gone[k]
    BY <2>1
  <2>4. IsFiniteSet(gone[k]) /\ Cardinality(gone[k]) <= Cardinality(st[k])
        /\ (Cardinality(st[k]) = Cardinality(gone[k]) => st[k] = gone[k])
    BY <2>2, <2>3, FS_Subset
  <2>5. Cardinality(gone[k]) \in Nat /\ Cardinality(st[k]) \in Nat
    BY <2>2, <2>4, FS_CardinalityType
  <2>6. Cardinality(st[k] \ gone[k]) = Cardinality(st[k]) - Cardinality(gone[k])
    <3>1. Cardinality(st[k] \ gone[k]) = Cardinality(st[k]) - Cardinality(st[k] \cap gone[k])
      BY <2>2, FS_Difference
    <3> QED
      BY <2>3, <3>1
  <2> QED
    BY <2>1, <2>2, <2>3, <2>4, <2>5, <2>6
<1>3. out \subseteq Key /\ \A k \in out : left[k] = {}
  <2>1. out \subseteq Key
    OBVIOUS
  <2>2. ASSUME NEW k \in out
        PROVE  left[k] = {}
    <3>1. k \in Key /\ k \in DOMAIN gone /\ d.nombre[k] \in 1..n[k]
      OBVIOUS
    <3>2. n[k] \in Nat /\ n[k] <= d.nombre[k] /\ (d.nombre[k] = n[k] => st[k] \ O = {})
      BY <1>2, <3>1
    <3>3. d.nombre[k] = n[k]
      BY <3>1, <3>2
    <3> QED
      BY <3>1, <3>2, <3>3 DEF Without
  <2> QED
    BY <2>1, <2>2
<1>4. j.statements = left
  <2>1. j.statements = [k \in Key |-> IF k \in out THEN {} ELSE
                          IF k \in DOMAIN gone \ out THEN st[k] \ gone[k] ELSE st[k]]
    BY <1>1 DEF Fewer, Table
  <2>2. ASSUME NEW k \in Key
        PROVE  left[k] = IF k \in out THEN {} ELSE
                           IF k \in DOMAIN gone \ out THEN st[k] \ gone[k] ELSE st[k]
    <3>1. left[k] = st[k] \ O
      BY DEF Without
    <3>2. CASE k \in out
      BY <1>3, <3>2
    <3>3. CASE k \in DOMAIN gone \ out
      BY <3>1, <3>3
    <3>4. CASE k \notin DOMAIN gone
      BY <3>1, <3>4
    <3> QED
      BY <3>2, <3>3, <3>4
  <2> HIDE DEF out
  <2> QED
    BY <2>1, <2>2 DEF Without
<1>5. /\ j.nombre \in [Key -> 0..CountMod - 1]
      /\ \A k \in Key : j.nombre[k] = Cardinality(left[k])
  <2>1. j.nombre = [k \in Key |-> IF k \in out THEN 0 ELSE
                      IF k \in DOMAIN gone \ out THEN (d.nombre[k] - n[k]) % CountMod
                      ELSE d.nombre[k]]
    BY <1>1 DEF Fewer, Table
  <2>2. ASSUME NEW k \in Key
        PROVE  j.nombre[k] \in 0..CountMod - 1 /\ j.nombre[k] = Cardinality(left[k])
    <3>1. left[k] = st[k] \ O /\ d.nombre[k] \in 0..CountMod - 1
      BY <1>1 DEF Without
    <3>2. CASE k \in out
      <4>1. j.nombre[k] = 0 /\ left[k] = {}
        BY <1>3, <2>1, <3>2
      <4> QED
        BY <4>1, FS_EmptySet, BoundAssumption
    <3>3. CASE k \in DOMAIN gone \ out
      <4>1. d.nombre[k] - n[k] \in 0..CountMod - 1
        <5>1. n[k] \in Nat /\ n[k] <= d.nombre[k]
          BY <1>2, <3>3
        <5> QED
          BY <3>1, <5>1, BoundAssumption
      <4>2. j.nombre[k] = (d.nombre[k] - n[k]) % CountMod
        BY <2>1, <3>3
      <4>3. j.nombre[k] = d.nombre[k] - n[k]
        BY <4>1, <4>2, SmallMod, BoundAssumption
      <4> QED
        BY <1>2, <3>1, <3>3, <4>1, <4>3
    <3>4. CASE k \notin DOMAIN gone
      <4>1. left[k] = st[k]
        BY <3>1, <3>4
      <4>2. j.nombre[k] = d.nombre[k]
        BY <2>1, <3>4
      <4> QED
        BY <1>1, <3>1, <4>1, <4>2
    <3> QED
      BY <3>2, <3>3, <3>4
  <2> HIDE DEF out, j
  <2> QED
    BY <2>1, <2>2
<1>6. /\ j.refs = d.refs
      /\ j.concluded_be = {[b EXCEPT !.ko_list = @ \ out] : b \in d.concluded_be}
  BY <1>1 DEF Fewer, Table
<1>7. /\ j \in Table
      /\ Saved(j) = Saved(d) /\ SavedOnce(j)
      /\ \A x \in j.concluded_be : \E b \in d.concluded_be :
           x.expr = b.expr /\ x.ko_list = b.ko_list \ out
  <2>1. d.concluded_be \in SUBSET [expr : Expression, ko_list : SUBSET Key]
    BY <1>1, TableFields
  <2>2. \A b \in d.concluded_be :
          [b EXCEPT !.ko_list = @ \ out] = [expr |-> b.expr, ko_list |-> b.ko_list \ out]
    <3> HIDE DEF out
    <3> QED
      BY <2>1, SavedExpression
  <2>3. j.concluded_be = {[expr |-> b.expr, ko_list |-> b.ko_list \ out] : b \in d.concluded_be}
    <3> DEFINE new(b) == [expr |-> b.expr, ko_list |-> b.ko_list \ out]
               old(b) == [b EXCEPT !.ko_list = @ \ out]
    <3>1. \A b \in d.concluded_be : new(b) = old(b)
      BY <2>2
    <3>2. j.concluded_be = {old(b) : b \in d.concluded_be}
      BY <1>6
    <3> HIDE DEF out, j, new, old
    <3>3. j.concluded_be = {new(b) : b \in d.concluded_be}
      BY <3>1, <3>2
    <3> QED
      BY <3>3 DEF new
  <2>4. j.concluded_be \in SUBSET [expr : Expression, ko_list : SUBSET Key]
    <3> HIDE DEF out, j
    <3> QED
      BY <2>1, <2>3, SavedExpression
  <2>5. left \in [Key -> SUBSET Expression]
    BY <1>1, WithoutTable
  <2>6. j = [x \in {"statements", "nombre", "refs", "concluded_be"} |-> j[x]]
    BY <1>1, TableFields DEF Fewer
  <2>7. d.refs \in [Expression -> Nat]
    BY <1>1, TableFields
  <2> HIDE DEF j, left
  <2>8. j \in Table
    BY <1>4, <1>5, <1>6, <2>4, <2>5, <2>6, <2>7, TableOf
  <2> HIDE DEF out
  <2>9. \A x \in j.concluded_be : \E b \in d.concluded_be :
          x.expr = b.expr /\ x.ko_list = b.ko_list \ out
    BY <2>3
  <2>10. ASSUME NEW b \in d.concluded_be
         PROVE  \E x \in j.concluded_be : x.expr = b.expr
    <3> DEFINE x == [expr |-> b.expr, ko_list |-> b.ko_list \ out]
    <3>1. x \in j.concluded_be /\ x.expr = b.expr
      BY <2>3
    <3> QED
      BY <3>1
  <2>11. Saved(j) = Saved(d)
    BY <2>9, <2>10 DEF Saved
  <2>12. SavedOnce(j)
    <3>1. SavedOnce(d)
      BY DEF TableInv
    <3>2. ASSUME NEW x \in j.concluded_be, NEW y \in j.concluded_be, x.expr = y.expr
          PROVE  x = y
      <4>1. PICK b \in d.concluded_be : x = [expr |-> b.expr, ko_list |-> b.ko_list \ out]
        BY <2>3
      <4>2. PICK c \in d.concluded_be : y = [expr |-> c.expr, ko_list |-> c.ko_list \ out]
        BY <2>3
      <4>3. b = c
        BY <3>1, <3>2, <4>1, <4>2 DEF SavedOnce
      <4> QED
        BY <4>1, <4>2, <4>3
    <3> QED
      BY <3>2 DEF SavedOnce
  <2> QED
    BY <2>8, <2>9, <2>11, <2>12
<1>8. SavedKeys(j)
  <2> SUFFICES ASSUME NEW x \in j.concluded_be, x.expr \in InTable(left)
               PROVE  x.ko_list = Held(left, x.expr)
    BY <1>4 DEF SavedKeys
  <2>1. PICK b \in d.concluded_be : x.expr = b.expr /\ x.ko_list = b.ko_list \ out
    BY <1>7
  <2>2. x.expr \in InTable(st) /\ x.expr \in Expression /\ Held(left, x.expr) = Held(st, x.expr)
    BY <1>1, WithoutTable DEF InTable
  <2>3. b.ko_list = Held(st, x.expr)
    BY <2>1, <2>2 DEF TableInv, SavedKeys
  <2>4. Held(left, x.expr) \cap out = {}
    BY <1>3 DEF Held
  <2> QED
    BY <2>1, <2>2, <2>3, <2>4
<1>9. AllOrNone(left) /\ OneForAFact(left)
  BY <1>1, WithoutTable
<1> HIDE DEF j
<1>10. TableInv(j)
  BY <1>4, <1>5, <1>7, <1>8, <1>9 DEF TableInv, Counted
<1>11. j.statements = Without(d.statements, O) /\ j.refs = d.refs /\ Saved(j) = Saved(d)
  BY <1>4, <1>6, <1>7
<1>12. Takes(d, j, O)
  BY <1>10, <1>11 DEF Takes
<1> QED
  BY <1>12 DEF j

LEMMA DeleteTakes ==
  ASSUME CountsFit, NEW d, TableInv(d), NEW O \in SUBSET InTable(d.statements),
         NEW keysOf, \A o \in O : keysOf[o] = KeysOfStatement(o)
  PROVE  Takes(d, delete_expr_from_key(d, O, keysOf), O)
<1> DEFINE keys == UNION {keysOf[o] : o \in O}
           gone == [k \in keys |-> {o \in O \cap get_expr_from_key(d, k) : k \in keysOf[o]}]
           n == [k \in keys |-> Cardinality(gone[k])]
<1>1. \A o \in O : o \in Expression /\ keysOf[o] = Held(d.statements, o)
  BY DEF TableInv, AllOrNone, InTable
<1>2. keys \subseteq Key
  BY <1>1 DEF Held
<1>3. \A k \in keys : gone[k] = O \cap d.statements[k] /\ n[k] = Cardinality(gone[k])
  BY <1>1, <1>2 DEF get_expr_from_key, Held
<1>4. \A k \in Key \ keys : O \cap d.statements[k] = {}
  BY <1>1 DEF Held
<1>5. delete_expr_from_key(d, O, keysOf) = Fewer(d, gone, n)
  BY DEF delete_expr_from_key
<1>6. DOMAIN gone = keys
  OBVIOUS
<1> HIDE DEF gone, n, keys
<1> QED
  BY <1>2, <1>3, <1>4, <1>5, <1>6, FewerTakes

(* What removing O from the database comes to. *)
Removed(d, j, O) ==
  /\ DbInv(j) /\ j.statements = Without(d.statements, O) /\ Saved(j) = Saved(d)

LEMMA FreeRemoves ==
  ASSUME NEW d, DbInv(d), NEW O \in SUBSET InTable(d.statements), NEW j, Takes(d, j, O)
  PROVE  Removed(d, free_expr(j, O), O)
<1> DEFINE r == free_expr(j, O)
           refs == [o \in Expression |-> IF o \in O THEN j.refs[o] - 1 ELSE j.refs[o]]
<1>1. d \in Table /\ j \in Table /\ TableInv(j) /\ References(d)
      /\ j.statements = Without(d.statements, O) /\ j.refs = d.refs /\ Saved(j) = Saved(d)
  BY DEF DbInv, TableInv, Takes
<1>2. InTable(j.statements) = InTable(d.statements) \ O
  BY <1>1, WithoutTable, TableFields
<1>3. \A o \in Expression : refs[o] = (IF o \in InTable(j.statements) THEN 1 ELSE 0)
                                      + (IF o \in Saved(j) THEN 1 ELSE 0)
  <2> TAKE o \in Expression
  <2>1. d.refs[o] = (IF o \in InTable(d.statements) THEN 1 ELSE 0)
                      + (IF o \in Saved(d) THEN 1 ELSE 0)
    BY <1>1 DEF References
  <2> QED
    BY <1>1, <1>2, <2>1
<1>4. refs \in [Expression -> Nat]
  BY <1>3
<1>5. /\ r.statements = j.statements /\ r.nombre = j.nombre /\ r.refs = refs
      /\ r.concluded_be = j.concluded_be
      /\ r = [x \in {"statements", "nombre", "refs", "concluded_be"} |-> r[x]]
  BY <1>1, TableFields DEF free_expr
<1> HIDE DEF r, refs
<1>6. r \in Table
  BY <1>1, <1>4, <1>5, TableFields, TableOf
<1>7. Saved(r) = Saved(j)
  BY <1>5 DEF Saved
<1>8. TableInv(r)
  BY <1>1, <1>5, <1>6 DEF TableInv, Counted, SavedKeys, SavedOnce
<1>9. References(r)
  BY <1>3, <1>5, <1>7 DEF References
<1>10. Removed(d, r, O)
  BY <1>1, <1>5, <1>7, <1>8, <1>9 DEF Removed, DbInv
<1> QED
  BY <1>10 DEF r

\* Intersecting the buckets of keys finds the facts that have them.
LEMMA CandidatesIn ==
  ASSUME NEW d, DbInv(d), NEW keys, keys # {}
  PROVE  Candidates(d, keys) =
           {o \in InTable(d.statements) : keys \subseteq KeysOfStatement(o)}
<1>1. d.statements \in [Key -> SUBSET Expression] /\ AllOrNone(d.statements)
  BY TableFields DEF DbInv, TableInv
<1>2. ASSUME NEW o
      PROVE  o \in Candidates(d, keys) <=> o \in Expression /\ keys \subseteq Held(d.statements, o)
  <2>1. o \in Candidates(d, keys) <=> \A k \in keys : o \in get_expr_from_key(d, k)
    BY DEF Candidates
  <2>2. \A k : o \in get_expr_from_key(d, k) <=> o \in Expression /\ k \in Held(d.statements, o)
    BY <1>1 DEF get_expr_from_key, Held
  <2> QED
    BY <2>1, <2>2
<1>3. \A o \in InTable(d.statements) : Held(d.statements, o) = KeysOfStatement(o)
  BY <1>1 DEF AllOrNone
<1>4. \A o \in Expression : keys \subseteq Held(d.statements, o) => o \in InTable(d.statements)
  BY DEF InTable
<1> QED
  BY <1>2, <1>3, <1>4 DEF InTable

(* The facts R have left the database. *)
Drops(d, j, R) ==
  /\ DbInv(j) /\ Saved(j) = Saved(d)
  /\ InTable(j.statements) = {o \in InTable(d.statements) : Statement(o) \notin R}

LEMMA RemovedDrops ==
  ASSUME NEW d, DbInv(d), NEW O \in SUBSET InTable(d.statements), NEW j, Removed(d, j, O)
  PROVE  Drops(d, j, {Statement(o) : o \in O})
<1>1. d.statements \in [Key -> SUBSET Expression] /\ OneForAFact(d.statements)
  BY TableFields DEF DbInv, TableInv
<1>2. DbInv(j) /\ Saved(j) = Saved(d) /\ InTable(j.statements) = InTable(d.statements) \ O
  BY <1>1, WithoutTable DEF Removed
<1>3. \A o \in InTable(d.statements) : o \in O <=> Statement(o) \in {Statement(x) : x \in O}
  BY <1>1 DEF OneForAFact
<1> QED
  BY <1>2, <1>3 DEF Drops

LEMMA DropsTwice ==
  ASSUME NEW d, NEW j, NEW l, NEW R, NEW Q, Drops(d, j, R), Drops(j, l, Q)
  PROVE  Drops(d, l, R \cup Q)
BY DEF Drops

LEMMA DropsNone ==
  ASSUME NEW d, DbInv(d)
  PROVE  Drops(d, d, {})
BY DEF Drops

LEMMA DeleteDrops ==
  ASSUME CountsFit, NEW d, DbInv(d), NEW O \in SUBSET InTable(d.statements),
         NEW keysOf, \A o \in O : keysOf[o] = KeysOfStatement(o)
  PROVE  Drops(d, free_expr(delete_expr_from_key(d, O, keysOf), O), {Statement(o) : o \in O})
<1>1. Takes(d, delete_expr_from_key(d, O, keysOf), O)
  BY DeleteTakes DEF DbInv
<1>2. Removed(d, free_expr(delete_expr_from_key(d, O, keysOf), O), O)
  BY <1>1, FreeRemoves
<1> QED
  BY <1>2, RemovedDrops

LEMMA EqualIn ==
  ASSUME NEW d, DbInv(d), NEW e
  PROVE  Equal(d, e) = {o \in InTable(d.statements) : Statement(o) = e}
<1>1. make_key_list(e) # {}
  BY DEF make_key_list, KeysOfTerms
<1>2. Candidates(d, make_key_list(e)) =
        {o \in InTable(d.statements) : make_key_list(e) \subseteq KeysOfStatement(o)}
  BY <1>1, CandidatesIn
<1>3. \A o \in InTable(d.statements) : KeysOfStatement(o) = make_key_list(Statement(o))
  BY StatementIn DEF InTable
<1> QED
  BY <1>2, <1>3 DEF Equal

LEMMA OppositeDrops ==
  ASSUME CountsFit, NEW d, DbInv(d), NEW e
  PROVE  Drops(d, delete_expr_from_conclude_expr(d, e), {e})
<1> DEFINE O == Equal(d, e)
<1>1. O = {o \in InTable(d.statements) : Statement(o) = e}
  BY EqualIn
<1>2. \A o \in O : KeysOfStatements[o] = KeysOfStatement(o)
  BY <1>1, StatementIn DEF InTable
<1>3. delete_expr_from_conclude_expr(d, e) = free_expr(delete_expr_from_key(d, O, KeysOfStatements), O)
  BY DEF delete_expr_from_conclude_expr
<1> HIDE DEF O
<1>4. Drops(d, delete_expr_from_conclude_expr(d, e), {Statement(o) : o \in O})
  BY <1>1, <1>2, <1>3, DeleteDrops
<1>5. \A o \in InTable(d.statements) : Statement(o) \in {Statement(x) : x \in O} <=> Statement(o) \in {e}
  BY <1>1
<1> QED
  BY <1>4, <1>5 DEF Drops

\* The facts with the arguments of e.
SameArgs(e) ==
  {f \in Fact : /\ Head1(f) = Head1(e) /\ Arity(f) = Arity(e)
                /\ \A i \in Args(e) : f[i + 1] = e[i + 1]}

LEMMA FfDrops ==
  ASSUME CountsFit, NEW d, DbInv(d), NEW e \in Fact, Functional(e)
  PROVE  Drops(d, delete_ff_expr(d, e), SameArgs(e))
<1> DEFINE O == Candidates(d, make_ff_arg_key_list(e))
           keysOf == [o \in O |-> make_ff_arg_key_list(e) \cup make_ff_val_key_list(Statement(o))]
<1>1. make_ff_arg_key_list(e) # {}
  BY DEF make_ff_arg_key_list
<1>2. O = {o \in InTable(d.statements) : make_ff_arg_key_list(e) \subseteq KeysOfStatement(o)}
  BY <1>1, CandidatesIn
<1>3. \A o \in InTable(d.statements) :
        Statement(o) \in Fact /\ KeysOfStatement(o) = make_key_list(Statement(o))
  BY StatementIn DEF InTable
<1>4. O = {o \in InTable(d.statements) : Statement(o) \in SameArgs(e)}
  BY <1>2, <1>3, FfKeys DEF SameArgs
<1>5. \A o \in O : keysOf[o] = KeysOfStatement(o)
  <2> TAKE o \in O
  <2>1. make_ff_arg_key_list(e) \cup make_ff_val_key_list(Statement(o)) = make_key_list(Statement(o))
    BY <1>3, <1>4, FfKeys DEF SameArgs
  <2> QED
    BY <1>3, <1>4, <2>1
<1>6. delete_ff_expr(d, e) = free_expr(delete_expr_from_key(d, O, keysOf), O)
  BY DEF delete_ff_expr
<1> HIDE DEF O, keysOf
<1>7. Drops(d, delete_ff_expr(d, e), {Statement(o) : o \in O})
  BY <1>4, <1>5, <1>6, DeleteDrops
<1>8. \A o \in InTable(d.statements) :
        Statement(o) \in {Statement(x) : x \in O} <=> Statement(o) \in SameArgs(e)
  BY <1>4
<1> QED
  BY <1>7, <1>8 DEF Drops

\* What concluding e clears.
InTheWay(e) ==
  {f \in Fact : \/ f = not_expr_dup(e) /\ (Negated(e) \/ Head1(e) \notin Be)
                \/ Kept(e) /\ Functional(e) /\ f \in SameArgs(e)}

LEMMA ClearedDrops ==
  ASSUME CountsFit, NEW d, DbInv(d), NEW e \in Fact
  PROVE  Drops(d, Cleared(d, e), InTheWay(e))
<1> DEFINE opposed == WithoutOpposite(d, e)
           R == IF Negated(e) \/ Head1(e) \notin Be THEN {not_expr_dup(e)} ELSE {}
           Q == IF Kept(e) /\ Functional(e) THEN SameArgs(e) ELSE {}
<1>1. Drops(d, opposed, R)
  BY OppositeDrops, DropsNone DEF WithoutOpposite
<1>2. Drops(opposed, Cleared(d, e), Q)
  <2>1. DbInv(opposed)
    BY <1>1 DEF Drops
  <2> HIDE DEF opposed
  <2>2. CASE Kept(e) /\ Functional(e)
    <3>1. Cleared(d, e) = delete_ff_expr(opposed, e)
      BY <2>2 DEF Cleared, opposed
    <3> QED
      BY <2>1, <2>2, <3>1, FfDrops
  <2>3. CASE ~(Kept(e) /\ Functional(e))
    <3>1. Cleared(d, e) = opposed
      BY <2>3 DEF Cleared, opposed
    <3> QED
      BY <2>1, <2>3, <3>1, DropsNone
  <2> QED
    BY <2>2, <2>3
<1> HIDE DEF opposed
<1>3. Drops(d, Cleared(d, e), R \cup Q)
  BY <1>1, <1>2, DropsTwice
<1>4. \A o \in InTable(d.statements) : Statement(o) \in R \cup Q <=> Statement(o) \in InTheWay(e)
  BY StatementIn DEF InTheWay, InTable, SameArgs
<1> QED
  BY <1>3, <1>4 DEF Drops

-----------------------------------------------------------------------------
(* Adding *)

With(st, o) == [k \in Key |-> IF k \in KeysOfStatement(o) THEN st[k] \cup {o} ELSE st[k]]

LEMMA WithTable ==
  ASSUME NEW st \in [Key -> SUBSET Expression], AllOrNone(st), OneForAFact(st),
         NEW o \in Expression, \A u \in InTable(st) : Statement(u) # Statement(o)
  PROVE  /\ With(st, o) \in [Key -> SUBSET Expression]
         /\ o \notin InTable(st)
         /\ InTable(With(st, o)) = InTable(st) \cup {o}
         /\ \A u \in InTable(st) : Held(With(st, o), u) = Held(st, u)
         /\ Held(With(st, o), o) = KeysOfStatement(o)
         /\ AllOrNone(With(st, o)) /\ OneForAFact(With(st, o))
<1>1. With(st, o) \in [Key -> SUBSET Expression]
  BY DEF With
<1>2. KeysOfStatement(o) # {} /\ KeysOfStatement(o) \subseteq Key
  BY StatementIn, KeysIn
<1>3. o \notin InTable(st)
  OBVIOUS
<1>4. \A u \in Expression : u # o => Held(With(st, o), u) = Held(st, u)
  BY DEF With, Held
<1>5. Held(With(st, o), o) = KeysOfStatement(o)
  <2>1. \A k \in Key : o \notin st[k]
    BY <1>3 DEF InTable, Held
  <2> QED
    BY <1>2, <2>1 DEF With, Held
<1>6. InTable(With(st, o)) = InTable(st) \cup {o}
  BY <1>2, <1>4, <1>5 DEF InTable
<1>7. \A u \in InTable(st) : u \in Expression /\ u # o
  BY <1>3 DEF InTable
<1>8. AllOrNone(With(st, o))
  BY <1>4, <1>5, <1>6, <1>7 DEF AllOrNone
<1>9. OneForAFact(With(st, o))
  BY <1>6 DEF OneForAFact
<1> QED
  BY <1>1, <1>3, <1>4, <1>5, <1>6, <1>7, <1>8, <1>9

LEMMA AddKeeps ==
  ASSUME CountsFit, NEW d, DbInv(d), NEW o \in Expression, d.refs[o] = 0,
         \A u \in InTable(d.statements) : Statement(u) # Statement(o)
  PROVE  LET j == add_expr_to_key(d, o)
         IN  /\ DbInv(j) /\ j.refs[o] = 1 /\ o \notin Saved(j)
             /\ InTable(j.statements) = InTable(d.statements) \cup {o}
             /\ Saved(j) = Saved(d)
<1> DEFINE j == add_expr_to_key(d, o)
           st == d.statements
<1>1. /\ d \in Table /\ st \in [Key -> SUBSET Expression] /\ d.nombre \in [Key -> 0..CountMod - 1]
      /\ d.refs \in [Expression -> Nat] /\ AllOrNone(st) /\ OneForAFact(st)
      /\ \A k \in Key : d.nombre[k] = Cardinality(st[k])
  BY TableFields DEF DbInv, TableInv, Counted
<1>2. /\ j.statements = With(st, o)
      /\ j.nombre = [k \in Key |-> IF k \in KeysOfStatement(o) THEN (d.nombre[k] + 1) % CountMod
                                                              ELSE d.nombre[k]]
      /\ j.refs = [d.refs EXCEPT ![o] = 1] /\ j.concluded_be = d.concluded_be
      /\ j = [x \in {"statements", "nombre", "refs", "concluded_be"} |-> j[x]]
  BY <1>1, TableFields DEF add_expr_to_key, With
<1> HIDE DEF j
<1>3. /\ j.statements \in [Key -> SUBSET Expression]
      /\ o \notin InTable(st) /\ InTable(j.statements) = InTable(st) \cup {o}
      /\ \A u \in InTable(st) : Held(j.statements, u) = Held(st, u)
      /\ Held(j.statements, o) = KeysOfStatement(o)
      /\ AllOrNone(j.statements) /\ OneForAFact(j.statements)
  BY <1>1, <1>2, WithTable
<1>4. ASSUME NEW k \in Key
      PROVE  j.nombre[k] \in 0..CountMod - 1 /\ j.nombre[k] = Cardinality(j.statements[k])
  <2>1. /\ IsFiniteSet(st[k]) /\ Cardinality(st[k]) \in 0..CountMod - 1
        /\ Cardinality(j.statements[k]) \in 0..CountMod - 1
    BY <1>1, <1>3, BucketsFit
  <2>2. d.nombre[k] = Cardinality(st[k])
    BY <1>1
  <2>3. CASE k \in KeysOfStatement(o)
    <3>1. j.statements[k] = st[k] \cup {o} /\ o \notin st[k]
      BY <1>2, <1>3, <2>3 DEF With, InTable, Held
    <3>2. Cardinality(st[k] \cup {o}) = Cardinality(st[k]) + 1
      BY <2>1, <3>1, FS_AddElement
    <3>3. d.nombre[k] + 1 \in 0..CountMod - 1
      BY <2>1, <2>2, <3>1, <3>2
    <3>4. j.nombre[k] = (d.nombre[k] + 1) % CountMod
      BY <1>2, <2>3
    <3>5. j.nombre[k] = d.nombre[k] + 1
      BY <3>3, <3>4, SmallMod, BoundAssumption
    <3> QED
      BY <2>2, <3>1, <3>2, <3>3, <3>5
  <2>4. CASE k \notin KeysOfStatement(o)
    <3>1. j.statements[k] = st[k] /\ j.nombre[k] = d.nombre[k]
      BY <1>2, <2>4 DEF With
    <3> QED
      BY <2>1, <2>2, <3>1
  <2> QED
    BY <2>3, <2>4
<1>5. j.nombre \in [Key -> 0..CountMod - 1]
  <2>1. j.nombre = [k \in Key |-> j.nombre[k]]
    BY <1>2
  <2> QED
    BY <1>4, <2>1
<1>6. j \in Table
  <2>1. j.refs \in [Expression -> Nat]
    BY <1>1, <1>2
  <2>2. j.concluded_be \in SUBSET [expr : Expression, ko_list : SUBSET Key]
    BY <1>1, <1>2, TableFields
  <2> QED
    BY <1>2, <1>3, <1>5, <2>1, <2>2, TableOf
<1>7. Saved(j) = Saved(d) /\ o \notin Saved(d)
  <2>1. d.refs[o] = (IF o \in InTable(st) THEN 1 ELSE 0) + (IF o \in Saved(d) THEN 1 ELSE 0)
    BY DEF DbInv, References
  <2>2. o \notin Saved(d)
    BY <1>3, <2>1
  <2> QED
    BY <1>2, <2>2 DEF Saved
<1>8. SavedKeys(j) /\ SavedOnce(j)
  <2>1. SavedOnce(d) /\ SavedKeys(d)
    BY DEF DbInv, TableInv
  <2>2. \A x \in d.concluded_be : x.expr # o
    BY <1>7 DEF Saved
  <2> QED
    BY <1>2, <1>3, <2>1, <2>2 DEF SavedKeys, SavedOnce
<1>9. References(j)
  <2> SUFFICES ASSUME NEW u \in Expression
               PROVE  j.refs[u] = (IF u \in InTable(j.statements) THEN 1 ELSE 0)
                                    + (IF u \in Saved(j) THEN 1 ELSE 0)
    BY DEF References
  <2>1. d.refs[u] = (IF u \in InTable(st) THEN 1 ELSE 0) + (IF u \in Saved(d) THEN 1 ELSE 0)
    BY DEF DbInv, References
  <2>2. j.refs[u] = IF u = o THEN 1 ELSE d.refs[u]
    BY <1>1, <1>2
  <2> QED
    BY <1>3, <1>7, <2>1, <2>2
<1>10. DbInv(j)
  BY <1>3, <1>4, <1>6, <1>8, <1>9 DEF DbInv, TableInv, Counted
<1>11. j.refs[o] = 1
  BY <1>1, <1>2
<1> QED
  BY <1>3, <1>7, <1>10, <1>11 DEF j

LEMMA SaveKeeps ==
  ASSUME NEW d, DbInv(d), NEW o \in InTable(d.statements), o \notin Saved(d)
  PROVE  LET j == SaveKeys(d, o)
         IN  /\ DbInv(j) /\ j.statements = d.statements
             /\ Saved(j) = Saved(d) \cup (IF Head1(Statement(o)) \in Be THEN {o} ELSE {})
<1> DEFINE j == SaveKeys(d, o)
           saved == [expr |-> o, ko_list |-> KeysOfStatement(o)]
<1>1. CASE Head1(Statement(o)) \notin Be
  BY <1>1 DEF SaveKeys
<1>2. CASE Head1(Statement(o)) \in Be
  <2>1. /\ d \in Table /\ d.refs \in [Expression -> Nat] /\ o \in Expression
        /\ d.concluded_be \in SUBSET [expr : Expression, ko_list : SUBSET Key]
    BY TableFields DEF DbInv, TableInv, InTable
  <2>2. /\ j.statements = d.statements /\ j.nombre = d.nombre
        /\ j.refs = [d.refs EXCEPT ![o] = d.refs[o] + 1]
        /\ j.concluded_be = d.concluded_be \cup {saved}
        /\ j = [x \in {"statements", "nombre", "refs", "concluded_be"} |-> j[x]]
    BY <1>2, <2>1, TableFields DEF SaveKeys
  <2> HIDE DEF j
  <2>3. KeysOfStatement(o) = Held(d.statements, o) /\ KeysOfStatement(o) \in SUBSET Key
    BY DEF DbInv, TableInv, AllOrNone, Held
  <2>4. saved \in [expr : Expression, ko_list : SUBSET Key]
    BY <2>1, <2>3
  <2>5. j \in Table
    <3>1. j.refs \in [Expression -> Nat]
      BY <2>1, <2>2
    <3>2. j.concluded_be \in SUBSET [expr : Expression, ko_list : SUBSET Key]
      BY <2>1, <2>2, <2>4
    <3> QED
      BY <2>1, <2>2, <3>1, <3>2, TableFields, TableOf
  <2>6. Saved(j) = Saved(d) \cup {o}
    <3>1. saved.expr = o
      OBVIOUS
    <3> HIDE DEF saved
    <3> QED
      BY <2>2, <3>1 DEF Saved
  <2>7. SavedKeys(j) /\ SavedOnce(j)
    <3>1. SavedKeys(d) /\ SavedOnce(d) /\ \A x \in d.concluded_be : x.expr # o
      BY DEF DbInv, TableInv, Saved
    <3>2. saved.expr = o /\ saved.ko_list = Held(d.statements, o)
      BY <2>3
    <3> HIDE DEF saved
    <3>3. SavedKeys(j)
      BY <2>2, <3>1, <3>2 DEF SavedKeys
    <3>4. SavedOnce(j)
      BY <2>2, <3>1, <3>2 DEF SavedOnce
    <3> QED
      BY <3>3, <3>4
  <2>8. References(j)
    <3> SUFFICES ASSUME NEW u \in Expression
                 PROVE  j.refs[u] = (IF u \in InTable(j.statements) THEN 1 ELSE 0)
                                      + (IF u \in Saved(j) THEN 1 ELSE 0)
      BY DEF References
    <3>1. d.refs[u] = (IF u \in InTable(d.statements) THEN 1 ELSE 0)
                        + (IF u \in Saved(d) THEN 1 ELSE 0)
      BY DEF DbInv, References
    <3>2. j.refs[u] = IF u = o THEN d.refs[u] + 1 ELSE d.refs[u]
      BY <2>1, <2>2
    <3> QED
      BY <2>2, <2>6, <3>1, <3>2
  <2>9. DbInv(j)
    BY <2>2, <2>5, <2>7, <2>8 DEF DbInv, TableInv, Counted
  <2> QED
    BY <1>2, <2>2, <2>6, <2>9 DEF j
<1> QED
  BY <1>1, <1>2

-----------------------------------------------------------------------------

(* The steps *)

\* What is in the table is a basic event that the end of the turn knows of, or no basic event.
BeSaved(d) ==
  \A o \in InTable(d.statements) : o \in Saved(d) <=> Head1(Statement(o)) \in Be

IInv == DbInv(db) /\ BeSaved(db)

LEMMA DropsKeeps ==
  ASSUME NEW d, BeSaved(d), NEW j, NEW R, Drops(d, j, R)
  PROVE  BeSaved(j)
BY DEF BeSaved, Drops

Facts(d) == {Statement(o) : o \in InTable(d.statements)}

LEMMA DropsFacts ==
  ASSUME NEW d, NEW j, NEW R, Drops(d, j, R)
  PROVE  Facts(j) = Facts(d) \ R
BY DEF Facts, Drops

LEMMA ConcludeStep ==
  ASSUME CountsFit, IInv, NEW e \in Fact, conclude(e)
  PROVE  /\ IInv'
         /\ Facts(db)' = (Facts(db) \ InTheWay(e)) \cup (IF Kept(e) THEN {e} ELSE {})
<1> DEFINE cleared == Cleared(db, e)
           unused == {c \in 1..Copies : cleared.refs[<<e, c>>] = 0}
<1>1. Drops(db, cleared, InTheWay(e))
  BY ClearedDrops DEF IInv
<1>2. /\ DbInv(cleared) /\ BeSaved(cleared) /\ Facts(cleared) = Facts(db) \ InTheWay(e)
      /\ Equal(cleared, e) = {o \in InTable(cleared.statements) : Statement(o) = e}
  <2>1. DbInv(cleared)
    BY <1>1 DEF Drops
  <2> HIDE DEF cleared
  <2> QED
    BY <1>1, <2>1, DropsKeeps, DropsFacts, EqualIn DEF IInv
<1>3. CASE (~Kept(e) \/ Equal(cleared, e) # {}) /\ db' = cleared
  <2> HIDE DEF cleared
  <2>1. IInv'
    BY <1>2, <1>3 DEF IInv
  <2>2. Facts(db)' = Facts(cleared)
    BY <1>3
  <2>3. Kept(e) => e \in Facts(cleared)
    BY <1>2, <1>3 DEF Facts
  <2> QED
    BY <1>2, <2>1, <2>2, <2>3
<1>4. ASSUME Kept(e), Equal(cleared, e) = {}, NEW c \in unused,
             db' = SaveKeys(add_expr_to_key(cleared, <<e, c>>), <<e, c>>)
      PROVE  IInv' /\ Facts(db)' = Facts(cleared) \cup {e}
  <2> DEFINE o == <<e, c>>
             added == add_expr_to_key(cleared, o)
             saved == SaveKeys(added, o)
  <2>1. o \in Expression /\ Statement(o) = e /\ cleared.refs[o] = 0
    BY DEF Expression, Statement
  <2>2. \A u \in InTable(cleared.statements) : Statement(u) # e
    BY <1>2, <1>4
  <2>3. db' = saved
    BY <1>4
  <2> HIDE DEF cleared, o
  <2>4. /\ DbInv(added) /\ o \notin Saved(added)
        /\ InTable(added.statements) = InTable(cleared.statements) \cup {o}
        /\ Saved(added) = Saved(cleared)
    BY <1>2, <2>1, <2>2, AddKeeps
  <2> HIDE DEF added
  <2>5. o \in InTable(added.statements)
    BY <2>4
  <2>6. /\ DbInv(saved) /\ saved.statements = added.statements
        /\ Saved(saved) = Saved(added) \cup (IF Head1(Statement(o)) \in Be THEN {o} ELSE {})
    BY <2>4, <2>5, SaveKeeps
  <2> HIDE DEF saved
  <2>7. BeSaved(saved)
    BY <1>2, <2>1, <2>2, <2>4, <2>6 DEF BeSaved
  <2>8. Facts(saved) = Facts(cleared) \cup {e}
    BY <2>1, <2>4, <2>6 DEF Facts
  <2> QED
    BY <2>3, <2>6, <2>7, <2>8 DEF IInv
<1>5. \/ (~Kept(e) \/ Equal(cleared, e) # {}) /\ db' = cleared
      \/ /\ Kept(e) /\ Equal(cleared, e) = {}
         /\ \E c \in unused : db' = SaveKeys(add_expr_to_key(cleared, <<e, c>>), <<e, c>>)
  BY DEF conclude
<1> HIDE DEF cleared, unused
<1>6. CASE /\ Kept(e) /\ Equal(cleared, e) = {}
           /\ \E c \in unused : db' = SaveKeys(add_expr_to_key(cleared, <<e, c>>), <<e, c>>)
  BY <1>2, <1>4, <1>6
<1> QED
  BY <1>2, <1>3, <1>5, <1>6

LEMMA RetractStep ==
  ASSUME CountsFit, IInv, NEW q, delete_expr_internal(q)
  PROVE  IInv' /\ Facts(db)' = Facts(db) \ Finds(q)
<1> DEFINE O == {x[1] : x \in Found(db, q, NoBinding)}
<1>1. O = {o \in InTable(db.statements) : Statement(o) \in Finds(q)}
  <2> DEFINE unify(f) == unify_expr_from_db(q, f, NoBinding, DuplicateVar(q))
             C == Candidates(db, make_key_list(q))
  <2>1. make_key_list(q) # {}
    BY DEF make_key_list, KeysOfTerms
  <2>2. C = {o \in InTable(db.statements) : make_key_list(q) \subseteq KeysOfStatement(o)}
    BY <2>1, CandidatesIn DEF IInv
  <2>3. \A o \in InTable(db.statements) :
          Statement(o) \in Fact /\ KeysOfStatement(o) = make_key_list(Statement(o))
    BY StatementIn DEF InTable
  <2>4. O = {o \in C : unify(Statement(o)) # NoFrame}
    <3>1. Found(db, q, NoBinding) =
            {<<o, unify(Statement(o))>> : o \in {x \in C : unify(Statement(x)) # NoFrame}}
      <4> DEFINE u == [o \in C |-> unify(Statement(o))]
      <4>1. Found(db, q, NoBinding) = {<<o, u[o]>> : o \in {x \in DOMAIN u : u[x] # NoFrame}}
        BY DEF Found
      <4> HIDE DEF C, unify
      <4> QED
        BY <4>1
    <3> HIDE DEF C, unify
    <3>2. ASSUME NEW o \in O
          PROVE  o \in C /\ unify(Statement(o)) # NoFrame
      <4>1. PICK x \in Found(db, q, NoBinding) : o = x[1]
        OBVIOUS
      <4>2. PICK p \in {p \in C : unify(Statement(p)) # NoFrame} : x = <<p, unify(Statement(p))>>
        BY <3>1
      <4> QED
        BY <4>1, <4>2
    <3>3. ASSUME NEW o \in C, unify(Statement(o)) # NoFrame
          PROVE  o \in O
      <4> DEFINE x == <<o, unify(Statement(o))>>
      <4>1. x \in Found(db, q, NoBinding) /\ x[1] = o
        BY <3>1, <3>3
      <4> QED
        BY <4>1
    <3> QED
      BY <3>2, <3>3
  <2> HIDE DEF C, O
  <2> QED
    BY <2>2, <2>3, <2>4 DEF Finds, unify
<1>2. db' = free_expr(delete_expr_from_key(db, O, KeysOfStatements), O)
  BY DEF delete_expr_internal
<1> HIDE DEF O
<1>3. \A o \in O : KeysOfStatements[o] = KeysOfStatement(o)
  BY <1>1, StatementIn DEF InTable
<1>4. Drops(db, db', {Statement(o) : o \in O})
  BY <1>1, <1>2, <1>3, DeleteDrops DEF IInv
<1>5. BeSaved(db')
  BY <1>4, DropsKeeps DEF IInv
<1>6. Facts(db') = Facts(db) \ {Statement(o) : o \in O}
  BY <1>4, DropsFacts
<1>7. Facts(db) \ {Statement(o) : o \in O} = Facts(db) \ Finds(q)
  BY <1>1 DEF Facts
<1>8. DbInv(db')
  BY <1>4 DEF Drops
<1> QED
  BY <1>5, <1>6, <1>7, <1>8 DEF IInv

LEMMA BasicEventsStep ==
  ASSUME CountsFit, IInv, delete_basic_events
  PROVE  IInv' /\ Facts(db)' = {f \in Facts(db) : Head1(f) \notin Be}
<1> DEFINE st == db.statements
           there == {b \in db.concluded_be : db.refs[b.expr] # 1}
           keys == UNION {b.ko_list : b \in there}
           gone == [k \in keys |-> {b.expr : b \in {x \in there : k \in x.ko_list}}]
           n == [k \in keys |-> Cardinality({b \in there : k \in b.ko_list})]
           B == {b.expr : b \in there}
           deleted == Fewer(db, gone, n)
           r == [free_expr(free_expr(deleted, {b.expr : b \in db.concluded_be}), B)
                  EXCEPT !.concluded_be = {}]
<1>1. /\ DbInv(db) /\ TableInv(db) /\ db \in Table
      /\ st \in [Key -> SUBSET Expression] /\ AllOrNone(st) /\ OneForAFact(st)
      /\ db.concluded_be \in SUBSET [expr : Expression, ko_list : SUBSET Key]
      /\ SavedKeys(db) /\ SavedOnce(db)
  BY TableFields DEF IInv, DbInv, TableInv
<1>2. \A b \in db.concluded_be :
        /\ b.expr \in Expression /\ b.ko_list \in SUBSET Key /\ b.expr \in Saved(db)
        /\ b \in there <=> b.expr \in InTable(st)
        /\ b \in there => b.ko_list = Held(st, b.expr)
  <2> TAKE b \in db.concluded_be
  <2>1. b.expr \in Expression /\ b.ko_list \in SUBSET Key
    BY <1>1
  <2>2. b.expr \in Saved(db)
    BY DEF Saved
  <2>3. db.refs[b.expr] = (IF b.expr \in InTable(st) THEN 1 ELSE 0)
                            + (IF b.expr \in Saved(db) THEN 1 ELSE 0)
    BY <1>1, <2>1 DEF DbInv, References
  <2>4. b \in there <=> b.expr \in InTable(st)
    BY <2>2, <2>3
  <2> QED
    BY <1>1, <2>1, <2>2, <2>4 DEF SavedKeys
<1>3. B = InTable(st) \cap Saved(db)
  <2> HIDE DEF there
  <2>1. \A b \in there : b \in db.concluded_be
    BY DEF there
  <2> QED
    BY <1>2, <2>1 DEF Saved
<1>4. db' = r
  BY DEF delete_basic_events
<1>5. /\ keys \subseteq Key /\ DOMAIN gone = keys
      /\ \A k \in keys : gone[k] = B \cap st[k]
      /\ \A k \in Key \ keys : B \cap st[k] = {}
  <2>1. \A b \in there : b \in db.concluded_be
    OBVIOUS
  <2> HIDE DEF there
  <2>2. keys \subseteq Key /\ DOMAIN gone = keys
    BY <1>2, <2>1
  <2>3. \A b \in there : \A k \in Key : k \in b.ko_list <=> b.expr \in st[k]
    BY <1>2, <2>1 DEF Held
  <2>4. \A k \in Key : {b.expr : b \in {x \in there : k \in x.ko_list}} = B \cap st[k]
    BY <2>3
  <2>5. \A k \in keys : gone[k] = B \cap st[k]
    BY <2>2, <2>4
  <2>6. \A k \in Key \ keys : B \cap st[k] = {}
    BY <2>3
  <2> QED
    BY <2>2, <2>5, <2>6
<1>6. ASSUME NEW k \in keys
      PROVE  n[k] = Cardinality(gone[k])
  <2> DEFINE X == {b \in there : k \in b.ko_list}
             expr == [b \in X |-> b.expr]
  <2>1. k \in Key /\ gone[k] = {b.expr : b \in X} /\ n[k] = Cardinality(X) /\ gone[k] = B \cap st[k]
    BY <1>5
  <2>2. \A b \in X : b \in db.concluded_be
    OBVIOUS
  <2>3. IsFiniteSet(gone[k])
    <3>1. IsFiniteSet(st[k])
      BY <1>1, <2>1, BucketsFit
    <3>2. gone[k] \in SUBSET st[k]
      BY <2>1
    <3> QED
      BY <3>1, <3>2, FS_Subset
  <2> HIDE DEF X, gone, n
  <2>4. expr \in [X -> gone[k]]
    BY <2>1
  <2>5. \A b, c \in X : expr[b] = expr[c] => b = c
    BY <1>1, <2>2 DEF SavedOnce
  <2>6. \A o \in gone[k] : \E b \in X : expr[b] = o
    BY <2>1
  <2> HIDE DEF expr
  <2>7. expr \in Injection(X, gone[k]) /\ expr \in Surjection(X, gone[k])
    BY <2>4, <2>5, <2>6 DEF Injection, IsInjective, Surjection
  <2>8. Cardinality(X) = Cardinality(gone[k])
    BY <2>3, <2>7, FS_Injection
  <2> QED
    BY <2>1, <2>8
<1>7. Takes(db, deleted, B)
  <2> HIDE DEF gone, n, keys, B
  <2> QED
    BY <1>1, <1>5, <1>6, FewerTakes
<1>8. /\ TableInv(deleted) /\ deleted \in Table /\ deleted.refs = db.refs
      /\ deleted.statements = Without(st, B)
  <2> HIDE DEF deleted, B
  <2> QED
    BY <1>7 DEF Takes, TableInv
<1> DEFINE S == {b.expr : b \in db.concluded_be}
           once == [o \in Expression |-> IF o \in S THEN db.refs[o] - 1 ELSE db.refs[o]]
           twice == [o \in Expression |-> IF o \in B THEN once[o] - 1 ELSE once[o]]
<1>9. S = Saved(db)
  BY DEF Saved
<1>10. /\ r.statements = Without(st, B) /\ r.nombre = deleted.nombre /\ r.refs = twice
       /\ r.concluded_be = {}
       /\ r = [x \in {"statements", "nombre", "refs", "concluded_be"} |-> r[x]]
  <2> HIDE DEF deleted, B, S
  <2> QED
    BY <1>8, TableFields DEF free_expr, S
<1> HIDE DEF deleted, B, S, r, there
<1>11. ASSUME NEW o \in Expression
       PROVE  twice[o] = IF o \in InTable(st) \ B THEN 1 ELSE 0
  <2>1. db.refs[o] = (IF o \in InTable(st) THEN 1 ELSE 0) + (IF o \in S THEN 1 ELSE 0)
    BY <1>1, <1>9 DEF DbInv, References
  <2> QED
    BY <1>3, <1>9, <2>1
<1>12. twice \in [Expression -> Nat]
  BY <1>11
<1> HIDE DEF once, twice
<1>13. /\ Without(st, B) \in [Key -> SUBSET Expression]
       /\ InTable(Without(st, B)) = InTable(st) \ B
       /\ AllOrNone(Without(st, B)) /\ OneForAFact(Without(st, B))
  BY <1>1, WithoutTable
<1>14. r \in Table
  BY <1>8, <1>10, <1>12, <1>13, TableFields, TableOf
<1>15. Saved(r) = {} /\ SavedKeys(r) /\ SavedOnce(r)
  BY <1>10 DEF Saved, SavedKeys, SavedOnce
<1>16. Counted(r)
  BY <1>8, <1>10 DEF TableInv, Counted
<1>17. References(r)
  BY <1>10, <1>11, <1>13, <1>15 DEF References
<1>18. DbInv(r)
  BY <1>10, <1>13, <1>14, <1>15, <1>16, <1>17 DEF DbInv, TableInv
<1>19. \A o \in InTable(st) : o \in B <=> Head1(Statement(o)) \in Be
  BY <1>3 DEF IInv, BeSaved
<1>20. BeSaved(r)
  BY <1>10, <1>13, <1>15, <1>19 DEF BeSaved
<1>21. Facts(r) = {f \in Facts(db) : Head1(f) \notin Be}
  BY <1>10, <1>13, <1>19 DEF Facts
<1> QED
  BY <1>4, <1>18, <1>20, <1>21 DEF IInv

LEMMA ClearStep ==
  ASSUME IInv, clear_database
  PROVE  IInv' /\ Facts(db)' = {}
<1> DEFINE there == {o \in Expression : \E k \in Key : o \in db.statements[k]}
           none == [k \in Key |-> {}]
           refs == [o \in Expression |-> IF o \in there THEN db.refs[o] - 1 ELSE db.refs[o]]
           cbe == {[x EXCEPT !.ko_list = {}] : x \in db.concluded_be}
<1>1. /\ DbInv(db) /\ db \in Table
      /\ db.concluded_be \in SUBSET [expr : Expression, ko_list : SUBSET Key] /\ SavedOnce(db)
  BY TableFields DEF IInv, DbInv, TableInv
<1>2. there = InTable(db.statements)
  BY DEF InTable, Held
<1>3. /\ db'.statements = none /\ db'.nombre = [k \in Key |-> 0] /\ db'.refs = refs
      /\ db'.concluded_be = cbe
      /\ db' = [x \in {"statements", "nombre", "refs", "concluded_be"} |-> db'[x]]
  BY <1>1, TableFields DEF clear_database, free_expr
<1>4. InTable(none) = {} /\ AllOrNone(none) /\ OneForAFact(none)
      /\ none \in [Key -> SUBSET Expression]
  BY DEF InTable, Held, AllOrNone, OneForAFact
<1>5. \A b \in db.concluded_be : [b EXCEPT !.ko_list = {}] = [expr |-> b.expr, ko_list |-> {}]
  BY <1>1
<1>6. cbe = {[expr |-> b.expr, ko_list |-> {}] : b \in db.concluded_be}
  BY <1>5
<1> HIDE DEF cbe
<1>7. Saved(db') = Saved(db)
  <2>1. \A x \in cbe : \E b \in db.concluded_be : x.expr = b.expr
    BY <1>6
  <2>2. ASSUME NEW b \in db.concluded_be
        PROVE  \E x \in cbe : x.expr = b.expr
    <3> DEFINE x == [expr |-> b.expr, ko_list |-> {}]
    <3>1. x \in cbe /\ x.expr = b.expr
      BY <1>6
    <3> QED
      BY <3>1
  <2> QED
    BY <1>3, <2>1, <2>2 DEF Saved
<1>8. SavedOnce(db')
  <2>1. ASSUME NEW x \in cbe, NEW y \in cbe, x.expr = y.expr
        PROVE  x = y
    <3>1. PICK b \in db.concluded_be : x = [expr |-> b.expr, ko_list |-> {}]
      BY <1>6
    <3>2. PICK c \in db.concluded_be : y = [expr |-> c.expr, ko_list |-> {}]
      BY <1>6
    <3> QED
      BY <2>1, <3>1, <3>2
  <2> QED
    BY <1>3, <2>1 DEF SavedOnce
<1>9. cbe \in SUBSET [expr : Expression, ko_list : SUBSET Key]
  BY <1>1, <1>6
<1>10. \A o \in Expression : refs[o] = IF o \in Saved(db) THEN 1 ELSE 0
  <2> TAKE o \in Expression
  <2>1. db.refs[o] = (IF o \in InTable(db.statements) THEN 1 ELSE 0)
                       + (IF o \in Saved(db) THEN 1 ELSE 0)
    BY <1>1 DEF DbInv, References
  <2> QED
    BY <1>2, <2>1
<1>11. refs \in [Expression -> Nat]
  BY <1>10
<1> HIDE DEF refs, none, there
<1>12. db' \in Table
  <2>1. db'.nombre \in [Key -> 0..CountMod - 1]
    BY <1>3, BoundAssumption
  <2> QED
    BY <1>3, <1>4, <1>9, <1>11, <2>1, TableOf
<1>13. Counted(db')
  <2>1. \A k \in Key : db'.statements[k] = {} /\ db'.nombre[k] = 0
    BY <1>3 DEF none
  <2> QED
    BY <2>1, FS_EmptySet DEF Counted
<1>14. SavedKeys(db') /\ References(db') /\ BeSaved(db') /\ Facts(db') = {}
  BY <1>3, <1>4, <1>7, <1>10 DEF SavedKeys, References, BeSaved, Facts
<1> QED
  BY <1>3, <1>4, <1>8, <1>12, <1>13, <1>14 DEF IInv, DbInv, TableInv

-----------------------------------------------------------------------------

LEMMA InitInv ==
  ASSUME Init
  PROVE  IInv /\ Facts(db) = {}
<1>1. /\ db.statements = [k \in Key |-> {}] /\ db.nombre = [k \in Key |-> 0]
      /\ db.refs = [o \in Expression |-> 0] /\ db.concluded_be = {}
      /\ db = [x \in {"statements", "nombre", "refs", "concluded_be"} |-> db[x]]
  BY DEF Init, make_database
<1>2. db \in Table
  <2>1. db.nombre \in [Key -> 0..CountMod - 1]
    BY <1>1, BoundAssumption
  <2> QED
    BY <1>1, <2>1, TableOf
<1>3. InTable(db.statements) = {} /\ Saved(db) = {}
  BY <1>1 DEF InTable, Held, Saved
<1>4. Counted(db)
  <2>1. \A k \in Key : db.statements[k] = {} /\ db.nombre[k] = 0
    BY <1>1
  <2> QED
    BY <2>1, FS_EmptySet DEF Counted
<1>5. References(db)
  <2>1. \A o \in Expression : db.refs[o] = 0
    BY <1>1
  <2> QED
    BY <1>3, <2>1 DEF References
<1>6. /\ AllOrNone(db.statements) /\ OneForAFact(db.statements) /\ SavedKeys(db)
      /\ SavedOnce(db) /\ BeSaved(db) /\ Facts(db) = {}
  BY <1>1, <1>3 DEF AllOrNone, OneForAFact, SavedKeys, SavedOnce, BeSaved, Facts
<1> QED
  BY <1>2, <1>4, <1>5, <1>6 DEF IInv, DbInv, TableInv

LEMMA ConsultStep ==
  ASSUME FactRes \subseteq {FALSE}, NEW q, consult(q)
  PROVE  db' = db
BY DEF consult

LEMMA InvStep ==
  ASSUME CountsFit, FactRes \subseteq {FALSE}, IInv, [Next]_db
  PROVE  IInv'
<1>1. ASSUME NEW e \in Fact, conclude(e)
      PROVE  IInv'
  BY <1>1, ConcludeStep
<1>2. ASSUME NEW q \in Pattern, delete_expr_internal(q)
      PROVE  IInv'
  BY <1>2, RetractStep
<1>3. CASE delete_basic_events
  BY <1>3, BasicEventsStep
<1>4. CASE clear_database
  BY <1>4, ClearStep
<1>5. ASSUME db' = db
      PROVE  IInv'
  BY <1>5 DEF IInv
<1> QED
  BY <1>1, <1>2, <1>3, <1>4, <1>5, ConsultStep DEF Next

LEMMA InvCorrect ==
  ASSUME CountsFit, FactRes \subseteq {FALSE}
  PROVE  Spec => []IInv
<1>1. Init => IInv
  BY InitInv
<1>2. IInv /\ [Next]_db => IInv'
  BY InvStep
<1> QED
  BY <1>1, <1>2, PTL DEF Spec

LEMMA IndexIsTable ==
  ASSUME NEW d, DbInv(d)
  PROVE  UNION {d.statements[k] : k \in Predicates} = InTable(d.statements)
<1> DEFINE indexed == UNION {d.statements[k] : k \in Predicates}
<1>1. d.statements \in [Key -> SUBSET Expression] /\ AllOrNone(d.statements)
  BY TableFields DEF DbInv, TableInv
<1>2. \A o \in InTable(d.statements) : o \in indexed
  <2> TAKE o \in InTable(d.statements)
  <2>1. o \in Expression /\ Held(d.statements, o) = KeysOfStatement(o)
    BY <1>1 DEF InTable, AllOrNone
  <2>2. /\ make_key_all(Statement(o)) \in KeysOfStatement(o)
        /\ make_key_all(Statement(o)) \in Predicates
    BY <2>1, StatementIn, KeysIn
  <2> QED
    BY <2>1, <2>2 DEF Held
<1>3. \A o \in indexed : o \in InTable(d.statements)
  <2>1. Predicates \subseteq Key
    BY KeysIn DEF Predicates
  <2> QED
    BY <1>1, <2>1 DEF InTable, Held
<1> QED
  BY <1>2, <1>3

LEMMA IndexedIn ==
  /\ IInv => Indexed = InTable(db.statements) /\ Stored = Facts(db)
  /\ IInv' => Stored' = Facts(db)'
BY IndexIsTable DEF IInv, Indexed, Stored, Facts

(* The buckets hold copies of facts, the counts stay within their width, and no expression is
   freed more often than it is referred to (database.c, free_expr). *)
THEOREM TypeCorrect ==
  ASSUME CountsFit, FactRes \subseteq {FALSE}
  PROVE  Spec => []TypeOK
<1>1. IInv => TypeOK
  BY DEF IInv, DbInv, TableInv, TypeOK
<1> QED
  BY <1>1, InvCorrect, PTL

(* Whatever is concluded, replaced, retracted and dropped at the end of turns, the table holds an
   expression under all its keys or under none, once for a fact, and counts exactly what its
   buckets hold. *)
THEOREM IndexExactCorrect ==
  ASSUME CountsFit, FactRes \subseteq {FALSE}
  PROVE  Spec => []IndexExact
<1>1. ASSUME IInv PROVE IndexExact
  <2>1. /\ AllOrNone(db.statements) /\ OneForAFact(db.statements) /\ Counted(db)
        /\ SavedKeys(db) /\ References(db)
        /\ db.concluded_be \in SUBSET [expr : Expression, ko_list : SUBSET Key]
    BY <1>1, TableFields DEF IInv, DbInv, TableInv
  <2>2. Indexed = InTable(db.statements)
    BY <1>1, IndexedIn
  <2>3. \A o \in Expression : KeysHolding(o) = Held(db.statements, o)
    BY DEF KeysHolding, Held
  <2>4. \A o \in Expression :
          KeysHolding(o) = IF o \in Indexed THEN KeysOfStatement(o) ELSE {}
    BY <2>1, <2>2, <2>3 DEF AllOrNone, InTable
  <2>5. BasicEventsKnown
    <3> SUFFICES ASSUME NEW x \in db.concluded_be
                 PROVE  IF x.expr \in Indexed
                        THEN db.refs[x.expr] = 2 /\ x.ko_list = KeysHolding(x.expr)
                        ELSE db.refs[x.expr] = 1
      BY DEF BasicEventsKnown
    <3>1. x.expr \in Expression /\ x.expr \in Saved(db)
      BY <2>1 DEF Saved
    <3>2. db.refs[x.expr] = (IF x.expr \in InTable(db.statements) THEN 1 ELSE 0)
                              + (IF x.expr \in Saved(db) THEN 1 ELSE 0)
      BY <2>1, <3>1 DEF References
    <3>3. x.expr \in Indexed => x.ko_list = KeysHolding(x.expr)
      BY <2>1, <2>2, <2>3, <3>1 DEF SavedKeys
    <3> QED
      BY <2>2, <3>1, <3>2, <3>3
  <2> QED
    BY <2>1, <2>2, <2>4, <2>5 DEF IndexExact, OneForAFact, Counted
<1> QED
  BY <1>1, InvCorrect, PTL

(* A function has one value: no two facts of a functional predicate have the same arguments. *)
OneValue == \A f, g \in Stored : Functional(f) /\ g \in SameArgs(f) => f = g

LEMMA OneValueStep ==
  ASSUME CountsFit, FactRes \subseteq {FALSE}, IInv, OneValue, [Next]_db
  PROVE  OneValue'
<1>1. IInv' /\ Stored = Facts(db) /\ Stored' = Facts(db)'
  <2>1. IInv'
    BY InvStep
  <2> QED
    BY <2>1, IndexedIn
<1>2. ASSUME NEW e \in Fact, conclude(e)
      PROVE  OneValue'
  <2>1. Stored' = (Stored \ InTheWay(e)) \cup (IF Kept(e) THEN {e} ELSE {})
    BY <1>1, <1>2, ConcludeStep
  <2>2. Stored \subseteq Fact
    BY <1>1, StatementIn DEF Facts, InTable
  <2>3. ASSUME NEW f \in Stored \ InTheWay(e), Kept(e), Functional(e), f \in SameArgs(e)
        PROVE  FALSE
    BY <2>2, <2>3 DEF InTheWay
  <2>4. ASSUME NEW f \in Fact, Functional(f), e \in SameArgs(f)
        PROVE  Functional(e) /\ f \in SameArgs(e)
    BY <2>4 DEF Functional, SameArgs, Args
  <2> SUFFICES ASSUME NEW f \in Stored', NEW g \in Stored', Functional(f), g \in SameArgs(f)
               PROVE  f = g
    BY DEF OneValue
  <2> DEFINE left == Stored \ InTheWay(e)
  <2>5. CASE f \in left /\ g \in left
    BY <2>5 DEF OneValue
  <2>6. CASE f \notin left
    BY <2>1, <2>3, <2>6
  <2>7. CASE f \in left /\ g \notin left
    BY <2>1, <2>2, <2>3, <2>4, <2>7
  <2> QED
    BY <2>5, <2>6, <2>7
<1>3. ASSUME Stored' \subseteq Stored
      PROVE  OneValue'
  BY <1>3 DEF OneValue
<1>4. ASSUME NEW q \in Pattern, delete_expr_internal(q)
      PROVE  Stored' \subseteq Stored
  BY <1>1, <1>4, RetractStep
<1>5. ASSUME delete_basic_events
      PROVE  Stored' \subseteq Stored
  BY <1>1, <1>5, BasicEventsStep
<1>6. ASSUME clear_database
      PROVE  Stored' \subseteq Stored
  BY <1>1, <1>6, ClearStep
<1>7. ASSUME db' = db
      PROVE  Stored' \subseteq Stored
  BY <1>7 DEF Stored, Indexed
<1> QED
  BY <1>2, <1>3, <1>4, <1>5, <1>6, <1>7, ConsultStep DEF Next

(* "delete_ff_expr: more than one functional fact found" (database.c:1234) is never printed:
   concluding a fact finds the only other value of its function under the keys of the arguments,
   and no other operation brings a second one. *)
THEOREM OneValueCorrect ==
  ASSUME CountsFit, FactRes \subseteq {FALSE}
  PROVE  Spec => []OneValue
<1>1. Init => OneValue
  <2>1. Init => Stored = {}
    BY InitInv, IndexedIn
  <2> QED
    BY <2>1 DEF OneValue
<1>2. IInv /\ OneValue /\ [Next]_db => OneValue'
  BY OneValueStep
<1> QED
  BY <1>1, <1>2, InvCorrect, PTL DEF Spec

-----------------------------------------------------------------------------
(* The table is a set of facts. *)

LEMMA ConcludeImplements ==
  ASSUME CountsFit, IInv, IInv', NEW e \in Fact, conclude(e)
  PROVE  FB!Conclude(e)
<1>1. Stored = Facts(db) /\ Stored' = Facts(db)'
  BY IndexedIn
<1>2. Stored' = (Stored \ InTheWay(e)) \cup (IF Kept(e) THEN {e} ELSE {})
  BY <1>1, ConcludeStep
<1>3. \A f \in Fact : f # e => (f \in InTheWay(e) <=> f \in Replaces[e])
  <2>1. Negated(e) => Head1(e) \notin Be
    BY PredAssumption DEF Negated
  <2> QED
    BY <2>1 DEF InTheWay, Replaces, SameArgs, Args
<1>4. CASE Kept(e)
  BY <1>1, <1>2, <1>3, <1>4, StatementIn DEF FB!Conclude, Facts, InTable
<1>5. CASE ~Kept(e)
  <2>1. Negated(e) /\ ClosedWorld(not_expr_dup(e))
    BY <1>5 DEF Kept
  <2>2. ~ClosedWorld(e)
    BY <2>1, PredAssumption, FunctionalAssumption DEF ClosedWorld, Negated
  <2>3. e \notin InTheWay(e) /\ e \notin Replaces[e]
    BY <1>5, <2>1, <2>2 DEF InTheWay, Replaces
  <2> QED
    BY <1>1, <1>2, <1>3, <1>5, <2>3, StatementIn DEF FB!Conclude, Facts, InTable
<1> QED
  BY <1>4, <1>5

LEMMA FactBaseStep ==
  ASSUME CountsFit, FactRes \subseteq {FALSE}, UnificationExact, IInv, IInv', [Next]_db
  PROVE  [FB!Next]_Stored
<1>1. Stored = Facts(db) /\ Stored' = Facts(db)'
  BY IndexedIn
<1>2. ASSUME NEW e \in Fact, conclude(e)
      PROVE  FB!Next
  BY <1>2, ConcludeImplements DEF FB!Next
<1>3. ASSUME NEW q \in Pattern, delete_expr_internal(q)
      PROVE  FB!Next
  <2>1. FB!Retract(q)
    BY <1>1, <1>3, RetractStep DEF FB!Retract, UnificationExact
  <2> QED
    BY <2>1 DEF FB!Next
<1>4. CASE delete_basic_events
  <2>1. Stored' = {f \in Stored : Head1(f) \notin Be} /\ Stored \subseteq Fact
    BY <1>1, <1>4, BasicEventsStep, StatementIn DEF Facts, InTable
  <2>2. FB!EndTurn
    BY <2>1 DEF FB!EndTurn
  <2> QED
    BY <2>2 DEF FB!Next
<1>5. CASE clear_database
  <2>1. FB!Clear
    BY <1>1, <1>5, ClearStep DEF FB!Clear
  <2> QED
    BY <2>1 DEF FB!Next
<1>6. ASSUME db' = db
      PROVE  Stored' = Stored
  BY <1>6 DEF Stored, Indexed
<1> QED
  BY <1>2, <1>3, <1>4, <1>5, <1>6, ConsultStep DEF Next

(* If keys and unification find the instances of each pattern that is retracted (TLC finds that
   they do, for the patterns of its run), the table does what FactBase says to the set of its
   facts: a fact replaces its negation and the other value of its function, and nothing else. *)
THEOREM FactBaseCorrect ==
  ASSUME CountsFit, FactRes \subseteq {FALSE}, UnificationExact
  PROVE  Spec => ImplementsFactBase
<1>1. Init => FB!Init
  BY InitInv, IndexedIn DEF FB!Init
<1>2. IInv /\ IInv' /\ [Next]_db => [FB!Next]_Stored
  BY FactBaseStep
<1> QED
  BY <1>1, <1>2, InvCorrect, PTL DEF Spec, ImplementsFactBase, FB!Spec

=============================================================================
