------------------------------ MODULE Database ------------------------------
(***************************************************************************)
(* The database of a kernel (database.c): a hash table that indexes each   *)
(* fact under several keys, one for each of its terms and one for all the  *)
(* facts of its predicate.  Consulting and retracting intersect the        *)
(* buckets of the keys of a pattern, and unify what is left only where the *)
(* keys do not tell.  Basic events are indexed like any fact and taken out *)
(* of the index at the end of the turn, from references kept when they     *)
(* were concluded.                                                         *)
(*                                                                         *)
(* An expression is the tuple of its predicate and its terms; a term is an *)
(* atom, a logical variable or an expression.                              *)
(***************************************************************************)
EXTENDS Integers, FiniteSets, Sequences

CONSTANTS
  Atom, Var, Pred,
  Not,        \* the predicate of negations
  Unbound,    \* the value of a variable that has none
  NoFrame,    \* what does not unify
  Fact,       \* the facts that are concluded, without variables
  Pattern,    \* the expressions that are consulted and retracted
  Ff,         \* the number of arguments of the functional predicates, or -1
  Cwp,        \* closed-world predicates
  Be,         \* predicates of basic events
  Copies,     \* as many copies of a fact are in memory at most
  CountMod,   \* nombre counts modulo this, 2^16 in the code
  FactRes,    \* whether consultations ask for the facts: a subset of BOOLEAN
  Queries     \* sequences of expressions that are consulted together

ASSUME TermAssumption == Atom \cap Var = {} /\ Unbound \notin Atom \cup Var
ASSUME PredAssumption == Not \in Pred /\ Cwp \cup Be \subseteq Pred \ {Not}
ASSUME FunctionalAssumption == Ff \in [Pred -> Int] /\ Ff[Not] < 0
ASSUME BoundAssumption == Copies \in Nat \ {0} /\ CountMod \in Nat \ {0}

VARIABLE db   \* the table, the references to expressions, concluded_be

-----------------------------------------------------------------------------
(* Expressions *)

Head1(e) == e[1]
Arity(e) == Len(e) - 1
Composed(t) == t \notin Atom \cup Var

Negated(e) == Head1(e) = Not

\* Expressions of a predicate without variables, with the terms T.
Ground(T) ==
  {t \in Seq(Pred \cup T) :
    t # <<>> /\ Composed(t) /\ Head1(t) \in Pred /\ \A i \in 1..Arity(t) : t[i + 1] \in T}

ASSUME FactAssumption ==
  Fact \subseteq Ground(Atom \cup Ground(Atom \cup Ground(Atom)))

not_expr_dup(e) == IF Negated(e) THEN e[2] ELSE <<Not, e>>

\* A predicate whose facts are false when they are absent.
ClosedWorld(e) == Head1(e) \in Cwp \/ Ff[Head1(e)] >= 0

(* Functions on expressions are given for their arguments and what they are *)
(* for composed terms; they nest three deep: a negation, its expression and *)
(* the terms of that.                                                       *)

\* The keys of the term at place i, subkeys being its own; variables have none.
make_key_elt(e, i, subkeys) ==
  LET t == e[i + 1]
  IN  IF t \in Var THEN {}
      ELSE {<<Head1(e), Arity(e), i>> \o k : k \in IF Composed(t) THEN subkeys ELSE {<<t>>}}

make_key_all(e) == <<Head1(e), Arity(e), 0>>

KeysOfTerms(Sub(_), e) ==
  {make_key_all(e)} \cup UNION {make_key_elt(e, i, Sub(e[i + 1])) : i \in 1..Arity(e)}

NoKeys(t) == {}
Keys1(t) == KeysOfTerms(NoKeys, t)
make_key_list_term(t) == KeysOfTerms(Keys1, t)
make_key_list(e) == KeysOfTerms(make_key_list_term, e)

\* The keys of the arguments of a functional fact, those of its value.
make_ff_arg_key_list(e) ==
  {make_key_all(e)} \cup
    UNION {make_key_elt(e, i, make_key_list_term(e[i + 1])) :
           i \in {j \in 1..Arity(e) : j <= Ff[Head1(e)]}}
make_ff_val_key_list(e) ==
  UNION {make_key_elt(e, i, make_key_list_term(e[i + 1])) : i \in Ff[Head1(e)] + 1..Arity(e)}

\* The places of variables.
PlacesOfVars(Sub(_), e) ==
  UNION {LET t == e[i + 1]
         IN  IF t \in Var THEN {<<i, t>>}
             ELSE IF Composed(t) THEN {<<i>> \o p : p \in Sub(t)} ELSE {}
         : i \in 1..Arity(e)}
Places1(t) == PlacesOfVars(NoKeys, t)
Places2(t) == PlacesOfVars(Places1, t)
Places(e) == PlacesOfVars(Places2, e)

VarsOf(e) == {p[Len(p)] : p \in Places(e)}

\* dup_var_list: a variable of the expression has several places.
DuplicateVar(e) == Cardinality(Places(e)) > Cardinality(VarsOf(e))

(* Frames: the values of variables, those of the enclosing frames included *)

NoBinding == [v \in Var |-> Unbound]

find_binding(frame, t) ==
  IF t \in Var THEN IF frame[t] = Unbound THEN t ELSE frame[t] ELSE t

BindTerms(Sub(_, _), frame, e) ==
  [i \in 1..Len(e) |->
    IF i > 1 /\ Composed(e[i]) THEN Sub(frame, e[i])
    ELSE IF i > 1 THEN find_binding(frame, e[i]) ELSE e[i]]
Unchanged(frame, t) == t
Bind1(frame, t) == BindTerms(Unchanged, frame, t)
Bind2(frame, t) == BindTerms(Bind1, frame, t)
find_binding_ef_or_prog_var_tl(frame, e) == BindTerms(Bind2, frame, e)

\* Unless variables are duplicated, the terms of a fact that the keys have
\* found are those of the expression; within is what unifying theirs gives.
unify_term_from_db(t1, t2, within, frame, dup_var) ==
  IF t1 \in Var THEN [frame EXCEPT ![t1] = t2]
  ELSE IF Composed(t1) # Composed(t2) THEN NoFrame
  ELSE IF Composed(t1) THEN
    IF dup_var /\ (Head1(t1) # Head1(t2) \/ Len(t1) # Len(t2)) THEN NoFrame
    ELSE within
  ELSE IF dup_var /\ t1 # t2 THEN NoFrame ELSE frame

UnifyTerms(Sub(_, _, _, _), e1, e2, frame, dup_var) ==
  LET unified[i \in 0..Arity(e1)] ==
        LET before == unified[i - 1]
            t1 == find_binding(before, e1[i + 1])
            t2 == e2[i + 1]
        IN  IF i = 0 THEN frame
            ELSE IF before = NoFrame THEN NoFrame
            ELSE unify_term_from_db(t1, t2, Sub(t1, t2, before, dup_var), before, dup_var)
  IN  unified[Arity(e1)]
Same(e1, e2, frame, dup_var) == frame
Unify1(e1, e2, frame, dup_var) == UnifyTerms(Same, e1, e2, frame, dup_var)
Unify2(e1, e2, frame, dup_var) == UnifyTerms(Unify1, e1, e2, frame, dup_var)
unify_expr_from_db(e1, e2, frame, dup_var) == UnifyTerms(Unify2, e1, e2, frame, dup_var)

-----------------------------------------------------------------------------
(* The table *)

KeysOfFact == [f \in Fact |-> make_key_list(f)]

Key == UNION {KeysOfFact[f] : f \in Fact}

\* The expressions in memory: copies of facts.
Expression == Fact \X (1..Copies)
Statement(o) == o[1]

\* A bucket is in the table as long as it holds expressions.
Table ==
  [statements   : [Key -> SUBSET Expression],
   nombre       : [Key -> 0..CountMod - 1],
   refs         : [Expression -> Nat],
   concluded_be : SUBSET [expr : Expression, ko_list : SUBSET Key]]

TypeOK == db \in Table

make_database ==
  [statements   |-> [k \in Key |-> {}],
   nombre       |-> [k \in Key |-> 0],
   refs         |-> [o \in Expression |-> 0],
   concluded_be |-> {}]

get_expr_from_key(d, k) == IF k \in Key THEN d.statements[k] ELSE {}

\* The intersection of the buckets.
Candidates(d, keys) ==
  {o \in get_expr_from_key(d, CHOOSE k \in keys : TRUE) :
    \A k \in keys : o \in get_expr_from_key(d, k)}

\* n[k] expressions less, gone[k], in bucket k, which goes when its count comes to 0; what
\* concluded_be has of it is then nothing that the table knows.
Fewer(d, gone, n) ==
  LET out == {k \in DOMAIN gone : d.nombre[k] \in 1..n[k]}
      fewer == DOMAIN gone \ out
  IN  [d EXCEPT
        !.nombre = [k \in Key |-> IF k \in out THEN 0 ELSE
                                  IF k \in fewer THEN (@[k] - n[k]) % CountMod ELSE @[k]],
        !.statements = [k \in Key |-> IF k \in out THEN {} ELSE
                                      IF k \in fewer THEN @[k] \ gone[k] ELSE @[k]],
        !.concluded_be = {[b EXCEPT !.ko_list = @ \ out] : b \in @}]

\* Those of O that are in the bucket of a key of theirs.
delete_expr_from_key(d, O, keysOf) ==
  LET keys == UNION {keysOf[o] : o \in O}
      gone == [k \in keys |-> {o \in O \cap get_expr_from_key(d, k) : k \in keysOf[o]}]
      n == [k \in keys |-> Cardinality(gone[k])]
  IN  Fewer(d, gone, n)

free_expr(d, O) == [d EXCEPT !.refs = [o \in Expression |-> IF o \in O THEN @[o] - 1 ELSE @[o]]]

KeysOfStatement(o) == KeysOfFact[Statement(o)]
KeysOfStatements == [o \in Expression |-> KeysOfStatement(o)]

add_expr_to_key(d, o) ==
  LET keys == KeysOfStatement(o)
  IN  [d EXCEPT
        !.statements = [k \in Key |-> IF k \in keys THEN @[k] \cup {o} ELSE @[k]],
        !.nombre = [k \in Key |-> IF k \in keys THEN (@[k] + 1) % CountMod ELSE @[k]],
        !.refs[o] = 1]

-----------------------------------------------------------------------------
(* Concluding and retracting *)

\* The expressions equal to e.
Equal(d, e) == {o \in Candidates(d, make_key_list(e)) : Statement(o) = e}

delete_expr_from_conclude_expr(d, e) ==
  LET O == Equal(d, e) IN free_expr(delete_expr_from_key(d, O, KeysOfStatements), O)

\* Mutant: the keys of the value are those of the new one.
DeleteFfByNewValue(d, e) ==
  LET O == Candidates(d, make_ff_arg_key_list(e))
      keysOf == [o \in O |-> make_ff_arg_key_list(e) \cup make_ff_val_key_list(e)]
  IN  free_expr(delete_expr_from_key(d, O, keysOf), O)

delete_ff_expr(d, e) ==
  LET O == Candidates(d, make_ff_arg_key_list(e))
      keysOf == [o \in O |-> make_ff_arg_key_list(e) \cup make_ff_val_key_list(Statement(o))]
  IN  free_expr(delete_expr_from_key(d, O, keysOf), O)

\* Mutant: a negation does not remove what it denies.
OppositeOfPositive(d, e) ==
  IF ~Negated(e) /\ Head1(e) \notin Be
  THEN delete_expr_from_conclude_expr(d, not_expr_dup(e)) ELSE d

\* A negation always removes what it denies; a basic event denies nothing.
WithoutOpposite(d, e) ==
  IF Negated(e) \/ Head1(e) \notin Be
  THEN delete_expr_from_conclude_expr(d, not_expr_dup(e)) ELSE d

Kept(e) == ~(Negated(e) /\ ClosedWorld(not_expr_dup(e)))

Functional(e) == Ff[Head1(e)] >= 0

\* What is in the way of e has gone.
Cleared(d, e) ==
  LET opposed == WithoutOpposite(d, e)
  IN  IF Kept(e) /\ Functional(e) THEN delete_ff_expr(opposed, e) ELSE opposed

SaveKeys(d, o) ==
  IF Head1(Statement(o)) \in Be
  THEN [d EXCEPT !.refs[o] = @ + 1,
                 !.concluded_be = @ \cup {[expr |-> o, ko_list |-> KeysOfStatement(o)]}]
  ELSE d

conclude(e) ==
  LET cleared == Cleared(db, e)
      unused == {c \in 1..Copies : cleared.refs[<<e, c>>] = 0}
  IN  IF ~Kept(e) \/ Equal(cleared, e) # {} THEN db' = cleared
      ELSE \E c \in unused :
             /\ \A u \in unused : c <= u
             /\ db' = SaveKeys(add_expr_to_key(cleared, <<e, c>>), <<e, c>>)

\* What is kept of basic events is not.
clear_database ==
  LET there == {o \in Expression : \E k \in Key : o \in db.statements[k]}
  IN  db' = [free_expr(db, there) EXCEPT
              !.statements = [k \in Key |-> {}], !.nombre = [k \in Key |-> 0],
              !.concluded_be = {[x EXCEPT !.ko_list = {}] : x \in @}]

\* The expressions a pattern finds, each with the frame it unifies in.
Found(d, q, frame) ==
  LET unified == [o \in Candidates(d, make_key_list(q)) |->
                    unify_expr_from_db(q, Statement(o), frame, DuplicateVar(q))]
  IN  {<<o, unified[o]>> : o \in {x \in DOMAIN unified : unified[x] # NoFrame}}

delete_expr_internal(q) ==
  LET O == {x[1] : x \in Found(db, q, NoBinding)}
  IN  db' = free_expr(delete_expr_from_key(db, O, KeysOfStatements), O)

\* Mutant: what was retracted during the turn is deleted once more.
DeleteThemAll ==
  LET keys == UNION {b.ko_list : b \in db.concluded_be}
      gone == [k \in keys |-> {b.expr : b \in {x \in db.concluded_be : k \in x.ko_list}}]
      n == [k \in keys |-> Cardinality({b \in db.concluded_be : k \in b.ko_list})]
      deleted == Fewer(db, gone, n)
      once == free_expr(deleted, {b.expr : b \in db.concluded_be})
  IN  db' = [free_expr(once, {b.expr : b \in db.concluded_be}) EXCEPT !.concluded_be = {}]

\* An expression with one reference left is no longer in the database; the
\* others are taken out of the buckets they were put in.
delete_basic_events ==
  LET there == {b \in db.concluded_be : db.refs[b.expr] # 1}
      keys == UNION {b.ko_list : b \in there}
      gone == [k \in keys |-> {b.expr : b \in {x \in there : k \in x.ko_list}}]
      n == [k \in keys |-> Cardinality({b \in there : k \in b.ko_list})]
      deleted == Fewer(db, gone, n)
  IN  db' = [free_expr(free_expr(deleted, {b.expr : b \in db.concluded_be}),
                       {b.expr : b \in there})
             EXCEPT !.concluded_be = {}]

-----------------------------------------------------------------------------
(* Consulting *)

\* Mutant: keys are made before the variables of the frame are replaced.
KeysUnbound(d, q, frame) == Found(d, q, frame)

ConsultPositive(d, q, frame) == Found(d, find_binding_ef_or_prog_var_tl(frame, q), frame)

\* The frames in which the database satisfies q.
consult_expr(d, q, frame) ==
  IF Negated(q) /\ ClosedWorld(not_expr_dup(q))
  THEN IF ConsultPositive(d, not_expr_dup(q), frame) = {} THEN {frame} ELSE {}
  ELSE {x[2] : x \in ConsultPositive(d, q, frame)}

\* A conjunction, in its order.
consult_and(d, el) ==
  LET frames[i \in 0..Len(el)] ==
        IF i = 0 THEN {NoBinding}
        ELSE UNION {consult_expr(d, el[i], frame) : frame \in frames[i - 1]}
  IN  frames[Len(el)]

\* A disjunction: with each solution, the expressions it satisfies.
consult_or(d, el) ==
  LET solutions[i \in 0..Len(el)] ==
        IF i = 0 THEN {<<{}, NoBinding>>}
        ELSE solutions[i - 1] \cup
               UNION {{<<s[1] \cup {i}, frame>> : frame \in consult_expr(d, el[i], s[2])}
                      : s \in solutions[i - 1]}
  IN  {s \in solutions[Len(el)] : s[1] # {}}

\* A consultation that asks for the facts keeps a reference to each.
consult(q) ==
  \E fact_res \in FactRes :
    db' = IF fact_res
          THEN [db EXCEPT !.refs = [o \in Expression |->
                 IF \E x \in ConsultPositive(db, q, NoBinding) : x[1] = o
                 THEN @[o] + 1 ELSE @[o]]]
          ELSE db

-----------------------------------------------------------------------------

Init == db = make_database

Next ==
  \/ \E e \in Fact : conclude(e)
  \/ \E q \in Pattern : delete_expr_internal(q) \/ consult(q)
  \/ delete_basic_events \/ clear_database

Spec == Init /\ [][Next]_db

-----------------------------------------------------------------------------
(* Correctness *)

Predicates == {make_key_all(f) : f \in Fact}

\* An expression of the database is in the bucket of its predicate.
Indexed == UNION {db.statements[k] : k \in Predicates}

Stored == {Statement(o) : o \in Indexed}

KeysHolding(o) == {k \in Key : o \in db.statements[k]}

(* "We just have to verify if they are not already deleted from the        *)
(* database" (database.c:1455-1457): a basic event that was retracted      *)
(* before the end of the turn has one reference left, and only then; the   *)
(* keys of the others are those it is found under, those of buckets that   *)
(* went and came back since included.                                      *)
BasicEventsKnown ==
  \A x \in db.concluded_be :
    IF x.expr \in Indexed THEN db.refs[x.expr] = 2 /\ x.ko_list = KeysHolding(x.expr)
    ELSE db.refs[x.expr] = 1

(* The table holds an expression under all its keys or under none, one     *)
(* expression for a fact, a bucket counts what it holds, and what is kept  *)
(* of basic events agrees with it.  Every way of concluding and deleting   *)
(* computes the keys by itself: from the negation, from the arguments of a *)
(* functional fact and the value of the old one, from a pattern, or from   *)
(* what was saved for a basic event.                                       *)
IndexExact ==
  /\ \A o \in Expression :
       KeysHolding(o) = IF o \in Indexed THEN KeysOfStatement(o) ELSE {}
  /\ \A o1, o2 \in Indexed : Statement(o1) = Statement(o2) => o1 = o2
  /\ \A k \in Key : db.nombre[k] = Cardinality(db.statements[k])
  /\ BasicEventsKnown

(* What patterns, conjunctions and disjunctions stand for. *)

Terms == Atom \cup UNION {{f[i] : i \in 2..Len(f)} : f \in {e \in Fact : ~Negated(e)}}

Instance(f, q) ==
  /\ Head1(f) = Head1(q)
  /\ \E frame \in [VarsOf(q) -> Terms] :
       find_binding_ef_or_prog_var_tl([v \in Var |->
         IF v \in VarsOf(q) THEN frame[v] ELSE Unbound], q) = f

InstancesOf == [q \in Pattern |-> {f \in Fact : Instance(f, q)}]

DeniesClosedWorld(q) == Negated(q) /\ ClosedWorld(not_expr_dup(q))

Satisfies(q, frame) ==
  LET bound(e) == find_binding_ef_or_prog_var_tl(frame, e)
  IN  IF DeniesClosedWorld(q) THEN \A f \in Stored : ~Instance(f, bound(not_expr_dup(q)))
      ELSE bound(q) \in Stored

Answers(el, I) ==
  {frame \in [Var -> Terms \cup {Unbound}] :
    /\ {v \in Var : frame[v] # Unbound} =
         UNION {VarsOf(el[i]) : i \in {j \in I : ~DeniesClosedWorld(el[j])}}
    /\ \A i \in I : Satisfies(el[i], frame)}

(* A consultation answers as the set of facts would, though it compares    *)
(* terms only where the keys do not tell them apart: the frames of a       *)
(* conjunction are those that make each of its expressions a fact, or      *)
(* absent when it denies a closed-world one, and a disjunction has those   *)
(* of each of its parts.                                                   *)
ConsultAnswers ==
  \A el \in Queries :
    /\ consult_and(db, el) = Answers(el, DOMAIN el)
    /\ consult_or(db, el) =
         UNION {{<<I, frame>> : frame \in Answers(el, I)} : I \in (SUBSET DOMAIN el) \ {{}}}

(* The facts that a fact replaces, in the code: a basic event does not     *)
(* replace its negation (NegationRetracted).                               *)

Replaces ==
  [e \in Fact |->
    {f \in Fact :
      \/ f = not_expr_dup(e) /\ Head1(e) \notin Be
      \/ /\ Head1(f) = Head1(e) /\ Kept(e) /\ Functional(e) /\ f # e
         /\ Arity(f) = Arity(e)
         /\ \A i \in 1..Arity(e) : i <= Ff[Head1(e)] => f[i + 1] = e[i + 1]}]

FB == INSTANCE FactBase WITH
        facts <- Stored,
        Storable <- {f \in Fact : Kept(f)},
        BasicEvent <- {f \in Fact : Head1(f) \in Be},
        Replaced <- LAMBDA e : Replaces[e],
        Instances <- LAMBDA q : InstancesOf[q]

(* The table with its buckets, its copies of facts and the references kept *)
(* of basic events is a set of facts, to which concluding, retracting and  *)
(* the end of a turn do what FactBase says, the exceptions that it names   *)
(* included.                                                               *)
ImplementsFactBase == FB!Spec

(* "When an expression is concluded, its negation, if found, is            *)
(* automatically retracted from the database"                              *)
(* (doc/oprs-kernel.tex:2960-2961).  conclude does not do so for a basic   *)
(* event: the database then holds it beside its negation.                  *)
NegationRetracted ==
  [][\A e \in Fact : conclude(e) => not_expr_dup(e) \notin Stored']_db

(* What the instances of the module must satisfy for some of this. *)

\* No key is one of as many facts as nombre can count.
CountsFit ==
  \A k \in Key :
    LET F == {f \in Fact : k \in make_key_list(f)}
    IN  IsFiniteSet(F) /\ Cardinality(F) < CountMod

\* The facts that a pattern finds in a table of all facts.
Finds(q) ==
  {f \in Fact : /\ make_key_list(q) \subseteq make_key_list(f)
                /\ unify_expr_from_db(q, f, NoBinding, DuplicateVar(q)) # NoFrame}

\* Keys and unification find the instances of a pattern, and nothing else.
UnificationExact == \A q \in Pattern : Finds(q) = InstancesOf[q]

=============================================================================
