--------------------------- MODULE ContractProofs ----------------------------
(***************************************************************************)
(* Proofs about the language of contracts and the bounded verifier, for    *)
(* every language, contract and limit.  The operators of Contracts are     *)
(* defined by recursion on terms; that the functions they name exist, and  *)
(* what they compute, is proved from the depth of terms, which is a        *)
(* number.                                                                 *)
(***************************************************************************)
EXTENDS ToolGate, FiniteSetTheorems, WellFoundedInduction, TLAPS

-----------------------------------------------------------------------------
(***************************************************************************)
(* Recursion and induction on a rank.                                      *)
(***************************************************************************)

(* A set of numbers has a least one.                                       *)
LEMMA Least ==
  ASSUME NEW S \in SUBSET Nat, S # {}
  PROVE  \E m \in S : \A n \in S : m <= n
<1>1. IsWellFoundedOn({p \in Nat \X Nat : p[1] < p[2]}, Nat)
  BY NatLessThanWellFounded DEF OpToRel
<1>2. PICK m \in S : \A n \in S : ~(<<n, m>> \in {p \in Nat \X Nat : p[1] < p[2]})
  <2> HIDE DEF IsWellFoundedOn
  <2> QED
    BY <1>1, WFMin
<1>3. ASSUME NEW n \in S
      PROVE  m <= n
  <2>1. <<n, m>> \in Nat \X Nat /\ ~(<<n, m>> \in {p \in Nat \X Nat : p[1] < p[2]})
    BY <1>2
  <2>2. ~(n < m) /\ n \in Nat /\ m \in Nat
    BY <2>1
  <2> QED
    BY <2>2
<1> QED
  BY <1>3

(* G gives the value at x of a function f on S, by the values of f at      *)
(* lower ranks alone.                                                      *)
Equation(S, V, F, rank, G) ==
  /\ F = [S -> V] /\ rank \in [S -> Nat] /\ G \in [S \X F -> V]
  /\ \A x \in S : \A f, g \in F :
       (\A y \in S : rank[y] < rank[x] => f[y] = g[y]) => G[<<x, f>>] = G[<<x, g>>]

(* A recursive function exists.                                            *)
LEMMA Recursion ==
  ASSUME NEW S, NEW V, NEW F, NEW rank, NEW G, NEW v0 \in V,
         Equation(S, V, F, rank, G)
  PROVE  \E f \in F : \A x \in S : f[x] = G[<<x, f>>]
<1> USE DEF Equation
<1> DEFINE Upto(n, f) == \A x \in S : rank[x] < n => f[x] = G[<<x, f>>]
<1>1. ASSUME NEW n \in Nat, NEW f \in F, NEW g \in F, Upto(n, f), Upto(n, g),
             NEW z \in S, rank[z] < n
      PROVE  f[z] = g[z]
  <2> DEFINE bad == {m \in Nat : \E x \in S : rank[x] = m /\ m < n /\ f[x] # g[x]}
  <2>1. CASE bad # {}
    <3>1. PICK m \in bad : \A l \in bad : m <= l
      BY <2>1, Least
    <3>2. PICK x \in S : rank[x] = m /\ m < n /\ f[x] # g[x]
      BY <3>1
    <3>3. \A y \in S : rank[y] < rank[x] => f[y] = g[y]
      BY <3>1, <3>2
    <3>4. G[<<x, f>>] = G[<<x, g>>]
      BY <3>3
    <3> QED
      BY <1>1, <3>2, <3>4
  <2> QED
    BY <1>1, <2>1
<1>2. ASSUME NEW n \in Nat
      PROVE  \E f \in F : Upto(n, f)
  <2> DEFINE bad == {m \in Nat : ~ \E f \in F : Upto(m, f)}
  <2>1. CASE bad # {}
    <3>1. PICK m \in bad : \A l \in bad : m <= l
      BY <2>1, Least
    <3>2. m # 0
      <4>1. [x \in S |-> v0] \in F /\ Upto(0, [x \in S |-> v0])
        OBVIOUS
      <4> QED
        BY <3>1, <4>1
    <3>3. m - 1 \in Nat /\ m - 1 < m
      BY <3>1, <3>2
    <3>4. PICK f \in F : Upto(m - 1, f)
      <4> HIDE DEF Upto
      <4>1. m - 1 \notin bad
        <5>1. \A l \in bad : m <= l
          BY <3>1
        <5>2. m \in Nat
          BY <3>1
        <5> HIDE DEF bad
        <5> QED
          BY <3>3, <5>1, <5>2
      <4> QED
        BY <3>3, <4>1
    <3> DEFINE g == [x \in S |-> G[<<x, f>>]]
    <3>5. g \in F
      OBVIOUS
    <3>6. ASSUME NEW x \in S, rank[x] < m
          PROVE  g[x] = G[<<x, g>>]
      <4>1. ASSUME NEW y \in S, rank[y] < rank[x]
            PROVE  f[y] = g[y]
        <5>1. rank[y] < m - 1
          BY <3>3, <3>6, <4>1
        <5> QED
          BY <3>4, <5>1
      <4>2. G[<<x, f>>] = G[<<x, g>>]
        <5> HIDE DEF g
        <5> QED
          BY <3>4, <3>5, <4>1
      <4> QED
        BY <4>2
    <3>7. Upto(m, g)
      BY <3>6
    <3> QED
      BY <3>1, <3>5, <3>7
  <2> QED
    BY <2>1
<1> DEFINE sol(n) == CHOOSE f \in F : Upto(n, f)
           total == [x \in S |-> sol(rank[x] + 1)[x]]
<1>3. ASSUME NEW n \in Nat
      PROVE  sol(n) \in F /\ Upto(n, sol(n))
  <2> HIDE DEF Upto
  <2> QED
    BY <1>2
<1>4. ASSUME NEW x \in S
      PROVE  rank[x] \in Nat /\ rank[x] + 1 \in Nat
  OBVIOUS
<1>5. total \in F
  <2>1. \A x \in S : sol(rank[x] + 1) \in F
    <3> HIDE DEF sol
    <3> QED
      BY <1>3, <1>4
  <2> HIDE DEF sol
  <2> QED
    BY <2>1
<1>6. ASSUME NEW x \in S
      PROVE  total[x] = G[<<x, total>>]
  <2> DEFINE f == sol(rank[x] + 1)
  <2>1. f \in F /\ Upto(rank[x] + 1, f)
    <3> HIDE DEF sol, Upto
    <3> QED
      BY <1>3, <1>4
  <2>2. ASSUME NEW y \in S, rank[y] < rank[x]
        PROVE  f[y] = total[y]
    <3>1. sol(rank[y] + 1) \in F /\ Upto(rank[y] + 1, sol(rank[y] + 1))
      <4> HIDE DEF sol, Upto
      <4> QED
        BY <1>3, <1>4
    <3>2. Upto(rank[y] + 1, f)
      <4> HIDE DEF f
      <4> QED
        BY <1>4, <2>1, <2>2
    <3>3. sol(rank[y] + 1)[y] = f[y]
      <4>1. rank[y] < rank[y] + 1
        BY <1>4
      <4> HIDE DEF sol, Upto, f
      <4> QED
        BY <1>1, <1>4, <2>1, <3>1, <3>2, <4>1
    <3>4. total[y] = sol(rank[y] + 1)[y]
      <4> HIDE DEF sol
      <4> QED
        OBVIOUS
    <3> QED
      BY <3>3, <3>4
  <2>3. G[<<x, f>>] = G[<<x, total>>]
    <3> HIDE DEF f, total
    <3> QED
      BY <1>5, <2>1, <2>2
  <2>4. f[x] = G[<<x, f>>]
    <3> HIDE DEF f
    <3> QED
      BY <1>4, <2>1
  <2>5. total[x] = f[x]
    <3> HIDE DEF sol
    <3> QED
      OBVIOUS
  <2> QED
    BY <2>3, <2>4, <2>5
<1> QED
  BY <1>5, <1>6

(* What passes from the lower to the higher ranks holds of all.            *)
LEMMA Induction ==
  ASSUME NEW S, NEW rank \in [S -> Nat], NEW P \in SUBSET S,
         \A x \in S : (\A y \in S : rank[y] < rank[x] => y \in P) => x \in P
  PROVE  P = S
<1> DEFINE bad == {m \in Nat : \E x \in S \ P : rank[x] = m}
<1>1. CASE bad # {}
  <2>1. PICK m \in bad : \A l \in bad : m <= l
    BY <1>1, Least
  <2>2. PICK x \in S \ P : rank[x] = m
    BY <2>1
  <2>3. \A y \in S : rank[y] < rank[x] => y \in P
    BY <2>1, <2>2
  <2> QED
    BY <2>2, <2>3
<1>2. CASE bad = {}
  BY <1>2
<1> QED
  BY <1>1, <1>2

-----------------------------------------------------------------------------
(***************************************************************************)
(* Expressions and conditions.                                             *)
(***************************************************************************)

(* What the language promises of expressions and of conditions, kind by    *)
(* kind.                                                                   *)
LEMMA TermFacts ==
  /\ \A x \in Expression \cup Condition : Depth(x) \in Nat
  /\ \A x \in Expression : x.k \in {"literal", "ref", "binary"}
  /\ \A x \in Expression : x.k = "literal" =>
       x.value \in ScalarValue /\ x.value.t \in Types
  /\ \A x \in Expression : x.k = "ref" => x.source \in RefSource
  /\ \A x \in Expression : x.k = "binary" =>
       /\ x.left \in Expression /\ x.right \in Expression
       /\ x.op \in ArithmeticOperator
       /\ Depth(x.left) < Depth(x) /\ Depth(x.right) < Depth(x)
  /\ \A x \in Condition : x.k \in {"constant", "comparison", "all", "any", "not"}
  /\ \A x \in Condition : x.k = "constant" => x.value \in BOOLEAN
  /\ \A x \in Condition : x.k = "comparison" =>
       /\ x.left \in Expression /\ x.right \in Expression
       /\ x.op \in ComparisonOperator
  /\ \A x \in Condition : x.k \in {"all", "any"} =>
       /\ DOMAIN x.conditions \subseteq Nat
       /\ \A i \in DOMAIN x.conditions :
            x.conditions[i] \in Condition /\ Depth(x.conditions[i]) < Depth(x)
  /\ \A x \in Condition : x.k = "not" =>
       x.condition \in Condition /\ Depth(x.condition) < Depth(x)
  /\ \A x \in Condition : x.k \in {"all", "any", "not"} =>
       \A y \in Parts(x) : y \in Condition /\ Depth(y) < Depth(x)
<1>1. ASSUME NEW x \in Expression
      PROVE  /\ Depth(x) \in Nat
             /\ x.k \in {"literal", "ref", "binary"}
             /\ x.k = "literal" => x.value \in ScalarValue /\ x.value.t \in Types
             /\ x.k = "ref" => x.source \in RefSource
             /\ x.k = "binary" =>
                  /\ x.left \in Expression /\ x.right \in Expression
                  /\ x.op \in ArithmeticOperator
                  /\ Depth(x.left) < Depth(x) /\ Depth(x.right) < Depth(x)
  <2>1. x \in Term /\ x.k \in {"literal", "ref", "binary"}
    BY DEF Expression
  <2>2. x.k = "binary" => Parts(x) = {x.left, x.right}
    BY DEF Parts
  <2> QED
    BY <2>1, <2>2, LanguageAssumption
<1>2. ASSUME NEW x \in Condition
      PROVE  /\ Depth(x) \in Nat
             /\ x.k \in {"constant", "comparison", "all", "any", "not"}
             /\ x.k = "constant" => x.value \in BOOLEAN
             /\ x.k = "comparison" =>
                  /\ x.left \in Expression /\ x.right \in Expression
                  /\ x.op \in ComparisonOperator
             /\ x.k \in {"all", "any", "not"} =>
                  \A y \in Parts(x) : y \in Condition /\ Depth(y) < Depth(x)
  <2>1. x \in Term /\ x.k \in {"constant", "comparison", "all", "any", "not"}
    BY DEF Condition
  <2>2. x.k = "comparison" => Parts(x) = {x.left, x.right}
    BY DEF Parts
  <2> QED
    BY <2>1, <2>2, LanguageAssumption
<1>3. ASSUME NEW x \in Condition, x.k \in {"all", "any"}, NEW i \in DOMAIN x.conditions
      PROVE  x.conditions[i] \in Parts(x)
  BY <1>3 DEF Parts, ToSet
<1>5. ASSUME NEW x \in Condition, x.k \in {"all", "any"}
      PROVE  DOMAIN x.conditions \subseteq Nat
  <2> DEFINE S == ToSet(x.conditions)
             cs == x.conditions
  <2>1. x \in Term
    BY DEF Condition
  <2>2. cs \in Seq(S)
    BY <1>5, <2>1, LanguageAssumption
  <2> HIDE DEF cs, S
  <2>3. DOMAIN cs \subseteq Nat
    BY <2>2
  <2> QED
    BY <2>3 DEF cs
<1>4. ASSUME NEW x \in Condition, x.k = "not"
      PROVE  x.condition \in Parts(x)
  BY <1>4 DEF Parts
<1> QED
  BY <1>1, <1>2, <1>3, <1>4, <1>5

(* What a result is made of.                                               *)
LEMMA ResultFacts ==
  /\ ScalarValue \subseteq Result
  /\ Failure \in Result /\ Overflow \in Result /\ NotANumber \in Result
  /\ Failure.t = "failure" /\ Overflow.t = "overflow" /\ NotANumber.t = "nan"
  /\ \A n \in Int : /\ Scalar("integer", n) \in ScalarValue
                    /\ Scalar("boolean", n) \in ScalarValue
                    /\ Scalar("infinite", n) \in Result
  /\ \A f \in Float : Scalar("real", f) \in ScalarValue
  /\ \A type, n : Scalar(type, n).t = type /\ Scalar(type, n).v = n
  /\ \A s \in Result : s.v \in Int /\ s = Scalar(s.t, s.v)
<1>1. Float \subseteq Int
  BY FloatAssumption
<1>2. \A s \in ScalarValue : s.v \in Int /\ s = [t |-> s.t, v |-> s.v]
  <2>1. ASSUME NEW s \in [t : {"integer", "boolean", "string", "nested"}, v : Int]
        PROVE  s.v \in Int /\ s = [t |-> s.t, v |-> s.v]
    OBVIOUS
  <2>2. ASSUME NEW s \in [t : {"real"}, v : Float]
        PROVE  s.v \in Float /\ s = [t |-> s.t, v |-> s.v]
    OBVIOUS
  <2> QED
    BY <1>1, <2>1, <2>2 DEF ScalarValue
<1>3. \A s \in Result : s.v \in Int /\ s = [t |-> s.t, v |-> s.v]
  BY <1>2 DEF Result
<1>4. \A n \in Int : /\ [t |-> "integer", v |-> n] \in ScalarValue
                    /\ [t |-> "boolean", v |-> n] \in ScalarValue
                    /\ [t |-> "infinite", v |-> n] \in Result
                    /\ [t |-> "nan", v |-> n] \in Result
                    /\ [t |-> "failure", v |-> n] \in Result
                    /\ [t |-> "overflow", v |-> n] \in Result
  BY DEF ScalarValue, Result, Raised
<1>5. \A f \in Float : [t |-> "real", v |-> f] \in ScalarValue
  BY DEF ScalarValue
<1>6. ScalarValue \subseteq Result
  BY DEF Result
<1>7. \A type, n : Scalar(type, n) = [t |-> type, v |-> n]
  BY DEF Scalar
<1>8. \A type, n : Scalar(type, n).t = type /\ Scalar(type, n).v = n
  BY <1>7
<1>9. /\ \A n \in Int : /\ Scalar("integer", n) \in ScalarValue
                       /\ Scalar("boolean", n) \in ScalarValue
                       /\ Scalar("infinite", n) \in Result
      /\ \A f \in Float : Scalar("real", f) \in ScalarValue
      /\ \A s \in Result : s.v \in Int /\ s = Scalar(s.t, s.v)
  BY <1>3, <1>4, <1>5, <1>7
<1>10. Failure \in Result /\ Overflow \in Result /\ NotANumber \in Result
  <2>1. /\ [t |-> "failure", v |-> 0] \in Result /\ [t |-> "overflow", v |-> 0] \in Result
        /\ [t |-> "nan", v |-> 0] \in Result
    BY DEF Result, Raised
  <2> QED
    BY <1>7, <2>1 DEF Failure, Overflow, NotANumber
<1>11. Failure.t = "failure" /\ Overflow.t = "overflow" /\ NotANumber.t = "nan"
  BY <1>8 DEF Failure, Overflow, NotANumber
<1> QED
  BY <1>6, <1>8, <1>9, <1>10, <1>11

(* Variables that are all results of computations.                         *)
EnvOK(env) == \A s \in RefSource : \A x \in DOMAIN env[s] : env[s][x] \in Result

(* Every number has a float nearest to it.                                 *)
LEMMA NearestIs ==
  ASSUME NEW n \in Int
  PROVE  Nearest(n) \in Float
<1> DEFINE S == {Magnitude(f - n) : f \in Float}
<1>1. \A f \in Float : Magnitude(f - n) \in Nat
  BY FloatAssumption DEF Magnitude
<1>2. S \in SUBSET Nat /\ S # {}
  BY <1>1, FloatAssumption
<1>3. PICK m \in S : \A k \in S : m <= k
  <2> HIDE DEF S
  <2> QED
    BY <1>2, Least
<1>4. PICK f \in Float : m = Magnitude(f - n)
  BY <1>3
<1>5. \A g \in Float : Magnitude(f - n) <= Magnitude(g - n)
  BY <1>3, <1>4
<1> QED
  BY <1>5 DEF Nearest

(* A number rounds to a float, finite or not.                              *)
LEMMA RoundedIs ==
  ASSUME NEW n \in Int
  PROVE  Rounded(n) \in Result /\ Rounded(n).t \in {"real", "infinite"}
<1>1. SignOf(n) \in Int
  BY DEF SignOf
<1> QED
  BY <1>1, NearestIs, ResultFacts DEF Rounded

(* The numbers of both types.                                              *)
Numeric == FloatTypes \cup {"integer"}

(* Only the conversion of an integer overflows.                            *)
LEMMA AsFloatIs ==
  ASSUME NEW s \in Result, s.t \in Numeric
  PROVE  /\ AsFloat(s) \in Result
         /\ AsFloat(s) = Overflow \/ AsFloat(s).t \in FloatTypes
<1>1. CASE s.t = "integer"
  BY <1>1, RoundedIs, ResultFacts DEF AsFloat, FloatTypes
<1>2. CASE s.t # "integer"
  BY <1>2 DEF AsFloat, Numeric
<1> QED
  BY <1>1, <1>2

(* Arithmetic on floats gives floats, or hands an overflow on.             *)
LEMMA FloatArithmeticIs ==
  ASSUME NEW l \in Result, NEW r \in Result, NEW op \in ArithmeticOperator
  PROVE  /\ FloatArithmetic(op, l, r) \in Result
         /\ \/ FloatArithmetic(op, l, r) = Overflow
            \/ FloatArithmetic(op, l, r).t \in FloatTypes
<1>1. l.v \in Int /\ r.v \in Int /\ Pole(l) \in Int /\ Pole(r) \in Int
  BY ResultFacts DEF Pole
<1>2. \A m, n \in Int : Arithmetic(op, m, n) \in Int
  BY DEF Arithmetic, ArithmeticOperator
<1>3. \A n \in Int : SignOf(n) \in {-1, 0, 1}
  BY DEF SignOf
<1>4. LimitSign(op, l, r) \in Int
  <2>1. SignOf(l.v) * SignOf(r.v) \in Int
    <3>1. SignOf(l.v) \in {-1, 0, 1} /\ SignOf(r.v) \in {-1, 0, 1}
      BY <1>1, <1>3
    <3> QED
      BY <3>1
  <2>2. SignOf(Arithmetic(op, Pole(l), Pole(r))) \in Int
    <3> DEFINE n == Arithmetic(op, Pole(l), Pole(r))
    <3>1. n \in Int
      BY <1>1, <1>2
    <3> HIDE DEF n
    <3>2. SignOf(n) \in Int
      BY <1>3, <3>1
    <3> QED
      BY <3>2 DEF n
  <2> QED
    BY <2>1, <2>2 DEF LimitSign
<1>5. /\ Rounded(Arithmetic(op, l.v, r.v)) \in Result
      /\ Rounded(Arithmetic(op, l.v, r.v)).t \in FloatTypes
  BY <1>1, <1>2, RoundedIs DEF FloatTypes
<1> QED
  BY <1>4, <1>5, ResultFacts DEF FloatArithmetic, FloatTypes

(* Arithmetic, of any two results.                                         *)
LEMMA CombineOK ==
  ASSUME NEW l \in Result, NEW r \in Result, NEW op \in ArithmeticOperator
  PROVE  /\ Combine(op, l, r) \in Result
         /\ l.t \in Numeric /\ r.t \in Numeric =>
              IF l.t = "integer" /\ r.t = "integer" THEN Combine(op, l, r).t = "integer"
              ELSE Combine(op, l, r) = Overflow \/ Combine(op, l, r).t \in FloatTypes
<1>1. CASE ~(l.t \in Numeric /\ r.t \in Numeric)
  <2>1. ~({l.t, r.t} \subseteq FloatTypes \cup {"integer"})
    BY <1>1 DEF Numeric
  <2> QED
    BY <1>1, <2>1, ResultFacts DEF Combine
<1>2. CASE l.t = "integer" /\ r.t = "integer"
  <2>1. Arithmetic(op, l.v, r.v) \in Int
    BY ResultFacts DEF Arithmetic, ArithmeticOperator
  <2>2. Combine(op, l, r) = Scalar("integer", Arithmetic(op, l.v, r.v))
    BY <1>2 DEF Combine, Raised
  <2> QED
    BY <1>2, <2>1, <2>2, ResultFacts
<1>3. CASE l.t \in Numeric /\ r.t \in Numeric /\ ~(l.t = "integer" /\ r.t = "integer")
  <2> DEFINE f == AsFloat(l)
             g == AsFloat(r)
  <2>1. f \in Result /\ g \in Result
    BY <1>3, AsFloatIs
  <2>2. Combine(op, l, r) = FloatArithmetic(op, f, g)
    <3>1. l.t \notin Raised /\ r.t \notin Raised
      BY <1>3 DEF Numeric, FloatTypes, Raised
    <3>2. {l.t, r.t} \subseteq FloatTypes \cup {"integer"} /\ {l.t, r.t} # {"integer"}
      BY <1>3 DEF Numeric
    <3> QED
      BY <3>1, <3>2 DEF Combine
  <2> HIDE DEF f, g
  <2>3. /\ FloatArithmetic(op, f, g) \in Result
        /\ FloatArithmetic(op, f, g) = Overflow \/ FloatArithmetic(op, f, g).t \in FloatTypes
    BY <2>1, FloatArithmeticIs
  <2> QED
    BY <1>3, <2>2, <2>3, ResultFacts
<1> QED
  BY <1>1, <1>2, <1>3

(* _expression, which is defined by recursion, computes what it says, and  *)
(* gives a result.                                                         *)
LEMMA ValueIs ==
  ASSUME NEW env, EnvOK(env)
  PROVE  \A e \in Expression :
           /\ Value(e, env) = CASE e.k = "literal" -> e.value
                [] e.k = "ref" -> Lookup(env[e.source], e.name)
                [] e.k = "binary" -> Combine(e.op, Value(e.left, env), Value(e.right, env))
           /\ Value(e, env) \in Result
<1> DEFINE value[x \in Expression] ==
             CASE x.k = "literal" -> x.value
               [] x.k = "ref" -> Lookup(env[x.source], x.name)
               [] x.k = "binary" -> Combine(x.op, value[x.left], value[x.right])
           body(x, f) ==
             CASE x.k = "literal" -> x.value
               [] x.k = "ref" -> Lookup(env[x.source], x.name)
               [] x.k = "binary" -> Combine(x.op, f[x.left], f[x.right])
           F == [Expression -> Result]
           G == [p \in Expression \X F |-> body(p[1], p[2])]
           rank == [x \in Expression |-> Depth(x)]
<1>1. ASSUME NEW x \in Expression, NEW f,
             \A y \in Expression : rank[y] < rank[x] => f[y] \in Result
      PROVE  body(x, f) \in Result
  <2>1. CASE x.k = "literal"
    BY <2>1, TermFacts, ResultFacts
  <2>2. CASE x.k = "ref"
    BY <2>2, TermFacts, ResultFacts DEF EnvOK, Lookup
  <2>3. CASE x.k = "binary"
    <3>1. f[x.left] \in Result /\ f[x.right] \in Result
      BY <1>1, <2>3, TermFacts
    <3> QED
      BY <2>3, <3>1, TermFacts, CombineOK
  <2> QED
    BY <2>1, <2>2, <2>3, TermFacts
<1>2. ASSUME NEW x \in Expression, NEW f \in F, NEW g \in F,
             \A y \in Expression : rank[y] < rank[x] => f[y] = g[y]
      PROVE  body(x, f) = body(x, g)
  BY <1>2, TermFacts
<1>3. G \in [Expression \X F -> Result] /\ rank \in [Expression -> Nat]
  BY <1>1, TermFacts
<1>4. \E f \in F : \A x \in Expression : f[x] = G[<<x, f>>]
  <2>1. Failure \in Result
    BY ResultFacts
  <2>2. ASSUME NEW x \in Expression, NEW f \in F, NEW g \in F,
               \A y \in Expression : rank[y] < rank[x] => f[y] = g[y]
        PROVE  G[<<x, f>>] = G[<<x, g>>]
    <3>1. G[<<x, f>>] = body(x, f) /\ G[<<x, g>>] = body(x, g)
      <4> HIDE DEF body
      <4> QED
        OBVIOUS
    <3> QED
      BY <1>2, <2>2, <3>1
  <2>3. \A x \in Expression : \A f, g \in F :
          (\A y \in Expression : rank[y] < rank[x] => f[y] = g[y])
          => G[<<x, f>>] = G[<<x, g>>]
    BY <2>2
  <2>4. F = [Expression -> Result]
    OBVIOUS
  <2>5. Equation(Expression, Result, F, rank, G)
    <3> HIDE DEF G, rank
    <3> QED
      BY <1>3, <2>3, <2>4 DEF Equation
  <2> HIDE DEF G, rank, F
  <2> QED
    BY <2>1, <2>5, Recursion
<1>5. \E f : f = [x \in Expression |-> body(x, f)]
  <2>1. PICK f \in F : \A x \in Expression : f[x] = G[<<x, f>>]
    BY <1>4
  <2>2. f = [x \in Expression |-> body(x, f)]
    <3> HIDE DEF body
    <3> QED
      BY <2>1
  <2> QED
    BY <2>2
<1>6. value = [x \in Expression |-> body(x, value)]
  BY <1>5
<1>7. ASSUME NEW e \in Expression
      PROVE  Value(e, env) = value[e]
  BY DEF Value
<1> HIDE DEF value
<1>8. {x \in Expression : value[x] \in Result} = Expression
  <2> DEFINE P == {x \in Expression : value[x] \in Result}
  <2>1. ASSUME NEW x \in Expression, \A y \in Expression : rank[y] < rank[x] => y \in P
        PROVE  x \in P
    <3>1. body(x, value) \in Result
      <4> HIDE DEF body
      <4> QED
        BY <1>1, <2>1
    <3> HIDE DEF body
    <3> QED
      BY <1>6, <3>1
  <2> HIDE DEF P, rank
  <2>2. P \in SUBSET Expression
    BY DEF P
  <2>3. P = Expression
    BY <1>3, <2>1, <2>2, Induction
  <2> QED
    BY <2>3 DEF P
<1>9. ASSUME NEW e \in Expression
      PROVE  Value(e, env) = body(e, value) /\ Value(e, env) \in Result
  <2> HIDE DEF body
  <2> QED
    BY <1>6, <1>7, <1>8
<1>10. ASSUME NEW e \in Expression, e.k = "binary"
       PROVE  Value(e, env) = Combine(e.op, Value(e.left, env), Value(e.right, env))
  <2>1. Value(e, env) = Combine(e.op, value[e.left], value[e.right])
    BY <1>9, <1>10
  <2>2. e.left \in Expression /\ e.right \in Expression
    BY <1>10, TermFacts
  <2> QED
    BY <1>7, <2>1, <2>2
<1>11. ASSUME NEW e \in Expression
       PROVE  e.k \in {"literal", "ref", "binary"}
  BY TermFacts
<1> QED
  BY <1>9, <1>10, <1>11

(* _validate_refs: every reference of an expression is to a declared       *)
(* variable.                                                               *)
LEMMA RefsKnownIs ==
  ASSUME NEW c
  PROVE  \A x \in Expression :
           /\ x.k = "literal" => RefsKnown(x, c)
           /\ x.k = "ref" => (RefsKnown(x, c) <=> x.name \in NamesOf(SpecsFor(c, x.source)))
           /\ x.k = "binary" => (RefsKnown(x, c) <=> RefsKnown(x.left, c) /\ RefsKnown(x.right, c))
<1> DEFINE fun[x \in Expression] ==
             CASE x.k = "literal" -> TRUE
               [] x.k = "ref" -> x.name \in NamesOf(SpecsFor(c, x.source))
               [] x.k = "binary" -> fun[x.left] /\ fun[x.right]
           body(x, f) ==
             CASE x.k = "literal" -> TRUE
               [] x.k = "ref" -> x.name \in NamesOf(SpecsFor(c, x.source))
               [] x.k = "binary" -> f[x.left] /\ f[x.right]
           V == BOOLEAN
           F == [Expression -> V]
           G == [p \in Expression \X F |-> body(p[1], p[2])]
           v0 == TRUE
           rank == [x \in Expression |-> Depth(x)]
<1>1. ASSUME NEW x \in Expression, NEW f \in F
      PROVE  body(x, f) \in V
  <2>1. CASE x.k = "literal"
    BY <2>1
  <2>2. CASE x.k = "ref"
    BY <2>2
  <2>3. CASE x.k = "binary"
    BY <2>3
  <2> QED
    BY <2>1, <2>2, <2>3, TermFacts
<1>2. ASSUME NEW x \in Expression, NEW f \in F, NEW g \in F,
             \A y \in Expression : rank[y] < rank[x] => f[y] = g[y]
      PROVE  body(x, f) = body(x, g)
  BY <1>2, TermFacts
<1>3. Equation(Expression, V, F, rank, G)
  <2>1. rank \in [Expression -> Nat]
    BY TermFacts
  <2>2. G \in [Expression \X F -> V]
    <3> HIDE DEF body, V
    <3> QED
      BY <1>1
  <2>3. \A x \in Expression : \A f, g \in F :
          (\A y \in Expression : rank[y] < rank[x] => f[y] = g[y])
          => G[<<x, f>>] = G[<<x, g>>]
    <3>1. \A x \in Expression : \A f \in F : G[<<x, f>>] = body(x, f)
      <4> HIDE DEF body, F
      <4> QED
        OBVIOUS
    <3> HIDE DEF body, F, G, rank
    <3> QED
      BY <1>2, <3>1
  <2> HIDE DEF G, rank, V
  <2> QED
    BY <2>1, <2>2, <2>3 DEF Equation
<1>4. \E f : f = [x \in Expression |-> body(x, f)]
  <2>1. v0 \in V
    OBVIOUS
  <2>2. PICK f \in F : \A x \in Expression : f[x] = G[<<x, f>>]
    <3> HIDE DEF G, rank, F, V, v0
    <3> QED
      BY <1>3, <2>1, Recursion
  <2>3. f = [x \in Expression |-> body(x, f)]
    <3> HIDE DEF body, V
    <3> QED
      BY <2>2
  <2> QED
    BY <2>3
<1>5. fun = [x \in Expression |-> body(x, fun)]
  BY <1>4
<1>6. ASSUME NEW x \in Expression
      PROVE  RefsKnown(x, c) = fun[x]
  BY DEF RefsKnown
<1> HIDE DEF fun
<1> QED
  BY <1>5, <1>6, TermFacts

(* _infer_expression_type, by the kinds of expression.                     *)
LEMMA TypeIs ==
  ASSUME NEW c
  PROVE  \A x \in Expression :
           /\ x.k = "literal" => TypeOf(x, c) = x.value.t
           /\ x.k = "ref" => TypeOf(x, c) = SpecOf(SpecsFor(c, x.source), x.name).type
           /\ x.k = "binary" => TypeOf(x, c) = CombinedType({TypeOf(x.left, c), TypeOf(x.right, c)})
<1> DEFINE fun[x \in Expression] ==
             CASE x.k = "literal" -> x.value.t
               [] x.k = "ref" -> SpecOf(SpecsFor(c, x.source), x.name).type
               [] x.k = "binary" -> CombinedType({fun[x.left], fun[x.right]})
           body(x, f) ==
             CASE x.k = "literal" -> x.value.t
               [] x.k = "ref" -> SpecOf(SpecsFor(c, x.source), x.name).type
               [] x.k = "binary" -> CombinedType({f[x.left], f[x.right]})
           V == Types \cup {"failure"}
                \cup {SpecOf(SpecsFor(c, x.source), x.name).type : x \in Expression}
           F == [Expression -> V]
           G == [p \in Expression \X F |-> body(p[1], p[2])]
           rank == [x \in Expression |-> Depth(x)]
<1>1. ASSUME NEW x \in Expression, NEW f \in F
      PROVE  body(x, f) \in V
  <2>1. \A ts : CombinedType(ts) \in V
    BY DEF CombinedType, Types
  <2>2. CASE x.k = "literal"
    BY <2>2, TermFacts
  <2>3. CASE x.k = "ref"
    BY <2>3
  <2>4. CASE x.k = "binary"
    <3> HIDE DEF V
    <3> QED
      BY <2>1, <2>4
  <2> QED
    BY <2>2, <2>3, <2>4, TermFacts
<1>2. ASSUME NEW x \in Expression, NEW f \in F, NEW g \in F,
             \A y \in Expression : rank[y] < rank[x] => f[y] = g[y]
      PROVE  body(x, f) = body(x, g)
  BY <1>2, TermFacts
<1>3. Equation(Expression, V, F, rank, G)
  <2>1. rank \in [Expression -> Nat]
    BY TermFacts
  <2>2. G \in [Expression \X F -> V]
    <3> HIDE DEF body, V
    <3> QED
      BY <1>1
  <2>3. \A x \in Expression : \A f, g \in F :
          (\A y \in Expression : rank[y] < rank[x] => f[y] = g[y])
          => G[<<x, f>>] = G[<<x, g>>]
    <3>1. \A x \in Expression : \A f \in F : G[<<x, f>>] = body(x, f)
      <4> HIDE DEF body, F
      <4> QED
        OBVIOUS
    <3> HIDE DEF body, F, G, rank
    <3> QED
      BY <1>2, <3>1
  <2> HIDE DEF G, rank, V
  <2> QED
    BY <2>1, <2>2, <2>3 DEF Equation
<1>4. \E f : f = [x \in Expression |-> body(x, f)]
  <2>1. "failure" \in V
    OBVIOUS
  <2>2. PICK f \in F : \A x \in Expression : f[x] = G[<<x, f>>]
    <3> HIDE DEF G, rank, F, V
    <3> QED
      BY <1>3, <2>1, Recursion
  <2>3. f = [x \in Expression |-> body(x, f)]
    <3> HIDE DEF body, V
    <3> QED
      BY <2>2
  <2> QED
    BY <2>3
<1>5. fun = [x \in Expression |-> body(x, fun)]
  BY <1>4
<1>6. ASSUME NEW x \in Expression
      PROVE  TypeOf(x, c) = fun[x]
  BY DEF TypeOf
<1> HIDE DEF fun
<1>7. ASSUME NEW x \in Expression
      PROVE  TypeOf(x, c) = body(x, fun)
  <2> HIDE DEF body
  <2> QED
    BY <1>5, <1>6
<1>8. ASSUME NEW x \in Expression, x.k = "binary"
      PROVE  TypeOf(x, c) = CombinedType({TypeOf(x.left, c), TypeOf(x.right, c)})
  <2>1. TypeOf(x, c) = CombinedType({fun[x.left], fun[x.right]})
    BY <1>7, <1>8
  <2> QED
    BY <1>6, <1>8, <2>1, TermFacts
<1> QED
  BY <1>7, <1>8

(* The comparisons of a condition are those of its parts.                  *)
LEMMA ComparisonsIs ==
  \A x \in Condition :
           /\ x.k = "constant" => Comparisons(x) = {}
           /\ x.k = "comparison" => Comparisons(x) = {x}
           /\ x.k \in {"all", "any", "not"} =>
                Comparisons(x) = UNION {Comparisons(y) : y \in Parts(x)}
<1> DEFINE fun[x \in Condition] ==
             CASE x.k = "constant" -> {}
               [] x.k = "comparison" -> {x}
               [] x.k \in {"all", "any", "not"} -> UNION {fun[y] : y \in Parts(x)}
           body(x, f) ==
             CASE x.k = "constant" -> {}
               [] x.k = "comparison" -> {x}
               [] x.k \in {"all", "any", "not"} -> UNION {f[y] : y \in Parts(x)}
           V == SUBSET Condition
           F == [Condition -> V]
           G == [p \in Condition \X F |-> body(p[1], p[2])]
           rank == [x \in Condition |-> Depth(x)]
<1>1. ASSUME NEW x \in Condition, NEW f \in F
      PROVE  body(x, f) \in V
  BY TermFacts
<1>2. ASSUME NEW x \in Condition, NEW f \in F, NEW g \in F,
             \A y \in Condition : rank[y] < rank[x] => f[y] = g[y]
      PROVE  body(x, f) = body(x, g)
  BY <1>2, TermFacts
<1>3. Equation(Condition, V, F, rank, G)
  <2>1. rank \in [Condition -> Nat]
    BY TermFacts
  <2>2. G \in [Condition \X F -> V]
    <3> HIDE DEF body, V
    <3> QED
      BY <1>1
  <2>3. \A x \in Condition : \A f, g \in F :
          (\A y \in Condition : rank[y] < rank[x] => f[y] = g[y])
          => G[<<x, f>>] = G[<<x, g>>]
    <3>1. \A x \in Condition : \A f \in F : G[<<x, f>>] = body(x, f)
      <4> HIDE DEF body, F
      <4> QED
        OBVIOUS
    <3> HIDE DEF body, F, G, rank
    <3> QED
      BY <1>2, <3>1
  <2> HIDE DEF G, rank, V
  <2> QED
    BY <2>1, <2>2, <2>3 DEF Equation
<1>4. \E f : f = [x \in Condition |-> body(x, f)]
  <2>1. {} \in V
    OBVIOUS
  <2>2. PICK f \in F : \A x \in Condition : f[x] = G[<<x, f>>]
    <3> HIDE DEF G, rank, F, V
    <3> QED
      BY <1>3, <2>1, Recursion
  <2>3. f = [x \in Condition |-> body(x, f)]
    <3> HIDE DEF body, V
    <3> QED
      BY <2>2
  <2> QED
    BY <2>3
<1>5. fun = [x \in Condition |-> body(x, fun)]
  BY <1>4
<1>6. ASSUME NEW x \in Condition
      PROVE  Comparisons(x) = fun[x]
  BY DEF Comparisons
<1> HIDE DEF fun
<1> QED
  BY <1>5, <1>6, TermFacts

(* The first answer that is not the expected one, or that one.             *)
LEMMA FirstOtherIs ==
  ASSUME NEW answers, DOMAIN answers \subseteq Nat, NEW expected
  PROVE  \/ /\ FirstOther(answers, expected) = expected
            /\ \A i \in DOMAIN answers : answers[i] = expected
         \/ \E i \in DOMAIN answers :
              /\ answers[i] # expected /\ FirstOther(answers, expected) = answers[i]
              /\ \A j \in DOMAIN answers : j < i => answers[j] = expected
<1> DEFINE others == {j \in DOMAIN answers : answers[j] # expected}
           first == CHOOSE i \in others : \A j \in others : i <= j
<1>1. FirstOther(answers, expected) = IF others = {} THEN expected ELSE answers[first]
  BY DEF FirstOther
<1>2. others \in SUBSET Nat
  OBVIOUS
<1>3. CASE others # {}
  <2>1. \E m \in others : \A n \in others : m <= n
    <3> HIDE DEF others
    <3> QED
      BY <1>2, <1>3, Least
  <2>2. first \in others /\ \A j \in others : first <= j
    <3> HIDE DEF others
    <3> QED
      BY <2>1
  <2>3. FirstOther(answers, expected) = answers[first]
    BY <1>1, <1>3
  <2> HIDE DEF first
  <2>4. first \in DOMAIN answers /\ answers[first] # expected /\ first \in Nat
    BY <1>2, <2>2
  <2>5. ASSUME NEW j \in DOMAIN answers, j < first
        PROVE  answers[j] = expected
    <3>1. j \in Nat /\ ~(first <= j)
      BY <2>4, <2>5
    <3> QED
      BY <2>2, <3>1
  <2> QED
    BY <2>3, <2>4, <2>5
<1>4. CASE others = {}
  <2>1. FirstOther(answers, expected) = expected
    BY <1>1, <1>4
  <2>2. \A i \in DOMAIN answers : answers[i] = expected
    BY <1>4
  <2> QED
    BY <2>1, <2>2
<1> QED
  BY <1>3, <1>4

(* It is one of the answers, or the expected one.                          *)
LEMMA FirstOtherIn ==
  ASSUME NEW answers, DOMAIN answers \subseteq Nat, NEW expected, NEW S, expected \in S,
         \A i \in DOMAIN answers : answers[i] \in S
  PROVE  FirstOther(answers, expected) \in S
BY FirstOtherIs

Truths == {"true", "false"} \cup Raised

(* What a comparison of two results gives.                                 *)
Compared(op, l, r) ==
  IF l.t \in Raised THEN l.t
  ELSE IF r.t \in Raised THEN r.t
  ELSE TruthValue(Compare(op, l, r))

(* _condition, by the kinds of condition.                                  *)
LEMMA TruthIs ==
  ASSUME NEW env
  PROVE  \A x \in Condition :
           /\ Truth(x, env) \in Truths
           /\ x.k = "constant" => Truth(x, env) = TruthValue(x.value)
           /\ x.k = "comparison" =>
                Truth(x, env) = Compared(x.op, Value(x.left, env), Value(x.right, env))
           /\ x.k = "all" =>
                Truth(x, env) =
                  FirstOther([i \in DOMAIN x.conditions |-> Truth(x.conditions[i], env)], "true")
           /\ x.k = "any" =>
                Truth(x, env) =
                  FirstOther([i \in DOMAIN x.conditions |-> Truth(x.conditions[i], env)], "false")
           /\ x.k = "not" => Truth(x, env) = Opposite(Truth(x.condition, env))
<1> DEFINE Cmp(x, l, r) ==
             IF l.t \in Raised THEN l.t
             ELSE IF r.t \in Raised THEN r.t
             ELSE TruthValue(Compare(x.op, l, r))
           fun[x \in Condition] ==
             CASE x.k = "constant" -> TruthValue(x.value)
               [] x.k = "comparison" -> Cmp(x, Value(x.left, env), Value(x.right, env))
               [] x.k = "all" ->
                    FirstOther([i \in DOMAIN x.conditions |-> fun[x.conditions[i]]], "true")
               [] x.k = "any" ->
                    FirstOther([i \in DOMAIN x.conditions |-> fun[x.conditions[i]]], "false")
               [] x.k = "not" -> Opposite(fun[x.condition])
           body(x, f) ==
             CASE x.k = "constant" -> TruthValue(x.value)
               [] x.k = "comparison" -> Cmp(x, Value(x.left, env), Value(x.right, env))
               [] x.k = "all" ->
                    FirstOther([i \in DOMAIN x.conditions |-> f[x.conditions[i]]], "true")
               [] x.k = "any" ->
                    FirstOther([i \in DOMAIN x.conditions |-> f[x.conditions[i]]], "false")
               [] x.k = "not" -> Opposite(f[x.condition])
           V == Truths
           F == [Condition -> V]
           G == [p \in Condition \X F |-> body(p[1], p[2])]
           v0 == "true"
           rank == [x \in Condition |-> Depth(x)]
<1>0. \A b : TruthValue(b) \in V
  BY DEF TruthValue, Truths
<1>1. ASSUME NEW x \in Condition, NEW f \in F
      PROVE  body(x, f) \in V
  <2>1. CASE x.k = "constant"
    BY <1>0, <2>1
  <2>2. CASE x.k = "comparison"
    <3>1. Cmp(x, Value(x.left, env), Value(x.right, env)) \in V
      BY <1>0 DEF Truths
    <3> HIDE DEF Cmp
    <3> QED
      BY <2>2, <3>1
  <2>3. ASSUME x.k \in {"all", "any"}, NEW expected \in {"true", "false"}
        PROVE  FirstOther([i \in DOMAIN x.conditions |-> f[x.conditions[i]]], expected) \in V
    <3> DEFINE answers == [i \in DOMAIN x.conditions |-> f[x.conditions[i]]]
    <3>1. /\ DOMAIN answers \subseteq Nat
          /\ \A i \in DOMAIN answers : answers[i] \in V
      BY <2>3, TermFacts
    <3>2. expected \in V
      BY DEF Truths
    <3> HIDE DEF answers, V
    <3>3. FirstOther(answers, expected) \in V
      BY <3>1, <3>2, FirstOtherIn
    <3> QED
      BY <3>3 DEF answers
  <2>4. CASE x.k = "all"
    <3> HIDE DEF V, Cmp
    <3> QED
      BY <2>3, <2>4
  <2>5. CASE x.k = "any"
    <3> HIDE DEF V, Cmp
    <3> QED
      BY <2>3, <2>5
  <2>6. CASE x.k = "not"
    <3>1. f[x.condition] \in V
      BY <2>6, TermFacts
    <3>2. Opposite(f[x.condition]) \in V
      BY <3>1 DEF Opposite, Truths
    <3> HIDE DEF V, Cmp
    <3> QED
      BY <2>6, <3>2
  <2> QED
    BY <2>1, <2>2, <2>4, <2>5, <2>6, TermFacts
<1>2. ASSUME NEW x \in Condition, NEW f \in F, NEW g \in F,
             \A y \in Condition : rank[y] < rank[x] => f[y] = g[y]
      PROVE  body(x, f) = body(x, g)
  <2>1. ASSUME x.k \in {"all", "any"}
        PROVE  [i \in DOMAIN x.conditions |-> f[x.conditions[i]]]
               = [i \in DOMAIN x.conditions |-> g[x.conditions[i]]]
    BY <1>2, <2>1, TermFacts
  <2>2. CASE x.k \in {"constant", "comparison"}
    <3> HIDE DEF Cmp
    <3> QED
      BY <2>2
  <2>3. CASE x.k = "all"
    BY <2>1, <2>3
  <2>4. CASE x.k = "any"
    BY <2>1, <2>4
  <2>5. CASE x.k = "not"
    <3>1. f[x.condition] = g[x.condition]
      BY <1>2, <2>5, TermFacts
    <3> QED
      BY <2>5, <3>1
  <2> QED
    BY <2>2, <2>3, <2>4, <2>5, TermFacts
<1>3. Equation(Condition, V, F, rank, G)
  <2>1. rank \in [Condition -> Nat]
    BY TermFacts
  <2>2. G \in [Condition \X F -> V]
    <3> HIDE DEF body, V
    <3> QED
      BY <1>1
  <2>3. \A x \in Condition : \A f, g \in F :
          (\A y \in Condition : rank[y] < rank[x] => f[y] = g[y])
          => G[<<x, f>>] = G[<<x, g>>]
    <3>1. \A x \in Condition : \A f \in F : G[<<x, f>>] = body(x, f)
      <4> HIDE DEF body, F
      <4> QED
        OBVIOUS
    <3> HIDE DEF body, F, G, rank
    <3> QED
      BY <1>2, <3>1
  <2> HIDE DEF G, rank, V
  <2> QED
    BY <2>1, <2>2, <2>3 DEF Equation
<1>4. \E f \in F : f = [x \in Condition |-> body(x, f)]
  <2>1. v0 \in V
    BY DEF Truths
  <2>2. PICK f \in F : \A x \in Condition : f[x] = G[<<x, f>>]
    <3> HIDE DEF G, rank, F, V, v0
    <3> QED
      BY <1>3, <2>1, Recursion
  <2>3. f = [x \in Condition |-> body(x, f)]
    <3> HIDE DEF body, V
    <3> QED
      BY <2>2
  <2> QED
    <3> HIDE DEF body, F
    <3> QED
      BY <2>3
<1>5. fun = [x \in Condition |-> body(x, fun)]
  BY <1>4
<1>6. ASSUME NEW x \in Condition
      PROVE  Truth(x, env) = fun[x]
  BY DEF Truth
<1> HIDE DEF fun
<1>7. ASSUME NEW x \in Condition
      PROVE  Truth(x, env) = body(x, fun)
  <2> HIDE DEF body
  <2> QED
    BY <1>5, <1>6
<1>8. {x \in Condition : fun[x] \in V} = Condition
  <2> DEFINE P == {x \in Condition : fun[x] \in V}
  <2>1. ASSUME NEW x \in Condition, \A y \in Condition : rank[y] < rank[x] => y \in P
        PROVE  x \in P
    <3> DEFINE g == [y \in Condition |-> IF fun[y] \in V THEN fun[y] ELSE "true"]
    <3>1. g \in F
      BY DEF Truths
    <3>2. body(x, g) \in V
      <4> HIDE DEF body, g, F, V
      <4> QED
        BY <1>1, <3>1
    <3>3. \A y \in Condition : rank[y] < rank[x] => fun[y] = g[y]
      <4> HIDE DEF V, rank
      <4> QED
        BY <2>1
    <3>4. body(x, fun) = body(x, g)
      <4> HIDE DEF g, V
      <4>1. ASSUME x.k \in {"all", "any"}
            PROVE  [i \in DOMAIN x.conditions |-> fun[x.conditions[i]]]
                   = [i \in DOMAIN x.conditions |-> g[x.conditions[i]]]
        BY <3>3, <4>1, TermFacts
      <4>2. CASE x.k \in {"constant", "comparison"}
        <5> HIDE DEF Cmp
        <5> QED
          BY <4>2
      <4>3. CASE x.k = "all"
        BY <4>1, <4>3
      <4>4. CASE x.k = "any"
        BY <4>1, <4>4
      <4>5. CASE x.k = "not"
        <5>1. fun[x.condition] = g[x.condition]
          BY <3>3, <4>5, TermFacts
        <5> QED
          BY <4>5, <5>1
      <4> QED
        BY <4>2, <4>3, <4>4, <4>5, TermFacts
    <3> HIDE DEF body, g, V
    <3> QED
      BY <1>5, <3>2, <3>4
  <2>2. rank \in [Condition -> Nat]
    BY TermFacts
  <2> HIDE DEF P, rank
  <2>3. P \in SUBSET Condition
    BY DEF P
  <2>4. P = Condition
    BY <2>1, <2>2, <2>3, Induction
  <2> QED
    BY <2>4 DEF P
<1>9. ASSUME NEW x \in Condition, x.k = "constant"
      PROVE  Truth(x, env) = TruthValue(x.value)
  BY <1>7, <1>9
<1>10. ASSUME NEW x \in Condition, x.k = "comparison"
       PROVE  Truth(x, env) = Compared(x.op, Value(x.left, env), Value(x.right, env))
  BY <1>7, <1>10 DEF Compared
<1>11. ASSUME NEW x \in Condition, x.k \in {"all", "any"}
       PROVE  [i \in DOMAIN x.conditions |-> fun[x.conditions[i]]]
              = [i \in DOMAIN x.conditions |-> Truth(x.conditions[i], env)]
  BY <1>6, <1>11, TermFacts
<1>12. ASSUME NEW x \in Condition, x.k = "all"
       PROVE  Truth(x, env) =
                FirstOther([i \in DOMAIN x.conditions |-> Truth(x.conditions[i], env)], "true")
  <2>1. body(x, fun) =
          FirstOther([i \in DOMAIN x.conditions |-> fun[x.conditions[i]]], "true")
    BY <1>12
  <2> QED
    BY <1>7, <1>11, <1>12, <2>1
<1>13. ASSUME NEW x \in Condition, x.k = "any"
       PROVE  Truth(x, env) =
                FirstOther([i \in DOMAIN x.conditions |-> Truth(x.conditions[i], env)], "false")
  <2>1. body(x, fun) =
          FirstOther([i \in DOMAIN x.conditions |-> fun[x.conditions[i]]], "false")
    BY <1>13
  <2> QED
    BY <1>7, <1>11, <1>13, <2>1
<1>14. ASSUME NEW x \in Condition, x.k = "not"
       PROVE  Truth(x, env) = Opposite(Truth(x.condition, env))
  BY <1>6, <1>7, <1>14, TermFacts
<1>15. ASSUME NEW x \in Condition
       PROVE  Truth(x, env) \in Truths
  BY <1>6, <1>8
<1> QED
  BY <1>9, <1>10, <1>12, <1>13, <1>14, <1>15

-----------------------------------------------------------------------------
(***************************************************************************)
(* Static types, and what evaluation sees.                                 *)
(***************************************************************************)

(* The same values, as far as a contract refers to them.                   *)
EnvAgree(env, other, c) ==
  \A s \in RefSource : \A x \in NamesOf(SpecsFor(c, s)) :
    x \in DOMAIN env[s] /\ x \in DOMAIN other[s] /\ env[s][x] = other[s][x]

(* Variables of the types that a contract declares.                        *)
EnvTyped(env, c) ==
  \A s \in RefSource : \A x \in NamesOf(SpecsFor(c, s)) :
    x \in DOMAIN env[s] /\ MatchesType(env[s][x], SpecOf(SpecsFor(c, s), x).type)

(* A value of a type, or what stands in for one: an integer too large for  *)
(* a float.                                                                *)
Typed(s, type) == MatchesType(s, type) \/ (type = "real" /\ s = Overflow)

(* A value of one of the four types was not raised.                        *)
LEMMA MatchedIs ==
  ASSUME NEW s, NEW type \in Types, MatchesType(s, type)
  PROVE  s.t \notin Raised
BY DEF MatchesType, Types, FloatTypes, Raised

(* Arithmetic on numbers of the inferred types gives one of the inferred   *)
(* type, or overflows.                                                     *)
LEMMA CombineTyped ==
  ASSUME NEW l \in Result, NEW r \in Result, NEW s, NEW t, NEW op \in ArithmeticOperator,
         Typed(l, s), Typed(r, t), CombinedType({s, t}) # "failure"
  PROVE  /\ CombinedType({s, t}) \in Types
         /\ Typed(Combine(op, l, r), CombinedType({s, t}))
<1> DEFINE both == CombinedType({s, t})
<1>1. /\ s \in NumericTypes /\ t \in NumericTypes /\ both \in Types
      /\ both = IF "real" \in {s, t} THEN "real" ELSE "integer"
  BY DEF CombinedType, NumericTypes, Types
<1>2. /\ l.t \in Numeric \/ (s = "real" /\ l = Overflow)
      /\ r.t \in Numeric \/ (t = "real" /\ r = Overflow)
      /\ l.t # "integer" => s = "real"
      /\ r.t # "integer" => t = "real"
  BY <1>1 DEF Typed, MatchesType, Numeric, NumericTypes, FloatTypes
<1>3. CASE l.t \in Numeric /\ r.t \in Numeric
  <2>1. IF l.t = "integer" /\ r.t = "integer" THEN Combine(op, l, r).t = "integer"
        ELSE Combine(op, l, r) = Overflow \/ Combine(op, l, r).t \in FloatTypes
    BY <1>3, CombineOK
  <2>2. CASE l.t = "integer" /\ r.t = "integer"
    BY <1>1, <2>1, <2>2 DEF Typed, MatchesType
  <2>3. CASE ~(l.t = "integer" /\ r.t = "integer")
    BY <1>1, <1>2, <2>1, <2>3 DEF Typed, MatchesType
  <2> QED
    BY <1>1, <2>2, <2>3
<1>4. CASE l.t \notin Numeric
  <2>1. Combine(op, l, r) = Overflow /\ both = "real"
    BY <1>1, <1>2, <1>4, ResultFacts DEF Combine, Raised
  <2> QED
    BY <1>1, <2>1 DEF Typed
<1>5. CASE l.t \in Numeric /\ r.t \notin Numeric
  <2>1. l.t \notin Raised
    BY <1>5 DEF Numeric, FloatTypes, Raised
  <2>2. Combine(op, l, r) = Overflow /\ both = "real"
    BY <1>1, <1>2, <1>5, <2>1, ResultFacts DEF Combine, Raised
  <2> QED
    BY <1>1, <2>2 DEF Typed
<1> QED
  BY <1>3, <1>4, <1>5

(* What the declarations of a contract say of a name.                      *)
LEMMA SpecTypes ==
  ASSUME NEW c, ContractOK(c), NEW source, NEW x \in NamesOf(SpecsFor(c, source))
  PROVE  SpecOf(SpecsFor(c, source), x).type \in Types
<1> DEFINE specs == SpecsFor(c, source)
           j == CHOOSE i \in DOMAIN specs : specs[i].name = x
<1>1. j \in DOMAIN specs
  BY DEF NamesOf
<1>2. specs \in {c.states, c.inputs}
  BY DEF SpecsFor
<1> HIDE DEF specs
<1>3. specs[j] \in ToSet(c.states) \cup ToSet(c.inputs)
  BY <1>1, <1>2 DEF ToSet
<1>4. SpecOf(specs, x) = specs[j]
  BY DEF SpecOf
<1>5. SpecOf(specs, x).type \in Types
  BY <1>3, <1>4 DEF ContractOK, SpecOK
<1> QED
  BY <1>5 DEF specs

(* The static types of the language are sound: where _infer_expression_type *)
(* finds a type, it is one of the four, and _expression gives a value of   *)
(* it; only an expression of type real may raise, OverflowError alone.     *)
THEOREM Sound ==
  ASSUME NEW c, ContractOK(c), NEW env, EnvOK(env), EnvTyped(env, c)
  PROVE  \A e \in Expression :
           RefsKnown(e, c) /\ TypeOf(e, c) # "failure"
           => TypeOf(e, c) \in Types /\ Typed(Value(e, env), TypeOf(e, c))
<1> DEFINE Good(e) == RefsKnown(e, c) /\ TypeOf(e, c) # "failure"
                      => TypeOf(e, c) \in Types /\ Typed(Value(e, env), TypeOf(e, c))
           P == {e \in Expression : Good(e)}
           rank == [e \in Expression |-> Depth(e)]
<1>1. ASSUME NEW e \in Expression, \A y \in Expression : rank[y] < rank[e] => y \in P
      PROVE  e \in P
  <2>1. CASE e.k = "literal"
    <3>1. Value(e, env) = e.value
      BY <2>1, ValueIs
    <3>2. TypeOf(e, c) = e.value.t
      BY <2>1, TypeIs
    <3>3. e.value.t \in Types
      BY <2>1, TermFacts
    <3> QED
      BY <3>1, <3>2, <3>3 DEF Typed, MatchesType
  <2>2. CASE e.k = "ref"
    <3>1. ASSUME RefsKnown(e, c)
          PROVE  TypeOf(e, c) \in Types /\ Typed(Value(e, env), TypeOf(e, c))
      <4>1. e.source \in RefSource /\ e.name \in NamesOf(SpecsFor(c, e.source))
        BY <2>2, <3>1, TermFacts, RefsKnownIs
      <4>2. Value(e, env) = Lookup(env[e.source], e.name)
        BY <2>2, ValueIs
      <4>3. TypeOf(e, c) = SpecOf(SpecsFor(c, e.source), e.name).type
        BY <2>2, TypeIs
      <4>4. /\ e.name \in DOMAIN env[e.source]
            /\ MatchesType(env[e.source][e.name], SpecOf(SpecsFor(c, e.source), e.name).type)
        BY <4>1 DEF EnvTyped
      <4>5. TypeOf(e, c) \in Types
        BY <4>1, <4>3, SpecTypes
      <4> QED
        BY <4>2, <4>3, <4>4, <4>5 DEF Lookup, Typed
    <3> QED
      BY <3>1
  <2>3. CASE e.k = "binary"
    <3>1. ASSUME RefsKnown(e, c), TypeOf(e, c) # "failure"
          PROVE  TypeOf(e, c) \in Types /\ Typed(Value(e, env), TypeOf(e, c))
      <4>1. e.left \in P /\ e.right \in P /\ e.op \in ArithmeticOperator
        BY <1>1, <2>3, TermFacts
      <4>2. RefsKnown(e.left, c) /\ RefsKnown(e.right, c)
        BY <2>3, <3>1, RefsKnownIs
      <4>3. TypeOf(e, c) = CombinedType({TypeOf(e.left, c), TypeOf(e.right, c)})
        BY <2>3, TypeIs
      <4>4. TypeOf(e.left, c) # "failure" /\ TypeOf(e.right, c) # "failure"
        BY <3>1, <4>3 DEF CombinedType, NumericTypes
      <4>5. /\ Typed(Value(e.left, env), TypeOf(e.left, c))
            /\ Typed(Value(e.right, env), TypeOf(e.right, c))
        BY <4>1, <4>2, <4>4
      <4>6. Value(e, env) = Combine(e.op, Value(e.left, env), Value(e.right, env))
        BY <2>3, ValueIs
      <4>7. Value(e.left, env) \in Result /\ Value(e.right, env) \in Result
        BY <4>1, ValueIs
      <4> HIDE DEF P, rank
      <4> QED
        BY <3>1, <4>1, <4>3, <4>5, <4>6, <4>7, CombineTyped
    <3> QED
      BY <3>1
  <2> QED
    BY <2>1, <2>2, <2>3, TermFacts
<1>2. rank \in [Expression -> Nat]
  BY TermFacts
<1>3. P = Expression
  <2>1. P \in SUBSET Expression
    OBVIOUS
  <2> HIDE DEF P, rank
  <2> QED
    BY <1>1, <1>2, <2>1, Induction
<1> QED
  BY <1>3

(* The references of a condition are to declared variables, and            *)
(* _validate_condition finds the types of its comparisons compatible.      *)
KnownIn(x, c) == \A p \in Comparisons(x) : RefsKnown(p.left, c) /\ RefsKnown(p.right, c)

TypedIn(x, c) ==
  KnownIn(x, c) /\ \A p \in Comparisons(x) : Compatible(TypeOf(p.left, c), TypeOf(p.right, c))

RealIn(x, c) ==
  \E p \in Comparisons(x) : TypeOf(p.left, c) = "real" \/ TypeOf(p.right, c) = "real"

(* What may be raised by a condition: OverflowError, if it has a real.     *)
Raises(x, c) == {raised \in {"overflow"} : RealIn(x, c)}

(* The comparisons of a part are comparisons of the whole.                 *)
LEMMA PartOf ==
  ASSUME NEW c, NEW x \in Condition, x.k \in {"all", "any", "not"}, NEW y \in Parts(x)
  PROVE  /\ KnownIn(x, c) => KnownIn(y, c)
         /\ TypedIn(x, c) => TypedIn(y, c)
         /\ Raises(y, c) \subseteq Raises(x, c)
<1>1. Comparisons(y) \subseteq Comparisons(x)
  BY ComparisonsIs
<1> QED
  BY <1>1 DEF KnownIn, TypedIn, Raises, RealIn

(* A validated condition has a truth value, or overflows.                  *)
LEMMA TruthSound ==
  ASSUME NEW c, ContractOK(c), NEW env, EnvOK(env), EnvTyped(env, c)
  PROVE  \A x \in Condition :
           TypedIn(x, c) => Truth(x, env) \in {"true", "false"} \cup Raises(x, c)
<1> DEFINE Answers(x) == {"true", "false"} \cup Raises(x, c)
           P == {x \in Condition : TypedIn(x, c) => Truth(x, env) \in Answers(x)}
           rank == [x \in Condition |-> Depth(x)]
<1>0. \A b : TruthValue(b) \in {"true", "false"}
  BY DEF TruthValue
<1>1. ASSUME NEW x \in Condition, \A y \in Condition : rank[y] < rank[x] => y \in P
      PROVE  x \in P
  <2> SUFFICES ASSUME TypedIn(x, c)
               PROVE  Truth(x, env) \in Answers(x)
    OBVIOUS
  <2>1. CASE x.k = "constant"
    BY <1>0, <2>1, TruthIs
  <2>2. CASE x.k = "comparison"
    <3> DEFINE l == Value(x.left, env)
               r == Value(x.right, env)
    <3>1. x \in Comparisons(x) /\ x.left \in Expression /\ x.right \in Expression
      BY <2>2, ComparisonsIs, TermFacts
    <3>2. /\ RefsKnown(x.left, c) /\ RefsKnown(x.right, c)
          /\ TypeOf(x.left, c) # "failure" /\ TypeOf(x.right, c) # "failure"
      BY <3>1 DEF TypedIn, KnownIn, Compatible
    <3>3. /\ TypeOf(x.left, c) \in Types /\ Typed(l, TypeOf(x.left, c))
          /\ TypeOf(x.right, c) \in Types /\ Typed(r, TypeOf(x.right, c))
      BY <3>1, <3>2, Sound
    <3>4. /\ l.t \notin Raised \/ (TypeOf(x.left, c) = "real" /\ l.t = "overflow")
          /\ r.t \notin Raised \/ (TypeOf(x.right, c) = "real" /\ r.t = "overflow")
      <4> HIDE DEF l, r
      <4> QED
        BY <3>3, MatchedIs, ResultFacts DEF Typed
    <3>5. Truth(x, env) = Compared(x.op, l, r)
      BY <2>2, TruthIs
    <3>6. Compared(x.op, l, r) \in {"true", "false"} \cup {raised \in {"overflow"} :
              TypeOf(x.left, c) = "real" \/ TypeOf(x.right, c) = "real"}
      <4> HIDE DEF l, r
      <4> QED
        BY <1>0, <3>4 DEF Compared
    <3> QED
      BY <3>1, <3>5, <3>6 DEF Raises, RealIn
  <2>3. ASSUME x.k \in {"all", "any", "not"}, NEW y \in Parts(x)
        PROVE  Truth(y, env) \in Answers(x)
    <3>1. y \in P
      BY <1>1, <2>3, TermFacts
    <3> QED
      BY <2>3, <3>1, PartOf
  <2>4. ASSUME x.k \in {"all", "any"}, NEW expected \in {"true", "false"}
        PROVE  FirstOther([i \in DOMAIN x.conditions |-> Truth(x.conditions[i], env)], expected)
                 \in Answers(x)
    <3> DEFINE answers == [i \in DOMAIN x.conditions |-> Truth(x.conditions[i], env)]
               S == Answers(x)
    <3>1. DOMAIN answers \subseteq Nat
      BY <2>4, TermFacts
    <3>2. \A i \in DOMAIN answers : answers[i] \in S
      <4>1. \A i \in DOMAIN x.conditions : x.conditions[i] \in Parts(x)
        BY <2>4 DEF Parts, ToSet
      <4> HIDE DEF Answers
      <4> QED
        BY <2>3, <2>4, <4>1
    <3>3. expected \in S
      OBVIOUS
    <3> HIDE DEF answers, S
    <3>4. FirstOther(answers, expected) \in S
      BY <3>1, <3>2, <3>3, FirstOtherIn
    <3> QED
      BY <3>4 DEF answers, S
  <2>5. CASE x.k = "all"
    <3> HIDE DEF Answers
    <3> QED
      BY <2>4, <2>5, TruthIs
  <2>6. CASE x.k = "any"
    <3> HIDE DEF Answers
    <3> QED
      BY <2>4, <2>6, TruthIs
  <2>7. CASE x.k = "not"
    <3>1. x.condition \in Parts(x)
      BY <2>7 DEF Parts
    <3>2. Truth(x.condition, env) \in Answers(x)
      BY <2>3, <2>7, <3>1
    <3> QED
      BY <2>7, <3>2, TruthIs DEF Opposite, Raises
  <2> QED
    BY <2>1, <2>2, <2>5, <2>6, <2>7, TermFacts
<1>2. rank \in [Condition -> Nat]
  BY TermFacts
<1>3. P = Condition
  <2>1. P \in SUBSET Condition
    OBVIOUS
  <2> HIDE DEF P, rank
  <2> QED
    BY <1>1, <1>2, <2>1, Induction
<1> QED
  BY <1>3

Notices == {"ok"} \cup Raised

(* _failed_comparisons, by the kinds of condition.                         *)
LEMMA HintsIs ==
  ASSUME NEW env
  PROVE  \A x \in Condition :
           \/ Hints(x, env) \in {"ok", Notice(Truth(x, env))}
           \/ /\ x.k \in {"all", "any"}
              /\ Hints(x, env) =
                   FirstOther([i \in DOMAIN x.conditions |-> Hints(x.conditions[i], env)], "ok")
<1> DEFINE fun[x \in Condition] ==
             CASE x.k \in {"constant", "not"} -> "ok"
               [] x.k = "comparison" -> Notice(Truth(x, env))
               [] x.k = "any" /\ Truth(x, env) # "false" -> Notice(Truth(x, env))
               [] OTHER ->
                    FirstOther([i \in DOMAIN x.conditions |-> fun[x.conditions[i]]], "ok")
           body(x, f) ==
             CASE x.k \in {"constant", "not"} -> "ok"
               [] x.k = "comparison" -> Notice(Truth(x, env))
               [] x.k = "any" /\ Truth(x, env) # "false" -> Notice(Truth(x, env))
               [] OTHER ->
                    FirstOther([i \in DOMAIN x.conditions |-> f[x.conditions[i]]], "ok")
           V == Notices
           F == [Condition -> V]
           G == [p \in Condition \X F |-> body(p[1], p[2])]
           rank == [x \in Condition |-> Depth(x)]
           Alone(x) == \/ x.k \in {"constant", "not", "comparison"}
                       \/ x.k = "any" /\ Truth(x, env) # "false"
<1>0. ASSUME NEW x \in Condition
      PROVE  /\ ~Alone(x) => x.k \in {"all", "any"}
             /\ \A f : body(x, f) =
                  IF ~Alone(x)
                  THEN FirstOther([i \in DOMAIN x.conditions |-> f[x.conditions[i]]], "ok")
                  ELSE IF x.k \in {"constant", "not"} THEN "ok" ELSE Notice(Truth(x, env))
  <2>1. x.k \in {"constant", "comparison", "all", "any", "not"}
    BY TermFacts
  <2>2. ASSUME NEW f
        PROVE  body(x, f) =
                 IF ~Alone(x)
                 THEN FirstOther([i \in DOMAIN x.conditions |-> f[x.conditions[i]]], "ok")
                 ELSE IF x.k \in {"constant", "not"} THEN "ok" ELSE Notice(Truth(x, env))
    <3>1. CASE x.k \in {"constant", "not"}
      BY <3>1
    <3>2. CASE x.k = "comparison"
      BY <3>2
    <3>3. CASE x.k = "any" /\ Truth(x, env) # "false"
      BY <3>3
    <3>4. CASE x.k = "all" \/ (x.k = "any" /\ Truth(x, env) = "false")
      BY <3>4
    <3> QED
      BY <2>1, <3>1, <3>2, <3>3, <3>4
  <2> QED
    BY <2>1, <2>2
<1> HIDE DEF body, Alone
<1>1. ASSUME NEW x \in Condition, NEW f \in F
      PROVE  body(x, f) \in V
  <2>1. CASE Alone(x)
    BY <1>0, <2>1 DEF Notice, Notices
  <2>2. CASE ~Alone(x)
    <3> DEFINE answers == [i \in DOMAIN x.conditions |-> f[x.conditions[i]]]
    <3>1. /\ DOMAIN answers \subseteq Nat
          /\ \A i \in DOMAIN answers : answers[i] \in V
      BY <1>0, <2>2, TermFacts
    <3>2. "ok" \in V
      BY DEF Notices
    <3> HIDE DEF answers, V
    <3>3. FirstOther(answers, "ok") \in V
      BY <3>1, <3>2, FirstOtherIn
    <3> QED
      BY <1>0, <2>2, <3>3 DEF answers
  <2> QED
    BY <2>1, <2>2
<1>2. ASSUME NEW x \in Condition, NEW f, NEW g,
             \A y \in Condition : rank[y] < rank[x] => f[y] = g[y]
      PROVE  body(x, f) = body(x, g)
  <2>1. CASE Alone(x)
    BY <1>0, <2>1
  <2>2. CASE ~Alone(x)
    <3>1. [i \in DOMAIN x.conditions |-> f[x.conditions[i]]]
          = [i \in DOMAIN x.conditions |-> g[x.conditions[i]]]
      BY <1>0, <1>2, <2>2, TermFacts
    <3> QED
      BY <1>0, <2>2, <3>1
  <2> QED
    BY <2>1, <2>2
<1>3. Equation(Condition, V, F, rank, G)
  <2>1. rank \in [Condition -> Nat]
    BY TermFacts
  <2>2. G \in [Condition \X F -> V]
    <3> HIDE DEF V
    <3> QED
      BY <1>1
  <2>3. \A x \in Condition : \A f, g \in F :
          (\A y \in Condition : rank[y] < rank[x] => f[y] = g[y])
          => G[<<x, f>>] = G[<<x, g>>]
    <3>1. \A x \in Condition : \A f \in F : G[<<x, f>>] = body(x, f)
      <4> HIDE DEF F
      <4> QED
        OBVIOUS
    <3> HIDE DEF F, G, rank
    <3> QED
      BY <1>2, <3>1
  <2> HIDE DEF G, rank, V
  <2> QED
    BY <2>1, <2>2, <2>3 DEF Equation
<1>4. \E f \in F : f = [x \in Condition |-> body(x, f)]
  <2>1. "ok" \in V
    BY DEF Notices
  <2>2. PICK f \in F : \A x \in Condition : f[x] = G[<<x, f>>]
    <3> HIDE DEF G, rank, F, V
    <3> QED
      BY <1>3, <2>1, Recursion
  <2>3. f = [x \in Condition |-> body(x, f)]
    <3> HIDE DEF V
    <3> QED
      BY <2>2
  <2> QED
    <3> HIDE DEF F
    <3> QED
      BY <2>3
<1>5. fun = [x \in Condition |-> body(x, fun)]
  BY <1>4 DEF body
<1>6. ASSUME NEW x \in Condition
      PROVE  Hints(x, env) = fun[x]
  BY DEF Hints
<1> HIDE DEF fun
<1>7. ASSUME NEW x \in Condition
      PROVE  Hints(x, env) = body(x, fun)
  BY <1>5, <1>6
<1>8. ASSUME NEW x \in Condition, Alone(x)
      PROVE  Hints(x, env) \in {"ok", Notice(Truth(x, env))}
  BY <1>0, <1>7, <1>8 DEF Notice
<1>9. ASSUME NEW x \in Condition, ~Alone(x)
      PROVE  /\ x.k \in {"all", "any"}
             /\ Hints(x, env) =
                  FirstOther([i \in DOMAIN x.conditions |-> Hints(x.conditions[i], env)], "ok")
  <2>1. x.k \in {"all", "any"}
    BY <1>0, <1>9
  <2>2. Hints(x, env) =
          FirstOther([i \in DOMAIN x.conditions |-> fun[x.conditions[i]]], "ok")
    BY <1>0, <1>7, <1>9
  <2>3. [i \in DOMAIN x.conditions |-> fun[x.conditions[i]]]
        = [i \in DOMAIN x.conditions |-> Hints(x.conditions[i], env)]
    BY <1>6, <2>1, TermFacts
  <2> QED
    BY <2>1, <2>2, <2>3
<1> QED
  BY <1>8, <1>9

(* The hints of a validated condition overflow or nothing.                 *)
LEMMA HintsSound ==
  ASSUME NEW c, ContractOK(c), NEW env, EnvOK(env), EnvTyped(env, c)
  PROVE  \A x \in Condition : TypedIn(x, c) => Hints(x, env) \in {"ok"} \cup Raises(x, c)
<1> DEFINE P == {x \in Condition : TypedIn(x, c) => Hints(x, env) \in {"ok"} \cup Raises(x, c)}
           rank == [x \in Condition |-> Depth(x)]
<1>1. ASSUME NEW x \in Condition, \A y \in Condition : rank[y] < rank[x] => y \in P
      PROVE  x \in P
  <2> SUFFICES ASSUME TypedIn(x, c)
               PROVE  Hints(x, env) \in {"ok"} \cup Raises(x, c)
    OBVIOUS
  <2>1. Notice(Truth(x, env)) \in {"ok"} \cup Raises(x, c)
    BY TruthSound DEF Notice, Raised
  <2>2. CASE Hints(x, env) \in {"ok", Notice(Truth(x, env))}
    BY <2>1, <2>2
  <2>3. CASE /\ x.k \in {"all", "any"}
             /\ Hints(x, env) =
                  FirstOther([i \in DOMAIN x.conditions |-> Hints(x.conditions[i], env)], "ok")
    <3> DEFINE answers == [i \in DOMAIN x.conditions |-> Hints(x.conditions[i], env)]
               S == {"ok"} \cup Raises(x, c)
    <3>1. DOMAIN answers \subseteq Nat
      BY <2>3, TermFacts
    <3>2. ASSUME NEW i \in DOMAIN answers
          PROVE  answers[i] \in S
      <4>1. x.conditions[i] \in Parts(x)
        BY <2>3 DEF Parts, ToSet
      <4>2. x.conditions[i] \in P
        BY <1>1, <2>3, TermFacts
      <4> QED
        BY <2>3, <4>1, <4>2, PartOf
    <3>3. "ok" \in S
      OBVIOUS
    <3>4. Hints(x, env) = FirstOther(answers, "ok")
      BY <2>3
    <3> HIDE DEF answers, S
    <3>5. FirstOther(answers, "ok") \in S
      BY <3>1, <3>2, <3>3, FirstOtherIn
    <3> QED
      BY <3>4, <3>5 DEF S
  <2> QED
    BY <2>2, <2>3, HintsIs
<1>2. rank \in [Condition -> Nat]
  BY TermFacts
<1>3. P = Condition
  <2>1. P \in SUBSET Condition
    OBVIOUS
  <2> HIDE DEF P, rank
  <2> QED
    BY <1>1, <1>2, <2>1, Induction
<1> QED
  BY <1>3

(* A condition that must hold and is validated.                            *)
LEMMA MetIs ==
  ASSUME NEW c, ContractOK(c), NEW env, EnvOK(env), EnvTyped(env, c),
         NEW x \in Condition, TypedIn(x, c), NEW property, property # "ok"
  PROVE  /\ Met(property, x, env) = "ok" <=> Holds(x, env)
         /\ Met(property, x, env) \in {"ok", property} \cup Raises(x, c)
<1> DEFINE answers == <<Hints(x, env), property>>
<1>1. /\ Truth(x, env) \in {"true", "false"} \cup Raises(x, c)
      /\ Hints(x, env) \in {"ok"} \cup Raises(x, c)
  BY TruthSound, HintsSound
<1>2. Raises(x, c) \subseteq {"overflow"} /\ Raised = {"failure", "overflow"}
  BY DEF Raises, Raised
<1>3. CASE Truth(x, env) = "false"
  <2>1. Met(property, x, env) = FirstProblem(answers)
    BY <1>2, <1>3 DEF Met, Demanded
  <2>2. DOMAIN answers = {1, 2} /\ answers[1] = Hints(x, env) /\ answers[2] = property
    OBVIOUS
  <2> HIDE DEF answers
  <2>3. FirstProblem(answers) \in {Hints(x, env), property} /\ FirstProblem(answers) # "ok"
    <3>1. DOMAIN answers \subseteq Nat
      BY <2>2
    <3>2. \/ /\ FirstOther(answers, "ok") = "ok"
             /\ \A i \in DOMAIN answers : answers[i] = "ok"
          \/ \E i \in DOMAIN answers :
               answers[i] # "ok" /\ FirstOther(answers, "ok") = answers[i]
      BY <3>1, FirstOtherIs
    <3> QED
      BY <2>2, <3>2 DEF FirstProblem
  <2>4. FirstProblem(answers) \in {"ok", property} \cup Raises(x, c)
    BY <1>1, <2>3
  <2> QED
    BY <1>3, <2>1, <2>3, <2>4 DEF Holds
<1>4. CASE Truth(x, env) # "false"
  BY <1>1, <1>2, <1>4 DEF Met, Demanded, Holds
<1> QED
  BY <1>3, <1>4

(* Evaluation sees of the variables only what EnvAgree compares.           *)
LEMMA ValueAgrees ==
  ASSUME NEW c, NEW env, NEW other, EnvOK(env), EnvOK(other), EnvAgree(env, other, c)
  PROVE  \A e \in Expression : RefsKnown(e, c) => Value(e, env) = Value(e, other)
<1> DEFINE P == {e \in Expression :
                   RefsKnown(e, c) => Value(e, env) = Value(e, other)}
           rank == [e \in Expression |-> Depth(e)]
<1>1. ASSUME NEW e \in Expression, \A y \in Expression : rank[y] < rank[e] => y \in P
      PROVE  e \in P
  <2>1. CASE e.k = "literal"
    BY <2>1, ValueIs
  <2>2. CASE e.k = "ref"
    <3>1. ASSUME RefsKnown(e, c)
          PROVE  Value(e, env) = Value(e, other)
      <4>1. e.source \in RefSource /\ e.name \in NamesOf(SpecsFor(c, e.source))
        BY <2>2, <3>1, TermFacts, RefsKnownIs
      <4>2. /\ Value(e, env) = Lookup(env[e.source], e.name)
            /\ Value(e, other) = Lookup(other[e.source], e.name)
        BY <2>2, ValueIs
      <4> QED
        BY <4>1, <4>2 DEF Lookup, EnvAgree
    <3> QED
      BY <3>1
  <2>3. CASE e.k = "binary"
    <3>1. ASSUME RefsKnown(e, c)
          PROVE  Value(e, env) = Value(e, other)
      <4>1. e.left \in P /\ e.right \in P
        BY <1>1, <2>3, TermFacts
      <4>2. RefsKnown(e.left, c) /\ RefsKnown(e.right, c)
        BY <2>3, <3>1, RefsKnownIs
      <4>3. /\ Value(e, env) = Combine(e.op, Value(e.left, env), Value(e.right, env))
            /\ Value(e, other) = Combine(e.op, Value(e.left, other), Value(e.right, other))
        BY <2>3, ValueIs
      <4>4. /\ Value(e.left, env) = Value(e.left, other)
            /\ Value(e.right, env) = Value(e.right, other)
        BY <4>1, <4>2
      <4> QED
        BY <4>3, <4>4
    <3> QED
      BY <3>1
  <2> QED
    BY <2>1, <2>2, <2>3, TermFacts
<1>2. rank \in [Expression -> Nat]
  BY TermFacts
<1>3. P = Expression
  <2>1. P \in SUBSET Expression
    OBVIOUS
  <2> HIDE DEF P, rank
  <2> QED
    BY <1>1, <1>2, <2>1, Induction
<1> QED
  BY <1>3

(* And so do conditions whose references are known.                        *)
LEMMA TruthAgrees ==
  ASSUME NEW c, NEW env, NEW other, EnvOK(env), EnvOK(other), EnvAgree(env, other, c)
  PROVE  \A x \in Condition : KnownIn(x, c) => Truth(x, env) = Truth(x, other)
<1> DEFINE P == {x \in Condition : KnownIn(x, c) => Truth(x, env) = Truth(x, other)}
           rank == [x \in Condition |-> Depth(x)]
<1>1. ASSUME NEW x \in Condition, \A y \in Condition : rank[y] < rank[x] => y \in P
      PROVE  x \in P
  <2> SUFFICES ASSUME KnownIn(x, c)
               PROVE  Truth(x, env) = Truth(x, other)
    OBVIOUS
  <2>1. CASE x.k = "constant"
    BY <2>1, TruthIs
  <2>2. CASE x.k = "comparison"
    <3>1. x \in Comparisons(x)
      BY <2>2, ComparisonsIs
    <3>2. /\ Value(x.left, env) = Value(x.left, other)
          /\ Value(x.right, env) = Value(x.right, other)
      BY <2>2, <3>1, TermFacts, ValueAgrees DEF KnownIn
    <3>3. /\ Truth(x, env) = Compared(x.op, Value(x.left, env), Value(x.right, env))
          /\ Truth(x, other) = Compared(x.op, Value(x.left, other), Value(x.right, other))
      BY <2>2, TruthIs
    <3> QED
      BY <3>2, <3>3
  <2>3. ASSUME x.k \in {"all", "any", "not"}, NEW y \in Parts(x)
        PROVE  Truth(y, env) = Truth(y, other)
    <3>1. y \in P
      BY <1>1, <2>3, TermFacts
    <3> QED
      BY <2>3, <3>1, PartOf
  <2>4. ASSUME x.k \in {"all", "any"}
        PROVE  [i \in DOMAIN x.conditions |-> Truth(x.conditions[i], env)]
               = [i \in DOMAIN x.conditions |-> Truth(x.conditions[i], other)]
    <3>1. \A i \in DOMAIN x.conditions : x.conditions[i] \in Parts(x)
      BY <2>4 DEF Parts, ToSet
    <3> QED
      BY <2>3, <2>4, <3>1
  <2>5. CASE x.k = "all"
    BY <2>4, <2>5, TruthIs
  <2>6. CASE x.k = "any"
    BY <2>4, <2>6, TruthIs
  <2>7. CASE x.k = "not"
    <3>1. x.condition \in Parts(x)
      BY <2>7 DEF Parts
    <3> QED
      BY <2>3, <2>7, <3>1, TruthIs
  <2> QED
    BY <2>1, <2>2, <2>5, <2>6, <2>7, TermFacts
<1>2. rank \in [Condition -> Nat]
  BY TermFacts
<1>3. P = Condition
  <2>1. P \in SUBSET Condition
    OBVIOUS
  <2> HIDE DEF P, rank
  <2> QED
    BY <1>1, <1>2, <2>1, Induction
<1> QED
  BY <1>3

(* Names that are as many as the variables tell them apart.                *)
LEMMA UniqueSpec ==
  ASSUME NEW specs, specs \in Seq(ToSet(specs)),
         Cardinality(NamesOf(specs)) = Len(specs),
         NEW i \in DOMAIN specs
  PROVE  /\ SpecOf(specs, specs[i].name) = specs[i]
         /\ \A j \in DOMAIN specs : specs[j].name = specs[i].name => j = i
<1> DEFINE D == DOMAIN specs
           N == NamesOf(specs)
           f == [j \in D |-> specs[j].name]
<1>1. D = 1..Len(specs) /\ Len(specs) \in Nat
  OBVIOUS
<1>2. IsFiniteSet(D) /\ Cardinality(D) = Len(specs)
  <2> DEFINE n == Len(specs)
  <2>1. n \in Nat /\ D = 1..n
    BY <1>1
  <2> HIDE DEF n, D
  <2>2. IsFiniteSet(1..n) /\ Cardinality(1..n) = n
    BY <2>1, FS_Interval
  <2> QED
    BY <2>1, <2>2 DEF n
<1>3. Cardinality(N) = Cardinality(D)
  BY <1>2
<1>4. f \in Surjection(D, N)
  BY DEF Surjection, NamesOf
<1>5. f \in Injection(D, N)
  <2> HIDE DEF f, D, N
  <2> QED
    BY <1>2, <1>3, <1>4, FS_Surjection
<1>6. \A j \in DOMAIN specs : specs[j].name = specs[i].name => j = i
  BY <1>5 DEF Injection, IsInjective
<1>7. (CHOOSE j \in DOMAIN specs : specs[j].name = specs[i].name) = i
  BY <1>6
<1> QED
  BY <1>6, <1>7 DEF SpecOf

-----------------------------------------------------------------------------
(***************************************************************************)
(* The loops of the verifier.                                              *)
(***************************************************************************)

(* Division and remainder.                                                 *)
LEMMA DivMod ==
  ASSUME NEW a \in Nat, NEW m \in Nat, m > 0
  PROVE  /\ a \div m \in Nat /\ a % m \in 0..(m - 1) /\ a = m * (a \div m) + (a % m)
OBVIOUS

(* Products grow with their factors.                                       *)
LEMMA Mono ==
  ASSUME NEW a \in Nat, NEW b \in Nat, NEW m \in Nat, a <= b
  PROVE  a * m <= b * m /\ m * a <= m * b
OBVIOUS

(* There is one quotient and one remainder.                                *)
LEMMA Unique ==
  ASSUME NEW m \in Nat, m > 0, NEW q \in Nat, NEW r \in 0..(m - 1),
         NEW p \in Nat, NEW s \in 0..(m - 1), m * q + r = m * p + s
  PROVE  q = p /\ r = s
<1>1. CASE q + 1 <= p
  <2>1. m * (q + 1) <= m * p
    BY <1>1, Mono
  <2>2. m * (q + 1) = m * q + m
    OBVIOUS
  <2> DEFINE x == m * q
             y == m * p
  <2>3. x \in Int /\ y \in Int /\ x + m <= y /\ x + r = y + s
    BY <2>1, <2>2
  <2> HIDE DEF x, y
  <2> QED
    BY <2>3
<1>2. CASE p + 1 <= q
  <2>1. m * (p + 1) <= m * q
    BY <1>2, Mono
  <2>2. m * (p + 1) = m * p + m
    OBVIOUS
  <2> DEFINE x == m * q
             y == m * p
  <2>3. x \in Int /\ y \in Int /\ y + m <= x /\ x + r = y + s
    BY <2>1, <2>2
  <2> HIDE DEF x, y
  <2> QED
    BY <2>3
<1>3. CASE q = p
  BY <1>3
<1> QED
  BY <1>1, <1>2, <1>3

(* The counters stay in their loops.                                       *)
LEMMA CountersIn ==
  ASSUME NEW q \in Nat, NEW m \in Nat, NEW k \in 1..(q * m)
  PROVE  Outer(k, m) \in 1..q /\ Inner(k, m) \in 1..m
<1>1. m > 0
  <2>1. q * m # 0
    OBVIOUS
  <2> QED
    BY <2>1
<1> DEFINE a == k - 1
           o == a \div m
           i == a % m
<1>2. a \in Nat /\ a + 1 <= q * m
  <2>1. q * m \in Int
    OBVIOUS
  <2> QED
    BY <2>1
<1>3. o \in Nat /\ i \in 0..(m - 1) /\ a = m * o + i
  <2> HIDE DEF a
  <2> QED
    BY <1>1, <1>2, DivMod
<1>4. o + 1 <= q
  <2>1. CASE q <= o
    <3>1. q * m <= m * o
      BY <1>3, <2>1, Mono
    <3> DEFINE x == q * m
               y == m * o
    <3>2. x \in Int /\ y \in Int /\ x <= y /\ a = y + i /\ a + 1 <= x
      BY <1>2, <1>3, <3>1
    <3> HIDE DEF x, y, a, o, i
    <3> QED
      BY <1>2, <1>3, <3>2
  <2>2. CASE ~(q <= o)
    <3> HIDE DEF o
    <3> QED
      BY <1>3, <2>2
  <2> QED
    BY <2>1, <2>2
<1> HIDE DEF o, i
<1>5. Outer(k, m) = o + 1 /\ Inner(k, m) = i + 1
  BY DEF Outer, Inner, o, i
<1> QED
  BY <1>3, <1>4, <1>5

(* Some round of the two loops has the counters o and i.                   *)
Reached(q, m, o, i) == \E k \in 1..(q * m) : Outer(k, m) = o /\ Inner(k, m) = i

(* Every round of the inner loop in every round of the outer one comes.    *)
LEMMA CountersReach ==
  ASSUME NEW q \in Nat, NEW m \in Nat, NEW o \in 1..q, NEW i \in 1..m
  PROVE  Reached(q, m, o, i)
<1> DEFINE a == m * (o - 1) + (i - 1)
           k == a + 1
<1>1. m > 0 /\ o - 1 \in Nat /\ i - 1 \in 0..(m - 1)
  OBVIOUS
<1>2. a \in Nat
  OBVIOUS
<1>3. a + 1 <= q * m
  <2>1. m * o <= m * q /\ m * q = q * m
    BY Mono
  <2>2. m * o = m * (o - 1) + m
    OBVIOUS
  <2> DEFINE x == m * (o - 1)
             y == m * o
             z == q * m
  <2>3. x \in Int /\ y \in Int /\ z \in Int /\ y <= z /\ y = x + m /\ a = x + (i - 1)
    BY <2>1, <2>2
  <2>4. z = q * m
    OBVIOUS
  <2> HIDE DEF x, y, z, a
  <2>5. a + 1 <= z
    BY <1>1, <1>2, <2>3
  <2> QED
    BY <2>4, <2>5
<1>4. /\ a \div m \in Nat /\ a % m \in 0..(m - 1)
      /\ a = m * (a \div m) + (a % m)
  <2> HIDE DEF a
  <2> QED
    BY <1>1, <1>2, DivMod
<1>5. a \div m = o - 1 /\ a % m = i - 1
  <2> DEFINE d == a \div m
             r == a % m
  <2>1. m * d + r = m * (o - 1) + (i - 1)
    BY <1>4
  <2>2. d \in Nat /\ r \in 0..(m - 1)
    BY <1>4
  <2> HIDE DEF d, r
  <2>3. d = o - 1 /\ r = i - 1
    BY <1>1, <2>1, <2>2, Unique
  <2> QED
    BY <2>3 DEF d, r
<1>6. k - 1 = a /\ k \in 1..(q * m)
  <2> DEFINE z == q * m
  <2>1. z \in Int /\ a + 1 <= z
    BY <1>3
  <2>2. 1..(q * m) = 1..z
    OBVIOUS
  <2> HIDE DEF a, z
  <2> QED
    BY <1>2, <2>1, <2>2
<1>7. Outer(k, m) = o /\ Inner(k, m) = i
  <2>1. Outer(k, m) = ((k - 1) \div m) + 1 /\ Inner(k, m) = ((k - 1) % m) + 1
    BY DEF Outer, Inner
  <2> HIDE DEF a
  <2> QED
    BY <1>5, <1>6, <2>1
<1> HIDE DEF k
<1> QED
  BY <1>6, <1>7 DEF Reached

(* _domain: scalars.                                                       *)
LEMMA DomainOK ==
  ASSUME NEW spec, SpecOK(spec)
  PROVE  DomainOf(spec) \in Seq(ScalarValue)
<1>1. Scalar("boolean", 0) \in ScalarValue /\ Scalar("boolean", 1) \in ScalarValue
  BY DEF Scalar, ScalarValue, Types
<1>2. \A n \in Int : Scalar("integer", n) \in ScalarValue
  BY DEF Scalar, ScalarValue, Types
<1>3. CASE spec.allowed # <<>>
  BY <1>3 DEF DomainOf, SpecOK
<1>4. CASE spec.allowed = <<>> /\ spec.type = "boolean"
  BY <1>1, <1>4 DEF DomainOf
<1>5. CASE /\ spec.allowed = <<>> /\ spec.type # "boolean"
           /\ spec.type = "integer" /\ spec.bounds # <<>>
  <2> DEFINE low == spec.bounds[1]
             n == spec.bounds[2] - low + 1
  <2>1. low \in Int /\ n \in Int
    BY <1>5 DEF SpecOK
  <2>2. DomainOf(spec) = [i \in 1..n |-> Scalar("integer", low + i - 1)]
    BY <1>5 DEF DomainOf
  <2> HIDE DEF low, n
  <2>3. CASE n \in Nat
    <3>1. \A i \in 1..n : Scalar("integer", low + i - 1) \in ScalarValue
      BY <1>2, <2>1, <2>3
    <3> QED
      BY <2>2, <2>3, <3>1
  <2>4. CASE n < 0
    <3>1. 1..n = 1..0
      BY <2>1, <2>4
    <3>2. DomainOf(spec) = [i \in 1..0 |-> Scalar("integer", low + i - 1)]
      BY <2>2, <3>1
    <3>3. [i \in 1..0 |-> Scalar("integer", low + i - 1)] \in Seq(ScalarValue)
      OBVIOUS
    <3> QED
      BY <3>2, <3>3
  <2> QED
    BY <2>1, <2>3, <2>4
<1>6. CASE /\ spec.allowed = <<>> /\ spec.type # "boolean"
           /\ ~(spec.type = "integer" /\ spec.bounds # <<>>)
  BY <1>6 DEF DomainOf
<1> QED
  BY <1>3, <1>4, <1>5, <1>6

(* What _validate_contract and the shape of a contract say of a list of    *)
(* variables.                                                              *)
SpecsOK(specs) ==
  /\ specs \in Seq(ToSet(specs))
  /\ \A i \in DOMAIN specs : SpecOK(specs[i])
  /\ Cardinality(NamesOf(specs)) = Len(specs)

(* One more variable.                                                      *)
LEMMA ExtendedIs ==
  ASSUME NEW R, NEW records \in Seq(R), NEW W, NEW values \in Seq(W), NEW x
  PROVE  /\ Extended(records, x, values) \in
               Seq({With(r, x, v) : v \in W, r \in R})
         /\ ToSet(Extended(records, x, values)) =
               {With(r, x, v) : v \in ToSet(values), r \in ToSet(records)}
<1> DEFINE q == Len(records)
           m == Len(values)
           E == Extended(records, x, values)
           all == {With(r, x, v) : v \in ToSet(values), r \in ToSet(records)}
<1>1. q \in Nat /\ m \in Nat /\ DOMAIN records = 1..q /\ DOMAIN values = 1..m
  OBVIOUS
<1>2. E = [k \in 1..(q * m) |-> With(records[Outer(k, m)], x, values[Inner(k, m)])]
  BY DEF Extended
<1>3. \A k \in 1..(q * m) : Inner(k, m) \in DOMAIN values /\ Outer(k, m) \in DOMAIN records
  BY <1>1, CountersIn
<1>4. ASSUME NEW k \in 1..(q * m)
      PROVE  /\ values[Inner(k, m)] \in ToSet(values) /\ values[Inner(k, m)] \in W
             /\ records[Outer(k, m)] \in ToSet(records) /\ records[Outer(k, m)] \in R
  BY <1>1, <1>3 DEF ToSet
<1>5. E \in Seq({With(r, x, v) : v \in W, r \in R})
  <2>1. \A k \in 1..(q * m) :
          With(records[Outer(k, m)], x, values[Inner(k, m)]) \in {With(r, x, v) : v \in W, r \in R}
    <3> HIDE DEF q, m
    <3> QED
      BY <1>4
  <2>2. q * m \in Nat
    BY <1>1
  <2> HIDE DEF q, m, E
  <2> QED
    BY <1>2, <2>1, <2>2
<1>6. ASSUME NEW e \in ToSet(E)
      PROVE  e \in all
  <2>1. PICK k \in 1..(q * m) : e = With(records[Outer(k, m)], x, values[Inner(k, m)])
    <3> HIDE DEF q, m, E
    <3> QED
      BY <1>2, <1>6 DEF ToSet
  <2> HIDE DEF q, m, E
  <2>2. e \in {With(r, x, v) : v \in ToSet(values), r \in ToSet(records)}
    BY <1>4, <2>1
  <2> QED
    BY <2>2
<1>7. ASSUME NEW e \in all
      PROVE  e \in ToSet(E)
  <2>1. PICK v \in ToSet(values), r \in ToSet(records) : e = With(r, x, v)
    BY <1>7
  <2>2. PICK i \in 1..m, o \in 1..q : v = values[i] /\ r = records[o]
    BY <1>1 DEF ToSet
  <2>3. \E k \in 1..(q * m) : Outer(k, m) = o /\ Inner(k, m) = i
    <3>1. i \in 1..m /\ o \in 1..q /\ q \in Nat /\ m \in Nat
      BY <1>1, <2>2
    <3> HIDE DEF q, m
    <3>2. Reached(q, m, o, i)
      BY <3>1, CountersReach
    <3> QED
      BY <3>2 DEF Reached
  <2>4. \E k \in DOMAIN E : e = E[k]
    <3> HIDE DEF q, m, E
    <3> QED
      BY <1>2, <2>1, <2>2, <2>3
  <2> HIDE DEF E, all
  <2> QED
    BY <2>4 DEF ToSet
<1> QED
  BY <1>5, <1>6, <1>7

(* _records: every choice of values, and no other record.                  *)
LEMMA RecordsAreValuations ==
  ASSUME NEW specs, SpecsOK(specs)
  PROVE  /\ ToSet(Records(specs)) = Valuations(specs)
         /\ Records(specs) \in Seq(Valuations(specs))
<1> DEFINE last == Len(specs)
           S == 0..last
           names(n) == {specs[i].name : i \in 1..n}
           D(i) == DomainOf(specs[i])
           W == UNION {ToSet(D(i)) : i \in DOMAIN specs}
           R == UNION {[N -> W] : N \in SUBSET NamesOf(specs)}
           V == Seq(R)
           F == [S -> V]
           fun[n \in S] ==
             IF n = 0 THEN << <<>> >>
             ELSE Extended(fun[n - 1], specs[n].name, DomainOf(specs[n]))
           body(n, f) ==
             IF n = 0 THEN << <<>> >>
             ELSE Extended(f[n - 1], specs[n].name, DomainOf(specs[n]))
           G == [p \in S \X F |-> body(p[1], p[2])]
           rank == [n \in S |-> n]
           Partial(n) == {r \in [names(n) -> W] :
                            \A i \in 1..n : r[specs[i].name] \in ToSet(D(i))}
<1>1. /\ last \in Nat /\ DOMAIN specs = 1..last
      /\ \A i \in 1..last : D(i) \in Seq(ScalarValue)
  BY DomainOK DEF SpecsOK
<1>2. \A i \in 1..last : D(i) \in Seq(ToSet(D(i))) /\ ToSet(D(i)) \subseteq W
  <2> TAKE i \in 1..last
  <2>1. D(i) \in Seq(ToSet(D(i)))
    <3> DEFINE d == D(i)
    <3>1. d \in Seq(ScalarValue)
      BY <1>1
    <3> HIDE DEF d
    <3>2. d \in Seq(ToSet(d))
      BY <3>1 DEF ToSet
    <3> QED
      BY <3>2 DEF d
  <2> QED
    BY <1>1, <2>1
<1>3. /\ <<>> \in [{} -> W] /\ << <<>> >> \in V /\ ToSet(<< <<>> >>) = {<<>>}
      /\ [{} -> W] = {<<>>}
  <2>1. <<>> \in [{} -> W] /\ [{} -> W] = {<<>>}
    <3> HIDE DEF W
    <3>1. <<>> \in [{} -> W]
      OBVIOUS
    <3>2. ASSUME NEW f \in [{} -> W]
          PROVE  f = <<>>
      OBVIOUS
    <3> QED
      BY <3>1, <3>2
  <2>2. <<>> \in R
    BY <2>1
  <2> HIDE DEF R
  <2> QED
    BY <2>1, <2>2 DEF ToSet
<1>4. ASSUME NEW n \in S, n # 0, NEW f, f[n - 1] \in V
      PROVE  body(n, f) \in V
  <2> DEFINE x == specs[n].name
  <2>1. x \in NamesOf(specs) /\ n \in 1..last
    BY <1>1, <1>4 DEF NamesOf
  <2>2. \A v \in W, r \in R : With(r, x, v) \in R
    <3> TAKE v \in W, r \in R
    <3>1. PICK N \in SUBSET NamesOf(specs) : r \in [N -> W]
      OBVIOUS
    <3>2. With(r, x, v) \in [N \cup {x} -> W]
      <4> HIDE DEF x, W
      <4> QED
        BY <3>1 DEF With
    <3>3. N \cup {x} \in SUBSET NamesOf(specs)
      BY <2>1
    <3> QED
      BY <3>2, <3>3
  <2>3. Extended(f[n - 1], x, D(n)) \in Seq({With(r, x, v) : v \in W, r \in R})
    <3>1. D(n) \in Seq(W)
      BY <1>2, <2>1
    <3> HIDE DEF D, W, R, x
    <3> QED
      BY <1>4, <3>1, ExtendedIs
  <2>4. {With(r, x, v) : v \in W, r \in R} \subseteq R
    <3> HIDE DEF W, R, x
    <3> QED
      BY <2>2
  <2>5. Extended(f[n - 1], x, D(n)) \in V
    <3> HIDE DEF W, R, x, D
    <3> QED
      BY <2>3, <2>4
  <2> QED
    BY <1>4, <2>5
<1>5. ASSUME NEW n \in S, NEW f, \A y \in S : rank[y] < rank[n] => f[y] \in V
      PROVE  body(n, f) \in V
  <2>1. CASE n = 0
    <3>1. body(n, f) = << <<>> >>
      BY <2>1
    <3> HIDE DEF V
    <3> QED
      BY <1>3, <3>1
  <2>2. CASE n # 0
    <3>1. n - 1 \in S /\ rank[n - 1] < rank[n]
      <4> HIDE DEF last
      <4> QED
        BY <1>1, <2>2
    <3>2. f[n - 1] \in V
      <4> HIDE DEF S, rank, V
      <4> QED
        BY <1>5, <3>1
    <3> HIDE DEF body, V, S
    <3> QED
      BY <1>4, <2>2, <3>2
  <2> QED
    BY <2>1, <2>2
<1>6. rank \in [S -> Nat]
  OBVIOUS
<1>7. Equation(S, V, F, rank, G)
  <2>1. G \in [S \X F -> V]
    <3>1. \A n \in S, f \in F : \A y \in S : rank[y] < rank[n] => f[y] \in V
      <4> HIDE DEF V, S, rank
      <4> QED
        OBVIOUS
    <3>2. \A n \in S, f \in F : body(n, f) \in V
      <4> HIDE DEF V, S, F, body, rank
      <4> QED
        BY <1>5, <3>1
    <3> HIDE DEF V, S, F, body
    <3> QED
      BY <3>2
  <2>2. ASSUME NEW n \in S, NEW f \in F, NEW g \in F,
               \A y \in S : rank[y] < rank[n] => f[y] = g[y]
        PROVE  G[<<n, f>>] = G[<<n, g>>]
    <3>1. G[<<n, f>>] = body(n, f) /\ G[<<n, g>>] = body(n, g)
      <4> HIDE DEF body, S, F
      <4> QED
        OBVIOUS
    <3>2. CASE n = 0
      BY <3>1, <3>2
    <3>3. CASE n # 0
      <4>1. n - 1 \in S /\ rank[n - 1] < rank[n]
        <5> HIDE DEF last
        <5> QED
          BY <1>1, <3>3
      <4>2. f[n - 1] = g[n - 1]
        <5> HIDE DEF S, rank, F
        <5> QED
          BY <2>2, <4>1
      <4> HIDE DEF S, F, G
      <4> QED
        BY <3>1, <3>3, <4>2
    <3> QED
      BY <3>2, <3>3
  <2> HIDE DEF G, rank, V, S
  <2>3. \A n \in S : \A f, g \in F :
          (\A y \in S : rank[y] < rank[n] => f[y] = g[y]) => G[<<n, f>>] = G[<<n, g>>]
    BY <2>2
  <2> QED
    BY <1>6, <2>1, <2>3 DEF Equation
<1>8. \E f : f = [n \in S |-> body(n, f)]
  <2>1. PICK f \in F : \A n \in S : f[n] = G[<<n, f>>]
    <3> HIDE DEF G, rank, F, V, S
    <3> QED
      BY <1>3, <1>7, Recursion
  <2>2. f = [n \in S |-> body(n, f)]
    <3> HIDE DEF body, V, S
    <3> QED
      BY <2>1
  <2> QED
    <3> HIDE DEF body, S
    <3> QED
      BY <2>2
<1>9. fun = [n \in S |-> body(n, fun)]
  <2> HIDE DEF S
  <2> QED
    BY <1>8
<1>10. Records(specs) = fun[last]
  BY DEF Records
<1> HIDE DEF fun
<1>11. ASSUME NEW n \in 1..last
       PROVE  /\ names(n) = names(n - 1) \cup {specs[n].name}
              /\ specs[n].name \notin names(n - 1)
              /\ \A i \in 1..(n - 1) : specs[i].name # specs[n].name
  <2>1. n \in DOMAIN specs /\ 1..n = (1..(n - 1)) \cup {n} /\ n \notin 1..(n - 1)
    <3> HIDE DEF last
    <3> QED
      BY <1>1
  <2>2. \A j \in DOMAIN specs : specs[j].name = specs[n].name => j = n
    BY <2>1, UniqueSpec DEF SpecsOK
  <2>3. 1..(n - 1) \subseteq DOMAIN specs
    <3> HIDE DEF last
    <3> QED
      BY <1>1
  <2>4. \A i \in 1..(n - 1) : specs[i].name # specs[n].name
    BY <2>1, <2>2, <2>3
  <2> QED
    BY <2>1, <2>4
<1>12. ASSUME NEW n \in 1..last
       PROVE  {With(r, specs[n].name, v) : v \in ToSet(D(n)), r \in Partial(n - 1)} = Partial(n)
  <2> DEFINE x == specs[n].name
             N == names(n - 1)
  <2>1. /\ names(n) = N \cup {x} /\ x \notin N
        /\ \A i \in 1..(n - 1) : specs[i].name \in N /\ specs[i].name # x
    BY <1>11
  <2>2. ToSet(D(n)) \subseteq W /\ 1..n = (1..(n - 1)) \cup {n} /\ n \notin 1..(n - 1)
    <3> HIDE DEF last, D, W
    <3> QED
      BY <1>1, <1>2
  <2>3. ASSUME NEW v \in ToSet(D(n)), NEW r \in Partial(n - 1)
        PROVE  With(r, x, v) \in Partial(n)
    <3>1. r \in [N -> W] /\ \A i \in 1..(n - 1) : r[specs[i].name] \in ToSet(D(i))
      BY <2>3
    <3>2. With(r, x, v) = [y \in N \cup {x} |-> IF y = x THEN v ELSE r[y]]
      BY <3>1 DEF With
    <3> HIDE DEF W, D, N
    <3>3. With(r, x, v) \in [N \cup {x} -> W]
      <4> HIDE DEF x
      <4> QED
        BY <2>2, <3>1, <3>2
    <3>4. ASSUME NEW i \in 1..n
          PROVE  With(r, x, v)[specs[i].name] \in ToSet(D(i))
      BY <2>1, <2>2, <3>1, <3>2
    <3> HIDE DEF x, last, names
    <3> QED
      BY <2>1, <3>3, <3>4
  <2>4. ASSUME NEW f \in Partial(n)
        PROVE  \E v \in ToSet(D(n)), r \in Partial(n - 1) : f = With(r, x, v)
    <3> DEFINE r == [y \in N |-> f[y]]
    <3>1. f \in [N \cup {x} -> W] /\ \A i \in 1..n : f[specs[i].name] \in ToSet(D(i))
      <4> HIDE DEF W, D, N, x
      <4> QED
        BY <2>1, <2>4
    <3>2. f[x] \in ToSet(D(n))
      <4> HIDE DEF W, D, N
      <4> QED
        BY <2>2, <3>1
    <3>3. r \in Partial(n - 1)
      <4>1. r \in [N -> W]
        <5> HIDE DEF W, N, x
        <5> QED
          BY <3>1
      <4>2. \A i \in 1..(n - 1) : r[specs[i].name] \in ToSet(D(i))
        <5> HIDE DEF W, D, N, x
        <5> QED
          BY <2>1, <2>2, <3>1
      <4> HIDE DEF r, D, W
      <4> QED
        BY <4>1, <4>2
    <3>4. f = With(r, x, f[x])
      <4>1. DOMAIN r = N
        OBVIOUS
      <4>2. With(r, x, f[x]) = [y \in N \cup {x} |-> IF y = x THEN f[x] ELSE r[y]]
        BY <4>1 DEF With
      <4>3. f = [y \in N \cup {x} |-> f[y]]
        <5> HIDE DEF W, N, x
        <5> QED
          BY <3>1
      <4>4. \A y \in N \cup {x} : (IF y = x THEN f[x] ELSE r[y]) = f[y]
        <5> HIDE DEF N, x
        <5> QED
          OBVIOUS
      <4> HIDE DEF N, x, r
      <4> QED
        BY <4>2, <4>3, <4>4
    <3> HIDE DEF r, x, Partial, D
    <3> QED
      BY <3>2, <3>3, <3>4
  <2> DEFINE all == {With(r, x, v) : v \in ToSet(D(n)), r \in Partial(n - 1)}
  <2>5. \A f \in all : f \in Partial(n)
    <3> HIDE DEF x, Partial, D
    <3> QED
      BY <2>3
  <2>6. \A f \in Partial(n) : f \in all
    <3> HIDE DEF x, Partial, D
    <3> QED
      BY <2>4
  <2> HIDE DEF Partial, D
  <2> QED
    BY <2>5, <2>6
<1>13. Partial(0) = {<<>>}
  <2>1. names(0) = {} /\ \A i \in 1..0 : FALSE
    OBVIOUS
  <2>2. Partial(0) = [{} -> W]
    <3> HIDE DEF W, D
    <3> QED
      BY <2>1
  <2> QED
    BY <1>3, <2>2
<1> DEFINE P == {n \in S : fun[n] \in Seq(Partial(n)) /\ ToSet(fun[n]) = Partial(n)}
<1>14. ASSUME NEW n \in S, \A y \in S : rank[y] < rank[n] => y \in P
       PROVE  n \in P
  <2>1. fun[n] = body(n, fun)
    <3> HIDE DEF body, S
    <3> QED
      BY <1>9
  <2>2. CASE n = 0
    <3>1. fun[n] = << <<>> >> /\ ToSet(fun[n]) = {<<>>}
      BY <1>3, <2>1, <2>2
    <3>2. << <<>> >> \in Seq({<<>>})
      OBVIOUS
    <3>3. n \in S /\ fun[n] \in Seq(Partial(n)) /\ ToSet(fun[n]) = Partial(n)
      <4> HIDE DEF Partial, S
      <4> QED
        BY <1>13, <2>2, <3>1, <3>2
    <3> HIDE DEF Partial, S
    <3> QED
      BY <3>3
  <2>3. CASE n # 0
    <3>1. n - 1 \in S /\ rank[n - 1] < rank[n] /\ n \in 1..last
      <4> HIDE DEF last
      <4> QED
        BY <1>1, <2>3
    <3>2. fun[n - 1] \in Seq(Partial(n - 1)) /\ ToSet(fun[n - 1]) = Partial(n - 1)
      <4>1. n - 1 \in P
        <5> HIDE DEF P, S, rank
        <5> QED
          BY <1>14, <3>1
      <4> HIDE DEF Partial, S, rank
      <4> QED
        BY <4>1
    <3>3. D(n) \in Seq(ToSet(D(n)))
      BY <1>2, <3>1
    <3> DEFINE x == specs[n].name
               now == Extended(fun[n - 1], x, D(n))
    <3>4. fun[n] = now
      BY <2>1, <2>3
    <3>5. /\ now \in Seq({With(r, x, v) : v \in ToSet(D(n)), r \in Partial(n - 1)})
          /\ ToSet(now) = {With(r, x, v) : v \in ToSet(D(n)), r \in ToSet(fun[n - 1])}
      <4> DEFINE before == fun[n - 1]
                 d == D(n)
                 PN == Partial(n - 1)
                 PD == ToSet(D(n))
      <4>1. before \in Seq(PN) /\ d \in Seq(PD)
        <5> HIDE DEF Partial, D
        <5> QED
          BY <3>2, <3>3
      <4> HIDE DEF PN, PD, before, d, x
      <4>2. /\ Extended(before, x, d) \in Seq({With(r, x, v) : v \in PD, r \in PN})
            /\ ToSet(Extended(before, x, d)) = {With(r, x, v) : v \in ToSet(d), r \in ToSet(before)}
        BY <4>1, ExtendedIs
      <4> HIDE DEF Partial, D
      <4> QED
        BY <4>2 DEF PN, PD, before, d
    <3>6. {With(r, x, v) : v \in ToSet(D(n)), r \in Partial(n - 1)} = Partial(n)
      <4> HIDE DEF Partial, D, last
      <4> QED
        BY <1>12, <3>1
    <3>7. fun[n] \in Seq(Partial(n)) /\ ToSet(fun[n]) = Partial(n)
      <4> HIDE DEF Partial, D, x, now, S
      <4> QED
        BY <3>2, <3>4, <3>5, <3>6
    <3> HIDE DEF Partial, S
    <3> QED
      BY <3>7
  <2> QED
    BY <2>2, <2>3
<1>15. P = S
  <2>1. P \in SUBSET S
    OBVIOUS
  <2> HIDE DEF P, rank, S
  <2>2. \A n \in S : (\A y \in S : rank[y] < rank[n] => y \in P) => n \in P
    BY <1>14
  <2> QED
    BY <1>6, <2>1, <2>2, Induction
<1>16. last \in P
  <2>1. last \in S
    <3> HIDE DEF last
    <3> QED
      BY <1>1
  <2> HIDE DEF P, S, last
  <2> QED
    BY <1>15, <2>1
<1>17. Partial(last) = Valuations(specs)
  <2>1. names(last) = NamesOf(specs)
    BY <1>1 DEF NamesOf
  <2>2. Valuations(specs) =
          {r \in [NamesOf(specs) -> W] : \A i \in DOMAIN specs : r[specs[i].name] \in ToSet(D(i))}
    BY DEF Valuations
  <2> HIDE DEF W, D, last, names
  <2> QED
    BY <1>1, <2>1, <2>2
<1>18. fun[last] \in Seq(Partial(last)) /\ ToSet(fun[last]) = Partial(last)
  <2> HIDE DEF Partial, S, last
  <2> QED
    BY <1>16
<1> QED
  BY <1>10, <1>17, <1>18

-----------------------------------------------------------------------------
(***************************************************************************)
(* One case.                                                               *)
(***************************************************************************)

(* Values for all the declared variables, of the declared types.           *)
TypedAs(values, specs) ==
  \A x \in NamesOf(specs) :
    x \in DOMAIN values /\ MatchesType(values[x], SpecOf(specs, x).type)

(* What validation establishes of a contract.                              *)
LEMMA ValidMeans ==
  ASSUME NEW c, ContractOK(c), Validation(c) = "ok"
  PROVE  SpecsOK(c.states) /\ SpecsOK(c.inputs) /\ TargetsOK(c) /\ ExpressionsOK(c)
<1>1. NamesOK(c) /\ TargetsOK(c) /\ ExpressionsOK(c)
  BY DEF Validation
<1>2. ASSUME NEW list \in {c.states, c.inputs}
      PROVE  /\ list \in Seq(ToSet(list))
             /\ \A i \in DOMAIN list : SpecOK(list[i])
  BY DEF ContractOK, ToSet
<1> QED
  BY <1>1, <1>2 DEF NamesOK, SpecsOK

(* Results of the declared types make a typed environment.                 *)
LEMMA EnvIs ==
  ASSUME NEW c, NEW st, NEW original, NEW inputs,
         WorldOK(st), WorldOK(original), WorldOK(inputs)
  PROVE  /\ EnvOK(Env(st, original, inputs))
         /\ /\ TypedAs(st, c.states) /\ TypedAs(original, c.states)
            /\ TypedAs(inputs, c.inputs)
            => EnvTyped(Env(st, original, inputs), c)
<1> DEFINE env == Env(st, original, inputs)
<1>1. env["state"] = st /\ env["original"] = original /\ env["input"] = inputs
  BY DEF Env
<1>2. /\ SpecsFor(c, "state") = c.states /\ SpecsFor(c, "original") = c.states
      /\ SpecsFor(c, "input") = c.inputs
  BY DEF SpecsFor
<1> HIDE DEF env
<1>3. EnvOK(env)
  BY <1>1 DEF EnvOK, RefSource, WorldOK
<1>4. /\ TypedAs(st, c.states) /\ TypedAs(original, c.states) /\ TypedAs(inputs, c.inputs)
      => EnvTyped(env, c)
  BY <1>1, <1>2 DEF EnvTyped, RefSource, TypedAs
<1> QED
  BY <1>3, <1>4 DEF env

(* Arguments are results, and nothing that was raised.                     *)
LEMMA ArgumentsAre ==
  ASSUME NEW values, ArgumentsOK(values)
  PROVE  WorldOK(values) /\ Defined(values)
<1>1. \A s \in ScalarValue : s \in Result /\ s.t \notin Raised
  BY ResultFacts DEF ScalarValue, Raised
<1> QED
  BY <1>1 DEF ArgumentsOK, WorldOK, Defined

(* A transition assigns results, and names no other variable.              *)
LEMMA TransitionOK ==
  ASSUME NEW c, ContractOK(c), NEW tr \in {c.forward, c.compensation},
         NEW env, EnvOK(env)
  PROVE  /\ DOMAIN Transition(tr, env) = DOMAIN env.state
         /\ WorldOK(Transition(tr, env))
<1>1. \A x \in DOMAIN env.state : env.state[x] \in Result
  BY DEF EnvOK, RefSource
<1>2. \A i \in DOMAIN tr : Value(tr[i][2], env) \in Result
  <2> TAKE i \in DOMAIN tr
  <2>1. tr[i] \in Assignments(c)
    BY DEF Assignments, ToSet
  <2>2. tr[i][2] \in Expression
    BY <2>1 DEF ContractOK
  <2> QED
    BY <2>2, ValueIs
<1>3. ASSUME NEW x \in DOMAIN env.state
      PROVE  Transition(tr, env)[x] \in Result
  <2>1. CASE \E i \in DOMAIN tr : tr[i][1] = x
    <3> DEFINE j == CHOOSE i \in DOMAIN tr : tr[i][1] = x
    <3>1. j \in DOMAIN tr
      BY <2>1
    <3>2. Transition(tr, env)[x] = Value(tr[j][2], env)
      BY <2>1 DEF Transition
    <3> HIDE DEF j
    <3> QED
      BY <1>2, <3>1, <3>2
  <2>2. CASE ~\E i \in DOMAIN tr : tr[i][1] = x
    BY <1>1, <2>2 DEF Transition
  <2> QED
    BY <2>1, <2>2
<1>4. DOMAIN Transition(tr, env) = DOMAIN env.state
  BY DEF Transition
<1> QED
  BY <1>3, <1>4 DEF WorldOK

(* _transition evaluates its expressions one after the other.              *)
LEMMA EvaluatedIs ==
  ASSUME NEW c, ContractOK(c), NEW tr \in {c.forward, c.compensation}, NEW env
  PROVE  \/ /\ Evaluated(tr, env) = "ok"
            /\ \A i \in DOMAIN tr : Value(tr[i][2], env).t \notin Raised
         \/ /\ Evaluated(tr, env) # "ok"
            /\ \E i \in DOMAIN tr : /\ Evaluated(tr, env) = Value(tr[i][2], env).t
                                    /\ Value(tr[i][2], env).t \in Raised
<1> DEFINE answers == [i \in DOMAIN tr |-> Notice(Value(tr[i][2], env).t)]
<1>1. Evaluated(tr, env) = FirstOther(answers, "ok")
  BY DEF Evaluated
<1>2. DOMAIN answers \subseteq Nat
  <2>1. tr \in Seq(ToSet(tr))
    BY DEF ContractOK
  <2>2. DOMAIN tr \subseteq Nat
    BY <2>1
  <2> QED
    BY <2>2
<1>3. DOMAIN answers = DOMAIN tr
  OBVIOUS
<1>4. \A i \in DOMAIN tr : answers[i] = Notice(Value(tr[i][2], env).t)
  OBVIOUS
<1> HIDE DEF answers
<1>5. \/ /\ Evaluated(tr, env) = "ok"
         /\ \A i \in DOMAIN tr : answers[i] = "ok"
      \/ \E i \in DOMAIN tr :
           answers[i] # "ok" /\ Evaluated(tr, env) = answers[i]
  BY <1>1, <1>2, <1>3, FirstOtherIs
<1>6. \A t : (Notice(t) = "ok" <=> t \notin Raised) /\ (Notice(t) # "ok" => Notice(t) = t)
  BY DEF Notice, Raised
<1> QED
  BY <1>4, <1>5, <1>6

(* The type of a target and of what is assigned to it.                     *)
LEMMA AssignmentIs ==
  ASSUME NEW c, ContractOK(c), Validation(c) = "ok", NEW tr \in {c.forward, c.compensation},
         NEW env, EnvOK(env), EnvTyped(env, c), NEW i \in DOMAIN tr
  PROVE  /\ tr[i][2] \in Written(c)
         /\ Value(tr[i][2], env).t \notin Raised =>
              MatchesType(Value(tr[i][2], env), SpecOf(c.states, tr[i][1]).type)
         /\ Value(tr[i][2], env).t \in Raised =>
              Value(tr[i][2], env).t = "overflow" /\ TypeOf(tr[i][2], c) = "real"
<1> DEFINE e == tr[i][2]
           t == SpecOf(c.states, tr[i][1]).type
<1>1. TargetsOK(c) /\ ExpressionsOK(c) /\ SpecsOK(c.states)
  BY ValidMeans
<1>2. tr[i] \in Assignments(c)
  BY DEF Assignments, ToSet
<1>3. e \in Expression /\ RefsKnown(e, c) /\ Assignable(TypeOf(e, c), t)
  BY <1>1, <1>2 DEF ContractOK, ExpressionsOK
<1>4. t \in Types
  <2>1. tr[i][1] \in NamesOf(c.states)
    BY <1>1 DEF TargetsOK
  <2>2. c.states = SpecsFor(c, "state")
    BY DEF SpecsFor
  <2> QED
    BY <2>1, <2>2, SpecTypes
<1>5. e \in Written(c)
  BY <1>2 DEF Written
<1> HIDE DEF e, t
<1>6. TypeOf(e, c) # "failure"
  BY <1>3, <1>4 DEF Assignable, Types
<1>7. TypeOf(e, c) \in Types /\ Typed(Value(e, env), TypeOf(e, c))
  BY <1>3, <1>6, Sound
<1>8. Value(e, env).t \notin Raised => MatchesType(Value(e, env), t)
  <2>1. Overflow.t \in Raised
    BY ResultFacts DEF Raised
  <2> QED
    BY <1>3, <1>7, <2>1 DEF Typed, MatchesType, Assignable
<1>9. Value(e, env).t \in Raised => Value(e, env).t = "overflow" /\ TypeOf(e, c) = "real"
  BY <1>7, MatchedIs, ResultFacts DEF Typed
<1> QED
  BY <1>5, <1>8, <1>9 DEF e, t

(* OverflowError, where it may be raised.                                  *)
Overflows(c) == {raised \in {"overflow"} : \E e \in Written(c) : TypeOf(e, c) = "real"}

(* A validated transition overflows or nothing.                            *)
LEMMA EvaluatedSound ==
  ASSUME NEW c, ContractOK(c), Validation(c) = "ok", NEW tr \in {c.forward, c.compensation},
         NEW env, EnvOK(env), EnvTyped(env, c)
  PROVE  Evaluated(tr, env) \in {"ok"} \cup Overflows(c)
<1>1. \A i \in DOMAIN tr : Value(tr[i][2], env).t \in Raised =>
        Value(tr[i][2], env).t \in Overflows(c)
  <2> TAKE i \in DOMAIN tr
  <2> HAVE Value(tr[i][2], env).t \in Raised
  <2>1. /\ tr[i][2] \in Written(c) /\ TypeOf(tr[i][2], c) = "real"
        /\ Value(tr[i][2], env).t = "overflow"
    BY AssignmentIs
  <2> QED
    BY <2>1 DEF Overflows
<1>2. \/ Evaluated(tr, env) = "ok"
      \/ \E i \in DOMAIN tr : /\ Evaluated(tr, env) = Value(tr[i][2], env).t
                              /\ Value(tr[i][2], env).t \in Raised
  BY EvaluatedIs
<1> QED
  BY <1>1, <1>2

(* _ensure_state_types never objects after a validated transition that     *)
(* could be evaluated.                                                     *)
LEMMA TransitionTyped ==
  ASSUME NEW c, ContractOK(c), Validation(c) = "ok", NEW tr \in {c.forward, c.compensation},
         NEW env, EnvOK(env), EnvTyped(env, c), Evaluated(tr, env) = "ok"
  PROVE  TypedAs(Transition(tr, env), c.states)
<1>1. ASSUME NEW x \in NamesOf(c.states)
      PROVE  x \in DOMAIN env.state /\ MatchesType(env.state[x], SpecOf(c.states, x).type)
  BY DEF EnvTyped, RefSource, SpecsFor
<1>2. \A i \in DOMAIN tr :
        MatchesType(Value(tr[i][2], env), SpecOf(c.states, tr[i][1]).type)
  <2> TAKE i \in DOMAIN tr
  <2>1. Value(tr[i][2], env).t \notin Raised
    BY EvaluatedIs
  <2> QED
    BY <2>1, AssignmentIs
<1>3. ASSUME NEW x \in NamesOf(c.states)
      PROVE  MatchesType(Transition(tr, env)[x], SpecOf(c.states, x).type)
  <2>1. CASE \E i \in DOMAIN tr : tr[i][1] = x
    <3> DEFINE j == CHOOSE i \in DOMAIN tr : tr[i][1] = x
    <3>1. j \in DOMAIN tr /\ tr[j][1] = x
      BY <2>1
    <3>2. Transition(tr, env)[x] = Value(tr[j][2], env)
      BY <1>1, <2>1 DEF Transition
    <3> HIDE DEF j
    <3> QED
      BY <1>2, <3>1, <3>2
  <2>2. CASE ~\E i \in DOMAIN tr : tr[i][1] = x
    BY <1>1, <2>2 DEF Transition
  <2> QED
    BY <2>1, <2>2
<1>4. DOMAIN Transition(tr, env) = DOMAIN env.state
  BY DEF Transition
<1> QED
  BY <1>1, <1>3, <1>4 DEF TypedAs

(* A transition could be evaluated if every variable has a value.          *)
LEMMA DefinedIs ==
  ASSUME NEW c, ContractOK(c), Validation(c) = "ok", NEW tr \in {c.forward, c.compensation},
         NEW env, NamesOf(c.states) \subseteq DOMAIN env.state, Defined(env.state)
  PROVE  Evaluated(tr, env) = "ok" <=> Defined(Transition(tr, env))
<1>1. TargetsOK(c)
  BY ValidMeans
<1>2. ASSUME NEW i \in DOMAIN tr
      PROVE  /\ tr[i][1] \in DOMAIN env.state
             /\ Transition(tr, env)[tr[i][1]] = Value(tr[i][2], env)
  <2> DEFINE x == tr[i][1]
             j == CHOOSE k \in DOMAIN tr : tr[k][1] = x
  <2>1. x \in DOMAIN env.state
    BY <1>1 DEF TargetsOK
  <2>2. j \in DOMAIN tr /\ tr[j][1] = x
    OBVIOUS
  <2>3. Transition(tr, env)[x] = Value(tr[j][2], env)
    BY <2>1 DEF Transition
  <2> HIDE DEF j
  <2>4. j = i
    BY <1>1, <2>2 DEF TargetsOK
  <2> QED
    BY <2>1, <2>3, <2>4
<1>3. ASSUME NEW x \in DOMAIN env.state, ~\E i \in DOMAIN tr : tr[i][1] = x
      PROVE  Transition(tr, env)[x] = env.state[x]
  BY <1>3 DEF Transition
<1>4. DOMAIN Transition(tr, env) = DOMAIN env.state
  BY DEF Transition
<1>5. ASSUME Evaluated(tr, env) = "ok", NEW x \in DOMAIN env.state
      PROVE  Transition(tr, env)[x].t \notin Raised
  <2>1. CASE \E i \in DOMAIN tr : tr[i][1] = x
    BY <1>2, <1>5, <2>1, EvaluatedIs
  <2>2. CASE ~\E i \in DOMAIN tr : tr[i][1] = x
    BY <1>3, <2>2 DEF Defined
  <2> QED
    BY <2>1, <2>2
<1>6. ASSUME Defined(Transition(tr, env)), NEW i \in DOMAIN tr
      PROVE  Value(tr[i][2], env).t \notin Raised
  BY <1>2, <1>4, <1>6 DEF Defined
<1>7. Evaluated(tr, env) = "ok" => Defined(Transition(tr, env))
  BY <1>4, <1>5 DEF Defined
<1>8. Defined(Transition(tr, env)) => Evaluated(tr, env) = "ok"
  BY <1>6, EvaluatedIs
<1> QED
  BY <1>7, <1>8

(* _domain and DomainStatus: the values to choose from have their type.    *)
LEMMA ValuationTyped ==
  ASSUME NEW specs, SpecsOK(specs), NEW max,
         \A i \in DOMAIN specs : DomainStatus(specs[i], max) = "ok",
         NEW r \in Valuations(specs)
  PROVE  TypedAs(r, specs) /\ ArgumentsOK(r) /\ DOMAIN r = NamesOf(specs)
<1>1. /\ DOMAIN r = NamesOf(specs)
      /\ \A i \in DOMAIN specs : r[specs[i].name] \in ToSet(DomainOf(specs[i]))
  BY DEF Valuations
<1>2. ASSUME NEW i \in DOMAIN specs
      PROVE  /\ r[specs[i].name] \in ScalarValue
             /\ MatchesType(r[specs[i].name], specs[i].type)
             /\ SpecOf(specs, specs[i].name) = specs[i]
  <2> DEFINE values == DomainOf(specs[i])
  <2>1. values \in Seq(ScalarValue)
    BY DomainOK DEF SpecsOK
  <2>2. \A j \in DOMAIN values : MatchesType(values[j], specs[i].type)
    <3>1. DomainStatus(specs[i], max) = "ok"
      OBVIOUS
    <3> QED
      BY <3>1 DEF DomainStatus
  <2>3. r[specs[i].name] \in ToSet(values)
    BY <1>1
  <2>4. SpecOf(specs, specs[i].name) = specs[i]
    BY UniqueSpec DEF SpecsOK
  <2> HIDE DEF values
  <2> QED
    BY <2>1, <2>2, <2>3, <2>4 DEF ToSet
<1>3. \A x \in NamesOf(specs) : r[x] \in ScalarValue /\ MatchesType(r[x], SpecOf(specs, x).type)
  BY <1>2 DEF NamesOf
<1> QED
  BY <1>1, <1>3 DEF TypedAs, ArgumentsOK

(* The conditions of a validated contract.                                 *)
LEMMA ConditionsAre ==
  ASSUME NEW c, ContractOK(c), Validation(c) = "ok", NEW x \in Conditions(c)
  PROVE  x \in Condition /\ TypedIn(x, c) /\ Raises(x, c) \subseteq Overflows(c)
<1>1. x \in Condition
  BY DEF ContractOK
<1>2. TypedIn(x, c)
  BY ValidMeans DEF ExpressionsOK, TypedIn, KnownIn
<1>3. ASSUME NEW p \in Comparisons(x)
      PROVE  p.left \in Written(c) /\ p.right \in Written(c)
  BY DEF Written
<1>4. Raises(x, c) \subseteq Overflows(c)
  BY <1>3 DEF Raises, RealIn, Overflows
<1> QED
  BY <1>1, <1>2, <1>4

(* _ensure_state_types accepts values of the declared types.               *)
LEMMA TypedIs ==
  ASSUME NEW c, ContractOK(c), Validation(c) = "ok", NEW values, TypedAs(values, c.states)
  PROVE  WellTyped(c, values) = "ok"
<1>1. ASSUME NEW i \in DOMAIN c.states
      PROVE  MatchesType(values[c.states[i].name], c.states[i].type)
  <2>1. SpecOf(c.states, c.states[i].name) = c.states[i]
    BY ValidMeans, UniqueSpec DEF SpecsOK
  <2>2. c.states[i].name \in NamesOf(c.states)
    BY DEF NamesOf
  <2> QED
    BY <2>1, <2>2 DEF TypedAs
<1> QED
  BY <1>1 DEF WellTyped

(* What one case shows: a validated contract restores it, or does not, or  *)
(* overflows.                                                              *)
LEMMA CaseShows ==
  ASSUME NEW c, ContractOK(c), Validation(c) = "ok",
         NEW st, NEW inputs, ArgumentsOK(st), ArgumentsOK(inputs),
         TypedAs(st, c.states), TypedAs(inputs, c.inputs)
  PROVE  /\ CaseOutcome(c, <<st, inputs>>) = "ok" <=> Reversible(c, <<st, inputs>>)
         /\ CaseOutcome(c, <<st, inputs>>)
              \in {"ok", "postcondition", "restoration"} \cup Overflows(c)
         /\ Admission(c, <<st, inputs>>) \in {"true", "false"} \cup Overflows(c)
<1> DEFINE case == <<st, inputs>>
           env == Env(st, st, inputs)
           after == Forward(c, st, inputs)
           menv == Env(after, st, inputs)
           restored == Compensated(c, after, st, inputs)
           renv == Env(restored, st, inputs)
           answers == <<Evaluated(c.forward, env),
                        WellTyped(c, after),
                        Met("postcondition", c.post, menv),
                        Evaluated(c.compensation, menv),
                        WellTyped(c, restored),
                        Met("restoration", c.restoration, renv)>>
<1>1. /\ CaseOutcome(c, case) = FirstProblem(answers)
      /\ Admission(c, case) = Truth(c.pre, env)
      /\ after = Transition(c.forward, env)
      /\ restored = Transition(c.compensation, menv)
  BY DEF CaseOutcome, Admission, Forward, Compensated
<1>2. Reversible(c, case) <=>
        /\ Defined(after) /\ Holds(c.post, menv)
        /\ Defined(restored) /\ Holds(c.restoration, renv)
  <2>1. case[1] = st /\ case[2] = inputs
    OBVIOUS
  <2> HIDE DEF case
  <2>2. Reversible(c, case) <=> Restorable(c, case, after)
    BY <1>1, <2>1 DEF Reversible
  <2>3. Restorable(c, case, after) <=>
          Defined(after) /\ Holds(c.post, menv) /\ Restored(c, case, restored)
    BY <1>1, <2>1 DEF Restorable
  <2>4. Restored(c, case, restored) <=> Defined(restored) /\ Holds(c.restoration, renv)
    BY <2>1 DEF Restored
  <2> QED
    BY <2>2, <2>3, <2>4
<1>3. /\ env.state = st /\ menv.state = after
      /\ {c.pre, c.post, c.restoration} = Conditions(c)
  BY DEF Env, Conditions
<1>4. /\ DOMAIN answers = 1..6
      /\ answers[1] = Evaluated(c.forward, env)
      /\ answers[2] = WellTyped(c, after)
      /\ answers[3] = Met("postcondition", c.post, menv)
      /\ answers[4] = Evaluated(c.compensation, menv)
      /\ answers[5] = WellTyped(c, restored)
      /\ answers[6] = Met("restoration", c.restoration, renv)
  OBVIOUS
<1>5. /\ WorldOK(st) /\ Defined(st) /\ WorldOK(inputs)
      /\ NamesOf(c.states) \subseteq DOMAIN st
  BY ArgumentsAre DEF TypedAs
<1>6. EnvOK(env) /\ EnvTyped(env, c)
  BY <1>5, EnvIs
<1> HIDE DEF case, answers, env
<1>7. /\ WorldOK(after) /\ DOMAIN after = DOMAIN st
      /\ answers[1] \in {"ok"} \cup Overflows(c)
      /\ answers[1] = "ok" <=> Defined(after)
      /\ answers[1] = "ok" => TypedAs(after, c.states)
  <2> HIDE DEF after
  <2> QED
    BY <1>1, <1>3, <1>4, <1>5, <1>6, TransitionOK, TransitionTyped, EvaluatedSound, DefinedIs
<1> HIDE DEF after
<1>8. EnvOK(menv) /\ (answers[1] = "ok" => EnvTyped(menv, c))
  BY <1>5, <1>7, EnvIs
<1> HIDE DEF menv
<1>9. ASSUME answers[1] = "ok"
      PROVE  /\ answers[2] = "ok"
             /\ answers[3] \in {"ok", "postcondition"} \cup Overflows(c)
             /\ answers[3] = "ok" <=> Holds(c.post, menv)
             /\ answers[4] \in {"ok"} \cup Overflows(c)
             /\ answers[4] = "ok" <=> Defined(restored)
             /\ answers[4] = "ok" => TypedAs(restored, c.states)
  <2>1. answers[2] = "ok"
    BY <1>4, <1>7, <1>9, TypedIs
  <2>2. /\ answers[3] \in {"ok", "postcondition"} \cup Raises(c.post, c)
        /\ answers[3] = "ok" <=> Holds(c.post, menv)
        /\ Raises(c.post, c) \subseteq Overflows(c)
    <3>1. c.post \in Conditions(c)
      BY <1>3
    <3>2. c.post \in Condition /\ TypedIn(c.post, c) /\ Raises(c.post, c) \subseteq Overflows(c)
      BY <3>1, ConditionsAre
    <3> QED
      BY <1>4, <1>8, <1>9, <3>2, MetIs
  <2>3. answers[4] \in {"ok"} \cup Overflows(c)
    BY <1>4, <1>8, <1>9, EvaluatedSound
  <2>4. answers[4] = "ok" <=> Defined(restored)
    <3>1. NamesOf(c.states) \subseteq DOMAIN menv.state /\ Defined(menv.state)
      BY <1>3, <1>5, <1>7, <1>9
    <3> QED
      BY <1>1, <1>4, <3>1, DefinedIs
  <2>5. answers[4] = "ok" => TypedAs(restored, c.states)
    BY <1>1, <1>4, <1>8, <1>9, TransitionTyped
  <2> QED
    BY <2>1, <2>2, <2>3, <2>4, <2>5
<1>10. WorldOK(restored)
  BY <1>1, <1>8, TransitionOK
<1> HIDE DEF restored
<1>11. ASSUME answers[1] = "ok", answers[4] = "ok"
       PROVE  /\ answers[5] = "ok"
              /\ answers[6] \in {"ok", "restoration"} \cup Overflows(c)
              /\ answers[6] = "ok" <=> Holds(c.restoration, renv)
  <2>1. TypedAs(restored, c.states)
    BY <1>9, <1>11
  <2>2. EnvOK(renv) /\ EnvTyped(renv, c)
    BY <1>5, <1>10, <2>1, EnvIs
  <2> HIDE DEF renv
  <2>3. answers[5] = "ok"
    BY <1>4, <2>1, TypedIs
  <2>4. /\ c.restoration \in Condition /\ TypedIn(c.restoration, c)
        /\ Raises(c.restoration, c) \subseteq Overflows(c)
    BY <1>3, ConditionsAre
  <2>5. /\ answers[6] \in {"ok", "restoration"} \cup Raises(c.restoration, c)
        /\ answers[6] = "ok" <=> Holds(c.restoration, renv)
    BY <1>4, <2>2, <2>4, MetIs
  <2> QED
    BY <2>3, <2>4, <2>5
<1> HIDE DEF renv
<1>12. \/ /\ FirstProblem(answers) = "ok"
          /\ \A i \in 1..6 : answers[i] = "ok"
       \/ \E i \in 1..6 :
            /\ answers[i] # "ok" /\ FirstProblem(answers) = answers[i]
            /\ \A j \in 1..6 : j < i => answers[j] = "ok"
  <2>1. DOMAIN answers \subseteq Nat
    BY <1>4
  <2>2. \/ /\ FirstOther(answers, "ok") = "ok"
           /\ \A i \in DOMAIN answers : answers[i] = "ok"
        \/ \E i \in DOMAIN answers :
             /\ answers[i] # "ok" /\ FirstOther(answers, "ok") = answers[i]
             /\ \A j \in DOMAIN answers : j < i => answers[j] = "ok"
    BY <2>1, FirstOtherIs
  <2> QED
    BY <1>4, <2>2 DEF FirstProblem
<1>13. FirstProblem(answers) = "ok" <=> \A i \in 1..6 : answers[i] = "ok"
  BY <1>12
<1>14. (\A i \in 1..6 : answers[i] = "ok") <=> Reversible(c, case)
  <2>1. (\A i \in 1..6 : answers[i] = "ok")
        <=> /\ answers[1] = "ok" /\ answers[2] = "ok" /\ answers[3] = "ok"
            /\ answers[4] = "ok" /\ answers[5] = "ok" /\ answers[6] = "ok"
    OBVIOUS
  <2> QED
    BY <1>2, <1>7, <1>9, <1>11, <2>1
<1>15. FirstProblem(answers) \in {"ok", "postcondition", "restoration"} \cup Overflows(c)
  <2>1. CASE FirstProblem(answers) = "ok"
    BY <2>1
  <2>2. ASSUME NEW i \in 1..6, answers[i] # "ok", FirstProblem(answers) = answers[i],
               \A j \in 1..6 : j < i => answers[j] = "ok"
        PROVE  FirstProblem(answers) \in {"ok", "postcondition", "restoration"} \cup Overflows(c)
    <3>1. CASE i = 1
      BY <1>7, <2>2, <3>1
    <3>2. CASE i \in 2..4
      <4>1. answers[1] = "ok"
        BY <2>2, <3>2
      <4>2. i = 2 \/ i = 3 \/ i = 4
        BY <3>2
      <4> QED
        BY <1>9, <2>2, <4>1, <4>2
    <3>3. CASE i \in 5..6
      <4>1. answers[1] = "ok" /\ answers[4] = "ok"
        BY <2>2, <3>3
      <4>2. i = 5 \/ i = 6
        BY <3>3
      <4> QED
        BY <1>11, <2>2, <4>1, <4>2
    <3> QED
      BY <3>1, <3>2, <3>3
  <2> QED
    BY <1>12, <2>1, <2>2
<1>16. Truth(c.pre, env) \in {"true", "false"} \cup Overflows(c)
  <2>1. /\ c.pre \in Condition /\ TypedIn(c.pre, c)
        /\ Raises(c.pre, c) \subseteq Overflows(c)
    BY <1>3, ConditionsAre
  <2>2. Truth(c.pre, env) \in {"true", "false"} \cup Raises(c.pre, c)
    BY <1>6, <2>1, TruthSound
  <2> QED
    BY <2>1, <2>2
<1>17. /\ CaseOutcome(c, case) = "ok" <=> Reversible(c, case)
       /\ CaseOutcome(c, case) \in {"ok", "postcondition", "restoration"} \cup Overflows(c)
       /\ Admission(c, case) \in {"true", "false"} \cup Overflows(c)
  BY <1>1, <1>13, <1>14, <1>15, <1>16
<1> QED
  BY <1>17 DEF case

-----------------------------------------------------------------------------
(***************************************************************************)
(* All cases.                                                              *)
(***************************************************************************)

(* The answers of the checks that come before the loops.                   *)
Complaints == {"ok", "invalid", "unsupported", "unknown"}

(* The first problem is one of the answers, and "ok" if they all are.      *)
LEMMA ProblemIs ==
  ASSUME NEW answers, DOMAIN answers \subseteq Nat
  PROVE  /\ FirstProblem(answers) = "ok" <=> \A i \in DOMAIN answers : answers[i] = "ok"
         /\ FirstProblem(answers) \in {"ok"} \cup {answers[i] : i \in DOMAIN answers}
<1>1. \/ /\ FirstOther(answers, "ok") = "ok"
         /\ \A i \in DOMAIN answers : answers[i] = "ok"
      \/ \E i \in DOMAIN answers :
           answers[i] # "ok" /\ FirstOther(answers, "ok") = answers[i]
  BY FirstOtherIs
<1> QED
  BY <1>1 DEF FirstProblem

(* One answer, and two lists of answers.                                   *)
LEMMA Joined ==
  ASSUME NEW x \in Complaints, NEW s \in Seq(Complaints), NEW t \in Seq(Complaints)
  PROVE  /\ <<x>> \o s \o t \in Seq(Complaints)
         /\ (\A i \in DOMAIN (<<x>> \o s \o t) : (<<x>> \o s \o t)[i] = "ok")
            <=> /\ x = "ok"
                /\ \A i \in DOMAIN s : s[i] = "ok"
                /\ \A i \in DOMAIN t : t[i] = "ok"
<1> DEFINE all == <<x>> \o s \o t
           n == Len(s)
           m == Len(t)
<1>1. /\ all \in Seq(Complaints) /\ n \in Nat /\ m \in Nat
      /\ DOMAIN all = 1..(1 + n + m) /\ DOMAIN s = 1..n /\ DOMAIN t = 1..m
  OBVIOUS
<1>2. /\ all[1] = x
      /\ \A i \in 1..n : all[1 + i] = s[i]
      /\ \A i \in 1..m : all[1 + n + i] = t[i]
  OBVIOUS
<1> HIDE DEF all, n, m
<1>3. \A i \in 1..(1 + n + m) : \/ i = 1
                                \/ \E j \in 1..n : i = 1 + j
                                \/ \E j \in 1..m : i = 1 + n + j
  <2> TAKE i \in 1..(1 + n + m)
  <2>1. CASE i > 1 /\ i <= 1 + n
    <3>1. i - 1 \in 1..n /\ i = 1 + (i - 1)
      BY <1>1, <2>1
    <3> QED
      BY <3>1
  <2>2. CASE i > 1 + n
    <3>1. i - 1 - n \in 1..m /\ i = 1 + n + (i - 1 - n)
      BY <1>1, <2>2
    <3> QED
      BY <3>1
  <2> QED
    BY <1>1, <2>1, <2>2
<1>4. /\ 1 \in DOMAIN all
      /\ \A i \in 1..n : 1 + i \in DOMAIN all
      /\ \A i \in 1..m : 1 + n + i \in DOMAIN all
  BY <1>1
<1>5. (\A i \in DOMAIN all : all[i] = "ok")
      => x = "ok" /\ (\A i \in 1..n : s[i] = "ok") /\ (\A i \in 1..m : t[i] = "ok")
  BY <1>2, <1>4
<1>6. x = "ok" /\ (\A i \in 1..n : s[i] = "ok") /\ (\A i \in 1..m : t[i] = "ok")
      => \A i \in DOMAIN all : all[i] = "ok"
  <2> SUFFICES ASSUME x = "ok", \A i \in 1..n : s[i] = "ok", \A i \in 1..m : t[i] = "ok",
                      NEW i \in 1..(1 + n + m)
               PROVE  all[i] = "ok"
    BY <1>1
  <2>1. CASE i = 1
    BY <1>2, <2>1
  <2>2. ASSUME NEW j \in 1..n, i = 1 + j
        PROVE  all[i] = "ok"
    BY <1>2, <2>2
  <2>3. ASSUME NEW j \in 1..m, i = 1 + n + j
        PROVE  all[i] = "ok"
    BY <1>2, <2>3
  <2> QED
    BY <1>3, <2>1, <2>2, <2>3
<1>7. /\ all \in Seq(Complaints)
      /\ (\A i \in DOMAIN all : all[i] = "ok")
         <=> /\ x = "ok"
             /\ \A i \in DOMAIN s : s[i] = "ok"
             /\ \A i \in DOMAIN t : t[i] = "ok"
  BY <1>1, <1>5, <1>6
<1> QED
  BY <1>7 DEF all

(* What verify objects to before its loops.                                *)
LEMMA ObjectionIs ==
  ASSUME NEW c, ContractOK(c), NEW max
  PROVE  /\ Objection(c, max) \in Complaints
         /\ Objection(c, max) = "ok" <=>
              /\ Validation(c) = "ok"
              /\ \A i \in DOMAIN c.states : DomainStatus(c.states[i], max) = "ok"
              /\ \A i \in DOMAIN c.inputs : DomainStatus(c.inputs[i], max) = "ok"
<1> DEFINE x == Validation(c)
           s == [i \in DOMAIN c.states |-> DomainStatus(c.states[i], max)]
           t == [i \in DOMAIN c.inputs |-> DomainStatus(c.inputs[i], max)]
<1>1. x \in Complaints
  BY DEF Validation, Complaints
<1>2. \A spec : DomainStatus(spec, max) \in Complaints
  BY DEF DomainStatus, Complaints
<1>3. c.states \in Seq(ToSet(c.states)) /\ c.inputs \in Seq(ToSet(c.inputs))
  BY DEF ContractOK
<1>4. s \in Seq(Complaints) /\ t \in Seq(Complaints)
  BY <1>2, <1>3
<1>5. Objection(c, max) = FirstProblem(<<x>> \o s \o t)
  BY DEF Objection
<1>6. DOMAIN s = DOMAIN c.states /\ DOMAIN t = DOMAIN c.inputs
  OBVIOUS
<1>7. /\ \A i \in DOMAIN c.states : s[i] = DomainStatus(c.states[i], max)
      /\ \A i \in DOMAIN c.inputs : t[i] = DomainStatus(c.inputs[i], max)
  OBVIOUS
<1> HIDE DEF x, s, t
<1> DEFINE all == <<x>> \o s \o t
<1>8. /\ all \in Seq(Complaints)
      /\ (\A i \in DOMAIN all : all[i] = "ok")
            <=> /\ x = "ok"
                /\ \A i \in DOMAIN s : s[i] = "ok"
                /\ \A i \in DOMAIN t : t[i] = "ok"
  BY <1>1, <1>4, Joined
<1> HIDE DEF all
<1>9. /\ FirstProblem(all) \in Complaints
      /\ FirstProblem(all) = "ok" <=> \A i \in DOMAIN all : all[i] = "ok"
  <2>1. DOMAIN all \subseteq Nat /\ \A i \in DOMAIN all : all[i] \in Complaints
    BY <1>8
  <2> QED
    BY <2>1, ProblemIs DEF Complaints
<1>10. Objection(c, max) = FirstProblem(all)
  BY <1>5 DEF all
<1>11. Objection(c, max) = "ok" <=> /\ x = "ok"
                                    /\ \A i \in DOMAIN c.states : s[i] = "ok"
                                    /\ \A i \in DOMAIN c.inputs : t[i] = "ok"
  BY <1>6, <1>8, <1>9, <1>10
<1>12. Objection(c, max) = "ok" <=>
              /\ Validation(c) = "ok"
              /\ \A i \in DOMAIN c.states : DomainStatus(c.states[i], max) = "ok"
              /\ \A i \in DOMAIN c.inputs : DomainStatus(c.inputs[i], max) = "ok"
  BY <1>7, <1>11 DEF x
<1> QED
  BY <1>9, <1>10, <1>12

(* The two loops of verify: every pair of a state and inputs.              *)
LEMMA CasesAre ==
  ASSUME NEW c, SpecsOK(c.states), SpecsOK(c.inputs)
  PROVE  /\ Cases(c) \in Seq(Valuations(c.states) \X Valuations(c.inputs))
         /\ ToSet(Cases(c)) = Valuations(c.states) \X Valuations(c.inputs)
<1> DEFINE ss == Records(c.states)
           is == Records(c.inputs)
           VS == Valuations(c.states)
           VI == Valuations(c.inputs)
           q == Len(ss)
           m == Len(is)
           all == Cases(c)
<1>1. /\ ss \in Seq(VS) /\ ToSet(ss) = VS /\ is \in Seq(VI) /\ ToSet(is) = VI
  BY RecordsAreValuations
<1>2. all = [n \in 1..(q * m) |-> <<ss[Outer(n, m)], is[Inner(n, m)]>>]
  BY DEF Cases
<1> HIDE DEF ss, is, VS, VI
<1>3. q \in Nat /\ m \in Nat /\ DOMAIN ss = 1..q /\ DOMAIN is = 1..m
  BY <1>1
<1>4. /\ \A i \in 1..q : ss[i] \in VS
      /\ \A i \in 1..m : is[i] \in VI
  BY <1>1, <1>3
<1>5. /\ \A v \in VS : \E o \in 1..q : v = ss[o]
      /\ \A w \in VI : \E i \in 1..m : w = is[i]
  BY <1>1, <1>3 DEF ToSet
<1> HIDE DEF q, m, all
<1>6. \A n \in 1..(q * m) : Outer(n, m) \in 1..q /\ Inner(n, m) \in 1..m
  BY <1>3, CountersIn
<1>7. \A n \in 1..(q * m) : all[n] \in VS \X VI
  BY <1>2, <1>4, <1>6
<1>8. q * m \in Nat /\ DOMAIN all = 1..(q * m)
  BY <1>2, <1>3
<1>9. all \in Seq(VS \X VI)
  <2> DEFINE size == q * m
  <2>1. all = [n \in 1..size |-> all[n]] /\ size \in Nat /\ \A n \in 1..size : all[n] \in VS \X VI
    BY <1>2, <1>7, <1>8
  <2> HIDE DEF size
  <2> QED
    BY <2>1
<1>10. ASSUME NEW case \in VS \X VI
       PROVE  case \in ToSet(all)
  <2>1. PICK v \in VS, w \in VI : case = <<v, w>>
    OBVIOUS
  <2>2. PICK o \in 1..q, i \in 1..m : v = ss[o] /\ w = is[i]
    BY <1>5
  <2>3. Reached(q, m, o, i)
    BY <1>3, CountersReach
  <2>4. PICK n \in 1..(q * m) : Outer(n, m) = o /\ Inner(n, m) = i
    BY <2>3 DEF Reached
  <2>5. all[n] = case /\ n \in DOMAIN all
    BY <1>2, <1>8, <2>1, <2>2, <2>4
  <2> QED
    BY <2>5 DEF ToSet
<1>11. \A case \in ToSet(all) : case \in VS \X VI
  BY <1>7, <1>8 DEF ToSet
<1> QED
  BY <1>9, <1>10, <1>11 DEF VS, VI, all

(* verify, of any contract of any language and for any limit: it says      *)
(* "proved" exactly of the well-formed finite contracts that can be        *)
(* evaluated and are reversible in all their admissible cases and have     *)
(* one, shows a case that is not reversible when it rejects, and where     *)
(* evaluation fails, it is by OverflowError and the contract has reals.    *)
THEOREM CertificateTrue ==
  ASSUME NEW c, ContractOK(c)
  PROVE  /\ IsTrueOf(Certificate(c, MaxCases), c, AdmissibleCases(c))
         /\ SoundFailure(Certificate(c, MaxCases).about, c)
<1> DEFINE cert == Certificate(c, MaxCases)
           objection == Objection(c, MaxCases)
           large == DomainSize(c.states) * DomainSize(c.inputs) > MaxCases
           domains == /\ \A i \in DOMAIN c.states : DomainStatus(c.states[i], MaxCases) = "ok"
                      /\ \A i \in DOMAIN c.inputs : DomainStatus(c.inputs[i], MaxCases) = "ok"
           admissible == AdmissibleCases(c)
<1>1. /\ objection \in Complaints
      /\ objection = "ok" <=> Validation(c) = "ok" /\ domains
  BY ObjectionIs
<1>2. Finite(c) <=> domains /\ ~large
  BY DEF Finite
<1>3. cert = Judgement(c, MaxCases, objection)
  BY DEF Certificate
<1>4. \A status, n, m : /\ Plainly(c, status, n, m).status = status
                        /\ Plainly(c, status, n, m).about = "none"
  BY DEF Plainly, Answer
<1>0. SoundFailure("none", c)
  BY DEF SoundFailure
<1> HIDE DEF objection, large, domains
<1>5. CASE objection # "ok"
  <2>1. cert = Plainly(c, objection, 0, 0)
    BY <1>3, <1>5 DEF Judgement
  <2>2. cert.status = objection /\ cert.about = "none"
    BY <1>4, <2>1
  <2>3. objection # "proved" /\ objection # "rejected"
    BY <1>1 DEF Complaints
  <2> HIDE DEF cert, admissible
  <2>4. IsTrueOf(cert, c, admissible) /\ SoundFailure(cert.about, c)
    BY <1>0, <1>1, <1>2, <1>5, <2>2, <2>3 DEF IsTrueOf
  <2> QED
    BY <2>4 DEF cert, admissible
<1>6. CASE objection = "ok" /\ large
  <2>1. cert = Plainly(c, "unknown", 0, 0)
    BY <1>3, <1>6 DEF Judgement, large
  <2>2. cert.status = "unknown" /\ cert.about = "none"
    BY <1>4, <2>1
  <2> HIDE DEF cert, admissible
  <2>4. IsTrueOf(cert, c, admissible) /\ SoundFailure(cert.about, c)
    BY <1>0, <1>2, <1>6, <2>2 DEF IsTrueOf
  <2> QED
    BY <2>4 DEF cert, admissible
<1>7. CASE objection = "ok" /\ ~large
  <2> DEFINE cases == Cases(c)
             all == Valuations(c.states) \X Valuations(c.inputs)
             admitted == {n \in DOMAIN cases : Admission(c, cases[n]) = "true"}
             outcomes == [n \in DOMAIN cases |-> Outcome(c, cases[n])]
             bad == {n \in DOMAIN cases : outcomes[n] # "ok"}
             stop == CHOOSE n \in bad : \A m \in bad : n <= m
             outcome == outcomes[stop]
             raising == RaisingCases(c)
  <2>1. cert = Search(c, cases, admitted, outcomes)
    BY <1>3, <1>7 DEF Judgement, Loops, large
  <2>2. Validation(c) = "ok" /\ domains /\ Finite(c)
    BY <1>1, <1>2, <1>7
  <2>3. SpecsOK(c.states) /\ SpecsOK(c.inputs)
    BY <2>2, ValidMeans
  <2>4. /\ cases \in Seq(all) /\ ToSet(cases) = all
    BY <2>3, CasesAre
  <2>5. \A case \in all : /\ case \in admissible <=> Admission(c, case) = "true"
                          /\ case \in raising <=> Admission(c, case) \in Raised
    BY DEF AdmissibleCases, RaisingCases, AllCases
  <2>6. admissible \subseteq all /\ raising \subseteq all
    BY DEF AdmissibleCases, RaisingCases, AllCases
  <2>7. ASSUME NEW case \in all
        PROVE  /\ CaseOutcome(c, case) = "ok" <=> Reversible(c, case)
               /\ CaseOutcome(c, case) \in {"ok", "postcondition", "restoration"} \cup Overflows(c)
               /\ Admission(c, case) \in {"true", "false"} \cup Overflows(c)
    <3>1. PICK st \in Valuations(c.states), inputs \in Valuations(c.inputs) : case = <<st, inputs>>
      OBVIOUS
    <3>2. /\ TypedAs(st, c.states) /\ ArgumentsOK(st)
          /\ TypedAs(inputs, c.inputs) /\ ArgumentsOK(inputs)
      BY <2>2, <2>3, ValuationTyped DEF domains
    <3> QED
      BY <2>2, <3>1, <3>2, CaseShows
  <2>8. Overflows(c) \subseteq {"overflow"} /\ Raised = {"failure", "overflow"}
    BY DEF Overflows, Raised
  <2> HIDE DEF cases, all, admissible, raising, outcomes
  <2>9. ASSUME NEW case \in all
        PROVE  /\ Outcome(c, case) = "ok"
                    <=> case \notin raising /\ (case \in admissible => Reversible(c, case))
               /\ Outcome(c, case) \in {"ok", "postcondition", "restoration"} \cup Overflows(c)
               /\ Outcome(c, case) \in {"postcondition", "restoration"}
                    => case \in admissible /\ ~Reversible(c, case)
    <3>1. CASE Admission(c, case) = "true"
      BY <2>5, <2>7, <2>8, <3>1 DEF Outcome
    <3>2. CASE Admission(c, case) = "false"
      BY <2>5, <2>8, <3>2 DEF Outcome
    <3>3. CASE Admission(c, case) \in Overflows(c)
      BY <2>5, <2>8, <3>3 DEF Outcome
    <3> QED
      BY <2>7, <3>1, <3>2, <3>3
  <2>9a. \A n \in DOMAIN cases : outcomes[n] = Outcome(c, cases[n])
    BY DEF outcomes
  <2>10. \A n \in DOMAIN cases : n \in Nat /\ cases[n] \in all
    BY <2>4
  <2>11. bad \in SUBSET Nat
    BY <2>10
  <2>12. \A case \in all : \E n \in DOMAIN cases : case = cases[n]
    BY <2>4 DEF ToSet
  <2>13. CASE bad # {}
    <3>1. PICK m \in bad : \A n \in bad : m <= n
      <4> HIDE DEF bad
      <4> QED
        BY <2>11, <2>13, Least
    <3>2. stop \in bad
      <4> HIDE DEF bad
      <4> QED
        BY <3>1
    <3>3. /\ outcome \in Raised => cert.status = "invalid"
          /\ outcome \notin Raised => cert.status = "rejected" /\ cert.case = cases[stop]
          /\ cert.about = outcome
      <4> HIDE DEF admitted
      <4> QED
        BY <2>1, <2>13 DEF Search, Answer
    <3> HIDE DEF stop
    <3>4. /\ stop \in DOMAIN cases /\ cases[stop] \in all
          /\ outcome = Outcome(c, cases[stop]) /\ outcome # "ok"
      BY <2>10, <2>9a, <3>2
    <3> HIDE DEF bad, cert, admitted
    <3>5. /\ cases[stop] \in raising \/ (cases[stop] \in admissible /\ ~Reversible(c, cases[stop]))
          /\ outcome \in {"postcondition", "restoration"} \cup Overflows(c)
          /\ outcome \notin Raised => /\ cases[stop] \in admissible
                                      /\ ~Reversible(c, cases[stop])
      BY <2>8, <2>9, <3>4
    <3> HIDE DEF outcome
    <3>6. ~(raising = {} /\ \A case \in admissible : Reversible(c, case))
      BY <3>5
    <3>7. IsTrueOf(cert, c, admissible)
      <4>1. cert.status \in {"invalid", "rejected"}
        BY <3>3
      <4>2. cert.status = "rejected" => cert.case \in admissible /\ ~Reversible(c, cert.case)
        BY <3>3, <3>5
      <4> QED
        BY <3>6, <4>1, <4>2 DEF IsTrueOf, raising
    <3>8. SoundFailure(cert.about, c)
      BY <3>3, <3>5 DEF SoundFailure, Overflows
    <3> QED
      BY <3>7, <3>8 DEF cert, admissible
  <2>14. CASE bad = {}
    <3>1. cert = Plainly(c, IF admitted = {} THEN "invalid" ELSE "proved",
                         Len(cases), Cardinality(admitted))
      <4> HIDE DEF admitted
      <4> QED
        BY <2>1, <2>14 DEF Search
    <3>2. cert.status = (IF admitted = {} THEN "invalid" ELSE "proved") /\ cert.about = "none"
      <4> HIDE DEF admitted, cert
      <4> QED
        BY <1>4, <3>1
    <3>3. \A case \in all : Outcome(c, case) = "ok"
      BY <2>12, <2>14, <2>9a
    <3>4. raising = {} /\ \A case \in admissible : Reversible(c, case)
      BY <2>6, <2>9, <3>3
    <3>5. admitted = {} <=> admissible = {}
      BY <2>5, <2>6, <2>10, <2>12
    <3> HIDE DEF admitted, bad, cert
    <3>6. IsTrueOf(cert, c, admissible) /\ SoundFailure(cert.about, c)
      BY <1>0, <2>2, <3>2, <3>4, <3>5 DEF IsTrueOf, raising
    <3> QED
      BY <3>6 DEF cert, admissible
  <2> QED
    BY <2>13, <2>14
<1> QED
  BY <1>5, <1>6, <1>7

-----------------------------------------------------------------------------
(***************************************************************************)
(* One compensation of a rollback.                                         *)
(***************************************************************************)

(* Transitions see of the variables only what EnvAgree compares.           *)
LEMMA TransitionAgrees ==
  ASSUME NEW c, ContractOK(c), Validation(c) = "ok", NEW tr \in {c.forward, c.compensation},
         NEW env, NEW other, EnvOK(env), EnvOK(other), EnvAgree(env, other, c)
  PROVE  \A x \in NamesOf(c.states) :
           /\ x \in DOMAIN Transition(tr, env) /\ x \in DOMAIN Transition(tr, other)
           /\ Transition(tr, env)[x] = Transition(tr, other)[x]
<1>1. ExpressionsOK(c)
  BY ValidMeans
<1>2. ASSUME NEW x \in NamesOf(c.states)
      PROVE  /\ x \in DOMAIN env.state /\ x \in DOMAIN other.state
             /\ env.state[x] = other.state[x]
  BY DEF EnvAgree, RefSource, SpecsFor
<1>3. ASSUME NEW i \in DOMAIN tr
      PROVE  Value(tr[i][2], env) = Value(tr[i][2], other)
  <2>1. tr[i] \in Assignments(c)
    BY DEF Assignments, ToSet
  <2>2. tr[i][2] \in Expression /\ RefsKnown(tr[i][2], c)
    BY <1>1, <2>1 DEF ContractOK, ExpressionsOK
  <2> QED
    BY <2>2, ValueAgrees
<1> TAKE x \in NamesOf(c.states)
<1>4. CASE \E i \in DOMAIN tr : tr[i][1] = x
  <2> DEFINE j == CHOOSE i \in DOMAIN tr : tr[i][1] = x
  <2>1. j \in DOMAIN tr
    BY <1>4
  <2>2. /\ Transition(tr, env)[x] = Value(tr[j][2], env)
        /\ Transition(tr, other)[x] = Value(tr[j][2], other)
    BY <1>2, <1>4 DEF Transition
  <2> HIDE DEF j
  <2> QED
    BY <1>2, <1>3, <2>1, <2>2 DEF Transition
<1>5. CASE ~\E i \in DOMAIN tr : tr[i][1] = x
  BY <1>2, <1>5 DEF Transition
<1> QED
  BY <1>4, <1>5

(* A transition of a validated contract leaves other variables alone.      *)
LEMMA TransitionFrame ==
  ASSUME NEW c, ContractOK(c), Validation(c) = "ok", NEW tr \in {c.forward, c.compensation},
         NEW env, NEW x \in DOMAIN env.state, x \notin NamesOf(c.states)
  PROVE  Transition(tr, env)[x] = env.state[x]
<1>1. ~\E i \in DOMAIN tr : tr[i][1] = x
  BY ValidMeans DEF TargetsOK
<1> QED
  BY <1>1 DEF Transition

(* What it takes to be where a contract is proved: the variables of the    *)
(* contract have values that the verifier tried, and its precondition      *)
(* holds.                                                                  *)
InProof(c, before, inputs) ==
  /\ inputs \in Valuations(c.inputs)
  /\ NamesOf(c.states) \subseteq DOMAIN before
  /\ [x \in NamesOf(c.states) |-> before[x]] \in Valuations(c.states)
  /\ Holds(c.pre, Env(before, before, inputs))

(* What a compensation gives back.                                         *)
GivenBack(c, now, before, inputs) ==
  /\ DOMAIN now = DOMAIN before
  /\ Holds(c.restoration, Env(now, before, inputs))
  /\ TypedAs(before, c.states) /\ TypedAs(now, c.states)
  /\ \A x \in DOMAIN before \ NamesOf(c.states) : now[x] = before[x]

(* The proof of a contract about its own variables carries over to a world *)
(* with more of them, as the forward step left it.                         *)
THEOREM Compensates ==
  ASSUME NEW c, ContractOK(c), Validation(c) = "ok", Finite(c),
         \A case \in AdmissibleCases(c) : Reversible(c, case),
         NEW before, NEW inputs, NEW now,
         WorldOK(before), ArgumentsOK(inputs), WorldOK(now),
         InProof(c, before, inputs),
         DOMAIN now = DOMAIN before,
         \A x \in DOMAIN before : now[x] = Forward(c, before, inputs)[x]
  PROVE  GivenBack(c, Compensated(c, now, before, inputs), before, inputs)
<1> DEFINE N == NamesOf(c.states)
           r == [x \in N |-> before[x]]
           E == Env(before, before, inputs)
           R == Env(r, r, inputs)
           after == Transition(c.forward, E)
           rafter == Transition(c.forward, R)
           E2 == Env(now, before, inputs)
           R2 == Env(rafter, r, inputs)
           back == Transition(c.compensation, E2)
           rback == Transition(c.compensation, R2)
           E3 == Env(back, before, inputs)
           R3 == Env(rback, r, inputs)
<1>1. /\ SpecsOK(c.states) /\ SpecsOK(c.inputs)
      /\ \A i \in DOMAIN c.states : DomainStatus(c.states[i], MaxCases) = "ok"
      /\ \A i \in DOMAIN c.inputs : DomainStatus(c.inputs[i], MaxCases) = "ok"
  BY ValidMeans DEF Finite
<1>2. /\ r \in Valuations(c.states) /\ inputs \in Valuations(c.inputs)
      /\ N \subseteq DOMAIN before /\ Holds(c.pre, E)
  BY DEF InProof
<1>3. /\ TypedAs(r, c.states) /\ WorldOK(r) /\ Defined(r) /\ DOMAIN r = N
      /\ TypedAs(inputs, c.inputs) /\ WorldOK(inputs) /\ DOMAIN inputs = NamesOf(c.inputs)
  <2> HIDE DEF r
  <2> QED
    BY <1>1, <1>2, ValuationTyped, ArgumentsAre
<1>4. \A x \in N : r[x] = before[x]
  OBVIOUS
<1>5. \A x \in {c.pre, c.restoration} : x \in Condition /\ KnownIn(x, c)
  BY ConditionsAre DEF Conditions, TypedIn
<1>6. ASSUME NEW st, NEW rst,
             \A x \in N : x \in DOMAIN st /\ x \in DOMAIN rst /\ st[x] = rst[x]
      PROVE  EnvAgree(Env(st, before, inputs), Env(rst, r, inputs), c)
  <2> DEFINE env == Env(st, before, inputs)
             other == Env(rst, r, inputs)
  <2>1. /\ env["state"] = st /\ env["original"] = before /\ env["input"] = inputs
        /\ other["state"] = rst /\ other["original"] = r /\ other["input"] = inputs
    BY DEF Env
  <2>2. /\ SpecsFor(c, "state") = c.states /\ SpecsFor(c, "original") = c.states
        /\ SpecsFor(c, "input") = c.inputs
    BY DEF SpecsFor
  <2> HIDE DEF env, other, r
  <2>3. EnvAgree(env, other, c)
    BY <1>2, <1>3, <1>4, <1>6, <2>1, <2>2 DEF EnvAgree, RefSource
  <2> QED
    BY <2>3 DEF env, other
<1> HIDE DEF r
<1>7. /\ EnvOK(E) /\ EnvOK(R) /\ EnvAgree(E, R, c) /\ EnvTyped(R, c)
  <2>1. EnvAgree(E, R, c)
    BY <1>2, <1>3, <1>4, <1>6
  <2> QED
    BY <1>3, <2>1, EnvIs
<1>8. /\ E.state = before /\ R.state = r /\ E2.state = now /\ R2.state = rafter
  BY DEF Env
<1>9. Reversible(c, <<r, inputs>>)
  <2>1. Truth(c.pre, R) = "true"
    <3> HIDE DEF E, R
    <3> QED
      BY <1>2, <1>5, <1>7, TruthAgrees DEF Holds
  <2>2. <<r, inputs>> \in AdmissibleCases(c)
    BY <1>2, <2>1 DEF AdmissibleCases, AllCases, Admission
  <2> QED
    BY <2>2
<1>10. Defined(rafter) /\ Defined(rback) /\ Holds(c.restoration, R3)
  BY <1>9 DEF Reversible, Restorable, Restored
<1> HIDE DEF E, R
<1>11. /\ \A x \in N : /\ x \in DOMAIN after /\ x \in DOMAIN rafter
                       /\ after[x] = rafter[x]
       /\ DOMAIN after = DOMAIN before
       /\ DOMAIN rafter = N /\ WorldOK(rafter) /\ TypedAs(rafter, c.states)
       /\ \A x \in DOMAIN before \ N : after[x] = before[x]
  <2>1. \A x \in N : /\ x \in DOMAIN after /\ x \in DOMAIN rafter
                     /\ after[x] = rafter[x]
    BY <1>7, TransitionAgrees
  <2>2. /\ DOMAIN after = DOMAIN before
        /\ DOMAIN rafter = N /\ WorldOK(rafter)
    BY <1>3, <1>7, <1>8, TransitionOK
  <2>3. TypedAs(rafter, c.states)
    <3>1. Evaluated(c.forward, R) = "ok"
      BY <1>3, <1>8, <1>10, DefinedIs
    <3> QED
      BY <1>7, <3>1, TransitionTyped
  <2>4. \A x \in DOMAIN before \ N : after[x] = before[x]
    BY <1>8, TransitionFrame
  <2> QED
    BY <2>1, <2>2, <2>3, <2>4
<1>12. \A x \in DOMAIN before : now[x] = after[x]
  BY DEF Forward, E
<1> HIDE DEF after, rafter
<1>13. EnvOK(E2) /\ EnvOK(R2) /\ EnvAgree(E2, R2, c) /\ EnvTyped(R2, c)
  <2>1. EnvAgree(E2, R2, c)
    BY <1>2, <1>6, <1>11, <1>12
  <2> QED
    BY <1>3, <1>11, <2>1, EnvIs
<1> HIDE DEF E2, R2
<1>14. /\ \A x \in N : /\ x \in DOMAIN back /\ x \in DOMAIN rback
                       /\ back[x] = rback[x]
       /\ DOMAIN back = DOMAIN before /\ WorldOK(back)
       /\ WorldOK(rback) /\ TypedAs(rback, c.states)
       /\ \A x \in DOMAIN before \ N : back[x] = now[x]
  <2>1. \A x \in N : /\ x \in DOMAIN back /\ x \in DOMAIN rback
                     /\ back[x] = rback[x]
    BY <1>13, TransitionAgrees
  <2>2. DOMAIN back = DOMAIN before /\ WorldOK(back) /\ WorldOK(rback)
    BY <1>8, <1>13, TransitionOK
  <2>3. TypedAs(rback, c.states)
    <3>1. Evaluated(c.compensation, R2) = "ok"
      BY <1>8, <1>10, <1>11, DefinedIs
    <3> QED
      BY <1>13, <3>1, TransitionTyped
  <2>4. \A x \in DOMAIN before \ N : back[x] = now[x]
    BY <1>8, TransitionFrame
  <2> QED
    BY <2>1, <2>2, <2>3, <2>4
<1>15. Compensated(c, now, before, inputs) = back
  BY DEF Compensated, E2
<1> HIDE DEF back, rback
<1>16. Holds(c.restoration, E3)
  <2>1. EnvAgree(E3, R3, c) /\ EnvOK(E3) /\ EnvOK(R3)
    BY <1>3, <1>6, <1>14, EnvIs
  <2> HIDE DEF E3, R3
  <2> QED
    BY <1>5, <1>10, <2>1, TruthAgrees DEF Holds
<1>17. TypedAs(before, c.states) /\ TypedAs(back, c.states)
  BY <1>2, <1>3, <1>4, <1>14 DEF TypedAs
<1>18. \A x \in DOMAIN before \ N : back[x] = before[x]
  BY <1>11, <1>12, <1>14
<1> HIDE DEF N
<1>19. \A x \in DOMAIN before \ NamesOf(c.states) : back[x] = before[x]
  BY <1>18 DEF N
<1> QED
  BY <1>14, <1>15, <1>16, <1>17, <1>19 DEF GivenBack

(* A contract whose restoration condition demands the original value of    *)
(* every variable, none of them a real, gives the whole world back.        *)
LEMMA PinsAll ==
  ASSUME NEW c, ContractOK(c), Pins(c), NEW now, NEW before, NEW inputs,
         WorldOK(now), WorldOK(before), WorldOK(inputs),
         GivenBack(c, now, before, inputs)
  PROVE  \A x \in DOMAIN before : now[x] = before[x]
<1> DEFINE env == Env(now, before, inputs)
<1>1. EnvOK(env) /\ env["state"] = now /\ env["original"] = before
  BY EnvIs DEF Env
<1>2. /\ c.restoration \in Condition /\ c.restoration.k = "all"
      /\ Truth(c.restoration, env) = "true"
  BY DEF ContractOK, Conditions, Pins, GivenBack, Holds
<1> HIDE DEF env
<1>3. ASSUME NEW i \in DOMAIN c.restoration.conditions
      PROVE  Truth(c.restoration.conditions[i], env) = "true"
  <2> DEFINE answers == [j \in DOMAIN c.restoration.conditions |->
                           Truth(c.restoration.conditions[j], env)]
  <2>1. FirstOther(answers, "true") = "true"
    BY <1>2, TruthIs
  <2>2. DOMAIN answers \subseteq Nat
    BY <1>2, TermFacts
  <2>3. answers[i] = Truth(c.restoration.conditions[i], env) /\ i \in DOMAIN answers
    OBVIOUS
  <2> HIDE DEF answers
  <2>4. answers[i] = "true"
    BY <2>1, <2>2, <2>3, FirstOtherIs
  <2> QED
    BY <2>3, <2>4
<1>4. ASSUME NEW x \in NamesOf(c.states)
      PROVE  now[x] = before[x]
  <2> DEFINE p == Comparison("eq", Ref("state", x), Ref("original", x))
  <2>1. PICK i \in DOMAIN c.restoration.conditions : p = c.restoration.conditions[i]
    BY DEF Pins, ToSet
  <2>2. p \in Condition /\ Truth(p, env) = "true"
    BY <1>2, <1>3, <2>1, TermFacts
  <2>3. /\ p.k = "comparison" /\ p.op = "eq"
        /\ p.left = Ref("state", x) /\ p.right = Ref("original", x)
    BY DEF Comparison
  <2> HIDE DEF p
  <2>4. p.left \in Expression /\ p.right \in Expression
    BY <2>2, <2>3, TermFacts
  <2>5. Compared("eq", Value(p.left, env), Value(p.right, env)) = "true"
    BY <2>2, <2>3, TruthIs
  <2>6. /\ p.left.k = "ref" /\ p.left.source = "state" /\ p.left.name = x
        /\ p.right.k = "ref" /\ p.right.source = "original" /\ p.right.name = x
    BY <2>3 DEF Ref
  <2>7. /\ Value(p.left, env) = Lookup(env["state"], x)
        /\ Value(p.right, env) = Lookup(env["original"], x)
    BY <1>1, <2>4, <2>6, ValueIs
  <2>8. x \in DOMAIN before /\ x \in DOMAIN now
    BY DEF GivenBack, TypedAs
  <2>9. Value(p.left, env) = now[x] /\ Value(p.right, env) = before[x]
    BY <1>1, <2>7, <2>8 DEF Lookup
  <2> DEFINE t == SpecOf(c.states, x).type
  <2>10. t \in Types /\ t # "real"
    <3>1. c.states = SpecsFor(c, "state")
      BY DEF SpecsFor
    <3>2. t \in Types
      BY <3>1, SpecTypes
    <3>3. \E j \in DOMAIN c.states : c.states[j].name = x
      BY DEF NamesOf
    <3> DEFINE k == CHOOSE j \in DOMAIN c.states : c.states[j].name = x
    <3>4. k \in DOMAIN c.states /\ SpecOf(c.states, x) = c.states[k]
      BY <3>3 DEF SpecOf
    <3> HIDE DEF k
    <3> QED
      BY <3>2, <3>4 DEF Pins
  <2>11. MatchesType(now[x], t) /\ MatchesType(before[x], t)
    BY DEF GivenBack, TypedAs
  <2> HIDE DEF t
  <2>12. now[x].t = t /\ before[x].t = t /\ t \notin Raised \cup {"nan", "infinite"}
    BY <2>10, <2>11 DEF MatchesType, Types, Raised
  <2>13. Equal(now[x], before[x])
    BY <2>5, <2>9, <2>12 DEF Compared, Compare, TruthValue
  <2>14. now[x].v = before[x].v
    BY <2>13 DEF Equal
  <2>9a. now[x] \in Result /\ before[x] \in Result
    BY <2>8 DEF WorldOK
  <2> QED
    BY <2>12, <2>14, <2>9a, ResultFacts
<1> QED
  BY <1>4 DEF GivenBack
=============================================================================
