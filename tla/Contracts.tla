----------------------------- MODULE Contracts -----------------------------
(***************************************************************************)
(* The language of compensation contracts (contracts/dsl.py) and the       *)
(* bounded verifier (contracts/verifier.py).  Both are pure: the verifier  *)
(* is the operator Certificate, a contract a record.                       *)
(*                                                                         *)
(* A scalar carries its Python type and an integer: the truth value of a   *)
(* boolean as 0 or 1, the value of a finite float that is a whole number,  *)
(* a string as its place in the alphabetical order.  Integers are exact;   *)
(* arithmetic on floats rounds, and leaves their range.                    *)
(***************************************************************************)
EXTENDS Integers, Sequences, SequencesExt, FiniteSets

CONSTANTS
  Term,       \* the expressions and conditions of contracts and SMT texts,
              \* with all their parts
  Depth(_),   \* the depth of a term: it is a tree
  Float,      \* the numbers that are floats
  FloatLimit  \* from this magnitude on, a number rounds to no float

ASSUME FloatAssumption ==
  Float \subseteq Int /\ Float # {} /\ FloatLimit \in Int

Scalar(type, n) == [t |-> type, v |-> n]

Types == {"integer", "real", "boolean", "string"}
NumericTypes == {"integer", "real"}

(* What literals, domains and arguments hold; "nested" is a value that is  *)
(* no scalar.                                                              *)
ScalarValue ==
  [t : {"integer", "boolean", "string", "nested"}, v : Int] \cup [t : {"real"}, v : Float]

(* What a computation may give besides: an infinite float, whose number is *)
(* its sign, a float that is no number, or an exception instead of a       *)
(* value, ContractVerificationError or OverflowError.                      *)
Raised == {"failure", "overflow"}
FloatTypes == {"real", "infinite", "nan"}
Result == ScalarValue \cup [t : {"infinite", "nan"} \cup Raised, v : Int]

(* Expressions and conditions.                                             *)
Literal(value) == [k |-> "literal", value |-> value]
Ref(source, x) == [k |-> "ref", source |-> source, name |-> x]
Binary(op, l, r) == [k |-> "binary", op |-> op, left |-> l, right |-> r]

BoolConstant(b) == [k |-> "constant", value |-> b]
Comparison(op, l, r) == [k |-> "comparison", op |-> op, left |-> l, right |-> r]
AllOf(cs) == [k |-> "all", conditions |-> cs]
AnyOf(cs) == [k |-> "any", conditions |-> cs]
Negation(c) == [k |-> "not", condition |-> c]

Expression == {x \in Term : x.k \in {"literal", "ref", "binary"}}
Condition == {x \in Term : x.k \in {"constant", "comparison", "all", "any", "not"}}

RefSource == {"state", "original", "input"}
ArithmeticOperator == {"add", "subtract", "multiply"}
ComparisonOperator == {"eq", "ne", "lt", "le", "gt", "ge"}

Parts(x) ==
  CASE x.k \in {"binary", "comparison"} -> {x.left, x.right}
    [] x.k \in {"all", "any"} -> ToSet(x.conditions)
    [] x.k = "not" -> {x.condition}
    [] OTHER -> {}

ASSUME LanguageAssumption ==
  \A x \in Term :
    /\ Depth(x) \in Nat /\ \A y \in Parts(x) : Depth(y) < Depth(x)
    /\ Parts(x) \subseteq
         IF x.k \in {"binary", "comparison"} THEN Expression ELSE Condition
    /\ x.k = "literal" => x.value \in ScalarValue /\ x.value.t \in Types
    /\ x.k = "ref" => x.source \in RefSource
    /\ x.k = "binary" => x.op \in ArithmeticOperator
    /\ x.k = "constant" => x.value \in BOOLEAN
    /\ x.k = "comparison" => x.op \in ComparisonOperator
    /\ x.k \in {"all", "any"} => x.conditions \in Seq(ToSet(x.conditions))

(* bounds is <<>> or <<minimum, maximum>>, allowed a sequence of scalars.   *)
VariableSpec(x, type, bounds, allowed) ==
  [name |-> x, type |-> type, bounds |-> bounds, allowed |-> allowed]

-----------------------------------------------------------------------------
(***************************************************************************)
(* Evaluation: env holds the variables of the three sources.               *)
(***************************************************************************)

Failure == Scalar("failure", 0)
Overflow == Scalar("overflow", 0)
NotANumber == Scalar("nan", 0)

Arithmetic(op, m, n) ==
  CASE op = "add" -> m + n [] op = "subtract" -> m - n [] op = "multiply" -> m * n

Magnitude(n) == IF n < 0 THEN -n ELSE n
SignOf(n) == IF n < 0 THEN -1 ELSE IF n = 0 THEN 0 ELSE 1

Nearest(n) ==
  CHOOSE f \in Float : \A g \in Float : Magnitude(f - n) <= Magnitude(g - n)

(* The float that stands for a number.                                     *)
Rounded(n) ==
  IF Magnitude(n) >= FloatLimit THEN Scalar("infinite", SignOf(n))
  ELSE Scalar("real", Nearest(n))

(* The conversion of an integer, for an operation with a float: where the  *)
(* float would be infinite, Python raises OverflowError.                   *)
AsFloat(s) ==
  IF s.t # "integer" THEN s
  ELSE IF Rounded(s.v).t = "infinite" THEN Overflow
  ELSE Rounded(s.v)

(* -1 and 1 for the infinite floats, 0 for the others.                     *)
Pole(s) == IF s.t = "infinite" THEN s.v ELSE 0

(* The sign that an operation with an infinite float gives, 0 for none.    *)
LimitSign(op, l, r) ==
  IF op = "multiply" THEN SignOf(l.v) * SignOf(r.v)
  ELSE SignOf(Arithmetic(op, Pole(l), Pole(r)))

FloatArithmetic(op, l, r) ==
  IF Overflow \in {l, r} THEN Overflow
  ELSE IF l.t = "real" /\ r.t = "real" THEN Rounded(Arithmetic(op, l.v, r.v))
  ELSE IF "nan" \in {l.t, r.t} \/ LimitSign(op, l, r) = 0 THEN NotANumber
  ELSE Scalar("infinite", LimitSign(op, l, r))

(* The operands are evaluated from left to right.                          *)
Combine(op, l, r) ==
  IF l.t \in Raised THEN l
  ELSE IF r.t \in Raised THEN r
  ELSE IF ~({l.t, r.t} \subseteq FloatTypes \cup {"integer"}) THEN Failure
  ELSE IF {l.t, r.t} = {"integer"} THEN Scalar("integer", Arithmetic(op, l.v, r.v))
  ELSE FloatArithmetic(op, AsFloat(l), AsFloat(r))

Lookup(variables, x) == IF x \in DOMAIN variables THEN variables[x] ELSE Failure

Value(e, env) ==
  LET value[x \in Expression] ==
        CASE x.k = "literal" -> x.value
          [] x.k = "ref" -> Lookup(env[x.source], x.name)
          [] x.k = "binary" -> Combine(x.op, value[x.left], value[x.right])
  IN value[e]

(* The order of numbers, over both types; nan is in no order with any.     *)
Equal(l, r) == "nan" \notin {l.t, r.t} /\ Pole(l) = Pole(r) /\ l.v = r.v
Less(l, r) ==
  /\ "nan" \notin {l.t, r.t}
  /\ Pole(l) < Pole(r) \/ (Pole(l) = Pole(r) /\ l.v < r.v)

Compare(op, l, r) ==
  CASE op = "eq" -> Equal(l, r) [] op = "ne" -> ~Equal(l, r)
    [] op = "lt" -> Less(l, r)  [] op = "le" -> Less(l, r) \/ Equal(l, r)
    [] op = "gt" -> Less(r, l)  [] op = "ge" -> Less(r, l) \/ Equal(l, r)

(* The first answer of a sequence that is not the one expected.            *)
FirstOther(answers, expected) ==
  LET others == {i \in DOMAIN answers : answers[i] # expected}
  IN IF others = {} THEN expected
     ELSE answers[CHOOSE i \in others : \A j \in others : i <= j]

TruthValue(holds) == IF holds THEN "true" ELSE "false"
Opposite(truth) ==
  CASE truth = "true" -> "false" [] truth = "false" -> "true" [] OTHER -> truth

(* _condition: "true", "false", or what an expression in it raises; all    *)
(* and any stop at the first item that decides.                            *)
Truth(c, env) ==
  LET Compared(x, l, r) ==
        IF l.t \in Raised THEN l.t
        ELSE IF r.t \in Raised THEN r.t
        ELSE TruthValue(Compare(x.op, l, r))
      truth[x \in Condition] ==
        CASE x.k = "constant" -> TruthValue(x.value)
          [] x.k = "comparison" -> Compared(x, Value(x.left, env), Value(x.right, env))
          [] x.k = "all" ->
               FirstOther([i \in DOMAIN x.conditions |-> truth[x.conditions[i]]], "true")
          [] x.k = "any" ->
               FirstOther([i \in DOMAIN x.conditions |-> truth[x.conditions[i]]], "false")
          [] x.k = "not" -> Opposite(truth[x.condition])
  IN truth[c]

Holds(c, env) == Truth(c, env) = "true"

(* What is seen of an answer or a type: what was raised, or nothing.       *)
Notice(answer) == IF answer \in Raised THEN answer ELSE "ok"

(* _failed_comparisons, for the hints of a rejection: it goes through      *)
(* items that _condition did not reach; "ok" or what one of them raises.   *)
Hints(c, env) ==
  LET hints[x \in Condition] ==
        CASE x.k \in {"constant", "not"} -> "ok"
          [] x.k = "comparison" -> Notice(Truth(x, env))
          [] x.k = "any" /\ Truth(x, env) # "false" -> Notice(Truth(x, env))
          [] OTHER ->
               FirstOther([i \in DOMAIN x.conditions |-> hints[x.conditions[i]]], "ok")
  IN hints[c]

(* The comparisons that a condition is made of.                            *)
Comparisons(c) ==
  LET comparisons[x \in Condition] ==
        CASE x.k = "constant" -> {}
          [] x.k = "comparison" -> {x}
          [] x.k \in {"all", "any", "not"} -> UNION {comparisons[y] : y \in Parts(x)}
  IN comparisons[c]

(* A transition is a sequence of assignments <<target, expression>> that   *)
(* take effect together.                                                   *)
Transition(assignments, env) ==
  [x \in DOMAIN env.state |->
     IF \E i \in DOMAIN assignments : assignments[i][1] = x
     THEN Value(assignments[CHOOSE i \in DOMAIN assignments :
                              assignments[i][1] = x][2], env)
     ELSE env.state[x]]

(* The first of its expressions to raise.                                  *)
Evaluated(assignments, env) ==
  FirstOther([i \in DOMAIN assignments |-> Notice(Value(assignments[i][2], env).t)], "ok")

-----------------------------------------------------------------------------
(***************************************************************************)
(* Validation.                                                             *)
(***************************************************************************)

NamesOf(specs) == {specs[i].name : i \in DOMAIN specs}
SpecOf(specs, x) == specs[CHOOSE i \in DOMAIN specs : specs[i].name = x]
SpecsFor(c, source) == IF source = "input" THEN c.inputs ELSE c.states

RefsKnown(e, c) ==
  LET known[x \in Expression] ==
        CASE x.k = "literal" -> TRUE
          [] x.k = "ref" -> x.name \in NamesOf(SpecsFor(c, x.source))
          [] x.k = "binary" -> known[x.left] /\ known[x.right]
  IN known[e]

(* _infer_expression_type.                                                 *)
CombinedType(ts) ==
  IF ~(ts \subseteq NumericTypes) THEN "failure"
  ELSE IF "real" \in ts THEN "real" ELSE "integer"

TypeOf(e, c) ==
  LET type[x \in Expression] ==
        CASE x.k = "literal" -> x.value.t
          [] x.k = "ref" -> SpecOf(SpecsFor(c, x.source), x.name).type
          [] x.k = "binary" -> CombinedType({type[x.left], type[x.right]})
  IN type[e]

Compatible(s, t) ==
  s # "failure" /\ t # "failure" /\ (s = t \/ {s, t} = NumericTypes)

(* Numbers assigned without regard to their type (a mutant of Assignable). *)
AssignableEither(s, t) == s = t \/ {s, t} = NumericTypes

Assignable(s, t) == s = t \/ (s = "integer" /\ t = "real")

MatchesType(s, t) ==
  s.t = t \/ (t = "real" /\ s.t \in FloatTypes \cup {"integer"})

Conditions(c) == {c.pre, c.post, c.restoration}
Assignments(c) == ToSet(c.forward) \cup ToSet(c.compensation)

TargetsOK(c) ==
  \A tr \in {c.forward, c.compensation} :
    /\ \A i, j \in DOMAIN tr : tr[i][1] = tr[j][1] => i = j
    /\ \A i \in DOMAIN tr : tr[i][1] \in NamesOf(c.states)

NamesOK(c) ==
  /\ Cardinality(NamesOf(c.states)) = Len(c.states)
  /\ Cardinality(NamesOf(c.inputs)) = Len(c.inputs)
  /\ NamesOf(c.states) \cap NamesOf(c.inputs) = {}
  /\ c.states # <<>>

ExpressionsOK(c) ==
  /\ \A cond \in Conditions(c) : \A p \in Comparisons(cond) :
       /\ RefsKnown(p.left, c) /\ RefsKnown(p.right, c)
       /\ Compatible(TypeOf(p.left, c), TypeOf(p.right, c))
  /\ \A a \in Assignments(c) :
       /\ RefsKnown(a[2], c)
       /\ Assignable(TypeOf(a[2], c), SpecOf(c.states, a[1]).type)

(* _validate_contract, and what verify answers when it raises.             *)
Validation(c) ==
  IF ~(NamesOK(c) /\ c.identity # "") THEN "invalid"
  ELSE IF c.irreversible THEN "unsupported"
  ELSE IF ~(TargetsOK(c) /\ ExpressionsOK(c)) THEN "invalid"
  ELSE "ok"

(* _domain: the values of a variable.                                      *)
DomainOf(spec) ==
  IF spec.allowed # <<>> THEN spec.allowed
  ELSE IF spec.type = "boolean"
       THEN <<Scalar("boolean", 0), Scalar("boolean", 1)>>
  ELSE IF spec.type = "integer" /\ spec.bounds # <<>>
       THEN [i \in 1..(spec.bounds[2] - spec.bounds[1] + 1) |->
               Scalar("integer", spec.bounds[1] + i - 1)]
  ELSE <<>>

DomainStatus(spec, max) ==
  LET values == DomainOf(spec) IN
  IF values = <<>> THEN "unsupported"
  ELSE IF Len(values) > max THEN "unknown"
  ELSE IF \E i \in DOMAIN values : ~MatchesType(values[i], spec.type)
       THEN "invalid"
  ELSE "ok"

FirstProblem(answers) == FirstOther(answers, "ok")

(* The counters of two nested loops, the inner one of n rounds, in their   *)
(* k-th round.                                                             *)
Outer(k, n) == ((k - 1) \div n) + 1
Inner(k, n) == ((k - 1) % n) + 1

With(r, x, v) == [y \in DOMAIN r \cup {x} |-> IF y = x THEN v ELSE r[y]]

(* A variable more, whose values come round fastest.                       *)
Extended(records, x, values) ==
  [k \in 1..(Len(records) * Len(values)) |->
     With(records[Outer(k, Len(values))], x, values[Inner(k, Len(values))])]

(* _records: every choice of values.                                       *)
Records(specs) ==
  LET records[n \in 0..Len(specs)] ==
        IF n = 0 THEN << <<>> >>
        ELSE Extended(records[n - 1], specs[n].name, DomainOf(specs[n]))
  IN records[Len(specs)]

DomainSize(specs) ==
  FoldLeft(LAMBDA n, spec : n * Len(DomainOf(spec)), 1, specs)

-----------------------------------------------------------------------------
(***************************************************************************)
(* verify.                                                                 *)
(***************************************************************************)

(* The cases in the order of the two loops.                                *)
Cases(c) ==
  LET Paired(ss, is) ==
        [n \in 1..(Len(ss) * Len(is)) |-> <<ss[Outer(n, Len(is))], is[Inner(n, Len(is))]>>]
  IN Paired(Records(c.states), Records(c.inputs))

Env(st, original, inputs) ==
  [state |-> st, original |-> original, input |-> inputs]

Forward(c, st, inputs) == Transition(c.forward, Env(st, st, inputs))

(* A compensation given the state after the forward step for the original  *)
(* one (a mutant of Compensated).                                          *)
CompensatedFromAfter(c, after, original, inputs) ==
  Transition(c.compensation, Env(after, after, inputs))

(* The compensation sees the state after the forward step, the original    *)
(* one and the inputs.                                                     *)
Compensated(c, after, original, inputs) ==
  Transition(c.compensation, Env(after, original, inputs))

(* _ensure_state_types.                                                    *)
WellTyped(c, st) ==
  IF \A i \in DOMAIN c.states : MatchesType(st[c.states[i].name], c.states[i].type)
  THEN "ok" ELSE "failure"

(* A condition that must hold, and the hints where it does not.            *)
Demanded(property, truth, hints) ==
  CASE truth = "true" -> "ok"
    [] truth \in Raised -> truth
    [] OTHER -> FirstProblem(<<hints, property>>)

Met(property, cond, env) == Demanded(property, Truth(cond, env), Hints(cond, env))

(* What one admissible case shows: "ok", the property violated, or what    *)
(* was raised.                                                             *)
CaseOutcome(c, case) ==
  LET st == case[1]
      inputs == case[2]
      after == Forward(c, st, inputs)
      restored == Compensated(c, after, st, inputs)
  IN FirstProblem(<<Evaluated(c.forward, Env(st, st, inputs)),
                    WellTyped(c, after),
                    Met("postcondition", c.post, Env(after, st, inputs)),
                    Evaluated(c.compensation, Env(after, st, inputs)),
                    WellTyped(c, restored),
                    Met("restoration", c.restoration, Env(restored, st, inputs))>>)

Admission(c, case) == Truth(c.pre, Env(case[1], case[1], case[2]))

(* What one round of the loops finds.                                      *)
Outcome(c, case) ==
  CASE Admission(c, case) = "true" -> CaseOutcome(c, case)
    [] Admission(c, case) = "false" -> "ok"
    [] OTHER -> Admission(c, case)

NoCase == <<>>

Answer(c, status, checked, admissible, case, about) ==
  [status |-> status, identity |-> c.identity, checked |-> checked,
   admissible |-> admissible, case |-> case, about |-> about]

(* The answer without a counterexample.                                    *)
Plainly(c, status, checked, admissible) ==
  Answer(c, status, checked, admissible, NoCase, "none")

(* What the loops find: they stop at the first bad case, with a            *)
(* counterexample unless something was raised.                             *)
Search(c, cases, admitted, outcomes) ==
  LET bad == {n \in DOMAIN cases : outcomes[n] # "ok"}
      upTo(n) == Cardinality({m \in admitted : m <= n})
      StopAt(n, outcome) ==
        IF outcome \in Raised THEN Answer(c, "invalid", n, upTo(n), NoCase, outcome)
        ELSE Answer(c, "rejected", n, upTo(n), cases[n], outcome)
      stop == CHOOSE n \in bad : \A m \in bad : n <= m
  IN IF bad # {} THEN StopAt(stop, outcomes[stop])
     ELSE Plainly(c, IF admitted = {} THEN "invalid" ELSE "proved",
                  Len(cases), Cardinality(admitted))

Loops(c, cases) ==
  Search(c, cases, {n \in DOMAIN cases : Admission(c, cases[n]) = "true"},
         [n \in DOMAIN cases |-> Outcome(c, cases[n])])

(* What objects before the loops.                                          *)
Objection(c, max) ==
  FirstProblem(<<Validation(c)>> \o [i \in DOMAIN c.states |-> DomainStatus(c.states[i], max)]
                                 \o [i \in DOMAIN c.inputs |-> DomainStatus(c.inputs[i], max)])

Judgement(c, max, objection) ==
  IF objection # "ok" THEN Plainly(c, objection, 0, 0)
  ELSE IF DomainSize(c.states) * DomainSize(c.inputs) > max
       THEN Plainly(c, "unknown", 0, 0)
  ELSE Loops(c, Cases(c))

Certificate(c, max) == Judgement(c, max, Objection(c, max))

=============================================================================
