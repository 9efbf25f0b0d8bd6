------------------------------ MODULE ToolGate ------------------------------
(***************************************************************************)
(* What a tool passes before it is registered (ToolRegistry.register in    *)
(* sandbox.py) and a call before it runs: the SMT invariant of its step    *)
(* (verifier/z3_prover.py), its typed policy (policy.py) and its           *)
(* capabilities (sandbox.py); and the rollback of calls whose tools have a *)
(* proved compensation contract.                                           *)
(*                                                                         *)
(* A string is a scalar whose number is its length; a negative length      *)
(* marks a path that leads out of the workspace.                           *)
(***************************************************************************)
EXTENDS Contracts

CONSTANTS
  Scenario,     \* [offered, world, solver]: the definitions that a process
                \* tries to register, the variables that their tools find, and
                \* whether it can import z3
  Attempt(_),   \* <<arguments, invariant>> of the calls tried of a tool: an
                \* invariant is a text, see below
  NoText,       \* no SMT text
  BlankText,    \* a text of whitespace only
  NoPolicy, NoContract,
  MaxCases,     \* max_cases of the verifier
  MaxCalls      \* bound: calls that run

(* What definitions, variables and arguments are before any check: the     *)
(* parts of a policy and a contract are listed, bounds and scalars have    *)
(* numbers.                                                                *)
RulesOK(rules) ==
  /\ rules \in Seq(ToSet(rules))
  /\ \A i \in DOMAIN rules :
       rules[i].min \cup rules[i].max \cup rules[i].length \subseteq Int

SpecOK(spec) ==
  /\ spec.type \in Types
  /\ spec.allowed \in Seq(ScalarValue)
  /\ spec.bounds = <<>> \/ spec.bounds \in Int \X Int

ContractOK(c) ==
  /\ Conditions(c) \subseteq Condition
  /\ \A a \in Assignments(c) : a[2] \in Expression
  /\ \A list \in {c.states, c.inputs, c.forward, c.compensation} :
       list \in Seq(ToSet(list))
  /\ \A spec \in ToSet(c.states) \cup ToSet(c.inputs) : SpecOK(spec)

ArgumentsOK(args) == \A x \in DOMAIN args : args[x] \in ScalarValue
WorldOK(st) == \A x \in DOMAIN st : st[x] \in Result

ASSUME GateAssumption ==
  /\ MaxCalls \in Nat
  /\ NoText # BlankText
  /\ \A scene \in Scenario :
       /\ WorldOK(scene.world)
       /\ \A d \in scene.offered :
            /\ d.policy # NoPolicy => RulesOK(d.policy.rules)
            /\ d.contract # NoContract => ContractOK(d.contract)
            /\ \A attempt \in Attempt(d) : ArgumentsOK(attempt[1])

VARIABLES
  offered,   \* the definitions not yet presented for registration
  tools,     \* the registry: a set of definitions
  decision,  \* the last answer to a registration or a call
  solver,    \* whether z3 could be imported
  world,     \* the variables that the tools with a contract work on
  log,       \* their calls that ran: tool, inputs, and the world before
  undone     \* how many of them have been compensated, from the last

vars == <<offered, tools, decision, solver, world, log, undone>>

Nothing == [kind |-> "none"]

Init ==
  /\ \E scene \in Scenario :
       /\ offered = scene.offered
       /\ world = scene.world
       /\ solver = scene.solver
  /\ tools = {}
  /\ decision = Nothing
  /\ log = <<>>
  /\ undone = 0

-----------------------------------------------------------------------------
(***************************************************************************)
(* The typed policy.                                                       *)
(***************************************************************************)

Length(s) == IF s.v < 0 THEN -s.v ELSE s.v
Escapes(s) == s.v < 0

(* _has_kind.                                                              *)
HasKind(s, kind) ==
  CASE kind \in {"string", "path"} -> s.t = "string"
    [] kind = "number" -> s.t \in NumericTypes
    [] OTHER -> s.t = kind

(* A rule that forgets to look at the type (a mutant of RuleAnswer).       *)
RuleUntyped(rule, args) ==
  IF rule.name \notin DOMAIN args
  THEN IF rule.required THEN "required" ELSE "ok"
  ELSE LET s == args[rule.name] IN
       CASE rule.kind = "path" /\ Escapes(s) -> "containment"
         [] rule.values # {} /\ s.v \notin rule.values -> "enum"
         [] \E m \in rule.min : s.v < m -> "minimum"
         [] \E m \in rule.max : s.v > m -> "maximum"
         [] \E m \in rule.length : Length(s) > m -> "max_length"
         [] OTHER -> "ok"

(* A rule [name, kind, required, values, min, max, length]: values is the  *)
(* set of enum_values, min, max and length sets of at most one bound.      *)
RuleAnswer(rule, args) ==
  IF rule.name \notin DOMAIN args
  THEN IF rule.required THEN "required" ELSE "ok"
  ELSE LET s == args[rule.name] IN
       CASE ~HasKind(s, rule.kind) -> "type"
         [] rule.kind = "path" /\ Escapes(s) -> "containment"
         [] rule.values # {} /\ s.v \notin rule.values -> "enum"
         [] \E m \in rule.min : s.v < m -> "minimum"
         [] \E m \in rule.max : s.v > m -> "maximum"
         [] \E m \in rule.length : Length(s) > m -> "max_length"
         [] OTHER -> "ok"

(* _evaluate_typed: the first rule that objects, then unknown arguments.   *)
TypedAnswer(policy, args) ==
  LET objection == FirstProblem([i \in DOMAIN policy.rules |->
                                   RuleAnswer(policy.rules[i], args)])
      named == {policy.rules[i].name : i \in DOMAIN policy.rules}
  IN IF objection # "ok" THEN objection
     ELSE IF ~policy.extra /\ ~(DOMAIN args \subseteq named)
          THEN "additionalProperties"
     ELSE "ok"

-----------------------------------------------------------------------------
(***************************************************************************)
(* The SMT gate.  A text is a sequence of assertions over the arguments,   *)
(* BlankText or NoText.                                                    *)
(***************************************************************************)

Scalars(args) == {x \in DOMAIN args : args[x].t \in Types}

(* Every number is declared as a Real.                                     *)
Sort(type) == IF type \in NumericTypes THEN "real" ELSE type

SortOf(e, args) ==
  IF e.k = "literal" THEN Sort(e.value.t) ELSE Sort(args[e.name].t)

Declared(e, names) == e.k = "ref" => e.name \in names

(* parse_smt2_string accepts the text over the declared arguments.         *)
Parses(text, args) ==
  \A i \in DOMAIN text : \A p \in Comparisons(text[i]) :
    /\ Declared(p.left, Scalars(args)) /\ Declared(p.right, Scalars(args))
    /\ SortOf(p.left, args) = SortOf(p.right, args)
    /\ p.op \notin {"eq", "ne"} => SortOf(p.left, args) = "real"

Entailed(text, args) ==
  \A i \in DOMAIN text : Holds(text[i], [input |-> args])

PathContained(args) ==
  "path" \in DOMAIN args =>
    args["path"].t = "string" /\ ~Escapes(args["path"])

SolverAnswers(text, args) ==
  {IF Entailed(text, args) THEN "ok" ELSE "rejected", "timeout"}

(* _derive_repair_constraints takes the word true or false on the right    *)
(* for a number, and raises.                                               *)
HintsRaise(text, args) ==
  \E i \in DOMAIN text : \E p \in Comparisons(text[i]) :
    /\ p.left.k = "ref" /\ p.op = "eq"
    /\ p.right.k = "literal" /\ p.right.value.t = "boolean"

(* verify, the interface that the coordinator uses: values it cannot       *)
(* declare are skipped, and so is a text without assertions.               *)
CompatibleAnswers(text, args) ==
  IF ~solver THEN {IF PathContained(args) THEN "ok" ELSE "rejected"}
  ELSE IF text \in {NoText, BlankText, <<>>} THEN {"ok"}
  ELSE IF ~Parses(text, args) THEN {"rejected"}
  ELSE SolverAnswers(text, args)

(* verify_detailed, the interface that a policy uses.                      *)
DetailedAnswers(text, args) ==
  IF Scalars(args) # DOMAIN args THEN {"unsupported"}
  ELSE IF text = BlankText THEN {IF PathContained(args) THEN "ok" ELSE "rejected"}
  ELSE IF ~solver THEN {"unknown"}
  ELSE IF ~Parses(text, args) \/ text = <<>> THEN {"invalid"}
  ELSE {IF a = "rejected" /\ HintsRaise(text, args) THEN "raised" ELSE a :
          a \in SolverAnswers(text, args)}

-----------------------------------------------------------------------------
(***************************************************************************)
(* Registration and calls.                                                 *)
(***************************************************************************)

(* A certificate that need not say "proved" (a mutant of RegistrationOK).   *)
RegistrationLax(d, certificate) ==
  /\ d.writes # {} => d.mutating
  /\ d.mutating => d.policy # NoPolicy
  /\ d.policy # NoPolicy => d.policy.tool = d.name
  /\ d.requires =>
       /\ certificate # Nothing
       /\ d.identity # "" /\ certificate.identity = d.identity

RegistrationOK(d, certificate) ==
  /\ d.writes # {} => d.mutating
  /\ d.mutating => d.policy # NoPolicy
  /\ d.policy # NoPolicy => d.policy.tool = d.name
  /\ d.requires =>
       /\ certificate # Nothing /\ certificate.status = "proved"
       /\ d.identity # "" /\ certificate.identity = d.identity

CertificateOf(d) ==
  IF d.contract = NoContract THEN Nothing ELSE Certificate(d.contract, MaxCases)

(* The answer to a registration; a definition replaces the one of the same *)
(* name.                                                                   *)
Decide(d, certificate) ==
  LET accepted == RegistrationOK(d, certificate)
  IN /\ tools' = IF accepted
                 THEN {e \in tools : e.name # d.name} \cup {d} ELSE tools
     /\ decision' = [kind |-> "register", tool |-> d, accepted |-> accepted,
                     certificate |-> certificate]

Register(d) ==
  /\ d \in offered /\ decision = Nothing
  /\ offered' = offered \ {d}
  /\ Decide(d, CertificateOf(d))
  /\ UNCHANGED <<solver, world, log, undone>>

(* require, as _validate_policy calls it.                                  *)
PolicyAnswers(d, args) ==
  IF ~d.mutating THEN {"ok"}
  ELSE IF ~d.policy.mutating THEN {"mutation_classification"}
  ELSE IF TypedAnswer(d.policy, args) # "ok" THEN {TypedAnswer(d.policy, args)}
  ELSE IF d.policy.smt = NoText THEN {"ok"}
  ELSE DetailedAnswers(d.policy.smt, args)

(* _validate_capabilities: paths says of the path arguments whether they   *)
(* are for "read" or "write", reads and writes are what the patterns of    *)
(* the manifest match.                                                     *)
Granted(d, x) == IF d.paths[x] = "read" THEN d.reads ELSE d.writes

CapabilityAnswer(d, args) ==
  IF d.memory < 64 THEN "memory"
  ELSE IF \E x \in DOMAIN d.paths \cap DOMAIN args :
            \/ args[x].t # "string" \/ Escapes(args[x])
            \/ Length(args[x]) \notin Granted(d, x)
       THEN "capability"
  ELSE IF d.network THEN "network"
  ELSE "ok"

(* WasmSandbox.validate.                                                   *)
ValidateAnswers(d, args) ==
  UNION {IF b # "ok" THEN {b} ELSE {CapabilityAnswer(d, args)} :
           b \in PolicyAnswers(d, args)}

(* The gates in the order of execute_saga.                                 *)
CallAnswers(d, args, text) ==
  UNION {IF a # "ok" THEN {a} ELSE ValidateAnswers(d, args) :
           a \in CompatibleAnswers(text, args)}

InputsOf(d, args) ==
  [x \in NamesOf(d.contract.inputs) \cap DOMAIN args |-> args[x]]

(* A call that is admitted runs.                                           *)
Call(d, args, text) ==
  /\ decision = Nothing /\ offered = {}
  /\ undone = 0 /\ Len(log) < MaxCalls
  /\ \E answer \in CallAnswers(d, args, text) :
       /\ decision' = [kind |-> "call", tool |-> d, args |-> args,
                       text |-> text, answer |-> answer]
       /\ IF answer = "ok" /\ d.contract # NoContract
          THEN /\ world' = Forward(d.contract, world, InputsOf(d, args))
               /\ log' = Append(log, [tool |-> d, before |-> world,
                                      inputs |-> InputsOf(d, args)])
          ELSE UNCHANGED <<world, log>>
  /\ UNCHANGED <<offered, tools, solver, undone>>

(* The first one that is left (a mutant of NextUndone).                    *)
NextUndoneFirst == undone + 1

(* The next call to compensate: the last one that is left.                 *)
NextUndone == Len(log) - undone

(* The rollback of the saga, by the compensation that the contract         *)
(* describes.                                                              *)
Undo ==
  /\ decision = Nothing /\ undone < Len(log)
  /\ LET step == log[NextUndone]
     IN world' = Compensated(step.tool.contract, world, step.before, step.inputs)
  /\ undone' = undone + 1
  /\ UNCHANGED <<offered, decision, tools, solver, log>>

(* The answer has reached the caller.                                      *)
Answered ==
  /\ decision # Nothing
  /\ decision' = Nothing
  /\ UNCHANGED <<offered, tools, solver, world, log, undone>>

Next ==
  \/ \E d \in offered : Register(d)
  \/ \E d \in tools : \E attempt \in Attempt(d) : Call(d, attempt[1], attempt[2])
  \/ Undo
  \/ Answered

Spec == Init /\ [][Next]_vars

-----------------------------------------------------------------------------
(***************************************************************************)
(* Properties.                                                             *)
(***************************************************************************)

(* The registry, the log and the rollback are well formed; and after each  *)
(* registration, every tool that asks for a certificate has one that is    *)
(* proved, of its own contract (ToolRegistry.register).                    *)
TypeOK ==
  /\ \A d \in tools : d.requires => d.contract # NoContract
  /\ decision.kind = "register" =>
       \A d \in tools : d.requires => CertificateOf(d).status = "proved"
  /\ Len(log) <= MaxCalls /\ undone \in 0..Len(log)
  /\ \A i \in DOMAIN log : log[i].tool \in tools
  /\ \A d, e \in tools : d.name = e.name => d = e

(* The records of one value per variable.                                  *)
Valuations(specs) ==
  {r \in [NamesOf(specs) -> UNION {ToSet(DomainOf(specs[i])) : i \in DOMAIN specs}] :
     \A i \in DOMAIN specs : r[specs[i].name] \in ToSet(DomainOf(specs[i]))}

(* Evaluation gave a value for every variable.                             *)
Defined(st) == \A x \in DOMAIN st : st[x].t \notin Raised

(* What a proof promises, said without loops.                              *)
Restored(c, case, restored) ==
  Defined(restored) /\ Holds(c.restoration, Env(restored, case[1], case[2]))

Restorable(c, case, after) ==
  /\ Defined(after)
  /\ Holds(c.post, Env(after, case[1], case[2]))
  /\ Restored(c, case, Transition(c.compensation, Env(after, case[1], case[2])))

Reversible(c, case) ==
  Restorable(c, case, Transition(c.forward, Env(case[1], case[1], case[2])))

Finite(c) ==
  /\ \A i \in DOMAIN c.states : DomainStatus(c.states[i], MaxCases) = "ok"
  /\ \A i \in DOMAIN c.inputs : DomainStatus(c.inputs[i], MaxCases) = "ok"
  /\ ~(DomainSize(c.states) * DomainSize(c.inputs) > MaxCases)

(* The cases of a contract, those that its precondition admits, and those  *)
(* in which it cannot be evaluated.                                        *)
AllCases(c) == Valuations(c.states) \X Valuations(c.inputs)
AdmissibleCases(c) == {case \in AllCases(c) : Admission(c, case) = "true"}
RaisingCases(c) == {case \in AllCases(c) : Admission(c, case) \in Raised}

IsTrueOf(cert, c, cases) ==
  /\ cert.status = "proved" <=>
       /\ Validation(c) = "ok" /\ Finite(c) /\ cases # {} /\ RaisingCases(c) = {}
       /\ \A case \in cases : Reversible(c, case)
  /\ cert.status = "rejected" => cert.case \in cases /\ ~Reversible(c, cert.case)

(* A certificate says "proved" exactly of the well-formed finite contracts *)
(* that can be evaluated and are reversible in every admissible case and   *)
(* have one, and a rejection shows an admissible case that is not          *)
(* reversible (verify).                                                    *)
CertificateIsTrue ==
  (decision.kind = "register" /\ decision.tool.contract # NoContract) =>
    IsTrueOf(decision.certificate, decision.tool.contract,
             AdmissibleCases(decision.tool.contract))

(* The expressions of a contract that are assigned or compared.            *)
Written(c) ==
  {a[2] : a \in Assignments(c)}
  \cup UNION {{p.left, p.right} : p \in UNION {Comparisons(cond) : cond \in Conditions(c)}}

(* How the evaluation of a contract may have failed: not by a type, and by *)
(* OverflowError only where the contract computes with reals.              *)
SoundFailure(about, c) ==
  /\ about # "failure"
  /\ about = "overflow" => \E e \in Written(c) : TypeOf(e, c) = "real"

(* The static types of the language are sound: a contract that passes      *)
(* validation never fails in evaluation by a type; it can fail only where  *)
(* an integer meets a float and is too large for one, and so never without *)
(* reals (_validate_contract against _expression and                       *)
(* _ensure_state_types).                                                   *)
OnlyOverflowFails ==
  decision.kind = "register" /\ decision.certificate # Nothing =>
    SoundFailure(decision.certificate.about, decision.tool.contract)

Conforms(rule, args) ==
  IF rule.name \notin DOMAIN args THEN ~rule.required
  ELSE LET s == args[rule.name] IN
       /\ s.t \in (CASE rule.kind \in {"string", "path"} -> {"string"}
                     [] rule.kind = "number" -> NumericTypes
                     [] OTHER -> {rule.kind})
       /\ rule.kind = "path" => s.v >= 0
       /\ rule.values = {} \/ s.v \in rule.values
       /\ \A m \in rule.min : m <= s.v
       /\ \A m \in rule.max : s.v <= m
       /\ \A m \in rule.length : s.v \in (-m)..m

(* Of a mutating tool only calls are admitted that keep every rule of its  *)
(* policy, name no other argument unless it may, satisfy the policy's SMT  *)
(* text in the eyes of a solver, and stay within the paths granted for     *)
(* their kind of access; with a solver every admitted call satisfies its   *)
(* invariant.                                                              *)
AdmittedConforms ==
  (decision.kind = "call" /\ decision.answer = "ok") =>
    LET d == decision.tool
        args == decision.args
    IN /\ d.mutating =>
            /\ \A i \in DOMAIN d.policy.rules : Conforms(d.policy.rules[i], args)
            /\ d.policy.extra
               \/ \A x \in DOMAIN args : \E i \in DOMAIN d.policy.rules :
                     d.policy.rules[i].name = x
            /\ d.policy.smt \notin {NoText, BlankText} =>
                 solver /\ Entailed(d.policy.smt, args)
            /\ d.policy.smt = BlankText => PathContained(args)
       /\ \A x \in DOMAIN d.paths \cap DOMAIN args : args[x].v \in Granted(d, x)
       /\ solver /\ decision.text \notin {NoText, BlankText} =>
            Entailed(decision.text, args)

(* The restoration condition demands the original value of every variable, *)
(* and of none that may be 1 where it was 1.0: they compare equal, and     *)
(* arithmetic tells them apart.                                            *)
Pins(c) ==
  /\ c.restoration.k = "all"
  /\ \A i \in DOMAIN c.states : c.states[i].type # "real"
  /\ \A x \in NamesOf(c.states) :
       Comparison("eq", Ref("state", x), Ref("original", x))
         \in ToSet(c.restoration.conditions)

(* The call began in a case that the proof of its tool covers.             *)
Covered(step) ==
  LET c == step.tool.contract
  IN /\ step.tool.requires
     /\ step.inputs \in Valuations(c.inputs)
     /\ NamesOf(c.states) \subseteq DOMAIN step.before
     /\ [x \in NamesOf(c.states) |-> step.before[x]] \in Valuations(c.states)
     /\ Holds(c.pre, Env(step.before, step.before, step.inputs))

(* Proofs of single tools carry over to a saga: when the calls that are    *)
(* compensated so far all began where their proofs cover them, and the     *)
(* later ones promise to restore every variable and have no reals, then    *)
(* the earliest of them has got what its contract promises                 *)
(* (execute_compensations in LIFO order over tools with certificates).     *)
RollbackRestores ==
  undone > 0 =>
    LET i == Len(log) + 1 - undone
        step == log[i]
    IN (/\ \A j \in i..Len(log) : Covered(log[j])
        /\ \A j \in (i + 1)..Len(log) : Pins(log[j].tool.contract))
       => Holds(step.tool.contract.restoration,
                Env(world, step.before, step.inputs))
=============================================================================
