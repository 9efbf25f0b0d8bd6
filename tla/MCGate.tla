------------------------------- MODULE MCGate -------------------------------
(***************************************************************************)
(* Small contracts, policies and calls for ToolGate.                       *)
(***************************************************************************)
EXTENDS Speculation

CONSTANTS p, q

N == Ref("state", "n")
F == Ref("state", "f")
I == Ref("input", "i")
Was(x) == Ref("original", x)
Whole(m) == Literal(Scalar("integer", m))
True == BoolConstant(TRUE)
Kept(x) == Comparison("eq", Ref("state", x), Was(x))

NSpec == VariableSpec("n", "integer", <<0, 2>>, <<>>)
FSpec == VariableSpec("f", "boolean", <<>>, <<>>)
ISpec == VariableSpec("i", "integer", <<0, 1>>, <<>>)

Contract(pre, forward, post, compensation, restoration) ==
  [states |-> <<NSpec, FSpec>>, inputs |-> <<ISpec>>, pre |-> pre,
   forward |-> forward, post |-> post, compensation |-> compensation,
   restoration |-> restoration, identity |-> "impl", irreversible |-> FALSE]

(* Sums, products, overwriting; inverse, snapshot or no compensation; a    *)
(* promise to restore everything, one variable, or next to nothing.        *)
Contracts1 ==
  {Contract(pre, forward, post, compensation, restoration) :
     pre \in {True, Comparison("lt", N, Whole(2)),
              Comparison("gt", N, Whole(5))},
     forward \in {<< <<"n", Binary("add", N, I)>> >>,
                  << <<"n", Binary("multiply", N, I)>>, <<"f", Literal(Scalar("boolean", 1))>> >>},
     post \in {True, Comparison("ge", N, Was("n"))},
     compensation \in {<< <<"n", Binary("subtract", N, I)>> >>,
                       << <<"n", Was("n")>>, <<"f", Was("f")>> >>, <<>>},
     restoration \in {AllOf(<<Kept("n"), Kept("f")>>), Kept("n"),
                      AnyOf(<<Kept("f"), Negation(Comparison("lt", N, Whole(0)))>>)}}

Plain == Contract(True, << <<"n", I>> >>, True, << <<"n", Was("n")>> >>, Kept("n"))

(* Contracts that are no use, each in its own way.                         *)
Broken(c) ==
  {[c EXCEPT !.irreversible = TRUE],
   [c EXCEPT !.identity = ""],
   [c EXCEPT !.states = <<NSpec, NSpec>>],
   [c EXCEPT !.inputs = <<ISpec, FSpec>>],
   [c EXCEPT !.states = <<>>],
   [c EXCEPT !.forward = << <<"n", I>>, <<"n", N>> >>],
   [c EXCEPT !.forward = << <<"i", N>> >>],
   [c EXCEPT !.forward = << <<"n", Ref("input", "n")>> >>],
   [c EXCEPT !.forward = << <<"n", F>> >>],
   [c EXCEPT !.forward = << <<"n", Binary("add", N, F)>> >>],
   [c EXCEPT !.pre = Comparison("eq", N, F)],
   [c EXCEPT !.states[1].type = "real"],
   [c EXCEPT !.states[1].bounds = <<>>],
   [c EXCEPT !.states[1].bounds = <<0, 30>>],
   [c EXCEPT !.states[1].bounds = <<0, 7>>],
   [c EXCEPT !.states[1].allowed = <<Scalar("boolean", 1)>>]}

Malformed == Broken(Plain)

(* Floats: every number up to 8, then the even ones up to 14, and none     *)
(* from 15 on.                                                             *)
MCFloat == -8..8 \cup {-14, -12, -10, 10, 12, 14}
Huge == 40

(* Reals: an integer may be assigned to one, not the other way round.      *)
RealSpec == VariableSpec("n", "real", <<>>,
                         <<Scalar("real", 0), Scalar("integer", 1)>>)
Real(m) == Literal(Scalar("real", m))
Set(e) == << <<"n", e>> >>

(* A product that is infinite, and what is left when it is taken away from *)
(* itself.                                                                 *)
Unbounded == Binary("multiply", Binary("add", N, Real(8)), Real(2))
NoNumber == Binary("subtract", Unbounded, Unbounded)

(* An integer too large for a float, in an expression and in comparisons.  *)
TooLarge == Binary("add", Real(1), Whole(Huge))
Overflows == Comparison("gt", TooLarge, Whole(0))
AtMost(m) == Comparison("le", N, Real(m))

OverReals(c) ==
  {c,
   [c EXCEPT !.states[1] = NSpec, !.forward = Set(Real(1))],
   [c EXCEPT !.forward = Set(Binary("add", N, I))],
   [c EXCEPT !.forward = Set(Whole(Huge))],
   [c EXCEPT !.forward = Set(Whole(Huge)), !.restoration = Overflows],
   [c EXCEPT !.forward = Set(TooLarge)],
   [c EXCEPT !.forward = Set(Binary("add", N, Whole(Huge)))],
   [c EXCEPT !.forward = Set(Binary("add", N, Whole(Huge))),
                   !.pre = Comparison("gt", N, Whole(0))],
   [c EXCEPT !.compensation = Set(Binary("subtract", Real(1), Whole(Huge)))],
   [c EXCEPT !.pre = Overflows],
   [c EXCEPT !.post = AnyOf(<<AtMost(1), Overflows>>)],
   [c EXCEPT !.post = AnyOf(<<AtMost(-1), Overflows>>)],
   [c EXCEPT !.post = AllOf(<<AtMost(0), Overflows>>)],
   [c EXCEPT !.post = AllOf(<<AtMost(0), Negation(Overflows)>>)],
   [c EXCEPT !.restoration = AnyOf(<<AtMost(0), AllOf(<<AtMost(0), Overflows>>)>>),
                   !.compensation = Set(Whole(1))],
   [c EXCEPT !.forward = Set(Unbounded), !.post = Comparison("gt", N, Whole(Huge))],
   [c EXCEPT !.forward = Set(Binary("subtract", Whole(9), Unbounded)),
                   !.post = Comparison("ge", N, Was("n"))],
   [c EXCEPT !.forward = Set(NoNumber), !.post = Comparison("ne", N, N)],
   [c EXCEPT !.forward = Set(Binary("multiply", Unbounded, Real(0))),
                   !.post = Kept("n")],
   [c EXCEPT !.forward = Set(Binary("add", N, Real(10))),
                   !.compensation = Set(Binary("subtract", N, Real(10)))]}

Reals == OverReals([Plain EXCEPT !.states[1] = RealSpec])

Rule(x, kind) ==
  [name |-> x, kind |-> kind, required |-> TRUE, values |-> {}, min |-> {},
   max |-> {}, length |-> {}]

Policy(name, rules) ==
  [tool |-> name, mutating |-> TRUE, rules |-> rules, extra |-> FALSE,
   smt |-> NoText]

Tool(name, policy) ==
  [name |-> name, mutating |-> TRUE, policy |-> policy, requires |-> FALSE,
   contract |-> NoContract, identity |-> "impl", memory |-> 256,
   network |-> FALSE, paths |-> <<>>, reads |-> {}, writes |-> {}]

InputRule == [Rule("i", "integer") EXCEPT !.min = {0}, !.max = {1}]

ContractTool(name, c) ==
  [Tool(name, Policy(name, <<InputRule>>)) EXCEPT !.requires = TRUE, !.contract = c]

(* Tools with typed policies: a path and a bounded number, then variants.  *)
PathRule == [Rule("path", "path") EXCEPT !.length = {3}]
NumberRule ==
  [Rule("x", "number") EXCEPT !.min = {3}, !.max = {7}, !.required = FALSE]
YRule == [Rule("y", "integer") EXCEPT !.values = {3, 7}, !.required = FALSE]

X == Ref("input", "x")
Y == Ref("input", "y")
LessThan5 == <<Comparison("lt", X, Whole(5))>>
Ordered == <<Comparison("lt", X, Y)>>
Unset == <<Comparison("eq", X, Literal(Scalar("boolean", 0)))>>

FileTool ==
  [Tool("file", Policy("file", <<PathRule, NumberRule, YRule>>))
     EXCEPT !.paths = [path |-> "write"], !.writes = {1, 2, 3}]

PolicyTools ==
  {FileTool,
   [FileTool EXCEPT !.policy.smt = LessThan5],
   [FileTool EXCEPT !.policy.smt = <<>>],
   [FileTool EXCEPT !.policy.smt = Unset, !.policy.rules[2] = Rule("x", "boolean")],
   [FileTool EXCEPT !.policy.smt = Ordered, !.policy.extra = TRUE],
   [FileTool EXCEPT !.mutating = FALSE],
   [FileTool EXCEPT !.mutating = FALSE, !.writes = {}, !.reads = {2},
                    !.paths = [path |-> "read"]],
   [FileTool EXCEPT !.policy.smt = BlankText],
   [FileTool EXCEPT !.policy = NoPolicy],
   [FileTool EXCEPT !.policy.tool = "other"],
   [FileTool EXCEPT !.policy.mutating = FALSE],
   [FileTool EXCEPT !.memory = 32],
   [FileTool EXCEPT !.network = TRUE],
   [FileTool EXCEPT !.writes = {2}, !.reads = {1}],
   [FileTool EXCEPT !.requires = TRUE],
   [FileTool EXCEPT !.requires = TRUE, !.contract = Plain, !.identity = "other"]}

MCContracts == Contracts1 \cup Malformed \cup Reals \cup {Plain}

(* What is written, with all its parts.                                    *)
RECURSIVE Closed(_)
Closed(S) ==
  LET T == S \cup UNION {Parts(x) : x \in S} IN IF T = S THEN S ELSE Closed(T)

MCTerm ==
  Closed(UNION {Conditions(c) \cup {a[2] : a \in Assignments(c)} : c \in MCContracts}
         \cup UNION {ToSet(text) : text \in {LessThan5, Ordered, Unset}})

RECURSIVE MCDepth(_)
MCDepth(x) ==
  IF Parts(x) = {} THEN 0 ELSE 1 + Max({MCDepth(y) : y \in Parts(x)})

Worlds == [n : {Scalar("integer", m) : m \in 0..2},
           f : {Scalar("boolean", b) : b \in 0..1}]
AWorld == [n |-> Scalar("integer", 1), f |-> Scalar("boolean", 0)]

(* A tool for drafts.                                                      *)
DraftTool ==
  [FileTool EXCEPT !.name = "draft", !.policy.tool = "draft",
                   !.policy.smt = LessThan5]

MCDrafts(registry) ==
  IF DraftTool \notin registry THEN {}
  ELSE LET Draft(name, path, x) ==
             <<name, [path |-> Scalar("string", path), x |-> Scalar("integer", x)]>>
       IN {<<Draft("draft", 1, 7), Draft("draft", 2, 3), Draft("draft", 1, 3)>>,
           <<Draft("draft", 2, 3), Draft("draft", -2, 3)>>,
           <<Draft("other", 1, 3)>>}

MCScenario ==
  [offered : {{ContractTool("s", c)} : c \in Malformed \cup Reals}
             \cup {{d} : d \in PolicyTools \cup {DraftTool}},
   world : {AWorld}, solver : BOOLEAN]
  \cup
  [offered : {{ContractTool("s", c), ContractTool("t", e)} :
                c \in Contracts1,
                e \in {b \in Contracts1 : b.post = True /\ b.pre = True}},
   world : Worlds, solver : {TRUE}]

Paths == {Scalar("string", m) : m \in {-2, 1, 2, 4}} \cup {Scalar("integer", 2)}
Numbers ==
  {Scalar("integer", m) : m \in {2, 3, 7, 8}}
  \cup {Scalar("real", 4), Scalar("string", 4), Scalar("boolean", 1)}

FileArguments ==
  [path : Paths, x : Numbers]
  \cup [path : Paths, x : Numbers, y : {Scalar("integer", 3), Scalar("integer", 7)}]
  \cup [path : Paths] \cup [x : Numbers]
  \cup [path : Paths, x : Numbers, z : {Scalar("nested", 0), Scalar("integer", 1)}]

MCAttempt(d) ==
  IF d = DraftTool THEN {}
  ELSE IF d.contract # NoContract
  THEN {<<[i |-> Scalar("integer", m)], NoText>> : m \in 0..1}
  ELSE FileArguments \X {NoText, BlankText, <<>>, LessThan5, Ordered}
=============================================================================
