----------------------------- MODULE GateProofs ------------------------------
(***************************************************************************)
(* Proofs about ToolGate and Speculation, for every set of definitions,    *)
(* worlds, calls, requests and drafts, and every language of contracts.    *)
(***************************************************************************)
EXTENDS Speculation, ContractProofs

(* _has_kind and _evaluate_typed: a rule that does not object is kept.     *)
LEMMA RuleKept ==
  ASSUME NEW rule, NEW args, ArgumentsOK(args),
         rule.min \cup rule.max \cup rule.length \subseteq Int,
         RuleAnswer(rule, args) = "ok"
  PROVE  Conforms(rule, args)
<1>1. CASE rule.name \notin DOMAIN args
  BY <1>1 DEF RuleAnswer, Conforms
<1>2. CASE rule.name \in DOMAIN args
  <2> DEFINE s == args[rule.name]
  <2>1. s.v \in Int
    BY <1>2, ResultFacts DEF ArgumentsOK
  <2>2. /\ HasKind(s, rule.kind)
        /\ ~(rule.kind = "path" /\ Escapes(s))
        /\ ~(rule.values # {} /\ s.v \notin rule.values)
        /\ ~(\E m \in rule.min : s.v < m)
        /\ ~(\E m \in rule.max : s.v > m)
        /\ ~(\E m \in rule.length : Length(s) > m)
    BY <1>2 DEF RuleAnswer
  <2>3. \A m \in rule.length : s.v \in (-m)..m
    BY <2>1, <2>2 DEF Length
  <2>4. /\ \A m \in rule.min : m <= s.v
        /\ \A m \in rule.max : s.v <= m
    BY <2>1, <2>2
  <2>5. s.t \in (CASE rule.kind \in {"string", "path"} -> {"string"}
                   [] rule.kind = "number" -> NumericTypes
                   [] OTHER -> {rule.kind})
    BY <2>2 DEF HasKind
  <2>6. rule.kind = "path" => s.v >= 0
    BY <2>1, <2>2 DEF Escapes
  <2> QED
    BY <1>2, <2>2, <2>3, <2>4, <2>5, <2>6 DEF Conforms
<1> QED
  BY <1>1, <1>2

(* A policy that answers "ok" finds every rule kept and no argument that   *)
(* it does not name.                                                       *)
LEMMA PolicyKept ==
  ASSUME NEW policy, NEW args, ArgumentsOK(args), RulesOK(policy.rules),
         TypedAnswer(policy, args) = "ok"
  PROVE  /\ \A i \in DOMAIN policy.rules : Conforms(policy.rules[i], args)
         /\ policy.extra
            \/ \A x \in DOMAIN args : \E i \in DOMAIN policy.rules :
                 policy.rules[i].name = x
<1> DEFINE answers == [i \in DOMAIN policy.rules |-> RuleAnswer(policy.rules[i], args)]
           named == {policy.rules[i].name : i \in DOMAIN policy.rules}
<1>1. DOMAIN answers \subseteq Nat
  BY DEF RulesOK
<1>2. FirstProblem(answers) = "ok"
  BY DEF TypedAnswer
<1>3. policy.extra \/ DOMAIN args \subseteq named
  BY <1>2 DEF TypedAnswer
<1>4. ASSUME NEW i \in DOMAIN policy.rules
      PROVE  Conforms(policy.rules[i], args)
  <2>1. answers[i] = "ok"
    BY <1>1, <1>2, ProblemIs
  <2> QED
    BY <2>1, RuleKept DEF RulesOK
<1> QED
  BY <1>3, <1>4

(* The gates in the order of execute_saga, each of which said "ok".        *)
LEMMA Gates ==
  ASSUME NEW d, NEW args, NEW text, "ok" \in CallAnswers(d, args, text)
  PROVE  /\ "ok" \in CompatibleAnswers(text, args)
         /\ "ok" \in PolicyAnswers(d, args)
         /\ CapabilityAnswer(d, args) = "ok"
<1>1. "ok" \in CompatibleAnswers(text, args) /\ "ok" \in ValidateAnswers(d, args)
  BY DEF CallAnswers
<1>2. "ok" \in PolicyAnswers(d, args) /\ CapabilityAnswer(d, args) = "ok"
  BY <1>1 DEF ValidateAnswers
<1> QED
  BY <1>1, <1>2

(* What a call is admitted on, said of the call itself.                    *)
LEMMA AdmissionMeans ==
  ASSUME NEW d, NEW args, NEW text, ArgumentsOK(args),
         d.mutating => d.policy # NoPolicy /\ RulesOK(d.policy.rules),
         "ok" \in CallAnswers(d, args, text)
  PROVE  /\ d.mutating =>
              /\ \A i \in DOMAIN d.policy.rules : Conforms(d.policy.rules[i], args)
              /\ d.policy.extra
                 \/ \A x \in DOMAIN args : \E i \in DOMAIN d.policy.rules :
                       d.policy.rules[i].name = x
              /\ d.policy.smt \notin {NoText, BlankText} =>
                   solver /\ Entailed(d.policy.smt, args)
              /\ d.policy.smt = BlankText => PathContained(args)
         /\ \A x \in DOMAIN d.paths \cap DOMAIN args : args[x].v \in Granted(d, x)
         /\ solver /\ text \notin {NoText, BlankText} => Entailed(text, args)
<1>1. /\ "ok" \in CompatibleAnswers(text, args)
      /\ "ok" \in PolicyAnswers(d, args)
      /\ CapabilityAnswer(d, args) = "ok"
  BY Gates
<1>2. ASSUME d.mutating
      PROVE  /\ TypedAnswer(d.policy, args) = "ok"
             /\ d.policy.smt # NoText => "ok" \in DetailedAnswers(d.policy.smt, args)
  BY <1>1, <1>2 DEF PolicyAnswers
<1>3. ASSUME NEW smt, "ok" \in DetailedAnswers(smt, args)
      PROVE  /\ smt # BlankText => solver /\ Entailed(smt, args)
             /\ smt = BlankText => PathContained(args)
  BY <1>3 DEF DetailedAnswers, SolverAnswers
<1>4. ASSUME NEW x \in DOMAIN d.paths \cap DOMAIN args
      PROVE  args[x].v \in Granted(d, x)
  <2>1. ~Escapes(args[x]) /\ Length(args[x]) \in Granted(d, x)
    BY <1>1 DEF CapabilityAnswer
  <2>2. args[x].v \in Int
    BY ResultFacts DEF ArgumentsOK
  <2> QED
    BY <2>1, <2>2 DEF Escapes, Length
<1>5. ASSUME solver, text \notin {NoText, BlankText}
      PROVE  Entailed(text, args)
  <2>1. CASE text = <<>>
    BY <2>1 DEF Entailed
  <2>2. CASE text # <<>>
    BY <1>1, <1>5, <2>2 DEF CompatibleAnswers, SolverAnswers
  <2> QED
    BY <2>1, <2>2
<1>6. ASSUME d.mutating
      PROVE  /\ \A i \in DOMAIN d.policy.rules : Conforms(d.policy.rules[i], args)
             /\ d.policy.extra
                \/ \A x \in DOMAIN args : \E i \in DOMAIN d.policy.rules :
                      d.policy.rules[i].name = x
  BY <1>2, <1>6, PolicyKept
<1>7. ASSUME d.mutating
      PROVE  /\ d.policy.smt \notin {NoText, BlankText} =>
                  solver /\ Entailed(d.policy.smt, args)
             /\ d.policy.smt = BlankText => PathContained(args)
  <2>1. CASE d.policy.smt = NoText
    BY <2>1, GateAssumption
  <2>2. CASE d.policy.smt # NoText
    BY <1>2, <1>3, <1>7, <2>2
  <2> QED
    BY <2>1, <2>2
<1> QED
  BY <1>4, <1>5, <1>6, <1>7

-----------------------------------------------------------------------------
(***************************************************************************)
(* The inductive invariant of the gate: besides TypeOK, that tools come    *)
(* from one scene and have what they need, and that there are no calls     *)
(* before the registry is complete.                                        *)
(***************************************************************************)

FromScene ==
  \E scene \in Scenario : offered \cup tools \subseteq scene.offered

GateInv ==
  /\ TypeOK
  /\ log \in Seq(ToSet(log))
  /\ log # <<>> => offered = {}
  /\ FromScene
  /\ \A d \in tools : d.mutating => d.policy # NoPolicy
  /\ \A d \in tools : d.requires => CertificateOf(d).status = "proved"
  /\ AdmittedConforms

(* A log grows by one call.                                                *)
LEMMA LogGrows ==
  ASSUME log \in Seq(ToSet(log)), NEW e, log' = Append(log, e)
  PROVE  /\ log' \in Seq(ToSet(log'))
         /\ Len(log') = Len(log) + 1
         /\ \A i \in DOMAIN log' : IF i = Len(log) + 1 THEN log'[i] = e
                                   ELSE i \in DOMAIN log /\ log'[i] = log[i]
         /\ log' # <<>>
<1> DEFINE S == ToSet(log) \cup {e}
<1>1. log \in Seq(S) /\ e \in S
  BY DEF ToSet
<1>2. /\ log' \in Seq(S)
      /\ Len(log') = Len(log) + 1
      /\ \A i \in 1..Len(log') : log'[i] = IF i = Len(log) + 1 THEN e ELSE log[i]
  <2> HIDE DEF S
  <2> QED
    BY <1>1
<1>3. DOMAIN log' = 1..Len(log') /\ DOMAIN log = 1..Len(log) /\ Len(log) \in Nat
  <2> HIDE DEF S
  <2> QED
    BY <1>1, <1>2
<1>4. \A i \in DOMAIN log' : IF i = Len(log) + 1 THEN log'[i] = e
                                ELSE i \in DOMAIN log /\ log'[i] = log[i]
  BY <1>2, <1>3
<1>5. log' \in Seq(ToSet(log'))
  <2>1. \A i \in 1..Len(log') : log'[i] \in ToSet(log')
    BY <1>3 DEF ToSet
  <2> HIDE DEF S
  <2> QED
    BY <1>2, <1>3, <2>1
<1> QED
  BY <1>2, <1>3, <1>4, <1>5

(* register: a definition takes the place of the one of its name.          *)
LEMMA RegisterKeeps ==
  ASSUME GateInv, NEW d \in offered, Register(d)
  PROVE  GateInv'
<1> DEFINE certificate == CertificateOf(d)
           accepted == RegistrationOK(d, certificate)
<1>1. /\ offered' = offered \ {d} /\ log = <<>>
      /\ tools' = IF accepted THEN {e \in tools : e.name # d.name} \cup {d} ELSE tools
      /\ decision'.kind = "register"
      /\ UNCHANGED <<solver, world, log, undone>>
  BY DEF Register, Decide, GateInv
<1>2. accepted => (d.requires => d.contract # NoContract)
  BY DEF RegistrationOK, CertificateOf
<1>3. accepted => (d.mutating => d.policy # NoPolicy)
  BY DEF RegistrationOK
<1>4. \A e \in tools' : e.requires => CertificateOf(e).status = "proved"
  BY <1>1 DEF GateInv, RegistrationOK
<1>5. TypeOK'
  <2>1. \A e \in tools' : e.requires => e.contract # NoContract
    BY <1>1, <1>2 DEF GateInv, TypeOK
  <2>2. \A e, f \in tools' : e.name = f.name => e = f
    BY <1>1 DEF GateInv, TypeOK
  <2>3. Len(log') <= MaxCalls /\ undone' \in 0..Len(log')
    BY <1>1 DEF GateInv, TypeOK
  <2>4. \A i \in DOMAIN log' : log'[i].tool \in tools'
    BY <1>1
  <2> QED
    BY <1>4, <2>1, <2>2, <2>3, <2>4 DEF TypeOK
<1>6. FromScene'
  BY <1>1 DEF GateInv, FromScene
<1>7. AdmittedConforms'
  BY <1>1 DEF AdmittedConforms
<1>8. \A e \in tools' : e.mutating => e.policy # NoPolicy
  BY <1>1, <1>3 DEF GateInv
<1> QED
  BY <1>1, <1>4, <1>5, <1>6, <1>7, <1>8 DEF GateInv

(* What a tool of a scene is.                                              *)
LEMMA SceneTools ==
  ASSUME FromScene, NEW d \in tools
  PROVE  /\ d.policy # NoPolicy => RulesOK(d.policy.rules)
         /\ \A attempt \in Attempt(d) : ArgumentsOK(attempt[1])
BY GateAssumption DEF FromScene

(* A call: what it passed is what it keeps.                                *)
LEMMA CallKeeps ==
  ASSUME GateInv, NEW d \in tools, NEW args, NEW text, ArgumentsOK(args),
         Call(d, args, text)
  PROVE  GateInv'
<1>1. PICK answer \in CallAnswers(d, args, text) :
        /\ decision' = [kind |-> "call", tool |-> d, args |-> args,
                        text |-> text, answer |-> answer]
        /\ \/ \E e : log' = Append(log, e) /\ e.tool = d
           \/ log' = log
  <2>1. PICK answer \in CallAnswers(d, args, text) :
          /\ decision' = [kind |-> "call", tool |-> d, args |-> args,
                          text |-> text, answer |-> answer]
          /\ IF answer = "ok" /\ d.contract # NoContract
             THEN log' = Append(log, [tool |-> d, before |-> world,
                                      inputs |-> InputsOf(d, args)])
             ELSE log' = log
    BY DEF Call
  <2>2. [tool |-> d, before |-> world, inputs |-> InputsOf(d, args)].tool = d
    OBVIOUS
  <2> QED
    BY <2>1, <2>2
<1>2. /\ offered = {} /\ undone = 0 /\ Len(log) < MaxCalls
      /\ decision'.kind = "call"
      /\ UNCHANGED <<offered, tools, solver, undone>>
  BY DEF Call
<1>3. AdmittedConforms'
  <2> SUFFICES ASSUME answer = "ok"
               PROVE  AdmittedConforms'
    BY <1>1 DEF AdmittedConforms
  <2>1. d.mutating => d.policy # NoPolicy /\ RulesOK(d.policy.rules)
    BY SceneTools DEF GateInv
  <2>2. "ok" \in CallAnswers(d, args, text)
    BY <1>1
  <2>3. /\ d.mutating =>
             /\ \A i \in DOMAIN d.policy.rules : Conforms(d.policy.rules[i], args)
             /\ d.policy.extra
                \/ \A x \in DOMAIN args : \E i \in DOMAIN d.policy.rules :
                      d.policy.rules[i].name = x
             /\ d.policy.smt \notin {NoText, BlankText} =>
                  solver /\ Entailed(d.policy.smt, args)
             /\ d.policy.smt = BlankText => PathContained(args)
        /\ \A x \in DOMAIN d.paths \cap DOMAIN args : args[x].v \in Granted(d, x)
        /\ solver /\ text \notin {NoText, BlankText} => Entailed(text, args)
    BY <2>1, <2>2, AdmissionMeans
  <2>4. /\ decision'.tool = d /\ decision'.args = args /\ decision'.text = text
        /\ solver' = solver
    BY <1>1, <1>2
  <2> QED
    BY <2>3, <2>4 DEF AdmittedConforms
<1>4. CASE log' = log
  BY <1>2, <1>3, <1>4 DEF GateInv, TypeOK, FromScene
<1>5. CASE log' # log
  <2>1. PICK e : log' = Append(log, e) /\ e.tool = d
    BY <1>1, <1>5
  <2>2. /\ log' \in Seq(ToSet(log'))
        /\ Len(log') = Len(log) + 1
        /\ \A i \in DOMAIN log' : IF i = Len(log) + 1 THEN log'[i] = e
                                  ELSE i \in DOMAIN log /\ log'[i] = log[i]
        /\ log' # <<>>
    BY <2>1, LogGrows DEF GateInv
  <2>3. Len(log) \in Nat
    BY DEF GateInv
  <2>4. Len(log') <= MaxCalls /\ undone' \in 0..Len(log')
    BY <1>2, <2>2, <2>3, GateAssumption
  <2>5. \A i \in DOMAIN log' : log'[i].tool \in tools'
    BY <1>2, <2>1, <2>2 DEF GateInv, TypeOK
  <2>6. TypeOK'
    BY <1>2, <2>4, <2>5 DEF GateInv, TypeOK
  <2> QED
    BY <1>2, <1>3, <2>2, <2>6 DEF GateInv, FromScene
<1> QED
  BY <1>4, <1>5

(* Every step of the gate keeps the invariant.                             *)
LEMMA GateStep ==
  ASSUME GateInv, [Next]_vars
  PROVE  GateInv'
<1>1. ASSUME NEW d \in offered, Register(d)
      PROVE  GateInv'
  BY <1>1, RegisterKeeps
<1>2. ASSUME NEW d \in tools, NEW attempt \in Attempt(d), Call(d, attempt[1], attempt[2])
      PROVE  GateInv'
  <2>1. ArgumentsOK(attempt[1])
    BY SceneTools DEF GateInv
  <2> QED
    BY <1>2, <2>1, CallKeeps
<1>3. CASE Undo
  <2>1. /\ UNCHANGED <<offered, decision, tools, solver, log>>
        /\ undone' = undone + 1 /\ undone < Len(log)
    BY <1>3 DEF Undo
  <2>2. Len(log) \in Nat
    BY DEF GateInv
  <2> QED
    BY <2>1, <2>2 DEF GateInv, TypeOK, FromScene, AdmittedConforms
<1>4. CASE Answered
  BY <1>4 DEF Answered, Nothing, GateInv, TypeOK, FromScene, AdmittedConforms
<1>5. CASE UNCHANGED vars
  BY <1>5 DEF vars, GateInv, TypeOK, FromScene, AdmittedConforms
<1> QED
  BY <1>1, <1>2, <1>3, <1>4, <1>5 DEF Next

-----------------------------------------------------------------------------
(***************************************************************************)
(* Drafts.  A request that has chosen has judged all its drafts; and until *)
(* the first choice nothing is discarded.                                  *)
(***************************************************************************)

JudgedOK(c) ==
  /\ drafts[c] \in Seq(ToSet(drafts[c]))
  /\ DOMAIN judged[c] = DOMAIN drafts[c]
  /\ \A i \in DOMAIN drafts[c] : ArgumentsOK(drafts[c][i][2])
  /\ c \in chosen =>
       drafts[c] # <<>> /\ \A i \in DOMAIN judged[c] : judged[c][i] # "open"
  /\ chosen = {} => \A i \in DOMAIN judged[c] : judged[c][i] # "discarded"

DraftInv ==
  /\ GateInv
  /\ DOMAIN drafts = Client /\ DOMAIN judged = Client /\ DOMAIN winner = Client
  /\ chosen \subseteq Client
  /\ \A c \in Client : JudgedOK(c)
  /\ FirstValidWins

(* First finds a place if there is one.                                    *)
LEMMA FirstIsPlace ==
  ASSUME NEW places \in SUBSET Nat
  PROVE  First(places) \in places \cup {0}
<1>1. CASE places # {}
  <2>1. PICK m \in places : \A n \in places : m <= n
    BY <1>1, Least
  <2>2. (CHOOSE i \in places : \A j \in places : i <= j) \in places
    BY <2>1
  <2> QED
    BY <1>1, <2>2 DEF First
<1> QED
  BY <1>1 DEF First

(* The places of drafts are numbers.                                       *)
LEMMA PlacesOK ==
  ASSUME DraftInv, NEW c \in Client
  PROVE  /\ DOMAIN judged[c] \subseteq Nat
         /\ Selected(c) \in {i \in DOMAIN judged[c] : judged[c][i] = "valid"} \cup {0}
<1>1. DOMAIN judged[c] \subseteq Nat
  BY DEF DraftInv, JudgedOK
<1> QED
  BY <1>1, FirstIsPlace DEF Selected

(* run_speculative_drafts: a new list, none of it judged.                  *)
LEMMA AskKeeps ==
  ASSUME DraftInv, NEW c \in Client, Ask(c)
  PROVE  DraftInv'
<1>1. PICK ds \in DraftsFor(tools) :
        /\ drafts' = [drafts EXCEPT ![c] = ds]
        /\ judged' = [judged EXCEPT ![c] = [i \in DOMAIN ds |-> "open"]]
  BY DEF Ask
<1>2. /\ drafts[c] = <<>> /\ UNCHANGED <<vars, winner, chosen>>
  BY DEF Ask
<1>3. c \notin chosen
  BY <1>2 DEF DraftInv, JudgedOK
<1>4. ds \in Seq(ToSet(ds)) /\ \A i \in DOMAIN ds : ArgumentsOK(ds[i][2])
  BY DraftAssumption DEF DraftInv, GateInv, FromScene
<1>5. GateInv'
  BY <1>2, GateStep DEF DraftInv
<1>6. \A b \in Client : JudgedOK(b)'
  <2> TAKE b \in Client
  <2>1. CASE b = c
    <3>1. drafts'[b] = ds /\ judged'[b] = [i \in DOMAIN ds |-> "open"]
      BY <1>1, <2>1 DEF DraftInv
    <3> QED
      BY <1>2, <1>3, <1>4, <2>1, <3>1 DEF JudgedOK
  <2>2. CASE b # c
    <3>1. drafts'[b] = drafts[b] /\ judged'[b] = judged[b] /\ chosen' = chosen
      BY <1>1, <1>2, <2>2 DEF DraftInv
    <3> QED
      BY <3>1 DEF DraftInv, JudgedOK
  <2> QED
    BY <2>1, <2>2
<1>7. FirstValidWins'
  <2>1. \A b \in chosen : Passed(b)' = Passed(b)
    <3> TAKE b \in chosen
    <3>1. judged'[b] = judged[b]
      BY <1>1, <1>3 DEF DraftInv
    <3> QED
      BY <3>1 DEF Passed
  <2> QED
    BY <1>2, <2>1 DEF DraftInv, FirstValidWins
<1> QED
  BY <1>1, <1>2, <1>5, <1>6, <1>7 DEF DraftInv

(* execute_draft_async: a verdict on a draft that had none, so of a        *)
(* request that has not chosen.                                            *)
LEMMA JudgeKeeps ==
  ASSUME DraftInv, NEW c \in Client, NEW i \in DOMAIN judged[c], Judge(c, i)
  PROVE  DraftInv'
<1>1. PICK v \in Verdicts(drafts[c][i]) : judged' = [judged EXCEPT ![c][i] = v]
  BY DEF Judge
<1>2. v \in {"valid", "refused"}
  BY DEF Verdicts
<1>3. /\ judged[c][i] = "open" /\ UNCHANGED <<vars, drafts, winner, chosen>>
  BY DEF Judge
<1>4. c \notin chosen
  BY <1>3 DEF DraftInv, JudgedOK
<1>5. /\ DOMAIN judged' = Client
      /\ judged'[c] = [judged[c] EXCEPT ![i] = v]
      /\ \A b \in Client \ {c} : judged'[b] = judged[b]
  BY <1>1 DEF DraftInv
<1>6. \A b \in Client : JudgedOK(b)'
  <2> TAKE b \in Client
  <2>1. CASE b = c
    BY <1>2, <1>3, <1>4, <1>5, <2>1 DEF DraftInv, JudgedOK
  <2>2. CASE b # c
    BY <1>3, <1>5, <2>2 DEF DraftInv, JudgedOK
  <2> QED
    BY <2>1, <2>2
<1>7. FirstValidWins'
  <2>1. \A b \in chosen : Passed(b)' = Passed(b)
    BY <1>4, <1>5 DEF DraftInv, Passed
  <2> QED
    BY <1>3, <2>1 DEF DraftInv, FirstValidWins
<1>8. GateInv'
  BY <1>3, GateStep DEF DraftInv
<1> QED
  BY <1>3, <1>5, <1>6, <1>7, <1>8 DEF DraftInv

(* A choice discards what was valid, and so takes nothing from what has    *)
(* passed.                                                                 *)
LEMMA DiscardKeeps ==
  ASSUME DraftInv, NEW c \in Client, NEW i \in DOMAIN judged[c], DiscardOthers(c, i),
         judged[c][i] = "valid"
  PROVE  \A b \in Client :
           /\ DOMAIN judged'[b] = DOMAIN judged[b]
           /\ Passed(b)' = Passed(b)
           /\ \A j \in DOMAIN judged[b] : judged[b][j] # "open" => judged'[b][j] # "open"
<1> TAKE b \in Client
<1>1. judged'[b] = [j \in DOMAIN judged[b] |->
                      IF judged[b][j] = "valid" /\ <<b, j>> # <<c, i>>
                      THEN "discarded" ELSE judged[b][j]]
  BY DEF DiscardOthers
<1> QED
  BY <1>1 DEF Passed

(* run_speculative, once all drafts are judged.                            *)
LEMMA ChooseKeeps ==
  ASSUME DraftInv, NEW c \in Client, Choose(c)
  PROVE  DraftInv'
<1> DEFINE i == Selected(c)
<1>1. /\ drafts[c] # <<>> /\ c \notin chosen
      /\ \A j \in DOMAIN judged[c] : judged[c][j] # "open"
      /\ chosen' = chosen \cup {c}
      /\ winner' = [winner EXCEPT ![c] = i]
      /\ drafts' = drafts
  BY DEF Choose
<1>2. CASE i = 0
  <2>1. UNCHANGED <<vars, judged>>
    BY <1>2 DEF Choose
  <2>2. GateInv'
    BY <2>1, GateStep DEF DraftInv
  <2>3. \A b \in Client : JudgedOK(b)'
    BY <1>1, <2>1 DEF DraftInv, JudgedOK
  <2>4. FirstValidWins'
    <3> SUFFICES ASSUME NEW b \in chosen'
                 PROVE  /\ winner'[b] \in Passed(b)' \cup {0}
                        /\ chosen' = {b} => winner'[b] = First(Passed(b)')
      BY DEF FirstValidWins
    <3>1. Passed(b)' = Passed(b)
      BY <2>1 DEF Passed
    <3>2. CASE b = c
      <4>1. winner'[b] = 0
        BY <1>1, <1>2, <3>2 DEF DraftInv
      <4>2. ASSUME chosen' = {b}
            PROVE  Passed(b) = {j \in DOMAIN judged[c] : judged[c][j] = "valid"}
        <5>1. chosen = {}
          BY <1>1, <3>2, <4>2
        <5> QED
          BY <3>2, <5>1 DEF DraftInv, JudgedOK, Passed
      <4> QED
        BY <1>2, <3>1, <4>1, <4>2 DEF Selected
    <3>3. CASE b # c
      <4>1. b \in chosen /\ winner'[b] = winner[b] /\ chosen' # {b}
        BY <1>1, <3>3 DEF DraftInv
      <4> QED
        BY <3>1, <4>1 DEF DraftInv, FirstValidWins
    <3> QED
      BY <3>2, <3>3
  <2> QED
    BY <1>1, <2>1, <2>2, <2>3, <2>4 DEF DraftInv
<1>3. CASE i # 0
  <2>1. /\ i \in DOMAIN judged[c] /\ judged[c][i] = "valid"
    BY <1>3, PlacesOK
  <2>2. DiscardOthers(c, i)
    BY <1>3 DEF Choose
  <2>3. \A b \in Client :
          /\ DOMAIN judged'[b] = DOMAIN judged[b]
          /\ Passed(b)' = Passed(b)
          /\ \A j \in DOMAIN judged[b] : judged[b][j] # "open" => judged'[b][j] # "open"
    BY <2>1, <2>2, DiscardKeeps
  <2>4. GateInv'
    <3>1. \/ UNCHANGED vars
          \/ \E d \in tools : Call(d, drafts[c][i][2], NoText)
      BY <1>3 DEF Choose
    <3>2. ArgumentsOK(drafts[c][i][2])
      BY <2>1 DEF DraftInv, JudgedOK
    <3> QED
      BY <3>1, <3>2, GateStep, CallKeeps DEF DraftInv
  <2>5. \A b \in Client : JudgedOK(b)'
    BY <1>1, <2>3 DEF DraftInv, JudgedOK
  <2>6. FirstValidWins'
    <3> SUFFICES ASSUME NEW b \in chosen'
                 PROVE  /\ winner'[b] \in Passed(b)' \cup {0}
                        /\ chosen' = {b} => winner'[b] = First(Passed(b)')
      BY DEF FirstValidWins
    <3>1. b \in Client /\ Passed(b)' = Passed(b)
      BY <1>1, <2>3 DEF DraftInv
    <3>2. CASE b = c
      <4>1. winner'[b] = Selected(c)
        BY <1>1, <3>2 DEF DraftInv
      <4>2. Selected(c) \in Passed(c)
        BY <2>1 DEF Passed
      <4>3. ASSUME chosen' = {b}
            PROVE  Passed(b) = {j \in DOMAIN judged[c] : judged[c][j] = "valid"}
        <5>1. chosen = {}
          BY <1>1, <3>2, <4>3
        <5> QED
          BY <3>2, <5>1 DEF DraftInv, JudgedOK, Passed
      <4> QED
        BY <3>1, <3>2, <4>1, <4>2, <4>3 DEF Selected
    <3>3. CASE b # c
      <4>1. b \in chosen /\ winner'[b] = winner[b] /\ chosen' # {b}
        BY <1>1, <3>3 DEF DraftInv
      <4> QED
        BY <3>1, <4>1 DEF DraftInv, FirstValidWins
    <3> QED
      BY <3>2, <3>3
  <2>7. DOMAIN judged' = Client
    BY <2>2 DEF DiscardOthers
  <2> QED
    BY <1>1, <2>4, <2>5, <2>6, <2>7 DEF DraftInv
<1> QED
  BY <1>2, <1>3

(* The invariant holds of every behaviour of the gate with drafts.         *)
LEMMA DraftInvHolds == DraftSpec => []DraftInv
<1>1. DraftInit => DraftInv
  <2> SUFFICES ASSUME DraftInit
               PROVE  DraftInv
    OBVIOUS
  <2>1. TypeOK
    BY GateAssumption DEF DraftInit, Init, TypeOK
  <2>2. AdmittedConforms
    BY DEF DraftInit, Init, Nothing, AdmittedConforms
  <2>3. FromScene
    BY DEF DraftInit, Init, FromScene
  <2>4. log \in Seq(ToSet(log)) /\ log = <<>> /\ tools = {}
    BY DEF DraftInit, Init
  <2>5. GateInv
    BY <2>1, <2>2, <2>3, <2>4 DEF GateInv
  <2>6. FirstValidWins
    BY DEF DraftInit, FirstValidWins
  <2>7. \A c \in Client : JudgedOK(c)
    <3> TAKE c \in Client
    <3>1. drafts[c] = <<>> /\ judged[c] = <<>> /\ chosen = {}
      BY DEF DraftInit
    <3> QED
      BY <3>1 DEF JudgedOK
  <2> QED
    BY <2>5, <2>6, <2>7 DEF DraftInit, DraftInv
<1>2. DraftInv /\ [DraftNext]_allVars => DraftInv'
  <2> SUFFICES ASSUME DraftInv, [DraftNext]_allVars
               PROVE  DraftInv'
    OBVIOUS
  <2>1. CASE [Next]_vars /\ UNCHANGED draftVars
    <3>1. GateInv'
      BY <2>1, GateStep DEF DraftInv
    <3> QED
      BY <2>1, <3>1 DEF draftVars, DraftInv, JudgedOK, FirstValidWins, Passed
  <2>2. ASSUME NEW c \in Client, Ask(c)
        PROVE  DraftInv'
    BY <2>2, AskKeeps
  <2>3. ASSUME NEW c \in Client, Choose(c)
        PROVE  DraftInv'
    BY <2>3, ChooseKeeps
  <2>4. ASSUME NEW c \in Client, NEW i \in DOMAIN judged[c], Judge(c, i)
        PROVE  DraftInv'
    BY <2>4, JudgeKeeps
  <2> QED
    BY <2>1, <2>2, <2>3, <2>4 DEF DraftNext, allVars
<1> QED
  BY <1>1, <1>2, PTL DEF DraftSpec

(* The registry, the log and the rollback stay well formed, with drafts    *)
(* from any number of requests (ToolRegistry.register).                    *)
THEOREM TypeCorrect == DraftSpec => []TypeOK
<1>1. DraftInv => TypeOK
  BY DEF DraftInv, GateInv
<1> QED
  BY <1>1, DraftInvHolds, PTL

(* Whatever the definitions, policies and arguments: what was admitted     *)
(* keeps every rule, entails its texts and stays within its grants         *)
(* (execute_saga through verify and validate, /speculative/run).           *)
THEOREM AdmittedHolds == DraftSpec => []AdmittedConforms
<1>1. DraftInv => AdmittedConforms
  BY DEF DraftInv, GateInv
<1> QED
  BY <1>1, DraftInvHolds, PTL

(* For any number of requests and drafts: who chooses alone gets the first *)
(* draft that passed (select_winner).                                      *)
THEOREM FirstValidHolds == DraftSpec => []FirstValidWins
<1>1. DraftInv => FirstValidWins
  BY DEF DraftInv
<1> QED
  BY <1>1, DraftInvHolds, PTL

-----------------------------------------------------------------------------
(***************************************************************************)
(* Certificates and the rollback of proved calls.  Each call begins in the *)
(* world that the one before it left; and as long as the calls that are    *)
(* compensated are covered by their proofs, the world is the one before    *)
(* the earliest of them, up to what its contract gives back.               *)
(***************************************************************************)

CertInv ==
  decision.kind = "register" =>
    /\ decision.certificate = CertificateOf(decision.tool)
    /\ decision.tool.contract # NoContract => ContractOK(decision.tool.contract)

After(step) == Forward(step.tool.contract, step.before, step.inputs)

StepOK(step) ==
  /\ step.tool.contract # NoContract
  /\ WorldOK(step.before) /\ ArgumentsOK(step.inputs)

CoveredFrom(i) ==
  /\ \A j \in i..Len(log) : Covered(log[j])
  /\ \A j \in (i + 1)..Len(log) : Pins(log[j].tool.contract)

Earliest == Len(log) + 1 - undone

RollInv ==
  /\ WorldOK(world)
  /\ \A j \in DOMAIN log : StepOK(log[j])
  /\ \A j \in 1..(Len(log) - 1) : log[j + 1].before = After(log[j])
  /\ (undone = 0 /\ log # <<>>) => world = After(log[Len(log)])
  /\ undone > 0 =>
       /\ DOMAIN world = DOMAIN log[Earliest].before
       /\ CoveredFrom(Earliest) =>
            GivenBack(log[Earliest].tool.contract, world,
                      log[Earliest].before, log[Earliest].inputs)

(* The contracts of a scene have their shape.                              *)
LEMMA SceneContracts ==
  ASSUME FromScene, NEW d \in offered \cup tools, d.contract # NoContract
  PROVE  ContractOK(d.contract)
BY GateAssumption DEF FromScene

(* A registered tool that asks for a proof has one, of its contract.       *)
LEMMA ProvedTool ==
  ASSUME GateInv, NEW d \in tools, d.requires
  PROVE  /\ ContractOK(d.contract) /\ Validation(d.contract) = "ok" /\ Finite(d.contract)
         /\ \A case \in AdmissibleCases(d.contract) : Reversible(d.contract, case)
<1>1. d.contract # NoContract /\ CertificateOf(d).status = "proved"
  BY DEF GateInv, TypeOK
<1>2. ContractOK(d.contract)
  BY <1>1, SceneContracts DEF GateInv
<1>3. Certificate(d.contract, MaxCases).status = "proved"
  BY <1>1 DEF CertificateOf
<1>4. IsTrueOf(Certificate(d.contract, MaxCases), d.contract, AdmissibleCases(d.contract))
  BY <1>2, CertificateTrue
<1> QED
  BY <1>2, <1>3, <1>4 DEF IsTrueOf

(* _invoke_tool_execution on the variables of the world: results again,    *)
(* and no variable more or less.                                           *)
LEMMA ForwardOK ==
  ASSUME NEW c, ContractOK(c), NEW st, NEW inputs, WorldOK(st), ArgumentsOK(inputs)
  PROVE  /\ DOMAIN Forward(c, st, inputs) = DOMAIN st
         /\ WorldOK(Forward(c, st, inputs))
<1>1. EnvOK(Env(st, st, inputs)) /\ Env(st, st, inputs).state = st
  BY EnvIs, ArgumentsAre DEF Env
<1> QED
  BY <1>1, TransitionOK DEF Forward

(* Compensations, too.                                                     *)
LEMMA CompensatedOK ==
  ASSUME NEW c, ContractOK(c), NEW st, NEW original, NEW inputs,
         WorldOK(st), WorldOK(original), ArgumentsOK(inputs)
  PROVE  /\ DOMAIN Compensated(c, st, original, inputs) = DOMAIN st
         /\ WorldOK(Compensated(c, st, original, inputs))
<1>1. EnvOK(Env(st, original, inputs)) /\ Env(st, original, inputs).state = st
  BY EnvIs, ArgumentsAre DEF Env
<1> QED
  BY <1>1, TransitionOK DEF Compensated

(* register: only a proved tool that asks for it, and no call as yet.      *)
LEMMA RegisterRolls ==
  ASSUME GateInv, RollInv, NEW d \in offered, Register(d)
  PROVE  RollInv' /\ CertInv'
<1>1. /\ log = <<>> /\ undone = 0
      /\ UNCHANGED <<solver, world, log, undone>>
      /\ tools' = IF RegistrationOK(d, CertificateOf(d))
                  THEN {e \in tools : e.name # d.name} \cup {d} ELSE tools
      /\ decision' = [kind |-> "register", tool |-> d,
                      accepted |-> RegistrationOK(d, CertificateOf(d)),
                      certificate |-> CertificateOf(d)]
  BY DEF Register, Decide, GateInv, TypeOK
<1>2. RollInv'
  <2>1. WorldOK(world)'
    BY <1>1 DEF RollInv, WorldOK
  <2>2. log' = <<>> /\ undone' = 0 /\ DOMAIN log' = {} /\ 1..(Len(log') - 1) = {}
    BY <1>1
  <2> QED
    BY <2>1, <2>2 DEF RollInv
<1>3. CertInv'
  <2>1. d.contract # NoContract => ContractOK(d.contract)
    BY SceneContracts DEF GateInv
  <2> QED
    BY <1>1, <2>1 DEF CertInv
<1> QED
  BY <1>2, <1>3

(* A call begins in the world that the one before it left.                 *)
LEMMA CallRolls ==
  ASSUME GateInv, RollInv, NEW d \in tools, NEW args, NEW text, ArgumentsOK(args),
         Call(d, args, text)
  PROVE  RollInv' /\ CertInv'
<1> DEFINE e == [tool |-> d, before |-> world, inputs |-> InputsOf(d, args)]
<1>1. /\ undone = 0 /\ UNCHANGED <<offered, tools, solver, undone>>
      /\ decision'.kind = "call"
      /\ \/ /\ d.contract # NoContract
            /\ world' = Forward(d.contract, world, InputsOf(d, args))
            /\ log' = Append(log, e)
         \/ UNCHANGED <<world, log>>
  BY DEF Call
<1>2. e.tool = d /\ e.before = world /\ e.inputs = InputsOf(d, args)
  OBVIOUS
<1>3. ArgumentsOK(InputsOf(d, args))
  BY DEF ArgumentsOK, InputsOf
<1>4. CertInv'
  BY <1>1 DEF CertInv
<1> HIDE DEF e
<1>5. CASE UNCHANGED <<world, log>>
  BY <1>1, <1>4, <1>5 DEF RollInv, WorldOK
<1>6. CASE /\ d.contract # NoContract
           /\ world' = Forward(d.contract, world, InputsOf(d, args))
           /\ log' = Append(log, e)
  <2> DEFINE n == Len(log)
  <2>1. /\ log' \in Seq(ToSet(log'))
        /\ Len(log') = n + 1
        /\ \A i \in DOMAIN log' : IF i = n + 1 THEN log'[i] = e
                                  ELSE i \in DOMAIN log /\ log'[i] = log[i]
        /\ log' # <<>>
    BY <1>6, LogGrows DEF GateInv
  <2>2. n \in Nat /\ DOMAIN log = 1..n /\ DOMAIN log' = 1..(n + 1)
    <3>1. DOMAIN log' = 1..Len(log')
      BY <2>1
    <3>2. n \in Nat /\ DOMAIN log = 1..n
      BY DEF GateInv
    <3> QED
      BY <2>1, <3>1, <3>2
  <2> HIDE DEF n
  <2>3. ContractOK(d.contract)
    BY <1>6, SceneContracts DEF GateInv
  <2>4. WorldOK(world')
    BY <1>3, <1>6, <2>3, ForwardOK DEF RollInv
  <2>5. StepOK(e)
    BY <1>2, <1>3, <1>6 DEF StepOK, RollInv
  <2>6. \A j \in DOMAIN log' : StepOK(log'[j])
    BY <2>1, <2>5 DEF RollInv
  <2>7. ASSUME NEW j \in 1..n
        PROVE  log'[j + 1].before = After(log'[j])
    <3>1. log'[j] = log[j] /\ j + 1 \in DOMAIN log' /\ n # 0
      BY <2>1, <2>2
    <3>2. CASE j = n
      <4>1. log'[j + 1] = e
        BY <2>1, <3>1, <3>2
      <4>2. log # <<>>
        BY <2>2, <3>1
      <4>3. world = After(log[n])
        BY <1>1, <4>2 DEF RollInv, n
      <4> QED
        BY <1>2, <3>1, <3>2, <4>1, <4>3
    <3>3. CASE j # n
      <4>1. log'[j + 1] = log[j + 1]
        BY <2>1, <2>2, <3>1, <3>3
      <4>2. j \in 1..(n - 1)
        BY <2>2, <3>3
      <4>3. j \in 1..(Len(log) - 1)
        BY <4>2 DEF n
      <4>4. log[j + 1].before = After(log[j])
        BY <4>3 DEF RollInv
      <4> QED
        BY <3>1, <4>1, <4>4
    <3> QED
      BY <3>2, <3>3
  <2>8. world' = After(log'[n + 1])
    <3>1. log'[n + 1] = e
      BY <2>1, <2>2
    <3> QED
      BY <1>2, <1>6, <3>1 DEF After
  <2>9. /\ Len(log') = n + 1 /\ 1..(Len(log') - 1) = 1..n /\ undone' = 0
    BY <1>1, <2>1, <2>2
  <2>10. RollInv'
    <3>1. world' = After(log'[Len(log')]) /\ ~(undone' > 0)
      BY <2>8, <2>9
    <3>2. \A j \in 1..(Len(log') - 1) : log'[j + 1].before = After(log'[j])
      BY <2>7, <2>9
    <3> QED
      BY <2>4, <2>6, <3>1, <3>2 DEF RollInv
  <2> QED
    BY <1>4, <2>10
<1> QED
  BY <1>1, <1>5, <1>6

(* execute_compensations: one compensation more.                           *)
LEMMA UndoRolls ==
  ASSUME GateInv, RollInv, Undo
  PROVE  RollInv'
<1> DEFINE n == Len(log)
           k == n - undone
           step == log[k]
           c == step.tool.contract
<1>1. /\ undone < n /\ undone' = undone + 1
      /\ world' = Compensated(c, world, step.before, step.inputs)
      /\ UNCHANGED <<tools, log>>
  BY DEF Undo, NextUndone
<1>2. n \in Nat /\ DOMAIN log = 1..n /\ undone \in 0..n
  BY DEF GateInv, TypeOK
<1>3. k \in 1..n /\ k + 1 = Earliest /\ Earliest' = k
  <2> HIDE DEF n
  <2>1. Earliest = n + 1 - undone
    BY DEF Earliest, n
  <2>2. Earliest' = n + 1 - undone'
    BY <1>1 DEF Earliest, n
  <2> QED
    BY <1>1, <1>2, <2>1, <2>2
<1> HIDE DEF k
<1>4. StepOK(step) /\ step.tool \in tools
  BY <1>2, <1>3 DEF RollInv, GateInv, TypeOK
<1>5. ContractOK(c)
  BY <1>4, SceneContracts DEF StepOK, GateInv
<1>6. /\ DOMAIN After(step) = DOMAIN step.before /\ WorldOK(After(step))
      /\ WorldOK(step.before) /\ ArgumentsOK(step.inputs)
  BY <1>4, <1>5, ForwardOK DEF StepOK, After
<1>7. /\ DOMAIN world' = DOMAIN world /\ WorldOK(world')
  BY <1>1, <1>5, <1>6, CompensatedOK DEF RollInv
<1>8. undone = 0 => k = n
  BY <1>2 DEF k
<1>9. undone > 0 => k + 1 \in 1..n /\ k \in 1..(n - 1)
  BY <1>2, <1>3 DEF k
<1>10. undone > 0 => log[k + 1].before = After(step)
  BY <1>9 DEF RollInv, n
<1>11. DOMAIN world = DOMAIN step.before
  <2>1. CASE undone = 0
    <3>1. world = After(step)
      BY <1>2, <1>3, <1>8, <2>1 DEF RollInv
    <3> QED
      BY <1>6, <3>1
  <2>2. CASE undone > 0
    <3>1. DOMAIN world = DOMAIN log[k + 1].before
      BY <1>3, <2>2 DEF RollInv
    <3> QED
      BY <1>6, <1>10, <2>2, <3>1
  <2> QED
    BY <1>2, <2>1, <2>2
<1>12. ASSUME CoveredFrom(k)
       PROVE  \A x \in DOMAIN step.before : world[x] = After(step)[x]
  <2>1. CASE undone = 0
    <3>1. world = After(step)
      BY <1>2, <1>3, <1>8, <2>1 DEF RollInv
    <3> QED
      BY <3>1
  <2>2. CASE undone > 0
    <3> DEFINE later == log[k + 1]
               lc == later.tool.contract
    <3>1. k \in Nat /\ k + 1 \in 1..n
      BY <1>2, <1>3, <1>9, <2>2
    <3>2. /\ CoveredFrom(k + 1) /\ Covered(later) /\ Pins(lc)
      <4>1. /\ (k + 1)..n \subseteq k..n /\ ((k + 1) + 1)..n \subseteq (k + 1)..n
            /\ k + 1 \in k..n /\ k + 1 \in (k + 1)..n
        <5> HIDE DEF n
        <5> QED
          BY <1>2, <3>1
      <4> QED
        BY <1>12, <4>1 DEF CoveredFrom
    <3>3. GivenBack(lc, world, later.before, later.inputs)
      BY <1>3, <2>2, <3>2 DEF RollInv
    <3>4. StepOK(later) /\ later.tool \in tools
      BY <1>2, <3>1 DEF RollInv, GateInv, TypeOK
    <3>5. ContractOK(lc)
      BY <3>4, SceneContracts DEF StepOK, GateInv
    <3>6. /\ WorldOK(world) /\ WorldOK(later.before) /\ WorldOK(later.inputs)
      BY <3>4, ArgumentsAre DEF RollInv, StepOK
    <3> HIDE DEF later, lc
    <3>7. \A x \in DOMAIN later.before : world[x] = later.before[x]
      BY <3>2, <3>3, <3>5, <3>6, PinsAll
    <3>8. later.before = After(step)
      BY <1>10, <2>2 DEF later
    <3> QED
      BY <1>6, <3>7, <3>8
  <2> QED
    BY <1>2, <2>1, <2>2
<1>13. ASSUME CoveredFrom(k)
       PROVE  GivenBack(c, world', step.before, step.inputs)
  <2>1. Covered(step)
    <3>1. k \in k..n
      BY <1>2, <1>3
    <3> QED
      BY <1>13, <3>1 DEF CoveredFrom
  <2>2. InProof(c, step.before, step.inputs)
    BY <2>1 DEF Covered, InProof
  <2>3. /\ Validation(c) = "ok" /\ Finite(c)
        /\ \A case \in AdmissibleCases(c) : Reversible(c, case)
    BY <1>4, <2>1, ProvedTool DEF Covered
  <2>4. \A x \in DOMAIN step.before :
          world[x] = Forward(c, step.before, step.inputs)[x]
    BY <1>12, <1>13 DEF After
  <2>5. WorldOK(world)
    BY DEF RollInv
  <2> HIDE DEF step, c
  <2> QED
    BY <1>1, <1>5, <1>6, <1>11, <2>2, <2>3, <2>4, <2>5, Compensates
<1>14. /\ DOMAIN world' = DOMAIN log'[Earliest'].before
       /\ CoveredFrom(Earliest)' =>
            GivenBack(log'[Earliest'].tool.contract, world',
                      log'[Earliest'].before, log'[Earliest'].inputs)
  <2>1. log' = log /\ log'[Earliest'] = step
    BY <1>1, <1>3
  <2>2. CoveredFrom(Earliest)' => CoveredFrom(k)
    BY <1>3, <2>1 DEF CoveredFrom
  <2> QED
    BY <1>7, <1>11, <1>13, <2>1, <2>2
<1>15. /\ \A j \in DOMAIN log' : StepOK(log'[j])
       /\ \A j \in 1..(Len(log') - 1) : log'[j + 1].before = After(log'[j])
  BY <1>1 DEF RollInv
<1>16. undone' # 0
  BY <1>1, <1>2
<1> HIDE DEF n, step, c
<1> QED
  BY <1>7, <1>14, <1>15, <1>16 DEF RollInv

(* The steps of requests with drafts are steps of the gate, or calls.      *)
LEMMA DraftSteps ==
  ASSUME DraftInv, [DraftNext]_allVars
  PROVE  \/ [Next]_vars
         \/ \E d \in tools : \E args : ArgumentsOK(args) /\ Call(d, args, NoText)
<1>1. ASSUME NEW c \in Client, Choose(c)
      PROVE  \/ [Next]_vars
             \/ \E d \in tools : \E args : ArgumentsOK(args) /\ Call(d, args, NoText)
  <2> DEFINE i == Selected(c)
  <2>1. CASE i = 0
    BY <1>1, <2>1 DEF Choose
  <2>2. CASE i # 0
    <3>1. i \in DOMAIN judged[c]
      BY <2>2, PlacesOK
    <3>2. ArgumentsOK(drafts[c][i][2])
      BY <3>1 DEF DraftInv, JudgedOK
    <3>3. UNCHANGED vars \/ \E d \in tools : Call(d, drafts[c][i][2], NoText)
      BY <1>1, <2>2 DEF Choose
    <3> QED
      BY <3>2, <3>3
  <2> QED
    BY <2>1, <2>2
<1>2. ASSUME NEW c \in Client, Ask(c)
      PROVE  [Next]_vars
  BY <1>2 DEF Ask
<1>3. ASSUME NEW c \in Client, NEW i \in DOMAIN judged[c], Judge(c, i)
      PROVE  [Next]_vars
  BY <1>3 DEF Judge
<1> QED
  BY <1>1, <1>2, <1>3 DEF DraftNext, allVars

(* Both invariants are kept by every step.                                 *)
LEMMA RollStep ==
  ASSUME DraftInv, RollInv, CertInv, [DraftNext]_allVars
  PROVE  RollInv' /\ CertInv'
<1>1. GateInv
  BY DEF DraftInv
<1>2. ASSUME NEW d \in offered, Register(d)
      PROVE  RollInv' /\ CertInv'
  BY <1>1, <1>2, RegisterRolls
<1>3. ASSUME NEW d \in tools, NEW args, NEW text, ArgumentsOK(args), Call(d, args, text)
      PROVE  RollInv' /\ CertInv'
  BY <1>1, <1>3, CallRolls
<1>4. ASSUME NEW d \in tools, NEW attempt \in Attempt(d), Call(d, attempt[1], attempt[2])
      PROVE  RollInv' /\ CertInv'
  <2>1. ArgumentsOK(attempt[1])
    BY <1>1, SceneTools DEF GateInv
  <2> QED
    BY <1>3, <1>4, <2>1
<1>5. CASE Undo
  <2>1. CertInv'
    BY <1>5 DEF Undo, CertInv
  <2> QED
    BY <1>1, <1>5, <2>1, UndoRolls
<1>6. ASSUME UNCHANGED <<tools, world, log, undone>>
      PROVE  RollInv'
  BY <1>6 DEF RollInv, WorldOK, CoveredFrom, Earliest
<1>7. CASE Answered
  <2>1. decision'.kind = "none"
    BY <1>7 DEF Answered, Nothing
  <2> QED
    BY <1>6, <1>7, <2>1 DEF Answered, CertInv
<1>8. CASE UNCHANGED vars
  BY <1>6, <1>8 DEF vars, CertInv
<1>9. CASE Next
  BY <1>2, <1>4, <1>5, <1>7, <1>9 DEF Next
<1> QED
  BY <1>3, <1>8, <1>9, DraftSteps

(* They hold of every behaviour.                                           *)
LEMMA RollInvHolds == DraftSpec => [](RollInv /\ CertInv)
<1>1. DraftInit => RollInv /\ CertInv
  <2> SUFFICES ASSUME DraftInit
               PROVE  RollInv /\ CertInv
    OBVIOUS
  <2>1. /\ tools = {} /\ log = <<>> /\ undone = 0 /\ decision.kind = "none"
        /\ DOMAIN log = {} /\ 1..(Len(log) - 1) = {}
    BY DEF DraftInit, Init, Nothing
  <2>2. WorldOK(world)
    BY GateAssumption DEF DraftInit, Init
  <2> QED
    BY <2>1, <2>2 DEF RollInv, CertInv
<1>2. DraftInv /\ RollInv /\ CertInv /\ [DraftNext]_allVars => RollInv' /\ CertInv'
  BY RollStep
<1> QED
  BY <1>1, <1>2, DraftInvHolds, PTL DEF DraftSpec

(* Every certificate that a registration sees is true of the contract:     *)
(* "proved" exactly of what is reversible in every admissible case, and    *)
(* "rejected" with a case that is not (ToolRegistry.register, verify).     *)
THEOREM CertificateHolds == DraftSpec => []CertificateIsTrue
<1>1. CertInv => CertificateIsTrue
  <2> SUFFICES ASSUME CertInv, decision.kind = "register",
                      decision.tool.contract # NoContract
               PROVE  IsTrueOf(decision.certificate, decision.tool.contract,
                               AdmissibleCases(decision.tool.contract))
    BY DEF CertificateIsTrue
  <2>1. /\ decision.certificate = Certificate(decision.tool.contract, MaxCases)
        /\ ContractOK(decision.tool.contract)
    BY DEF CertInv, CertificateOf
  <2> QED
    BY <2>1, CertificateTrue
<1> QED
  BY <1>1, RollInvHolds, PTL

(* No contract that passes validation fails in evaluation by a type: the   *)
(* static types of the language are sound; and none without reals fails at *)
(* all (_validate_contract against _expression and _ensure_state_types).   *)
THEOREM TypesAreSound == DraftSpec => []OnlyOverflowFails
<1>1. CertInv => OnlyOverflowFails
  <2> SUFFICES ASSUME CertInv, decision.kind = "register",
                      decision.certificate # Nothing
               PROVE  SoundFailure(decision.certificate.about,
                                   decision.tool.contract)
    BY DEF OnlyOverflowFails
  <2>1. /\ decision.certificate = Certificate(decision.tool.contract, MaxCases)
        /\ ContractOK(decision.tool.contract)
    BY DEF CertInv, CertificateOf
  <2> QED
    BY <2>1, CertificateTrue
<1> QED
  BY <1>1, RollInvHolds, PTL

(* The proofs of single tools carry over to the rollback of any number of  *)
(* calls over a shared world (execute_compensations in LIFO order).        *)
THEOREM RollbackHolds == DraftSpec => []RollbackRestores
<1>1. RollInv => RollbackRestores
  <2> SUFFICES ASSUME RollInv, undone > 0, CoveredFrom(Earliest)
               PROVE  Holds(log[Earliest].tool.contract.restoration,
                            Env(world, log[Earliest].before, log[Earliest].inputs))
    BY DEF RollbackRestores, CoveredFrom, Earliest
  <2> QED
    BY DEF RollInv, GivenBack
<1> QED
  BY <1>1, RollInvHolds, PTL
=============================================================================
