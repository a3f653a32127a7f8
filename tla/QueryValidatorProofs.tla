------------------------ MODULE QueryValidatorProofs ------------------------
(***************************************************************************)
(* Proofs about SqlRules, for every list of rules and statement, and about *)
(* QueryValidator, for every set of payloads, any number of calls and      *)
(* every order in which the rule modules may be imported.                  *)
(***************************************************************************)
EXTENDS QueryValidator, WellFoundedInduction, SequenceTheorems, TLAPS

-----------------------------------------------------------------------------
(* What a list of rules decides.                                           *)

Below == OpToRel(<, Nat)

LEMMA SmallestOf ==
    ASSUME NEW T, T \subseteq Nat, T # {}
    PROVE  \E x \in T : \A y \in T : ~(y < x)
<1>1. IsWellFoundedOn(Below, Nat)
  BY NatLessThanWellFounded DEF Below
<1>2. PICK x \in T : \A y \in T : <<y, x>> \notin Below
  BY <1>1, WFMin
<1>3. \A y \in T : <<y, x>> \in Below <=> y < x
  BY DEF Below, OpToRel
<1>. QED
  BY <1>2, <1>3

\* validate() finds a rejection exactly if some rule rejects.
LEMMA FirstRejectionExists ==
    ASSUME NEW rules \in Seq(Rules), NEW s
    PROVE  FirstRejections(rules, s) = {} <=> \A i \in DOMAIN rules : ~Rejects(rules[i], s)
<1>1. DOMAIN rules \subseteq Nat
  OBVIOUS
<1>2. ASSUME NEW k \in DOMAIN rules, Rejects(rules[k], s)
      PROVE  FirstRejections(rules, s) # {}
  <2>. DEFINE rejecting == {i \in DOMAIN rules : Rejects(rules[i], s)}
  <2>1. rejecting # {} /\ rejecting \subseteq Nat
    BY <1>1, <1>2
  <2>2. PICK first \in rejecting : \A j \in rejecting : ~(j < first)
    BY <2>1, SmallestOf
  <2>3. ASSUME NEW j \in 1..first - 1
        PROVE  ~Rejects(rules[j], s)
    <3>1. first \in 1..Len(rules) /\ j \in DOMAIN rules /\ j < first
      BY <1>1
    <3>. QED
      BY <2>2, <3>1
  <2>4. first \in FirstRejections(rules, s)
    BY <2>3 DEF FirstRejections
  <2>. QED
    BY <2>4
<1>. QED
  BY <1>2 DEF FirstRejections

\* The verdict on one statement is "allowed" or the code of a rule.
LEMMA JudgeCodes ==
    ASSUME NEW rules \in Seq(Rules), NEW s
    PROVE  /\ Judge(rules, s) \in Rules \cup {"allowed"}
           /\ Judge(rules, s) = "allowed" <=> FirstRejections(rules, s) = {}
<1>1. CASE FirstRejections(rules, s) = {}
  BY <1>1 DEF Judge
<1>2. CASE FirstRejections(rules, s) # {}
  <2>. DEFINE i == CHOOSE i \in FirstRejections(rules, s) : TRUE
  <2>1. i \in FirstRejections(rules, s)
    BY <1>2
  <2>2. i \in DOMAIN rules
    BY <2>1 DEF FirstRejections
  <2>3. rules[i] \in Rules
    BY <2>2
  <2>4. Judge(rules, s) = rules[i]
    BY <1>2 DEF Judge
  <2>. QED
    BY <1>2, <2>3, <2>4 DEF Rules
<1>. QED
  BY <1>1, <1>2

\* What no rule rejects is what may run.
LEMMA RulesAreComplete ==
    ASSUME NEW s \in StatementType
    PROVE  (\A rule \in Rules : ~Rejects(rule, s))
               <=> /\ s.root \in {"Select", "Insert", "Update", "Delete"}
                   /\ s.root \in {"Update", "Delete"} => s.where
                   /\ s.root = "Select" => ~s.into
                   /\ s.inner = {}
<1>1. (\A rule \in Rules : ~Rejects(rule, s))
          <=> /\ ~RootIsForeign(s)
              /\ ~WriteIsUnbounded(s)
              /\ ~CallsDangerously(s)
              /\ ~NestsWrite(s)
              /\ ~HoldsForbidden(s)
              /\ ~SelectsInto(s)
  BY DEF Rules, Rejects
<1>2. s.inner = {} <=> /\ "DangerousCall" \notin s.inner
                       /\ "Write" \notin s.inner
                       /\ "Ddl" \notin s.inner
  BY DEF StatementType
<1>. QED
  BY <1>1, <1>2
  DEF RootIsForeign, WriteIsUnbounded, CallsDangerously, NestsWrite, HoldsForbidden,
      SelectsInto, Writes

\* The rules, in whatever order, let through exactly what may run.
LEMMA VerdictIsOrderless ==
    ASSUME NEW rules \in Seq(Rules), Range(rules) = Rules, NEW text \in TextType
    PROVE  /\ Verdict(rules, text) \in Codes
           /\ Verdict(rules, text) = "allowed" <=> MayRun(text)
<1>1. CASE text.kind = "single"
  <2>1. PICK s \in StatementType : text.statement = {s}
    BY <1>1 DEF TextType, Unjudged
  <2>2. Verdict(rules, text) = Judge(rules, s)
    BY <1>1, <2>1 DEF Verdict
  <2>3. MayRun(text) <=> \A rule \in Rules : ~Rejects(rule, s)
    BY <1>1, <2>1, RulesAreComplete DEF MayRun
  <2>4. (\A rule \in Rules : ~Rejects(rule, s))
            <=> \A i \in DOMAIN rules : ~Rejects(rules[i], s)
    <3>1. Rules = {rules[i] : i \in DOMAIN rules}
      BY RangeEquality
    <3>. QED
      BY <3>1
  <2>. QED
    BY <2>2, <2>3, <2>4, FirstRejectionExists, JudgeCodes DEF Codes
<1>2. CASE text.kind # "single"
  BY <1>2 DEF Verdict, MayRun, TextType, Unjudged, Codes
<1>. QED
  BY <1>1, <1>2

-----------------------------------------------------------------------------
(* The validator.                                                          *)

USE ValidatorAssumption

\* The rules asked are the registered ones, and all of them once requests come.
RegistryInv ==
    /\ cache \in {<<>>, registered}
    /\ serving => Range(registered) = Rules
    /\ ~serving => calls = <<>>

\* Every past call was judged by the rules as they are registered now.
CallsInv == \A i \in DOMAIN calls : calls[i][2] = Verdict(registered, calls[i][1])

IInv == TypeOK /\ RegistryInv /\ CallsInv

-----------------------------------------------------------------------------
LEMMA AskedRules ==
    ASSUME IInv
    PROVE  RulesFor = registered
  BY DEF IInv, RegistryInv, RulesFor

LEMMA ImportKeeps ==
    ASSUME IInv, NEW rule \in Rules, ImportRule(rule)
    PROVE  IInv'
<1>1. calls = <<>> /\ calls' = <<>>
  BY DEF IInv, RegistryInv, ImportRule
<1>2. TypeOK'
  BY DEF IInv, TypeOK, ImportRule
<1>3. RegistryInv'
  BY <1>1 DEF RegistryInv, ImportRule
<1>4. CallsInv'
  BY <1>1 DEF CallsInv
<1>. QED
  BY <1>2, <1>3, <1>4 DEF IInv

LEMMA StartKeeps ==
    ASSUME IInv, StartServing
    PROVE  IInv'
  BY DEF IInv, TypeOK, RegistryInv, CallsInv, StartServing

LEMMA ValidateKeeps ==
    ASSUME IInv, NEW text \in Texts, Validate(text)
    PROVE  IInv'
<1>. DEFINE verdict == Verdict(registered, text)
<1>1. /\ calls' = Append(calls, <<text, verdict>>)
      /\ cache' = registered
      /\ UNCHANGED <<registered, serving>>
      /\ serving /\ Len(calls) < MaxCalls
  BY AskedRules DEF Validate
<1>2. verdict \in Codes
  BY <1>1, VerdictIsOrderless DEF IInv, TypeOK, RegistryInv
<1>. HIDE DEF verdict
<1>3. TypeOK'
  BY <1>1, <1>2 DEF IInv, TypeOK
<1>4. RegistryInv'
  BY <1>1 DEF IInv, RegistryInv
<1>5. CallsInv'
  <2>1. SUFFICES ASSUME NEW i \in DOMAIN calls'
                 PROVE  calls'[i][2] = Verdict(registered, calls'[i][1])
    BY <1>1 DEF CallsInv
  <2>2. calls \in Seq(Texts \X Codes)
    BY DEF IInv, TypeOK
  <2>3. CASE i \in DOMAIN calls
    BY <1>1, <2>2, <2>3 DEF IInv, CallsInv
  <2>4. CASE i = Len(calls) + 1
    BY <1>1, <2>2, <2>4 DEF verdict
  <2>. QED
    BY <1>1, <2>2, <2>3, <2>4
<1>. QED
  BY <1>3, <1>4, <1>5 DEF IInv

LEMMA ValidatorInductive == Spec => []IInv
<1>1. Init => IInv
  <2>. SUFFICES ASSUME Init
                PROVE  IInv
    OBVIOUS
  <2>0. serving \in BOOLEAN
    BY DEF Init
  <2>1. registered \in Seq(Rules) /\ cache \in Seq(Rules)
    BY DEF Init
  <2>2. calls \in Seq(Texts \X Codes)
    BY DEF Init
  <2>3. Len(calls) = 0 /\ DOMAIN calls = {}
    BY DEF Init
  <2>4. TypeOK
    BY <2>0, <2>1, <2>2, <2>3 DEF TypeOK
  <2>. QED
    BY <2>3, <2>4 DEF Init, IInv, RegistryInv, CallsInv
<1>2. IInv /\ [Next]_vars => IInv'
  <2>1. ASSUME IInv, UNCHANGED vars
        PROVE  IInv'
    BY <2>1 DEF IInv, TypeOK, RegistryInv, CallsInv, vars
  <2>. QED
    BY <2>1, ImportKeeps, StartKeeps, ValidateKeeps DEF Next
<1>. QED
  BY <1>1, <1>2, PTL DEF Spec

\* Every variable keeps its type; in particular every rejection carries the code
\* of a registered rule or of an early verdict.
THEOREM ValidatorTypeCorrect == Spec => []TypeOK
<1>1. IInv => TypeOK
  BY DEF IInv
<1>. QED
  BY <1>1, ValidatorInductive, PTL

\* For every import order of the rule modules, the validator lets through exactly
\* the statements that break no rule.
THEOREM ValidatorIgnoresOrder == Spec => []VerdictIgnoresOrder
<1>1. ASSUME IInv
      PROVE  VerdictIgnoresOrder
  <2>1. SUFFICES ASSUME NEW i \in DOMAIN calls
                 PROVE  calls[i][2] = "allowed" <=> MayRun(calls[i][1])
    BY DEF VerdictIgnoresOrder
  <2>2. serving /\ registered \in Seq(Rules) /\ calls[i][1] \in Texts
    BY <1>1 DEF IInv, TypeOK, RegistryInv
  <2>. QED
    BY <1>1, <2>2, VerdictIsOrderless DEF IInv, RegistryInv, CallsInv
<1>. QED
  BY <1>1, ValidatorInductive, PTL

\* One process never changes its reason for rejecting a payload.
THEOREM ValidatorReasonIsStable == Spec => []ReasonIsStable
<1>1. IInv => ReasonIsStable
  BY DEF IInv, CallsInv, ReasonIsStable
<1>. QED
  BY <1>1, ValidatorInductive, PTL
=============================================================================
