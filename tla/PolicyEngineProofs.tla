------------------------- MODULE PolicyEngineProofs -------------------------
(***************************************************************************)
(* The index of the policy engine, and the agreement of its evaluators,    *)
(* for every list of policies and every hierarchy of roles.                *)
(***************************************************************************)
EXTENDS PolicyEngine, TLAPS

EngineTypeOK ==
    /\ policies \in Seq(Policy)
    /\ pc \in {"validate", "index", "ready", "rejected"}
    /\ n \in 0 .. Len(policies)
    /\ pc = "validate" => index = <<>>
    /\ pc = "ready" => n = Len(policies)

EngineInv == EngineTypeOK /\ IndexIsLast

-----------------------------------------------------------------------------
(* One turn of the loop of Engine::new (evaluator.rs:14-17). *)
LEMMA IndexStep == EngineInv /\ IndexPolicy => EngineInv'
  <1>0. SUFFICES ASSUME EngineInv, IndexPolicy PROVE EngineInv'
    OBVIOUS
  <1> DEFINE m == n + 1
             key == Key(policies[n + 1])
             v == policies[n + 1].effect = "allow"
  <1>a. /\ n \in Nat /\ m \in Nat /\ m <= Len(policies)
        /\ n' = m /\ policies' = policies /\ pc' = pc /\ pc = "index"
        /\ index' = Insert(index, key, v)
    BY <1>0 DEF EngineInv, EngineTypeOK, IndexPolicy
  <1>b. /\ \A i \in 1 .. n : Key(policies[i]) \in DOMAIN index
        /\ \A k \in DOMAIN index : \E i \in 1 .. n :
              /\ Key(policies[i]) = k /\ index[k] = (policies[i].effect = "allow")
              /\ \A j \in 1 .. n : j > i => Key(policies[j]) # k
    BY <1>0, <1>a DEF EngineInv, IndexIsLast
  <1>c. /\ DOMAIN index' = DOMAIN index \cup {key}
        /\ index'[key] = v
        /\ \A x \in DOMAIN index : x # key => index'[x] = index[x]
    <2> HIDE DEF key, v
    <2>1. /\ DOMAIN Insert(index, key, v) = DOMAIN index \cup {key}
          /\ Insert(index, key, v)[key] = v
          /\ \A x \in DOMAIN index : x # key => Insert(index, key, v)[x] = index[x]
      BY DEF Insert
    <2> QED
      BY <2>1, <1>a
  <1>1. EngineTypeOK'
    BY <1>0, <1>a DEF EngineInv, EngineTypeOK
  <1>2. \A i \in 1 .. m : Key(policies[i]) \in DOMAIN index'
    BY <1>a, <1>b, <1>c
  <1>3. ASSUME NEW k \in DOMAIN index'
        PROVE  \E i \in 1 .. m :
                  /\ Key(policies[i]) = k /\ index'[k] = (policies[i].effect = "allow")
                  /\ \A j \in 1 .. m : j > i => Key(policies[j]) # k
    <2>1. CASE k = key
      <3>1. m \in 1 .. m /\ \A j \in 1 .. m : ~(j > m)
        BY <1>a
      <3>2. Key(policies[m]) = k /\ index'[k] = (policies[m].effect = "allow")
        BY <2>1, <1>c
      <3> QED
        BY <3>1, <3>2
    <2>2. CASE k # key
      <3>1. k \in DOMAIN index /\ index'[k] = index[k]
        BY <2>2, <1>c
      <3>2. PICK i \in 1 .. n :
                  /\ Key(policies[i]) = k /\ index[k] = (policies[i].effect = "allow")
                  /\ \A j \in 1 .. n : j > i => Key(policies[j]) # k
        BY <3>1, <1>b
      <3>3. i \in 1 .. m /\ \A j \in 1 .. m : j \in 1 .. n \/ j = m
        BY <1>a
      <3>4. \A j \in 1 .. m : j > i => Key(policies[j]) # k
        BY <3>2, <3>3, <2>2
      <3> QED
        BY <3>1, <3>2, <3>3, <3>4
    <2> QED
      BY <2>1, <2>2
  <1>4. IndexIsLast'
    BY <1>2, <1>3, <1>a DEF IndexIsLast
  <1> QED
    BY <1>1, <1>4 DEF EngineInv

(* The invariant of the two loops. *)
LEMMA EngineInvariant == EngineSpec => []EngineInv
  <1>1. EngineInit => EngineInv
    <2> SUFFICES ASSUME EngineInit PROVE EngineInv
      OBVIOUS
    <2>1. PICK m \in 0 .. MaxPolicies : policies \in [1 .. m -> Policy]
      BY DEF EngineInit
    <2>2. policies \in Seq(Policy) /\ Len(policies) \in Nat
      BY <2>1
    <2> QED
      BY <2>2 DEF EngineInit, EngineInv, EngineTypeOK, IndexIsLast
  <1>2. EngineInv /\ [EngineNext]_engineVars => EngineInv'
    <2> SUFFICES ASSUME EngineInv, [EngineNext]_engineVars PROVE EngineInv'
      OBVIOUS
    <2>1. CASE ValidatePolicy
      BY <2>1 DEF ValidatePolicy, EngineInv, EngineTypeOK, IndexIsLast
    <2>2. CASE Validated
      <3>1. /\ pc = "validate" /\ index = <<>> /\ n' = 0 /\ pc' = "index"
            /\ policies' = policies /\ index' = index
        BY <2>2 DEF Validated, EngineInv, EngineTypeOK
      <3>2. EngineTypeOK'
        BY <3>1 DEF EngineInv, EngineTypeOK
      <3>3. DOMAIN index' = {}
        BY <3>1
      <3> QED
        BY <3>1, <3>2, <3>3 DEF EngineInv, IndexIsLast
    <2>3. CASE IndexPolicy
      BY <2>3, IndexStep
    <2>4. CASE Indexed
      BY <2>4 DEF Indexed, EngineInv, EngineTypeOK, IndexIsLast
    <2>5. CASE UNCHANGED engineVars
      BY <2>5 DEF engineVars, EngineInv, EngineTypeOK, IndexIsLast
    <2> QED
      BY <2>1, <2>2, <2>3, <2>4, <2>5 DEF EngineNext
  <1> QED
    BY <1>1, <1>2, PTL DEF EngineSpec

-----------------------------------------------------------------------------
(* For every list of policies: the index holds what the last policy says   *)
(* for each role and action (evaluator.rs:14-17).                          *)
THEOREM IndexTheorem == EngineSpec => []IndexIsLast
  <1>1. EngineInv => IndexIsLast
    BY DEF EngineInv
  <1> QED
    BY <1>1, EngineInvariant, PTL

(* With one policy per role and action, the index and the list grant the   *)
(* same (evaluator.rs:26-32, :55-63).                                      *)
LEMMA GrantsAgree ==
    ASSUME EngineInv, pc = "ready", NoDuplicates, NEW r, NEW a
    PROVE  GrantedByIndex(r, a) <=> GrantedByList(r, a)
  <1> DEFINE k == <<r, a>>
  <1>a. /\ DOMAIN policies = 1 .. n
        /\ \A i \in 1 .. n : Key(policies[i]) \in DOMAIN index
        /\ \A x \in DOMAIN index : \E i \in 1 .. n :
              Key(policies[i]) = x /\ index[x] = (policies[i].effect = "allow")
    BY DEF EngineInv, EngineTypeOK, IndexIsLast
  <1>b. n \in Nat
    BY DEF EngineInv, EngineTypeOK
  <1>1. ASSUME k \in DOMAIN index, index[k] PROVE GrantedByList(r, a)
    <2>1. PICK i \in 1 .. n : Key(policies[i]) = k /\ index[k] = (policies[i].effect = "allow")
      BY <1>1, <1>a
    <2>2. policies[i].effect = "allow"
      BY <2>1, <1>1
    <2>3. \A j \in DOMAIN policies : j < i => Key(policies[j]) # k
      BY <2>1, <1>a, <1>b DEF NoDuplicates
    <2> QED
      BY <2>1, <2>2, <2>3, <1>a DEF GrantedByList
  <1>2. ASSUME GrantedByList(r, a) PROVE k \in DOMAIN index /\ index[k]
    <2>1. PICK i \in DOMAIN policies : Key(policies[i]) = k /\ policies[i].effect = "allow"
      BY <1>2 DEF GrantedByList
    <2>2. k \in DOMAIN index
      BY <2>1, <1>a
    <2>3. PICK j \in 1 .. n : Key(policies[j]) = k /\ index[k] = (policies[j].effect = "allow")
      BY <2>2, <1>a
    <2>4. i = j
      BY <2>1, <2>3, <1>a DEF NoDuplicates
    <2> QED
      BY <2>1, <2>2, <2>3, <2>4
  <1> QED
    BY <1>1, <1>2 DEF GrantedByIndex

(* For every list of policies without duplicates and every hierarchy, the  *)
(* two evaluators give the same decisions (evaluator.rs:25-80).            *)
THEOREM AgreementTheorem == EngineSpec => []EvaluatorsAgree
  <1>1. EngineInv => EvaluatorsAgree
    <2> SUFFICES ASSUME EngineInv, pc = "ready", NoDuplicates, NEW r \in Roles, NEW a \in Actions
                 PROVE  Evaluate(r, a) = EvaluateLinear(r, a)
      BY DEF EvaluatorsAgree
    <2>1. \A x : GrantedByIndex(x, a) <=> GrantedByList(x, a)
      BY GrantsAgree
    <2> QED
      BY <2>1 DEF Evaluate, EvaluateLinear
  <1> QED
    BY <1>1, EngineInvariant, PTL

-----------------------------------------------------------------------------
(* What a role inherits is inherited by those that inherit from it. *)
Closed == \A r \in Roles : \A i \in Inherited(r) : Inherited(i) \subseteq Inherited(r)

(* The hierarchy the engine comes with is closed (policy.rs:145-156). *)
LEMMA DefaultIsClosed == Hierarchy = DefaultHierarchy => Closed
  BY DEF Closed, Inherited, DefaultHierarchy

(* With a closed hierarchy one step of inheritance is enough, for every    *)
(* list of policies: a role may do all that the roles it inherits from may *)
(* do (evaluator.rs:34-44).                                                *)
THEOREM MonotoneTheorem ==
    ASSUME Closed
    PROVE  EngineSpec => []InheritanceIsMonotone
  <1>1. InheritanceIsMonotone
    BY DEF Closed, InheritanceIsMonotone, Evaluate
  <1> QED
    BY <1>1, PTL
=============================================================================
