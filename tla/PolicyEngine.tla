---------------------------- MODULE PolicyEngine ----------------------------
(***************************************************************************)
(* The policy engine (policy-engine/src): a list of policies is read and   *)
(* validated (parser.rs, policy.rs), indexed by role and action            *)
(* (Engine::new in evaluator.rs) and then asked for decisions, through the *)
(* index by evaluate and through the list by evaluate_linear.  Both grant  *)
(* what the role or a role it inherits from is allowed; neither follows    *)
(* inheritance further than one step.                                      *)
(*                                                                         *)
(* The two loops are the steps of this module; what the evaluators return  *)
(* is a function of the state.  A decision is TRUE for Some(true) and      *)
(* FALSE for None, the only values they return.                            *)
(***************************************************************************)
EXTENDS Integers, Sequences

CONSTANTS
    Roles, Actions,     \* names that are not blank
    Hierarchy,          \* for some roles, those they inherit from
    MaxPolicies         \* bound on the length of the list

ASSUME HierarchyAssumption ==
    \E known \in SUBSET Roles : Hierarchy \in [known -> SUBSET Roles]

Blank == ""
ASSUME NamesAssumption == Blank \notin Roles \cup Actions

(* mutant: what a developer inherits is not repeated for an admin. *)
DefaultHierarchyShort == [admin |-> {"developer"}, developer |-> {"viewer"}, viewer |-> {}]

DefaultHierarchy == [admin     |-> {"developer", "viewer"},
                     developer |-> {"viewer"},
                     viewer    |-> {}]

Policy == [role : Roles \cup {Blank}, action : Actions \cup {Blank},
           effect : {"allow", "deny", "maybe", Blank}]

VARIABLES
    policies,   \* the list as it was read, later raw_policies
    pc,         \* "validate", "index", "ready" or "rejected"
    n,          \* how many policies the running loop has done
    index       \* the map of the engine

engineVars == <<policies, pc, n, index>>

-----------------------------------------------------------------------------
IsValid(p) ==
    /\ p.role # Blank /\ p.action # Blank
    /\ p.effect \in {"allow", "deny"}

ValidatePolicy ==
    /\ pc = "validate" /\ n < Len(policies)
    /\ IF IsValid(policies[n + 1])
       THEN n' = n + 1 /\ pc' = "validate"
       ELSE n' = n /\ pc' = "rejected"
    /\ UNCHANGED <<policies, index>>

Validated ==
    /\ pc = "validate" /\ n = Len(policies)
    /\ pc' = "index" /\ n' = 0
    /\ UNCHANGED <<policies, index>>

Key(p) == <<p.role, p.action>>

(* mutant: an entry that is there is kept. *)
InsertIfAbsent(map, k, v) == [x \in DOMAIN map \cup {k} |-> IF x \in DOMAIN map THEN map[x] ELSE v]
Insert(map, k, v) == [x \in DOMAIN map \cup {k} |-> IF x = k THEN v ELSE map[x]]

IndexPolicy ==
    /\ pc = "index" /\ n < Len(policies)
    /\ index' = Insert(index, Key(policies[n + 1]), policies[n + 1].effect = "allow")
    /\ n' = n + 1
    /\ UNCHANGED <<policies, pc>>

Indexed ==
    /\ pc = "index" /\ n = Len(policies)
    /\ pc' = "ready"
    /\ UNCHANGED <<policies, n, index>>

EngineInit ==
    /\ policies \in UNION {[1 .. m -> Policy] : m \in 0 .. MaxPolicies}
    /\ pc = "validate" /\ n = 0 /\ index = <<>>

EngineNext == ValidatePolicy \/ Validated \/ IndexPolicy \/ Indexed

EngineSpec == EngineInit /\ [][EngineNext]_engineVars

-----------------------------------------------------------------------------
(* The evaluators. *)

Inherited(r) == IF r \in DOMAIN Hierarchy THEN Hierarchy[r] ELSE {}

GrantedByIndex(r, a) == <<r, a>> \in DOMAIN index /\ index[<<r, a>>]

EvaluateOwn(r, a) == GrantedByIndex(r, a)           \* mutant: nothing is inherited
Evaluate(r, a) ==
    \/ GrantedByIndex(r, a)
    \/ \E i \in Inherited(r) : GrantedByIndex(i, a)

(* iter().find: the first policy for the role and action decides. *)
GrantedByList(r, a) ==
    \E i \in DOMAIN policies :
        /\ Key(policies[i]) = <<r, a>> /\ policies[i].effect = "allow"
        /\ \A j \in DOMAIN policies : j < i => Key(policies[j]) # <<r, a>>

EvaluateLinear(r, a) ==
    \/ GrantedByList(r, a)
    \/ \E i \in Inherited(r) : GrantedByList(i, a)

-----------------------------------------------------------------------------
(* While it is built the index holds, for the policies done so far, what   *)
(* the last of them says for each role and action, and nothing else        *)
(* (evaluator.rs:14-17).                                                   *)
IndexIsLast ==
    pc \in {"index", "ready"} =>
        /\ \A i \in 1 .. n : Key(policies[i]) \in DOMAIN index
        /\ \A k \in DOMAIN index : \E i \in 1 .. n :
              /\ Key(policies[i]) = k /\ index[k] = (policies[i].effect = "allow")
              /\ \A j \in 1 .. n : j > i => Key(policies[j]) # k

NoDuplicates ==
    \A i, j \in DOMAIN policies : Key(policies[i]) = Key(policies[j]) => i = j

(* The index and the list give the same decisions for every role, action   *)
(* and hierarchy, provided no two policies are for one role and action     *)
(* (evaluator.rs:25-80).                                                   *)
EvaluatorsAgree ==
    pc = "ready" /\ NoDuplicates =>
        \A r \in Roles, a \in Actions : Evaluate(r, a) = EvaluateLinear(r, a)

(* A role may do all that a role it inherits from may do, inherited rights *)
(* included, although evaluate looks only one step up: the map of roles    *)
(* must be closed, as the default one is (evaluator.rs:34-44,              *)
(* policy.rs:145-156).                                                     *)
InheritanceIsMonotone ==
    pc = "ready" =>
        \A r \in Roles, a \in Actions : \A i \in Inherited(r) : Evaluate(i, a) => Evaluate(r, a)
=============================================================================
