---------------------------- MODULE CodegenProofs ----------------------------
(***************************************************************************)
(* Proofs about Codegen, for contracts of any length: what validation      *)
(* accepts keeps its promises in the tables that the generator emits,      *)
(* although the two read the contract separately, whenever the module can  *)
(* be imported at all.                                                     *)
(***************************************************************************)
EXTENDS Codegen, WellFoundedInduction, TLAPS

USE NamesAssumption
-----------------------------------------------------------------------------
(* The last of some positions, which PermScope chooses, exists.            *)

LEMMA LastOf ==
    ASSUME NEW n \in Nat, NEW E \in SUBSET (1..n), E # {}
    PROVE  \E i \in E : \A j \in E : j <= i
<1> DEFINE T == {n - i : i \in E}
<1>1. T \subseteq Nat /\ T # {}
  <2>1. \A i \in E : n - i \in Nat
    OBVIOUS
  <2> QED
    BY <2>1
<1> HIDE DEF T
<1>2. PICK x \in T : \A y \in T : ~(<<y, x>> \in OpToRel(<, Nat))
  BY <1>1, NatLessThanWellFounded, WFMin
<1>3. x \in Nat /\ \A y \in T : y \in Nat /\ ~(y < x)
  BY <1>1, <1>2 DEF OpToRel
<1>4. PICK i \in E : x = n - i
  BY DEF T
<1>5. \A j \in E : n - j \in T
  BY DEF T
<1>6. \A j \in E : ~(n - j < n - i)
  BY <1>3, <1>4, <1>5
<1> QED
  BY <1>6

Entries(c) == c.perms \in [Names -> ScopeLists]

LEMMA FlatIsListed ==
    ASSUME NEW c, Entries(c), NEW n \in Listed(c)
    PROVE  /\ \E i \in EntriesOf(c, n) : Flat(c, n) = c.perms[n][i]
           /\ Len(c.perms[n]) <= 1 => \A i \in EntriesOf(c, n) : Flat(c, n) = c.perms[n][i]
<1>1. n \in Names /\ c.perms[n] # <<>> /\ c.perms[n] \in ScopeLists
  BY DEF Listed, Entries
<1>2. PICK k \in Nat : c.perms[n] \in [1..k -> Scopes \cup {"other"}]
  BY <1>1 DEF ScopeLists
<1>3. c.perms[n] \in Seq(Scopes \cup {"other"})
  BY <1>2
<1>4. Len(c.perms[n]) \in EntriesOf(c, n) /\ EntriesOf(c, n) = 1..Len(c.perms[n])
  BY <1>1, <1>3 DEF EntriesOf
<1> QED
  BY <1>3, <1>4 DEF Flat

LEMMA ScopeIsWritten ==
    ASSUME NEW c, NEW n \in DOMAIN PermScope(c)
    PROVE  PermScope(c)[n] \in Scopes /\ n \in Bucket(c, PermScope(c)[n])
<1> DEFINE E == {i \in 1..4 : n \in Bucket(c, ScopeOrder[i])}
<1>1. \A s \in Scopes : \E i \in 1..4 : s = ScopeOrder[i]
  BY DEF Scopes, ScopeOrder
<1>2. E \in SUBSET (1..4) /\ E # {}
  BY <1>1 DEF PermScope
<1>3. \E i \in E : \A j \in E : j <= i
  BY <1>2, LastOf
<1>4. \E i \in 1..4 : /\ n \in Bucket(c, ScopeOrder[i])
                      /\ \A j \in 1..4 : n \in Bucket(c, ScopeOrder[j]) => j <= i
  BY <1>3
<1>5. \E i \in 1..4 : PermScope(c)[n] = ScopeOrder[i] /\ n \in Bucket(c, ScopeOrder[i])
  BY <1>4 DEF PermScope
<1>6. \A i \in 1..4 : ScopeOrder[i] \in Scopes
  BY DEF Scopes, ScopeOrder
<1> QED
  BY <1>5, <1>6

LEMMA ScopeNames ==
    /\ Scopes = {"self", "platform", "project", "platform/project"}
    /\ "self" \in Scopes /\ "other" \notin Scopes
BY DEF Scopes, ScopeOrder

(* Every permission of an accepted contract is in a bucket.                *)
LEMMA ListedIsWritten ==
    ASSUME NEW c, Entries(c), ScopesValid(c), NEW n \in Listed(c)
    PROVE  n \in DOMAIN PermScope(c)
<1>1. PICK i \in EntriesOf(c, n) : TRUE
  BY FlatIsListed
<1>2. c.perms[n][i] \in Scopes
  BY DEF ScopesValid, Listed
<1>3. n \in Bucket(c, c.perms[n][i])
  BY DEF Bucket, Listed
<1> QED
  BY <1>2, <1>3 DEF PermScope

(* Whether a permission is of self scope is decided by its name, in every  *)
(* entry and in the tables.                                                *)
LEMMA SelfByName ==
    ASSUME NEW c, ScopesValid(c), NEW n \in DOMAIN PermScope(c)
    PROVE  PermScope(c)[n] = "self" <=> n \in SelfNames
<1>1. n \in Names /\ \E i \in EntriesOf(c, n) : c.perms[n][i] = PermScope(c)[n]
  BY ScopeIsWritten DEF Bucket
<1> QED
  BY <1>1 DEF ScopesValid
-----------------------------------------------------------------------------
(* The build.                                                              *)

(* A contract that is kept has passed validation, and the module is the    *)
(* old one or what node emitted for it; a build fails after that for the   *)
(* version only.                                                           *)
CodegenInv ==
    /\ stage \in {"start", "validated", "emitted", "written", "failed"}
    /\ contract \in Contract
    /\ contract = NoContract \/ Valid(contract)
    /\ stage \in {"start", "validated"} => module = OldModule
    /\ stage \in {"validated", "emitted", "written"} => Valid(contract)
    /\ stage \in {"emitted", "written"} => module = Emitted(contract)
    /\ stage = "failed" => OnlyVersionFailsLate

LEMMA CodegenInvariant == CodegenSpec => []CodegenInv
<1>1. CodegenInit => CodegenInv
  BY DEF CodegenInit, CodegenInv, Contract
<1>2. CodegenInv /\ [CodegenNext]_codegenVars => CodegenInv'
  <2> SUFFICES ASSUME CodegenInv, [CodegenNext]_codegenVars PROVE CodegenInv'
    OBVIOUS
  <2> USE DEF CodegenInv, OnlyVersionFailsLate
  <2>1. CASE Load
    BY <2>1 DEF Load
  <2>2. CASE LoadFails
    BY <2>2 DEF LoadFails
  <2>3. CASE NodeFails
    BY <2>3 DEF NodeFails
  <2>4. CASE Generate
    BY <2>4 DEF Generate
  <2>5. CASE CheckVersion
    <3>1. contract.shaped
      BY <2>5 DEF CheckVersion, Valid
    <3>2. contract # NoContract
      BY <3>1 DEF NoContract
    <3>3. contract.version \in {"plain", "odd"}
      BY <3>2 DEF Contract
    <3> QED
      BY <2>5, <3>3 DEF CheckVersion
  <2>6. CASE UNCHANGED codegenVars
    BY <2>6 DEF codegenVars
  <2> QED
    BY <2>1, <2>2, <2>3, <2>4, <2>5, <2>6 DEF CodegenNext, Finished
<1> QED
  BY <1>1, <1>2, PTL DEF CodegenSpec

(* The names and scopes of an emitted module are those of its contract.    *)
LEMMA EmittedType ==
    ASSUME NEW c, c.grants \in [Roles -> SUBSET Names]
    PROVE  /\ Emitted(c).state \in {"syntax error", "tables"}
           /\ Emitted(c).tuples \in [Scopes -> SUBSET Names]
           /\ \A n \in DOMAIN Emitted(c).permScope :
                 n \in Names /\ Emitted(c).permScope[n] \in Scopes
           /\ Emitted(c).roles \in [Roles -> SUBSET Names]
<1>1. \A s \in Scopes : Bucket(c, s) \subseteq Names
  BY DEF Bucket
<1>2. \A n \in DOMAIN PermScope(c) : n \in Names /\ PermScope(c)[n] \in Scopes
  BY <1>1, ScopeIsWritten
<1> QED
  BY <1>1, <1>2 DEF Emitted, NoTables

(* A module with tables is that of its contract, which is valid.           *)
LEMMA TablesOf ==
    ASSUME CodegenInv, HasTables
    PROVE  /\ Valid(contract)
           /\ module = [state |-> "tables", tuples |-> [s \in Scopes |-> Bucket(contract, s)],
                        permScope |-> PermScope(contract), roles |-> contract.grants]
<1>1. module # OldModule
  BY DEF HasTables, OldModule, NoTables
<1>2. Valid(contract) /\ module = Emitted(contract)
  BY <1>1 DEF CodegenInv, OnlyVersionFailsLate
<1>3. Importable(contract)
  BY <1>2 DEF HasTables, Emitted, NoTables
<1> QED
  BY <1>2, <1>3 DEF Emitted

LEMMA ContractType ==
    ASSUME NEW c \in Contract, c.shaped
    PROVE  Entries(c) /\ c.grants \in [Roles -> SUBSET Names]
<1>1. NoContract.shaped = FALSE
  BY DEF NoContract
<1>2. c # NoContract
  BY <1>1
<1>3. c.perms \in PermLists /\ c.grants \in [Roles -> Grants]
  BY <1>2 DEF Contract
<1> QED
  BY <1>3 DEF Entries, PermLists

(* The variables hold values of their types, and a contract past           *)
(* validation only the four scopes.                                        *)
THEOREM CodegenTypeCorrect == CodegenSpec => []CodegenTypeOK
<1>1. CodegenInv => CodegenTypeOK
  <2> SUFFICES ASSUME CodegenInv PROVE CodegenTypeOK
    OBVIOUS
  <2>1. \A n \in Names : \A i \in EntriesOf(contract, n) : contract.perms[n][i] \in Scopes
    <3>1. \A n \in Names : EntriesOf(NoContract, n) = {}
      BY DEF EntriesOf, NoContract
    <3> QED
      BY <3>1 DEF CodegenInv, Valid, ScopesValid
  <2>2. CASE module = OldModule
    BY <2>1, <2>2 DEF CodegenInv, CodegenTypeOK, OldModule, NoTables
  <2>3. CASE module # OldModule
    <3>1. Valid(contract) /\ module = Emitted(contract)
      BY <2>3 DEF CodegenInv, OnlyVersionFailsLate
    <3>2. contract.grants \in [Roles -> SUBSET Names]
      BY <3>1, ContractType DEF CodegenInv, Valid
    <3> QED
      BY <2>1, <3>1, <3>2, EmittedType DEF CodegenInv, CodegenTypeOK
  <2> QED
    BY <2>2, <2>3
<1> QED
  BY <1>1, CodegenInvariant, PTL

(* In the emitted tables roles hold only known permissions, none of self   *)
(* scope, and only OWNER the transfer: a name listed twice cannot hide     *)
(* from validation that it is of self scope.                               *)
THEOREM RolesSafe == CodegenSpec => []RolesAreSafe
<1>1. CodegenInv => RolesAreSafe
  <2> SUFFICES ASSUME CodegenInv, HasTables, NEW r \in Roles, NEW n \in Names,
                      role_has_permission(module, r, n)
               PROVE  /\ is_permission(module, n)
                      /\ ~is_self_scope(module, n)
                      /\ n = Transfer => r = Owner
    BY DEF RolesAreSafe
  <2>1. /\ Valid(contract)
        /\ module.permScope = PermScope(contract) /\ n \in contract.grants[r]
    BY TablesOf DEF role_has_permission
  <2>2. /\ ScopesValid(contract) /\ Entries(contract)
        /\ n \in Listed(contract) /\ Flat(contract, n) # "self"
        /\ r # Owner => n # Transfer
    BY <2>1, ContractType DEF CodegenInv, Valid, RolesValid
  <2>3. n \notin SelfNames
    <3>1. \E i \in EntriesOf(contract, n) : Flat(contract, n) = contract.perms[n][i]
      BY <2>2, FlatIsListed
    <3> QED
      BY <2>2, <3>1 DEF ScopesValid
  <2>4. n \in DOMAIN PermScope(contract) /\ PermScope(contract)[n] # "self"
    BY <2>2, <2>3, ListedIsWritten, SelfByName
  <2> QED
    BY <2>1, <2>2, <2>4 DEF is_permission, is_self_scope
<1> QED
  BY <1>1, CodegenInvariant, PTL

(* The permission to switch tenants is of self scope and granted on        *)
(* neither path.                                                           *)
THEOREM SwitchUniversal == CodegenSpec => []SwitchIsUniversal
<1>1. CodegenInv => SwitchIsUniversal
  <2> SUFFICES ASSUME CodegenInv, HasTables
               PROVE  /\ is_self_scope(module, Switch)
                      /\ ~is_platform_grantable(module, Switch)
                      /\ ~is_tenant_grantable(module, Switch)
    BY DEF SwitchIsUniversal
  <2>1. /\ module.permScope = PermScope(contract)
        /\ Entries(contract) /\ ScopesValid(contract) /\ Switch \in Listed(contract)
    BY TablesOf, ContractType DEF CodegenInv, Valid, SwitchValid
  <2>2. Switch \in DOMAIN PermScope(contract) /\ PermScope(contract)[Switch] = "self"
    BY <2>1, ListedIsWritten, SelfByName
  <2> QED
    BY <2>1, <2>2
       DEF is_permission, is_self_scope, is_platform_grantable, is_tenant_grantable
<1> QED
  BY <1>1, CodegenInvariant, PTL

(* A contract that lists no name twice is emitted as it was validated, and *)
(* its roles hold what the platform path may grant.                        *)
THEOREM TablesCorrect == CodegenSpec => []TablesAgree
<1>1. CodegenInv => TablesAgree
  <2> SUFFICES ASSUME CodegenInv, HasTables, UniqueNames(contract)
               PROVE  /\ \A n \in Listed(contract) :
                            /\ module.permScope[n] = Flat(contract, n)
                            /\ \A s \in Scopes :
                                  n \in module.tuples[s] <=> s = Flat(contract, n)
                      /\ \A r \in Roles : \A n \in module.roles[r] :
                            is_platform_grantable(module, n)
    BY DEF TablesAgree
  <2>1. /\ module.tuples = [s \in Scopes |-> Bucket(contract, s)]
        /\ module.permScope = PermScope(contract) /\ module.roles = contract.grants
        /\ Entries(contract) /\ ScopesValid(contract) /\ RolesValid(contract)
    BY TablesOf, ContractType DEF CodegenInv, Valid
  <2>2. ASSUME NEW n \in Listed(contract)
        PROVE  /\ n \in DOMAIN PermScope(contract)
               /\ PermScope(contract)[n] = Flat(contract, n)
               /\ \A s \in Scopes : n \in Bucket(contract, s) <=> s = Flat(contract, n)
    <3>1. n \in Names /\ Len(contract.perms[n]) <= 1
      BY DEF Listed, UniqueNames
    <3>4. \A s \in Scopes : n \in Bucket(contract, s) <=> s = Flat(contract, n)
      BY <2>1, <3>1, FlatIsListed DEF Bucket
    <3>5. n \in DOMAIN PermScope(contract)
      BY <2>1, ListedIsWritten
    <3> QED
      BY <3>4, <3>5, ScopeIsWritten
  <2>3. ASSUME NEW r \in Roles, NEW n \in module.roles[r]
        PROVE  is_platform_grantable(module, n)
    <3>1. n \in Listed(contract) /\ Flat(contract, n) \notin {"self", "project"}
      BY <2>1 DEF RolesValid
    <3>2. PermScope(contract)[n] \in Scopes \ {"self", "project"}
      BY <2>2, <3>1, ScopeIsWritten
    <3> QED
      BY <2>1, <2>2, <3>1, <3>2, ScopeNames DEF is_platform_grantable, is_permission
  <2> QED
    BY <2>1, <2>2, <2>3
<1> QED
  BY <1>1, CodegenInvariant, PTL

(* A build fails before it has touched the module, except for the version  *)
(* line: then the module is what a valid contract emits.                   *)
THEOREM FailureIsLateForVersion == CodegenSpec => []OnlyVersionFailsLate
<1>1. CodegenInv => OnlyVersionFailsLate
  BY DEF CodegenInv, OnlyVersionFailsLate
<1> QED
  BY <1>1, CodegenInvariant, PTL
=============================================================================
