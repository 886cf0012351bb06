------------------------------ MODULE Codegen ------------------------------
(***************************************************************************)
(* The build of role_permissions.py: codegen-permissions.py fetches the    *)
(* permission contract, validates it and has codegen-py.mjs emit the       *)
(* tables that the helpers of role_permissions.py look things up in.       *)
(*                                                                         *)
(* Validation and emission read the contract separately.  Validation keeps *)
(* one scope per name, the last in the file; emission puts every entry in  *)
(* the bucket of its scope and writes PERM_SCOPE bucket by bucket, where   *)
(* Python keeps the last line for a name.  Nothing asks that every bucket  *)
(* has an entry, and for an empty one the module is a syntax error.        *)
(***************************************************************************)
EXTENDS Integers, Sequences, FiniteSets

CONSTANTS
    Names,     \* permission names
    SelfNames, \* those that end in ":self"
    Switch,    \* "helios:tenant:switch:self"
    Transfer,  \* "helios:tenant:transfer"
    Roles, Owner,
    Grants,    \* the sets of permissions that a role may list
    MaxListed, \* bound on the entries for one name
    MaxTwice   \* bound on the names with several entries

ASSUME NamesAssumption ==
    /\ SelfNames \subseteq Names
    /\ Switch \in SelfNames
    /\ Transfer \in Names \ SelfNames
    /\ Owner \in Roles
    /\ Grants \subseteq SUBSET Names
    /\ MaxListed \in Nat /\ MaxTwice \in Nat

VARIABLES
    stage,     \* how far main() is
    contract,  \* the contract that passed validation
    module     \* role_permissions.py, what Python reads from it

codegenVars == <<stage, contract, module>>

(* The buckets in the order in which PERM_SCOPE is written.                *)
ScopeOrder == <<"self", "platform", "project", "platform/project">>
Scopes == {ScopeOrder[i] : i \in DOMAIN ScopeOrder}

(* For each name the scopes of its entries, of all services, in file       *)
(* order: neither program compares entries of different names.  "other"    *)
(* stands for any scope outside the four.                                  *)
ScopeLists == UNION {[1..k -> Scopes \cup {"other"}] : k \in 0..MaxListed}
PermLists ==
    {p \in [Names -> ScopeLists] : Cardinality({n \in Names : Len(p[n]) > 1}) <= MaxTwice}

(* Besides, what role_permissions gives each role, the roles whose         *)
(* definition there has no list, the array roles[], and whether Python and *)
(* JavaScript print the version alike ("plain": a string) or not ("odd":   *)
(* null, true, 2.0).  A contract is "shaped" if its sections and entries   *)
(* have the right JSON types.                                              *)
NoContract ==
    [shaped |-> FALSE, perms |-> [n \in Names |-> <<>>], grants |-> [r \in Roles |-> {}],
     bare |-> {}, roles |-> {}, version |-> "plain"]
Contract ==
    {NoContract} \cup
    {c \in [shaped : {TRUE}, perms : PermLists, grants : [Roles -> Grants], bare : SUBSET Roles,
            roles : {{}, Roles}, version : {"plain", "odd"}] :
        \A r \in c.bare : c.grants[r] = {}}
-----------------------------------------------------------------------------
(* validate_contract_in_memory.                                            *)

EntriesOf(c, n) == DOMAIN c.perms[n]
Listed(c) == {n \in Names : c.perms[n] # <<>>}

(* flat: a later entry for a name replaces an earlier one.                 *)
Flat(c, n) == c.perms[n][Len(c.perms[n])]

(* Mutants of ScopesValid: without the check of the suffix; without the    *)
(* check of the four scopes.                                               *)
AnySuffix(c) == \A n \in Names : \A i \in EntriesOf(c, n) : c.perms[n][i] \in Scopes
AnyScope(c) ==
    \A n \in Names : \A i \in EntriesOf(c, n) : c.perms[n][i] = "self" <=> n \in SelfNames

ScopesValid(c) ==
    \A n \in Names : \A i \in EntriesOf(c, n) :
        /\ c.perms[n][i] \in Scopes
        /\ c.perms[n][i] = "self" <=> n \in SelfNames

(* Mutants of RolesValid: no check of project scope; OWNER's permission    *)
(* for every role.                                                         *)
ProjectInRoles(c) ==
    \A r \in Roles : \A n \in c.grants[r] :
        /\ n \in Listed(c)
        /\ Flat(c, n) # "self"
        /\ r # Owner => n # Transfer
TransferForAll(c) ==
    \A r \in Roles : \A n \in c.grants[r] :
        n \in Listed(c) /\ Flat(c, n) \notin {"self", "project"}

RolesValid(c) ==
    \A r \in Roles : \A n \in c.grants[r] :
        /\ n \in Listed(c)
        /\ Flat(c, n) \notin {"self", "project"}
        /\ r # Owner => n # Transfer

SwitchValid(c) == Switch \in Listed(c) /\ Flat(c, Switch) = "self"

Valid(c) == c.shaped /\ ScopesValid(c) /\ RolesValid(c) /\ SwitchValid(c)
-----------------------------------------------------------------------------
(* codegen-py.mjs, and what Python reads from what it wrote.               *)

(* SELF_PERMISSIONS, PLATFORM_PERMISSIONS, PROJECT_PERMISSIONS and         *)
(* DUAL_PERMISSIONS.                                                       *)
Bucket(c, s) == {n \in Names : \E i \in EntriesOf(c, n) : c.perms[n][i] = s}

(* PERM_SCOPE: the last line for a name counts.                            *)
PermScope(c) ==
    [n \in UNION {Bucket(c, s) : s \in Scopes} |->
        ScopeOrder[CHOOSE i \in 1..4 :
            /\ n \in Bucket(c, ScopeOrder[i])
            /\ \A j \in 1..4 : n \in Bucket(c, ScopeOrder[j]) => j <= i]]

(* "X = Literal[]", which literalBlock prints for an empty bucket and for  *)
(* an empty roles[], is a syntax error: Python cannot import the module.   *)
Importable(c) == c.roles # {} /\ \A s \in Scopes : Bucket(c, s) # {}

(* A module with no tables to look things up in, and why.                  *)
NoTables(why) ==
    [state |-> why, tuples |-> [s \in Scopes |-> {}], permScope |-> <<>>,
     roles |-> [r \in Roles |-> {}]]
OldModule == NoTables("old")

Emitted(c) ==
    IF Importable(c)
      THEN [state |-> "tables", tuples |-> [s \in Scopes |-> Bucket(c, s)],
            permScope |-> PermScope(c), roles |-> c.grants]
      ELSE NoTables("syntax error")

(* The helpers of role_permissions.py.                                     *)
is_permission(t, n) == n \in DOMAIN t.permScope
is_self_scope(t, n) == is_permission(t, n) /\ t.permScope[n] = "self"
is_platform_grantable(t, n) ==
    is_permission(t, n) /\ t.permScope[n] \in {"platform", "platform/project"}
is_tenant_grantable(t, n) ==
    is_permission(t, n) => t.permScope[n] \in {"project", "platform/project"}
role_has_permission(t, r, n) == n \in t.roles[r]
-----------------------------------------------------------------------------
(* main().                                                                 *)

CodegenInit == stage = "start" /\ contract = NoContract /\ module = OldModule

(* The contract is fetched and passes validation.                          *)
Load ==
    /\ stage = "start"
    /\ \E c \in Contract : Valid(c) /\ contract' = c
    /\ stage' = "validated"
    /\ UNCHANGED module

(* The fetch fails, or the contract does not pass: main() exits.           *)
LoadFails ==
    /\ stage = "start"
    /\ stage' = "failed"
    /\ UNCHANGED <<contract, module>>

(* Mutant of NodeFails: what node prints goes straight to the output file, *)
(* as in the usage line of codegen-py.mjs (18), instead of to a pipe.      *)
NodeFailsInPlace ==
    /\ stage = "validated"
    /\ stage' = "failed"
    /\ module' = NoTables("syntax error")
    /\ UNCHANGED contract

(* node cannot be run, or ends with an error.  Nothing has been written.   *)
NodeFails ==
    /\ stage = "validated"
    /\ stage' = "failed"
    /\ UNCHANGED <<contract, module>>

(* node reads the contract, and what it printed is written to the module.  *)
(* For a bare role it can only fail: def.permissions is undefined.         *)
Generate ==
    /\ stage = "validated"
    /\ contract.bare = {}
    /\ stage' = "emitted"
    /\ module' = Emitted(contract)
    /\ UNCHANGED contract

(* The module that has been written must have the version line as Python   *)
(* prints it.                                                              *)
CheckVersion ==
    /\ stage = "emitted"
    /\ stage' = IF contract.version = "plain" THEN "written" ELSE "failed"
    /\ UNCHANGED <<contract, module>>

Finished == stage \in {"written", "failed"} /\ UNCHANGED codegenVars

CodegenNext == Load \/ LoadFails \/ NodeFails \/ Generate \/ CheckVersion \/ Finished

CodegenSpec == CodegenInit /\ [][CodegenNext]_codegenVars
-----------------------------------------------------------------------------
(* The types; those of a contract that passed validation are the four      *)
(* scopes.                                                                 *)
CodegenTypeOK ==
    /\ stage \in {"start", "validated", "emitted", "written", "failed"}
    /\ contract \in Contract
    /\ \A n \in Names : \A i \in EntriesOf(contract, n) : contract.perms[n][i] \in Scopes
    /\ module.state \in {"old", "syntax error", "tables"}
    /\ module.tuples \in [Scopes -> SUBSET Names]
    /\ \A n \in DOMAIN module.permScope : n \in Names /\ module.permScope[n] \in Scopes
    /\ module.roles \in [Roles -> SUBSET Names]

(* Python can import the module of this build.                             *)
HasTables == module.state = "tables"

UniqueNames(c) == \A n \in Names : Len(c.perms[n]) <= 1

(* In the emitted tables, also of a contract that lists a name twice, a    *)
(* role holds only known permissions, none of self scope                   *)
(* (tests/test_role_permissions.py 87), and only OWNER holds the transfer. *)
RolesAreSafe ==
    HasTables => \A r \in Roles : \A n \in Names : role_has_permission(module, r, n) =>
        /\ is_permission(module, n)
        /\ ~is_self_scope(module, n)
        /\ n = Transfer => r = Owner

(* Two readings of a contract agree if it lists no name twice: every       *)
(* permission is in exactly one tuple and has the scope that was validated *)
(* (test_role_permissions.py 220), and what a role holds can be granted on *)
(* the platform path.                                                      *)
TablesAgree ==
    HasTables /\ UniqueNames(contract) =>
        /\ \A n \in Listed(contract) :
              /\ module.permScope[n] = Flat(contract, n)
              /\ \A s \in Scopes : n \in module.tuples[s] <=> s = Flat(contract, n)
        /\ \A r \in Roles : \A n \in module.roles[r] : is_platform_grantable(module, n)

(* No role holds a permission that the tables give project scope           *)
(* (test_role_permissions.py 94), whatever contract was accepted.          *)
RolesNeverProject ==
    HasTables =>
        \A r \in Roles : \A n \in module.roles[r] : is_platform_grantable(module, n)

(* The permission to switch tenants is universal: of self scope, and       *)
(* granted on neither path, also if the contract lists it twice.           *)
SwitchIsUniversal ==
    HasTables =>
        /\ is_self_scope(module, Switch)
        /\ ~is_platform_grantable(module, Switch) /\ ~is_tenant_grantable(module, Switch)

(* A build that fails in fetching, in validation or in node leaves the     *)
(* module that was there.  The check of the version line alone comes too   *)
(* late for that: what it rejects has been written, from a contract that   *)
(* passed everything else.                                                 *)
OnlyVersionFailsLate ==
    stage = "failed" =>
        \/ module = OldModule
        \/ Valid(contract) /\ contract.version = "odd" /\ module = Emitted(contract)
=============================================================================
