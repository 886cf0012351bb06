--------------------------- MODULE ScanInvalidate ---------------------------
(***************************************************************************)
(* RedisPermissionCache.invalidate, invalidate_tenant and _scan_and_delete *)
(* (cache/redis.py), run by several event consumers next to services that  *)
(* populate and write through.  _scan_and_delete alternates SCAN and DEL:  *)
(* a page is what SCAN saw, and its keys are deleted later, whatever they  *)
(* hold by then.  SCAN goes over the buckets of the key space, of which    *)
(* its cursor says which are still to come; each holds one key here.       *)
(***************************************************************************)
EXTENDS RedisCache

CONSTANTS
    Jobs,           \* the tasks that invalidate, one invalidation after another
    CommandsMayFail \* SCAN and DEL may fail

ASSUME CommandsAssumption == CommandsMayFail \in BOOLEAN

VARIABLES
    store,    \* the keys in Redis
    phase,    \* where a job is
    pattern,  \* the keys it is to drop
    todo,     \* the buckets its cursor has not passed
    page,     \* the keys of its next DEL
    old       \* history: the keys to drop that hold what they held when it began

scanVars == <<store, phase, pattern, todo, page, old>>

Phases == {"idle", "scan", "delete", "done", "failed"}
Busy(j) == phase[j] \in {"scan", "delete"}

Present(k) == store[k].kind # "absent"

ScanInit ==
    /\ store \in [Keys -> {Absent, Stored({})}]
    /\ phase = [j \in Jobs |-> "idle"]
    /\ pattern = [j \in Jobs |-> {}]
    /\ todo = [j \in Jobs |-> {}]
    /\ page = [j \in Jobs |-> {}]
    /\ old = [j \in Jobs |-> {}]
-----------------------------------------------------------------------------
Enter(j, at, K, buckets, keys) ==
    /\ ~Busy(j)
    /\ phase' = [phase EXCEPT ![j] = at]
    /\ pattern' = [pattern EXCEPT ![j] = K]
    /\ todo' = [todo EXCEPT ![j] = buckets]
    /\ page' = [page EXCEPT ![j] = keys]
    /\ old' = [old EXCEPT ![j] = {k \in K : Present(k)}]
    /\ UNCHANGED store

(* invalidate(user_id) or invalidate_tenant(tenant_id): from cursor 0.     *)
BeginScan(j) ==
    \E K \in {UserKeys(u) : u \in Users} \cup {TenantKeys(t) : t \in Tenants} :
        Enter(j, "scan", K, Keys, {})

(* invalidate(user_id, tenant_id): one DEL.                                *)
BeginDelete(j) == \E k \in Keys : Enter(j, "delete", {k}, {}, {k})

(* Mutants of NextPhase: DEL whatever SCAN returned; the loop ends at a    *)
(* page without keys; it looks at the cursor only after a DEL.             *)
DeleteAnyPage(keys, buckets) == "delete"
EndAtEmptyPage(keys, buckets) == IF keys = {} THEN "done" ELSE "delete"
EmptyPageAgain(keys, buckets) == IF keys # {} THEN "delete" ELSE "scan"

(* What follows a SCAN that returned keys and left some buckets: a DEL of  *)
(* the keys if there are any, the end if the cursor is 0, the next SCAN.   *)
NextPhase(keys, buckets) ==
    IF keys # {} THEN "delete" ELSE IF buckets = {} THEN "done" ELSE "scan"

(* Mutant of Matching: SCAN without MATCH.                                 *)
AnyPresent(j) == {k \in Keys : Present(k)}

Matching(j) == {k \in pattern[j] : Present(k)}

(* Mutant of Scan: the cursor that SCAN returns is not passed on.          *)
ScanFromStart(j) ==
    /\ phase[j] = "scan"
    /\ \E B \in (SUBSET todo[j]) \ {{}} :
          /\ page' = [page EXCEPT ![j] = Matching(j) \cap B]
          /\ phase' = [phase EXCEPT ![j] = NextPhase(Matching(j) \cap B, todo[j])]
    /\ UNCHANGED <<store, pattern, todo, old>>

(* Redis executes a SCAN: of the keys that match it returns those in the   *)
(* buckets B that the cursor passes, and possibly some again that it has   *)
(* returned before.                                                        *)
Scan(j) ==
    /\ phase[j] = "scan"
    /\ \E B \in (SUBSET todo[j]) \ {{}} : \E keys \in SUBSET (Matching(j) \ (todo[j] \ B)) :
          /\ Matching(j) \cap B \subseteq keys
          /\ page' = [page EXCEPT ![j] = keys]
          /\ todo' = [todo EXCEPT ![j] = @ \ B]
          /\ phase' = [phase EXCEPT ![j] = NextPhase(keys, todo[j] \ B)]
    /\ UNCHANGED <<store, pattern, old>>

(* Redis executes the DEL of a page.                                       *)
DeletePage(j) ==
    /\ phase[j] = "delete"
    /\ store' = Delete(store, page[j])
    /\ old' = [i \in Jobs |-> old[i] \ page[j]]
    /\ page' = [page EXCEPT ![j] = {}]
    /\ phase' = [phase EXCEPT ![j] = IF todo[j] = {} THEN "done" ELSE "scan"]
    /\ UNCHANGED <<pattern, todo>>

(* Mutant of CommandFails: logged and swallowed, as in set.                *)
CommandFailsSilently(j) ==
    /\ CommandsMayFail
    /\ Busy(j)
    /\ phase' = [phase EXCEPT ![j] = "done"]
    /\ UNCHANGED <<store, pattern, todo, page, old>>

(* The SCAN or the DEL raises: logged and raised to the caller, who learns *)
(* that it has to try again.                                               *)
CommandFails(j) ==
    /\ CommandsMayFail
    /\ Busy(j)
    /\ phase' = [phase EXCEPT ![j] = "failed"]
    /\ todo' = [todo EXCEPT ![j] = {}]
    /\ page' = [page EXCEPT ![j] = {}]
    /\ old' = [old EXCEPT ![j] = {}]
    /\ UNCHANGED <<store, pattern>>

(* A task of some service stores a list: write_through, or set for a key   *)
(* that is absent.                                                         *)
WriteKey(k) ==
    /\ \E v \in PermList : store' = WriteThrough(store, k, v)
    /\ old' = [j \in Jobs |-> old[j] \ {k}]
    /\ UNCHANGED <<phase, pattern, todo, page>>
-----------------------------------------------------------------------------
ScanNext ==
    \/ \E j \in Jobs :
          \/ BeginScan(j) \/ BeginDelete(j)
          \/ Scan(j) \/ DeletePage(j) \/ CommandFails(j)
    \/ \E k \in Keys : WriteKey(k)

ScanSpec == ScanInit /\ [][ScanNext]_scanVars

(* The event loop resumes each job, and Redis answers each command.        *)
Resume(j) == Scan(j) \/ DeletePage(j)
FairToJob(j) == WF_scanVars(Resume(j))
ScanFairness == \A j \in Jobs : FairToJob(j)

FairScanSpec == ScanSpec /\ ScanFairness
-----------------------------------------------------------------------------
(* The types; and a DEL always has a key, since Redis refuses one without. *)
ScanTypeOK ==
    /\ store \in [Keys -> Entry]
    /\ phase \in [Jobs -> Phases]
    /\ pattern \in [Jobs -> SUBSET Keys]
    /\ todo \in [Jobs -> SUBSET Keys]
    /\ page \in [Jobs -> SUBSET Keys]
    /\ old \in [Jobs -> SUBSET Keys]
    /\ \A j \in Jobs : phase[j] = "delete" => page[j] # {}

(* "Drop all entries" (cache/cache.py 63-64 and 74): an invalidation that  *)
(* returns has dropped every entry of its user, tenant or pair that was    *)
(* there when it began; what is there afterwards was stored meanwhile.     *)
NothingOldSurvives == \A j \in Jobs : phase[j] = "done" => old[j] = {}

(* No key disappears but by an invalidation of its own user or tenant,     *)
(* whatever other jobs, populates and write-throughs did between the SCAN  *)
(* and the DEL: the cached lists of everyone else stay.                    *)
OnlyMatchingDropped ==
    [][\A k \in Keys : Present(k) /\ ~Present(k)' =>
          \E j \in Jobs : phase[j] = "delete" /\ k \in pattern[j] /\ phase'[j] # phase[j]]_scanVars

(* The loop of _scan_and_delete can always go on or end: after every page, *)
(* empty or not, first or last, there is a DEL or a SCAN that Redis        *)
(* accepts.                                                                *)
NoScanStuck == \A j \in Jobs : Busy(j) => ENABLED <<Resume(j)>>_scanVars

(* An invalidation ends, in success or failure, however many keys others   *)
(* store during its scan.                                                  *)
InvalidationEnds == \A j \in Jobs : Busy(j) ~> ~Busy(j)
=============================================================================
