----------------------------- MODULE RedisCache -----------------------------
(***************************************************************************)
(* The Redis store that RedisPermissionCache (cache/redis.py) reads and    *)
(* writes, as the effect of each command on a function from keys to        *)
(* entries.  A key helios:perms:{user_id}:{tenant_id} is the pair of its   *)
(* two ids: ids are taken to hold no colon and no glob character, so that  *)
(* a key names one pair and the SCAN patterns match exactly their user or  *)
(* tenant.  A permission array is the set of its members, which is all     *)
(* that "required_perm in perms" looks at.                                 *)
(***************************************************************************)

CONSTANTS Users, Tenants, Perm

(* _key, and what the patterns of _user_pattern and _tenant_pattern match. *)
Keys == Users \X Tenants
UserKeys(u) == {u} \X Tenants
TenantKeys(t) == Users \X {t}

(* The keys that one invalidation may drop.                                *)
OneOwner(K) ==
    \/ \E u \in Users : K \subseteq UserKeys(u)
    \/ \E t \in Tenants : K \subseteq TenantKeys(t)

PermList == SUBSET Perm

(* "foreign": a value that is not valid JSON or not an array.  The key     *)
(* exists for Redis, and RedisPermissionCache.get treats it as a miss.     *)
Entry == [kind : {"absent", "list", "foreign"}, perms : PermList]
Absent == [kind |-> "absent", perms |-> {}]
Foreign == [kind |-> "foreign", perms |-> {}]
Stored(v) == [kind |-> "list", perms |-> v]

(* Mutant of Get: an unreadable value is an empty list.                    *)
GetAny(store, k) == IF store[k].kind = "absent" THEN Absent ELSE Stored(store[k].perms)

(* get: an unreadable value is a miss, like an absent key.                 *)
Get(store, k) == IF store[k].kind = "list" THEN store[k] ELSE Absent

(* Mutant of set: without nx=True.                                         *)
SetWithoutNX(store, k, v) == [store EXCEPT ![k] = Stored(v)]

(* set: SET with NX, which looks at the existence of the key alone.        *)
SetNX(store, k, v) ==
    IF store[k].kind = "absent" THEN [store EXCEPT ![k] = Stored(v)] ELSE store

(* Mutant of write_through: keeps the NX guard.                            *)
WriteThroughNX(store, k, v) ==
    IF store[k].kind = "absent" THEN [store EXCEPT ![k] = Stored(v)] ELSE store

(* write_through: SET, no NX.                                              *)
WriteThrough(store, k, v) == [store EXCEPT ![k] = Stored(v)]

(* One DEL of some keys: invalidate(user_id, tenant_id), or one page of    *)
(* _scan_and_delete.                                                       *)
Delete(store, K) == [k \in Keys |-> IF k \in K THEN Absent ELSE store[k]]
=============================================================================
