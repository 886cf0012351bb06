--------------------------- MODULE PermissionCache ---------------------------
(***************************************************************************)
(* The protocol of cache/cache.py, as long as no command fails: what a get *)
(* finds changes only by the operations below, each of which does what the *)
(* same command of RedisCache does, and by the passing of time, which may  *)
(* only forget.                                                            *)
(***************************************************************************)
EXTENDS RedisCache, Naturals

VARIABLES
    live,  \* the entry that a get of each key would find
    last,  \* the last call
    now    \* the time

(* A call of op on some keys, with the list it stored or the entry it got. *)
Call ==
    [op : {"none", "get", "set", "write", "drop"}, on : SUBSET Keys, arg : Entry]
Called(op, K, e) == [op |-> op, on |-> K, arg |-> e]

cacheVars == <<live, last, now>>

CacheInit ==
    /\ live = [k \in Keys |-> Absent]
    /\ last = Called("none", {}, Absent)
    /\ now = 0

CacheGet(k) ==
    /\ last' = Called("get", {k}, Get(live, k))
    /\ UNCHANGED <<live, now>>

CacheSet(k, v) ==
    /\ last' = Called("set", {k}, Stored(v))
    /\ live' = SetNX(live, k, v)
    /\ UNCHANGED now

CacheWriteThrough(k, v) ==
    /\ last' = Called("write", {k}, Stored(v))
    /\ live' = WriteThrough(live, k, v)
    /\ UNCHANGED now

(* invalidate of a pair or of a user, invalidate_tenant, or clear.         *)
Invalidations ==
    {{k} : k \in Keys} \cup {UserKeys(u) : u \in Users} \cup {TenantKeys(t) : t \in Tenants}
        \cup {Keys}

CacheInvalidate(K) ==
    /\ last' = Called("drop", K, Absent)
    /\ live' = Delete(live, K)
    /\ UNCHANGED now

CacheExpire(K) ==
    /\ now' > now
    /\ live' = Delete(live, K)
    /\ UNCHANGED last

CacheNext ==
    \/ \E k \in Keys : CacheGet(k) \/ \E v \in PermList : CacheSet(k, v) \/ CacheWriteThrough(k, v)
    \/ \E K \in Invalidations : CacheInvalidate(K)
    \/ \E K \in SUBSET Keys : CacheExpire(K)

CacheSpec == CacheInit /\ [][CacheNext]_cacheVars
=============================================================================
