---------------------------- MODULE InMemoryCache ----------------------------
(***************************************************************************)
(* InMemoryPermissionCache (cache/in_memory.py): a dict from strings to    *)
(* lists with a deadline.  An id is a sequence of characters and a key of  *)
(* the dict is "{user_id}:{tenant_id}", so that what the prefix of a user  *)
(* and the suffix of a tenant match is what they match in the code.        *)
(*                                                                         *)
(* No method suspends, so each is one step.  The clock is the constructor's *)
(* now, in ticks, and is taken never to go back.                           *)
(***************************************************************************)
EXTENDS RedisCache, Integers, Sequences

CONSTANTS
    Char, Colon,  \* characters, and ":"
    Ttls,         \* the values of ttl_ms an instance may be given
    Inf,          \* float("inf"), the default of ttl_ms and a deadline without it
    MaxNow        \* bound: the clock stops here

(* Ids hold no colon.  A ttl_ms of 0 is left out: it makes a cache that    *)
(* keeps nothing.                                                          *)
ASSUME IdAssumption == Users \cup Tenants \subseteq Seq(Char \ {Colon})
ASSUME TtlAssumption == Inf \notin Nat /\ Ttls \subseteq (Nat \ {0}) \cup {Inf}
ASSUME MaxNowAssumption == MaxNow \in Nat

VARIABLES
    store,  \* _store
    ttl,    \* _ttl_ms
    now,    \* the clock
    last    \* the last call, see PermissionCache

memVars == <<store, ttl, now, last>>
-----------------------------------------------------------------------------
(* Mutant of TenantSuffix: without the colon.                              *)
BareTenant(t) == t

(* _key, _user_prefix and _tenant_suffix.                                  *)
KeyOf(k) == k[1] \o <<Colon>> \o k[2]
UserPrefix(u) == u \o <<Colon>>
TenantSuffix(t) == <<Colon>> \o t

StartsWith(s, p) == Len(p) <= Len(s) /\ \A n \in 1..Len(p) : s[n] = p[n]
EndsWith(s, p) ==
    Len(p) <= Len(s) /\ \A n \in 1..Len(p) : s[Len(s) - Len(p) + n] = p[n]

Strings == {KeyOf(k) : k \in Keys}

(* since is history: when the list was stored.                             *)
Item == [perms : PermList, at : Nat \cup {Inf}, since : Nat]

(* _is_expired                                                             *)
IsExpired(e) == e.at # Inf /\ e.at <= now

(* _expires_at_ms                                                          *)
ExpiresAt == IF ttl = Inf THEN Inf ELSE now + ttl

Live(s) == s \in DOMAIN store /\ ~IsExpired(store[s])

Put(s, v) ==
    [n \in DOMAIN store \cup {s} |->
        IF n = s THEN [perms |-> v, at |-> ExpiresAt, since |-> now] ELSE store[n]]

Pop(S) == [n \in DOMAIN store \ S |-> store[n]]

(* What a get of k would find.                                             *)
Found(k) == IF Live(KeyOf(k)) THEN Stored(store[KeyOf(k)].perms) ELSE Absent

Cache == INSTANCE PermissionCache WITH live <- [k \in Keys |-> Found(k)]
-----------------------------------------------------------------------------
MemInit ==
    /\ store = [n \in {} |-> {}]
    /\ ttl \in Ttls
    /\ now = 0
    /\ last = Cache!Called("none", {}, Absent)

(* Mutant of MemGet: hands out the pair of list and deadline.              *)
MemGetPair(k) ==
    /\ last' = Cache!Called("get", {k}, IF Live(KeyOf(k)) THEN store[KeyOf(k)] ELSE Absent)
    /\ store' = IF Live(KeyOf(k)) THEN store ELSE Pop({KeyOf(k)})
    /\ UNCHANGED <<ttl, now>>

(* get: an expired entry is a miss and leaves the dict.                    *)
MemGet(k) ==
    /\ last' = Cache!Called("get", {k}, Found(k))
    /\ store' = IF Live(KeyOf(k)) THEN store ELSE Pop({KeyOf(k)})
    /\ UNCHANGED <<ttl, now>>

(* Mutant of MemSet: the deadline of a live entry is moved on.             *)
MemSetSlides(k, v) ==
    /\ store' = IF Live(KeyOf(k)) THEN [store EXCEPT ![KeyOf(k)].at = ExpiresAt]
                                  ELSE Put(KeyOf(k), v)
    /\ last' = Cache!Called("set", {k}, Stored(v))
    /\ UNCHANGED <<ttl, now>>

(* set: refused by a live entry only.                                      *)
MemSet(k, v) ==
    /\ store' = IF Live(KeyOf(k)) THEN store ELSE Put(KeyOf(k), v)
    /\ last' = Cache!Called("set", {k}, Stored(v))
    /\ UNCHANGED <<ttl, now>>

MemWriteThrough(k, v) ==
    /\ store' = Put(KeyOf(k), v)
    /\ last' = Cache!Called("write", {k}, Stored(v))
    /\ UNCHANGED <<ttl, now>>

(* invalidate, with and without a tenant, invalidate_tenant, clear.        *)
MemInvalidate(k) ==
    /\ store' = Pop({KeyOf(k)})
    /\ last' = Cache!Called("drop", {k}, Absent)
    /\ UNCHANGED <<ttl, now>>

MemInvalidateUser(u) ==
    /\ store' = Pop({s \in DOMAIN store : StartsWith(s, UserPrefix(u))})
    /\ last' = Cache!Called("drop", UserKeys(u), Absent)
    /\ UNCHANGED <<ttl, now>>

MemInvalidateTenant(t) ==
    /\ store' = Pop({s \in DOMAIN store : EndsWith(s, TenantSuffix(t))})
    /\ last' = Cache!Called("drop", TenantKeys(t), Absent)
    /\ UNCHANGED <<ttl, now>>

Clear ==
    /\ store' = Pop(DOMAIN store)
    /\ last' = Cache!Called("drop", Keys, Absent)
    /\ UNCHANGED <<ttl, now>>

Tick ==
    /\ now < MaxNow
    /\ now' = now + 1
    /\ UNCHANGED <<store, ttl, last>>

MemNext ==
    \/ \E k \in Keys : \/ MemGet(k) \/ MemInvalidate(k)
                       \/ \E v \in PermList : MemSet(k, v) \/ MemWriteThrough(k, v)
    \/ \E u \in Users : MemInvalidateUser(u)
    \/ \E t \in Tenants : MemInvalidateTenant(t)
    \/ Clear \/ Tick

MemSpec == MemInit /\ [][MemNext]_memVars
-----------------------------------------------------------------------------
MemTypeOK ==
    /\ \E S \in SUBSET Strings : store \in [S -> Item]
    /\ ttl \in Ttls
    /\ now \in Nat
    /\ last \in Cache!Call

(* The promise of ttl_ms: get serves a list for exactly that long after it *)
(* was stored, whatever sets were refused in between, and with the default *)
(* until it is overwritten or invalidated.                                 *)
ServedForTtl ==
    \A s \in DOMAIN store : Live(s) <=> ttl = Inf \/ now < store[s].since + ttl

(* The in-memory cache keeps the protocol of cache/cache.py, as the tests  *)
(* that use it in place of Redis take for granted: expired entries still   *)
(* in the dict cannot be told from absent ones, and an invalidation drops  *)
(* the entries of its own user or tenant, all of them and no others.       *)
ImplementsCache == Cache!CacheSpec
=============================================================================
