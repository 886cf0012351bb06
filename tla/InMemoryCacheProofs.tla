------------------------- MODULE InMemoryCacheProofs -------------------------
(***************************************************************************)
(* Proofs about InMemoryCache, for any ids without a colon, any lists and  *)
(* any values of ttl_ms: each key of the dict names one pair, the prefix   *)
(* and suffix match exactly their user or tenant, and the cache implements *)
(* PermissionCache.                                                        *)
(***************************************************************************)
EXTENDS InMemoryCache, SequenceTheorems, TLAPS
-----------------------------------------------------------------------------
(* The strings of the dict.                                                *)

LEMMA Ids ==
    ASSUME NEW id \in Users \cup Tenants
    PROVE  id \in Seq(Char) /\ \A n \in 1..Len(id) : id[n] # Colon
<1>1. id \in Seq(Char \ {Colon})
  BY IdAssumption
<1>2. \A n \in 1..Len(id) : id[n] \in Char \ {Colon}
  BY <1>1
<1> QED
  BY <1>1, <1>2

(* The elements of s \o r are those of s and then those of r.              *)
LEMMA Joined ==
    ASSUME NEW C, NEW s \in Seq(C), NEW r \in Seq(C)
    PROVE  /\ s \o r \in Seq(C) /\ Len(s) \in Nat /\ Len(r) \in Nat
           /\ Len(s \o r) = Len(s) + Len(r)
           /\ \A n \in 1..Len(s) : (s \o r)[n] = s[n]
           /\ \A n \in 1..Len(r) : (s \o r)[Len(s) + n] = r[n]
<1>1. Len(s) \in Nat /\ Len(r) \in Nat
  BY LenProperties
<1>2. \A n \in 1..Len(r) :
          Len(s) + n \in 1..(Len(s) + Len(r)) /\ ~(Len(s) + n <= Len(s)) /\ (Len(s) + n) - Len(s) = n
  BY <1>1
<1>3. \A n \in 1..Len(s) : n \in 1..(Len(s) + Len(r)) /\ n <= Len(s)
  BY <1>1
<1>4. /\ s \o r \in Seq(C)
      /\ Len(s \o r) = Len(s) + Len(r)
      /\ \A n \in 1..(Len(s) + Len(r)) :
            (s \o r)[n] = IF n <= Len(s) THEN s[n] ELSE r[n - Len(s)]
  BY ConcatProperties
<1> QED
  BY <1>1, <1>2, <1>3, <1>4

LEMMA Single ==
    ASSUME NEW C, NEW x \in C
    PROVE  <<x>> \in Seq(C) /\ Len(<<x>>) = 1 /\ <<x>>[1] = x
OBVIOUS

(* A sequence with x after a.                                              *)
LEMMA Followed ==
    ASSUME NEW C, NEW a \in Seq(C), NEW x \in C, NEW p, p = a \o <<x>>
    PROVE  /\ p \in Seq(C) /\ Len(a) \in Nat /\ Len(p) = Len(a) + 1
           /\ \A n \in 1..Len(a) : p[n] = a[n]
           /\ p[Len(a) + 1] = x
<1>1. PICK y \in Seq(C) : y = <<x>> /\ Len(y) = 1 /\ y[1] = x
  BY Single
<1> QED
  BY <1>1, Joined

(* s is u, a colon and t, and holds no other colon.                        *)
Splits(s, u, t) ==
    /\ Len(u) \in Nat /\ Len(t) \in Nat
    /\ Len(s) = Len(u) + 1 + Len(t)
    /\ \A n \in 1..Len(u) : s[n] = u[n]
    /\ s[Len(u) + 1] = Colon
    /\ \A n \in 1..Len(t) : s[Len(u) + 1 + n] = t[n]
    /\ \A n \in 1..(Len(u) + 1 + Len(t)) : s[n] = Colon => n = Len(u) + 1

(* A key of the dict: its only colon stands between the two ids.           *)
LEMMA Shape ==
    ASSUME NEW u \in Users, NEW t \in Tenants, NEW s, s = (u \o <<Colon>>) \o t
    PROVE  Splits(s, u, t)
<1> DEFINE C == Char \cup {Colon}
<1>1. u \in Seq(C) /\ t \in Seq(C) /\ Colon \in C
  BY Ids, SeqMonotonic
<1>2. PICK p : p = u \o <<Colon>>
  OBVIOUS
<1> HIDE DEF C
<1>3. /\ Len(u) \in Nat /\ Len(t) \in Nat
      /\ Len(s) = Len(u) + 1 + Len(t)
      /\ \A n \in 1..Len(u) : s[n] = u[n]
      /\ s[Len(u) + 1] = Colon
      /\ \A n \in 1..Len(t) : s[Len(u) + 1 + n] = t[n]
  <2>1. /\ p \in Seq(C) /\ Len(u) \in Nat /\ Len(p) = Len(u) + 1
        /\ \A n \in 1..Len(u) : p[n] = u[n]
        /\ p[Len(u) + 1] = Colon
    BY <1>1, <1>2, Followed
  <2>2. /\ Len(t) \in Nat /\ Len(s) = Len(p) + Len(t)
        /\ \A n \in 1..Len(p) : s[n] = p[n]
        /\ \A n \in 1..Len(t) : s[Len(p) + n] = t[n]
    <3>1. s = p \o t
      BY <1>2
    <3> QED
      BY <1>1, <2>1, <3>1, Joined
  <2>3. /\ \A n \in 1..Len(u) : n \in 1..Len(p)
        /\ Len(u) + 1 \in 1..Len(p)
    BY <2>1
  <2> QED
    BY <2>1, <2>2, <2>3
<1>4. /\ \A n \in 1..Len(u) : u[n] # Colon
      /\ \A n \in 1..Len(t) : t[n] # Colon
  BY Ids
<1>5. ASSUME NEW n \in 1..(Len(u) + 1 + Len(t)), n # Len(u) + 1 PROVE s[n] # Colon
  <2>1. CASE n <= Len(u)
    BY <1>3, <1>4, <2>1
  <2>2. CASE n > Len(u) + 1
    <3>1. PICK m \in 1..Len(t) : n = Len(u) + 1 + m
      <4>1. n - (Len(u) + 1) \in 1..Len(t) /\ n = Len(u) + 1 + (n - (Len(u) + 1))
        BY <1>3, <2>2
      <4> QED
        BY <4>1
    <3> QED
      BY <1>3, <1>4, <3>1
  <2> QED
    BY <1>3, <1>5, <2>1, <2>2
<1> QED
  BY <1>3, <1>5 DEF Splits

LEMMA KeyShape ==
    ASSUME NEW u \in Users, NEW t \in Tenants, NEW s, s = KeyOf(<<u, t>>)
    PROVE  Splits(s, u, t)
<1>1. s = (u \o <<Colon>>) \o t
  BY DEF KeyOf
<1> QED
  BY <1>1, Shape

(* startswith(f"{user_id}:") finds the keys of that user and no others.    *)
THEOREM PrefixMatchesUser ==
    ASSUME NEW u \in Users, NEW t \in Tenants, NEW v \in Users
    PROVE  StartsWith(KeyOf(<<u, t>>), UserPrefix(v)) <=> u = v
<1>1. PICK s, p : s = KeyOf(<<u, t>>) /\ p = UserPrefix(v)
  OBVIOUS
<1>2. /\ Len(v) \in Nat /\ Len(p) = Len(v) + 1
      /\ \A n \in 1..Len(v) : p[n] = v[n]
      /\ p[Len(v) + 1] = Colon
  <2>1. v \in Seq(Char \cup {Colon}) /\ Colon \in Char \cup {Colon}
    BY Ids, SeqMonotonic
  <2> QED
    BY <1>1, <2>1, Followed DEF UserPrefix
<1>3. /\ Len(u) \in Nat /\ Len(t) \in Nat
      /\ Len(s) = Len(u) + 1 + Len(t)
      /\ \A n \in 1..Len(u) : s[n] = u[n]
      /\ s[Len(u) + 1] = Colon
      /\ \A n \in 1..(Len(u) + 1 + Len(t)) : s[n] = Colon => n = Len(u) + 1
  <2>1. Splits(s, u, t)
    BY <1>1, KeyShape
  <2> QED
    BY <2>1 DEF Splits
<1>4. ASSUME u = v PROVE StartsWith(s, p)
  BY <1>2, <1>3, <1>4 DEF StartsWith
<1>5. ASSUME StartsWith(s, p) PROVE u = v
  <2>1. Len(v) + 1 <= Len(s) /\ \A n \in 1..(Len(v) + 1) : s[n] = p[n]
    BY <1>2, <1>5 DEF StartsWith
  <2>2. Len(v) = Len(u)
    BY <1>2, <1>3, <2>1
  <2>3. \A n \in 1..Len(v) : v[n] = u[n]
    BY <1>2, <1>3, <2>1, <2>2
  <2>4. v \in Seq(Char) /\ u \in Seq(Char)
    BY Ids
  <2> QED
    BY <2>2, <2>3, <2>4, SeqEqual
<1> QED
  BY <1>1, <1>4, <1>5

(* endswith(f":{tenant_id}") finds the keys of that tenant and no others.  *)
THEOREM SuffixMatchesTenant ==
    ASSUME NEW u \in Users, NEW t \in Tenants, NEW r \in Tenants
    PROVE  EndsWith(KeyOf(<<u, t>>), TenantSuffix(r)) <=> t = r
<1>1. PICK s, p : s = KeyOf(<<u, t>>) /\ p = TenantSuffix(r)
  OBVIOUS
<1>2. /\ Len(r) \in Nat /\ Len(p) = 1 + Len(r)
      /\ p[1] = Colon
      /\ \A n \in 1..Len(r) : p[1 + n] = r[n]
  <2> DEFINE C == Char \cup {Colon}
  <2>1. r \in Seq(C)
    BY Ids, SeqMonotonic
  <2>2. PICK y \in Seq(C) : y = <<Colon>> /\ Len(y) = 1 /\ y[1] = Colon
    BY Single
  <2>3. p = y \o r
    BY <1>1, <2>2 DEF TenantSuffix
  <2> HIDE DEF C
  <2> QED
    BY <2>1, <2>2, <2>3, Joined
<1>3. /\ Len(u) \in Nat /\ Len(t) \in Nat
      /\ Len(s) = Len(u) + 1 + Len(t)
      /\ s[Len(u) + 1] = Colon
      /\ \A n \in 1..Len(t) : s[Len(u) + 1 + n] = t[n]
      /\ \A n \in 1..(Len(u) + 1 + Len(t)) : s[n] = Colon => n = Len(u) + 1
  <2>1. Splits(s, u, t)
    BY <1>1, KeyShape
  <2> QED
    BY <2>1 DEF Splits
<1>4. ASSUME t = r PROVE EndsWith(s, p)
  <2>1. Len(s) - Len(p) = Len(u) /\ Len(p) <= Len(s)
    BY <1>2, <1>3, <1>4
  <2>2. ASSUME NEW n \in 1..Len(p) PROVE s[Len(u) + n] = p[n]
    <3>1. CASE n = 1
      BY <1>2, <1>3, <3>1
    <3>2. CASE n # 1
      <4>1. PICK m \in 1..Len(r) : n = 1 + m
        <5>1. n - 1 \in 1..Len(r) /\ n = 1 + (n - 1)
          BY <1>2, <3>2
        <5> QED
          BY <5>1
      <4>2. Len(u) + n = Len(u) + 1 + m
        BY <1>2, <1>3, <4>1
      <4>3. s[Len(u) + 1 + m] = r[m] /\ p[1 + m] = r[m]
        BY <1>2, <1>3, <1>4, <4>1
      <4> QED
        BY <4>1, <4>2, <4>3
    <3> QED
      BY <3>1, <3>2
  <2> QED
    BY <2>1, <2>2 DEF EndsWith
<1>5. ASSUME EndsWith(s, p) PROVE t = r
  <2>1. PICK d \in Int : d = Len(s) - Len(p)
    <3>1. Len(s) - Len(p) \in Int
      BY <1>2, <1>3
    <3> QED
      BY <3>1
  <2>2. 0 <= d /\ d + 1 + Len(r) = Len(u) + 1 + Len(t)
    BY <1>2, <1>3, <1>5, <2>1 DEF EndsWith
  <2>3. \A n \in 1..(1 + Len(r)) : s[d + n] = p[n]
    BY <1>2, <1>5, <2>1 DEF EndsWith
  <2>4. d + 1 \in 1..(Len(u) + 1 + Len(t)) /\ s[d + 1] = Colon
    BY <1>2, <1>3, <2>1, <2>2, <2>3
  <2>5. d = Len(u) /\ Len(r) = Len(t)
    <3>1. d + 1 = Len(u) + 1
      BY <1>3, <2>4
    <3> QED
      BY <1>2, <1>3, <2>1, <2>2, <3>1
  <2>6. \A n \in 1..Len(t) : t[n] = r[n]
    <3> TAKE n \in 1..Len(t)
    <3>1. 1 + n \in 1..(1 + Len(r)) /\ d + (1 + n) = Len(u) + 1 + n
      BY <1>3, <2>5
    <3>2. s[Len(u) + 1 + n] = p[1 + n]
      BY <2>3, <3>1
    <3> QED
      BY <1>2, <1>3, <2>5, <3>2
  <2>7. t \in Seq(Char) /\ r \in Seq(Char)
    BY Ids
  <2> QED
    BY <2>5, <2>6, <2>7, SeqEqual
<1> QED
  BY <1>1, <1>4, <1>5

(* Two pairs never share a key.                                            *)
LEMMA KeysDiffer ==
    ASSUME NEW j \in Keys, NEW k \in Keys, KeyOf(j) = KeyOf(k)
    PROVE  j = k
<1>1. PICK u \in Users, t \in Tenants, v \in Users, r \in Tenants : j = <<u, t>> /\ k = <<v, r>>
  BY DEF Keys
<1>2. StartsWith(KeyOf(k), UserPrefix(v)) /\ EndsWith(KeyOf(k), TenantSuffix(r))
  BY <1>1, PrefixMatchesUser, SuffixMatchesTenant
<1>3. u = v /\ t = r
  BY <1>1, <1>2, PrefixMatchesUser, SuffixMatchesTenant
<1> QED
  BY <1>1, <1>3
-----------------------------------------------------------------------------
(* Types, and the deadlines that make them.                                *)

(* A deadline is ttl_ms after the time of the store, which is past.        *)
Dated ==
    \A s \in DOMAIN store :
        /\ store[s].since <= now
        /\ store[s].at = IF ttl = Inf THEN Inf ELSE store[s].since + ttl

(* What the instance of PermissionCache takes over from RedisCache.        *)
LEMMA SameNames ==
    /\ Cache!Keys = Keys /\ Cache!PermList = PermList /\ Cache!Entry = Entry
    /\ Cache!Absent = Absent
    /\ \A v : Cache!Stored(v) = Stored(v)
    /\ \A u : Cache!UserKeys(u) = UserKeys(u)
    /\ \A t : Cache!TenantKeys(t) = TenantKeys(t)
BY DEF Cache!Keys, Keys, Cache!PermList, PermList, Cache!Entry, Entry, Cache!Absent, Absent,
       Cache!Stored, Stored, Cache!UserKeys, UserKeys, Cache!TenantKeys, TenantKeys

LEMMA CallTyped ==
    ASSUME NEW op \in {"none", "get", "set", "write", "drop"},
           NEW K \in SUBSET Keys, NEW e \in Entry
    PROVE  Cache!Called(op, K, e) \in Cache!Call
BY SameNames DEF Cache!Call, Cache!Called

LEMMA Scopes ==
    /\ \A u \in Users : UserKeys(u) \in SUBSET Keys
    /\ \A t \in Tenants : TenantKeys(t) \in SUBSET Keys
    /\ \A v \in PermList : Stored(v) \in Entry
    /\ Absent \in Entry
BY DEF UserKeys, TenantKeys, Keys, PermList, Stored, Absent, Entry

LEMMA MemInitOK == MemInit => MemTypeOK /\ Dated
<1> SUFFICES ASSUME MemInit PROVE MemTypeOK /\ Dated
  OBVIOUS
<1>1. store \in [{} -> Item] /\ DOMAIN store = {}
  BY DEF MemInit
<1>2. last \in Cache!Call
  BY Scopes, CallTyped DEF MemInit
<1> QED
  BY <1>1, <1>2 DEF MemInit, MemTypeOK, Dated

LEMMA KeyIsString ==
    ASSUME NEW k \in Keys
    PROVE  KeyOf(k) \in Strings
BY DEF Strings

LEMMA FoundIsEntry ==
    ASSUME MemTypeOK, NEW k \in Keys
    PROVE  Found(k) \in Entry
<1>1. CASE Live(KeyOf(k))
  <2>1. store[KeyOf(k)] \in Item
    BY <1>1 DEF MemTypeOK, Live
  <2> QED
    BY <1>1, <2>1, Scopes DEF Found, Item
<1>2. CASE ~Live(KeyOf(k))
  BY <1>2, Scopes DEF Found
<1> QED
  BY <1>1, <1>2

(* Storing a list keeps the types and dates it.                            *)
LEMMA PutOK ==
    ASSUME MemTypeOK, Dated, NEW s \in Strings, NEW v \in PermList,
           store' = Put(s, v), UNCHANGED <<ttl, now>>, last' \in Cache!Call
    PROVE  MemTypeOK' /\ Dated'
<1>1. PICK S \in SUBSET Strings : store \in [S -> Item]
  BY DEF MemTypeOK
<1>2. now \in Nat /\ ttl \in Ttls
  BY DEF MemTypeOK
<1>3. ExpiresAt \in Nat \cup {Inf} /\ ExpiresAt = IF ttl = Inf THEN Inf ELSE now + ttl
  BY <1>2, TtlAssumption DEF ExpiresAt
<1>4. [perms |-> v, at |-> ExpiresAt, since |-> now] \in Item
  BY <1>2, <1>3 DEF Item
<1>5. /\ S \cup {s} \in SUBSET Strings /\ store' \in [S \cup {s} -> Item]
      /\ DOMAIN store' = S \cup {s}
      /\ store'[s] = [perms |-> v, at |-> ExpiresAt, since |-> now]
      /\ \A n \in S : n # s => store'[n] = store[n]
  BY <1>1, <1>4 DEF Put
<1>6. MemTypeOK'
  BY <1>2, <1>5 DEF MemTypeOK
<1>7. Dated'
  <2> SUFFICES ASSUME NEW n \in DOMAIN store'
               PROVE  /\ store'[n].since <= now
                      /\ store'[n].at = IF ttl = Inf THEN Inf ELSE store'[n].since + ttl
    BY DEF Dated
  <2>1. CASE n = s
    BY <1>2, <1>3, <1>5, <2>1
  <2>2. CASE n # s
    BY <1>1, <1>5, <2>2 DEF Dated
  <2> QED
    BY <2>1, <2>2
<1> QED
  BY <1>6, <1>7

(* Dropping entries keeps the types and the dates.                         *)
LEMMA PopOK ==
    ASSUME MemTypeOK, Dated, NEW D,
           store' = Pop(D), UNCHANGED <<ttl, now>>, last' \in Cache!Call
    PROVE  MemTypeOK' /\ Dated'
<1>1. PICK S \in SUBSET Strings : store \in [S -> Item]
  BY DEF MemTypeOK
<1>2. /\ S \ D \in SUBSET Strings /\ store' \in [S \ D -> Item]
      /\ DOMAIN store' = S \ D
      /\ \A n \in S \ D : store'[n] = store[n]
  BY <1>1 DEF Pop
<1>3. MemTypeOK'
  BY <1>2 DEF MemTypeOK
<1> QED
  BY <1>1, <1>2, <1>3 DEF Dated

LEMMA Unstored ==
    ASSUME MemTypeOK, Dated,
           UNCHANGED <<store, ttl, now>>, last' \in Cache!Call
    PROVE  MemTypeOK' /\ Dated'
BY DEF MemTypeOK, Dated

LEMMA MemStep == MemTypeOK /\ Dated /\ [MemNext]_memVars => MemTypeOK' /\ Dated'
<1> SUFFICES ASSUME MemTypeOK, Dated, [MemNext]_memVars PROVE MemTypeOK' /\ Dated'
  OBVIOUS
<1>1. ASSUME NEW k \in Keys, MemGet(k) PROVE MemTypeOK' /\ Dated'
  <2>1. last' \in Cache!Call /\ UNCHANGED <<ttl, now>>
    BY <1>1, FoundIsEntry, CallTyped DEF MemGet
  <2>2. store' = store \/ store' = Pop({KeyOf(k)})
    BY <1>1 DEF MemGet
  <2> QED
    BY <2>1, <2>2, PopOK, Unstored
<1>2. ASSUME NEW k \in Keys, NEW v \in PermList, MemSet(k, v) \/ MemWriteThrough(k, v)
      PROVE MemTypeOK' /\ Dated'
  <2>1. last' \in Cache!Call /\ UNCHANGED <<ttl, now>>
    BY <1>2, Scopes, CallTyped DEF MemSet, MemWriteThrough
  <2>2. store' = store \/ store' = Put(KeyOf(k), v)
    BY <1>2 DEF MemSet, MemWriteThrough
  <2> QED
    BY <2>1, <2>2, KeyIsString, PutOK, Unstored
<1>3. ASSUME NEW k \in Keys, MemInvalidate(k) PROVE MemTypeOK' /\ Dated'
  <2>1. last' \in Cache!Call
    BY <1>3, Scopes, CallTyped DEF MemInvalidate
  <2> QED
    BY <1>3, <2>1, PopOK DEF MemInvalidate
<1>4. ASSUME NEW u \in Users, MemInvalidateUser(u) PROVE MemTypeOK' /\ Dated'
  <2>1. last' \in Cache!Call
    BY <1>4, Scopes, CallTyped DEF MemInvalidateUser
  <2> QED
    BY <1>4, <2>1, PopOK DEF MemInvalidateUser
<1>5. ASSUME NEW t \in Tenants, MemInvalidateTenant(t) PROVE MemTypeOK' /\ Dated'
  <2>1. last' \in Cache!Call
    BY <1>5, Scopes, CallTyped DEF MemInvalidateTenant
  <2> QED
    BY <1>5, <2>1, PopOK DEF MemInvalidateTenant
<1>6. CASE Clear
  <2>1. last' \in Cache!Call
    BY <1>6, Scopes, CallTyped DEF Clear
  <2> QED
    BY <1>6, <2>1, PopOK DEF Clear
<1>7. CASE Tick
  <2>1. MemTypeOK'
    BY <1>7 DEF Tick, MemTypeOK
  <2>2. Dated'
    <3> SUFFICES ASSUME NEW s \in DOMAIN store
                 PROVE  /\ store[s].since <= now'
                        /\ store[s].at = IF ttl = Inf THEN Inf ELSE store[s].since + ttl
      BY <1>7 DEF Tick, Dated
    <3>1. store[s].since \in Nat
      BY DEF MemTypeOK, Item
    <3> QED
      BY <1>7, <3>1 DEF Tick, Dated, MemTypeOK
  <2> QED
    BY <2>1, <2>2
<1>8. CASE UNCHANGED memVars
  BY <1>8 DEF memVars, MemTypeOK, Dated
<1> QED
  BY <1>1, <1>2, <1>3, <1>4, <1>5, <1>6, <1>7, <1>8 DEF MemNext

(* What the dict holds is always a list with a deadline.                   *)
THEOREM MemTypeCorrect == MemSpec => []MemTypeOK
<1> QED
  BY MemInitOK, MemStep, PTL DEF MemSpec

LEMMA DatedAlways == MemSpec => [](MemTypeOK /\ Dated)
<1> QED
  BY MemInitOK, MemStep, PTL DEF MemSpec

(* Refused sets and other calls never move the end of an entry's life.     *)
THEOREM ServedForTtlCorrect == MemSpec => []ServedForTtl
<1>1. MemTypeOK /\ Dated => ServedForTtl
  <2> SUFFICES ASSUME MemTypeOK, Dated, NEW s \in DOMAIN store
               PROVE  Live(s) <=> ttl = Inf \/ now < store[s].since + ttl
    BY DEF ServedForTtl
  <2>1. store[s].since \in Nat /\ now \in Nat /\ ttl \in Ttls
    BY DEF MemTypeOK, Item
  <2>2. CASE ttl = Inf
    BY <2>2 DEF Dated, Live, IsExpired
  <2>3. CASE ttl # Inf
    <3>1. store[s].at = store[s].since + ttl /\ store[s].at \in Nat /\ store[s].at # Inf
      BY <2>1, <2>3, TtlAssumption DEF Dated
    <3> QED
      BY <2>1, <2>3, <3>1 DEF Live, IsExpired
  <2> QED
    BY <2>2, <2>3
<1> QED
  BY <1>1, DatedAlways, PTL
-----------------------------------------------------------------------------
(* The refinement.                                                         *)

LEMMA FoundKind ==
    ASSUME NEW k \in Keys
    PROVE  /\ Found(k).kind = "absent" <=> ~Live(KeyOf(k))
           /\ Found(k).kind = "list" <=> Live(KeyOf(k))
           /\ Found(k).kind # "list" => Found(k) = Absent
BY DEF Found, Stored, Absent

LEMMA FoundAfterPut ==
    ASSUME MemTypeOK, NEW k \in Keys, NEW v, NEW j \in Keys,
           store' = Put(KeyOf(k), v), UNCHANGED <<ttl, now>>
    PROVE  Found(j)' = IF j = k THEN Stored(v) ELSE Found(j)
<1>1. now \in Nat /\ ttl \in Ttls
  BY DEF MemTypeOK
<1>2. CASE j = k
  <2>1. KeyOf(k) \in DOMAIN store'
        /\ store'[KeyOf(k)] = [perms |-> v, at |-> ExpiresAt, since |-> now]
    BY DEF Put
  <2>2. ~(ExpiresAt # Inf /\ ExpiresAt <= now)
    BY <1>1, TtlAssumption DEF ExpiresAt
  <2> QED
    BY <1>2, <2>1, <2>2 DEF Found, Live, IsExpired
<1>3. CASE j # k
  <2>1. KeyOf(j) # KeyOf(k)
    BY <1>3, KeysDiffer
  <2>2. /\ KeyOf(j) \in DOMAIN store' <=> KeyOf(j) \in DOMAIN store
        /\ KeyOf(j) \in DOMAIN store => store'[KeyOf(j)] = store[KeyOf(j)]
    BY <2>1 DEF Put
  <2> QED
    BY <1>3, <2>2 DEF Found, Live, IsExpired
<1> QED
  BY <1>2, <1>3

LEMMA FoundAfterPop ==
    ASSUME NEW D, NEW j \in Keys, store' = Pop(D), UNCHANGED now
    PROVE  Found(j)' = IF KeyOf(j) \in D THEN Absent ELSE Found(j)
BY DEF Pop, Found, Live, IsExpired

LEMMA FoundInScope ==
    ASSUME MemTypeOK, NEW K \in SUBSET Keys, NEW D, store' = Pop(D), UNCHANGED now,
           \A j \in Keys : KeyOf(j) \in DOMAIN store => (KeyOf(j) \in D <=> j \in K)
    PROVE  [j \in Keys |-> Found(j)]' = Cache!Delete([j \in Keys |-> Found(j)], K)
<1>1. ASSUME NEW j \in Keys PROVE Found(j)' = IF j \in K THEN Absent ELSE Found(j)
  <2>1. KeyOf(j) \notin DOMAIN store => Found(j) = Absent
    BY DEF Found, Live
  <2> QED
    BY <2>1, FoundAfterPop
<1> QED
  BY <1>1, SameNames DEF Cache!Delete

(* Each method is one operation of the protocol.                           *)
LEMMA CacheStep == MemTypeOK /\ [MemNext]_memVars => [Cache!CacheNext]_(Cache!cacheVars)
<1> DEFINE live == [k \in Keys |-> Found(k)]
<1> SUFFICES ASSUME MemTypeOK, [MemNext]_memVars
             PROVE  Cache!CacheNext \/ (live' = live /\ UNCHANGED <<last, now>>)
  BY DEF Cache!cacheVars
<1>1. ASSUME NEW k \in Keys, MemGet(k) PROVE Cache!CacheGet(k)
  <2>1. Cache!Get(live, k) = Found(k)
    BY FoundKind, SameNames DEF Cache!Get
  <2>2. live' = live
    <3> SUFFICES ASSUME NEW j \in Keys PROVE Found(j)' = Found(j)
      OBVIOUS
    <3>1. CASE Live(KeyOf(k))
      BY <1>1, <3>1 DEF MemGet, Found, Live, IsExpired
    <3>2. CASE ~Live(KeyOf(k))
      <4>1. Found(j)' = IF KeyOf(j) \in {KeyOf(k)} THEN Absent ELSE Found(j)
        BY <1>1, <3>2, FoundAfterPop DEF MemGet
      <4> QED
        BY <3>2, <4>1 DEF Found
    <3> QED
      BY <3>1, <3>2
  <2> QED
    BY <1>1, <2>1, <2>2 DEF MemGet, Cache!CacheGet
<1>2. ASSUME NEW k \in Keys, NEW v \in PermList, MemSet(k, v) PROVE Cache!CacheSet(k, v)
  <2>1. live' = Cache!SetNX(live, k, v)
    <3>1. CASE Live(KeyOf(k))
      <4>1. live' = live
        BY <1>2, <3>1 DEF MemSet, Found, Live, IsExpired
      <4> QED
        BY <3>1, <4>1, FoundKind DEF Cache!SetNX
    <3>2. CASE ~Live(KeyOf(k))
      <4>1. \A j \in Keys : Found(j)' = IF j = k THEN Stored(v) ELSE Found(j)
        BY <1>2, <3>2, FoundAfterPut DEF MemSet
      <4> QED
        BY <3>2, <4>1, FoundKind, SameNames DEF Cache!SetNX
    <3> QED
      BY <3>1, <3>2
  <2> QED
    BY <1>2, <2>1, SameNames DEF MemSet, Cache!CacheSet
<1>3. ASSUME NEW k \in Keys, NEW v \in PermList, MemWriteThrough(k, v)
      PROVE Cache!CacheWriteThrough(k, v)
  <2>1. \A j \in Keys : Found(j)' = IF j = k THEN Stored(v) ELSE Found(j)
    BY <1>3, FoundAfterPut DEF MemWriteThrough
  <2>2. live' = Cache!WriteThrough(live, k, v)
    BY <2>1, SameNames DEF Cache!WriteThrough
  <2> QED
    BY <1>3, <2>2, SameNames DEF MemWriteThrough, Cache!CacheWriteThrough
<1>4. ASSUME NEW k \in Keys, MemInvalidate(k) PROVE Cache!CacheInvalidate({k})
  <2>1. live' = Cache!Delete(live, {k})
    BY <1>4, KeysDiffer, FoundInScope DEF MemInvalidate
  <2> QED
    BY <1>4, <2>1, SameNames DEF MemInvalidate, Cache!CacheInvalidate
<1>5. ASSUME NEW u \in Users, MemInvalidateUser(u) PROVE Cache!CacheInvalidate(UserKeys(u))
  <2> DEFINE D == {s \in DOMAIN store : StartsWith(s, UserPrefix(u))}
  <2>1. ASSUME NEW j \in Keys, KeyOf(j) \in DOMAIN store
        PROVE  KeyOf(j) \in D <=> j \in UserKeys(u)
    <3>1. PICK v \in Users, t \in Tenants : j = <<v, t>>
      BY DEF Keys
    <3>2. StartsWith(KeyOf(j), UserPrefix(u)) <=> v = u
      BY <3>1, PrefixMatchesUser
    <3> QED
      BY <2>1, <3>1, <3>2 DEF UserKeys
  <2>2. UserKeys(u) \in SUBSET Keys
    BY Scopes
  <2>3. store' = Pop(D) /\ UNCHANGED now
    BY <1>5 DEF MemInvalidateUser
  <2> HIDE DEF D
  <2>4. live' = Cache!Delete(live, UserKeys(u))
    BY <2>1, <2>2, <2>3, FoundInScope
  <2> QED
    BY <1>5, <2>4, SameNames DEF MemInvalidateUser, Cache!CacheInvalidate
<1>6. ASSUME NEW t \in Tenants, MemInvalidateTenant(t)
      PROVE  Cache!CacheInvalidate(TenantKeys(t))
  <2> DEFINE D == {s \in DOMAIN store : EndsWith(s, TenantSuffix(t))}
  <2>1. ASSUME NEW j \in Keys, KeyOf(j) \in DOMAIN store
        PROVE  KeyOf(j) \in D <=> j \in TenantKeys(t)
    <3>1. PICK v \in Users, r \in Tenants : j = <<v, r>>
      BY DEF Keys
    <3>2. EndsWith(KeyOf(j), TenantSuffix(t)) <=> r = t
      BY <3>1, SuffixMatchesTenant
    <3> QED
      BY <2>1, <3>1, <3>2 DEF TenantKeys
  <2>2. TenantKeys(t) \in SUBSET Keys
    BY Scopes
  <2>3. store' = Pop(D) /\ UNCHANGED now
    BY <1>6 DEF MemInvalidateTenant
  <2> HIDE DEF D
  <2>4. live' = Cache!Delete(live, TenantKeys(t))
    BY <2>1, <2>2, <2>3, FoundInScope
  <2> QED
    BY <1>6, <2>4, SameNames DEF MemInvalidateTenant, Cache!CacheInvalidate
<1>7. CASE Clear
  <2>1. live' = Cache!Delete(live, Keys)
    BY <1>7, FoundInScope DEF Clear
  <2>2. Cache!CacheInvalidate(Keys)
    BY <1>7, <2>1, SameNames DEF Clear, Cache!CacheInvalidate
  <2> QED
    BY <2>2, SameNames DEF Cache!CacheNext, Cache!Invalidations
<1>8. CASE Tick
  <2> DEFINE K == {k \in Keys : Live(KeyOf(k)) /\ ~Live(KeyOf(k))'}
  <2>1. ASSUME NEW k \in Keys PROVE Found(k)' = IF k \in K THEN Absent ELSE Found(k)
    <3>1. Live(KeyOf(k))' => Live(KeyOf(k))
      <4>1. KeyOf(k) \in DOMAIN store => store[KeyOf(k)] \in Item
        BY DEF MemTypeOK
      <4> QED
        BY <1>8, <4>1, TtlAssumption DEF Tick, Live, IsExpired, Item, MemTypeOK
    <3> QED
      BY <1>8, <3>1 DEF Tick, Found
  <2>2. live' = Cache!Delete(live, K)
    BY <2>1, SameNames DEF Cache!Delete
  <2>3. now' > now
    BY <1>8 DEF Tick, MemTypeOK
  <2>4. Cache!CacheExpire(K)
    BY <1>8, <2>2, <2>3 DEF Tick, Cache!CacheExpire
  <2> QED
    BY <2>4, SameNames DEF Cache!CacheNext
<1>9. CASE UNCHANGED memVars
  BY <1>9 DEF memVars, Found, Live, IsExpired
<1> HIDE DEF live
<1>10. ASSUME NEW k \in Keys, MemGet(k) PROVE Cache!CacheNext
  BY <1>1, <1>10, SameNames DEF Cache!CacheNext
<1>11. ASSUME NEW k \in Keys, NEW v \in PermList, MemSet(k, v) \/ MemWriteThrough(k, v)
       PROVE Cache!CacheNext
  BY <1>2, <1>3, <1>11, SameNames DEF Cache!CacheNext
<1>12. ASSUME NEW k \in Keys, MemInvalidate(k) PROVE Cache!CacheNext
  BY <1>4, <1>12, SameNames DEF Cache!CacheNext, Cache!Invalidations
<1>13. ASSUME NEW u \in Users, MemInvalidateUser(u) PROVE Cache!CacheNext
  BY <1>5, <1>13, SameNames DEF Cache!CacheNext, Cache!Invalidations
<1>14. ASSUME NEW t \in Tenants, MemInvalidateTenant(t) PROVE Cache!CacheNext
  BY <1>6, <1>14, SameNames DEF Cache!CacheNext, Cache!Invalidations
<1> QED
  BY <1>7, <1>8, <1>9, <1>10, <1>11, <1>12, <1>13, <1>14 DEF MemNext

(* The dict with its deadlines does what the protocol of cache/cache.py    *)
(* asks, and through the prefix and the suffix drops exactly the entries   *)
(* of one user or one tenant.                                              *)
THEOREM InMemoryImplementsCache == MemSpec => ImplementsCache
<1>1. MemInit => Cache!CacheInit
  BY SameNames DEF MemInit, Cache!CacheInit, Found, Live
<1> QED
  BY <1>1, MemInitOK, MemTypeCorrect, CacheStep, PTL DEF MemSpec, ImplementsCache, Cache!CacheSpec
=============================================================================
