------------------------ MODULE ScanInvalidateProofs ------------------------
(***************************************************************************)
(* Proofs about ScanInvalidate: an invalidation drops what was there when  *)
(* it began, and nothing that is not its own, for any number of keys and   *)
(* of concurrent invalidations; to a reader of the store it is a Drop of   *)
(* PermissionClient; and it passes bucket after bucket.                    *)
(***************************************************************************)
EXTENDS ScanInvalidate, TLAPS

USE DEF scanVars

(* A key that is still to drop is present, matches, and is ahead of the    *)
(* cursor or on the page that the next DEL drops; and a page matches.      *)
Progress ==
    \A j \in Jobs :
        /\ page[j] \subseteq pattern[j]
        /\ old[j] \subseteq pattern[j] \cap (todo[j] \cup page[j])
        /\ \A k \in old[j] : Present(k)
        /\ phase[j] = "scan" => page[j] = {}
        /\ phase[j] = "done" => todo[j] = {} /\ page[j] = {}

ScanInv == ScanTypeOK /\ Progress
-----------------------------------------------------------------------------
LEMMA EntryKinds ==
    /\ Absent \in Entry /\ Absent.kind = "absent"
    /\ \A v \in PermList : Stored(v) \in Entry /\ Stored(v).kind = "list"
BY DEF Absent, Stored, Entry, PermList

LEMMA ScanInitially == ScanInit => ScanInv
<1> SUFFICES ASSUME ScanInit PROVE ScanInv
  OBVIOUS
<1>1. store \in [Keys -> Entry]
  <2>1. {} \in PermList
    BY DEF PermList
  <2> QED
    BY <2>1, EntryKinds DEF ScanInit
<1> QED
  BY <1>1 DEF ScanInit, ScanInv, ScanTypeOK, Progress, Phases

LEMMA ScanStep == ScanInv /\ [ScanNext]_scanVars => ScanInv'
<1> SUFFICES ASSUME ScanInv, [ScanNext]_scanVars PROVE ScanInv'
  OBVIOUS
<1> USE DEF ScanInv, ScanTypeOK, Progress, Phases
<1>1. ASSUME NEW j \in Jobs, NEW K \in SUBSET Keys, Enter(j, "scan", K, Keys, {})
      PROVE  ScanInv'
  BY <1>1 DEF Enter, Present
<1>2. ASSUME NEW j \in Jobs, NEW k \in Keys, Enter(j, "delete", {k}, {}, {k})
      PROVE  ScanInv'
  BY <1>2 DEF Enter, Present
<1>3. ASSUME NEW j \in Jobs, Scan(j) PROVE ScanInv'
  <2>1. PICK B \in (SUBSET todo[j]) \ {{}} :
           \E keys \in SUBSET (Matching(j) \ (todo[j] \ B)) :
              /\ Matching(j) \cap B \subseteq keys
              /\ page' = [page EXCEPT ![j] = keys]
              /\ todo' = [todo EXCEPT ![j] = @ \ B]
              /\ phase' = [phase EXCEPT ![j] = NextPhase(keys, todo[j] \ B)]
    BY <1>3 DEF Scan
  <2>2. PICK keys \in SUBSET (Matching(j) \ (todo[j] \ B)) :
              /\ Matching(j) \cap B \subseteq keys
              /\ page' = [page EXCEPT ![j] = keys]
              /\ todo' = [todo EXCEPT ![j] = @ \ B]
              /\ phase' = [phase EXCEPT ![j] = NextPhase(keys, todo[j] \ B)]
    BY <2>1
  <2>3. UNCHANGED <<store, pattern, old>>
    BY <1>3 DEF Scan
  <2>4. /\ keys \subseteq pattern[j] /\ keys \subseteq Keys
        /\ phase[j] = "scan"
    BY <1>3, <2>2 DEF Scan, Matching
  <2>5. NextPhase(keys, todo[j] \ B) \in Phases
    BY DEF NextPhase
  <2>6. old[j] \subseteq pattern[j] \cap ((todo[j] \ B) \cup keys)
    <3>1. old[j] \subseteq Matching(j) \cap todo[j]
      BY <2>4 DEF Matching
    <3> QED
      BY <2>2, <3>1
  <2>7. /\ NextPhase(keys, todo[j] \ B) = "delete" => keys # {}
        /\ NextPhase(keys, todo[j] \ B) = "scan" => keys = {}
        /\ NextPhase(keys, todo[j] \ B) = "done" => keys = {} /\ todo[j] \ B = {}
    BY DEF NextPhase
  <2>8. ScanTypeOK'
    BY <2>2, <2>3, <2>4, <2>5, <2>7
  <2>9. Progress'
    BY <2>2, <2>3, <2>4, <2>6, <2>7 DEF Present
  <2> QED
    BY <2>8, <2>9
<1>4. ASSUME NEW j \in Jobs, DeletePage(j) PROVE ScanInv'
  <2>1. ScanTypeOK'
    BY <1>4, EntryKinds DEF DeletePage, Delete
  <2>2. Progress'
    BY <1>4 DEF DeletePage, Delete, Present
  <2> QED
    BY <2>1, <2>2
<1>5. ASSUME NEW j \in Jobs, CommandFails(j) PROVE ScanInv'
  BY <1>5 DEF CommandFails, Present
<1>6. ASSUME NEW k \in Keys, WriteKey(k) PROVE ScanInv'
  <2>1. PICK v \in PermList : store' = WriteThrough(store, k, v)
    BY <1>6 DEF WriteKey
  <2>2. ScanTypeOK'
    BY <1>6, <2>1, EntryKinds DEF WriteKey, WriteThrough
  <2>3. Progress'
    BY <1>6, <2>1, EntryKinds DEF WriteKey, WriteThrough, Present
  <2> QED
    BY <2>2, <2>3
<1>7. ASSUME UNCHANGED scanVars PROVE ScanInv'
  BY <1>7 DEF Present
<1>8. ASSUME NEW j \in Jobs, BeginScan(j) PROVE ScanInv'
  <2>1. PICK K \in {UserKeys(u) : u \in Users} \cup {TenantKeys(t) : t \in Tenants} :
           Enter(j, "scan", K, Keys, {})
    BY <1>8 DEF BeginScan
  <2>2. K \in SUBSET Keys
    BY DEF UserKeys, TenantKeys, Keys
  <2> QED
    BY <1>1, <2>1, <2>2
<1>9. ASSUME NEW j \in Jobs, BeginDelete(j) PROVE ScanInv'
  BY <1>2, <1>9 DEF BeginDelete
<1>10. ASSUME ScanNext PROVE ScanInv'
  BY ONLY <1>3, <1>4, <1>5, <1>6, <1>8, <1>9, <1>10 DEF ScanNext
<1> QED
  BY ONLY <1>7, <1>10, [ScanNext]_scanVars
-----------------------------------------------------------------------------
LEMMA ScanInvariant == ScanSpec => []ScanInv
BY ScanInitially, ScanStep, PTL DEF ScanSpec

(* Each variable holds a value of its type, and no DEL is without a key.   *)
THEOREM ScanTypeCorrect == ScanSpec => []ScanTypeOK
<1>1. ScanInv => ScanTypeOK
  BY DEF ScanInv
<1> QED
  BY <1>1, ScanInvariant, PTL

(* An invalidation that returns has dropped every entry of its own that    *)
(* was there when it began, in whatever pages SCAN hands them out.         *)
THEOREM OldEntriesDropped == ScanSpec => []NothingOldSurvives
<1>1. ScanInv => NothingOldSurvives
  BY DEF ScanInv, Progress, NothingOldSurvives
<1> QED
  BY <1>1, ScanInvariant, PTL

(* Only keys of the user, tenant or pair to invalidate are dropped.        *)
THEOREM OthersKept == ScanSpec => OnlyMatchingDropped
<1> DEFINE OwnKeysOnly ==
      \A k \in Keys : Present(k) /\ ~Present(k)' =>
          \E j \in Jobs : phase[j] = "delete" /\ k \in pattern[j] /\ phase'[j] # phase[j]
<1>1. ScanInv /\ [ScanNext]_scanVars => [OwnKeysOnly]_scanVars
  <2> SUFFICES ASSUME ScanInv, ScanNext, NEW k \in Keys, Present(k), ~Present(k)'
               PROVE  \E j \in Jobs :
                          phase[j] = "delete" /\ k \in pattern[j] /\ phase'[j] # phase[j]
    OBVIOUS
  <2>1. store' # store
    BY DEF Present
  <2>2. \A i \in Keys : ~WriteKey(i)
    BY EntryKinds DEF WriteKey, WriteThrough, Present, ScanInv, ScanTypeOK
  <2>3. PICK j \in Jobs : DeletePage(j)
    BY <2>1, <2>2 DEF ScanNext, BeginScan, BeginDelete, Enter, Scan, CommandFails
  <2>4. phase[j] = "delete" /\ phase'[j] # phase[j]
    BY <2>3 DEF DeletePage, ScanInv, ScanTypeOK
  <2>5. k \in page[j]
    BY <2>3 DEF DeletePage, Delete, Present
  <2> QED
    BY <2>4, <2>5 DEF ScanInv, Progress
<1> QED
  BY <1>1, ScanInvariant, PTL DEF ScanSpec, OnlyMatchingDropped
-----------------------------------------------------------------------------
(* What invalidations and writes are to those who only read the store.     *)

(* The keys that a job is to drop, hence those of a page, have one owner.  *)
OwnerInv == ScanInv /\ \A j \in Jobs : Busy(j) => OneOwner(pattern[j])

LEMMA OwnerStep == OwnerInv /\ [ScanNext]_scanVars => OwnerInv'
<1> SUFFICES ASSUME OwnerInv, [ScanNext]_scanVars, NEW j \in Jobs, Busy(j)'
             PROVE  OneOwner(pattern'[j])
  BY ScanStep DEF OwnerInv, OneOwner
<1> USE DEF OwnerInv, ScanInv, ScanTypeOK, Busy
<1>1. ASSUME Busy(j), pattern'[j] = pattern[j] PROVE OneOwner(pattern'[j])
  BY <1>1
<1>2. ASSUME NEW K, OneOwner(K), NEW i \in Jobs, ~Busy(i),
             pattern' = [pattern EXCEPT ![i] = K], \A h \in Jobs \ {i} : phase'[h] = phase[h]
      PROVE OneOwner(pattern'[j])
  <2>1. CASE i = j
    BY <1>2, <2>1
  <2>2. CASE i # j
    BY <1>1, <1>2, <2>2
  <2> QED
    BY <2>1, <2>2
<1>3. ASSUME NEW i \in Jobs, BeginScan(i) PROVE OneOwner(pattern'[j])
  <2>1. PICK K \in {UserKeys(u) : u \in Users} \cup {TenantKeys(t) : t \in Tenants} :
           Enter(i, "scan", K, Keys, {})
    BY <1>3 DEF BeginScan
  <2>2. OneOwner(K)
    BY DEF OneOwner
  <2> QED
    BY <1>2, <2>1, <2>2 DEF Enter
<1>4. ASSUME NEW i \in Jobs, BeginDelete(i) PROVE OneOwner(pattern'[j])
  <2>1. PICK k \in Keys : Enter(i, "delete", {k}, {}, {k})
    BY <1>4 DEF BeginDelete
  <2>2. OneOwner({k})
    BY DEF OneOwner, UserKeys, Keys
  <2> QED
    BY <1>2, <2>1, <2>2 DEF Enter
<1>5. ASSUME NEW i \in Jobs, Scan(i) \/ DeletePage(i) \/ CommandFails(i)
      PROVE OneOwner(pattern'[j])
  <2>1. Busy(i) /\ pattern' = pattern /\ \A h \in Jobs \ {i} : phase'[h] = phase[h]
    BY <1>5 DEF Scan, DeletePage, CommandFails
  <2> QED
    BY <1>1, <2>1
<1>6. CASE UNCHANGED <<phase, pattern>>
  BY <1>1, <1>6
<1> QED
  BY <1>3, <1>4, <1>5, <1>6 DEF ScanNext, WriteKey

(* To a reader of the store each step is one that PermissionClient takes   *)
(* its environment to make: a write of one key or a Drop of keys with one  *)
(* owner, in whatever pages the invalidations go.                          *)
THEOREM ScansAreDrops ==
    ScanSpec =>
        [][\/ \E k \in Keys, v \in PermList : store' = WriteThrough(store, k, v)
           \/ \E K \in SUBSET Keys : OneOwner(K) /\ store' = Delete(store, K)]_store
<1> DEFINE Allowed ==
      \/ \E k \in Keys, v \in PermList : store' = WriteThrough(store, k, v)
      \/ \E K \in SUBSET Keys : OneOwner(K) /\ store' = Delete(store, K)
<1>1. ScanInit => OwnerInv
  BY ScanInitially DEF ScanInit, OwnerInv, Busy
<1>2. OwnerInv /\ [ScanNext]_scanVars => [Allowed]_store
  <2> SUFFICES ASSUME OwnerInv, ScanNext, store' # store PROVE Allowed
    OBVIOUS
  <2>1. ASSUME NEW k \in Keys, WriteKey(k) PROVE Allowed
    BY <2>1 DEF WriteKey
  <2>2. ASSUME NEW j \in Jobs, DeletePage(j) PROVE Allowed
    <3>1. store' = Delete(store, page[j]) /\ OneOwner(pattern[j])
      BY <2>2 DEF DeletePage, OwnerInv, Busy
    <3>2. page[j] \in SUBSET Keys /\ page[j] \subseteq pattern[j]
      BY DEF OwnerInv, ScanInv, ScanTypeOK, Progress
    <3>3. OneOwner(page[j])
      BY <3>1, <3>2 DEF OneOwner
    <3> QED
      BY <3>1, <3>2, <3>3
  <2> QED
    BY <2>1, <2>2 DEF ScanNext, BeginScan, BeginDelete, Enter, Scan, CommandFails
<1> QED
  BY <1>1, <1>2, OwnerStep, PTL DEF ScanSpec
-----------------------------------------------------------------------------
(* Progress of a scan.                                                     *)

(* What a step, of whatever task, does to a running job: nothing; or it    *)
(* ends it; or a SCAN has passed a bucket; or a DEL is followed by a SCAN. *)
Moved(j) ==
    \/ phase'[j] = phase[j] /\ todo'[j] = todo[j]
    \/ ~Busy(j)'
    \/ phase[j] = "scan" /\ todo'[j] \subseteq todo[j] /\ todo'[j] # todo[j]
    \/ phase[j] = "delete" /\ phase'[j] = "scan" /\ todo'[j] = todo[j]

LEMMA ResumeMoves ==
    ASSUME ScanTypeOK, NEW j \in Jobs, Resume(j)
    PROVE  /\ Moved(j) /\ (phase'[j] # phase[j] \/ todo'[j] # todo[j])
           /\ \A i \in Jobs \ {j} : phase'[i] = phase[i] /\ todo'[i] = todo[i]
<1> USE DEF ScanTypeOK, Moved
<1>1. CASE Scan(j)
  <2>1. PICK B \in (SUBSET todo[j]) \ {{}} : todo' = [todo EXCEPT ![j] = @ \ B]
    BY <1>1 DEF Scan
  <2>2. phase[j] = "scan" /\ \E p \in Phases : phase' = [phase EXCEPT ![j] = p]
    BY <1>1 DEF Scan, NextPhase, Phases
  <2>3. todo[j] \ B # todo[j]
    <3>1. PICK k \in B : k \in todo[j]
      OBVIOUS
    <3> QED
      BY <3>1
  <2> QED
    BY <2>1, <2>2, <2>3
<1>2. CASE DeletePage(j)
  BY <1>2 DEF DeletePage, Busy
<1> QED
  BY <1>1, <1>2 DEF Resume

LEMMA JobMoves ==
    ASSUME ScanTypeOK, [ScanNext]_scanVars, NEW j \in Jobs, Busy(j)
    PROVE  Moved(j)
<1> USE DEF ScanTypeOK, Moved
<1>1. ASSUME NEW i \in Jobs, Scan(i) \/ DeletePage(i) PROVE Moved(j)
  BY <1>1, ResumeMoves DEF Resume
<1>2. ASSUME NEW i \in Jobs, BeginScan(i) \/ BeginDelete(i) PROVE Moved(j)
  <2>1. i # j
    BY <1>2 DEF BeginScan, BeginDelete, Enter
  <2> QED
    BY <1>2, <2>1 DEF BeginScan, BeginDelete, Enter
<1>3. ASSUME NEW i \in Jobs, CommandFails(i) PROVE Moved(j)
  BY <1>3 DEF CommandFails, Busy
<1>4. CASE UNCHANGED <<phase, todo>>
  BY <1>4
<1> QED
  BY <1>1, <1>2, <1>3, <1>4 DEF ScanNext, WriteKey

(* The job ends, or gets past another of the buckets T it has to scan.     *)
PassesBucket(j, T) ==
    Busy(j) /\ todo[j] = T ~> ~Busy(j) \/ (todo[j] \subseteq T /\ todo[j] # T)

(* The step from which InvalidationEnds follows, since a finite set can    *)
(* only shrink so often: a job that is not starved, or stuck (NoScanStuck) *)
(* ends or gets past another bucket, however many keys there are and       *)
(* whatever others store.                                                  *)
THEOREM ScanPassesBuckets ==
    FairScanSpec /\ []NoScanStuck =>
        \A j \in Jobs : \A T \in SUBSET Keys : PassesBucket(j, T)
<1> SUFFICES ASSUME NEW j \in Jobs, NEW T \in SUBSET Keys
             PROVE  FairScanSpec /\ []NoScanStuck => PassesBucket(j, T)
  OBVIOUS
<1> DEFINE Scanning == phase[j] = "scan" /\ todo[j] = T
           Deleting == phase[j] = "delete" /\ todo[j] = T
           Past == ~Busy(j) \/ (todo[j] \subseteq T /\ todo[j] # T)
           Starts == Busy(j) /\ todo[j] = T
<1>1. Starts => Scanning \/ Deleting
  BY DEF Busy
<1>2. ScanTypeOK /\ Scanning /\ [ScanNext]_scanVars => Scanning' \/ Past'
  BY JobMoves DEF Moved, Busy
<1>3. ScanTypeOK /\ Deleting /\ [ScanNext]_scanVars => Deleting' \/ Scanning' \/ Past'
  BY JobMoves DEF Moved, Busy
<1>4. ScanTypeOK /\ Scanning /\ <<Resume(j)>>_scanVars => Past'
  BY ResumeMoves DEF Moved, Busy
<1>5. ScanTypeOK /\ Deleting /\ <<Resume(j)>>_scanVars => Scanning' \/ Past'
  BY ResumeMoves DEF Moved, Busy
<1>6. NoScanStuck => (Scanning \/ Deleting => ENABLED <<Resume(j)>>_scanVars)
  BY DEF NoScanStuck, Busy
<1>7. ScanFairness => FairToJob(j)
  BY DEF ScanFairness
<1> HIDE DEF Scanning, Deleting, Past, Starts
<1>8. FairScanSpec /\ []NoScanStuck => (Starts ~> Past)
  BY <1>1, <1>2, <1>3, <1>4, <1>5, <1>6, <1>7, ScanTypeCorrect, PTL
     DEF FairScanSpec, ScanSpec, FairToJob
<1> QED
  BY <1>8 DEF Starts, Past, PassesBucket
=============================================================================
