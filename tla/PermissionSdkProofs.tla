------------------------- MODULE PermissionSdkProofs -------------------------
(***************************************************************************)
(* Proofs about PermissionSdk: the life of a client, with close() at any   *)
(* time, is an environment of PermissionClient, so that close() keeps no   *)
(* call from returning, and it releases what the SDK owns and nothing      *)
(* else.                                                                   *)
(***************************************************************************)
EXTENDS PermissionSdk, PermissionClientLiveness

USE DEF callVars, vars, lifeVars, sdkVars, closeVars
-----------------------------------------------------------------------------
LEMMA SdkStepOfClient == [SdkNext]_sdkVars => [Next]_vars
<1> SUFFICES ASSUME SdkNext PROVE [Next]_vars
  OBVIOUS
<1>1. ASSUME NEW c \in Calls, NEW k \in Keys, NEW i \in Instances, Call(c, k, i) PROVE Next
  BY <1>1 DEF Call, Next
<1>2. ASSUME NEW c \in Calls, RunSdk(c) PROVE Next
  BY <1>2 DEF RunSdk, Next
<1>3. ASSUME NEW c \in Calls, ServeSdk(c) PROVE Next
  <2>1. Serve(c)
    BY <1>3 DEF ServeSdk, Command, Serve
  <2> QED
    BY <2>1 DEF Next
<1>4. ASSUME NEW i \in Instances,
             \/ \E o \in Options : Create(i, o)
             \/ Close(i) \/ HeliosClosed(i) \/ RedisClosed(i) \/ CloseRaises(i)
      PROVE  UNCHANGED vars
  BY <1>4 DEF Create, Close, HeliosClosed, RedisClosed, CloseRaises
<1> QED
  BY <1>1, <1>2, <1>3, <1>4 DEF SdkNext, Next

(* So every behaviour of the SDK, closed at any time and any number of     *)
(* times, is one of PermissionClient.                                      *)
LEMMA SdkIsClient == SdkSpec => Spec
<1>1. SdkInit => Init
  BY DEF SdkInit
<1> QED
  BY <1>1, SdkStepOfClient, PTL DEF SdkSpec, Spec
-----------------------------------------------------------------------------
LifeType ==
    /\ stage \in [Instances -> Stages]
    /\ owns \in [Instances -> BOOLEAN]
    /\ http \in [Instances -> BOOLEAN]
    /\ conn \in [Instances -> BOOLEAN]
    /\ sent \subseteq Calls
    /\ late \in [Instances -> BOOLEAN]

(* Once close() has been called, the Helios client is closed; the Redis    *)
(* client is being closed only if it is ours; and CloseReleases.           *)
LifeInv ==
    /\ \A i \in Instances :
          /\ stage[i] \in {"closing", "closing_redis", "closed", "raised"} => ~http[i]
          /\ stage[i] = "closing_redis" => owns[i]
    /\ CloseReleases

LEMMA InitLife == SdkInit => LifeType /\ LifeInv
BY DEF SdkInit, LifeType, LifeInv, CloseReleases, Stages

LEMMA NextLifeType == Typed /\ LifeType /\ [SdkNext]_sdkVars => LifeType'
<1> SUFFICES ASSUME Typed, LifeType, [SdkNext]_sdkVars PROVE LifeType'
  OBVIOUS
<1> USE DEF LifeType, Stages
<1>1. ASSUME NEW i \in Instances, NEW o \in Options, Create(i, o) PROVE LifeType'
  <2>1. Accepted(o) \in BOOLEAN /\ (Accepted(o) /\ ~o.injected) \in BOOLEAN
    BY DEF Accepted
  <2> HIDE DEF Accepted
  <2> QED
    BY <1>1, <2>1 DEF Create
<1>2. ASSUME NEW i \in Instances,
             Close(i) \/ HeliosClosed(i) \/ RedisClosed(i) \/ CloseRaises(i)
      PROVE  LifeType'
  BY <1>2 DEF Close, HeliosClosed, RedisClosed, CloseRaises
<1>3. ASSUME NEW c \in Calls, Command(c) PROVE LifeType'
  BY <1>3 DEF Command
<1>4. CASE UNCHANGED lifeVars
  BY <1>4
<1>5. ASSUME NEW c \in Calls, Send(c) PROVE LifeType'
  BY <1>5 DEF Send
<1> QED
  BY <1>1, <1>2, <1>3, <1>4, <1>5 DEF SdkNext, Call, RunSdk, ServeSdk

(* Each variable of the SDK holds a value of its type.                     *)
THEOREM SdkTypeCorrect == SdkSpec => []SdkTypeOK
<1>1. SdkInit => Typed /\ LifeType
  BY InitTyped, InitLife DEF SdkInit
<1>2. Typed /\ LifeType /\ [SdkNext]_sdkVars => Typed' /\ LifeType'
  BY SdkStepOfClient, NextTyped, NextLifeType
<1>3. Typed /\ LifeType => SdkTypeOK
  BY DEF Typed, LifeType, SdkTypeOK
<1> QED
  BY <1>1, <1>2, <1>3, PTL DEF SdkSpec
-----------------------------------------------------------------------------
LEMMA NextLife == SdkTypeOK /\ LifeInv /\ [SdkNext]_sdkVars => LifeInv'
<1> SUFFICES ASSUME SdkTypeOK, LifeInv, [SdkNext]_sdkVars PROVE LifeInv'
  OBVIOUS
<1> USE DEF SdkTypeOK, LifeInv, CloseReleases
<1>1. ASSUME NEW i \in Instances, NEW o \in Options, Create(i, o) PROVE LifeInv'
  <2>1. /\ stage'[i] \in {"open", "refused"} /\ UNCHANGED <<conn, late>>
        /\ \A j \in Instances \ {i} :
              stage'[j] = stage[j] /\ owns'[j] = owns[j] /\ http'[j] = http[j]
    BY <1>1 DEF Create
  <2> QED
    BY <2>1
<1>2. ASSUME NEW i \in Instances, Close(i) PROVE LifeInv'
  BY <1>2 DEF Close
<1>3. ASSUME NEW i \in Instances, HeliosClosed(i) PROVE LifeInv'
  BY <1>3 DEF HeliosClosed
<1>4. ASSUME NEW i \in Instances, RedisClosed(i) PROVE LifeInv'
  BY <1>4 DEF RedisClosed
<1>5. ASSUME NEW i \in Instances, CloseRaises(i) PROVE LifeInv'
  BY <1>5 DEF CloseRaises
<1>6. ASSUME NEW c \in Calls, Command(c) PROVE LifeInv'
  <2>1. late'[home[c]] /\ \A j \in Instances \ {home[c]} : conn'[j] = conn[j] /\ late'[j] = late[j]
    BY <1>6 DEF Command, TypeOK
  <2> QED
    BY <1>6, <2>1 DEF Command
<1>7. CASE UNCHANGED closeVars
  BY <1>7
<1> QED
  BY <1>1, <1>2, <1>3, <1>4, <1>5, <1>6, <1>7 DEF SdkNext, Call, RunSdk, Send, ServeSdk

LEMMA LifeInvariant == SdkSpec => []LifeInv
<1>1. SdkInit => LifeInv
  BY InitLife
<1> QED
  BY <1>1, NextLife, SdkTypeCorrect, PTL DEF SdkSpec

(* A close() that returns has released what the SDK owns, whatever calls   *)
(* ran beside it and however many times it raised before.                  *)
THEOREM CloseIsComplete == SdkSpec => []CloseReleases
<1>1. LifeInv => CloseReleases
  BY DEF LifeInv
<1> QED
  BY <1>1, LifeInvariant, PTL

(* No step of the SDK closes the connections of an injected Redis client.  *)
THEOREM InjectedIsKept == SdkSpec => InjectedRedisKept
<1> DEFINE Kept == \A i \in Instances : ~owns[i] /\ conn[i] => conn'[i]
<1>1. SdkTypeOK /\ LifeInv /\ [SdkNext]_sdkVars => Kept
  <2> SUFFICES ASSUME SdkTypeOK, LifeInv, [SdkNext]_sdkVars PROVE Kept
    OBVIOUS
  <2> USE DEF SdkTypeOK, LifeInv
  <2>1. ASSUME NEW i \in Instances, RedisClosed(i) \/ CloseRaises(i) PROVE Kept
    BY <2>1 DEF RedisClosed, CloseRaises
  <2>2. ASSUME NEW c \in Calls, Command(c) PROVE Kept
    BY <2>2 DEF Command
  <2>3. CASE UNCHANGED conn
    BY <2>3
  <2> QED
    BY <2>1, <2>2, <2>3
       DEF SdkNext, Call, RunSdk, Send, ServeSdk, Create, Close, HeliosClosed
<1> QED
  BY <1>1, SdkTypeCorrect, LifeInvariant, PTL DEF SdkSpec, InjectedRedisKept
-----------------------------------------------------------------------------
(* NoCallStuck for a client that may be closed: at any stage of close(),   *)
(* and after it, a task that can be resumed can take a step and each       *)
(* request can get an answer.                                              *)
NoCallStuckByClose ==
    \A c \in Calls :
        /\ Resumable(c) => ENABLED <<RunSdk(c)>>_sdkVars
        /\ Requested(c) => ENABLED <<ServeSdk(c)>>_sdkVars

(* The loop and the servers of a client that may be closed starve no call. *)
LEMMA SdkIsPrompt ==
    ASSUME NEW c \in Calls
    PROVE  SdkSpec /\ FairSdkTo(c) /\ []NoCallStuckByClose => Prompt(c)
<1>1. NoCallStuckByClose =>
          /\ Resumable(c) => ENABLED <<RunSdk(c)>>_sdkVars
          /\ Requested(c) => ENABLED <<ServeSdk(c)>>_sdkVars
  BY DEF NoCallStuckByClose
<1>2. TypeOK /\ <<RunSdk(c)>>_sdkVars => <<Run(c)>>_vars
  BY NoIdleStep DEF RunSdk
<1>3. TypeOK /\ <<ServeSdk(c)>>_sdkVars => <<Serve(c)>>_vars
  BY NoIdleStep DEF ServeSdk, Command, Serve
<1>4. SdkTypeOK => TypeOK
  BY DEF SdkTypeOK
<1> QED
  BY <1>1, <1>2, <1>3, <1>4, SdkTypeCorrect, PTL DEF FairSdkTo, Prompt

(* close() at any time, and any number of times, keeps no call from        *)
(* returning, under the conditions of EveryCallReturns and unless it gets  *)
(* a task stuck (NoCallStuckByClose).                                      *)
THEOREM SdkCallsReturn ==
    ASSUME ~MayCancel, ~MalformedReply
    PROVE  FairSdkSpec /\ []NoCallStuckByClose => CallsReturn
<1> DEFINE AllFair == \A c \in Calls : FairSdkTo(c)
           AllPrompt == \A c \in Calls : Prompt(c)
<1>1. SdkSpec /\ AllFair /\ []NoCallStuckByClose => AllPrompt
  BY SdkIsPrompt
<1>2. Spec /\ AllPrompt => CallsReturn
  BY QuietCallsReturn
<1> HIDE DEF AllFair, AllPrompt
<1>3. FairSdkSpec => SdkSpec /\ AllFair
  BY DEF FairSdkSpec, AllFair
<1> QED
  BY <1>1, <1>2, <1>3, SdkIsClient, PTL
=============================================================================
