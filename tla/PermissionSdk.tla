---------------------------- MODULE PermissionSdk ----------------------------
(***************************************************************************)
(* PermissionClient as create_permission_client hands it out (factory.py): *)
(* each process builds its client from its options, makes calls, and runs  *)
(* close(), which closes the Helios client and then a Redis client of its  *)
(* own, while calls are still running, and again if it raised.  What httpx *)
(* and redis-py do after that is not in the repository: a closed httpx     *)
(* client refuses requests, which fetch_user_permissions reports as        *)
(* HeliosUnreachableError; a closed Redis client connects again for the    *)
(* next command.  Cancellation, which has nothing to do with the life of   *)
(* the client, is left to PermissionClient.                                *)
(***************************************************************************)
EXTENDS PermissionClient

(* Requests and commands under way fail when close() cuts their            *)
(* connection, so that they may fail in every instance of this module.     *)
ASSUME CloseAssumption == GetMayFail /\ SetMayFail /\ HeliosMayFail

VARIABLES
    stage,   \* where each process is in the life of its client
    owns,    \* owns_redis
    http,    \* its httpx client has not been closed
    conn,    \* its Redis client has open connections
    sent,    \* the calls whose request went out over an open httpx client
    late     \* history: a command was executed since close() was last called

closeVars == <<stage, owns, http, conn, late>>
lifeVars == <<closeVars, sent>>
sdkVars == <<vars, lifeVars>>

Stages == {"none", "refused", "open", "closing", "closing_redis", "closed", "raised"}

SdkInit ==
    /\ Init
    /\ stage = [i \in Instances |-> "none"]
    /\ owns = [i \in Instances |-> FALSE]
    /\ http = [i \in Instances |-> FALSE]
    /\ conn = [i \in Instances |-> FALSE]
    /\ sent = {}
    /\ late = [i \in Instances |-> FALSE]
-----------------------------------------------------------------------------
(* The options that decide what is built: the secret and its deprecated    *)
(* alias, an injected Redis, a Redis URL.                                  *)
Secret == {"none", "empty", "set"}
Options == [secret : Secret, alias : Secret, injected : BOOLEAN, url : BOOLEAN]

(* Both constructors accept the secrets: create_permission_client asks for *)
(* one that is not None; HeliosClient takes "secret or alias", which       *)
(* passes over an empty secret, and refuses None.                          *)
Accepted(o) ==
    /\ o.secret # "none" \/ o.alias # "none"
    /\ o.injected \/ o.url
    /\ o.secret = "set" \/ o.alias # "none"

Create(i, o) ==
    /\ stage[i] = "none"
    /\ stage' = [stage EXCEPT ![i] = IF Accepted(o) THEN "open" ELSE "refused"]
    /\ owns' = [owns EXCEPT ![i] = Accepted(o) /\ ~o.injected]
    /\ http' = [http EXCEPT ![i] = Accepted(o)]
    /\ UNCHANGED <<vars, conn, late, sent>>

(* Nothing keeps a caller from a client that is closed.                    *)
Usable(i) == stage[i] \notin {"none", "refused"}

(* A request that c makes goes out if the client has not been closed.      *)
Send(c) ==
    /\ sent' = IF Asks(c)' /\ http[home'[c]] THEN sent \cup {c} ELSE sent
    /\ UNCHANGED closeVars

Call(c, k, i) ==
    /\ Usable(i)
    /\ Start(c, k, i) \/ Explain(c, k, i)
    /\ Send(c)

(* The steps of a call.  Helios answers what was sent, also while close()  *)
(* waits for the connections; a command that Redis executes has opened a   *)
(* connection.                                                             *)
RunSdk(c) == Run(c) /\ Send(c)

Command(c) ==
    /\ RedisGet(c) \/ RedisSet(c)
    /\ conn' = [conn EXCEPT ![home[c]] = TRUE]
    /\ late' = [late EXCEPT ![home[c]] = TRUE]
    /\ UNCHANGED <<stage, owns, http, sent>>

ServeSdk(c) ==
    \/ Command(c)
    \/ /\ \/ RedisGetFails(c) \/ RedisSetFails(c)
          \/ HeliosAnswers(c) /\ c \in sent
          \/ HeliosFails(c)
       /\ UNCHANGED lifeVars
-----------------------------------------------------------------------------
(* Mutant of Close: a second call returns at once.                         *)
CloseOnce(i) ==
    /\ stage[i] \in {"open", "closed", "raised"}
    /\ stage' = [stage EXCEPT ![i] = IF http[i] THEN "closing" ELSE "closed"]
    /\ http' = [http EXCEPT ![i] = FALSE]
    /\ late' = [late EXCEPT ![i] = FALSE]
    /\ UNCHANGED <<vars, owns, conn, sent>>

(* close() is called: httpx marks its client as closed before it awaits    *)
(* the end of its connections.                                             *)
Close(i) ==
    /\ stage[i] \in {"open", "closed", "raised"}
    /\ stage' = [stage EXCEPT ![i] = "closing"]
    /\ http' = [http EXCEPT ![i] = FALSE]
    /\ late' = [late EXCEPT ![i] = FALSE]
    /\ UNCHANGED <<vars, owns, conn, sent>>

(* Mutant of HeliosClosed: forgets whose the Redis client is.              *)
HeliosClosedAnyRedis(i) ==
    /\ stage[i] = "closing"
    /\ stage' = [stage EXCEPT ![i] = "closing_redis"]
    /\ UNCHANGED <<vars, owns, http, conn, late, sent>>

(* helios.aclose() returns: on to redis.aclose() if it is ours.            *)
HeliosClosed(i) ==
    /\ stage[i] = "closing"
    /\ stage' = [stage EXCEPT ![i] = IF owns[i] THEN "closing_redis" ELSE "closed"]
    /\ UNCHANGED <<vars, owns, http, conn, late, sent>>

RedisClosed(i) ==
    /\ stage[i] = "closing_redis"
    /\ stage' = [stage EXCEPT ![i] = "closed"]
    /\ conn' = [conn EXCEPT ![i] = FALSE]
    /\ UNCHANGED <<vars, owns, http, late, sent>>

(* Either aclose() raises, and close() with it: the one of Redis has tried *)
(* every connection by then.                                               *)
CloseRaises(i) ==
    /\ \/ stage[i] = "closing" /\ conn' = conn
       \/ stage[i] = "closing_redis" /\ \E b \in BOOLEAN : conn' = [conn EXCEPT ![i] = conn[i] /\ b]
    /\ stage' = [stage EXCEPT ![i] = "raised"]
    /\ UNCHANGED <<vars, owns, http, late, sent>>
-----------------------------------------------------------------------------
SdkNext ==
    \/ \E c \in Calls : \/ \E k \in Keys, i \in Instances : Call(c, k, i)
                        \/ RunSdk(c) \/ ServeSdk(c)
    \/ \E i \in Instances : \/ \E o \in Options : Create(i, o)
                            \/ Close(i) \/ HeliosClosed(i) \/ RedisClosed(i) \/ CloseRaises(i)
    \/ Environment /\ UNCHANGED lifeVars

SdkSpec == SdkInit /\ [][SdkNext]_sdkVars

FairSdkTo(c) == WF_sdkVars(RunSdk(c)) /\ WF_sdkVars(ServeSdk(c))

FairSdkSpec == SdkSpec /\ \A c \in Calls : FairSdkTo(c)
-----------------------------------------------------------------------------
SdkTypeOK ==
    /\ TypeOK
    /\ stage \in [Instances -> Stages]
    /\ owns \in [Instances -> BOOLEAN]
    /\ http \in [Instances -> BOOLEAN]
    /\ conn \in [Instances -> BOOLEAN]
    /\ sent \subseteq Calls
    /\ late \in [Instances -> BOOLEAN]

(* The closer "releases resources we own" (factory.py 59-60): once close() *)
(* has returned, also after a call of it that raised, the Helios client is *)
(* closed, and a Redis client of our own has a connection only if one of   *)
(* its calls sent a command while close() was running or after it.         *)
CloseReleases ==
    \A i \in Instances : stage[i] = "closed" =>
        ~http[i] /\ (owns[i] /\ conn[i] => late[i])

(* "We don't own the connection lifecycle" (factory.py 12): no step closes *)
(* the connections of an injected Redis client.                            *)
InjectedRedisKept == [][\A i \in Instances : ~owns[i] /\ conn[i] => conn'[i]]_sdkVars
=============================================================================
