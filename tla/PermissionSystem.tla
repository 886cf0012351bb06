-------------------------- MODULE PermissionSystem --------------------------
(***************************************************************************)
(* PermissionClient in its platform: Helios commits a membership change    *)
(* and then calls write_through for it, while services read through their  *)
(* clients; the event of the change reaches a consumer later, at least     *)
(* once, and the consumer invalidates the pair, user or tenant.  Helios    *)
(* and the consumers are outside the repository: they are modelled from    *)
(* what its code and docs say of their calls (cache/redis.py 9-17 and      *)
(* permission_client.py 15-21).                                            *)
(***************************************************************************)
EXTENDS PermissionClient

CONSTANTS
    EventsOn,     \* events also invalidate, as the backup of write_through
    WriteMayFail  \* the SET of a write_through may fail

ASSUME SystemAssumption == {EventsOn, WriteMayFail} \subseteq BOOLEAN

VARIABLES
    pending,  \* the write_through that Helios still has to make for a key
    events,   \* the keys of the events not yet consumed
    stray,    \* the SETs given up by their callers that Redis may yet execute
    window    \* history: the lists a call may return, see PermissionService

systemVars == <<vars, pending, events, stray, window>>

PendingWrite == [on : BOOLEAN, perms : PermList, old : PermList]
NoWrite == [on |-> FALSE, perms |-> {}, old |-> {}]

Command == [nx : BOOLEAN, key : Keys, perms : PermList]
SetOf(c) == [nx |-> TRUE, key |-> key[c], perms |-> ResolutionToPerms(answer[c])]
WriteOf(k) == [nx |-> FALSE, key |-> k, perms |-> pending[k].perms]

Running(c) == pc[c] \notin {"idle", "done"}

(* The list a change replaced, until its write_through is made.            *)
Replaced(k) == IF pending[k].on THEN {pending[k].old} ELSE {}

SysInit ==
    /\ Init
    /\ pending = [k \in Keys |-> NoWrite]
    /\ events = {}
    /\ stray = {}
    /\ window = [c \in Calls |-> {}]

Ask(c, k, i) ==
    /\ Start(c, k, i)
    /\ window' = [window EXCEPT ![c] = {Current(k)} \cup Replaced(k)]
    /\ UNCHANGED <<pending, events, stray>>

(* explain may see what Helios holds from now on.                          *)
AskExplain(c, k, i) ==
    /\ Explain(c, k, i)
    /\ window' = [window EXCEPT ![c] = {Current(k)}]
    /\ UNCHANGED <<pending, events, stray>>

(* The SET of c raises in the client, or c is cancelled while it awaits    *)
(* it.  If the command was sent, Redis may execute it all the same, and    *)
(* after c has returned.                                                   *)
GivesUpSet(c) == pc[c] = "set" /\ (RedisSetFails(c) \/ Cancelled(c))

SdkStep(c) ==
    /\ Run(c) \/ Serve(c) \/ Cancel(c)
    /\ stray' = stray \/ (GivesUpSet(c) /\ stray' = stray \cup {SetOf(c)})
    /\ UNCHANGED <<pending, events, window>>

(* Redis executes a command that was given up.  Equal commands count once, *)
(* so that it may stay for another one.                                    *)
StraySet(m) ==
    /\ m \in stray
    /\ redis' = IF m.nx THEN SetNX(redis, m.key, m.perms)
                        ELSE WriteThrough(redis, m.key, m.perms)
    /\ stray' \in {stray, stray \ {m}}
    /\ UNCHANGED <<truth, ever, callVars, pending, events, window>>

(* Helios commits a change of a row of user_projects.                      *)
Commit(k, r) ==
    /\ ~pending[k].on
    /\ RoleChange(k, r)
    /\ pending' = [pending EXCEPT ![k] =
          [on |-> TRUE, perms |-> ResolutionToPerms(r), old |-> Current(k)]]
    /\ events' = IF EventsOn THEN events \cup {k} ELSE events
    /\ stray' = stray
    /\ window' = [c \in Calls |->
          IF Running(c) /\ key[c] = k
            THEN window[c] \cup {ResolutionToPerms(r)} ELSE window[c]]

(* write_through(user_id, tenant_id, perms).                               *)
WriteThroughDone(k) ==
    /\ pending[k].on
    /\ Overwrite(k, pending[k].perms)
    /\ pending' = [pending EXCEPT ![k] = NoWrite]
    /\ UNCHANGED <<events, stray, window>>

(* The SET of write_through raises; the error is logged and swallowed, so  *)
(* Helios does not call again.  It, too, may be executed all the same.     *)
WriteThroughFails(k) ==
    /\ WriteMayFail
    /\ pending[k].on
    /\ pending' = [pending EXCEPT ![k] = NoWrite]
    /\ stray' \in {stray, stray \cup {WriteOf(k)}}
    /\ UNCHANGED <<vars, events, window>>

(* Mutant of Deliver: the event is consumed even if the DEL raised.        *)
DeliverDespiteError(K) ==
    /\ EventsOn
    /\ events' = events \ K
    /\ Drop(K) \/ UNCHANGED vars
    /\ UNCHANGED <<pending, stray, window>>

(* An event consumer calls invalidate for the pair, the user or the tenant *)
(* of an event, which may be one that comes again, and Redis drops the     *)
(* keys K, all of them or a page.  invalidate raises if a DEL fails: only  *)
(* what Redis has dropped may be consumed of the events.                   *)
Deliver(K) ==
    /\ EventsOn
    /\ Drop(K)
    /\ \E C \in SUBSET K : events' = events \ C
    /\ UNCHANGED <<pending, stray, window>>

(* A DEL of the keys K overtakes a fetch: the list has changed since       *)
(* Helios answered the fetch, which has not ended, or whose SET was given  *)
(* up and may yet be executed.  A write_through that was given up is       *)
(* overtaken in the same way.                                              *)
Overtakes(K) ==
    \/ \E c \in Calls :
          /\ Leads(c) /\ key[c] \in K /\ answer[c] \in Resolution
          /\ ResolutionToPerms(answer[c]) # Current(key[c])
    \/ \E m \in stray : m.key \in K /\ m.perms # Current(m.key)

(* Everything but the events.                                              *)
CallOrHelios ==
    \/ \E c \in Calls : \/ \E k \in Keys, i \in Instances : Ask(c, k, i) \/ AskExplain(c, k, i)
                       \/ SdkStep(c)
    \/ \E k \in Keys : \/ \E r \in Resolution : Commit(k, r)
                       \/ WriteThroughDone(k) \/ WriteThroughFails(k)
    \/ \E m \in stray : StraySet(m)

SysNext == CallOrHelios \/ \E K \in SUBSET Keys : Deliver(K)

SysSpec == SysInit /\ [][SysNext]_systemVars

(* No event overtakes a fetch or a stray SET, as if a consumer let the     *)
(* time of both pass before it invalidates.  Nothing in the code does;     *)
(* this specification says what the platform would be with it.             *)
InOrderNext ==
    CallOrHelios \/ \E K \in SUBSET Keys : Deliver(K) /\ ~Overtakes(K)

InOrderSpec == SysInit /\ [][InOrderNext]_systemVars
-----------------------------------------------------------------------------
SysTypeOK ==
    /\ TypeOK
    /\ pending \in [Keys -> PendingWrite]
    /\ events \subseteq Keys
    /\ stray \subseteq Command
    /\ window \in [Calls -> SUBSET PermList]

Settled(k) == ~pending[k].on /\ k \notin events

(* "The next read sees fresh data" (permission_client.py 18-21): once the  *)
(* write_through of every change has been made and its events consumed,    *)
(* the cache holds what Helios holds or nothing.  In particular the NX of  *)
(* set keeps a slow read from storing a list that has been replaced since  *)
(* (cache/redis.py 136-138).                                               *)
FreshWhenSettled ==
    \A k \in Keys : Settled(k) /\ redis[k].kind = "list" => redis[k].perms = Current(k)

(* As long as no write_through fails, the cache does not wait for events:  *)
(* a change whose write_through has been made is what is cached, or        *)
(* nothing is.                                                             *)
FreshWhenWritten ==
    \A k \in Keys : ~pending[k].on /\ redis[k].kind = "list" => redis[k].perms = Current(k)

(* explain reports what Helios held while it ran, or a denial because      *)
(* Helios was unreachable: it is an audit of the memberships even while    *)
(* write_throughs fail, events are late and the cache is stale.            *)
ExplainIsFresh ==
    \A c \in Calls : outcome[c].kind = "explained" =>
        \/ outcome[c].perms \in window[c]
        \/ outcome[c].perms = {} /\ answer[c].status = "unreachable"

(* Every caller is answered as PermissionService promises: with a list     *)
(* Helios held while the call ran, or whose replacement was not yet        *)
(* written through when it began, or by a denial.                          *)
Service == INSTANCE PermissionService WITH
    current <- [k \in Keys |-> Current(k)],
    replaced <- [k \in Keys |-> Replaced(k)],
    phase <- [c \in Calls |-> CASE pc[c] = "idle" -> "idle"
                                [] pc[c] = "done" -> "done"
                                [] OTHER -> "running"],
    asked <- key,
    result <- [c \in Calls |->
        IF outcome[c].kind \in {"perms", "explained"} THEN {outcome[c].perms} ELSE {}]

(* The system implements PermissionService.                                *)
ImplementsService == Service!ServiceSpec

(* The lists that a read of k may now see.                                 *)
Readable(k) == {Current(k)} \cup Replaced(k)

(* A list that d may be answered with, or the denial of its fetch.         *)
FitFor(d, v) ==
    \/ v \in window[d]
    \/ v = {} /\ StaleOnError /\ answer[d].status = "unreachable"

(* Who is answered with a list is answered as the call that asked Helios   *)
(* on its behalf may be: by what Helios held while that call ran, or held  *)
(* before a change not yet written through when it began.  A failing GET   *)
(* makes a call join a fetch older than itself; this bounds how much.      *)
AnswersFitTheirFetch ==
    \A c \in Calls : outcome[c].kind = "perms" => FitFor(Fetcher(c), outcome[c].perms)

(* A read of k may see a list that grants p.                               *)
Grantable(k, p) == \E v \in Readable(k) : p \in v

NotGranted(c, p) == outcome[c].kind = "perms" => p \notin outcome[c].perms

(* A call whose GET has yet to be executed when p is revoked, with the     *)
(* revocation written through, and that runs while p is not granted again, *)
(* is not answered with p: caller_has_permission denies it.                *)
RevokedIsDenied ==
    \A c \in Calls, p \in Perm :
        [](pc[c] = "get" /\ []~Grantable(key[c], p) => []NotGranted(c, p))
=============================================================================
