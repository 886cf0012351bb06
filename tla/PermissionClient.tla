-------------------------- MODULE PermissionClient --------------------------
(***************************************************************************)
(* PermissionClient (permission_client.py): _resolve_perms and             *)
(* _fetch_and_populate, the path behind caller_has_permission and          *)
(* get_user_permissions, and explain, run by asyncio tasks of several      *)
(* service processes that share one Redis and ask one Helios.              *)
(*                                                                         *)
(* An asyncio task gives up control only where it awaits something that is *)
(* not ready.  An action of a call is therefore the code between two such  *)
(* awaits, and what the awaited server does is an action of its own: the   *)
(* answer is taken from the server's state when the server acts, and used  *)
(* when the task resumes, any number of steps later.                       *)
(*                                                                         *)
(* What the rest of the platform does to Redis and to the memberships is   *)
(* left open here (RoleChange, Overwrite, Drop, ForeignWrite);             *)
(* PermissionSystem says how Helios and the event consumers do it.         *)
(***************************************************************************)
EXTENDS RedisCache

CONSTANTS
    Calls,          \* the calls made; each is made at most once
    Explainers,     \* the calls that may be of explain rather than for the list
    Instances,      \* the service processes, each with its own _in_flight
    NoCall,         \* no entry in _in_flight
    StaleOnError,   \* the constructor's stale_on_error
    GetMayFail,     \* a Redis GET may fail
    SetMayFail,     \* the SET of a populate may fail
    HeliosMayFail,  \* Helios may be unreachable
    MalformedReply, \* Helios may answer 2xx with a body that does not parse
    MayCancel,      \* tasks may be cancelled
    ForeignWrites   \* other writers may leave unreadable values in Redis

ASSUME NoCallAssumption == NoCall \notin Calls
ASSUME NonEmptyAssumption == Keys # {} /\ Instances # {}
ASSUME SwitchAssumption ==
    {StaleOnError, GetMayFail, SetMayFail, HeliosMayFail, MalformedReply, MayCancel,
     ForeignWrites}
        \subseteq BOOLEAN

VARIABLES
    redis,      \* the store
    truth,      \* Helios: the membership of each key
    ever,       \* history: the permission lists Helios ever held for a key
    pc,         \* where a call is
    key, home,  \* its arguments and its process
    reply,      \* what its GET returned
    answer,     \* what Helios answered it
    in_flight,  \* _in_flight of each process
    fut,        \* the future a call created
    waits,      \* the call whose future it awaits
    doomed,     \* its task has been cancelled
    outcome     \* what it returned or raised

callVars == <<pc, key, home, reply, answer, in_flight, fut, waits, doomed, outcome>>
vars == <<redis, truth, ever, callVars>>
-----------------------------------------------------------------------------
(* Helios: memberships and what the SDK makes of an answer.  "inactive"    *)
(* stands for not_a_member, too, and for a role without permissions: all   *)
(* mean the empty list.                                                    *)

Resolution ==
    [status : {"active"}, perms : PermList \ {{}}]
        \cup [status : {"inactive"}, perms : {{}}]
Failure == [status : {"none", "unreachable", "malformed"}, perms : {{}}]

(* _resolution_to_perms                                                    *)
ResolutionToPerms(r) == IF r.status = "active" THEN r.perms ELSE {}

Current(k) == ResolutionToPerms(truth[k])
-----------------------------------------------------------------------------
Outcome ==
    [kind : {"none", "perms", "explained", "unreachable", "cancelled", "invalid_state",
             "malformed"},
     perms : PermList]
Raised(kind) == [kind |-> kind, perms |-> {}]
Returned(v) == [kind |-> "perms", perms |-> v]

(* explain grants what is in v and says why.                               *)
Explanation(v) == [kind |-> "explained", perms |-> v]

Future == [st : {"none", "pending", "result", "error", "cancelled"}, perms : PermList]
NoFuture == [st |-> "none", perms |-> {}]
Pending == [st |-> "pending", perms |-> {}]
Result(v) == [st |-> "result", perms |-> v]
Error == [st |-> "error", perms |-> {}]
CancelledFuture == [st |-> "cancelled", perms |-> {}]

(* Mutant of Awaited: hands on how the future ended, whatever that was.    *)
AwaitedAsIs(f) == [kind |-> f.st, perms |-> f.perms]

(* What awaiting a future that is done gives.                              *)
Awaited(f) ==
    CASE f.st = "result" -> Returned(f.perms)
      [] f.st = "error" -> Raised("unreachable")
      [] OTHER -> Raised("cancelled")

Points ==
    {"idle", "get", "got", "join", "fetch", "fetched", "set", "stored", "ask", "asked", "done"}
Leads(c) == pc[c] \in {"fetch", "fetched", "set", "stored"}

(* The entry of _in_flight under this call's lock_key "user_id:tenant_id". *)
Slot(c) == <<home[c], key[c]>>
Slots == Instances \X Keys

Init ==
    /\ redis = [k \in Keys |-> Absent]
    /\ truth \in [Keys -> Resolution]
    /\ ever = [k \in Keys |-> {Current(k)}]
    /\ pc = [c \in Calls |-> "idle"]
    /\ key = [c \in Calls |-> CHOOSE k \in Keys : TRUE]
    /\ home = [c \in Calls |-> CHOOSE i \in Instances : TRUE]
    /\ reply = [c \in Calls |-> Absent]
    /\ answer = [c \in Calls |-> [status |-> "none", perms |-> {}]]
    /\ in_flight = [s \in Slots |-> NoCall]
    /\ fut = [c \in Calls |-> NoFuture]
    /\ waits = [c \in Calls |-> NoCall]
    /\ doomed = [c \in Calls |-> FALSE]
    /\ outcome = [c \in Calls |-> Raised("none")]
-----------------------------------------------------------------------------
(* The read path.                                                          *)

Return(c, o) ==
    /\ pc' = [pc EXCEPT ![c] = "done"]
    /\ outcome' = [outcome EXCEPT ![c] = o]

(* A call begins and awaits cache.get.                                     *)
Start(c, k, i) ==
    /\ pc[c] = "idle"
    /\ pc' = [pc EXCEPT ![c] = "get"]
    /\ key' = [key EXCEPT ![c] = k]
    /\ home' = [home EXCEPT ![c] = i]
    /\ UNCHANGED <<redis, truth, ever, reply, answer, in_flight, fut, waits, doomed, outcome>>

(* Redis executes the GET.                                                 *)
RedisGet(c) ==
    /\ pc[c] = "get"
    /\ reply' = [reply EXCEPT ![c] = Get(redis, key[c])]
    /\ pc' = [pc EXCEPT ![c] = "got"]
    /\ UNCHANGED <<redis, truth, ever, key, home, answer, in_flight, fut, waits, doomed, outcome>>

(* The GET raises: logged, and a miss for the caller.                      *)
RedisGetFails(c) ==
    /\ GetMayFail
    /\ pc[c] = "get"
    /\ reply' = [reply EXCEPT ![c] = Absent]
    /\ pc' = [pc EXCEPT ![c] = "got"]
    /\ UNCHANGED <<redis, truth, ever, key, home, answer, in_flight, fut, waits, doomed, outcome>>

Hit(c) ==
    /\ pc[c] = "got" /\ ~doomed[c]
    /\ reply[c].kind = "list"
    /\ Return(c, Returned(reply[c].perms))
    /\ UNCHANGED <<redis, truth, ever, key, home, reply, answer, in_flight, fut, waits, doomed>>

(* A miss while this process fetches the key: await the fetcher's future.  *)
Join(c) ==
    /\ pc[c] = "got" /\ ~doomed[c]
    /\ reply[c].kind # "list"
    /\ in_flight[Slot(c)] # NoCall
    /\ waits' = [waits EXCEPT ![c] = in_flight[Slot(c)]]
    /\ pc' = [pc EXCEPT ![c] = "join"]
    /\ UNCHANGED <<redis, truth, ever, key, home, reply, answer, in_flight, fut, doomed, outcome>>

(* Mutant of Lead: no look at _in_flight.                                  *)
LeadWithoutLock(c) ==
    /\ pc[c] = "got" /\ ~doomed[c]
    /\ reply[c].kind # "list"
    /\ in_flight' = [in_flight EXCEPT ![Slot(c)] = c]
    /\ fut' = [fut EXCEPT ![c] = Pending]
    /\ pc' = [pc EXCEPT ![c] = "fetch"]
    /\ UNCHANGED <<redis, truth, ever, key, home, reply, answer, waits, doomed, outcome>>

(* A miss with no fetch in flight: register a future and ask Helios.       *)
Lead(c) ==
    /\ pc[c] = "got" /\ ~doomed[c]
    /\ reply[c].kind # "list"
    /\ in_flight[Slot(c)] = NoCall
    /\ in_flight' = [in_flight EXCEPT ![Slot(c)] = c]
    /\ fut' = [fut EXCEPT ![c] = Pending]
    /\ pc' = [pc EXCEPT ![c] = "fetch"]
    /\ UNCHANGED <<redis, truth, ever, key, home, reply, answer, waits, doomed, outcome>>

(* The request of c is on its way, or has been answered.                   *)
Asks(c) == pc[c] \in {"fetch", "ask"}
Answered(c) == IF pc[c] = "ask" THEN "asked" ELSE "fetched"

(* Helios answers: with the membership it holds now; not at all, or with a *)
(* status the client turns into HeliosUnreachableError; or with a body on  *)
(* which response.json() or the reading of its fields raises.              *)
HeliosAnswers(c) ==
    /\ Asks(c)
    /\ answer' = [answer EXCEPT ![c] = truth[key[c]]]
    /\ pc' = [pc EXCEPT ![c] = Answered(c)]
    /\ UNCHANGED <<redis, truth, ever, key, home, reply, in_flight, fut, waits, doomed, outcome>>

HeliosFails(c) ==
    /\ Asks(c)
    /\ \E st \in {"unreachable", "malformed"} :
          /\ st = "unreachable" => HeliosMayFail
          /\ st = "malformed" => MalformedReply
          /\ answer' = [answer EXCEPT ![c] = [status |-> st, perms |-> {}]]
    /\ pc' = [pc EXCEPT ![c] = Answered(c)]
    /\ UNCHANGED <<redis, truth, ever, key, home, reply, in_flight, fut, waits, doomed, outcome>>

(* The finally clause of _resolve_perms.                                   *)
Release(c) == in_flight' = [in_flight EXCEPT ![Slot(c)] = NoCall]

(* The future is settled, the entry popped and the future awaited with no  *)
(* suspension in between.  Settling one that a cancelled joiner has        *)
(* cancelled raises InvalidStateError.                                     *)
Settle(c, f) ==
    /\ Release(c)
    /\ \/ /\ fut[c].st = "pending"
          /\ fut' = [fut EXCEPT ![c] = f]
          /\ Return(c, Awaited(f))
       \/ /\ fut[c].st # "pending"
          /\ fut' = fut
          /\ Return(c, Raised("invalid_state"))

(* Mutants of FetchFailed: also caches the denial; hands the error on      *)
(* whatever stale_on_error says; returns without settling the future.      *)
FetchFailedCached(c) ==
    /\ pc[c] = "fetched" /\ ~doomed[c]
    /\ answer[c].status = "unreachable"
    /\ redis' = SetNX(redis, key[c], {})
    /\ Settle(c, IF StaleOnError THEN Result({}) ELSE Error)
    /\ UNCHANGED <<truth, ever, key, home, reply, answer, waits, doomed>>
FetchFailedRaises(c) ==
    /\ pc[c] = "fetched" /\ ~doomed[c]
    /\ answer[c].status = "unreachable"
    /\ Settle(c, Error)
    /\ UNCHANGED <<redis, truth, ever, key, home, reply, answer, waits, doomed>>
FetchFailedUnsettled(c) ==
    /\ pc[c] = "fetched" /\ ~doomed[c]
    /\ answer[c].status = "unreachable"
    /\ Release(c)
    /\ Return(c, Returned({}))
    /\ UNCHANGED <<redis, truth, ever, key, home, reply, answer, fut, waits, doomed>>

(* HeliosUnreachableError: deny with [], or hand the error on.             *)
FetchFailed(c) ==
    /\ pc[c] = "fetched" /\ ~doomed[c]
    /\ answer[c].status = "unreachable"
    /\ Settle(c, IF StaleOnError THEN Result({}) ELSE Error)
    /\ UNCHANGED <<redis, truth, ever, key, home, reply, answer, waits, doomed>>

(* Mutant of FetchRaised: the entry popped only on the normal path.        *)
FetchRaisedKeepsEntry(c) ==
    /\ pc[c] = "fetched" /\ ~doomed[c]
    /\ answer[c].status = "malformed"
    /\ Return(c, Raised("malformed"))
    /\ UNCHANGED <<redis, truth, ever, key, home, reply, answer, in_flight, fut, waits, doomed>>

(* Any other exception leaves through the finally clause, which settles    *)
(* nothing.                                                                *)
FetchRaised(c) ==
    /\ pc[c] = "fetched" /\ ~doomed[c]
    /\ answer[c].status = "malformed"
    /\ Release(c)
    /\ Return(c, Raised("malformed"))
    /\ UNCHANGED <<redis, truth, ever, key, home, reply, answer, fut, waits, doomed>>

(* A resolution: populate the cache and await cache.set.                   *)
Populate(c) ==
    /\ pc[c] = "fetched" /\ ~doomed[c]
    /\ answer[c] \in Resolution
    /\ pc' = [pc EXCEPT ![c] = "set"]
    /\ UNCHANGED <<redis, truth, ever, key, home, reply, answer, in_flight, fut, waits, doomed, outcome>>

(* Redis executes the SET, or the SET raises and set() swallows it; a SET  *)
(* that raised, or whose task was cancelled, may still be on its way and   *)
(* be executed later, which is an Overwrite of a key without an entry.     *)
RedisSet(c) ==
    /\ pc[c] = "set"
    /\ redis' = SetNX(redis, key[c], ResolutionToPerms(answer[c]))
    /\ pc' = [pc EXCEPT ![c] = "stored"]
    /\ UNCHANGED <<truth, ever, key, home, reply, answer, in_flight, fut, waits, doomed, outcome>>

RedisSetFails(c) ==
    /\ SetMayFail
    /\ pc[c] = "set"
    /\ pc' = [pc EXCEPT ![c] = "stored"]
    /\ UNCHANGED <<redis, truth, ever, key, home, reply, answer, in_flight, fut, waits, doomed, outcome>>

Populated(c) ==
    /\ pc[c] = "stored" /\ ~doomed[c]
    /\ Settle(c, Result(ResolutionToPerms(answer[c])))
    /\ UNCHANGED <<redis, truth, ever, key, home, reply, answer, waits, doomed>>

(* A joiner resumes once the future it awaits is done.                     *)
Wake(c) ==
    /\ pc[c] = "join"
    /\ fut[waits[c]].st # "pending"
    /\ Return(c, IF doomed[c] THEN Raised("cancelled") ELSE Awaited(fut[waits[c]]))
    /\ UNCHANGED <<redis, truth, ever, key, home, reply, answer, in_flight, fut, waits, doomed>>
-----------------------------------------------------------------------------
(* explain, which goes past the cache, _in_flight and stale_on_error.      *)

Explain(c, k, i) ==
    /\ pc[c] = "idle" /\ c \in Explainers
    /\ pc' = [pc EXCEPT ![c] = "ask"]
    /\ key' = [key EXCEPT ![c] = k]
    /\ home' = [home EXCEPT ![c] = i]
    /\ UNCHANGED <<redis, truth, ever, reply, answer, in_flight, fut, waits, doomed, outcome>>

(* Mutant of Explained: looks in the cache before it believes Helios.      *)
ExplainedFromCache(c) ==
    /\ pc[c] = "asked" /\ ~doomed[c]
    /\ Return(c, CASE answer[c].status = "malformed" -> Raised("malformed")
                   [] Get(redis, key[c]).kind = "list" -> Explanation(redis[key[c]].perms)
                   [] OTHER -> Explanation(ResolutionToPerms(answer[c])))
    /\ UNCHANGED <<redis, truth, ever, key, home, reply, answer, in_flight, fut, waits, doomed>>

(* A denial if Helios is unreachable or grants nothing to this user.       *)
Explained(c) ==
    /\ pc[c] = "asked" /\ ~doomed[c]
    /\ Return(c, IF answer[c].status = "malformed" THEN Raised("malformed")
                 ELSE Explanation(ResolutionToPerms(answer[c])))
    /\ UNCHANGED <<redis, truth, ever, key, home, reply, answer, in_flight, fut, waits, doomed>>
-----------------------------------------------------------------------------
(* Mutant of Cancel: a fetcher cancels the future it registered.           *)
CancelOwnFuture(c) ==
    /\ MayCancel
    /\ pc[c] \notin {"idle", "done"} /\ ~doomed[c]
    /\ doomed' = [doomed EXCEPT ![c] = TRUE]
    /\ fut' = IF Leads(c) THEN [fut EXCEPT ![c] = CancelledFuture] ELSE fut
    /\ UNCHANGED <<redis, truth, ever, pc, key, home, reply, answer, in_flight, waits, outcome>>

(* Cancellation.  Task.cancel() cancels the future its task awaits: for a  *)
(* joiner that is the shared future, and every task awaiting it sees the   *)
(* cancellation.                                                           *)
Cancel(c) ==
    /\ MayCancel
    /\ pc[c] \notin {"idle", "done"} /\ ~doomed[c]
    /\ doomed' = [doomed EXCEPT ![c] = TRUE]
    /\ fut' = IF pc[c] = "join" /\ fut[waits[c]].st = "pending"
                THEN [fut EXCEPT ![waits[c]] = CancelledFuture] ELSE fut
    /\ UNCHANGED <<redis, truth, ever, pc, key, home, reply, answer, in_flight, waits, outcome>>

(* CancelledError is raised at the await: no except clause of the path     *)
(* takes it, and a fetcher's finally clause pops its entry.  A SET that    *)
(* was sent may still be executed later, as one that raised.               *)
Cancelled(c) ==
    /\ doomed[c]
    /\ \/ pc[c] \in {"get", "got", "ask", "asked"} /\ in_flight' = in_flight
       \/ Leads(c) /\ Release(c)
    /\ Return(c, Raised("cancelled"))
    /\ UNCHANGED <<redis, truth, ever, key, home, reply, answer, fut, waits, doomed>>
-----------------------------------------------------------------------------
(* The environment: what other clients of Redis and Helios may do.         *)

(* The membership changes.                                                 *)
RoleChange(k, r) ==
    /\ r \in Resolution \ {truth[k]}
    /\ truth' = [truth EXCEPT ![k] = r]
    /\ ever' = [ever EXCEPT ![k] = @ \cup {ResolutionToPerms(r)}]
    /\ UNCHANGED <<redis, callVars>>

(* A write_through of a list Helios resolved at some time; or the SET of a *)
(* populate that its call has given up, if the key has no entry.           *)
Overwrite(k, v) ==
    /\ v \in ever[k]
    /\ redis' = WriteThrough(redis, k, v)
    /\ UNCHANGED <<truth, ever, callVars>>

(* invalidate and invalidate_tenant, a page at a time; also expiry.        *)
Drop(K) ==
    /\ OneOwner(K)
    /\ redis' = Delete(redis, K)
    /\ UNCHANGED <<truth, ever, callVars>>

(* A value that get cannot read.                                           *)
ForeignWrite(k) ==
    /\ ForeignWrites
    /\ redis' = [redis EXCEPT ![k] = Foreign]
    /\ UNCHANGED <<truth, ever, callVars>>
-----------------------------------------------------------------------------
(* The task of c running on its event loop.                                *)
Run(c) ==
    \/ Hit(c) \/ Join(c) \/ Lead(c)
    \/ FetchFailed(c) \/ FetchRaised(c) \/ Populate(c) \/ Populated(c)
    \/ Wake(c) \/ Explained(c) \/ Cancelled(c)

(* A server acting on a request of c.                                      *)
Serve(c) ==
    \/ RedisGet(c) \/ RedisGetFails(c)
    \/ HeliosAnswers(c) \/ HeliosFails(c)
    \/ RedisSet(c) \/ RedisSetFails(c)

Environment ==
    \/ \E k \in Keys : \/ \E r \in Resolution : RoleChange(k, r)
                       \/ \E v \in PermList : Overwrite(k, v)
                       \/ ForeignWrite(k)
    \/ \E K \in SUBSET Keys : Drop(K)

Next ==
    \/ \E c \in Calls :
          \/ \E k \in Keys, i \in Instances : Start(c, k, i) \/ Explain(c, k, i)
          \/ Run(c) \/ Serve(c) \/ Cancel(c)
    \/ Environment

Spec == Init /\ [][Next]_vars

(* The event loop runs every ready task; Helios requests end by their      *)
(* timeout, and Redis is assumed to execute or refuse every command.       *)
FairTo(c) == WF_vars(Run(c)) /\ WF_vars(Serve(c))
Fairness == \A c \in Calls : FairTo(c)

FairSpec == Spec /\ Fairness
-----------------------------------------------------------------------------
TypeOK ==
    /\ redis \in [Keys -> Entry]
    /\ truth \in [Keys -> Resolution]
    /\ ever \in [Keys -> SUBSET PermList]
    /\ pc \in [Calls -> Points]
    /\ key \in [Calls -> Keys]
    /\ home \in [Calls -> Instances]
    /\ reply \in [Calls -> Entry]
    /\ answer \in [Calls -> Resolution \cup Failure]
    /\ in_flight \in [Slots -> Calls \cup {NoCall}]
    /\ fut \in [Calls -> Future]
    /\ waits \in [Calls -> Calls \cup {NoCall}]
    /\ doomed \in [Calls -> BOOLEAN]
    /\ outcome \in [Calls -> Outcome]
-----------------------------------------------------------------------------
(* What the client promises.                                               *)

(* The call that asked Helios on behalf of c.                              *)
Fetcher(c) == IF waits[c] = NoCall THEN c ELSE waits[c]

(* _resolve_perms coalesces: within a process no two calls fetch the same  *)
(* key from Helios at the same time, whatever fails or is cancelled.       *)
AtMostOneFetch ==
    \A c, d \in Calls : Leads(c) /\ Leads(d) /\ Slot(c) = Slot(d) => c = d

(* Every entry of _in_flight belongs to a call that is fetching that key:  *)
(* no error or cancellation leaves an entry behind, which would block the  *)
(* key in this process for ever.                                           *)
NoLeakedEntry ==
    \A s \in Slots : in_flight[s] # NoCall =>
        Leads(in_flight[s]) /\ Slot(in_flight[s]) = s

(* A call that awaits another call's unsettled future does so for the same *)
(* key, and that call is still fetching; or it is one of the two ways in   *)
(* which _resolve_perms abandons its future, cancellation of the fetcher   *)
(* and an exception other than HeliosUnreachableError.                     *)
WaiterHasFetcher ==
    \A c \in Calls : pc[c] = "join" =>
        /\ waits[c] \in Calls /\ Slot(waits[c]) = Slot(c)
        /\ fut[waits[c]].st = "pending" =>
              Leads(waits[c]) \/ outcome[waits[c]].kind \in {"cancelled", "malformed"}

(* Every list in Redis is one that Helios held for that user and tenant:   *)
(* neither the empty list of a fail-closed answer nor another key's list   *)
(* is ever cached.                                                         *)
OnlyHeliosLists ==
    \A k \in Keys : redis[k].kind = "list" => redis[k].perms \in ever[k]

(* A call that returns a list returns one that Helios held for its own     *)
(* user and tenant, or the empty list because the fetch it led or joined   *)
(* found Helios unreachable and stale_on_error denies; explain grants from *)
(* such a list, too, and denies while Helios is unreachable.               *)
AnswersAreReal ==
    \A c \in Calls : outcome[c].kind \in {"perms", "explained"} =>
        \/ outcome[c].perms \in ever[key[c]]
        \/ /\ outcome[c].perms = {} /\ (StaleOnError \/ outcome[c].kind = "explained")
           /\ answer[Fetcher(c)].status = "unreachable"

(* A call that ends in CancelledError or InvalidStateError was cancelled   *)
(* itself, or shares its fetch with a joiner that was: the cancellation of *)
(* a fetcher, or of a call for another key or process, does not reach it.  *)
CancelledBySharer ==
    \A c \in Calls : outcome[c].kind \in {"cancelled", "invalid_state"} =>
        doomed[c] \/ \E d \in Calls : doomed[d] /\ waits[d] = Fetcher(c)

(* c has registered a future or awaits another call's.                     *)
Fetches(c) == fut[c].st # "none" \/ waits[c] # NoCall

(* The documented results of caller_has_permission: a call that nobody     *)
(* cancelled returns a list, or raises HeliosUnreachableError if           *)
(* stale_on_error is off and it led or joined a fetch, and nothing else.   *)
(* explain, which does neither, returns.                                   *)
DocumentedOutcome ==
    \A c \in Calls : ~doomed[c] =>
        \/ outcome[c].kind \in {"none", "perms", "explained"}
        \/ outcome[c].kind = "unreachable" /\ ~StaleOnError /\ Fetches(c)

(* The task of c can be resumed: what it awaits is done.                   *)
Resumable(c) ==
    \/ pc[c] \in {"got", "fetched", "stored", "asked"}
    \/ pc[c] = "join" /\ fut[waits[c]].st # "pending"

(* A server has a request of c.                                            *)
Requested(c) == pc[c] \in {"get", "fetch", "set", "ask"}

(* Every call returns or raises.                                           *)
CallsReturn == \A c \in Calls : pc[c] # "idle" ~> pc[c] = "done"
=============================================================================
