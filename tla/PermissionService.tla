-------------------------- MODULE PermissionService --------------------------
(***************************************************************************)
(* What the permission system promises its callers, with no cache, no      *)
(* in-flight table and no messages: Helios changes a user's permissions in *)
(* a tenant and then publishes the change; a call is answered with a list  *)
(* that Helios held while the call was running or, if a change was still   *)
(* unpublished when the call began, the list it replaced, except that a    *)
(* call that wants an explanation is told the truth.  It may always be     *)
(* denied (the empty list of a fail-closed answer) or fail.                *)
(***************************************************************************)
CONSTANTS Keys, Perm, Calls

VARIABLES
    current,   \* what Helios grants for each key
    replaced,  \* the list an unpublished change replaced, in a set
    phase,     \* "idle", "running" or "done"
    asked,     \* the key a call asks about
    window,    \* the lists a call may be answered with
    result     \* the list a call returned, in a set

serviceVars == <<current, replaced, phase, asked, window, result>>

Lists == SUBSET Perm

ServiceInit ==
    /\ current \in [Keys -> Lists]
    /\ replaced = [k \in Keys |-> {}]
    /\ phase = [c \in Calls |-> "idle"]
    /\ asked \in [Calls -> Keys]
    /\ window = [c \in Calls |-> {}]
    /\ result = [c \in Calls |-> {}]

Ask(c, k) ==
    /\ phase[c] = "idle"
    /\ phase' = [phase EXCEPT ![c] = "running"]
    /\ asked' = [asked EXCEPT ![c] = k]
    /\ window' = [window EXCEPT ![c] = {current[k]} \cup replaced[k]]
    /\ UNCHANGED <<current, replaced, result>>

AskTruth(c, k) ==
    /\ phase[c] = "idle"
    /\ phase' = [phase EXCEPT ![c] = "running"]
    /\ asked' = [asked EXCEPT ![c] = k]
    /\ window' = [window EXCEPT ![c] = {current[k]}]
    /\ UNCHANGED <<current, replaced, result>>

Change(k, v) ==
    /\ replaced[k] = {}
    /\ current' = [current EXCEPT ![k] = v]
    /\ replaced' = [replaced EXCEPT ![k] = {current[k]}]
    /\ window' = [c \in Calls |->
          IF phase[c] = "running" /\ asked[c] = k THEN window[c] \cup {v} ELSE window[c]]
    /\ UNCHANGED <<phase, asked, result>>

Publish(k) ==
    /\ replaced' = [replaced EXCEPT ![k] = {}]
    /\ UNCHANGED <<current, phase, asked, window, result>>

Reply(c) ==
    /\ phase[c] = "running"
    /\ phase' = [phase EXCEPT ![c] = "done"]
    /\ \E v \in window[c] \cup {{}} : result' = [result EXCEPT ![c] = {v}]
    /\ UNCHANGED <<current, replaced, asked, window>>

Fail(c) ==
    /\ phase[c] = "running"
    /\ phase' = [phase EXCEPT ![c] = "done"]
    /\ UNCHANGED <<current, replaced, asked, window, result>>

ServiceNext ==
    \/ \E c \in Calls : (\E k \in Keys : Ask(c, k) \/ AskTruth(c, k)) \/ Reply(c) \/ Fail(c)
    \/ \E k \in Keys : (\E v \in Lists : Change(k, v)) \/ Publish(k)

ServiceSpec == ServiceInit /\ [][ServiceNext]_serviceVars
=============================================================================
