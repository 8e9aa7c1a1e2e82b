------------------------- MODULE FleetRoleCredentials -------------------------
(***************************************************************************)
(* GetFleetRoleCredentials of server/server_state.go: the credentials of a *)
(* role are cached until they are about to expire.  Calls overlap each     *)
(* other, and Destroy and the next InitSDK, which start the cache anew.    *)
(* The lookup and the store are sections under state.mtx, with the request *)
(* in between; onManagedEC2, the ready flag and the manager are read       *)
(* without it.  Initialization has the InitSDK these calls come after.     *)
(***************************************************************************)
EXTENDS Initialization, FiniteSets

CONSTANTS
    Callers,       \* goroutines of the application that call GetFleetRoleCredentials
    Roles,         \* values of RoleArn
    SessionNames,  \* values of RoleSessionName: "", a name, "invalid"
    TTL,           \* common.InstanceRoleCredentialTTL
    Lifetimes,     \* for how long the service may give credentials
    MaxTime,       \* bound: the clock
    MaxCalls       \* bound: calls

ASSUME FleetRoleAssumption ==
    /\ TTL \in Nat /\ Lifetimes \subseteq Nat \ {0} /\ MaxTime \in Nat /\ MaxCalls \in Nat

VARIABLES
    now,        \* time.Now()
    cache,      \* state.fleetRoleResultCache: for each role, credentials or Missing
    pc,         \* where each caller is
    req, res,   \* what it asks for, and what it got
    calls       \* how much of MaxCalls is used

callVars == <<now, cache, pc, req, res, calls>>
vars == <<initVars, callVars>>

Missing == [role |-> "", session |-> "", expires |-> 0, life |-> 0]
NoRequest == [role |-> "", session |-> ""]
Requests == [role : Roles, session : SessionNames \cup {"default"}]

Init ==
    /\ InitialState
    /\ now = 0 /\ calls = 0
    /\ cache = [r \in Roles |-> Missing]
    /\ pc = [c \in Callers |-> "idle"]
    /\ req = [c \in Callers |-> NoRequest] /\ res = [c \in Callers |-> Missing]

CallerAt(c, where) == ended = "no" /\ pc[c] = where
Goto(c, where) == pc' = [pc EXCEPT ![c] = where]
(* The call ends; what it was about is of no interest any more. *)
Return(c) ==
    /\ Goto(c, "idle")
    /\ req' = [req EXCEPT ![c] = NoRequest] /\ res' = [res EXCEPT ![c] = Missing]

-----------------------------------------------------------------------------
(* req.RoleArn is looked up before anything is validated. *)
GetFleetRoleCredentials(c) ==
    /\ CallerAt(c, "idle") /\ initialized /\ calls < MaxCalls
    /\ calls' = calls + 1
    /\ IF onManagedEC2
       THEN /\ Goto(c, "lookup")
            /\ \E r \in Roles, s \in SessionNames : req' = [req EXCEPT ![c] = [role |-> r, session |-> s]]
       ELSE UNCHANGED <<pc, req>>
    /\ UNCHANGED <<initVars, now, cache, res>>

IsFresh(entry) == entry # Missing /\ entry.expires > now + TTL

(* Mutant: the mutex is released between the lookup and the delete. *)
LookupThenDelete(c) ==
    /\ \/ /\ CallerAt(c, "lookup")
          /\ IF IsFresh(cache[req[c].role]) THEN Return(c) ELSE Goto(c, "check") /\ UNCHANGED <<req, res>>
          /\ UNCHANGED cache
       \/ /\ CallerAt(c, "check")
          /\ cache' = [cache EXCEPT ![req[c].role] = Missing]
          /\ UNCHANGED <<pc, req, res>>
    /\ UNCHANGED <<initVars, now, calls>>

(* getRoleCredentialsFromCache, under the mutex: a hit is returned to the  *)
(* caller, whatever session it asked for; a stale entry is deleted.        *)
Lookup(c) ==
    /\ CallerAt(c, "lookup")
    /\ IF IsFresh(cache[req[c].role])
       THEN Return(c) /\ UNCHANGED cache
       ELSE /\ cache' = [cache EXCEPT ![req[c].role] = Missing]
            /\ Goto(c, "check") /\ UNCHANGED <<req, res>>
    /\ UNCHANGED <<initVars, now, calls>>

(* fleetId-hostId, which the pattern of a session name refuses if the host *)
(* has a slash among the first of its characters, which fit into the name. *)
DefaultSessionIsValid == id["HostID"].shape # "slash"

(* ValidateGetFleetRoleCredentialsRequest, after the default name is set, and the ready flag *)
Check(c) ==
    /\ CallerAt(c, "check")
    /\ LET session == IF req[c].session = "" THEN "default" ELSE req[c].session
           valid == session # "invalid" /\ (session = "default" => DefaultSessionIsValid)
       IN  IF valid /\ isReadyProcess
           THEN Goto(c, "send") /\ req' = [req EXCEPT ![c].session = session] /\ UNCHANGED res
           ELSE Return(c)
    /\ UNCHANGED <<initVars, now, cache, calls>>

Send(c) ==
    /\ CallerAt(c, "send")
    /\ IF wsGameLift
       THEN Goto(c, "pending") /\ UNCHANGED ended
       ELSE ended' = "nil manager" /\ UNCHANGED pc
    /\ res' = [res EXCEPT ![c].life = inits]
    /\ UNCHANGED <<settings, callOfInit, serverState, srv, main, initialized, connection, now, cache, req, calls>>

(* HandleRequest returns credentials, an error, or an answer without a key *)
(* which the service gives to a server that it does not manage.            *)
Receive(c) ==
    /\ CallerAt(c, "pending")
    /\ \/ /\ \E t \in Lifetimes :
                res' = [res EXCEPT ![c] = [role |-> req[c].role, session |-> req[c].session,
                                           expires |-> now + t, life |-> @.life]]
          /\ Goto(c, "store") /\ UNCHANGED <<onManagedEC2, req>>
       \/ Return(c) /\ onManagedEC2' \in {onManagedEC2, FALSE}
    /\ UNCHANGED <<settings, callOfInit, wsGameLift, id, isReadyProcess, srv, main, initialized, connection, ended,
                   now, cache, calls>>

Store(c) ==
    /\ CallerAt(c, "store")
    /\ cache' = [cache EXCEPT ![req[c].role] = res[c]]
    /\ Return(c)
    /\ UNCHANGED <<initVars, now, calls>>

Tick ==
    /\ ended = "no" /\ now < MaxTime
    /\ now' = now + 1
    /\ UNCHANGED <<initVars, cache, pc, req, res, calls>>

-----------------------------------------------------------------------------
(* The first thing init does is to make a cache, without the mutex. *)
InitMakesCache == InitSDK /\ cache' = [r \in Roles |-> Missing] /\ UNCHANGED <<now, pc, req, res, calls>>

MainStep ==
    \/ InitMakesCache
    \/ /\ \/ Validate \/ FetchCredentials \/ FetchMetadata \/ Sign \/ StartConnect \/ ConnectReturns
          \/ ProcessReady \/ Destroy \/ Teardown \/ RefreshConnection
       /\ UNCHANGED callVars

CallStep(c) ==
    GetFleetRoleCredentials(c) \/ Lookup(c) \/ Check(c) \/ Send(c) \/ Receive(c) \/ Store(c)

Next == MainStep \/ Tick \/ \E c \in Callers : CallStep(c)

Spec == Init /\ [][Next]_vars

-----------------------------------------------------------------------------
(* Properties. *)

(* The type invariant; every entry of the cache is of the role it is under. *)
TypeOK ==
    /\ InitTypeOK
    /\ now \in 0..MaxTime /\ calls \in 0..MaxCalls
    /\ pc \in [Callers -> {"idle", "lookup", "check", "send", "pending", "store"}]
    /\ \A c \in Callers : req[c] \in Requests \cup {NoRequest}
    /\ \A r \in Roles : cache[r] # Missing => cache[r].role = r

(* Until InitSDK starts anew, no call deletes credentials that are still   *)
(* good: it leaves them, or puts others of the same role in their place.   *)
(* The lookup that deletes what is stale sees what another call has stored *)
(* since (server_state.go:383).  Which of two answers is better is not     *)
(* compared: see NewerCredentialsStay.                                     *)
GoodEntriesAreNotDeleted ==
    [][\A r \in Roles :
          IsFresh(cache[r]) /\ inits' = inits => cache'[r] # Missing /\ cache'[r].role = r]_vars

-----------------------------------------------------------------------------
(* What the code does not keep. *)

(* The answer of the call that stores last is kept, be it older or stale   *)
(* by now (server_state.go:438-440).                                       *)
NewerCredentialsStay ==
    [][\A r \in Roles : IsFresh(cache[r]) /\ inits' = inits => cache'[r].expires >= cache[r].expires]_vars

(* Destroy and InitSDK start anew: a cache holds what its own life got.    *)
CacheIsOfThisLife == initialized => \A r \in Roles : cache[r] # Missing => cache[r].life = inits

(* The comment at server_state.go:414: without a session name, the default *)
(* is used; and then it is accepted.                                       *)
DefaultSessionIsAccepted == \A c \in Callers : CallerAt(c, "check") /\ req[c].session = "" => DefaultSessionIsValid
=============================================================================
