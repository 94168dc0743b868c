---------------------------- MODULE SecureSessions ----------------------------
(***************************************************************************)
(* Sessions of the authenticated gateway (compilableworld_mcp: security,   *)
(* revocation, auth_pipeline, secure_gateway, session_store, rate_limit,   *)
(* and the session half of service).                                       *)
(*                                                                         *)
(* A session exists twice: in the lifecycle store (SQLite, kept over a     *)
(* restart) with the hash of its current token, and in the memory of the   *)
(* host's service.  A request is authenticated, looked up in the store,    *)
(* looked up in memory, and then does its work: an action looks in memory  *)
(* once more and takes the runtime along, then the journal prepares it,    *)
(* and then the runtime runs it.  Requests run on several threads, each of *)
(* these steps is a transaction or a lock of its own, and operators        *)
(* revoke, grant and withdraw at any time.  After a restart the host       *)
(* rehydrates its memory from the store before it serves requests.         *)
(*                                                                         *)
(* A principal is one principal token and its user; signatures, scopes and *)
(* roles always match.  A session token is its number.  Time is the wall   *)
(* clock in seconds, read anew at every step.  The reservation and the     *)
(* journal around a submission are ActionDelivery's.                       *)
(***************************************************************************)
EXTENDS Integers, Sequences, FiniteSets

CONSTANTS
  Principal, PrincipalExp,   \* [Principal -> time its token expires]
  Session, Req, None,
  TTL,            \* life of a session token
  Window, Limit,  \* of the rate limiter
  MaxTime, MaxTokens,        \* bounds
  MaxChanges      \* bound: acts of operators, crashes and failed calls

ASSUME SessionAssumption ==
  /\ PrincipalExp \in [Principal -> Nat]
  /\ {TTL, Window, Limit, MaxTime, MaxTokens, MaxChanges} \subseteq Nat \ {0}

Status == {"active", "expired", "closed", "revoked"}
Record == [status : Status, token : Nat, exp : Int]
Token  == [session : Session, principal : Principal, from : Nat, exp : Int]
Place  == {"idle", "store", "expire", "live", "do", "issue", "submit", "run", "closing", "done"}

ASSUME NoneAssumption == None \notin Record

VARIABLES
  now,
  denied,    \* principal tokens on the denylist
  granted,   \* users with a grant in the ACL
  tokens,    \* session tokens issued: [session, principal, from, exp]
  store,     \* [Session -> lifecycle record or None]
  live,      \* sessions in the memory of the service
  host,      \* "serving", "down" or "starting"
  req,       \* [Req -> [at, op, principal, token, session, late]]
  hits,      \* [Principal -> admitted actions the limiter still has a row for]
  admitted,  \* [Principal -> sequence of times of all admitted actions]
  changes    \* bound

vars == <<now, denied, granted, tokens, store, live, host, req, hits, admitted, changes>>

Idle ==
  [at |-> "idle", op |-> None, principal |-> None, token |-> 0, session |-> None, late |-> FALSE]

Init ==
  /\ now = 0 /\ denied = {} /\ granted = Principal /\ tokens = <<>>
  /\ store = [s \in Session |-> None] /\ live = {} /\ host = "serving"
  /\ req = [r \in Req |-> Idle]
  /\ hits = [p \in Principal |-> {}] /\ admitted = [p \in Principal |-> <<>>]
  /\ changes = 0

At(r, at)   == req[r].at = at
Goto(r, at) == req' = [req EXCEPT ![r].at = at]
Refuse(r)   == req' = [req EXCEPT ![r] = Idle]
Finish(r)   == req' = [req EXCEPT ![r] = [Idle EXCEPT !.at = "done", !.late = req[r].late]]

-----------------------------------------------------------------------------
(* Authentication.                                                         *)

\* _validate_claims(), of principal and session tokens alike.
Unexpired(exp) == exp > now

\* RevocationCheckingPrincipalResolver.resolve()
Accepted(p) == Unexpired(PrincipalExp[p]) /\ p \notin denied

\* WorldACL.authorize()
Authorized(p) == p \in granted

\* RequestSecurityPipeline.authenticate(): the request is late if its token is
\* not the current one of an active session.
Authenticate(r, op, p, t) ==
  /\ host = "serving" /\ req[r].at \in {"idle", "done"}
  /\ Accepted(p)
  /\ tokens[t].principal = p /\ Unexpired(tokens[t].exp)
  /\ Authorized(p)
  /\ LET s == tokens[t].session IN
       req' = [req EXCEPT ![r] =
                 [at |-> "store", op |-> op, principal |-> p, token |-> t, session |-> s,
                  late |-> store[s].status # "active" \/ store[s].token # t]]
  /\ UNCHANGED <<now, denied, granted, tokens, store, live, host, hits, admitted, changes>>

\* Mutant of TokenMatches: any token of the session will do.
TokenMatchesSession(r) == store[req[r].session].status = "active"

\* _raise_for_status() and _assert_grant_matches()
TokenMatches(r) ==
  /\ store[req[r].session].status = "active"
  /\ store[req[r].session].token = req[r].token

\* SessionLifecycleStore.require_active(): it reads the record ...
RequireActive(r) ==
  /\ At(r, "store")
  /\ LET record == store[req[r].session] IN
       IF record.status = "active" /\ record.exp <= now THEN Goto(r, "expire")
       ELSE IF TokenMatches(r) THEN Goto(r, "live") ELSE Refuse(r)
  /\ UNCHANGED <<now, denied, granted, tokens, store, live, host, hits, admitted, changes>>

\* ... and marks one that has expired, by an update of its own.
MarkExpired(r) ==
  /\ At(r, "expire") /\ Refuse(r)
  /\ store' = [store EXCEPT ![req[r].session].status = IF @ = "active" THEN "expired" ELSE @]
  /\ UNCHANGED <<now, denied, granted, tokens, live, host, hits, admitted, changes>>

\* The rest of _require_live_session()
RequireLive(r) ==
  /\ At(r, "live")
  /\ IF req[r].session \in live THEN Goto(r, "do") ELSE Refuse(r)
  /\ UNCHANGED <<now, denied, granted, tokens, store, live, host, hits, admitted, changes>>

-----------------------------------------------------------------------------
(* open_world_session()                                                    *)

\* SessionTokenCodec.issue(): a session does not outlive its principal.
CanIssue(p) == TTL <= PrincipalExp[p] - now

Issue(s, p, from) ==
  tokens' = Append(tokens, [session |-> s, principal |-> p, from |-> from, exp |-> now + TTL])

\* The session is in memory first ...
OpenLive(r, p, s) ==
  /\ host = "serving" /\ req[r].at \in {"idle", "done"}
  /\ Accepted(p) /\ Authorized(p)
  /\ store[s] = None /\ s \notin live /\ Len(tokens) < MaxTokens
  /\ live' = live \cup {s}
  /\ req' = [req EXCEPT ![r] =
       [Idle EXCEPT !.at = "issue", !.op = "open", !.principal = p, !.session = s]]
  /\ UNCHANGED <<now, denied, granted, tokens, store, host, hits, admitted, changes>>

\* ... then its token is issued and registered; without a token it stays there.
Register(r) ==
  /\ At(r, "issue")
  /\ LET s == req[r].session
         p == req[r].principal IN
       IF CanIssue(p)
       THEN /\ Issue(s, p, 0)
            /\ store' = [store EXCEPT ![s] =
                  [status |-> "active", token |-> Len(tokens) + 1, exp |-> now + TTL]]
            /\ Finish(r)
       ELSE Refuse(r) /\ UNCHANGED <<tokens, store>>
  /\ UNCHANGED <<now, denied, granted, live, host, hits, admitted, changes>>

-----------------------------------------------------------------------------
(* The work of a request that passed.                                      *)

Doing(r, op) == At(r, "do") /\ req[r].op = op

\* Mutant of Recent: the window is a second too short.
RecentStrict(p) == {n \in hits[p] : admitted[p][n] > now - Window + 1}

\* The rows that the cutoff leaves.
Recent(p) == {n \in hits[p] : admitted[p][n] >= now - Window + 1}

\* SlidingWindowRateLimiter.consume()
Consume(r) ==
  /\ Doing(r, "act")
  /\ LET p == req[r].principal IN
       IF Cardinality(Recent(p)) + 1 > Limit
       THEN hits' = [hits EXCEPT ![p] = Recent(p)] /\ Refuse(r) /\ UNCHANGED admitted
       ELSE /\ hits' = [hits EXCEPT ![p] = Recent(p) \cup {Len(admitted[p]) + 1}]
            /\ admitted' = [admitted EXCEPT ![p] = Append(@, now)]
            /\ Goto(r, "submit")
  /\ UNCHANGED <<now, denied, granted, tokens, store, live, host, changes>>

\* runtime_for_security() looks into memory once more; the runtime it returns is
\* kept while the journal prepares the action, and no lock is.
Look(r) ==
  /\ At(r, "submit")
  /\ IF req[r].session \in live /\ Authorized(req[r].principal) THEN Goto(r, "run") ELSE Refuse(r)
  /\ UNCHANGED <<now, denied, granted, tokens, store, live, host, hits, admitted, changes>>

\* The runtime runs the action, whatever became of its session meanwhile.
Submit(r) ==
  /\ At(r, "run") /\ Finish(r)
  /\ UNCHANGED <<now, denied, granted, tokens, store, live, host, hits, admitted, changes>>

\* Mutant of CloseLive: the session stays in memory.
CloseKeepsLive(r) ==
  /\ Doing(r, "close") /\ Goto(r, "closing")
  /\ UNCHANGED <<now, denied, granted, tokens, store, live, host, hits, admitted, changes>>

\* close_world_session() takes the session out of memory ...
CloseLive(r) ==
  /\ Doing(r, "close")
  /\ IF req[r].session \in live THEN live' = live \ {req[r].session} /\ Goto(r, "closing")
     ELSE UNCHANGED live /\ Refuse(r)
  /\ UNCHANGED <<now, denied, granted, tokens, store, host, hits, admitted, changes>>

\* _transition(): an active session ends; one that has ended stays as it is.
Transition(s, status) ==
  store' = [store EXCEPT ![s].status = IF @ = "active" THEN status ELSE @]

\* ... and ends it in the store.
CloseStore(r) ==
  /\ At(r, "closing") /\ Finish(r)
  /\ Transition(req[r].session, "closed")
  /\ UNCHANGED <<now, denied, granted, tokens, live, host, hits, admitted, changes>>

\* Mutants of Rotatable: the update does not compare the token, or the status.
RotatableByAny(r)   == store[req[r].session].status = "active"
RotatableAlways(r)  == store[req[r].session].token = req[r].token

\* The WHERE of the update in SessionLifecycleStore.rotate()
Rotatable(r) ==
  /\ store[req[r].session].status = "active"
  /\ store[req[r].session].token = req[r].token

\* rotate_session(): a new token, put in the place of the one presented.
Rotate(r) ==
  /\ Doing(r, "rotate") /\ Len(tokens) < MaxTokens
  /\ LET s == req[r].session IN
       IF s \in live /\ CanIssue(req[r].principal) /\ Rotatable(r)
       THEN /\ Issue(s, req[r].principal, req[r].token)
            /\ store' = [store EXCEPT ![s] =
                  [status |-> "active", token |-> Len(tokens) + 1, exp |-> now + TTL]]
            /\ Finish(r)
       ELSE Refuse(r) /\ UNCHANGED <<tokens, store>>
  /\ UNCHANGED <<now, denied, granted, live, host, hits, admitted, changes>>

\* A call of the store fails, and the request with it.
Fail(r) ==
  /\ req[r].at \notin {"idle", "done"} /\ changes < MaxChanges
  /\ Refuse(r) /\ changes' = changes + 1
  /\ UNCHANGED <<now, denied, granted, tokens, store, live, host, hits, admitted>>

-----------------------------------------------------------------------------
(* Operators, time and restarts.                                           *)

Acts ==
  /\ changes < MaxChanges /\ changes' = changes + 1
  /\ UNCHANGED <<now, tokens, live, host, req, hits, admitted>>

\* PrincipalJTIRevocationStore.revoke()
Deny(p) ==
  /\ Acts /\ Unexpired(PrincipalExp[p])
  /\ denied' = denied \cup {p} /\ UNCHANGED <<granted, store>>

\* WorldACL.grant() and revoke(): of this host's memory.
Grant(p)    == Acts /\ granted' = granted \cup {p} /\ UNCHANGED <<denied, store>>
Withdraw(p) == Acts /\ granted' = granted \ {p} /\ UNCHANGED <<denied, store>>

\* SessionLifecycleStore.revoke(): the store alone.
Revoke(s) == Acts /\ store[s] # None /\ Transition(s, "revoked") /\ UNCHANGED <<denied, granted>>

\* Expired entries leave the denylist, as is_revoked() and prune() remove them.
Tick ==
  /\ now < MaxTime /\ now' = now + 1
  /\ denied' = {p \in denied : PrincipalExp[p] > now'}
  /\ UNCHANGED <<granted, tokens, store, live, host, req, hits, admitted, changes>>

\* The memory of the host is lost, the ACL with it; the stores are kept.
Crash ==
  /\ host # "down" /\ changes < MaxChanges
  /\ host' = "down" /\ live' = {} /\ granted' = {} /\ req' = [r \in Req |-> Idle]
  /\ changes' = changes + 1
  /\ UNCHANGED <<now, denied, tokens, store, hits, admitted>>

\* The host starts, with the grants of its configuration.
Start ==
  /\ host = "down" /\ host' = "starting"
  /\ \E g \in SUBSET Principal : granted' = g
  /\ UNCHANGED <<now, denied, tokens, store, live, req, hits, admitted, changes>>

Expiring == {s \in Session : store[s] # None /\ store[s].status = "active" /\ store[s].exp <= now}

Active == {s \in Session : store[s] # None /\ store[s].status = "active"} \ Expiring

\* rehydrate_sessions(): every active session, or none if one of them lacks its
\* grant; then the host serves.
Rehydrate ==
  /\ host = "starting"
  /\ store' = [s \in Session |->
       IF s \in Expiring THEN [store[s] EXCEPT !.status = "expired"] ELSE store[s]]
  /\ live' = IF \A s \in Active : tokens[store[s].token].principal \in granted THEN Active ELSE {}
  /\ host' = "serving"
  /\ UNCHANGED <<now, denied, granted, tokens, req, hits, admitted, changes>>

Next ==
  \/ \E r \in Req :
       \/ \E op \in {"act", "close", "rotate"}, p \in Principal, t \in 1..Len(tokens) :
            Authenticate(r, op, p, t)
       \/ \E p \in Principal, s \in Session : OpenLive(r, p, s)
       \/ RequireActive(r) \/ MarkExpired(r) \/ RequireLive(r) \/ Register(r) \/ Consume(r)
       \/ Look(r) \/ Submit(r) \/ CloseLive(r) \/ CloseStore(r) \/ Rotate(r) \/ Fail(r)
  \/ \E p \in Principal : Deny(p) \/ Grant(p) \/ Withdraw(p)
  \/ \E s \in Session : Revoke(s)
  \/ Tick \/ Crash \/ Start \/ Rehydrate

Spec == Init /\ [][Next]_vars

-----------------------------------------------------------------------------
\* Every variable has its type.
TypeOK ==
  /\ now \in Nat /\ changes \in Nat
  /\ granted \subseteq Principal /\ live \subseteq Session
  /\ tokens \in Seq(Token)
  /\ store \in [Session -> Record \cup {None}]
  /\ host \in {"serving", "down", "starting"}
  /\ req \in [Req -> [at : Place, op : {"open", "act", "close", "rotate", None},
                     principal : Principal \cup {None}, token : Nat,
                     session : Session \cup {None}, late : BOOLEAN]]
  /\ hits \in [Principal -> SUBSET Nat] /\ admitted \in [Principal -> Seq(Nat)]

\* A session that was closed, revoked or has expired is never active again: no
\* rotation that checked it before, no restart and no rehydration revives it.
EndedStaysEnded ==
  [][\A s \in Session :
       (store[s] # None /\ store[s].status # "active") => store'[s].status # "active"]_vars

\* Of several rotations that present the same token one succeeds: the tokens of
\* a session form a chain, and its last one is the token of the record.
TokensFormAChain ==
  /\ \A t, u \in 1..Len(tokens) : (t # u /\ tokens[t].from # 0) => tokens[t].from # tokens[u].from
  /\ \A s \in Session : store[s] # None =>
       /\ tokens[store[s].token].session = s /\ tokens[store[s].token].exp = store[s].exp
       /\ \A t \in 1..Len(tokens) : tokens[t].from # store[s].token

\* A request that came with a token that had been replaced, or for a session
\* that had ended, does nothing, whatever happens while it runs.
LateRequestsRefused == \A r \in Req : At(r, "done") => ~req[r].late

\* After a session was closed no request gets its runtime any more, not even one
\* that passed the store's check and the limiter before: memory is left first.
\* What may still run after the close is an action whose request had the runtime
\* already, and was preparing its journal entry when the session was closed.
ClosedIsQuiet ==
  [][\A r \in Req :
       (At(r, "submit") /\ req'[r].at = "run") => store[req[r].session].status # "closed"]_vars

\* It is refuted that nothing runs after a close: prepare() takes its time, and
\* nobody looks at the session again before runtime.submit().
NothingAfterClose ==
  [][\A r \in Req :
       (At(r, "run") /\ req'[r].at = "done") => store[req[r].session].status # "closed"]_vars

\* In every window of the limiter's length at most Limit actions are admitted.
RateHolds ==
  \A p \in Principal : \A t \in 0..now :
    Cardinality({i \in DOMAIN admitted[p] : admitted[p][i] \in t..(t + Window - 1)}) <= Limit

\* What makes them inductive.  A record names one of the tokens issued, tokens
\* name sessions on record and older tokens, and a closed session is not live.
StoreInv ==
  /\ \A s \in Session : store[s] # None =>
       /\ store[s].token \in 1..Len(tokens)
       /\ store[s].status = "closed" => s \notin live
  /\ \A t \in 1..Len(tokens) :
       store[tokens[t].session] # None /\ tokens[t].from \in 0..Len(tokens)

\* A request that is being served names a token of its session; a session that
\* is being opened is in memory, not on record, and opened by one request; one
\* that is being closed has left the memory; lateness, once come, stays; and no
\* request is served before the host serves.
Served  == {"store", "expire", "live", "do", "submit", "run", "closing"}
Checked == {"live", "do", "submit", "run", "closing", "issue", "idle", "done"}

Sound(r) ==
  /\ host # "serving" => req[r].at = "idle"
  /\ req[r].at \in Served =>
       /\ req[r].principal \in Principal /\ req[r].session \in Session
       /\ req[r].token \in 1..Len(tokens) /\ tokens[req[r].token].session = req[r].session
       /\ req[r].late => \/ store[req[r].session].status # "active"
                         \/ store[req[r].session].token # req[r].token
  /\ req[r].at = "closing" => req[r].session \notin live
  /\ req[r].at \in Checked => ~req[r].late
  /\ req[r].at = "issue" =>
       /\ req[r].principal \in Principal /\ req[r].session \in live
       /\ store[req[r].session] = None

Opening(r, s) == req[r].at = "issue" /\ req[r].session = s

RequestInv ==
  /\ \A r \in Req : Sound(r)
  /\ \A q, r \in Req, s \in Session : Opening(q, s) /\ Opening(r, s) => q = r

SessionInv == TypeOK /\ StoreInv /\ RequestInv /\ TokensFormAChain

\* Admissions lie in the past, and the rows that are gone have left the window.
RateInv ==
  \A p \in Principal :
    /\ hits[p] \subseteq 1..Len(admitted[p])
    /\ \A n \in 1..Len(admitted[p]) :
         admitted[p][n] <= now /\ (n \notin hits[p] => admitted[p][n] < now - Window + 1)

=============================================================================
