------------------------ MODULE SecureSessionsProofs ------------------------
(***************************************************************************)
(* What holds of sessions for any principals, sessions, requests and       *)
(* lifetimes, however often calls fail, operators act and the host         *)
(* restarts: the inductive invariant SessionInv, and from it that tokens   *)
(* form a chain, that late requests do nothing, that what has ended stays  *)
(* so and that a closed session is quiet; and the rate of the limiter.     *)
(***************************************************************************)
EXTENDS SecureSessions, FiniteSetTheorems, TLAPS

Requests ==
  [at : Place, op : {"open", "act", "close", "rotate", None}, principal : Principal \cup {None},
   token : Nat, session : Session \cup {None}, late : BOOLEAN]

\* The record of an idle request, and of one that is done.
LEMMA IdleShape ==
  /\ Idle \in Requests /\ Idle.at = "idle" /\ ~Idle.late
  /\ \A late \in BOOLEAN :
       LET d == [Idle EXCEPT !.at = "done", !.late = late]
       IN  d \in Requests /\ d.at = "done" /\ d.late = late
  BY ZenonT(30) DEF Idle, Requests, Place

\* The initial states have the invariant.
LEMMA InitInv == Init => SessionInv
<1> SUFFICES ASSUME Init PROVE SessionInv
  OBVIOUS
<1>1. TypeOK
  <2>1. tokens \in Seq(Token)
    BY DEF Init
  <2>2. admitted \in [Principal -> Seq(Nat)]
    BY DEF Init
  <2>3. req \in [Req -> Requests]
    BY ZenonT(30), IdleShape DEF Init
  <2> QED BY <2>1, <2>2, <2>3 DEF Init, TypeOK, Requests
<1>2. StoreInv /\ TokensFormAChain
  BY DEF Init, StoreInv, TokensFormAChain
<1>3. RequestInv
  BY ZenonT(30), IdleShape DEF Init, RequestInv, Sound, Opening, Served
<1> QED BY <1>1, <1>2, <1>3 DEF SessionInv

-----------------------------------------------------------------------------
\* What no step takes back: tokens and records are kept, what has ended stays
\* so, and a record's token is only replaced by a new one.
StoreGrows ==
  /\ Len(tokens) <= Len(tokens') /\ \A t \in 1..Len(tokens) : tokens'[t] = tokens[t]
  /\ \A s \in Session : store[s] # None =>
       /\ store'[s] # None
       /\ store[s].status # "active" => store'[s].status # "active"
       /\ store'[s].token = store[s].token \/ store'[s].token > Len(tokens)

\* A token that was issued is one.
LEMMA TokenShape ==
  ASSUME SessionInv, NEW t \in 1..Len(tokens)
  PROVE  tokens[t] \in Token /\ tokens[t].session \in Session /\ tokens[t].principal \in Principal
         /\ t \in Nat
<1>1. tokens \in Seq(Token) /\ Len(tokens) \in Nat
  BY DEF SessionInv, TypeOK
<1>2. tokens[t] \in Token
  BY <1>1
<1> QED BY <1>1, <1>2 DEF Token

\* A request that does not move stays sound while others work on the store.
LEMMA SoundKept ==
  ASSUME SessionInv, NEW p \in Req, req'[p] = req[p], host' = host, TypeOK', StoreGrows,
         req[p].at = "closing" => (live' \subseteq live \/ req[p].session \notin live'),
         req[p].at = "issue" => store'[req[p].session] = None /\ req[p].session \in live'
  PROVE  Sound(p)'
<1>1. Sound(p) /\ req[p] \in Requests
  BY DEF SessionInv, RequestInv, TypeOK, Requests
<1>2. Len(tokens) \in Nat /\ Len(tokens') \in Nat
  BY DEF SessionInv, TypeOK
<1>3. CASE req[p].at \in Served
  <2>1. /\ req[p].session \in Session /\ req[p].token \in 1..Len(tokens)
        /\ tokens[req[p].token].session = req[p].session
    BY <1>1, <1>3 DEF Sound
  <2>2. store[req[p].session] # None
    BY <2>1 DEF SessionInv, StoreInv
  <2>3. req[p].token \in 1..Len(tokens') /\ tokens'[req[p].token].session = req[p].session
    BY <1>2, <2>1 DEF StoreGrows
  <2>4. req[p].late => \/ store'[req[p].session].status # "active"
                       \/ store'[req[p].session].token # req[p].token
    BY <1>1, <1>2, <1>3, <2>1, <2>2 DEF StoreGrows, Sound
  <2> QED BY <1>1, <1>3, <2>1, <2>3, <2>4 DEF Sound, Served
<1>4. CASE req[p].at \notin Served
  BY <1>1, <1>4 DEF Sound, Served
<1> QED BY <1>3, <1>4

\* A request moves on, or ends, and nothing else that the invariant is about
\* changes.
LEMMA RequestMoves ==
  ASSUME SessionInv, NEW r \in Req, NEW q \in Requests,
         req' = [req EXCEPT ![r] = q],
         UNCHANGED <<now, granted, tokens, store, live, host>>,
         hits' \in [Principal -> SUBSET Nat], admitted' \in [Principal -> Seq(Nat)], changes' \in Nat,
         host = "serving",
         q.at # "issue",
         q.at \in Served =>
           /\ q.principal \in Principal /\ q.session \in Session
           /\ q.token \in 1..Len(tokens) /\ tokens[q.token].session = q.session
           /\ q.late => \/ store[q.session].status # "active"
                        \/ store[q.session].token # q.token,
         q.at = "closing" => q.session \notin live,
         q.at \in Checked => ~q.late
  PROVE  SessionInv'
<1>1. TypeOK'
  BY DEF SessionInv, TypeOK, Requests
<1>2. StoreInv' /\ TokensFormAChain'
  BY DEF SessionInv, StoreInv, TokensFormAChain
<1>3. ASSUME NEW p \in Req PROVE Sound(p)'
  <2>1. CASE p = r
    BY <2>1 DEF SessionInv, TypeOK, Sound
  <2>2. CASE p # r
    BY <2>2 DEF SessionInv, TypeOK, RequestInv, Sound
  <2> QED BY <2>1, <2>2
<1>4. ASSUME NEW p1 \in Req, NEW p2 \in Req, NEW s \in Session, Opening(p1, s)', Opening(p2, s)'
      PROVE  p1 = p2
  BY <1>4 DEF SessionInv, TypeOK, RequestInv, Opening
<1> QED BY <1>1, <1>2, <1>3, <1>4 DEF SessionInv, RequestInv

Rest == <<now, granted, tokens, store, live, host>>

\* The host serves while a request is on its way.
LEMMA Serving ==
  ASSUME SessionInv, NEW r \in Req, req[r].at # "idle"
  PROVE  host = "serving"
  BY DEF SessionInv, RequestInv, Sound

\* A request that is served, in detail.
LEMMA ServedRequest ==
  ASSUME SessionInv, NEW r \in Req, req[r].at \in Served
  PROVE  /\ host = "serving" /\ req[r] \in Requests
         /\ req[r].principal \in Principal /\ req[r].session \in Session
         /\ req[r].token \in 1..Len(tokens) /\ tokens[req[r].token].session = req[r].session
         /\ store[req[r].session] # None /\ store[req[r].session] \in Record
         /\ req[r].late => \/ store[req[r].session].status # "active"
                           \/ store[req[r].session].token # req[r].token
         /\ req[r].at \in Checked => ~req[r].late
<1>1. req[r] \in Requests
  BY DEF SessionInv, TypeOK, Requests
<1>2. Sound(r)
  BY DEF SessionInv, RequestInv
<1>3. /\ host = "serving"
      /\ req[r].principal \in Principal /\ req[r].session \in Session
      /\ req[r].token \in 1..Len(tokens) /\ tokens[req[r].token].session = req[r].session
  BY <1>2 DEF Sound, Served
<1>4. store[req[r].session] # None
  BY <1>3 DEF SessionInv, StoreInv
<1>5. store[req[r].session] \in Record
  BY <1>3, <1>4 DEF SessionInv, TypeOK
<1> QED BY <1>1, <1>2, <1>3, <1>4, <1>5 DEF Sound

\* It is refused, goes to its next place, or is done.
LEMMA Refused ==
  ASSUME SessionInv, NEW r \in Req, host = "serving", Refuse(r), UNCHANGED Rest,
         hits' \in [Principal -> SUBSET Nat], admitted' \in [Principal -> Seq(Nat)], changes' \in Nat
  PROVE  SessionInv'
  BY ZenonT(30), IdleShape, RequestMoves DEF Refuse, Rest, Served, Checked

LEMMA Goes ==
  ASSUME SessionInv, NEW r \in Req, NEW at \in Place, req[r].at \in Served, Goto(r, at),
         UNCHANGED Rest,
         hits' \in [Principal -> SUBSET Nat], admitted' \in [Principal -> Seq(Nat)], changes' \in Nat,
         at # "issue", at = "closing" => req[r].session \notin live,
         at \in Checked => ~req[r].late
  PROVE  SessionInv'
<1> DEFINE q == [req[r] EXCEPT !.at = at]
<1>1. q \in Requests /\ q.at = at /\ q.principal = req[r].principal /\ q.session = req[r].session
      /\ q.token = req[r].token /\ q.late = req[r].late
  BY ServedRequest DEF Requests
<1>2. req' = [req EXCEPT ![r] = q]
  BY DEF Goto, SessionInv, TypeOK
<1> HIDE DEF q
<1> QED BY ZenonT(30), <1>1, <1>2, ServedRequest, RequestMoves DEF Rest

LEMMA Finished ==
  ASSUME SessionInv, NEW r \in Req, req[r].at \in Served, Finish(r), UNCHANGED Rest,
         ~req[r].late,
         hits' \in [Principal -> SUBSET Nat], admitted' \in [Principal -> Seq(Nat)], changes' \in Nat
  PROVE  SessionInv'
<1> DEFINE q == [Idle EXCEPT !.at = "done", !.late = req[r].late]
<1>1. q \in Requests /\ q.at = "done" /\ ~q.late
  BY ZenonT(30), IdleShape, ServedRequest DEF Requests
<1>2. req' = [req EXCEPT ![r] = q]
  BY DEF Finish
<1> HIDE DEF q
<1> QED BY <1>1, <1>2, ServedRequest, RequestMoves DEF Rest, Served

-----------------------------------------------------------------------------
\* A request ends while others work on the store.
LEMMA RequestEnds ==
  ASSUME SessionInv, NEW r \in Req, NEW q \in Requests, req' = [req EXCEPT ![r] = q],
         q.at \in {"idle", "done"}, ~q.late, host = "serving", host' = host, live' = live,
         TypeOK', StoreGrows,
         \A p \in Req \ {r} : req[p].at = "issue" => store'[req[p].session] = None
  PROVE  RequestInv'
<1>1. req \in [Req -> Requests]
  BY DEF SessionInv, TypeOK, Requests
<1>2. ASSUME NEW p \in Req PROVE Sound(p)'
  <2>1. CASE p = r
    BY <1>1, <2>1 DEF Sound, Served
  <2>2. CASE p # r
    <3>1. req'[p] = req[p]
      BY <1>1, <2>2
    <3>2. req[p].at = "issue" => req[p].session \in live
      BY DEF SessionInv, RequestInv, Sound
    <3> QED BY <2>2, <3>1, <3>2, SoundKept
  <2> QED BY <2>1, <2>2
<1>3. ASSUME NEW p1 \in Req, NEW p2 \in Req, NEW s \in Session, Opening(p1, s)', Opening(p2, s)'
      PROVE  p1 = p2
  BY <1>1, <1>3 DEF SessionInv, RequestInv, Opening
<1> QED BY <1>2, <1>3 DEF RequestInv

\* A session ends in the store.
LEMMA SessionEnds ==
  ASSUME SessionInv, NEW s \in Session, store[s] # None, NEW st \in Status \ {"active"},
         st = "closed" => s \notin live,
         Transition(s, st), tokens' = tokens, live' = live
  PROVE  /\ StoreInv' /\ TokensFormAChain' /\ StoreGrows
         /\ store' \in [Session -> Record \cup {None}]
         /\ \A x \in Session : store[x] = None => store'[x] = None
<1>1. store[s] \in Record
  BY DEF SessionInv, TypeOK
<1>2. PICK now_st \in Status :
        /\ store' = [store EXCEPT ![s] = [store[s] EXCEPT !.status = now_st]]
        /\ now_st = IF store[s].status = "active" THEN st ELSE store[s].status
  <2> DEFINE end == IF store[s].status = "active" THEN st ELSE store[s].status
  <2>1. end \in Status
    BY <1>1 DEF Record
  <2>2. store' = [store EXCEPT ![s] = [store[s] EXCEPT !.status = end]]
    BY DEF Transition
  <2> QED BY <2>1, <2>2
<1> DEFINE rec == [store[s] EXCEPT !.status = now_st]
<1>3. rec \in Record /\ rec.status = now_st /\ rec.token = store[s].token /\ rec.exp = store[s].exp
  BY <1>1 DEF Record
<1>4. now_st # "active"
  BY <1>2
<1>5. now_st = "closed" => s \notin live
  BY <1>2 DEF SessionInv, StoreInv
<1>6. store' = [store EXCEPT ![s] = rec]
  BY <1>2
<1> HIDE DEF rec
<1>7. store \in [Session -> Record \cup {None}] /\ rec # None
  BY <1>3, NoneAssumption DEF SessionInv, TypeOK
<1>8. store' \in [Session -> Record \cup {None}]
  BY <1>3, <1>6, <1>7
<1>9. StoreInv'
  BY <1>3, <1>5, <1>6, <1>7 DEF SessionInv, StoreInv, TypeOK, Token
<1>10. TokensFormAChain'
  BY <1>3, <1>6, <1>7 DEF SessionInv, TokensFormAChain
<1>11. StoreGrows
  BY <1>3, <1>4, <1>6, <1>7 DEF StoreGrows, SessionInv, TypeOK
<1> QED BY <1>6, <1>7, <1>8, <1>9, <1>10, <1>11

\* A token is issued: the first one of a session, or one in the place of the
\* record's.
LEMMA Issued ==
  ASSUME SessionInv, NEW s \in Session, NEW p \in Principal, NEW from \in 0..Len(tokens),
         Issue(s, p, from),
         store' = [store EXCEPT ![s] =
                     [status |-> "active", token |-> Len(tokens) + 1, exp |-> now + TTL]],
         \/ store[s] = None /\ from = 0
         \/ store[s] # None /\ store[s].status = "active" /\ from = store[s].token,
         live' = live
  PROVE  /\ StoreInv' /\ TokensFormAChain' /\ StoreGrows
         /\ store' \in [Session -> Record \cup {None}] /\ tokens' \in Seq(Token)
<1> DEFINE n == Len(tokens) + 1
           new == [session |-> s, principal |-> p, from |-> from, exp |-> now + TTL]
           rec == [status |-> "active", token |-> n, exp |-> now + TTL]
<1>1. TTL \in Nat /\ now \in Nat /\ tokens \in Seq(Token) /\ Len(tokens) \in Nat
      /\ store \in [Session -> Record \cup {None}]
  BY SessionAssumption DEF SessionInv, TypeOK
<1>2. new \in Token /\ new.session = s /\ new.from = from /\ new.exp = now + TTL
  BY <1>1 DEF Token
<1>3. rec \in Record /\ rec # None /\ rec.status = "active" /\ rec.token = n /\ rec.exp = now + TTL
  BY <1>1, NoneAssumption DEF Record, Status
<1>4. tokens' = Append(tokens, new) /\ store' = [store EXCEPT ![s] = rec]
  BY DEF Issue
<1> HIDE DEF new, rec
<1>5. /\ tokens' \in Seq(Token) /\ Len(tokens') = n /\ tokens'[n] = new
      /\ \A t \in 1..Len(tokens) : tokens'[t] = tokens[t]
  BY <1>1, <1>2, <1>4
<1>6. store' \in [Session -> Record \cup {None}] /\ store'[s] = rec
      /\ \A x \in Session \ {s} : store'[x] = store[x]
  BY <1>1, <1>3, <1>4
<1>7. StoreGrows
  BY <1>1, <1>3, <1>5, <1>6 DEF StoreGrows
<1>8. \A t \in 1..Len(tokens) : tokens[t].from \in 0..Len(tokens) /\ store[tokens[t].session] # None
  BY DEF SessionInv, StoreInv
<1>9. \A x \in Session : store[x] # None =>
        /\ store[x].token \in 1..Len(tokens) /\ tokens[store[x].token].session = x
        /\ \A t \in 1..Len(tokens) : tokens[t].from # store[x].token
  BY DEF SessionInv, StoreInv, TokensFormAChain
<1>10. StoreInv'
  <2>1. ASSUME NEW x \in Session, store'[x] # None
        PROVE  store'[x].token \in 1..n /\ (store'[x].status = "closed" => x \notin live)
    BY <1>1, <1>3, <1>6, <1>9, <2>1 DEF SessionInv, StoreInv
  <2>2. ASSUME NEW t \in 1..n
        PROVE  store'[tokens'[t].session] # None /\ tokens'[t].from \in 0..n
    <3>1. CASE t = n
      BY <1>1, <1>2, <1>3, <1>5, <1>6, <3>1
    <3>2. CASE t \in 1..Len(tokens)
      <4>1. tokens[t].session \in Session
        BY <3>2, TokenShape
      <4> QED BY <1>1, <1>3, <1>5, <1>6, <1>8, <3>2, <4>1
    <3> QED BY <1>1, <3>1, <3>2
  <2> QED BY <1>5, <2>1, <2>2 DEF StoreInv
<1>11. \A x \in Session : (x # s /\ store[x] # None) => store[x].token # from
  BY <1>9
<1>12. \A t \in 1..Len(tokens) : from # 0 => tokens[t].from # from
  BY <1>9
<1>13. TokensFormAChain'
  <2>1. ASSUME NEW t \in 1..n, NEW u \in 1..n, t # u, tokens'[t].from # 0
        PROVE  tokens'[t].from # tokens'[u].from
    <3>1. CASE t = n
      BY <1>1, <1>2, <1>5, <1>12, <2>1, <3>1
    <3>2. CASE u = n
      BY <1>1, <1>2, <1>5, <1>12, <2>1, <3>2
    <3>3. CASE t # n /\ u # n
      <4>1. t \in 1..Len(tokens) /\ u \in 1..Len(tokens)
        BY <1>1, <3>3
      <4> QED BY <1>5, <2>1, <4>1 DEF SessionInv, TokensFormAChain
    <3> QED BY <3>1, <3>2, <3>3
  <2>2. ASSUME NEW x \in Session, store'[x] # None
        PROVE  /\ tokens'[store'[x].token].session = x /\ tokens'[store'[x].token].exp = store'[x].exp
               /\ \A t \in 1..n : tokens'[t].from # store'[x].token
    <3>1. CASE x = s
      BY <1>1, <1>2, <1>3, <1>5, <1>6, <1>8, <3>1
    <3>2. CASE x # s
      <4>1. tokens[store[x].token].exp = store[x].exp
        BY <1>6, <2>2, <3>2 DEF SessionInv, TokensFormAChain
      <4> QED BY SMTT(30), <1>1, <1>2, <1>5, <1>6, <1>9, <1>11, <2>2, <3>2, <4>1
    <3> QED BY <3>1, <3>2
  <2> QED BY <1>5, <2>1, <2>2 DEF TokensFormAChain
<1> QED BY <1>5, <1>6, <1>7, <1>10, <1>13

-----------------------------------------------------------------------------
(* One lemma per group of actions.                                         *)

LEMMA AuthenticateKeeps ==
  ASSUME SessionInv, NEW r \in Req, NEW op \in {"act", "close", "rotate"}, NEW p \in Principal,
         NEW t \in 1..Len(tokens), Authenticate(r, op, p, t)
  PROVE  SessionInv'
<1> DEFINE s == tokens[t].session
           late == store[s].status # "active" \/ store[s].token # t
           q == [at |-> "store", op |-> op, principal |-> p, token |-> t, session |-> s, late |-> late]
<1>1. s \in Session /\ tokens[t].principal = p /\ t \in Nat
  BY TokenShape DEF Authenticate
<1>2. late \in BOOLEAN
  OBVIOUS
<1>3. req' = [req EXCEPT ![r] = q] /\ host = "serving"
  BY DEF Authenticate
<1>4. late => store[s].status # "active" \/ store[s].token # t
  OBVIOUS
<1> HIDE DEF late
<1>5. q \in Requests
  BY <1>1, <1>2 DEF Requests, Place
<1>6. /\ hits' \in [Principal -> SUBSET Nat] /\ admitted' \in [Principal -> Seq(Nat)] /\ changes' \in Nat
      /\ UNCHANGED <<now, granted, tokens, store, live, host>>
  BY DEF SessionInv, TypeOK, Authenticate
<1> QED BY <1>1, <1>3, <1>4, <1>5, <1>6, RequestMoves DEF Checked

\* What the steps of a request leave alone.
LEMMA LimiterType ==
  ASSUME SessionInv
  PROVE  /\ UNCHANGED hits => hits' \in [Principal -> SUBSET Nat]
         /\ UNCHANGED admitted => admitted' \in [Principal -> Seq(Nat)]
         /\ UNCHANGED changes => changes' \in Nat
  BY DEF SessionInv, TypeOK

LEMMA LookKeeps ==
  ASSUME SessionInv, NEW r \in Req, RequireActive(r) \/ RequireLive(r) \/ Look(r) \/ Submit(r)
  PROVE  SessionInv'
<1>1. req[r].at \in Served
  BY DEF RequireActive, RequireLive, Look, Submit, At, Served
<1>2. CASE RequireActive(r)
  <2>1. store[req[r].session].status = "active" /\ store[req[r].session].token = req[r].token
          => ~req[r].late
    BY <1>1, ServedRequest
  <2>2. Goto(r, "expire") \/ Refuse(r) \/ (TokenMatches(r) /\ Goto(r, "live"))
    BY <1>2 DEF RequireActive
  <2> QED BY <1>1, <1>2, <2>1, <2>2, ServedRequest, LimiterType, Refused, Goes
          DEF RequireActive, TokenMatches, Rest, Place, Checked
<1>3. CASE RequireLive(r)
  <2>1. ~req[r].late
    BY <1>1, <1>3, ServedRequest DEF RequireLive, At, Checked
  <2> QED BY <1>1, <1>3, <2>1, ServedRequest, LimiterType, Refused, Goes
          DEF RequireLive, Rest, Place
<1>4. CASE Look(r)
  <2>1. ~req[r].late
    BY <1>1, <1>4, ServedRequest DEF Look, At, Checked
  <2> QED BY <1>1, <1>4, <2>1, ServedRequest, LimiterType, Refused, Goes
          DEF Look, Rest, Place
<1>5. CASE Submit(r)
  <2>1. ~req[r].late
    BY <1>1, <1>5, ServedRequest DEF Submit, At, Checked
  <2> QED BY <1>1, <1>5, <2>1, ServedRequest, LimiterType, Finished DEF Submit, Rest
<1> QED BY <1>2, <1>3, <1>4, <1>5

LEMMA ConsumeKeeps ==
  ASSUME SessionInv, NEW r \in Req, Consume(r)
  PROVE  SessionInv'
<1>1. req[r].at = "do" /\ req[r].at \in Served /\ req[r].at \in Checked
  BY DEF Consume, Doing, At, Served, Checked
<1>2. req[r].principal \in Principal /\ ~req[r].late /\ host = "serving"
  BY <1>1, ServedRequest
<1> DEFINE p == req[r].principal
<1>3. Recent(p) \in SUBSET Nat /\ Recent(p) \cup {Len(admitted[p]) + 1} \in SUBSET Nat
  BY <1>2 DEF SessionInv, TypeOK, Recent
<1>4. hits' \in [Principal -> SUBSET Nat] /\ admitted' \in [Principal -> Seq(Nat)]
  <2>1. now \in Nat /\ admitted[p] \in Seq(Nat) /\ hits \in [Principal -> SUBSET Nat]
        /\ admitted \in [Principal -> Seq(Nat)]
    BY <1>2 DEF SessionInv, TypeOK
  <2>2. Append(admitted[p], now) \in Seq(Nat)
    BY <2>1
  <2>3. \/ hits' = [hits EXCEPT ![p] = Recent(p)] /\ admitted' = admitted
        \/ /\ hits' = [hits EXCEPT ![p] = Recent(p) \cup {Len(admitted[p]) + 1}]
           /\ admitted' = [admitted EXCEPT ![p] = Append(admitted[p], now)]
    BY DEF Consume
  <2> QED BY <1>2, <1>3, <2>1, <2>2, <2>3
<1>5. Refuse(r) \/ Goto(r, "submit")
  BY DEF Consume
<1>6. UNCHANGED Rest /\ changes' \in Nat
  BY DEF Consume, Rest, SessionInv, TypeOK
<1> QED BY <1>1, <1>2, <1>4, <1>5, <1>6, Refused, Goes DEF Place

LEMMA FailKeeps ==
  ASSUME SessionInv, NEW r \in Req, Fail(r)
  PROVE  SessionInv'
<1>1. host = "serving"
  BY Serving DEF Fail
<1>2. changes' \in Nat
  BY DEF Fail, SessionInv, TypeOK
<1> QED BY <1>1, <1>2, LimiterType, Refused DEF Fail, Rest

\* A step of a request that ends a session in the store.
LEMMA EndKeeps ==
  ASSUME SessionInv, NEW r \in Req, MarkExpired(r) \/ CloseStore(r)
  PROVE  SessionInv' /\ StoreGrows
<1>1. req[r].at \in Served
  BY DEF MarkExpired, CloseStore, At, Served
<1> DEFINE s == req[r].session
           st == IF At(r, "closing") THEN "closed" ELSE "expired"
<1>2. st \in Status \ {"active"} /\ Transition(s, st) /\ (st = "closed" => s \notin live)
  BY DEF MarkExpired, CloseStore, At, Status, Transition, SessionInv, RequestInv, Sound
<1> HIDE DEF st
<1>3. PICK q \in Requests : req' = [req EXCEPT ![r] = q] /\ q.at \in {"idle", "done"} /\ ~q.late
  <2>1. req[r].at = "closing" => ~req[r].late
    BY <1>1, ServedRequest DEF Checked
  <2>2. req[r].late \in BOOLEAN
    BY <1>1, ServedRequest DEF Requests
  <2>3. CASE MarkExpired(r)
    BY ZenonT(30), <2>3, IdleShape DEF MarkExpired, Refuse
  <2>4. CASE CloseStore(r)
    BY ZenonT(30), <2>1, <2>2, <2>4, IdleShape DEF CloseStore, Finish, At
  <2> QED BY <2>3, <2>4
<1>4. UNCHANGED <<now, denied, granted, tokens, live, host, hits, admitted, changes>>
  BY DEF MarkExpired, CloseStore
<1>5. /\ StoreInv' /\ TokensFormAChain' /\ StoreGrows
      /\ store' \in [Session -> Record \cup {None}]
      /\ \A x \in Session : store[x] = None => store'[x] = None
  BY <1>1, <1>2, <1>4, ServedRequest, SessionEnds
<1>6. TypeOK'
  BY <1>3, <1>4, <1>5 DEF SessionInv, TypeOK, Requests
<1>7. \A p \in Req : req[p].at = "issue" => store'[req[p].session] = None
  BY <1>5 DEF SessionInv, RequestInv, Sound, TypeOK
<1>8. RequestInv'
  BY <1>1, <1>3, <1>4, <1>5, <1>6, <1>7, ServedRequest, RequestEnds
<1> QED BY <1>5, <1>6, <1>8 DEF SessionInv

\* A store that does not change grows.
LEMMA SameGrows == ASSUME SessionInv, UNCHANGED <<tokens, store>> PROVE StoreGrows
  BY DEF StoreGrows, SessionInv, TypeOK

LEMMA OpenKeeps ==
  ASSUME SessionInv, NEW r \in Req, NEW p \in Principal, NEW s \in Session, OpenLive(r, p, s)
  PROVE  SessionInv'
<1> DEFINE q == [Idle EXCEPT !.at = "issue", !.op = "open", !.principal = p, !.session = s]
<1>1. /\ q \in Requests /\ q.at = "issue" /\ q.principal = p /\ q.session = s /\ ~q.late
  BY DEF Idle, Requests, Place
<1>2. /\ req' = [req EXCEPT ![r] = q] /\ live' = live \cup {s}
      /\ store[s] = None /\ s \notin live /\ host = "serving"
      /\ UNCHANGED <<now, granted, tokens, store, host, hits, admitted, changes>>
  BY DEF OpenLive
<1> HIDE DEF q
<1>3. TypeOK'
  BY <1>1, <1>2 DEF SessionInv, TypeOK, Requests
<1>4. StoreInv' /\ TokensFormAChain' /\ StoreGrows
  <2>1. StoreInv'
    BY <1>2 DEF SessionInv, StoreInv
  <2>2. TokensFormAChain'
    BY <1>2 DEF SessionInv, TokensFormAChain
  <2> QED BY <1>2, <2>1, <2>2, SameGrows
<1>5. req \in [Req -> Requests]
  BY DEF SessionInv, TypeOK, Requests
<1>6. ASSUME NEW x \in Req PROVE Sound(x)'
  <2>1. CASE x = r
    BY <1>1, <1>2, <1>5, <2>1 DEF Sound, Served
  <2>2. CASE x # r
    <3>1. req'[x] = req[x]
      BY <1>2, <1>5, <2>2
    <3>2. Sound(x)
      BY DEF SessionInv, RequestInv
    <3>3. req[x].at = "closing" => req[x].session \notin live'
      <4> SUFFICES ASSUME req[x].at = "closing" PROVE req[x].session \notin live'
        OBVIOUS
      <4>1. store[req[x].session] # None
        BY ServedRequest DEF Served
      <4> QED BY <1>2, <3>2, <4>1 DEF Sound
    <3>4. req[x].at = "issue" => store'[req[x].session] = None /\ req[x].session \in live'
      BY <1>2, <3>2 DEF Sound
    <3> QED BY <1>2, <1>3, <1>4, <3>1, <3>3, <3>4, SoundKept
  <2> QED BY <2>1, <2>2
<1>7. ASSUME NEW x \in Req, NEW y \in Req, NEW z \in Session, Opening(x, z)', Opening(y, z)'
      PROVE  x = y
  <2>1. ASSUME NEW u \in Req, u # r, Opening(u, s)' PROVE FALSE
    BY <1>2, <1>5, <2>1 DEF Opening, SessionInv, RequestInv, Sound
  <2>2. CASE x # r /\ y # r
    BY <1>2, <1>5, <1>7, <2>2 DEF SessionInv, RequestInv, Opening
  <2>3. Opening(r, z)' => z = s
    BY <1>1, <1>2, <1>5 DEF Opening
  <2> QED BY <1>7, <2>1, <2>2, <2>3
<1> QED BY <1>3, <1>4, <1>6, <1>7 DEF SessionInv, RequestInv

LEMMA RegisterKeeps ==
  ASSUME SessionInv, NEW r \in Req, Register(r)
  PROVE  SessionInv' /\ StoreGrows
<1> DEFINE s == req[r].session
           p == req[r].principal
<1>1. /\ req[r].at = "issue" /\ s \in Session /\ p \in Principal /\ store[s] = None
      /\ host = "serving" /\ req[r] \in Requests /\ ~req[r].late
  BY DEF Register, At, SessionInv, RequestInv, Sound, TypeOK, Requests, Checked
<1>2. CASE CanIssue(p)
  <2>1. /\ Issue(s, p, 0) /\ Finish(r)
        /\ store' = [store EXCEPT ![s] =
              [status |-> "active", token |-> Len(tokens) + 1, exp |-> now + TTL]]
        /\ UNCHANGED <<now, granted, live, host, hits, admitted, changes>>
    BY <1>2 DEF Register
  <2>2. PICK q \in Requests : req' = [req EXCEPT ![r] = q] /\ q.at = "done" /\ ~q.late
    <3>1. req[r].late \in BOOLEAN
      BY <1>1 DEF Requests
    <3> QED BY ZenonT(30), <1>1, <2>1, <3>1, IdleShape DEF Finish
  <2>3. 0 \in 0..Len(tokens)
    BY DEF SessionInv, TypeOK
  <2>4. /\ StoreInv' /\ TokensFormAChain' /\ StoreGrows
        /\ store' \in [Session -> Record \cup {None}] /\ tokens' \in Seq(Token)
    BY <1>1, <2>1, <2>3, Issued
  <2>5. TypeOK'
    BY <2>1, <2>2, <2>4 DEF SessionInv, TypeOK, Requests
  <2>6. \A x \in Req \ {r} : req[x].at = "issue" => store'[req[x].session] = None
    BY <1>1, <2>1 DEF SessionInv, RequestInv, Sound, Opening, TypeOK
  <2>7. RequestInv'
    BY <1>1, <2>1, <2>2, <2>4, <2>5, <2>6, RequestEnds
  <2> QED BY <2>4, <2>5, <2>7 DEF SessionInv
<1>3. CASE ~CanIssue(p)
  BY <1>1, <1>3, LimiterType, Refused, SameGrows DEF Register, Rest
<1> QED BY <1>2, <1>3

LEMMA RotateKeeps ==
  ASSUME SessionInv, NEW r \in Req, Rotate(r)
  PROVE  SessionInv' /\ StoreGrows
<1> DEFINE s == req[r].session
           p == req[r].principal
           wins == s \in live /\ CanIssue(p) /\ Rotatable(r)
<1>1. req[r].at \in Served /\ req[r].at \in Checked
  BY DEF Rotate, Doing, At, Served, Checked
<1>2. CASE wins
  <2>1. /\ Issue(s, p, req[r].token) /\ Finish(r)
        /\ store' = [store EXCEPT ![s] =
              [status |-> "active", token |-> Len(tokens) + 1, exp |-> now + TTL]]
        /\ UNCHANGED <<now, granted, live, host, hits, admitted, changes>>
    BY <1>2 DEF Rotate
  <2>2. PICK q \in Requests : req' = [req EXCEPT ![r] = q] /\ q.at = "done" /\ ~q.late
    <3>1. req[r].late \in BOOLEAN /\ ~req[r].late
      BY <1>1, ServedRequest DEF Requests
    <3> QED BY ZenonT(30), <2>1, <3>1, IdleShape DEF Finish
  <2>3. store[s] # None /\ store[s].status = "active" /\ store[s].token = req[r].token
    BY <1>1, <1>2, ServedRequest DEF Rotatable
  <2>4. req[r].token \in 0..Len(tokens) /\ s \in Session /\ p \in Principal /\ host = "serving"
    BY <1>1, ServedRequest DEF SessionInv, TypeOK
  <2>5. /\ StoreInv' /\ TokensFormAChain' /\ StoreGrows
        /\ store' \in [Session -> Record \cup {None}] /\ tokens' \in Seq(Token)
    BY <2>1, <2>3, <2>4, Issued
  <2>6. TypeOK'
    BY <2>1, <2>2, <2>5 DEF SessionInv, TypeOK, Requests
  <2>7. \A x \in Req \ {r} : req[x].at = "issue" => store'[req[x].session] = None
    BY <2>1, <2>3 DEF SessionInv, RequestInv, Sound, TypeOK
  <2>8. RequestInv'
    BY <2>1, <2>2, <2>4, <2>5, <2>6, <2>7, RequestEnds
  <2> QED BY <2>5, <2>6, <2>8 DEF SessionInv
<1>3. CASE ~wins
  BY <1>1, <1>3, ServedRequest, LimiterType, Refused, SameGrows DEF Rotate, Rest
<1> QED BY <1>2, <1>3

LEMMA CloseKeeps ==
  ASSUME SessionInv, NEW r \in Req, CloseLive(r)
  PROVE  SessionInv'
<1>1. req[r].at \in Served /\ req[r].at \in Checked
  BY DEF CloseLive, Doing, At, Served, Checked
<1>2. CASE req[r].session \notin live
  BY <1>1, <1>2, ServedRequest, LimiterType, Refused DEF CloseLive, Rest
<1>3. CASE req[r].session \in live
  <2> DEFINE q == [req[r] EXCEPT !.at = "closing"]
             s == req[r].session
  <2>1. /\ q \in Requests /\ q.at = "closing" /\ q.session = s /\ q.principal = req[r].principal
        /\ q.token = req[r].token /\ q.late = req[r].late
    BY <1>1, ServedRequest DEF Requests, Place
  <2>2. /\ req' = [req EXCEPT ![r] = q] /\ live' = live \ {s}
        /\ UNCHANGED <<now, granted, tokens, store, host, hits, admitted, changes>>
    BY <1>3 DEF CloseLive, Goto, SessionInv, TypeOK
  <2> HIDE DEF q
  <2>3. req \in [Req -> Requests] /\ store[s] # None
    BY <1>1, ServedRequest DEF SessionInv, TypeOK, Requests
  <2>4. TypeOK'
    BY <2>1, <2>2 DEF SessionInv, TypeOK, Requests
  <2>5. StoreInv' /\ TokensFormAChain' /\ StoreGrows
    BY <2>2, SameGrows DEF SessionInv, StoreInv, TokensFormAChain
  <2>6. ASSUME NEW x \in Req PROVE Sound(x)'
    <3>1. CASE x = r
      BY <1>1, <2>1, <2>2, <2>3, <3>1, ServedRequest DEF Sound, Checked
    <3>2. CASE x # r
      <4>1. req[x].at = "issue" => store[req[x].session] = None /\ req[x].session \in live
        BY DEF SessionInv, RequestInv, Sound
      <4> QED BY <2>2, <2>3, <2>4, <2>5, <3>2, <4>1, SoundKept
    <3> QED BY <3>1, <3>2
  <2>7. ASSUME NEW x \in Req, NEW y \in Req, NEW z \in Session, Opening(x, z)', Opening(y, z)'
        PROVE  x = y
    BY <2>1, <2>2, <2>3, <2>7 DEF SessionInv, RequestInv, Opening
  <2> QED BY <2>4, <2>5, <2>6, <2>7 DEF SessionInv, RequestInv
<1> QED BY <1>2, <1>3

LEMMA OperatorKeeps ==
  ASSUME SessionInv,
         \/ \E p \in Principal : Deny(p) \/ Grant(p) \/ Withdraw(p)
         \/ \E s \in Session : Revoke(s)
         \/ Tick
  PROVE  SessionInv' /\ StoreGrows
<1>1. /\ UNCHANGED <<tokens, live, host, req, hits, admitted>> /\ changes' \in Nat /\ now' \in Nat
      /\ granted' \subseteq Principal
  BY DEF Deny, Grant, Withdraw, Revoke, Acts, Tick, SessionInv, TypeOK
<1>2. /\ StoreInv' /\ TokensFormAChain' /\ StoreGrows
      /\ store' \in [Session -> Record \cup {None}]
      /\ \A x \in Session : store[x] = None => store'[x] = None
  <2>1. CASE UNCHANGED store
    BY <1>1, <2>1, SameGrows DEF SessionInv, StoreInv, TokensFormAChain, TypeOK
  <2>2. ASSUME NEW s \in Session, Revoke(s)
        PROVE  /\ StoreInv' /\ TokensFormAChain' /\ StoreGrows
               /\ store' \in [Session -> Record \cup {None}]
               /\ \A x \in Session : store[x] = None => store'[x] = None
    BY <1>1, <2>2, SessionEnds DEF Revoke, Status
  <2> QED BY <2>1, <2>2 DEF Deny, Grant, Withdraw, Tick
<1>3. TypeOK'
  BY <1>1, <1>2 DEF SessionInv, TypeOK
<1>4. ASSUME NEW x \in Req PROVE Sound(x)'
  <2>1. req[x].at = "issue" => /\ store[req[x].session] = None /\ req[x].session \in live
                               /\ req[x].session \in Session
    BY DEF SessionInv, RequestInv, Sound, TypeOK
  <2> QED BY <1>1, <1>2, <1>3, <2>1, SoundKept
<1>5. RequestInv'
  BY <1>1, <1>4 DEF SessionInv, RequestInv, Opening
<1> QED BY <1>2, <1>3, <1>5 DEF SessionInv

\* The host goes down, comes up, and rehydrates its sessions.
LEMMA RestartKeeps ==
  ASSUME SessionInv, Crash \/ Start \/ Rehydrate
  PROVE  SessionInv' /\ StoreGrows
<1>1. CASE Crash
  <2>1. /\ req' = [r \in Req |-> Idle] /\ live' = {} /\ granted' = {} /\ host' = "down"
        /\ changes' \in Nat /\ UNCHANGED <<now, tokens, store, hits, admitted>>
    BY <1>1 DEF Crash, SessionInv, TypeOK
  <2>2. TypeOK'
    BY ZenonT(30), <2>1, IdleShape DEF SessionInv, TypeOK, Requests
  <2>3. StoreInv' /\ TokensFormAChain' /\ StoreGrows
    BY <2>1, SameGrows DEF SessionInv, StoreInv, TokensFormAChain
  <2>4. RequestInv'
    BY ZenonT(30), <2>1, IdleShape DEF RequestInv, Sound, Opening, Served
  <2> QED BY <2>2, <2>3, <2>4 DEF SessionInv
<1>2. CASE Start
  <2>1. /\ host' = "starting" /\ host = "down" /\ granted' \subseteq Principal
        /\ UNCHANGED <<now, tokens, store, live, req, hits, admitted, changes>>
    BY <1>2 DEF Start
  <2>2. TypeOK'
    BY <2>1 DEF SessionInv, TypeOK
  <2>3. StoreInv' /\ TokensFormAChain' /\ StoreGrows
    BY <2>1, SameGrows DEF SessionInv, StoreInv, TokensFormAChain
  <2>4. RequestInv'
    BY <2>1 DEF SessionInv, RequestInv, Sound, Opening, Served, Checked
  <2> QED BY <2>2, <2>3, <2>4 DEF SessionInv
<1>3. CASE Rehydrate
  <2>1. /\ host = "starting" /\ host' = "serving" /\ live' \subseteq Active
        /\ UNCHANGED <<now, granted, tokens, req, hits, admitted, changes>>
    BY <1>3 DEF Rehydrate
  <2>2. ASSUME NEW s \in Session
        PROVE  /\ store[s] = None => store'[s] = None
               /\ store[s] # None =>
                    /\ store'[s] \in Record /\ store'[s] # None
                    /\ store'[s].token = store[s].token /\ store'[s].exp = store[s].exp
                    /\ store[s].status # "active" => store'[s].status = store[s].status
                    /\ store'[s].status \in {store[s].status, "expired"}
    <3>1. store[s] # None => store[s] \in Record
      BY DEF SessionInv, TypeOK
    <3>2. CASE s \in Expiring
      <4> DEFINE x == [store[s] EXCEPT !.status = "expired"]
      <4>1. store'[s] = x /\ store[s] # None /\ store[s].status = "active"
        BY <1>3, <3>2 DEF Rehydrate, Expiring
      <4>2. x \in Record /\ x.token = store[s].token /\ x.exp = store[s].exp /\ x.status = "expired"
        BY <3>1, <4>1 DEF Record, Status
      <4> HIDE DEF x
      <4> QED BY <4>1, <4>2, NoneAssumption
    <3>3. CASE s \notin Expiring
      BY <1>3, <3>1, <3>3 DEF Rehydrate
    <3> QED BY <3>2, <3>3
  <2>3. store' \in [Session -> Record \cup {None}]
    <3>1. store' = [s \in Session |-> store'[s]]
      BY <1>3 DEF Rehydrate
    <3>2. \A s \in Session : store'[s] \in Record \cup {None}
      BY <2>2
    <3> QED BY <3>1, <3>2
  <2>4. live' \subseteq Session /\ \A s \in live' : store[s] # None /\ store[s].status = "active"
    BY <2>1 DEF Active
  <2>5. TypeOK'
    BY <2>1, <2>3, <2>4 DEF SessionInv, TypeOK
  <2>6. StoreInv'
    <3>1. \A s \in Session : store'[s] # None =>
            store'[s].token \in 1..Len(tokens) /\ (store'[s].status = "closed" => s \notin live')
      BY <2>2, <2>4 DEF SessionInv, StoreInv
    <3>2. \A t \in 1..Len(tokens) : store'[tokens[t].session] # None /\ tokens[t].from \in 0..Len(tokens)
      BY <2>2, TokenShape DEF SessionInv, StoreInv
    <3> QED BY <2>1, <3>1, <3>2 DEF StoreInv
  <2>7. TokensFormAChain'
    BY <2>1, <2>2 DEF SessionInv, TokensFormAChain
  <2>8. StoreGrows
    BY <2>1, <2>2 DEF StoreGrows, SessionInv, TypeOK
  <2>9. \A x \in Req : req'[x].at = "idle" /\ ~req'[x].late
    BY <2>1 DEF SessionInv, RequestInv, Sound, Checked
  <2>10. RequestInv'
    BY <2>9 DEF RequestInv, Sound, Opening, Served
  <2> QED BY <2>5, <2>6, <2>7, <2>8, <2>10 DEF SessionInv
<1> QED BY <1>1, <1>2, <1>3

-----------------------------------------------------------------------------
\* Every step keeps the invariant, and the store only grows.
LEMMA Step == SessionInv /\ [Next]_vars => SessionInv' /\ StoreGrows
<1> SUFFICES ASSUME SessionInv, [Next]_vars PROVE SessionInv' /\ StoreGrows
  OBVIOUS
<1>1. ASSUME NEW r \in Req, NEW op \in {"act", "close", "rotate"}, NEW p \in Principal,
             NEW t \in 1..Len(tokens), Authenticate(r, op, p, t)
      PROVE  SessionInv' /\ StoreGrows
  BY <1>1, AuthenticateKeeps, SameGrows DEF Authenticate
<1>2. ASSUME NEW r \in Req, NEW p \in Principal, NEW s \in Session, OpenLive(r, p, s)
      PROVE  SessionInv' /\ StoreGrows
  BY ZenonT(30), <1>2, OpenKeeps, SameGrows DEF OpenLive
<1>3. ASSUME NEW r \in Req, RequireActive(r) \/ RequireLive(r) \/ Look(r) \/ Submit(r)
      PROVE  SessionInv' /\ StoreGrows
  BY <1>3, LookKeeps, SameGrows DEF RequireActive, RequireLive, Look, Submit
<1>4. ASSUME NEW r \in Req, Consume(r) \/ Fail(r) \/ CloseLive(r)
      PROVE  SessionInv' /\ StoreGrows
  BY <1>4, ConsumeKeeps, FailKeeps, CloseKeeps, SameGrows DEF Consume, Fail, CloseLive
<1>5. ASSUME NEW r \in Req, MarkExpired(r) \/ CloseStore(r) \/ Register(r) \/ Rotate(r)
      PROVE  SessionInv' /\ StoreGrows
  BY <1>5, EndKeeps, RegisterKeeps, RotateKeeps
<1>6. CASE UNCHANGED vars
  <2>1. SessionInv'
    BY <1>6 DEF vars, SessionInv, TypeOK, StoreInv, RequestInv, Sound, Opening, TokensFormAChain
  <2> QED BY <1>6, <2>1, SameGrows DEF vars
<1> QED BY <1>1, <1>2, <1>3, <1>4, <1>5, <1>6, OperatorKeeps, RestartKeeps DEF Next

\* The types and the invariant of sessions hold in every state.
THEOREM SessionInvariance == Spec => []SessionInv
  BY InitInv, Step, PTL DEF Spec

\* SessionLifecycleStore.rotate(): of several rotations that present one token a
\* single one succeeds, and the record holds the last token of its chain.
THEOREM Chain == Spec => []TokensFormAChain
<1>1. SessionInv => TokensFormAChain
  BY DEF SessionInv
<1> QED BY <1>1, SessionInvariance, PTL

\* require_active(): a request with a token that was replaced, or for a session
\* that had ended, never comes to its work, whatever happens while it runs.
THEOREM LateDoNothing == Spec => []LateRequestsRefused
<1>1. SessionInv => LateRequestsRefused
  BY DEF SessionInv, RequestInv, Sound, LateRequestsRefused, At, Checked
<1> QED BY <1>1, SessionInvariance, PTL

\* No rotation, restart or rehydration revives a session that has ended.
THEOREM EndIsFinal == Spec => EndedStaysEnded
<1>1. SessionInv /\ [Next]_vars =>
        [\A s \in Session : (store[s] # None /\ store[s].status # "active")
            => store'[s].status # "active"]_vars
  BY Step DEF StoreGrows
<1> QED BY <1>1, SessionInvariance, PTL DEF Spec, EndedStaysEnded

\* The steps of a request move no other, and from "submit" only one leads to the
\* runtime.
RequestStep(r) ==
  \/ \E op \in {"act", "close", "rotate"}, p \in Principal, t \in 1..Len(tokens) :
       Authenticate(r, op, p, t)
  \/ \E p \in Principal, s \in Session : OpenLive(r, p, s)
  \/ RequireActive(r) \/ MarkExpired(r) \/ RequireLive(r) \/ Register(r) \/ Consume(r)
  \/ Look(r) \/ Submit(r) \/ CloseLive(r) \/ CloseStore(r) \/ Rotate(r) \/ Fail(r)

LEMMA OneMoves ==
  ASSUME NEW q \in Req, RequestStep(q), req \in [Req -> Requests]
  PROVE  \A x \in Req \ {q} : req'[x] = req[x]
<1>1. CASE \E op \in {"act", "close", "rotate"}, p \in Principal, t \in 1..Len(tokens) :
            Authenticate(q, op, p, t)
  BY <1>1 DEF Authenticate
<1>2. CASE \E p \in Principal, s \in Session : OpenLive(q, p, s)
  BY <1>2 DEF OpenLive
<1>3. ASSUME \/ Refuse(q) \/ Finish(q) \/ \E at \in Place : Goto(q, at)
      PROVE  \A x \in Req \ {q} : req'[x] = req[x]
  BY <1>3 DEF Refuse, Finish, Goto
<1>4. CASE RequireActive(q) \/ MarkExpired(q) \/ RequireLive(q) \/ Register(q)
  BY <1>3, <1>4 DEF RequireActive, MarkExpired, RequireLive, Register, Place
<1>5. CASE Consume(q) \/ Look(q) \/ Submit(q) \/ CloseLive(q) \/ CloseStore(q)
  BY <1>3, <1>5 DEF Consume, Look, Submit, CloseLive, CloseStore, Place
<1>6. CASE Rotate(q) \/ Fail(q)
  BY <1>3, <1>6 DEF Rotate, Fail
<1> QED BY <1>1, <1>2, <1>4, <1>5, <1>6 DEF RequestStep

LEMMA RunsByLook ==
  ASSUME NEW r \in Req, RequestStep(r), req \in [Req -> Requests],
         req[r].at = "submit", req'[r].at = "run"
  PROVE  Look(r)
<1>1. ~Refuse(r)
  BY ZenonT(30), IdleShape DEF Refuse
<1> QED BY <1>1 DEF RequestStep, Authenticate, OpenLive, RequireActive, MarkExpired, RequireLive,
                  Register, Consume, Submit, CloseLive, CloseStore, Rotate, Fail, At, Doing

\* close_world_session() leaves the memory first: no request gets the runtime of a
\* session that is closed, not even one that passed the store's check before.  One
\* that had the runtime before the close still submits, see NothingAfterClose.
THEOREM Quiet == Spec => ClosedIsQuiet
<1>1. ASSUME SessionInv, Next, NEW r \in Req, At(r, "submit"), req'[r].at = "run"
      PROVE  store[req[r].session].status # "closed"
  <2>1. /\ req[r].at = "submit" /\ req[r].session \in Session /\ store[req[r].session] # None
    BY <1>1, ServedRequest DEF At, Served
  <2>2. req \in [Req -> Requests]
    BY <1>1 DEF SessionInv, TypeOK, Requests
  <2>3. Look(r)
    <3>1. req'[r] # req[r] /\ req'[r].at = "run"
      BY <1>1, <2>1
    <3>2. PICK q \in Req : RequestStep(q)
      <4>1. ~Crash
        BY ZenonT(30), <1>1, IdleShape DEF Crash
      <4> QED BY <1>1, <3>1, <4>1
              DEF Next, RequestStep, Deny, Grant, Withdraw, Revoke, Acts, Tick, Start, Rehydrate
    <3>3. q = r
      BY <2>2, <3>1, <3>2, OneMoves
    <3> QED BY <2>1, <2>2, <3>1, <3>2, <3>3, RunsByLook
  <2>4. req[r].session \in live
    BY ZenonT(30), <2>1, <2>2, <2>3, <1>1, IdleShape DEF Look, Refuse
  <2> QED BY <1>1, <2>1, <2>4 DEF SessionInv, StoreInv
<1>2. SessionInv /\ [Next]_vars =>
        [\A r \in Req : (At(r, "submit") /\ req'[r].at = "run")
            => store[req[r].session].status # "closed"]_vars
  BY <1>1
<1> QED BY <1>2, SessionInvariance, PTL DEF Spec, ClosedIsQuiet

-----------------------------------------------------------------------------
\* What the limiter is about, of one user.
RateOf(p) ==
  /\ hits[p] \subseteq 1..Len(admitted[p])
  /\ \A n \in 1..Len(admitted[p]) :
       admitted[p][n] <= now /\ (n \notin hits[p] => admitted[p][n] < now - Window + 1)

\* The admissions of a window.
InWindow(p, t) == {i \in DOMAIN admitted[p] : admitted[p][i] \in t..(t + Window - 1)}

RateBound == \A p \in Principal : \A t \in 0..now : Cardinality(InWindow(p, t)) <= Limit

LEMMA Intervals ==
  ASSUME NEW n \in Nat, NEW S \in SUBSET (1..n)
  PROVE  IsFiniteSet(S) /\ Cardinality(S) \in Nat
<1>1. 1 \in Int /\ n \in Int
  OBVIOUS
<1>2. IsFiniteSet(1..n)
  BY <1>1, FS_Interval
<1>3. IsFiniteSet(S)
  BY <1>2, FS_Subset
<1> QED BY <1>3, FS_CardinalityType

\* The limiter's types.
LEMMA LimiterShape ==
  ASSUME TypeOK, NEW p \in Principal
  PROVE  /\ admitted[p] \in Seq(Nat) /\ Len(admitted[p]) \in Nat /\ now \in Nat
         /\ DOMAIN admitted[p] = 1..Len(admitted[p])
         /\ \A n \in 1..Len(admitted[p]) : admitted[p][n] \in Nat
         /\ Window \in Nat \ {0} /\ Limit \in Nat \ {0}
<1>1. admitted[p] \in Seq(Nat)
  BY DEF TypeOK
<1> QED BY <1>1, SessionAssumption DEF TypeOK

\* An admission is the last of every window that reaches to it, and all others
\* of that window are still counted.
LEMMA WindowCounted ==
  ASSUME TypeOK, RateInv, NEW p \in Principal, NEW t \in Nat, t + Window - 1 >= now
  PROVE  /\ InWindow(p, t) \subseteq Recent(p)
         /\ IsFiniteSet(Recent(p)) /\ Cardinality(Recent(p)) \in Nat
         /\ Cardinality(InWindow(p, t)) \in Nat
         /\ Cardinality(InWindow(p, t)) <= Cardinality(Recent(p))
<1>1. RateOf(p)
  BY DEF RateInv, RateOf
<1>2. InWindow(p, t) \subseteq Recent(p)
  <2> SUFFICES ASSUME NEW i \in InWindow(p, t) PROVE i \in Recent(p)
    OBVIOUS
  <2>1. i \in 1..Len(admitted[p]) /\ admitted[p][i] \in Nat /\ admitted[p][i] >= t
    BY SMTT(30), LimiterShape DEF InWindow
  <2>2. admitted[p][i] >= now - Window + 1
    BY SMTT(30), <2>1, LimiterShape
  <2> QED BY SMTT(30), <1>1, <2>1, <2>2, LimiterShape DEF Recent, RateOf
<1>3. Recent(p) \subseteq 1..Len(admitted[p])
  BY <1>1 DEF Recent, RateOf
<1>4. IsFiniteSet(Recent(p)) /\ Cardinality(Recent(p)) \in Nat
  BY <1>3, LimiterShape, Intervals
<1>5. IsFiniteSet(InWindow(p, t))
  BY <1>2, <1>4, FS_Subset
<1>6. Cardinality(InWindow(p, t)) <= Cardinality(Recent(p))
  BY <1>2, <1>4, FS_Subset
<1> QED BY <1>2, <1>4, <1>5, <1>6, FS_CardinalityType

LEMMA ConsumeKeepsRate ==
  ASSUME TypeOK, RateInv, RateBound, NEW r \in Req, NEW p \in Principal,
         req[r].principal = p, Consume(r)
  PROVE  RateInv' /\ RateBound'
<1>1. RateOf(p) /\ now' = now
  BY DEF RateInv, RateOf, Consume
<1>2. /\ admitted[p] \in Seq(Nat) /\ Len(admitted[p]) \in Nat /\ now \in Nat
      /\ DOMAIN admitted[p] = 1..Len(admitted[p])
      /\ \A n \in 1..Len(admitted[p]) : admitted[p][n] \in Nat
      /\ Window \in Nat \ {0} /\ Limit \in Nat \ {0}
  BY <1>1, LimiterShape
<1>3. hits \in [Principal -> SUBSET Nat] /\ admitted \in [Principal -> Seq(Nat)]
  BY DEF TypeOK
<1>4. ASSUME NEW q \in Principal, q # p
      PROVE  RateOf(q)' /\ \A t \in 0..now : Cardinality(InWindow(q, t)') <= Limit
  <2>1. RateOf(q) /\ hits'[q] = hits[q] /\ admitted'[q] = admitted[q]
    BY <1>1, <1>3, <1>4 DEF RateInv, RateOf, Consume
  <2>2. \A t \in 0..now : InWindow(q, t)' = InWindow(q, t)
    BY <2>1 DEF InWindow
  <2> QED BY <1>1, <2>1, <2>2 DEF RateOf, RateBound
<1>5. CASE Cardinality(Recent(p)) + 1 > Limit
  <2>1. admitted' = admitted /\ hits'[p] = Recent(p)
    BY <1>1, <1>3, <1>5 DEF Consume
  <2>2. RateOf(p)'
    BY <1>1, <1>2, <2>1 DEF RateOf, Recent
  <2>3. RateBound'
    BY <1>1, <2>1 DEF RateBound, InWindow
  <2> QED BY <1>4, <2>2, <2>3 DEF RateInv, RateOf
<1>6. CASE ~(Cardinality(Recent(p)) + 1 > Limit)
  <2> DEFINE n == Len(admitted[p]) + 1
  <2>1. hits'[p] = Recent(p) \cup {n} /\ admitted'[p] = Append(admitted[p], now)
    BY <1>1, <1>3, <1>6 DEF Consume
  <2>2. /\ Len(admitted'[p]) = n /\ admitted'[p][n] = now /\ DOMAIN admitted'[p] = 1..n
        /\ \A i \in 1..Len(admitted[p]) : admitted'[p][i] = admitted[p][i]
    BY <1>2, <2>1
  <2>3. RateOf(p)'
    <3>1. hits'[p] \subseteq 1..n
      BY <1>1, <1>2, <2>1 DEF RateOf, Recent
    <3>2. ASSUME NEW i \in 1..n
          PROVE  /\ admitted'[p][i] <= now
                 /\ i \notin hits'[p] => admitted'[p][i] < now - Window + 1
      <4>1. CASE i = n
        BY <1>2, <2>1, <2>2, <4>1
      <4>2. CASE i \in 1..Len(admitted[p])
        BY <1>1, <1>2, <2>1, <2>2, <4>2 DEF RateOf, Recent
      <4> QED BY <1>2, <4>1, <4>2
    <3> QED BY <1>1, <2>2, <3>1, <3>2 DEF RateOf
  <2>4. ASSUME NEW t \in 0..now PROVE Cardinality(InWindow(p, t)') <= Limit
    <3>1. /\ InWindow(p, t)' = {i \in 1..n : admitted'[p][i] \in t..(t + Window - 1)}
          /\ InWindow(p, t) = {i \in 1..(n - 1) : admitted[p][i] \in t..(t + Window - 1)}
      BY <1>2, <2>2 DEF InWindow
    <3>2. CASE t + Window - 1 >= now
      <4>1. InWindow(p, t)' = InWindow(p, t) \cup {n}
        <5>1. now \in t..(t + Window - 1)
          BY <1>2, <3>2
        <5>2. \A i \in 1..n : i \in InWindow(p, t)' <=> i \in InWindow(p, t) \cup {n}
          BY SMTT(30), <1>2, <2>2, <3>1, <5>1
        <5>3. n \in 1..n /\ InWindow(p, t) \subseteq 1..n /\ InWindow(p, t)' \subseteq 1..n
          BY <1>2, <3>1
        <5> QED BY <5>2, <5>3
      <4>2. /\ InWindow(p, t) \subseteq Recent(p) /\ IsFiniteSet(Recent(p))
            /\ Cardinality(InWindow(p, t)) \in Nat /\ Cardinality(Recent(p)) \in Nat
            /\ Cardinality(InWindow(p, t)) <= Cardinality(Recent(p))
        BY <1>1, <3>2, WindowCounted
      <4>3. IsFiniteSet(InWindow(p, t))
        BY <4>2, FS_Subset
      <4>4. n \notin InWindow(p, t)
        BY <1>2 DEF InWindow
      <4>5. Cardinality(InWindow(p, t) \cup {n}) = Cardinality(InWindow(p, t)) + 1
        BY <4>3, <4>4, FS_AddElement
      <4> QED BY <1>2, <1>6, <4>1, <4>2, <4>5
    <3>3. CASE ~(t + Window - 1 >= now)
      <4>1. now \notin t..(t + Window - 1)
        BY <1>2, <3>3
      <4>2. \A i \in 1..n : i \in InWindow(p, t)' <=> i \in InWindow(p, t)
        BY <1>2, <2>2, <3>1, <4>1
      <4>3. InWindow(p, t)' = InWindow(p, t)
        BY <1>2, <3>1, <4>2
      <4> QED BY <1>1, <4>3 DEF RateBound
    <3> QED BY <3>2, <3>3
  <2> QED BY <1>1, <1>4, <2>3, <2>4 DEF RateInv, RateOf, RateBound
<1> QED BY <1>5, <1>6

\* The clock opens a window in which nothing was admitted yet.
LEMMA TickKeepsRate ==
  ASSUME TypeOK, RateInv, RateBound, Tick PROVE RateInv' /\ RateBound'
<1>1. hits' = hits /\ admitted' = admitted /\ now' = now + 1 /\ now \in Nat
  BY DEF Tick, TypeOK
<1>2. ASSUME NEW p \in Principal PROVE RateOf(p)'
  <2>1. RateOf(p)
    BY DEF RateInv, RateOf
  <2> QED BY SMTT(30), <1>1, <2>1, LimiterShape DEF RateOf
<1>3. ASSUME NEW p \in Principal, NEW t \in 0..now' PROVE Cardinality(InWindow(p, t)') <= Limit
  <2>1. InWindow(p, t)' = InWindow(p, t)
    BY <1>1 DEF InWindow
  <2>2. CASE t \in 0..now
    BY <2>1, <2>2 DEF RateBound
  <2>3. CASE t = now + 1
    <3>1. InWindow(p, t) = {}
      <4> SUFFICES ASSUME NEW i \in InWindow(p, t) PROVE FALSE
        OBVIOUS
      <4>1. i \in 1..Len(admitted[p]) /\ admitted[p][i] \in Nat /\ admitted[p][i] >= now + 1
        BY SMTT(30), <2>3, LimiterShape DEF InWindow
      <4>2. admitted[p][i] <= now
        BY <4>1 DEF RateInv
      <4> QED BY <1>1, <4>1, <4>2
    <3>2. Cardinality(InWindow(p, t)) = 0
      BY <3>1, FS_EmptySet
    <3> QED BY <2>1, <3>2, LimiterShape
  <2> QED BY <1>1, <2>2, <2>3
<1> QED BY <1>2, <1>3 DEF RateInv, RateOf, RateBound

\* Only an admission and the clock touch the limiter.
LEMMA RateStep ==
  SessionInv /\ RateInv /\ RateBound /\ [Next]_vars => RateInv' /\ RateBound'
<1> SUFFICES ASSUME SessionInv, RateInv, RateBound, [Next]_vars PROVE RateInv' /\ RateBound'
  OBVIOUS
<1>1. ASSUME NEW r \in Req, Consume(r) PROVE RateInv' /\ RateBound'
  <2>1. req[r].principal \in Principal
    BY <1>1, ServedRequest DEF Consume, Doing, At, Served
  <2> QED BY <1>1, <2>1, ConsumeKeepsRate DEF SessionInv
<1>2. CASE Tick
  BY <1>2, TickKeepsRate DEF SessionInv
<1>3. CASE UNCHANGED <<now, hits, admitted>>
  BY <1>3 DEF RateInv, RateBound, InWindow
<1> QED BY ZenonT(30), <1>1, <1>2, <1>3
        DEF Next, vars, Authenticate, OpenLive, RequireActive, MarkExpired, RequireLive, Register,
            Look, Submit, CloseLive, CloseStore, Rotate, Fail, Deny, Grant, Withdraw, Revoke, Acts,
            Crash, Start, Rehydrate

\* SlidingWindowRateLimiter.consume(): however requests, crashes and the clock
\* interleave, no window of its length admits more than Limit actions of a user.
THEOREM Rate == Spec => []RateHolds
<1>1. Init => RateInv /\ RateBound
  <2> SUFFICES ASSUME Init PROVE RateInv /\ RateBound
    OBVIOUS
  <2>1. \A p \in Principal : hits[p] = {} /\ admitted[p] = <<>> /\ DOMAIN admitted[p] = {}
    BY DEF Init
  <2>2. \A p \in Principal : \A t \in 0..now : InWindow(p, t) = {}
    BY <2>1 DEF InWindow
  <2>3. RateBound
    BY <2>2, FS_EmptySet, SessionAssumption DEF RateBound
  <2> QED BY <2>1, <2>3 DEF RateInv
<1>2. RateBound => RateHolds
  BY DEF RateBound, InWindow, RateHolds
<1> QED BY <1>1, <1>2, RateStep, SessionInvariance, PTL DEF Spec

=============================================================================
