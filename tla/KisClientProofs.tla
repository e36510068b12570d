-------------------------- MODULE KisClientProofs --------------------------
(***************************************************************************)
(* Facts about KisClient for every set of calls: whatever the order of     *)
(* their steps, of refreshes, revocations and lost answers, place_order    *)
(* tells the truth and a retry is made with a new token.  A specification  *)
(* that contains these steps (DataCollection) keeps both properties.       *)
(*                                                                         *)
(* The token in Redis is written by several calls, so the second property  *)
(* rests on a fact about all of them at once: a token that was issued and  *)
(* not stored yet is known to its issuer only.                             *)
(***************************************************************************)
EXTENDS KisClient, FiniteSetTheorems, TLAPS

Storing == {"store", "restore"}
Trying  == {"acquire", "token", "issue", "reissue", "send"} \union Storing
Pcs     == {"idle", "absent", "rejected"} \union Trying \union Ended

Tokens == 1 .. issued
Calls == [pc : Pcs, token : Tokens \union {None}, retry : BOOLEAN,
          sent : SUBSET Tokens, page : Nat]

ClientTypeOK ==
    /\ issued \in Nat
    /\ token \in Tokens \union {None}
    /\ revoked \subseteq Tokens
    /\ request \in [Tasks -> Calls]
    /\ reached \in [Orders -> Nat]
    /\ \A t \in Tasks : request[t].pc \in Storing \union {"send"} => request[t].token \in Tokens

\* A token on its way to Redis is not there yet, and nobody else has it.
NewTokensInv ==
    \A t \in Tasks : request[t].pc \in Storing =>
        /\ token # request[t].token
        /\ \A u \in Tasks : /\ request[t].token \notin request[u].sent
                            /\ u # t => request[u].token # request[t].token

\* The tokens a call was rejected with, and that its second attempt does not
\* use one of them.
RejectionInv ==
    \A t \in Tasks :
        LET c == request[t]
        IN
        /\ c.pc \in Trying \union {"idle", "absent"} /\ ~ c.retry => c.sent = {}
        /\ c.pc \in Trying /\ c.retry =>
              /\ \E a \in revoked : c.sent = {a}
              /\ token \notin c.sent
              /\ c.pc \in Storing \union {"send"} => c.token \notin c.sent
        /\ c.pc \in {"idle", "absent"} => ~ c.retry
        /\ c.pc = "rejected" /\ ~ c.retry => \E a \in revoked : c.sent = {a}
        /\ (c.pc = "rejected" /\ c.retry) \/ c.pc = "token_expired" =>
              \E a, b \in revoked : a # b /\ c.sent = {a, b}

\* What the exchange has of an order, by where its call stands.
ReachedInv ==
    \A t \in Orders :
        /\ reached[t] <= 1
        /\ request[t].pc = "ok" => reached[t] = 1
        /\ request[t].pc \notin {"ok", "lost"} => reached[t] = 0

ClientInv == ClientTypeOK /\ NewTokensInv /\ RejectionInv /\ ReachedInv

---------------------------------------------------------------------------
\* A client starts without calls under way.
LEMMA ClientInitInv ==
    ASSUME NEW calls, ClientInit(calls)
    PROVE  ClientInv
<1> USE DEF ClientInit, Idle, Pcs, Trying, Storing, Ended, Calls, Tokens, Tasks
<1>1. ClientTypeOK
    <2>1. Idle \in Calls /\ [Idle EXCEPT !.pc = "absent"] \in Calls
        OBVIOUS
    <2>2. request \in [Tasks -> Calls]
        BY <2>1
    <2>3. \A t \in Tasks : request[t].pc \in {"idle", "absent"}
        OBVIOUS
    <2>4. issued \in Nat /\ token \in Tokens \union {None} /\ revoked \subseteq Tokens
        OBVIOUS
    <2>5. reached \in [Orders -> Nat]
        OBVIOUS
    <2>6. \A t \in Tasks : request[t].pc \notin Storing \union {"send"}
        BY <2>3
    <2> HIDE DEF ClientInit, Calls, Tokens, Storing, Idle
    <2> QED
        BY <2>2, <2>4, <2>5, <2>6 DEF ClientTypeOK
<1>2. NewTokensInv /\ RejectionInv /\ ReachedInv
    BY DEF NewTokensInv, RejectionInv, ReachedInv
<1> QED
    BY <1>1, <1>2 DEF ClientInv

\* Nothing of the client changes.
LEMMA ClientStutter ==
    ASSUME ClientInv, UNCHANGED <<token, issued, revoked, request, reached>>
    PROVE  ClientInv'
BY DEF ClientInv, ClientTypeOK, NewTokensInv, RejectionInv, ReachedInv, Calls, Tokens

\* Issuing a token only adds to the tokens there are.
LEMMA TokensGrow ==
    ASSUME ClientTypeOK, issued' \in {issued, issued + 1}
    PROVE  /\ issued' \in Nat /\ Tokens \subseteq Tokens' /\ Calls \subseteq Calls'
           /\ issued' = issued + 1 => issued' \in Tokens' /\ issued' \notin Tokens
<1>1. issued' \in Nat /\ Tokens \subseteq Tokens'
    BY DEF ClientTypeOK, Tokens
<1>2. Calls \subseteq Calls'
    BY <1>1 DEF Calls
<1>3. issued' = issued + 1 => issued' \in Tokens' /\ issued' \notin Tokens
    BY DEF ClientTypeOK, Tokens
<1> QED
    BY <1>1, <1>2, <1>3

\* The steps of connect, disconnect, revocation and expiry.
LEMMA SessionSteps ==
    ASSUME ClientInv, Connect \/ Disconnect \/ Revoke \/ ExpireToken
    PROVE  ClientInv'
<1> USE ClientAssumption DEF ClientInv
<1>1. CASE Connect
    <2>1. issued' \in {issued, issued + 1} /\ UNCHANGED <<revoked, request, reached>>
        BY <1>1 DEF Connect
    <2>2. ClientTypeOK'
        BY <1>1, <2>1, TokensGrow DEF Connect, ClientTypeOK
    <2>3. token' = token \/ (issued' = issued + 1 /\ token' = issued')
        BY <1>1 DEF Connect
    <2>4. issued + 1 \notin Tokens
        BY DEF ClientTypeOK, Tokens
    <2>5. NewTokensInv'
        BY <2>1, <2>3, <2>4 DEF NewTokensInv, ClientTypeOK, Calls, Storing
    <2>6. RejectionInv' /\ ReachedInv'
        BY <2>1, <2>3, <2>4 DEF RejectionInv, ReachedInv, ClientTypeOK, Calls
    <2> QED
        BY <2>2, <2>5, <2>6
<1>2. CASE Disconnect
    BY <1>2, ClientStutter DEF Disconnect
<1>3. CASE Revoke
    <2>1. ClientTypeOK'
        BY <1>3 DEF Revoke, ClientTypeOK, Calls, Tokens
    <2>2. NewTokensInv' /\ ReachedInv'
        BY <1>3 DEF Revoke, NewTokensInv, ReachedInv
    <2>3. RejectionInv'
        BY <1>3 DEF Revoke, RejectionInv
    <2> QED
        BY <2>1, <2>2, <2>3
<1>4. CASE ExpireToken
    <2>1. ClientTypeOK'
        BY <1>4 DEF ExpireToken, ClientTypeOK, Calls, Tokens
    <2>2. NewTokensInv' /\ ReachedInv'
        BY <1>4 DEF ExpireToken, NewTokensInv, ReachedInv, ClientTypeOK, Tokens
    <2>3. RejectionInv'
        BY <1>4 DEF ExpireToken, RejectionInv, ClientTypeOK, Calls, Tokens, Trying, Storing
    <2> QED
        BY <2>1, <2>2, <2>3
<1> QED
    BY <1>1, <1>2, <1>3, <1>4

\* The steps inside _request.
LEMMA RequestSteps ==
    ASSUME ClientInv, NEW t \in Tasks, RequestStep(t)
    PROVE  ClientInv'
<1> USE ClientAssumption DEF ClientInv, Pcs, Trying, Storing, Ended
<1>1. CASE Acquire(t)
    <2>0. issued' \in {issued, issued + 1} /\ revoked' = revoked
        BY <1>1 DEF Acquire, Goto, Raise, Release, session
    <2>1. ClientTypeOK'
        BY <1>1, <2>0, TokensGrow DEF Acquire, Goto, Raise, Release, session, ClientTypeOK, Calls
    <2>2. NewTokensInv'
        BY <1>1 DEF Acquire, Goto, Raise, Release, session, NewTokensInv, ClientTypeOK, Calls,
                    Tokens
    <2>3. RejectionInv'
        BY <1>1 DEF Acquire, Goto, Raise, Release, session, RejectionInv, NewTokensInv,
                    ClientTypeOK, Calls, Tokens
    <2>4. ReachedInv'
        BY <1>1 DEF Acquire, Goto, Raise, Release, session, ReachedInv, ClientTypeOK, Calls, Tasks
    <2> QED
        BY <2>1, <2>2, <2>3, <2>4
<1>2. CASE GetToken(t)
    <2>0. issued' \in {issued, issued + 1} /\ revoked' = revoked
        BY <1>2 DEF GetToken, Goto, Raise, Release, session
    <2>1. ClientTypeOK'
        BY <1>2, <2>0, TokensGrow DEF GetToken, Goto, Raise, Release, session, ClientTypeOK, Calls
    <2>2. NewTokensInv'
        <3>1. /\ token' = token
              /\ \A u \in Tasks : u # t => request'[u] = request[u]
              /\ request'[t].sent = request[t].sent /\ request'[t].pc \notin Storing
              /\ request'[t].token \in {request[t].token, token}
            BY <1>2 DEF GetToken, Goto, Raise, Release, session, ClientTypeOK, Calls
        <3>2. NewTokensInv
            OBVIOUS
        <3> HIDE DEF ClientInv, Storing
        <3> QED
            BY <3>1, <3>2 DEF NewTokensInv
    <2>3. RejectionInv'
        <3>1. /\ token' = token /\ revoked' = revoked
              /\ \A u \in Tasks : u # t => request'[u] = request[u]
              /\ request'[t].sent = request[t].sent /\ request'[t].retry = request[t].retry
              /\ request'[t].pc \in {"raised", "send", "issue"} /\ request[t].pc = "token"
              /\ request'[t].pc = "send" => request'[t].token = token
            BY <1>2 DEF GetToken, Goto, Raise, Release, session, ClientTypeOK, Calls
        <3>2. RejectionInv
            OBVIOUS
        <3> HIDE DEF ClientInv
        <3> QED
            BY <3>1, <3>2 DEF RejectionInv
    <2>4. ReachedInv'
        BY <1>2, ClientAssumption DEF GetToken, Goto, Raise, Release, session, ReachedInv,
                                      ClientTypeOK, Calls, Tasks
    <2> QED
        BY <2>1, <2>2, <2>3, <2>4
<1>3. CASE IssueToken(t)
    <2>0. issued' \in {issued, issued + 1} /\ revoked' = revoked
        BY <1>3 DEF IssueToken, Goto, Raise, Release, session
    <2>1. ClientTypeOK'
        BY <1>3, <2>0, TokensGrow DEF IssueToken, Goto, Raise, Release, session, ClientTypeOK, Calls
    <2>2. NewTokensInv'
        <3>1. /\ token' = token
              /\ \A u \in Tasks : u # t => request'[u] = request[u]
              /\ request'[t].sent = request[t].sent
              /\ \/ request'[t].token = issued + 1
                 \/ request'[t].token = request[t].token /\ request'[t].pc \notin Storing
            BY <1>3 DEF IssueToken, Goto, Raise, Release, session, ClientTypeOK, Calls
        <3>2. NewTokensInv /\ request \in [Tasks -> Calls] /\ issued + 1 # token
            BY DEF ClientTypeOK, Tokens
        <3>3. \A u \in Tasks : issued + 1 \notin request[u].sent /\ request[u].token # issued + 1
            BY <3>2 DEF ClientTypeOK, Calls, Tokens
        <3> HIDE DEF ClientInv, Storing
        <3> QED
            BY <3>1, <3>2, <3>3 DEF NewTokensInv
    <2>3. RejectionInv'
        <3>1. /\ token' = token /\ revoked' = revoked
              /\ \A u \in Tasks : u # t => request'[u] = request[u]
              /\ request'[t].sent = request[t].sent /\ request'[t].retry = request[t].retry
              /\ request'[t].pc \in {"raised"} \union Storing
              /\ request[t].pc \in {"issue", "reissue"}
              /\ request'[t].pc \in Storing => request'[t].token = issued + 1
            BY <1>3 DEF IssueToken, Goto, Raise, Release, session, ClientTypeOK, Calls
        <3>2. RejectionInv /\ issued + 1 \notin request[t].sent
            BY DEF ClientTypeOK, Calls, Tokens
        <3> HIDE DEF ClientInv
        <3> QED
            BY <3>1, <3>2 DEF RejectionInv
    <2>4. ReachedInv'
        BY <1>3, ClientAssumption DEF IssueToken, Goto, Raise, Release, session, ReachedInv,
                                      ClientTypeOK, Calls, Tasks
    <2> QED
        BY <2>1, <2>2, <2>3, <2>4
<1>4. CASE StoreToken(t)
    <2>0. issued' \in {issued, issued + 1} /\ revoked' = revoked
        BY <1>4 DEF StoreToken, Goto, Raise, Release, session
    <2>1. ClientTypeOK'
        BY <1>4, <2>0, TokensGrow DEF StoreToken, Goto, Raise, Release, session, ClientTypeOK, Calls
    <2>2. /\ token' \in {token, request[t].token} /\ revoked' = revoked
          /\ \A u \in Tasks : u # t => request'[u] = request[u]
          /\ request'[t].sent = request[t].sent /\ request'[t].retry = request[t].retry
          /\ request'[t].token = request[t].token /\ request[t].pc \in Storing
          /\ request'[t].pc \in {"raised", "send", "acquire"}
        BY <1>4 DEF StoreToken, Goto, Raise, Release, ClientTypeOK, Calls
    <2>3. NewTokensInv'
        <3>1. NewTokensInv /\ request'[t].pc \notin Storing
            BY <2>2
        <3> HIDE DEF ClientInv, Storing
        <3> QED
            BY <2>2, <3>1 DEF NewTokensInv
    <2>4. RejectionInv'
        <3>1. RejectionInv /\ \A u \in Tasks : request[t].token \notin request[u].sent
            BY <2>2 DEF NewTokensInv
        <3> HIDE DEF ClientInv
        <3> QED
            BY <2>2, <3>1 DEF RejectionInv
    <2>5. ReachedInv'
        BY <1>4, ClientAssumption DEF StoreToken, Goto, Raise, Release, session, ReachedInv,
                                      ClientTypeOK, Calls, Tasks
    <2> QED
        BY <2>1, <2>3, <2>4, <2>5
<1>5. CASE HandleRejection(t)
    <2>0. issued' \in {issued, issued + 1} /\ revoked' = revoked
        BY <1>5 DEF HandleRejection, RefreshToken, Goto, Raise, Release, session
    <2>1. ClientTypeOK'
        BY <1>5, <2>0, TokensGrow DEF HandleRejection, RefreshToken, Goto, Raise, Release,
                                      session, ClientTypeOK, Calls
    <2>2. /\ token' \in {token, None} /\ revoked' = revoked
          /\ \A u \in Tasks : u # t => request'[u] = request[u]
          /\ request'[t].sent = request[t].sent /\ request'[t].token = request[t].token
          /\ request[t].pc = "rejected"
          /\ \/ request'[t].pc = "raised"
             \/ request'[t].pc = "token_expired" /\ request[t].retry
             \/ /\ request'[t].pc = "reissue" /\ ~ request[t].retry /\ request'[t].retry
                /\ token' = None
        BY <1>5 DEF HandleRejection, RefreshToken, Goto, Raise, Release, ClientTypeOK, Calls
    <2>3. /\ None \notin Tokens
          /\ \A u \in Tasks : request[u].sent \subseteq Tokens
                              /\ (request[u].pc \in Storing => request[u].token \in Tokens)
        BY DEF ClientTypeOK, Calls, Tokens
    <2>4. NewTokensInv'
        <3>1. NewTokensInv /\ request'[t].pc \notin Storing
            BY <2>2
        <3> HIDE DEF ClientInv, Storing
        <3> QED
            BY <2>2, <2>3, <3>1 DEF NewTokensInv
    <2>5. RejectionInv'
        <3>1. RejectionInv
            OBVIOUS
        <3> HIDE DEF ClientInv
        <3>2. token' \in {token, None} /\ \A u \in Tasks : None \notin request[u].sent
            BY <2>2, <2>3
        <3> QED
            BY <2>2, <3>1, <3>2 DEF RejectionInv
    <2>6. ReachedInv'
        BY <1>5, ClientAssumption DEF HandleRejection, RefreshToken, Goto, Raise, Release,
                                      session, ReachedInv, ClientTypeOK, Calls, Tasks
    <2> QED
        BY <2>1, <2>4, <2>5, <2>6
<1>6. CASE Send(t)
    <2>0. issued' \in {issued, issued + 1} /\ revoked' = revoked
        BY <1>6 DEF Send, Take, AnswerToLoss, Goto, session
    <2>1. ClientTypeOK'
        BY <1>6, <2>0, TokensGrow DEF Send, Take, AnswerToLoss, Goto, session, ClientTypeOK, Calls
    <2>2. /\ UNCHANGED <<token, revoked>>
          /\ \A u \in Tasks : u # t => request'[u] = request[u]
          /\ request'[t].retry = request[t].retry /\ request'[t].token = request[t].token
          /\ request[t].pc = "send"
          /\ \/ request'[t].pc \in Ended \ {"token_expired"}
                /\ request'[t].sent \in {request[t].sent, request[t].sent \union {request[t].token}}
             \/ /\ request'[t].pc = "rejected" /\ request[t].token \in revoked
                /\ request'[t].sent = request[t].sent \union {request[t].token}
        BY <1>6 DEF Send, AnswerToLoss, Goto, session, ClientTypeOK, Calls
    <2>3. NewTokensInv'
        <3>1. NewTokensInv /\ request'[t].pc \notin Storing
            BY <2>2
        <3> HIDE DEF ClientInv, Storing
        <3> QED
            BY <2>2, <3>1 DEF NewTokensInv
    <2>4. RejectionInv'
        <3>1. RejectionInv
            OBVIOUS
        <3> HIDE DEF ClientInv
        <3> QED
            BY <2>2, <3>1 DEF RejectionInv
    <2>5. ReachedInv'
        BY <1>6, ClientAssumption DEF Send, Take, AnswerToLoss, Goto, session, ReachedInv,
                                      ClientTypeOK, Calls, Tasks
    <2> QED
        BY <2>1, <2>3, <2>4, <2>5
<1> QED
    BY <1>1, <1>2, <1>3, <1>4, <1>5, <1>6 DEF RequestStep

\* A call begins, or the next page is asked for.
LEMMA BeginningSteps ==
    ASSUME ClientInv, NEW t \in Tasks,
           (t \in Orders /\ PlaceOrder(t)) \/ (t \in Reads /\ ReadPage(t))
    PROVE  ClientInv'
<1> USE ClientAssumption DEF ClientInv, Pcs, Trying, Storing, Ended
<1>1. /\ UNCHANGED <<token, issued, revoked, reached>>
      /\ Request(t)
      /\ t \in Orders => request[t].pc = "idle"
    BY ClientAssumption DEF PlaceOrder, ReadPage, session
<1>2. /\ request' \in [Tasks -> Calls] /\ Calls' = Calls
      /\ request'[t].pc \in {"acquire", "raised"} /\ request'[t].token = None
      /\ request'[t].sent = {} /\ ~ request'[t].retry
      /\ \A u \in Tasks : u # t => request'[u] = request[u]
    <2> DEFINE c == [Idle EXCEPT !.pc = IF client = "connected" THEN "acquire" ELSE "raised",
                                 !.page = request[t].page + 1]
    <2>1. request' = [request EXCEPT ![t] = c]
        BY <1>1 DEF Request
    <2>2. c \in Calls /\ c.pc \in {"acquire", "raised"} /\ c.token = None /\ c.sent = {} /\ ~ c.retry
        <3>1. request[t].page + 1 \in Nat
            BY DEF ClientTypeOK, Calls
        <3> QED
            BY <3>1 DEF Idle, Calls
    <2>3. Calls' = Calls
        BY <1>1 DEF Calls, Tokens
    <2> QED
        BY <2>1, <2>2, <2>3 DEF ClientTypeOK
<1>3. ClientTypeOK'
    BY <1>1, <1>2 DEF ClientTypeOK, Tokens
<1>4. NewTokensInv'
    BY <1>1, <1>2 DEF NewTokensInv, ClientTypeOK, Calls, Tokens
<1>5. RejectionInv'
    BY <1>1, <1>2 DEF RejectionInv
<1>6. ReachedInv'
    BY <1>1, <1>2 DEF ReachedInv, Tasks
<1> QED
    BY <1>3, <1>4, <1>5, <1>6

\* The call of a read is over and forgotten.
LEMMA ForgetRead ==
    ASSUME ClientInv, NEW t \in Reads, request' = [request EXCEPT ![t] = Idle],
           UNCHANGED <<token, issued, revoked, reached>>
    PROVE  ClientInv'
<1> USE ClientAssumption DEF ClientInv, Pcs, Trying, Storing, Ended, Tasks
<1>1. ClientTypeOK'
    BY DEF ClientTypeOK, Calls, Tokens, Idle
<1>2. NewTokensInv'
    BY DEF NewTokensInv, ClientTypeOK, Idle, Tokens
<1>3. RejectionInv'
    BY DEF RejectionInv, ClientTypeOK, Idle
<1>4. ReachedInv'
    BY ClientAssumption DEF ReachedInv, ClientTypeOK
<1> QED
    BY <1>1, <1>2, <1>3, <1>4

\* The invariant gives both properties.
LEMMA ClientInvGives ==
    ASSUME ClientInv
    PROVE  AnswerMatchesExchange /\ TokenRejectedTwice
<1>1. AnswerMatchesExchange
    BY DEF ClientInv, ReachedInv, AnswerMatchesExchange
<1>2. ASSUME NEW t \in Tasks, request[t].pc = "token_expired"
      PROVE  Cardinality(request[t].sent \intersect revoked) = 2
    <2>1. PICK a \in revoked, b \in revoked : a # b /\ request[t].sent = {a, b}
        BY <1>2 DEF ClientInv, RejectionInv
    <2>2. request[t].sent \intersect revoked = {a} \union {b}
        BY <2>1
    <2>3. IsFiniteSet({a}) /\ Cardinality({a}) = 1
        BY FS_Singleton
    <2>4. Cardinality({a} \union {b}) = 2
        BY <2>1, <2>3, FS_AddElement
    <2> QED
        BY <2>2, <2>4
<1> QED
    BY <1>1, <1>2 DEF TokenRejectedTwice
=============================================================================
