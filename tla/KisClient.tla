----------------------------- MODULE KisClient -----------------------------
(***************************************************************************)
(* broker/kis/client.py and broker/kis/auth.py: the requests a connected   *)
(* client sends one at a time, the access token that all of them share     *)
(* through Redis, and the one retry after a rejected token.                *)
(*                                                                         *)
(* A task is a coroutine inside _request; one action is what it does       *)
(* between two awaits.  A token is the number of its issue.  Failures draw *)
(* on the budget mishaps, and the exchange revokes tokens out of the same  *)
(* budget.                                                                 *)
(***************************************************************************)
EXTENDS Naturals, FiniteSets, Sequences

CONSTANTS
    Orders,            \* calls of place_order
    Reads,             \* other calls: a price, a balance, the bars of a symbol
    MaxPages,          \* per read: _MAX_OHLCV_PAGES, _MAX_BALANCE_PAGES, or 1
    None

Tasks == Orders \union Reads

ASSUME ClientAssumption ==
    /\ Orders \intersect Reads = {}
    /\ MaxPages \in [Reads -> Nat \ {0}]
    /\ None \notin Nat

VARIABLES
    client,      \* "new", "connected" or "closed"
    token,       \* Redis, kis:auth:{account_id}:token
    issued,      \* tokens issued so far
    revoked,     \* tokens the exchange rejects
    holder,      \* who holds the semaphore
    request,     \* per task, where its call of _request stands
    reached,     \* per order, how often the exchange took it
    mishaps      \* failures still to come

session == <<client, token, issued, revoked>>
clientVars == <<session, holder, request, reached, mishaps>>

Idle == [pc |-> "idle", token |-> None, retry |-> FALSE, sent |-> {}, page |-> 0]
Ended == {"ok", "raised", "lost", "refused", "token_expired"}
InFlight(t) == request[t].pc \notin Ended \union {"idle", "absent"}
\* Some call is under way or still to come: what happens to the client matters.
Busy == \E t \in Tasks : request[t].pc \notin Ended \union {"absent"}
Mishap == mishaps > 0 /\ mishaps' = mishaps - 1
NoMishap == UNCHANGED mishaps

\* calls: the tasks that there will be.
ClientInit(calls) ==
    /\ client = "new"
    /\ issued = 1 /\ token \in {None, 1} /\ revoked = {}
    /\ holder = None
    /\ request = [t \in Tasks |-> IF t \in calls THEN Idle ELSE [Idle EXCEPT !.pc = "absent"]]
    /\ reached = [t \in Orders |-> 0]

Goto(t, label) == request' = [request EXCEPT ![t].pc = label]
\* Leaving the async with block, normally or by an exception.
Release(t) == holder' = IF holder = t THEN None ELSE holder
Raise(t) == Goto(t, "raised") /\ Release(t)

---------------------------------------------------------------------------
(* connect and disconnect                                                  *)

\* A token is fetched to validate the credentials; without one the registry never sees the
\* client.
Connect ==
    /\ client # "connected"
    /\ \A t \in Tasks : ~InFlight(t)
    /\ \/ token # None /\ client' = "connected" /\ UNCHANGED <<token, issued>> /\ NoMishap
       \/ /\ token = None /\ client' = "connected"
          /\ issued' = issued + 1 /\ token' = issued + 1 /\ NoMishap
       \/ client' = "closed" /\ UNCHANGED <<token, issued>> /\ Mishap
    /\ UNCHANGED <<revoked, holder, request, reached>>

\* BrokerRegistry.disconnect_all when the process shuts down.
Disconnect ==
    /\ Busy /\ client = "connected" /\ Mishap
    /\ client' = "closed"
    /\ UNCHANGED <<token, issued, revoked, holder, request, reached>>

\* The exchange ends a token before its time in Redis is over.
Revoke ==
    /\ Busy /\ token # None /\ token \notin revoked /\ Mishap
    /\ revoked' = revoked \union {token}
    /\ UNCHANGED <<client, token, issued, holder, request, reached>>

\* KIS_TOKEN_REDIS_TTL
ExpireToken ==
    /\ Busy /\ token # None /\ Mishap
    /\ token' = None
    /\ UNCHANGED <<client, issued, revoked, holder, request, reached>>

---------------------------------------------------------------------------
(* get_token, refresh_token, _issue_token                                  *)

\* Inside the semaphore; an error of Redis is not caught.
GetToken(t) ==
    /\ request[t].pc = "token"
    /\ \/ client # "connected" /\ Raise(t) /\ NoMishap
       \/ /\ client = "connected" /\ token # None /\ NoMishap
          /\ request' = [request EXCEPT ![t].pc = "send", ![t].token = token]
          /\ UNCHANGED holder
       \/ client = "connected" /\ token = None /\ Goto(t, "issue") /\ UNCHANGED holder /\ NoMishap
       \/ client = "connected" /\ Raise(t) /\ Mishap
    /\ UNCHANGED <<session, reached>>

\* POST /oauth2/tokenP
IssueToken(t) ==
    /\ request[t].pc \in {"issue", "reissue"}
    /\ \/ /\ client = "connected" /\ NoMishap
          /\ issued' = issued + 1
          /\ request' = [request EXCEPT ![t].token = issued + 1,
                           ![t].pc = IF @ = "issue" THEN "store" ELSE "restore"]
          /\ UNCHANGED holder
       \/ client # "connected" /\ Raise(t) /\ UNCHANGED issued /\ NoMishap
       \/ client = "connected" /\ Raise(t) /\ UNCHANGED issued /\ Mishap
    /\ UNCHANGED <<client, token, revoked, reached>>

\* The token goes into Redis; get_token goes on to send, refresh_token to the second attempt.
StoreToken(t) ==
    /\ request[t].pc \in {"store", "restore"}
    /\ \/ /\ token' = request[t].token /\ NoMishap
          /\ request' = [request EXCEPT ![t].pc = IF @ = "store" THEN "send" ELSE "acquire"]
          /\ UNCHANGED holder
       \/ Raise(t) /\ UNCHANGED token /\ Mishap
    /\ UNCHANGED <<client, issued, revoked, reached>>

\* Faulty: the token is asked for again, not deleted first.
RefreshTokenCached(t) ==
    /\ request' = [request EXCEPT ![t].pc = IF token = None THEN "reissue" ELSE "acquire",
                                  ![t].retry = TRUE]
    /\ UNCHANGED <<token, holder, mishaps>>

\* Whatever is in Redis is deleted, a token that another task has just stored included.
RefreshToken(t) ==
    \/ /\ token' = None /\ NoMishap
       /\ request' = [request EXCEPT ![t].pc = "reissue", ![t].retry = TRUE]
       /\ UNCHANGED holder
    \/ Raise(t) /\ UNCHANGED token /\ Mishap

---------------------------------------------------------------------------
(* _request, _do_request, _handle_error                                    *)

Request(t) == request' = [request EXCEPT ![t] =
                 [Idle EXCEPT !.pc = IF client = "connected" THEN "acquire" ELSE "raised",
                              !.page = request[t].page + 1]]

Acquire(t) ==
    /\ request[t].pc = "acquire"
    /\ \/ /\ client = "connected" /\ holder = None
          /\ holder' = t /\ Goto(t, "token")
       \/ client # "connected" /\ Raise(t)
    /\ UNCHANGED <<session, reached, mishaps>>

Take(t) == reached' = IF t \in Orders THEN [reached EXCEPT ![t] = @ + 1] ELSE reached

\* Faulty: a request without an answer is sent again.
AnswerToLossRetried(t) == IF request[t].retry THEN "lost" ELSE "acquire"

\* A ClientError, a TimeoutError, or an answer that is not JSON or not of the expected form (a
\* ValidationError, also in place_order): the caller gets an exception that does not tell
\* whether the exchange took the request.
AnswerToLoss(t) == "lost"

\* The answer is parsed after the semaphore; a rejected token is the only answer that is retried.
Send(t) ==
    LET Answer(label) ==
          request' = [request EXCEPT ![t].pc = label, ![t].sent = @ \union {request[t].token}]
    IN
    /\ request[t].pc = "send"
    /\ \/ client # "connected" /\ Goto(t, "raised") /\ UNCHANGED reached /\ NoMishap
       \/ /\ client = "connected" /\ request[t].token \in revoked
          /\ Answer("rejected") /\ UNCHANGED reached /\ NoMishap
       \/ /\ client = "connected" /\ request[t].token \notin revoked
          /\ \/ Answer("ok") /\ Take(t) /\ NoMishap
             \/ Answer(AnswerToLoss(t)) /\ Take(t) /\ Mishap
             \/ Answer("refused") /\ UNCHANGED reached /\ Mishap
       \/ /\ client = "connected"
          /\ Answer(AnswerToLoss(t)) /\ UNCHANGED reached /\ Mishap
    /\ Release(t)
    /\ UNCHANGED session

HandleRejection(t) ==
    /\ request[t].pc = "rejected"
    /\ \/ request[t].retry /\ Goto(t, "token_expired") /\ UNCHANGED <<token, holder, mishaps>>
       \/ /\ ~request[t].retry /\ client # "connected"
          /\ Raise(t) /\ UNCHANGED <<token, mishaps>>
       \/ ~request[t].retry /\ client = "connected" /\ RefreshToken(t)
    /\ UNCHANGED <<client, issued, revoked, reached>>

RequestStep(t) ==
    \/ Acquire(t) \/ GetToken(t) \/ IssueToken(t) \/ StoreToken(t) \/ Send(t) \/ HandleRejection(t)

---------------------------------------------------------------------------
(* place_order, get_price, get_balance, get_daily_ohlcv                    *)

PlaceOrder(t) ==
    /\ t \in Orders /\ request[t].pc = "idle"
    /\ Request(t)
    /\ UNCHANGED <<session, holder, reached, mishaps>>

\* A full page, with fewer than the greatest number of pages read: the next one is asked for.
MorePages(t) == request[t].pc = "ok" /\ request[t].page < MaxPages[t]

ReadPage(t) ==
    /\ t \in Reads
    /\ request[t].pc = "idle" \/ MorePages(t)
    /\ Request(t)
    /\ UNCHANGED <<session, holder, reached, mishaps>>
---------------------------------------------------------------------------
(* Properties                                                              *)

\* What place_order tells its caller is what happened at the exchange: an order is taken at most
\* once, it was taken when an answer came back, and it was not when an error other than a lost
\* answer did (the retry of _handle_error, the exceptions of _do_request).
AnswerMatchesExchange ==
    \A t \in Orders :
        /\ reached[t] <= 1
        /\ request[t].pc = "ok" => reached[t] = 1
        /\ request[t].pc \in {"raised", "refused", "token_expired"} => reached[t] = 0

\* TokenExpiredError reaches a caller only if the exchange rejected two different tokens: however
\* the refreshes of several requests overlap, no second attempt is made with the rejected token.
TokenRejectedTwice ==
    \A t \in Tasks :
        request[t].pc = "token_expired" => Cardinality(request[t].sent \intersect revoked) = 2
=============================================================================
