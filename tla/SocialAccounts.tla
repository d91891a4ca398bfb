---------------------------- MODULE SocialAccounts ----------------------------
(* One social account of a user: the sign-in links that connect it, the tokens   *)
(* its uses refresh, and the requests that disconnect it. SocialPosts has the    *)
(* posts that are cancelled with it. A token is the grant it came from, with the *)
(* number of its refresh; revoking any token of a grant ends the grant.          *)
EXTENDS Naturals, FiniteSets

CONSTANTS
    Links,     \* sign-in links (social_oauth_states), each delivered to any callback
    Callbacks, \* callback requests: a browser may send one link twice
    Uses,      \* publishes, polls and metric refreshes that need an access token
    Closers,   \* disconnect requests
    MaxGrants, MaxRefreshes, MaxFailures

VARIABLES
    link,      \* each link: none, open, expired, or consumed (deleted)
    account,   \* the row: its status and its tokens
    live,      \* the provider: the grants that are still good
    callback, use, closer,   \* where each request is, and what it read
    past       \* grants given, refreshes, failures, exchanges per link; who overlapped
avars == <<link, account, live, callback, use, closer, past>>

NoToken == [grant |-> 0, age |-> 0]
Rest == [at |-> "rest", token |-> NoToken, link |-> "none"]
StartIn(s) ==
    /\ link = [l \in Links |-> s] /\ account = [status |-> "none", token |-> NoToken] /\ live = {}
    /\ callback = [c \in Callbacks |-> Rest] /\ use = [u \in Uses |-> Rest]
    /\ closer = [d \in Closers |-> Rest]
    /\ past = [grants |-> 0, refreshes |-> 0, failures |-> 0, overlap |-> FALSE,
               exchanges |-> [l \in Links |-> 0]]
Init == StartIn("none")
Gone == StartIn("never")

Fails == past.failures < MaxFailures
Failed == past' = [past EXCEPT !.failures = @ + 1]
Connected == account.status \in {"active", "reauth"}
Busy == (\E u \in Uses : use[u].at # "rest") \/ (\E d \in Closers : closer[d].at # "rest")

(***************************************************************************)
(* Connecting                                                              *)
(***************************************************************************)
\* start_connection: a state that lives ten minutes.
StartConnection(l) ==
    /\ link[l] = "none" /\ link' = [link EXCEPT ![l] = "open"]
    /\ UNCHANGED <<account, live, callback, use, closer, past>>
Expire(l) ==
    /\ link[l] = "open" /\ link' = [link EXCEPT ![l] = "expired"]
    /\ UNCHANGED <<account, live, callback, use, closer, past>>
\* purge_expired_oauth_states, of the metrics cron.
Purge ==
    /\ \E l \in Links : link[l] = "expired"
    /\ link' = [l \in Links |-> IF link[l] = "expired" THEN "consumed" ELSE link[l]]
    /\ UNCHANGED <<account, live, callback, use, closer, past>>
\* Variant: the state is read, and deleted with the account it connects.
ConsumeLate(c, l) ==
    /\ callback[c].at = "rest" /\ link[l] \in {"open", "expired", "consumed"}
    /\ callback' = [callback EXCEPT ![c] = IF link[l] = "open" THEN [Rest EXCEPT !.at = "exchange", !.link = l] ELSE Rest]
    /\ UNCHANGED <<link, account, live, use, closer, past>>
\* consume_oauth_state deletes the row before anything else: only one callback finds it.
Consume(c, l) ==
    /\ callback[c].at = "rest" /\ link[l] \in {"open", "expired", "consumed"}
    /\ callback' = [callback EXCEPT ![c] = IF link[l] = "open" THEN [Rest EXCEPT !.at = "exchange", !.link = l] ELSE Rest]
    /\ link' = [link EXCEPT ![l] = "consumed"]
    /\ UNCHANGED <<account, live, use, closer, past>>
\* exchange_code and fetch_profile.
Exchange(c) ==
    /\ callback[c].at = "exchange" /\ past.grants < MaxGrants
    /\ past' = [past EXCEPT !.grants = @ + 1, !.exchanges[callback[c].link] = @ + 1]
    /\ live' = live \cup {past.grants + 1}
    /\ callback' = [callback EXCEPT ![c].at = "store", ![c].token = [grant |-> past.grants + 1, age |-> 0]]
    /\ UNCHANGED <<link, account, use, closer>>
\* The profile may be refused once the grant is given.
ExchangeFails(c) ==
    /\ \/ callback[c].at = "exchange" /\ UNCHANGED past
       \/ callback[c].at = "store" /\ Fails /\ Failed
    /\ callback' = [callback EXCEPT ![c] = Rest]
    /\ UNCHANGED <<link, account, live, use, closer>>
\* upsert_account: the tokens replace what is there, and a revoked account is back.
Upsert(c) ==
    /\ callback[c].at = "store"
    /\ account' = [status |-> "active", token |-> callback[c].token]
    /\ callback' = [callback EXCEPT ![c] = Rest]
    /\ past' = [past EXCEPT !.overlap = @ \/ Busy \/ account.status \in {"active", "reauth"}]
    /\ UNCHANGED <<link, live, use, closer>>

(***************************************************************************)
(* Using it                                                                *)
(***************************************************************************)
ReadAccount(u) ==
    /\ use[u].at = "rest" /\ Connected
    /\ use' = [use EXCEPT ![u] = [Rest EXCEPT !.at = "read", !.token = account.token]]
    /\ UNCHANGED <<link, account, live, callback, closer, past>>
\* _get_valid_access_token: the token is good for a while, or is refreshed first.
Fresh(u) ==
    /\ use[u].at = "read" /\ use' = [use EXCEPT ![u].at = "call"]
    /\ UNCHANGED <<link, account, live, callback, closer, past>>
Refresh(u) ==
    /\ use[u].at = "read" /\ past.refreshes < MaxRefreshes
    /\ past' = [past EXCEPT !.refreshes = @ + 1]
    /\ use' = [use EXCEPT ![u].at = IF use[u].token.grant \in live THEN "refreshed" ELSE "reauth",
                          ![u].token.age = past.refreshes + 1]
    /\ UNCHANGED <<link, account, live, callback, closer>>
\* Variant: the tokens are stored whatever became of the account.
StoreTokensAlways(u) ==
    /\ use[u].at = "refreshed"
    /\ account' = [status |-> "active", token |-> use[u].token]
    /\ use' = [use EXCEPT ![u].at = "call"]
    /\ UNCHANGED <<link, live, callback, closer, past>>
\* update_account_tokens: only while the account is connected.
StoreTokens(u) ==
    /\ use[u].at = "refreshed"
    /\ account' = (IF Connected THEN [status |-> "active", token |-> use[u].token] ELSE account)
    /\ use' = [use EXCEPT ![u].at = IF Connected THEN "call" ELSE "revoke"]
    /\ UNCHANGED <<link, live, callback, closer, past>>
\* Disconnected while it was refreshed: the new tokens are revoked, at best effort.
RevokeFresh(u) ==
    /\ use[u].at = "revoke"
    /\ \/ live' = live \ {use[u].token.grant} /\ UNCHANGED past
       \/ Fails /\ Failed /\ UNCHANGED live
    /\ use' = [use EXCEPT ![u] = Rest]
    /\ UNCHANGED <<link, account, callback, closer>>
Call(u) ==
    /\ use[u].at = "call"
    /\ use' = [use EXCEPT ![u] = IF @.token.grant \in live THEN Rest ELSE [@ EXCEPT !.at = "reauth"]]
    /\ UNCHANGED <<link, account, live, callback, closer, past>>
\* set_account_status: only while the account is connected.
SetStatus(u) ==
    /\ use[u].at = "reauth" /\ use' = [use EXCEPT ![u] = Rest]
    /\ account' = (IF Connected THEN [account EXCEPT !.status = "reauth"] ELSE account)
    /\ UNCHANGED <<link, live, callback, closer, past>>
\* The platform, or the user there, ends the grant.
GrantEnds(g) ==
    /\ Fails /\ Failed /\ g \in live /\ live' = live \ {g}
    /\ UNCHANGED <<link, account, callback, use, closer>>

(***************************************************************************)
(* Disconnecting: the tokens are read, the row is cleared, and only then   *)
(* is the platform asked, which may be out of reach.                       *)
(***************************************************************************)
DisconnectRead(d) ==
    /\ closer[d].at = "rest" /\ account.status # "none"
    /\ closer' = [closer EXCEPT ![d] = [Rest EXCEPT !.at = "read", !.token = account.token]]
    /\ UNCHANGED <<link, account, live, callback, use, past>>
RevokeAccount(d) ==
    /\ closer[d].at = "read"
    /\ account' = (IF Connected THEN [status |-> "revoked", token |-> NoToken] ELSE account)
    /\ closer' = [closer EXCEPT ![d] = IF Connected THEN [@ EXCEPT !.at = "revoke"] ELSE Rest]
    /\ UNCHANGED <<link, live, callback, use, past>>
RevokeAtProvider(d) ==
    /\ closer[d].at = "revoke"
    /\ \/ live' = live \ {closer[d].token.grant} /\ UNCHANGED past
       \/ Fails /\ Failed /\ UNCHANGED live
    /\ closer' = [closer EXCEPT ![d] = Rest]
    /\ UNCHANGED <<link, account, callback, use>>

Next ==
    \/ Purge
    \/ \E l \in Links : StartConnection(l) \/ Expire(l) \/ \E c \in Callbacks : Consume(c, l)
    \/ \E c \in Callbacks : Exchange(c) \/ ExchangeFails(c) \/ Upsert(c)
    \/ \E u \in Uses : ReadAccount(u) \/ Fresh(u) \/ Refresh(u) \/ StoreTokens(u) \/ RevokeFresh(u)
                       \/ Call(u) \/ SetStatus(u)
    \/ \E g \in live : GrantEnds(g)
    \/ \E d \in Closers : DisconnectRead(d) \/ RevokeAccount(d) \/ RevokeAtProvider(d)
Spec == Init /\ [][Next]_avars

(***************************************************************************)
(* Properties                                                              *)
(***************************************************************************)
TypeOK ==
    /\ account.status \in {"none", "active", "reauth", "revoked"}
    /\ account.token.grant \in 0..MaxGrants /\ account.token.age \in 0..MaxRefreshes
    /\ live \subseteq 1..MaxGrants
Quiet == ~Busy /\ \A c \in Callbacks : callback[c].at = "rest"
\* A disconnected account holds no tokens, a connected one always does, and no link
\* connects twice. "The fresh grant must not outlive it" (social_service.py:370): when
\* all is quiet after a disconnect, every grant the account had is ended, unless the
\* platform could not be reached or a sign-in overlapped the account's other requests.
DisconnectIsFinal ==
    /\ account.status \in {"none", "revoked"} <=> account.token = NoToken
    /\ \A l \in Links : past.exchanges[l] <= 1
    /\ Quiet /\ account.status = "revoked" /\ past.failures = 0 /\ ~past.overlap => live = {}
\* An account that was disconnected comes back only by a new sign-in.
OnlySignInReconnects ==
    [][account.status = "revoked" /\ account'.status # "revoked" =>
        \E c \in Callbacks : callback[c].at = "store" /\ account'.token = callback[c].token]_avars
=============================================================================
