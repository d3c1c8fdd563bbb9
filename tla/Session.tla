-------------------------------- MODULE Session --------------------------------
(***************************************************************************)
(* One browser and the identity service: the client (client/src), whose    *)
(* pages share the cookie with the refresh token and keep an access token  *)
(* each, its server side, which verifies and exchanges the cookie on every *)
(* page load, and the verification of access tokens by the stream service  *)
(* (pkg/auth), which fetches the key from the identity service.            *)
(*                                                                         *)
(* A request slot of Identity is a page of the browser: a page does one    *)
(* operation at a time, pages overlap. A token is the kid of its key; that *)
(* an access token expires within a minute is a choice made on each use.   *)
(***************************************************************************)
EXTENDS Identity

VARIABLES
    cookie,    \* the key of the _refresh_token cookie, or None
    access,    \* the key of each page's accessToken store, or None
    page,      \* what each page is doing
    member,    \* history: signed in, and not signing out since
    troubled   \* history: the database failed one of the browser's
               \* requests, or operations overlapped that are not page loads

client == <<cookie, access, page, member, troubled>>
allVars == <<vars, client>>

(* key: the token the page is using; dead: the keys whose sign-out had     *)
(* been answered when the operation began; allowed: the key of the token   *)
(* with which an API request of the page was let through.                  *)
AtRest == [op |-> "none", stage |-> "sent", key |-> None, dead |-> {}, allowed |-> None]

ClientInit ==
    /\ Init
    /\ cookie = None
    /\ access = [c \in Call |-> None]
    /\ page = [c \in Call |-> AtRest]
    /\ member = FALSE
    /\ troubled = FALSE

------------------------------------------------------------------------------
At(c, op, stage) == page[c].op = op /\ page[c].stage = stage

(* An operation begins: it is trouble when it overlaps with another and    *)
(* not both are page loads.                                                *)
BeginPage(c, op, stage, k) ==
    /\ page[c].op = "none"
    /\ page' = [page EXCEPT ![c] = [op |-> op, stage |-> stage, key |-> k,
                                    dead |-> revoked, allowed |-> None]]
    /\ troubled' = (troubled \/ \E d \in Call \ {c} :
                        page[d].op # "none" /\ {op, page[d].op} # {"load"})

Stay(c, stage) == page' = [page EXCEPT ![c].stage = stage]
End(c, allowed) ==
    page' = [page EXCEPT ![c] =
                [AtRest EXCEPT !.dead = IF allowed = None THEN {} ELSE page[c].dead,
                               !.allowed = allowed]]

(* The answer to the page's request is there, and is taken.                *)
Response(c) ==
    /\ Receive(c)
    /\ troubled' = (troubled \/ call[c].failed)

Answered(c, status) == call[c].status = status

(* The tokens an answer carries are signed by the key and name its kid.    *)
Token(c) == call[c].key

(* The key set for a token: the public half of its key, if that is there.  *)
GetPublciKeys(k) == {j \in {k} : GetPrivateKeyById(j)}

PublicKeyList(k) == GetPublciKeys(k) # {}

------------------------------------------------------------------------------
(* Sign-up (no page of the client offers it; somebody calls the API), and  *)
(* login and logout of stores/auth.ts.                                     *)

Register(c, u, k) ==
    /\ BeginPage(c, "sign_up", "sent", None)
    /\ SignUp(c, u, k)
    /\ UNCHANGED <<cookie, access, member>>

RegisterDone(c) ==
    /\ page[c].op = "sign_up"
    /\ Response(c)
    /\ End(c, None)
    /\ UNCHANGED <<cookie, access, member>>

Login(c, u, k) ==
    /\ BeginPage(c, "login", "sent", None)
    /\ SignIn(c, u, k)
    /\ UNCHANGED <<cookie, access, member>>

(* The body of an error has no access_token, which unsets the store.       *)
LoginDone(c) ==
    /\ page[c].op = "login"
    /\ Response(c)
    /\ \/ /\ Answered(c, "ok")
          /\ cookie' = Token(c)
          /\ access' = [access EXCEPT ![c] = Token(c)]
          /\ member' = TRUE
       \/ /\ ~Answered(c, "ok")
          /\ access' = [access EXCEPT ![c] = None]
          /\ UNCHANGED <<cookie, member>>
    /\ End(c, None)

(* Without a cookie the answer is 412 and nothing changes: left out.       *)
Logout(c) ==
    /\ access[c] # None
    /\ cookie # None
    /\ BeginPage(c, "logout", "sent", None)
    /\ SignOut(c, cookie)
    /\ member' = FALSE
    /\ UNCHANGED <<cookie, access>>

(* Only an answer of success deletes the cookie; the store keeps its token.*)
LogoutDone(c) ==
    /\ page[c].op = "logout"
    /\ Response(c)
    /\ cookie' = IF Answered(c, "ok") THEN None ELSE cookie
    /\ End(c, None)
    /\ UNCHANGED <<access, member>>

------------------------------------------------------------------------------
(* A page load: verifyTokenHook, then getAccessToken for the layout.       *)

LoadAnonymous(c) ==
    /\ page[c].op = "none"
    /\ cookie = None
    /\ access' = [access EXCEPT ![c] = None]
    /\ UNCHANGED <<vars, cookie, page, member, troubled>>

Load(c) ==
    /\ cookie # None
    /\ BeginPage(c, "load", "sent", cookie)
    /\ VerifyToken(c, cookie)
    /\ UNCHANGED <<cookie, access, member>>

LoadVerified(c) ==
    /\ At(c, "load", "sent")
    /\ Response(c)
    /\ \/ Answered(c, "ok") /\ Stay(c, "refresh") /\ UNCHANGED <<cookie, access>>
       \/ /\ ~Answered(c, "ok")
          /\ cookie' = None
          /\ access' = [access EXCEPT ![c] = None]
          /\ End(c, None)
    /\ UNCHANGED member

LoadRefresh(c) ==
    /\ At(c, "load", "refresh")
    /\ ExchangeToken(c, page[c].key)
    /\ Stay(c, "refreshing")
    /\ UNCHANGED <<cookie, access, member, troubled>>

(* Mutant of LoadDone: the cookies of every answer are passed on.          *)
LoadDoneAnyStatus(c) ==
    /\ At(c, "load", "refreshing")
    /\ Response(c)
    /\ cookie' = IF Answered(c, "ok") THEN Token(c) ELSE None
    /\ access' = [access EXCEPT ![c] = IF Answered(c, "ok") THEN Token(c) ELSE None]
    /\ End(c, None)
    /\ UNCHANGED member

(* A refusal leaves the browser its cookie: only the cookies of a 201 are  *)
(* passed on.                                                              *)
LoadDone(c) ==
    /\ At(c, "load", "refreshing")
    /\ Response(c)
    /\ \/ /\ Answered(c, "ok")
          /\ cookie' = Token(c)
          /\ access' = [access EXCEPT ![c] = Token(c)]
       \/ /\ ~Answered(c, "ok")
          /\ access' = [access EXCEPT ![c] = None]
          /\ UNCHANGED cookie
    /\ End(c, None)
    /\ UNCHANGED member

------------------------------------------------------------------------------
(* A request to the API of the stream service: fetchIntercepted, and the   *)
(* authenticator of the service.                                           *)

Fetch(c) ==
    /\ access[c] # None
    /\ BeginPage(c, "fetch", "keys", access[c])
    /\ UNCHANGED <<vars, cookie, access, member>>

(* The answer to the first attempt is 401, or that to the second.          *)
Unauthorized(c) ==
    IF page[c].stage \in {"keys", "check"} THEN Stay(c, "refresh") ELSE End(c, None)

(* Mutant of GetKeys: the key is served from a cache.                      *)
GetKeysCached(c) ==
    /\ page[c].op = "fetch"
    /\ page[c].stage \in {"keys", "retry_keys"}
    /\ Stay(c, IF page[c].stage = "keys" THEN "check" ELSE "retry_check")
    /\ UNCHANGED <<vars, cookie, access, member, troubled>>

(* GRPCPublicKeyResolver.GetKeys: the identity service reads the key of    *)
(* the token.                                                              *)
GetKeys(c) ==
    /\ page[c].op = "fetch"
    /\ page[c].stage \in {"keys", "retry_keys"}
    /\ \/ /\ PublicKeyList(page[c].key)
          /\ Stay(c, IF page[c].stage = "keys" THEN "check" ELSE "retry_check")
          /\ UNCHANGED troubled
       \/ ~PublicKeyList(page[c].key) /\ Unauthorized(c) /\ UNCHANGED troubled
       \/ DatabaseFails /\ Unauthorized(c) /\ troubled' = TRUE
    /\ UNCHANGED <<vars, cookie, access, member>>

(* next.ServeHTTP: the request reaches its handler. *)
LetThrough(c) == End(c, page[c].key)

(* VerifyTokenByKeySet and ValidateToken: the signature is that of the key *)
(* which was fetched, but the token may have expired.                      *)
ValidNow == BOOLEAN

(* A page whose second attempt was let through keeps the new token.        *)
CheckToken(c) ==
    /\ page[c].op = "fetch"
    /\ page[c].stage \in {"check", "retry_check"}
    /\ \E valid \in ValidNow :
        \/ ~valid /\ Unauthorized(c) /\ UNCHANGED access
        \/ /\ valid
           /\ LetThrough(c)
           /\ access' = [access EXCEPT ![c] = page[c].key]
    /\ UNCHANGED <<vars, cookie, member, troubled>>

(* The service takes the cookie of a request, or its other token.          *)
GetRefreshTokenFromCookieOrAuthHeader(k) == IF cookie # None THEN cookie ELSE k

(* refreshToken sends the cookie and the access token. An access token     *)
(* that has expired is refused in its place, and so is the second attempt, *)
(* which carries no token.                                                 *)
FetchRefresh(c) ==
    /\ At(c, "fetch", "refresh")
    /\ \/ /\ ExchangeToken(c, GetRefreshTokenFromCookieOrAuthHeader(page[c].key))
          /\ Stay(c, "refreshing")
       \/ cookie = None /\ End(c, None) /\ UNCHANGED vars
    /\ UNCHANGED <<cookie, access, member, troubled>>

(* A refusal deletes the cookie. *)
FetchRefreshed(c) ==
    /\ At(c, "fetch", "refreshing")
    /\ Response(c)
    /\ \/ /\ Answered(c, "ok")
          /\ cookie' = Token(c)
          /\ page' = [page EXCEPT ![c].stage = "retry_keys", ![c].key = Token(c)]
       \/ ~Answered(c, "ok") /\ cookie' = None /\ End(c, None)
    /\ UNCHANGED <<access, member>>

------------------------------------------------------------------------------
(* The identity service goes on, or restarts: every request in flight ends *)
(* in an error of the network, which verifyTokenHook does not mind.        *)

ServiceStep(c) == Step(c) /\ UNCHANGED client

ServiceRestart ==
    /\ Restart
    /\ access' = [c \in Call |-> IF At(c, "load", "refreshing") THEN None ELSE access[c]]
    /\ page' = [c \in Call |->
            IF At(c, "load", "sent") THEN [page[c] EXCEPT !.stage = "refresh"]
            ELSE IF call[c].pc # "idle" THEN AtRest
            ELSE page[c]]
    /\ troubled' = TRUE
    /\ UNCHANGED <<cookie, member>>

PageStep(c) ==
    \/ RegisterDone(c) \/ LoginDone(c) \/ LogoutDone(c)
    \/ LoadVerified(c) \/ LoadRefresh(c) \/ LoadDone(c)
    \/ GetKeys(c) \/ CheckToken(c) \/ FetchRefresh(c) \/ FetchRefreshed(c)

ClientNext ==
    \/ \E c \in Call, u \in User, k \in Key : Register(c, u, k) \/ Login(c, u, k)
    \/ \E c \in Call : Logout(c) \/ LoadAnonymous(c) \/ Load(c) \/ Fetch(c)
    \/ \E c \in Call : PageStep(c) \/ ServiceStep(c)
    \/ ServiceRestart

ClientSpec == ClientInit /\ [][ClientNext]_allVars

(* Pages handle answers, the stream service serves requests. PostgreSQL    *)
(* runs statements, and wakes one that waits when the transaction it waits *)
(* for ends, hence strong fairness; nothing makes a statement fail.        *)
ClientFairness ==
    /\ \A c \in Call : WF_allVars(PageStep(c))
    /\ \A c \in Call : SF_allVars((Statement(c) \/ Commit(c)) /\ UNCHANGED client)

FairClientSpec == ClientSpec /\ ClientFairness

------------------------------------------------------------------------------
(* Properties. *)

(* Who signed in and does not sign out stays signed in, however many pages *)
(* load at once, each of which exchanges the same cookie and of which all  *)
(* but one may be refused (hooks.server.ts:62-86); and a cookie that the   *)
(* browser holds while nothing is under way is that of a session of the    *)
(* identity service (handler.go:199-272). Not so when the database fails,  *)
(* or when operations overlap that are not page loads.                     *)
StaysSignedIn ==
    ~troubled =>
        /\ member => cookie # None
        /\ (\A c \in Call : page[c].op = "none") /\ cookie # None =>
                private_keys[cookie] # None

(* An API request made after the sign-out of its session was answered is   *)
(* not let through, although the page still has its access token: the key  *)
(* is fetched anew for each request (asymmetric.go:37-56, 75-88).          *)
SignedOutIsOut == \A c \in Call : page[c].allowed \notin page[c].dead

(* Every operation of a page ends, although pages wait for each other's    *)
(* rows in the identity service.                                           *)
OperationsEnd == \A c \in Call : page[c].op # "none" ~> page[c].op = "none"
==============================================================================
