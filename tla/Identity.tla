------------------------------- MODULE Identity -------------------------------
(***************************************************************************)
(* The identity service (services/identity): sign-up, sign-in, the         *)
(* exchange of a refresh token for a new pair of tokens, sign-out, and the *)
(* reads of a key that verify a token.                                     *)
(*                                                                         *)
(* Each session has a private key, whose id is the "kid" of its tokens,    *)
(* and one refresh token in the table. No handler compares the token it is *)
(* given with the one in the table, so a token is its kid. One action is   *)
(* one SQL statement, of a transaction at READ COMMITTED: it sees what was *)
(* committed before it began and what its own transaction wrote, waits for *)
(* the rows that other transactions have written, and meets the UNIQUE and *)
(* FOREIGN KEY constraints of the migrations. What varies about a row is   *)
(* the user it is attached to by user_private_keys, user_refresh_tokens.   *)
(***************************************************************************)
EXTENDS Naturals

CONSTANTS
    User,          \* usernames
    Key,           \* the uuids of private keys the database will generate
    Registered,    \* the users the migrations insert
    Call,          \* the HTTP requests that can be in flight together
    None,          \* no row, no user, no key
    Loose,         \* a row that is not attached to its user yet
    Same,          \* not written by the transaction
    DatabaseFails, \* a statement, or a COMMIT, may return an error
    CanRestart     \* the service may end and be started again

ASSUME IdentityAssumption ==
    /\ Registered \subseteq User
    /\ {None, Loose, Same} \cap User = {}
    /\ None \notin Key /\ None # Loose /\ None # Same /\ Loose # Same
    /\ {DatabaseFails, CanRestart} \subseteq BOOLEAN

VARIABLES
    users,           \* the committed rows of users
    private_keys,    \* the committed row of each key, or None
    refresh_tokens,  \* the committed refresh token of each key, or None:
                     \* UNIQUE(private_key_id) makes it at most one
    tx,       \* the uncommitted writes of each request
    call,     \* the HTTP requests in flight
    used,     \* uuids generated so far
    granted,  \* history: keys whose tokens were handed out
    ended,    \* history: keys that a sign-out deleted
    revoked   \* history: keys whose sign-out was answered with success

tables == <<users, private_keys, refresh_tokens>>
history == <<granted, ended, revoked>>
vars == <<tables, tx, call, used, history>>

Row == User \cup {None, Loose}
Writes == [user : User \cup {None}, keys : [Key -> Row \cup {Same}],
           tokens : [Key -> Row \cup {Same}]]
NoWrites == [user |-> None, keys |-> [k \in Key |-> Same],
             tokens |-> [k \in Key |-> Same]]

Operation == {"sign_up", "sign_in", "exchange", "sign_out", "verify"}
Location ==
    {"idle", "insert_user", "find_user", "insert_key", "attach_key",
     "validate", "find_owner", "get_key",
     "delete_token", "await_token", "insert_token", "attach_token",
     "delete_key", "commit", "answered"}
Status == {"none", "ok", "refused", "error", "not_found", "unprocessable"}

(* rival: another request about the key committed meanwhile; failed: the   *)
(* database failed this request.                                           *)
Request == [pc : Location, op : Operation, user : User \cup {None},
            key : Key \cup {None}, status : Status,
            rival : BOOLEAN, failed : BOOLEAN]

Idle == [pc |-> "idle", op |-> "verify", user |-> None, key |-> None,
         status |-> "none", rival |-> FALSE, failed |-> FALSE]

TypeOK ==
    /\ users \subseteq User
    /\ private_keys \in [Key -> Row]
    /\ refresh_tokens \in [Key -> Row]
    /\ tx \in [Call -> Writes]
    /\ call \in [Call -> Request]
    /\ used \subseteq Key
    /\ granted \subseteq Key
    /\ ended \subseteq Key
    /\ revoked \subseteq Key

Init ==
    /\ users = Registered
    /\ private_keys = [k \in Key |-> None]
    /\ refresh_tokens = [k \in Key |-> None]
    /\ tx = [c \in Call |-> NoWrites]
    /\ call = [c \in Call |-> Idle]
    /\ used = {}
    /\ granted = {}
    /\ ended = {}
    /\ revoked = {}

------------------------------------------------------------------------------
(* Transactions. *)

Goto(c, pc) == call' = [call EXCEPT ![c].pc = pc]

(* A row as the transaction of c sees it. *)
Sees(c, committed, written) == IF written = Same THEN committed ELSE written
SeesKey(c, k) == Sees(c, private_keys[k], tx[c].keys[k])
SeesToken(c, k) == Sees(c, refresh_tokens[k], tx[c].tokens[k])

(* Another transaction has written the token, or the key, of k, or has     *)
(* inserted a token, which share-locks the key it references.              *)
TokenLocked(c, k) == \E d \in Call \ {c} : tx[d].tokens[k] # Same
KeyDeleting(c, k) == \E d \in Call \ {c} : tx[d].keys[k] = None
KeyLocked(c, k) ==
    \E d \in Call \ {c} : tx[d].keys[k] # Same \/ tx[d].tokens[k] \notin {Same, None}

WriteKey(c, row) == tx' = [tx EXCEPT ![c].keys[call[c].key] = row]
WriteToken(c, row) == tx' = [tx EXCEPT ![c].tokens[call[c].key] = row]

(* Mutant of Answer: the transaction is not rolled back.                   *)
AnswerOpen(c, status, failed) ==
    /\ call' = [call EXCEPT ![c].pc = "answered", ![c].status = status,
                            ![c].failed = failed]
    /\ UNCHANGED tx

(* The handler answers; a transaction that is still open is rolled back.   *)
Answer(c, status, failed) ==
    /\ call' = [call EXCEPT ![c].pc = "answered", ![c].status = status,
                            ![c].failed = failed]
    /\ tx' = [tx EXCEPT ![c] = NoWrites]

(* The status of an error: UserExchangeAccessToken's all become 401.       *)
ErrorStatus(c) == IF call[c].op = "exchange" THEN "refused" ELSE "error"

(* The statement of c at pc returns an error of its own.                   *)
Violates(c) ==
    /\ Answer(c, ErrorStatus(c), FALSE)
    /\ UNCHANGED <<tables, used, history>>

(* The database returns an error to the statement of c, whichever it is,   *)
(* while it waits too. An error of the first SELECT of a sign-in reads as  *)
(* an unknown user.                                                        *)
StatementFails(c) ==
    /\ DatabaseFails
    /\ call[c].pc \notin {"idle", "answered", "commit"}
    /\ Answer(c, IF call[c].pc = "find_user" THEN "not_found" ELSE ErrorStatus(c), TRUE)
    /\ UNCHANGED <<tables, used, history>>

------------------------------------------------------------------------------
(* Requests. *)

(* The middleware wants a token that parses, of which it verifies nothing. *)
(* The callers of the service have the tokens they were granted.           *)
Authenticate(k) == k \in granted

Arrive(c, op, pc, u, k) ==
    /\ call[c].pc = "idle"
    /\ call' = [call EXCEPT ![c] = [Idle EXCEPT !.pc = pc, !.op = op, !.user = u, !.key = k]]
    /\ UNCHANGED <<tables, tx, history>>

(* A key that nobody has had, generated in the course of the request.      *)
CreatePrivateKeyAsJwsMessage(k) == k \notin used /\ used' = used \cup {k}

SignUp(c, u, k) ==
    /\ CreatePrivateKeyAsJwsMessage(k)
    /\ Arrive(c, "sign_up", "insert_user", u, k)

SignIn(c, u, k) ==
    /\ CreatePrivateKeyAsJwsMessage(k)
    /\ Arrive(c, "sign_in", "find_user", u, k)

ExchangeToken(c, k) ==
    Authenticate(k) /\ Arrive(c, "exchange", "validate", None, k) /\ UNCHANGED used

SignOut(c, k) ==
    Authenticate(k) /\ Arrive(c, "sign_out", "delete_token", None, k) /\ UNCHANGED used

VerifyToken(c, k) ==
    Authenticate(k) /\ Arrive(c, "verify", "validate", None, k) /\ UNCHANGED used

(* The answer reaches its caller. *)
Receive(c) ==
    /\ call[c].pc = "answered"
    /\ call' = [call EXCEPT ![c] = Idle]
    /\ UNCHANGED <<tables, tx, used, history>>

------------------------------------------------------------------------------
(* The statements. *)

(* UNIQUE(username): the INSERT waits for one that is not committed yet.   *)
InsertUser(c) ==
    LET u == call[c].user IN
    /\ call[c].pc = "insert_user"
    /\ \A d \in Call \ {c} : tx[d].user # u
    /\ \/ u \in users /\ Violates(c)
       \/ /\ u \notin users
          /\ tx' = [tx EXCEPT ![c].user = u]
          /\ Goto(c, "insert_key")
          /\ UNCHANGED <<tables, used, history>>

FindUserByUsername(u) == u \in users

(* The user is found, and the password compared. *)
FindUser(c) ==
    /\ call[c].pc = "find_user"
    /\ \/ ~FindUserByUsername(call[c].user) /\ Answer(c, "not_found", FALSE)
       \/ FindUserByUsername(call[c].user) /\ Answer(c, "unprocessable", FALSE)
       \/ FindUserByUsername(call[c].user) /\ Goto(c, "insert_key") /\ UNCHANGED tx
    /\ UNCHANGED <<tables, used, history>>

InsertPrivateKey(c) ==
    /\ call[c].pc = "insert_key"
    /\ WriteKey(c, Loose)
    /\ Goto(c, "attach_key")
    /\ UNCHANGED <<tables, used, history>>

AttachPrivateKey(c) ==
    /\ call[c].pc = "attach_key"
    /\ WriteKey(c, call[c].user)
    /\ Goto(c, "insert_token")
    /\ UNCHANGED <<tables, used, history>>

GetPrivateKeyById(k) == private_keys[k] # None

(* ValidateToken reads the key outside of any transaction. It is all there *)
(* is to the verification of a token.                                      *)
ValidateToken(c) ==
    /\ call[c].pc = "validate"
    /\ \/ ~GetPrivateKeyById(call[c].key) /\ Answer(c, ErrorStatus(c), FALSE)
       \/ /\ GetPrivateKeyById(call[c].key)
          /\ \/ call[c].op = "verify" /\ Answer(c, "ok", FALSE)
             \/ call[c].op = "exchange" /\ Goto(c, "find_owner") /\ UNCHANGED tx
    /\ UNCHANGED <<tables, used, history>>

(* FindUserByPrivateKey, outside of the transaction that is open by now.   *)
FindUserByPrivateKey(c) ==
    LET owner == private_keys[call[c].key] IN
    /\ call[c].pc = "find_owner"
    /\ \/ owner \notin User /\ Violates(c)
       \/ /\ owner \in User
          /\ call' = [call EXCEPT ![c].pc = "get_key", ![c].user = owner]
          /\ UNCHANGED <<tables, tx, used, history>>

(* GetPrivateKey, also outside of the transaction. *)
GetPrivateKey(c) ==
    /\ call[c].pc = "get_key"
    /\ \/ ~GetPrivateKeyById(call[c].key) /\ Violates(c)
       \/ /\ GetPrivateKeyById(call[c].key)
          /\ Goto(c, "delete_token")
          /\ UNCHANGED <<tables, tx, used, history>>

AfterDelete(c) == IF call[c].op = "exchange" THEN "insert_token" ELSE "delete_key"

(* Mutant of DeleteRefreshToken: the old token is left to its expiry.      *)
DeleteRefreshTokenSkipped(c) ==
    /\ call[c].pc \in {"delete_token", "await_token"}
    /\ Goto(c, AfterDelete(c))
    /\ UNCHANGED <<tables, tx, used, history>>

(* DeleteRefreshTokenByPrivateKey. The row it is about is the committed    *)
(* one; while another transaction holds it, the DELETE waits.              *)
DeleteRefreshToken(c) ==
    LET k == call[c].key IN
    /\ call[c].pc \in {"delete_token", "await_token"}
    /\ ~TokenLocked(c, k)
    /\ IF refresh_tokens[k] = None THEN UNCHANGED tx ELSE WriteToken(c, None)
    /\ Goto(c, AfterDelete(c))
    /\ UNCHANGED <<tables, used, history>>

AwaitRefreshToken(c) ==
    /\ call[c].pc = "delete_token"
    /\ TokenLocked(c, call[c].key)
    /\ Goto(c, "await_token")
    /\ UNCHANGED <<tables, tx, used, history>>

(* Mutant of InsertRefreshToken: the column does not reference the key.    *)
InsertRefreshTokenUnreferenced(c) ==
    LET k == call[c].key IN
    /\ call[c].pc = "insert_token"
    /\ ~TokenLocked(c, k)
    /\ \/ SeesToken(c, k) # None /\ Violates(c)
       \/ /\ SeesToken(c, k) = None
          /\ WriteToken(c, Loose)
          /\ Goto(c, "attach_token")
          /\ UNCHANGED <<tables, used, history>>

(* InsertRefreshToken: UNIQUE(private_key_id), whose check waits for other *)
(* writers of the key's token, then the reference to the private key.      *)
InsertRefreshToken(c) ==
    LET k == call[c].key IN
    /\ call[c].pc = "insert_token"
    /\ ~TokenLocked(c, k)
    /\ ~KeyDeleting(c, k)
    /\ \/ (SeesToken(c, k) # None \/ SeesKey(c, k) = None) /\ Violates(c)
       \/ /\ SeesToken(c, k) = None
          /\ SeesKey(c, k) # None
          /\ WriteToken(c, Loose)
          /\ Goto(c, "attach_token")
          /\ UNCHANGED <<tables, used, history>>

AttachRefreshToken(c) ==
    /\ call[c].pc = "attach_token"
    /\ WriteToken(c, call[c].user)
    /\ Goto(c, "commit")
    /\ UNCHANGED <<tables, used, history>>

(* Mutant of DeletePrivateKey: a sign-out deletes the refresh token only.  *)
DeletePrivateKeyKept(c) ==
    /\ call[c].pc = "delete_key"
    /\ Goto(c, "commit")
    /\ UNCHANGED <<tables, tx, used, history>>

(* DeletePrivateKey, by cascade its row of user_private_keys; a refresh    *)
(* token that still references the key makes it fail.                      *)
DeletePrivateKey(c) ==
    LET k == call[c].key IN
    /\ call[c].pc = "delete_key"
    /\ ~KeyLocked(c, k)
    /\ \/ SeesToken(c, k) # None /\ Violates(c)
       \/ /\ SeesToken(c, k) = None
          /\ IF private_keys[k] = None THEN UNCHANGED tx ELSE WriteKey(c, None)
          /\ Goto(c, "commit")
          /\ UNCHANGED <<tables, used, history>>

------------------------------------------------------------------------------
(* The end of a transaction. *)

(* The writes of c become visible. A DELETE that was waiting for the token *)
(* that c replaced finds it gone, and cannot see the one c inserted: it    *)
(* deletes nothing. Requests about the same key have had a rival.          *)
Apply(c) ==
    LET k == call[c].key IN
    /\ users' = users \cup ({tx[c].user} \ {None})
    /\ private_keys' = [j \in Key |-> SeesKey(c, j)]
    /\ refresh_tokens' = [j \in Key |-> SeesToken(c, j)]
    /\ ended' = IF call[c].op = "sign_out" THEN ended \cup {k} ELSE ended

(* What the COMMIT of c does to the other requests about its key.          *)
Overtaken(c, d) ==
    IF call[d].key # call[c].key \/ call[d].pc \in {"idle", "answered"} THEN call[d]
    ELSE [call[d] EXCEPT
            !.rival = TRUE,
            !.pc = IF @ = "await_token" /\ tx[c].tokens[call[c].key] # Same
                   THEN AfterDelete(d) ELSE @]

Committed(c) ==
    /\ call[c].pc = "commit"
    /\ Apply(c)
    /\ tx' = [tx EXCEPT ![c] = NoWrites]
    /\ UNCHANGED used

Commit(c) ==
    /\ Committed(c)
    /\ call' = [d \in Call |->
                    IF d = c THEN [call[c] EXCEPT !.pc = "answered", !.status = "ok"]
                    ELSE Overtaken(c, d)]
    /\ IF call[c].op = "sign_out"
       THEN revoked' = revoked \cup {call[c].key} /\ UNCHANGED granted
       ELSE granted' = granted \cup {call[c].key} /\ UNCHANGED revoked

(* The connection fails during the COMMIT, which took effect or did not.   *)
CommitFails(c) ==
    /\ DatabaseFails
    /\ \/ /\ Committed(c)
          /\ call' = [d \in Call |->
                        IF d = c
                        THEN [call[c] EXCEPT !.pc = "answered", !.failed = TRUE,
                                             !.status = ErrorStatus(c)]
                        ELSE Overtaken(c, d)]
          /\ UNCHANGED <<granted, revoked>>
       \/ /\ call[c].pc = "commit"
          /\ Answer(c, ErrorStatus(c), TRUE)
          /\ UNCHANGED <<tables, used, history>>

(* The process ends: every transaction is rolled back, nobody is answered. *)
Restart ==
    /\ CanRestart
    /\ tx' = [c \in Call |-> NoWrites]
    /\ call' = [c \in Call |-> Idle]
    /\ UNCHANGED <<tables, used, history>>

userGenerateRefreshToken(c) == InsertRefreshToken(c) \/ AttachRefreshToken(c)

Statement(c) ==
    \/ InsertUser(c) \/ FindUser(c) \/ InsertPrivateKey(c) \/ AttachPrivateKey(c)
    \/ ValidateToken(c) \/ FindUserByPrivateKey(c) \/ GetPrivateKey(c)
    \/ AwaitRefreshToken(c) \/ DeleteRefreshToken(c)
    \/ userGenerateRefreshToken(c)
    \/ DeletePrivateKey(c)

Step(c) == Statement(c) \/ StatementFails(c) \/ Commit(c) \/ CommitFails(c)

Next ==
    \/ \E c \in Call, u \in User, k \in Key : SignUp(c, u, k) \/ SignIn(c, u, k)
    \/ \E c \in Call, k \in Key :
        ExchangeToken(c, k) \/ SignOut(c, k) \/ VerifyToken(c, k)
    \/ \E c \in Call : Step(c) \/ Receive(c)
    \/ Restart

Spec == Init /\ [][Next]_vars

------------------------------------------------------------------------------
(* Properties. *)

(* The tables agree: a private key that is committed is attached to a      *)
(* registered user and has a refresh token of that user, and there is no   *)
(* other token, whatever statements fail and however the transactions of   *)
(* sign-in, exchange and sign-out on one key interleave                    *)
(* (user/service.go:57-175, 274-302).                                      *)
KeysHaveToken ==
    \A k \in Key :
        /\ refresh_tokens[k] = private_keys[k]
        /\ private_keys[k] \in users \cup {None}

(* What a success says stays so: once a sign-out was answered with         *)
(* success, an exchange that read the key before, or that waits for its    *)
(* row, does not bring the key or a token back; and tokens that were       *)
(* handed out are good until a sign-out deletes their key                  *)
(* (user/service.go:123-175, 204-208, 237-241, 267-271, 274-302).          *)
AnswersStand ==
    \A k \in Key :
        /\ k \in revoked => private_keys[k] = None /\ refresh_tokens[k] = None
        /\ k \in granted \ ended => private_keys[k] # None

(* An exchange is refused, which costs the client its cookie               *)
(* (handler.go:213-217), only for a reason: the database failed, the       *)
(* session has ended, or another request for the same key committed while  *)
(* this one was under way.                                                 *)
RefusedForReason ==
    \A c \in Call :
        call[c].op = "exchange" /\ call[c].status = "refused" =>
            call[c].failed \/ call[c].rival \/ call[c].key \in ended
==============================================================================
