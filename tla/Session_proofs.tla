----------------------------- MODULE Session_proofs -----------------------------
(***************************************************************************)
(* Proofs about Identity.tla and Session.tla, for any number of pages,     *)
(* keys and users, with a database that fails and a service that restarts. *)
(* Of the identity service: the tables agree, what a success said stays    *)
(* so, and an exchange is refused for a reason only. Of the browser and    *)
(* the stream service: they use it as Identity describes it, nobody gets   *)
(* through with a session that was signed out before the request began,    *)
(* and who does not sign out stays signed in.                              *)
(***************************************************************************)
EXTENDS Session, TLAPS

------------------------------------------------------------------------------
(* The identity service. *)

Creators == {"sign_up", "sign_in"}

(* The request of c creates the key that it names. *)
Creating(c) == call[c].op \in Creators /\ call[c].pc \notin {"idle", "answered"}

(* A request names a key that was generated, and stays among the           *)
(* statements of its handler.                                              *)
CallOk(c) ==
    LET r == call[c] IN
    /\ r.pc = "idle" => r = Idle
    /\ r.pc # "idle" => r.key \in used
    /\ r.pc # "answered" => r.status = "none"
    /\ r.pc = "insert_user" => r.op = "sign_up"
    /\ r.pc = "find_user" => r.op = "sign_in"
    /\ r.pc \in {"insert_key", "attach_key"} => r.op \in Creators
    /\ r.pc = "validate" => r.op \in {"exchange", "verify"}
    /\ r.pc \in {"find_owner", "get_key"} => r.op = "exchange"
    /\ r.pc \in {"delete_token", "await_token"} => r.op \in {"exchange", "sign_out"}
    /\ r.pc \in {"insert_token", "attach_token"} => r.op \in Creators \cup {"exchange"}
    /\ r.pc = "delete_key" => r.op = "sign_out"
    /\ r.pc = "commit" => r.op # "verify"
    /\ r.op \in Creators => r.user \in User
    /\ r.pc # "idle" /\ r.op \notin Creators => r.key \in granted

(* A transaction writes rows of its own key only. *)
TxOk(c) ==
    /\ call[c].pc \in {"idle", "answered", "insert_user", "find_user", "validate",
                       "find_owner", "get_key", "delete_token", "await_token"} =>
            tx[c] = NoWrites
    /\ \A j \in Key \ {call[c].key} : tx[c].keys[j] = Same /\ tx[c].tokens[j] = Same

(* Nobody knows the key yet that a sign-up or a sign-in creates.           *)
CreatorOk(c) ==
    LET r == call[c]
        k == call[c].key IN
    Creating(c) =>
        /\ k \notin granted
        /\ private_keys[k] = None
        /\ refresh_tokens[k] = None
        /\ r.pc \notin {"insert_user", "find_user"} =>
                r.user \in users \/ tx[c].user = r.user
        /\ r.pc = "insert_key" => tx[c].keys[k] = Same
        /\ r.pc = "attach_key" => tx[c].keys[k] = Loose
        /\ r.pc \in {"insert_token", "attach_token", "commit"} => tx[c].keys[k] = r.user
        /\ r.pc \in {"insert_key", "attach_key", "insert_token"} => tx[c].tokens[k] = Same
        /\ r.pc = "attach_token" => tx[c].tokens[k] = Loose
        /\ r.pc = "commit" => tx[c].tokens[k] = r.user

(* The key is still its user's when an exchange has inserted a token.      *)
ExchangeOk(c) ==
    LET r == call[c]
        k == call[c].key IN
    r.op = "exchange" =>
        /\ tx[c].keys[k] = Same
        /\ r.pc \in {"get_key", "delete_token", "await_token", "insert_token",
                     "attach_token", "commit"} =>
                r.user \in User /\ private_keys[k] \in {r.user, None}
        /\ r.pc = "insert_token" =>
                /\ tx[c].tokens[k] \in {Same, None}
                /\ r.rival \/ k \in ended \/ tx[c].tokens[k] = None
        /\ r.pc = "attach_token" => tx[c].tokens[k] = Loose
        /\ r.pc = "commit" => tx[c].tokens[k] = r.user
        /\ r.pc \in {"attach_token", "commit"} => private_keys[k] = r.user

(* A sign-out that commits leaves neither the key nor a token.             *)
SignOutOk(c) ==
    LET r == call[c]
        k == call[c].key IN
    r.op = "sign_out" =>
        /\ r.pc = "delete_key" => tx[c].tokens[k] \in {Same, None} /\ tx[c].keys[k] = Same
        /\ r.pc = "commit" =>
                /\ tx[c].keys[k] = None \/ (tx[c].keys[k] = Same /\ private_keys[k] = None)
                /\ tx[c].tokens[k] = None \/ (tx[c].tokens[k] = Same /\ refresh_tokens[k] = None)

RefusedOk(c) ==
    call[c].op = "exchange" /\ call[c].status = "refused" =>
        call[c].failed \/ call[c].rival \/ call[c].key \in ended

RequestOk(c) ==
    CallOk(c) /\ TxOk(c) /\ CreatorOk(c) /\ ExchangeOk(c) /\ SignOutOk(c) /\ RefusedOk(c)

(* No other request names a key that c creates, and a key that d deletes   *)
(* has no token that c inserts.                                            *)
Apart(c, d) ==
    /\ Creating(c) => call[d].key # call[c].key
    /\ \A k \in Key : tx[d].keys[k] = None => tx[c].tokens[k] \in {Same, None}

(* Only keys that were generated have rows, or are known to anyone.        *)
KeysKnown ==
    /\ \A k \in Key \ used : private_keys[k] = None /\ refresh_tokens[k] = None
    /\ granted \subseteq used
    /\ revoked \subseteq granted

IInv ==
    /\ TypeOK
    /\ KeysHaveToken
    /\ AnswersStand
    /\ KeysKnown
    /\ \A c \in Call : RequestOk(c)
    /\ \A c, d \in Call : c # d => Apart(c, d)

------------------------------------------------------------------------------
(* How the building blocks of the actions change the request and the       *)
(* transaction of c, and no other.                                         *)

Others(c) == \A d \in Call \ {c} : call'[d] = call[d] /\ tx'[d] = tx[d]

SameRequest(c) ==
    /\ call'[c].op = call[c].op
    /\ call'[c].key = call[c].key
    /\ call'[c].user = call[c].user

LEMMA GotoMoves ==
    ASSUME TypeOK, NEW c \in Call, NEW pc \in Location, Goto(c, pc)
    PROVE  /\ call' \in [Call -> Request]
           /\ SameRequest(c)
           /\ call'[c].pc = pc
           /\ call'[c].status = call[c].status
           /\ call'[c].rival = call[c].rival
           /\ call'[c].failed = call[c].failed
           /\ \A d \in Call \ {c} : call'[d] = call[d]
  BY DEF TypeOK, Goto, Request, SameRequest

LEMMA AnswerMoves ==
    ASSUME TypeOK, NEW c \in Call, NEW status \in Status, NEW failed \in BOOLEAN,
           Answer(c, status, failed)
    PROVE  /\ call' \in [Call -> Request]
           /\ tx' \in [Call -> Writes]
           /\ SameRequest(c)
           /\ call'[c].pc = "answered"
           /\ call'[c].status = status
           /\ call'[c].rival = call[c].rival
           /\ call'[c].failed = failed
           /\ tx'[c] = NoWrites
           /\ Others(c)
  <1>1. NoWrites \in Writes
    BY DEF NoWrites, Writes, Row
  <1>2. "answered" \in Location
    BY DEF Location
  <1> QED
    BY <1>1, <1>2 DEF TypeOK, Answer, Request, SameRequest, Others

LEMMA WriteKeyWrites ==
    ASSUME TypeOK, NEW c \in Call, call[c].key \in Key, NEW row \in Row, WriteKey(c, row)
    PROVE  /\ tx' \in [Call -> Writes]
           /\ tx'[c].user = tx[c].user
           /\ tx'[c].tokens = tx[c].tokens
           /\ tx'[c].keys[call[c].key] = row
           /\ \A j \in Key \ {call[c].key} : tx'[c].keys[j] = tx[c].keys[j]
           /\ \A d \in Call \ {c} : tx'[d] = tx[d]
  BY DEF TypeOK, WriteKey, Writes

LEMMA WriteTokenWrites ==
    ASSUME TypeOK, NEW c \in Call, call[c].key \in Key, NEW row \in Row, WriteToken(c, row)
    PROVE  /\ tx' \in [Call -> Writes]
           /\ tx'[c].user = tx[c].user
           /\ tx'[c].keys = tx[c].keys
           /\ tx'[c].tokens[call[c].key] = row
           /\ \A j \in Key \ {call[c].key} : tx'[c].tokens[j] = tx[c].tokens[j]
           /\ \A d \in Call \ {c} : tx'[d] = tx[d]
  BY DEF TypeOK, WriteToken, Writes

(* A request that has begun names a key; what a transaction without writes *)
(* sees is what is committed.                                              *)
LEMMA BegunHasKey ==
    ASSUME IInv, NEW c \in Call, call[c].pc # "idle"
    PROVE  call[c].key \in Key
  BY DEF IInv, RequestOk, CallOk, TypeOK

LEMMA NothingWritten ==
    /\ NoWrites.user = None
    /\ \A k \in Key : NoWrites.keys[k] = Same /\ NoWrites.tokens[k] = Same
  BY DEF NoWrites

(* A step of one request that commits nothing keeps the invariant when it  *)
(* keeps the part about that request.                                      *)
LEMMA LocalStep ==
    ASSUME IInv, NEW c \in Call,
           UNCHANGED <<tables, history>>,
           used \subseteq used', used' \subseteq Key,
           call' \in [Call -> Request], tx' \in [Call -> Writes],
           Others(c), RequestOk(c)',
           \A d \in Call \ {c} : Apart(c, d)' /\ Apart(d, c)'
    PROVE  IInv'
  <1>1. TypeOK'
    BY DEF IInv, TypeOK, tables, history
  <1>2. KeysHaveToken' /\ AnswersStand' /\ KeysKnown'
    BY DEF IInv, KeysHaveToken, AnswersStand, KeysKnown, tables, history
  <1>3. ASSUME NEW d \in Call \ {c} PROVE RequestOk(d)'
    <2>1. RequestOk(d) /\ call'[d] = call[d] /\ tx'[d] = tx[d]
      BY DEF IInv, Others
    <2>2. CallOk(d)'
      BY <2>1 DEF RequestOk, CallOk, history
    <2>3. TxOk(d)'
      BY <2>1 DEF RequestOk, TxOk
    <2>4. CreatorOk(d)'
      BY <2>1 DEF RequestOk, CreatorOk, Creating, tables, history
    <2>5. ExchangeOk(d)'
      BY <2>1 DEF RequestOk, ExchangeOk, tables, history
    <2>6. SignOutOk(d)' /\ RefusedOk(d)'
      BY <2>1 DEF RequestOk, SignOutOk, RefusedOk, tables, history
    <2> QED
      BY <2>2, <2>3, <2>4, <2>5, <2>6 DEF RequestOk
  <1>4. ASSUME NEW d \in Call, NEW e \in Call, d # e PROVE Apart(d, e)'
    <2>1. CASE d # c /\ e # c
      BY <2>1, <1>4 DEF IInv, Apart, Creating, Others
    <2> QED
      BY <2>1, <1>4
  <1> QED
    BY <1>1, <1>2, <1>3, <1>4 DEF IInv

(* Requests stay apart when one goes on and its transaction deletes no     *)
(* further key and inserts no further token.                               *)
LEMMA StillApart ==
    ASSUME IInv, NEW c \in Call, Others(c),
           call'[c].key = call[c].key, Creating(c)' => Creating(c),
           \A k \in Key :
                /\ tx'[c].keys[k] = None => tx[c].keys[k] = None
                /\ tx[c].tokens[k] \in {Same, None} => tx'[c].tokens[k] \in {Same, None}
    PROVE  \A d \in Call \ {c} : Apart(c, d)' /\ Apart(d, c)'
  BY DEF IInv, Apart, Creating, Others

(* An answer that commits nothing.                                         *)
LEMMA AnswerKeeps ==
    ASSUME IInv, NEW c \in Call, call[c].pc # "idle",
           NEW status \in Status \ {"none"}, NEW failed \in BOOLEAN,
           Answer(c, status, failed),
           UNCHANGED <<tables, used, history>>,
           call[c].op = "exchange" /\ status = "refused" =>
                failed \/ call[c].rival \/ call[c].key \in ended
    PROVE  IInv'
  <1>1. /\ call' \in [Call -> Request] /\ tx' \in [Call -> Writes]
        /\ SameRequest(c) /\ call'[c].pc = "answered" /\ call'[c].status = status
        /\ call'[c].rival = call[c].rival /\ call'[c].failed = failed
        /\ tx'[c] = NoWrites /\ Others(c)
    BY AnswerMoves DEF IInv
  <1>2. RequestOk(c) /\ TypeOK
    BY DEF IInv
  <1>3. CallOk(c)'
    BY <1>1, <1>2 DEF RequestOk, CallOk, SameRequest, history
  <1>4. TxOk(c)' /\ CreatorOk(c)' /\ SignOutOk(c)'
    BY <1>1, NothingWritten DEF TxOk, CreatorOk, Creating, SignOutOk
  <1>5. ExchangeOk(c)'
    BY <1>1, NothingWritten, BegunHasKey DEF ExchangeOk, SameRequest
  <1>6. RefusedOk(c)'
    BY <1>1 DEF RefusedOk, SameRequest, history
  <1>7. \A d \in Call \ {c} : Apart(c, d)' /\ Apart(d, c)'
    <2>1. call'[c].key = call[c].key /\ (Creating(c)' => Creating(c))
      BY <1>1 DEF SameRequest, Creating
    <2>2. \A k \in Key : tx'[c].keys[k] = Same /\ tx'[c].tokens[k] = Same
      BY <1>1, NothingWritten
    <2> QED
      BY <1>1, <2>1, <2>2, StillApart, IdentityAssumption DEF IdentityAssumption
  <1> QED
    BY <1>1, <1>3, <1>4, <1>5, <1>6, <1>7, LocalStep DEF RequestOk, IInv, TypeOK

------------------------------------------------------------------------------
(* Requests. *)

LEMMA InitInv == Init => IInv
  <1> SUFFICES ASSUME Init PROVE IInv
    OBVIOUS
  <1>1. NoWrites \in Writes /\ Idle \in Request
    BY DEF NoWrites, Writes, Row, Idle, Request, Location, Operation, Status
  <1>2. TypeOK
    BY <1>1, IdentityAssumption DEF Init, TypeOK, Row, IdentityAssumption
  <1>3. KeysHaveToken /\ AnswersStand /\ KeysKnown
    BY DEF Init, KeysHaveToken, AnswersStand, KeysKnown
  <1>4. ASSUME NEW c \in Call PROVE RequestOk(c)
    <2>1. call[c] = Idle /\ tx[c] = NoWrites
      BY DEF Init
    <2>2. CallOk(c) /\ TxOk(c)
      BY <2>1, NothingWritten DEF CallOk, TxOk, Idle, Creators
    <2>3. CreatorOk(c) /\ ExchangeOk(c) /\ SignOutOk(c) /\ RefusedOk(c)
      BY <2>1 DEF CreatorOk, Creating, ExchangeOk, SignOutOk, RefusedOk, Idle
    <2> QED
      BY <2>2, <2>3 DEF RequestOk
  <1>5. ASSUME NEW c \in Call, NEW d \in Call PROVE Apart(c, d)
    <2>1. call[c] = Idle /\ tx[c] = NoWrites
      BY DEF Init
    <2> QED
      BY <2>1, NothingWritten DEF Apart, Creating, Idle
  <1> QED
    BY <1>2, <1>3, <1>4, <1>5 DEF IInv

(* A request that arrives has written nothing.                             *)
LEMMA Arrives ==
    ASSUME IInv, NEW c \in Call, NEW op \in Operation, NEW pc \in Location,
           NEW u \in User \cup {None}, NEW k \in Key, Arrive(c, op, pc, u, k)
    PROVE  /\ call' \in [Call -> Request] /\ tx' \in [Call -> Writes]
           /\ Others(c)
           /\ call'[c].op = op /\ call'[c].pc = pc
           /\ call'[c].user = u /\ call'[c].key = k
           /\ call'[c].status = "none"
           /\ tx'[c] = NoWrites /\ tx[c] = NoWrites
           /\ UNCHANGED <<tables, history>>
  <1>1. tx[c] = NoWrites
    BY DEF IInv, RequestOk, TxOk, Arrive
  <1>2. [Idle EXCEPT !.pc = pc, !.op = op, !.user = u, !.key = k] \in Request
    BY DEF Idle, Request, Status
  <1>3. call'[c] = [Idle EXCEPT !.pc = pc, !.op = op, !.user = u, !.key = k]
    BY DEF Arrive, IInv, TypeOK
  <1>4. /\ call'[c].op = op /\ call'[c].pc = pc /\ call'[c].user = u
        /\ call'[c].key = k /\ call'[c].status = "none"
    BY <1>3 DEF Idle
  <1> QED
    BY <1>1, <1>2, <1>4 DEF Arrive, IInv, TypeOK, Others

LEMMA CreatorArrives ==
    ASSUME IInv, NEW c \in Call, NEW u \in User, NEW k \in Key,
           SignUp(c, u, k) \/ SignIn(c, u, k)
    PROVE  IInv'
  <1>1. PICK op \in Creators, pc \in {"insert_user", "find_user"} :
            /\ Arrive(c, op, pc, u, k)
            /\ op = "sign_up" <=> pc = "insert_user"
    BY DEF SignUp, SignIn, Creators
  <1>2. k \notin used /\ used' = used \cup {k}
    BY DEF SignUp, SignIn, CreatePrivateKeyAsJwsMessage
  <1>3. /\ call' \in [Call -> Request] /\ tx' \in [Call -> Writes]
        /\ Others(c)
        /\ call'[c].op = op /\ call'[c].pc = pc
        /\ call'[c].user = u /\ call'[c].key = k
        /\ call'[c].status = "none"
        /\ tx'[c] = NoWrites /\ tx[c] = NoWrites
        /\ UNCHANGED <<tables, history>>
    BY <1>1, Arrives DEF Creators, Operation, Location
  <1>4. k \notin granted /\ private_keys[k] = None /\ refresh_tokens[k] = None
    BY <1>2 DEF IInv, KeysKnown
  <1>5. CallOk(c)'
    BY <1>1, <1>2, <1>3 DEF CallOk, Creators
  <1>6. CreatorOk(c)'
    BY <1>1, <1>3, <1>4 DEF CreatorOk, tables, history
  <1>7. TxOk(c)' /\ ExchangeOk(c)' /\ SignOutOk(c)' /\ RefusedOk(c)'
    BY <1>1, <1>3, NothingWritten DEF TxOk, ExchangeOk, SignOutOk, RefusedOk, Creators
  <1>8. ASSUME NEW d \in Call \ {c} PROVE Apart(c, d)' /\ Apart(d, c)'
    <2>1. call'[d] = call[d] /\ tx'[d] = tx[d]
      BY <1>3 DEF Others
    <2>2. call[d].key # k
      <3>1. CASE call[d].pc = "idle"
        BY <3>1, IdentityAssumption DEF IInv, RequestOk, CallOk, Idle, IdentityAssumption
      <3>2. CASE call[d].pc # "idle"
        BY <3>2, <1>2 DEF IInv, RequestOk, CallOk
      <3> QED
        BY <3>1, <3>2
    <2>3. \A j \in Key : tx'[c].keys[j] = Same /\ tx'[c].tokens[j] = Same
      BY <1>3, NothingWritten
    <2> QED
      BY <1>3, <2>1, <2>2, <2>3, IdentityAssumption DEF Apart, Creating, IdentityAssumption
  <1>9. used' \subseteq Key
    BY <1>2 DEF IInv, TypeOK
  <1> QED
    BY <1>2, <1>3, <1>5, <1>6, <1>7, <1>8, <1>9, LocalStep DEF RequestOk

LEMMA OtherArrives ==
    ASSUME IInv, NEW c \in Call, NEW k \in Key,
           ExchangeToken(c, k) \/ SignOut(c, k) \/ VerifyToken(c, k)
    PROVE  IInv'
  <1>1. PICK op \in {"exchange", "sign_out", "verify"}, pc \in {"validate", "delete_token"} :
            /\ Arrive(c, op, pc, None, k)
            /\ op = "sign_out" <=> pc = "delete_token"
    BY DEF ExchangeToken, SignOut, VerifyToken
  <1>2. k \in granted /\ used' = used /\ k \in used /\ used \subseteq Key
    BY DEF ExchangeToken, SignOut, VerifyToken, Authenticate, IInv, KeysKnown, TypeOK
  <1>3. /\ call' \in [Call -> Request] /\ tx' \in [Call -> Writes]
        /\ Others(c)
        /\ call'[c].op = op /\ call'[c].pc = pc
        /\ call'[c].key = k /\ call'[c].status = "none"
        /\ tx'[c] = NoWrites /\ tx[c] = NoWrites
        /\ UNCHANGED <<tables, history>>
    BY <1>1, Arrives DEF Operation, Location
  <1>5. CallOk(c)'
    BY <1>1, <1>2, <1>3 DEF CallOk, Creators, history
  <1>6. TxOk(c)' /\ SignOutOk(c)' /\ RefusedOk(c)'
    BY <1>1, <1>3, NothingWritten DEF TxOk, SignOutOk, RefusedOk
  <1>7. CreatorOk(c)' /\ ExchangeOk(c)'
    BY <1>1, <1>3, NothingWritten DEF CreatorOk, Creating, Creators, ExchangeOk
  <1>8. ASSUME NEW d \in Call \ {c} PROVE Apart(c, d)' /\ Apart(d, c)'
    <2>1. call'[d] = call[d] /\ tx'[d] = tx[d]
      BY <1>3 DEF Others
    <2>2. Creating(d) => call[d].key # k
      BY <1>2 DEF IInv, RequestOk, CreatorOk
    <2>3. \A j \in Key : tx'[c].keys[j] = Same /\ tx'[c].tokens[j] = Same
      BY <1>3, NothingWritten
    <2>4. ~Creating(c)'
      BY <1>3, <1>1 DEF Creating, Creators
    <2> QED
      BY <1>3, <2>1, <2>2, <2>3, <2>4, IdentityAssumption
      DEF Apart, Creating, IdentityAssumption
  <1> QED
    BY <1>2, <1>3, <1>5, <1>6, <1>7, <1>8, LocalStep DEF RequestOk

LEMMA ReceiveKeeps ==
    ASSUME IInv, NEW c \in Call, Receive(c)
    PROVE  IInv'
  <1>1. tx[c] = NoWrites /\ tx' = tx /\ used' = used /\ UNCHANGED <<tables, history>>
    BY DEF IInv, RequestOk, TxOk, Receive
  <1>2. Idle \in Request
    BY DEF Idle, Request, Location, Operation, Status
  <1>3. /\ call' \in [Call -> Request] /\ tx' \in [Call -> Writes] /\ used' \subseteq Key
        /\ Others(c) /\ call'[c] = Idle
    BY <1>1, <1>2 DEF Receive, IInv, TypeOK, Others
  <1>4. RequestOk(c)'
    BY <1>1, <1>3, NothingWritten
    DEF RequestOk, CallOk, TxOk, CreatorOk, Creating, Creators, ExchangeOk, SignOutOk,
        RefusedOk, Idle
  <1>5. ASSUME NEW d \in Call \ {c} PROVE Apart(c, d)' /\ Apart(d, c)'
    <2>1. Apart(c, d) /\ Apart(d, c) /\ call'[d] = call[d]
      BY <1>3 DEF IInv, Others
    <2>2. Creating(d) => call[d].key \in Key
      BY BegunHasKey DEF Creating
    <2>3. call'[c].key = None /\ ~Creating(c)'
      BY <1>3 DEF Idle, Creating
    <2> QED
      BY <1>1, <2>1, <2>2, <2>3, IdentityAssumption DEF Apart, Creating, IdentityAssumption
  <1> QED
    BY <1>1, <1>3, <1>4, <1>5, LocalStep

------------------------------------------------------------------------------
(* Statements. *)

(* A request that goes on to its next statement, and commits nothing.      *)
LEMMA GoesOn ==
    ASSUME IInv, NEW c \in Call, NEW pc \in Location \ {"idle", "answered"},
           call[c].pc \notin {"idle", "answered"}, Goto(c, pc),
           UNCHANGED <<tables, used, history>>,
           tx' \in [Call -> Writes], \A d \in Call \ {c} : tx'[d] = tx[d],
           CallOk(c)', TxOk(c)', CreatorOk(c)', ExchangeOk(c)', SignOutOk(c)',
           \A d \in Call \ {c} : Apart(c, d)' /\ Apart(d, c)'
    PROVE  IInv'
  <1>1. /\ call' \in [Call -> Request] /\ SameRequest(c)
        /\ call'[c].status = call[c].status /\ Others(c)
    BY GotoMoves DEF IInv, Others
  <1>2. RefusedOk(c)'
    BY <1>1 DEF IInv, RequestOk, CallOk, RefusedOk
  <1> QED
    BY <1>1, <1>2, LocalStep DEF RequestOk, IInv, TypeOK

(* The same, when the transaction inserts no token and deletes no row.     *)
LEMMA GoesOnApart ==
    ASSUME IInv, NEW c \in Call, NEW pc \in Location \ {"idle", "answered"},
           call[c].pc \notin {"idle", "answered"}, Goto(c, pc),
           UNCHANGED <<tables, used, history>>,
           tx' \in [Call -> Writes], \A d \in Call \ {c} : tx'[d] = tx[d],
           CallOk(c)', TxOk(c)', CreatorOk(c)', ExchangeOk(c)', SignOutOk(c)',
           \A k \in Key :
                /\ tx'[c].keys[k] = None => tx[c].keys[k] = None
                /\ tx[c].tokens[k] \in {Same, None} => tx'[c].tokens[k] \in {Same, None}
    PROVE  IInv'
  <1>1. SameRequest(c) /\ call'[c].pc = pc /\ Others(c)
    BY GotoMoves DEF IInv, Others
  <1>2. call'[c].key = call[c].key /\ (Creating(c)' => Creating(c))
    BY <1>1 DEF SameRequest, Creating
  <1>3. \A d \in Call \ {c} : Apart(c, d)' /\ Apart(d, c)'
    BY <1>1, <1>2, StillApart
  <1> QED
    BY <1>3, GoesOn

LEMMA InsertUserKeeps ==
    ASSUME IInv, NEW c \in Call, InsertUser(c)
    PROVE  IInv'
  <1> DEFINE u == call[c].user
             k == call[c].key
  <1>1. call[c].pc = "insert_user" /\ RequestOk(c) /\ call[c].op = "sign_up" /\ TypeOK
    BY DEF InsertUser, IInv, RequestOk, CallOk
  <1>2. CASE Violates(c)
    BY <1>1, <1>2, AnswerKeeps DEF Violates, ErrorStatus, Status
  <1>3. CASE /\ tx' = [tx EXCEPT ![c].user = u]
             /\ Goto(c, "insert_key")
             /\ UNCHANGED <<tables, used, history>>
    <2>1. /\ SameRequest(c) /\ call'[c].pc = "insert_key"
          /\ call'[c].status = call[c].status /\ call'[c].rival = call[c].rival
      BY <1>1, <1>3, GotoMoves DEF Location
    <2>2. u \in User /\ k \in Key /\ tx[c] = NoWrites
      BY <1>1, BegunHasKey DEF RequestOk, CallOk, TxOk, Creators
    <2>3. tx' \in [Call -> Writes] /\ \A d \in Call \ {c} : tx'[d] = tx[d]
      BY <1>1, <1>3, <2>2 DEF TypeOK, Writes
    <2>4. tx'[c].user = u /\ \A j \in Key : tx'[c].keys[j] = Same /\ tx'[c].tokens[j] = Same
      BY <1>1, <1>3, <2>2, NothingWritten DEF TypeOK, Writes
    <2>5. CallOk(c)' /\ TxOk(c)'
      BY <1>1, <1>3, <2>1, <2>4 DEF RequestOk, CallOk, TxOk, SameRequest, Creators, history
    <2>6. CreatorOk(c)'
      BY <1>1, <1>3, <2>1, <2>2, <2>4
      DEF RequestOk, CreatorOk, Creating, Creators, SameRequest, tables, history
    <2>7. ExchangeOk(c)' /\ SignOutOk(c)'
      BY <1>1, <2>1 DEF ExchangeOk, SignOutOk, SameRequest
    <2>8. \A j \in Key : tx'[c].keys[j] # None /\ tx'[c].tokens[j] \in {Same, None}
      BY <2>4, IdentityAssumption DEF IdentityAssumption
    <2> QED
      BY <1>1, <1>3, <2>3, <2>5, <2>6, <2>7, <2>8, GoesOnApart DEF Location
  <1> QED
    BY <1>2, <1>3 DEF InsertUser

LEMMA FindUserKeeps ==
    ASSUME IInv, NEW c \in Call, FindUser(c)
    PROVE  IInv'
  <1>1. call[c].pc = "find_user" /\ RequestOk(c) /\ call[c].op = "sign_in" /\ TypeOK
    BY DEF FindUser, IInv, RequestOk, CallOk
  <1>2. UNCHANGED <<tables, used, history>>
    BY DEF FindUser
  <1>3. CASE Answer(c, "not_found", FALSE) \/ Answer(c, "unprocessable", FALSE)
    BY <1>1, <1>2, <1>3, AnswerKeeps DEF Status
  <1>4. CASE call[c].user \in users /\ Goto(c, "insert_key") /\ UNCHANGED tx
    <2>1. SameRequest(c) /\ call'[c].pc = "insert_key" /\ call'[c].status = call[c].status
      BY <1>1, <1>4, GotoMoves DEF Location
    <2>2. tx[c] = NoWrites
      BY <1>1 DEF RequestOk, TxOk
    <2>3. CallOk(c)' /\ TxOk(c)'
      BY <1>1, <1>2, <1>4, <2>1
      DEF RequestOk, CallOk, TxOk, SameRequest, Creators, history
    <2>4. CreatorOk(c)'
      BY <1>1, <1>2, <1>4, <2>1, <2>2, NothingWritten, BegunHasKey
      DEF RequestOk, CreatorOk, Creating, Creators, SameRequest, tables, history
    <2>5. ExchangeOk(c)' /\ SignOutOk(c)'
      BY <1>1, <2>1 DEF ExchangeOk, SignOutOk, SameRequest
    <2> QED
      BY <1>1, <1>2, <1>4, <2>3, <2>4, <2>5, GoesOnApart DEF Location, TypeOK
  <1> QED
    BY <1>3, <1>4 DEF FindUser, FindUserByUsername

LEMMA InsertPrivateKeyKeeps ==
    ASSUME IInv, NEW c \in Call, InsertPrivateKey(c) \/ AttachPrivateKey(c)
    PROVE  IInv'
  <1> DEFINE k == call[c].key
  <1>1. PICK row \in Row, pc \in {"attach_key", "insert_token"} :
            /\ WriteKey(c, row) /\ Goto(c, pc)
            /\ row = IF pc = "attach_key" THEN Loose ELSE call[c].user
    BY DEF InsertPrivateKey, AttachPrivateKey, Row, IInv, TypeOK, Request
  <1>2. /\ call[c].pc \in {"insert_key", "attach_key"}
        /\ RequestOk(c) /\ call[c].op \in Creators /\ TypeOK
        /\ UNCHANGED <<tables, used, history>>
    BY DEF InsertPrivateKey, AttachPrivateKey, IInv, RequestOk, CallOk
  <1>3. k \in Key /\ call[c].user \in User
    BY <1>2, BegunHasKey DEF RequestOk, CallOk
  <1>4. SameRequest(c) /\ call'[c].pc = pc /\ call'[c].status = call[c].status
    BY <1>1, <1>2, GotoMoves DEF Location
  <1>5. /\ tx' \in [Call -> Writes] /\ tx'[c].user = tx[c].user
        /\ tx'[c].tokens = tx[c].tokens /\ tx'[c].keys[k] = row
        /\ \A j \in Key \ {k} : tx'[c].keys[j] = tx[c].keys[j]
        /\ \A d \in Call \ {c} : tx'[d] = tx[d]
    BY <1>1, <1>2, <1>3, WriteKeyWrites
  <1>6. CallOk(c)' /\ TxOk(c)'
    BY <1>1, <1>2, <1>4, <1>5
    DEF RequestOk, CallOk, TxOk, SameRequest, Creators, history
  <1>7. CreatorOk(c)'
    BY <1>1, <1>2, <1>3, <1>4, <1>5
    DEF RequestOk, CreatorOk, Creating, Creators, SameRequest, tables, history
  <1>8. ExchangeOk(c)' /\ SignOutOk(c)'
    BY <1>2, <1>4 DEF ExchangeOk, SignOutOk, SameRequest, Creators
  <1>9. row # None
    BY <1>1, <1>3, IdentityAssumption DEF IdentityAssumption
  <1> QED
    BY <1>1, <1>2, <1>3, <1>5, <1>6, <1>7, <1>8, <1>9, GoesOnApart DEF Location

LEMMA ValidateTokenKeeps ==
    ASSUME IInv, NEW c \in Call, ValidateToken(c)
    PROVE  IInv'
  <1>1. /\ call[c].pc = "validate" /\ RequestOk(c) /\ TypeOK
        /\ call[c].op \in {"exchange", "verify"} /\ call[c].key \in granted
        /\ UNCHANGED <<tables, used, history>>
    BY DEF ValidateToken, IInv, RequestOk, CallOk, Creators
  <1>2. CASE private_keys[call[c].key] = None /\ Answer(c, ErrorStatus(c), FALSE)
    <2>1. call[c].key \in ended
      BY <1>1, <1>2, BegunHasKey DEF IInv, AnswersStand
    <2> QED
      BY <1>1, <1>2, <2>1, AnswerKeeps DEF ErrorStatus, Status
  <1>3. CASE call[c].op = "verify" /\ Answer(c, "ok", FALSE)
    BY <1>1, <1>3, AnswerKeeps DEF Status
  <1>4. CASE call[c].op = "exchange" /\ Goto(c, "find_owner") /\ UNCHANGED tx
    <2>1. SameRequest(c) /\ call'[c].pc = "find_owner" /\ call'[c].status = call[c].status
      BY <1>1, <1>4, GotoMoves DEF Location
    <2>2. CallOk(c)' /\ TxOk(c)'
      BY <1>1, <1>4, <2>1 DEF RequestOk, CallOk, TxOk, SameRequest, Creators, history
    <2>3. CreatorOk(c)' /\ SignOutOk(c)' /\ ExchangeOk(c)'
      BY <1>1, <1>4, <2>1
      DEF RequestOk, CreatorOk, Creating, Creators, SignOutOk, ExchangeOk, SameRequest
    <2> QED
      BY <1>1, <1>4, <2>2, <2>3, GoesOnApart DEF Location, TypeOK
  <1> QED
    BY <1>1, <1>2, <1>3, <1>4 DEF ValidateToken, GetPrivateKeyById

LEMMA FindOwnerKeeps ==
    ASSUME IInv, NEW c \in Call, FindUserByPrivateKey(c)
    PROVE  IInv'
  <1> DEFINE k == call[c].key
  <1>1. /\ call[c].pc = "find_owner" /\ RequestOk(c) /\ TypeOK
        /\ call[c].op = "exchange" /\ k \in granted /\ k \in Key
    BY BegunHasKey DEF FindUserByPrivateKey, IInv, RequestOk, CallOk, Creators
  <1>2. CASE private_keys[k] \notin User /\ Violates(c)
    <2>1. private_keys[k] = None /\ k \in ended
      BY <1>1, <1>2 DEF IInv, KeysHaveToken, AnswersStand, TypeOK
    <2> QED
      BY <1>1, <1>2, <2>1, AnswerKeeps DEF Violates, ErrorStatus, Status
  <1>3. CASE /\ private_keys[k] \in User
             /\ call' = [call EXCEPT ![c].pc = "get_key", ![c].user = private_keys[k]]
             /\ UNCHANGED <<tables, tx, used, history>>
    <2>1. /\ call' \in [Call -> Request]
          /\ call'[c].op = call[c].op /\ call'[c].key = k
          /\ call'[c].user = private_keys[k] /\ call'[c].pc = "get_key"
          /\ call'[c].status = call[c].status
          /\ Others(c)
      <3> DEFINE r == [call[c] EXCEPT !.pc = "get_key", !.user = private_keys[k]]
      <3>1. call[c] \in Request /\ call \in [Call -> Request] /\ k \in Key
        BY <1>1 DEF TypeOK
      <3>2. /\ r \in Request /\ r.op = call[c].op /\ r.key = k /\ r.status = call[c].status
            /\ r.user = private_keys[k] /\ r.pc = "get_key"
        BY <1>3, <3>1 DEF Request, Location
      <3>3. call' = [call EXCEPT ![c] = r]
        BY <1>3
      <3> HIDE DEF r
      <3> QED
        BY <1>3, <3>1, <3>2, <3>3 DEF Others
    <2>2. CallOk(c)' /\ TxOk(c)'
      BY <1>1, <1>3, <2>1 DEF RequestOk, CallOk, TxOk, Creators, history
    <2>3. CreatorOk(c)' /\ SignOutOk(c)' /\ RefusedOk(c)'
      BY <1>1, <2>1
      DEF RequestOk, CallOk, CreatorOk, Creating, Creators, SignOutOk, RefusedOk
    <2>4. ExchangeOk(c)'
      BY <1>1, <1>3, <2>1 DEF RequestOk, ExchangeOk, tables
    <2>5. call'[c].key = call[c].key /\ ~Creating(c)'
      BY <1>1, <2>1 DEF Creating, Creators
    <2>6. \A d \in Call \ {c} : Apart(c, d)' /\ Apart(d, c)'
      BY <1>3, <2>1, <2>5, StillApart
    <2> QED
      BY <1>1, <1>3, <2>1, <2>2, <2>3, <2>4, <2>6, LocalStep DEF RequestOk, TypeOK
  <1> QED
    BY <1>2, <1>3 DEF FindUserByPrivateKey

LEMMA GetPrivateKeyKeeps ==
    ASSUME IInv, NEW c \in Call, GetPrivateKey(c)
    PROVE  IInv'
  <1> DEFINE k == call[c].key
  <1>1. /\ call[c].pc = "get_key" /\ RequestOk(c) /\ TypeOK
        /\ call[c].op = "exchange" /\ k \in granted /\ k \in Key
    BY BegunHasKey DEF GetPrivateKey, IInv, RequestOk, CallOk, Creators
  <1>2. CASE private_keys[k] = None /\ Violates(c)
    <2>1. k \in ended
      BY <1>1, <1>2 DEF IInv, AnswersStand
    <2> QED
      BY <1>1, <1>2, <2>1, AnswerKeeps DEF Violates, ErrorStatus, Status
  <1>3. CASE Goto(c, "delete_token") /\ UNCHANGED <<tables, tx, used, history>>
    <2>1. /\ SameRequest(c) /\ call'[c].pc = "delete_token"
          /\ call'[c].status = call[c].status
      BY <1>1, <1>3, GotoMoves DEF Location
    <2>2. CallOk(c)' /\ TxOk(c)'
      BY <1>1, <1>3, <2>1 DEF RequestOk, CallOk, TxOk, SameRequest, Creators, history
    <2>3. CreatorOk(c)' /\ SignOutOk(c)' /\ ExchangeOk(c)'
      BY <1>1, <1>3, <2>1
      DEF RequestOk, CreatorOk, Creating, Creators, SignOutOk, ExchangeOk, SameRequest,
          tables
    <2> QED
      BY <1>1, <1>3, <2>2, <2>3, GoesOnApart DEF Location, TypeOK
  <1> QED
    BY <1>2, <1>3 DEF GetPrivateKey, GetPrivateKeyById

LEMMA AwaitRefreshTokenKeeps ==
    ASSUME IInv, NEW c \in Call, AwaitRefreshToken(c)
    PROVE  IInv'
  <1>1. /\ call[c].pc = "delete_token" /\ RequestOk(c) /\ TypeOK
        /\ call[c].op \in {"exchange", "sign_out"}
        /\ Goto(c, "await_token") /\ UNCHANGED <<tables, tx, used, history>>
    BY DEF AwaitRefreshToken, IInv, RequestOk, CallOk
  <1>2. SameRequest(c) /\ call'[c].pc = "await_token" /\ call'[c].status = call[c].status
    BY <1>1, GotoMoves DEF Location
  <1>3. CallOk(c)' /\ TxOk(c)'
    BY <1>1, <1>2 DEF RequestOk, CallOk, TxOk, SameRequest, Creators, history
  <1>4. CreatorOk(c)' /\ SignOutOk(c)' /\ ExchangeOk(c)'
    BY <1>1, <1>2
    DEF RequestOk, CreatorOk, Creating, Creators, SignOutOk, ExchangeOk, SameRequest,
        tables
  <1> QED
    BY <1>1, <1>3, <1>4, GoesOnApart DEF Location, TypeOK

LEMMA DeleteRefreshTokenKeeps ==
    ASSUME IInv, NEW c \in Call, DeleteRefreshToken(c)
    PROVE  IInv'
  <1> DEFINE k == call[c].key
             pc == AfterDelete(c)
  <1>1. /\ call[c].pc \in {"delete_token", "await_token"} /\ RequestOk(c) /\ TypeOK
        /\ call[c].op \in {"exchange", "sign_out"} /\ k \in granted /\ k \in Key
        /\ Goto(c, pc) /\ UNCHANGED <<tables, used, history>>
        /\ tx[c] = NoWrites
    BY BegunHasKey DEF DeleteRefreshToken, IInv, RequestOk, CallOk, TxOk, Creators
  <1>2. /\ pc \in {"insert_token", "delete_key"}
        /\ pc = "insert_token" <=> call[c].op = "exchange"
    BY <1>1 DEF AfterDelete
  <1>3. SameRequest(c) /\ call'[c].pc = pc /\ call'[c].status = call[c].status
    BY <1>1, <1>2, GotoMoves DEF Location
  <1>4. /\ tx' \in [Call -> Writes] /\ \A d \in Call \ {c} : tx'[d] = tx[d]
        /\ tx'[c].keys = tx[c].keys
        /\ \A j \in Key \ {k} : tx'[c].tokens[j] = Same
        /\ tx'[c].tokens[k] \in {Same, None}
        /\ refresh_tokens[k] = None \/ tx'[c].tokens[k] = None
    <2>1. CASE refresh_tokens[k] = None /\ UNCHANGED tx
      BY <1>1, <2>1, NothingWritten DEF TypeOK
    <2>2. CASE WriteToken(c, None)
      BY <1>1, <2>2, WriteTokenWrites, NothingWritten DEF Row
    <2> QED
      BY <2>1, <2>2 DEF DeleteRefreshToken
  <1>5. CallOk(c)' /\ TxOk(c)'
    BY <1>1, <1>2, <1>3, <1>4, NothingWritten
    DEF RequestOk, CallOk, TxOk, SameRequest, Creators, history
  <1>6. refresh_tokens[k] = None => k \in ended
    BY <1>1 DEF IInv, KeysHaveToken, AnswersStand
  <1>7. ExchangeOk(c)'
    BY <1>1, <1>2, <1>3, <1>4, <1>6, NothingWritten
    DEF RequestOk, ExchangeOk, SameRequest, tables, history
  <1>8. CreatorOk(c)' /\ SignOutOk(c)'
    BY <1>1, <1>2, <1>3, <1>4, NothingWritten
    DEF CreatorOk, Creating, Creators, SignOutOk, SameRequest
  <1>9. \A j \in Key : tx'[c].tokens[j] \in {Same, None}
    BY <1>4
  <1> QED
    BY <1>1, <1>2, <1>4, <1>5, <1>7, <1>8, <1>9, GoesOnApart DEF Location

(* The key an exchange, or a creator, inserts a token for is its user's,   *)
(* and nobody deletes it.                                                  *)
LEMMA InsertRefreshTokenKeeps ==
    ASSUME IInv, NEW c \in Call, InsertRefreshToken(c)
    PROVE  IInv'
  <1> DEFINE k == call[c].key
  <1>1. /\ call[c].pc = "insert_token" /\ RequestOk(c) /\ TypeOK
        /\ call[c].op \in Creators \cup {"exchange"} /\ k \in Key
        /\ UNCHANGED <<tables, used, history>>
    BY BegunHasKey DEF InsertRefreshToken, IInv, RequestOk, CallOk, Violates
  <1>2. CASE (SeesToken(c, k) # None \/ SeesKey(c, k) = None) /\ Violates(c)
    <2>1. ASSUME call[c].op = "exchange" PROVE call[c].rival \/ k \in ended
      <3>1. /\ tx[c].keys[k] = Same /\ tx[c].tokens[k] \in {Same, None}
            /\ call[c].rival \/ k \in ended \/ tx[c].tokens[k] = None
        BY <1>1, <2>1 DEF RequestOk, ExchangeOk
      <3>2. SeesToken(c, k) = None \/ call[c].rival \/ k \in ended
        BY <3>1, IdentityAssumption DEF SeesToken, Sees, IdentityAssumption
      <3>3. private_keys[k] = None => k \in ended
        BY <1>1, <2>1 DEF IInv, RequestOk, CallOk, AnswersStand, Creators
      <3> QED
        BY <1>2, <3>1, <3>2, <3>3 DEF SeesKey, Sees
    <2> QED
      BY <1>1, <1>2, <2>1, AnswerKeeps DEF Violates, ErrorStatus, Status
  <1>3. CASE /\ SeesKey(c, k) # None
             /\ WriteToken(c, Loose) /\ Goto(c, "attach_token")
    <2>1. SameRequest(c) /\ call'[c].pc = "attach_token" /\ call'[c].status = call[c].status
      BY <1>1, <1>3, GotoMoves DEF Location
    <2>2. /\ tx' \in [Call -> Writes] /\ tx'[c].user = tx[c].user
          /\ tx'[c].keys = tx[c].keys /\ tx'[c].tokens[k] = Loose
          /\ \A j \in Key \ {k} : tx'[c].tokens[j] = tx[c].tokens[j]
          /\ \A d \in Call \ {c} : tx'[d] = tx[d]
      BY <1>1, <1>3, WriteTokenWrites DEF Row
    <2>3. CallOk(c)' /\ TxOk(c)'
      BY <1>1, <2>1, <2>2 DEF RequestOk, CallOk, TxOk, SameRequest, Creators, history
    <2>4. CreatorOk(c)'
      BY <1>1, <2>1, <2>2
      DEF RequestOk, CreatorOk, Creating, Creators, SameRequest, tables, history
    <2>5. ExchangeOk(c)'
      BY <1>1, <1>3, <2>1, <2>2
      DEF RequestOk, ExchangeOk, SameRequest, SeesKey, Sees, tables
    <2>6. SignOutOk(c)'
      BY <2>1, <2>3 DEF CallOk, SignOutOk, Creators
    <2>7. \A d \in Call \ {c} : Apart(c, d)' /\ Apart(d, c)'
      <3>1. TAKE d \in Call \ {c}
      <3>2. Apart(c, d) /\ Apart(d, c) /\ tx[d].keys[k] # None
        BY DEF IInv, InsertRefreshToken, KeyDeleting
      <3>3. call'[d] = call[d] /\ tx'[d] = tx[d]
        BY <1>1, <1>3, <2>2, GotoMoves DEF Location
      <3>4. call'[c].key = k /\ (Creating(c)' => Creating(c))
        BY <1>1, <2>1 DEF SameRequest, Creating
      <3>5. Apart(c, d)'
        BY <2>2, <3>2, <3>3, <3>4 DEF Apart
      <3>6. Apart(d, c)'
        BY <2>2, <3>2, <3>3, <3>4 DEF Apart, Creating
      <3> QED
        BY <3>5, <3>6
    <2> QED
      BY <1>1, <1>3, <2>2, <2>3, <2>4, <2>5, <2>6, <2>7, GoesOn DEF Location
  <1> QED
    BY <1>2, <1>3 DEF InsertRefreshToken

LEMMA AttachRefreshTokenKeeps ==
    ASSUME IInv, NEW c \in Call, AttachRefreshToken(c)
    PROVE  IInv'
  <1> DEFINE k == call[c].key
             u == call[c].user
  <1>1. /\ call[c].pc = "attach_token" /\ RequestOk(c) /\ TypeOK
        /\ call[c].op \in Creators \cup {"exchange"} /\ k \in Key
        /\ WriteToken(c, u) /\ Goto(c, "commit") /\ UNCHANGED <<tables, used, history>>
    BY BegunHasKey DEF AttachRefreshToken, IInv, RequestOk, CallOk
  <1>2. u \in User /\ tx[c].tokens[k] = Loose
    BY <1>1 DEF RequestOk, CallOk, CreatorOk, Creating, ExchangeOk
  <1>3. SameRequest(c) /\ call'[c].pc = "commit" /\ call'[c].status = call[c].status
    BY <1>1, GotoMoves DEF Location
  <1>4. /\ tx' \in [Call -> Writes] /\ tx'[c].user = tx[c].user
        /\ tx'[c].keys = tx[c].keys /\ tx'[c].tokens[k] = u
        /\ \A j \in Key \ {k} : tx'[c].tokens[j] = tx[c].tokens[j]
        /\ \A d \in Call \ {c} : tx'[d] = tx[d]
    BY <1>1, <1>2, WriteTokenWrites DEF Row
  <1>5. CallOk(c)' /\ TxOk(c)'
    BY <1>1, <1>3, <1>4 DEF RequestOk, CallOk, TxOk, SameRequest, Creators, history
  <1>6. CreatorOk(c)'
    BY <1>1, <1>3, <1>4
    DEF RequestOk, CreatorOk, Creating, Creators, SameRequest, tables, history
  <1>7. ExchangeOk(c)'
    BY <1>1, <1>3, <1>4 DEF RequestOk, ExchangeOk, SameRequest, tables
  <1>8. SignOutOk(c)'
    BY <1>1, <1>3 DEF SignOutOk, SameRequest, Creators
  <1>9. tx[c].tokens[k] \notin {Same, None}
    BY <1>2, IdentityAssumption DEF IdentityAssumption
  <1> QED
    BY <1>1, <1>4, <1>5, <1>6, <1>7, <1>8, <1>9, GoesOnApart DEF Location

LEMMA DeletePrivateKeyKeeps ==
    ASSUME IInv, NEW c \in Call, DeletePrivateKey(c)
    PROVE  IInv'
  <1> DEFINE k == call[c].key
  <1>1. /\ call[c].pc = "delete_key" /\ RequestOk(c) /\ TypeOK
        /\ call[c].op = "sign_out" /\ k \in Key
        /\ tx[c].tokens[k] \in {Same, None} /\ tx[c].keys[k] = Same
        /\ UNCHANGED <<tables, used, history>>
    BY BegunHasKey DEF DeletePrivateKey, IInv, RequestOk, CallOk, SignOutOk, Violates
  <1>2. CASE Violates(c)
    BY <1>1, <1>2, AnswerKeeps DEF Violates, ErrorStatus, Status
  <1>3. CASE /\ SeesToken(c, k) = None
             /\ IF private_keys[k] = None THEN UNCHANGED tx ELSE WriteKey(c, None)
             /\ Goto(c, "commit")
    <2>1. SameRequest(c) /\ call'[c].pc = "commit" /\ call'[c].status = call[c].status
      BY <1>1, <1>3, GotoMoves DEF Location
    <2>2. /\ tx' \in [Call -> Writes] /\ \A d \in Call \ {c} : tx'[d] = tx[d]
          /\ tx'[c].tokens = tx[c].tokens
          /\ \A j \in Key \ {k} : tx'[c].keys[j] = tx[c].keys[j]
          /\ tx'[c].keys[k] = None \/ (tx'[c].keys[k] = Same /\ private_keys[k] = None)
      <3>1. CASE private_keys[k] = None /\ UNCHANGED tx
        BY <1>1, <3>1 DEF TypeOK
      <3>2. CASE WriteKey(c, None)
        BY <1>1, <3>2, WriteKeyWrites DEF Row
      <3> QED
        BY <1>3, <3>1, <3>2
    <2>3. CallOk(c)' /\ TxOk(c)'
      BY <1>1, <2>1, <2>2 DEF RequestOk, CallOk, TxOk, SameRequest, Creators, history
    <2>4. CreatorOk(c)' /\ ExchangeOk(c)'
      BY <1>1, <2>1 DEF CreatorOk, Creating, Creators, ExchangeOk, SameRequest
    <2>5. SignOutOk(c)'
      BY <1>1, <1>3, <2>1, <2>2 DEF SignOutOk, SameRequest, SeesToken, Sees, tables
    <2>6. \A d \in Call \ {c} : Apart(c, d)' /\ Apart(d, c)'
      <3>1. TAKE d \in Call \ {c}
      <3>2. /\ Apart(c, d) /\ Apart(d, c)
            /\ tx[d].tokens[k] \in {Same, None}
        BY DEF IInv, DeletePrivateKey, KeyLocked
      <3>3. call'[d] = call[d] /\ tx'[d] = tx[d]
        BY <1>1, <1>3, <2>2, GotoMoves DEF Location
      <3>4. call'[c].key = k /\ (Creating(c)' => Creating(c))
        BY <1>1, <2>1 DEF SameRequest, Creating
      <3>5. Apart(c, d)'
        BY <2>2, <3>2, <3>3, <3>4 DEF Apart
      <3>6. Apart(d, c)'
        BY <2>2, <3>2, <3>3, <3>4 DEF Apart, Creating
      <3> QED
        BY <3>5, <3>6
    <2> QED
      BY <1>1, <1>3, <2>2, <2>3, <2>4, <2>5, <2>6, GoesOn DEF Location
  <1> QED
    BY <1>2, <1>3 DEF DeletePrivateKey

LEMMA StatementFailsKeeps ==
    ASSUME IInv, NEW c \in Call, StatementFails(c)
    PROVE  IInv'
  BY AnswerKeeps DEF StatementFails, ErrorStatus, Status

------------------------------------------------------------------------------
(* The end of a transaction. *)

(* What the COMMIT of c makes of the tables: a key whose sign-out commits  *)
(* has no rows, any other is its user's and so is its token.               *)
LEMMA CommitWrites ==
    ASSUME IInv, NEW c \in Call, Committed(c)
    PROVE  /\ call[c].key \in Key /\ call[c].op \in Creators \cup {"exchange", "sign_out"}
           /\ users \subseteq users' /\ users' \subseteq User
           /\ private_keys' \in [Key -> Row] /\ refresh_tokens' \in [Key -> Row]
           /\ \A j \in Key \ {call[c].key} :
                private_keys'[j] = private_keys[j] /\ refresh_tokens'[j] = refresh_tokens[j]
           /\ call[c].op # "sign_out" =>
                /\ call[c].user \in users'
                /\ private_keys'[call[c].key] = call[c].user
                /\ refresh_tokens'[call[c].key] = call[c].user
           /\ call[c].op = "sign_out" =>
                private_keys'[call[c].key] = None /\ refresh_tokens'[call[c].key] = None
  <1> DEFINE k == call[c].key
             u == call[c].user
  <1>1. /\ call[c].pc = "commit" /\ RequestOk(c) /\ TypeOK /\ k \in Key
        /\ call[c].op \in Creators \cup {"exchange", "sign_out"}
    <2>1. call[c].op \in Operation
      BY DEF IInv, TypeOK, Request
    <2> QED
      BY <2>1, BegunHasKey DEF Committed, IInv, RequestOk, CallOk, Operation, Creators
  <1>2. /\ users' = users \cup ({tx[c].user} \ {None})
        /\ \A j \in Key : private_keys'[j] = SeesKey(c, j) /\ refresh_tokens'[j] = SeesToken(c, j)
        /\ private_keys' = [j \in Key |-> SeesKey(c, j)]
        /\ refresh_tokens' = [j \in Key |-> SeesToken(c, j)]
    BY DEF Committed, Apply
  <1>3. users \subseteq users' /\ users' \subseteq User
    BY <1>1, <1>2 DEF TypeOK, Writes
  <1>4. \A j \in Key : SeesKey(c, j) \in Row /\ SeesToken(c, j) \in Row
    BY <1>1 DEF TypeOK, Writes, SeesKey, SeesToken, Sees
  <1>5. \A j \in Key \ {k} :
            private_keys'[j] = private_keys[j] /\ refresh_tokens'[j] = refresh_tokens[j]
    BY <1>1, <1>2 DEF RequestOk, TxOk, SeesKey, SeesToken, Sees
  <1>6. CASE call[c].op \in Creators
    <2>1. /\ tx[c].keys[k] = u /\ tx[c].tokens[k] = u /\ u \in User
          /\ u \in users \/ tx[c].user = u
      BY <1>1, <1>6 DEF RequestOk, CallOk, CreatorOk, Creating
    <2>2. u # Same /\ u # None
      BY <2>1, IdentityAssumption DEF IdentityAssumption
    <2> QED
      BY <1>1, <1>2, <1>3, <1>4, <1>5, <1>6, <2>1, <2>2
      DEF SeesKey, SeesToken, Sees, Creators
  <1>7. CASE call[c].op = "exchange"
    <2>1. /\ tx[c].keys[k] = Same /\ tx[c].tokens[k] = u /\ u \in User
          /\ private_keys[k] = u
      BY <1>1, <1>7 DEF RequestOk, ExchangeOk
    <2>2. u # Same /\ u # None
      BY <2>1, IdentityAssumption DEF IdentityAssumption
    <2>3. u \in users
      BY <1>1, <2>1, <2>2 DEF IInv, KeysHaveToken
    <2> QED
      BY <1>1, <1>2, <1>3, <1>4, <1>5, <1>7, <2>1, <2>2, <2>3
      DEF SeesKey, SeesToken, Sees
  <1>8. CASE call[c].op = "sign_out"
    <2>1. private_keys'[k] = None /\ refresh_tokens'[k] = None
      BY <1>1, <1>2, <1>8, IdentityAssumption
      DEF RequestOk, SignOutOk, SeesKey, SeesToken, Sees, IdentityAssumption
    <2> QED
      BY <1>1, <1>2, <1>3, <1>4, <1>5, <1>8, <2>1
  <1> QED
    BY <1>1, <1>6, <1>7, <1>8

(* A COMMIT keeps the invariant, whether or not its answer says so.        *)
LEMMA CommittedKeeps ==
    ASSUME IInv, NEW c \in Call, Committed(c),
           call' \in [Call -> Request], SameRequest(c),
           call'[c].pc = "answered", call'[c].status # "none",
           call'[c].status = "refused" => call'[c].failed,
           \A d \in Call \ {c} : call'[d] = Overtaken(c, d),
           granted' = granted \/ (call[c].op # "sign_out"
                                  /\ granted' = granted \cup {call[c].key}),
           revoked' = revoked \/ (call[c].op = "sign_out"
                                  /\ revoked' = revoked \cup {call[c].key})
    PROVE  IInv'
  <1> DEFINE k == call[c].key
             u == call[c].user
  <1>1. /\ call[c].pc = "commit" /\ RequestOk(c) /\ TypeOK
        /\ used' = used /\ tx' = [tx EXCEPT ![c] = NoWrites]
        /\ ended' = IF call[c].op = "sign_out" THEN ended \cup {k} ELSE ended
    BY DEF Committed, Apply, IInv
  <1>2. /\ k \in Key /\ call[c].op \in Creators \cup {"exchange", "sign_out"}
        /\ users \subseteq users' /\ users' \subseteq User
        /\ private_keys' \in [Key -> Row] /\ refresh_tokens' \in [Key -> Row]
        /\ \A j \in Key \ {k} :
            private_keys'[j] = private_keys[j] /\ refresh_tokens'[j] = refresh_tokens[j]
        /\ call[c].op # "sign_out" =>
            u \in users' /\ private_keys'[k] = u /\ refresh_tokens'[k] = u
        /\ call[c].op = "sign_out" => private_keys'[k] = None /\ refresh_tokens'[k] = None
    BY CommitWrites
  <1>3. /\ k \in used
        /\ ~Creating(c) => k \in granted
        /\ Creating(c) <=> call[c].op \in Creators
    BY <1>1 DEF RequestOk, CallOk, Creating
  <1>4. /\ tx' \in [Call -> Writes] /\ tx'[c] = NoWrites
        /\ \A d \in Call \ {c} : tx'[d] = tx[d]
    <2>1. NoWrites \in Writes
      BY DEF NoWrites, Writes, Row
    <2> QED
      BY <1>1, <2>1 DEF TypeOK
  <1>5. TypeOK'
    BY <1>1, <1>2, <1>4 DEF TypeOK
  <1>6. KeysHaveToken'
    BY <1>2 DEF IInv, KeysHaveToken
  <1>7. AnswersStand'
    <2>1. call[c].op # "sign_out" => k \notin revoked
      <3>1. CASE Creating(c)
        BY <1>1, <3>1 DEF IInv, RequestOk, CreatorOk, KeysKnown
      <3>2. CASE call[c].op = "exchange"
        <4>1. private_keys[k] = u /\ u \in User
          BY <1>1, <3>2 DEF RequestOk, ExchangeOk
        <4> QED
          BY <1>2, <4>1, IdentityAssumption DEF IInv, AnswersStand, IdentityAssumption
      <3> QED
        BY <1>2, <1>3, <3>1, <3>2
    <2>2. u \in users' => u # None
      BY <1>2, IdentityAssumption DEF IdentityAssumption
    <2> QED
      BY <1>1, <1>2, <2>1, <2>2 DEF IInv, AnswersStand
  <1>8. KeysKnown'
    BY <1>1, <1>2, <1>3 DEF IInv, KeysKnown, Creators
  <1>9. RequestOk(c)'
    <2>1. CallOk(c)'
      BY <1>1 DEF RequestOk, CallOk, SameRequest
    <2>2. TxOk(c)' /\ CreatorOk(c)' /\ ExchangeOk(c)' /\ SignOutOk(c)'
      BY <1>2, <1>4, NothingWritten
      DEF TxOk, CreatorOk, Creating, ExchangeOk, SignOutOk, SameRequest
    <2>3. RefusedOk(c)'
      BY DEF RefusedOk
    <2> QED
      BY <2>1, <2>2, <2>3 DEF RequestOk
  <1>10. ASSUME NEW d \in Call \ {c}
         PROVE  /\ call'[d].op = call[d].op /\ call'[d].key = call[d].key
                /\ call'[d].user = call[d].user /\ call'[d].status = call[d].status
                /\ call'[d].failed = call[d].failed
                /\ call'[d].rival = call[d].rival \/ call'[d].rival
                /\ \/ call'[d].pc = call[d].pc /\ (call[d].pc = "idle" => call'[d] = call[d])
                   \/ /\ call[d].pc = "await_token" /\ call'[d].pc = AfterDelete(d)
                      /\ call'[d].rival
    <2>1. CASE Overtaken(c, d) = call[d]
      BY <2>1
    <2>2. CASE Overtaken(c, d) =
                [call[d] EXCEPT
                    !.rival = TRUE,
                    !.pc = IF @ = "await_token" /\ tx[c].tokens[k] # Same
                           THEN AfterDelete(d) ELSE @]
               /\ call[d].pc # "idle"
      <3>1. call[d] \in Request
        BY <1>1 DEF TypeOK
      <3>2. call'[d].rival
        BY <2>2, <3>1 DEF Request
      <3>3. /\ call'[d].op = call[d].op /\ call'[d].key = call[d].key
            /\ call'[d].user = call[d].user /\ call'[d].status = call[d].status
            /\ call'[d].failed = call[d].failed
        BY <2>2, <3>1 DEF Request
      <3>4. call'[d].pc = IF call[d].pc = "await_token" /\ tx[c].tokens[k] # Same
                          THEN AfterDelete(d) ELSE call[d].pc
        BY <2>2, <3>1 DEF Request
      <3> QED
        BY <2>2, <3>2, <3>3, <3>4
    <2> QED
      BY <2>1, <2>2 DEF Overtaken
  <1>11. ASSUME NEW d \in Call \ {c}, Creating(c) \/ Creating(d)
         PROVE  call[d].key # k
    BY <1>3, <1>11 DEF IInv, Apart, RequestOk, CreatorOk
  <1>12. ASSUME NEW d \in Call \ {c} PROVE RequestOk(d)'
    <2> DEFINE kd == call[d].key
    <2>1. RequestOk(d) /\ Apart(c, d) /\ Apart(d, c) /\ tx'[d] = tx[d]
      BY <1>4 DEF IInv
    <2>2. AfterDelete(d) \in {"insert_token", "delete_key"}
          /\ (AfterDelete(d) = "insert_token" <=> call[d].op = "exchange")
      BY DEF AfterDelete
    <2>3. CallOk(d)'
      BY <1>1, <1>10, <2>1, <2>2 DEF RequestOk, CallOk, Creators
    <2>4. TxOk(d)'
      BY <1>10, <2>1, <2>2 DEF RequestOk, TxOk
    <2>5. call[d].pc = "await_token" => tx[d] = NoWrites
      BY <2>1 DEF RequestOk, TxOk
    <2>6. call[d].pc # "idle" => kd \in Key
      BY BegunHasKey
    <2>7. CreatorOk(d)'
      <3> SUFFICES ASSUME Creating(d)' PROVE CreatorOk(d)'
        BY DEF CreatorOk
      <3>1. Creating(d) /\ kd # k /\ kd \in Key /\ call'[d].pc = call[d].pc
        BY <1>10, <1>11, <2>1, <2>6 DEF Creating, RequestOk, CallOk, Creators
      <3>2. private_keys'[kd] = private_keys[kd] /\ refresh_tokens'[kd] = refresh_tokens[kd]
        BY <1>2, <3>1
      <3>3. kd \notin granted'
        BY <2>1, <3>1 DEF RequestOk, CreatorOk
      <3> QED
        BY <1>2, <1>10, <2>1, <3>1, <3>2, <3>3 DEF RequestOk, CreatorOk
    <2>8. ExchangeOk(d)'
      <3> SUFFICES ASSUME call[d].op = "exchange" PROVE ExchangeOk(d)'
        BY <1>10 DEF ExchangeOk
      <3>1. kd \in Key /\ ended \subseteq ended'
        BY <1>1, <2>1, <2>6 DEF RequestOk, CallOk, Idle
      <3>2. private_keys'[kd] \in {private_keys[kd], None}
        <4>1. CASE kd # k
          BY <1>2, <3>1, <4>1
        <4>2. CASE kd = k /\ call[c].op = "exchange"
          BY <1>1, <1>2, <4>2 DEF RequestOk, ExchangeOk
        <4>3. CASE kd = k /\ call[c].op = "sign_out"
          BY <1>2, <4>3
        <4> QED
          BY <1>2, <1>3, <1>11, <4>1, <4>2, <4>3
      <3>3. ASSUME call[d].pc \in {"attach_token", "commit"}
            PROVE  private_keys'[kd] = private_keys[kd]
        <4>1. /\ private_keys[kd] = call[d].user /\ call[d].user \in User
              /\ tx[d].tokens[kd] \in {Loose, call[d].user}
          BY <2>1, <3>3 DEF RequestOk, ExchangeOk
        <4>2. tx[d].tokens[kd] \notin {Same, None} /\ private_keys[kd] # None
          BY <4>1, IdentityAssumption DEF IdentityAssumption
        <4>3. tx[c].keys[kd] # None
          BY <2>1, <3>1, <4>2 DEF Apart
        <4>4. ~(kd = k /\ call[c].op = "sign_out")
          BY <1>1, <4>2, <4>3 DEF RequestOk, SignOutOk
        <4>5. CASE kd # k
          BY <1>2, <3>1, <4>5
        <4>6. CASE kd = k /\ call[c].op = "exchange"
          BY <1>1, <1>2, <4>6 DEF RequestOk, ExchangeOk
        <4> QED
          BY <1>2, <1>3, <1>11, <4>4, <4>5, <4>6
      <3> QED
        BY <1>10, <2>1, <2>2, <2>5, <3>1, <3>2, <3>3, NothingWritten
        DEF RequestOk, ExchangeOk
    <2>9. SignOutOk(d)'
      <3> SUFFICES ASSUME call[d].op = "sign_out" PROVE SignOutOk(d)'
        BY <1>10 DEF SignOutOk
      <3>1. CASE call'[d].pc = "delete_key"
        <4>1. kd \in Key /\ call[d].pc \in {"delete_key", "await_token"}
          BY <1>10, <2>6, <3>1
        <4> QED
          BY <1>10, <2>1, <2>5, <3>1, <4>1, NothingWritten DEF RequestOk, SignOutOk
      <3>2. CASE call'[d].pc = "commit"
        <4>1. call[d].pc = "commit" /\ kd \in Key
          BY <1>10, <2>2, <2>6, <3>2
        <4>2. CASE kd # k
          BY <1>2, <1>10, <2>1, <4>1, <4>2 DEF RequestOk, SignOutOk
        <4>3. CASE kd = k /\ call[c].op = "sign_out"
          BY <1>2, <1>10, <2>1, <4>1, <4>3 DEF RequestOk, SignOutOk
        <4>4. CASE kd = k /\ call[c].op = "exchange"
          <5>1. /\ private_keys[k] = u /\ tx[c].tokens[k] = u /\ u \in User
            BY <1>1, <4>4 DEF RequestOk, ExchangeOk
          <5>2. u \notin {Same, None}
            BY <5>1, IdentityAssumption DEF IdentityAssumption
          <5>3. tx[d].keys[k] = None
            BY <2>1, <4>1, <4>4, <5>1, <5>2 DEF RequestOk, SignOutOk
          <5> QED
            BY <1>2, <2>1, <5>1, <5>2, <5>3 DEF Apart
        <4> QED
          BY <1>2, <1>3, <1>11, <4>2, <4>3, <4>4
      <3> QED
        BY <3>1, <3>2 DEF SignOutOk
    <2>10. RefusedOk(d)'
      BY <1>1, <1>10, <2>1 DEF RequestOk, RefusedOk
    <2> QED
      BY <2>3, <2>4, <2>7, <2>8, <2>9, <2>10 DEF RequestOk
  <1>13. ASSUME NEW d \in Call, NEW e \in Call, d # e PROVE Apart(d, e)'
    <2>1. \A f \in Call : call'[f].key = call[f].key /\ (Creating(f)' => Creating(f))
      <3>1. TAKE f \in Call
      <3>2. CASE f = c
        BY <3>2 DEF SameRequest, Creating
      <3>3. CASE f # c
        BY <1>10, <3>3 DEF Creating, IInv, RequestOk, CallOk
      <3> QED
        BY <3>2, <3>3
    <2>2. \A f \in Call, j \in Key :
            /\ tx'[f].keys[j] = None => tx[f].keys[j] = None
            /\ tx[f].tokens[j] \in {Same, None} => tx'[f].tokens[j] \in {Same, None}
      BY <1>4, NothingWritten, IdentityAssumption DEF IdentityAssumption
    <2> QED
      BY <1>13, <2>1, <2>2 DEF IInv, Apart
  <1> QED
    BY <1>5, <1>6, <1>7, <1>8, <1>9, <1>12, <1>13 DEF IInv

(* The requests after a COMMIT are requests. *)
LEMMA OvertakenType ==
    ASSUME TypeOK, NEW c \in Call, NEW d \in Call
    PROVE  Overtaken(c, d) \in Request
  <1>1. AfterDelete(d) \in Location
    BY DEF AfterDelete, Location
  <1> QED
    BY <1>1 DEF Overtaken, TypeOK, Request

LEMMA CommitKeeps ==
    ASSUME IInv, NEW c \in Call, Commit(c)
    PROVE  IInv'
  <1> DEFINE answer == [call[c] EXCEPT !.pc = "answered", !.status = "ok"]
  <1>1. answer \in Request
    BY DEF IInv, TypeOK, Request, Location, Status
  <1>2. \A d \in Call : call'[d] = IF d = c THEN answer ELSE Overtaken(c, d)
    BY DEF Commit
  <1>3. call' \in [Call -> Request]
    BY <1>1, OvertakenType DEF Commit, IInv
  <1>4. SameRequest(c) /\ call'[c].pc = "answered" /\ call'[c].status = "ok"
    BY <1>2 DEF SameRequest, IInv, TypeOK, Request
  <1> QED
    BY <1>2, <1>3, <1>4, CommittedKeeps DEF Commit

LEMMA CommitFailsKeeps ==
    ASSUME IInv, NEW c \in Call, CommitFails(c)
    PROVE  IInv'
  <1> DEFINE answer == [call[c] EXCEPT !.pc = "answered", !.failed = TRUE,
                                       !.status = ErrorStatus(c)]
  <1>1. CASE /\ Committed(c)
             /\ call' = [d \in Call |-> IF d = c THEN answer ELSE Overtaken(c, d)]
             /\ UNCHANGED <<granted, revoked>>
    <2>1. answer \in Request
      <3>1. call[c] \in Request
        BY DEF IInv, TypeOK
      <3>2. ErrorStatus(c) \in Status /\ "answered" \in Location
        BY DEF ErrorStatus, Status, Location
      <3> QED
        BY <3>1, <3>2 DEF Request
    <2>2. \A d \in Call : call'[d] = IF d = c THEN answer ELSE Overtaken(c, d)
      BY <1>1
    <2>3. call' \in [Call -> Request]
      BY <1>1, <2>1, OvertakenType DEF IInv
    <2>4. /\ SameRequest(c) /\ call'[c].pc = "answered"
          /\ call'[c].status # "none" /\ call'[c].failed
      BY <2>2 DEF SameRequest, IInv, TypeOK, Request, ErrorStatus
    <2> QED
      BY <1>1, <2>2, <2>3, <2>4, CommittedKeeps
  <1>2. CASE /\ call[c].pc = "commit"
             /\ Answer(c, ErrorStatus(c), TRUE)
             /\ UNCHANGED <<tables, used, history>>
    BY <1>2, AnswerKeeps DEF ErrorStatus, Status
  <1> QED
    BY <1>1, <1>2 DEF CommitFails

LEMMA RestartKeeps ==
    ASSUME IInv, Restart
    PROVE  IInv'
  <1>1. \A c \in Call : call'[c] = Idle /\ tx'[c] = NoWrites
    BY DEF Restart
  <1>2. NoWrites \in Writes /\ Idle \in Request
    BY DEF NoWrites, Writes, Row, Idle, Request, Location, Operation, Status
  <1>3. TypeOK'
    BY <1>2 DEF Restart, IInv, TypeOK, tables, history
  <1>4. KeysHaveToken' /\ AnswersStand' /\ KeysKnown'
    BY DEF Restart, IInv, KeysHaveToken, AnswersStand, KeysKnown, tables, history
  <1>5. ASSUME NEW c \in Call PROVE RequestOk(c)'
    <2>1. CallOk(c)' /\ RefusedOk(c)'
      <3>1. /\ call'[c] = Idle /\ Idle.pc = "idle" /\ Idle.op = "verify"
            /\ Idle.status = "none"
        BY <1>1 DEF Idle
      <3> QED
        BY <3>1 DEF CallOk, Creators, RefusedOk
    <2>2. TxOk(c)'
      BY <1>1, NothingWritten DEF TxOk, Idle
    <2>3. CreatorOk(c)' /\ ExchangeOk(c)' /\ SignOutOk(c)'
      BY <1>1 DEF CreatorOk, Creating, ExchangeOk, SignOutOk, Idle
    <2> QED
      BY <2>1, <2>2, <2>3 DEF RequestOk
  <1>6. ASSUME NEW c \in Call, NEW d \in Call PROVE Apart(c, d)'
    BY <1>1, NothingWritten DEF Apart, Creating, Idle
  <1> QED
    BY <1>3, <1>4, <1>5, <1>6 DEF IInv

LEMMA StepKeeps ==
    ASSUME IInv, NEW c \in Call, Step(c)
    PROVE  IInv'
  <1>1. CASE InsertUser(c) \/ FindUser(c)
    BY <1>1, InsertUserKeeps, FindUserKeeps
  <1>2. CASE InsertPrivateKey(c) \/ AttachPrivateKey(c)
    BY <1>2, InsertPrivateKeyKeeps
  <1>3. CASE ValidateToken(c) \/ FindUserByPrivateKey(c) \/ GetPrivateKey(c)
    BY <1>3, ValidateTokenKeeps, FindOwnerKeeps, GetPrivateKeyKeeps
  <1>4. CASE AwaitRefreshToken(c) \/ DeleteRefreshToken(c)
    BY <1>4, AwaitRefreshTokenKeeps, DeleteRefreshTokenKeeps
  <1>5. CASE InsertRefreshToken(c) \/ AttachRefreshToken(c) \/ DeletePrivateKey(c)
    BY <1>5, InsertRefreshTokenKeeps, AttachRefreshTokenKeeps, DeletePrivateKeyKeeps
  <1>6. CASE StatementFails(c) \/ Commit(c) \/ CommitFails(c)
    BY <1>6, StatementFailsKeeps, CommitKeeps, CommitFailsKeeps
  <1> QED
    BY <1>1, <1>2, <1>3, <1>4, <1>5, <1>6 DEF Step, Statement, userGenerateRefreshToken

LEMMA StutterKeeps ==
    ASSUME IInv, UNCHANGED vars
    PROVE  IInv'
  BY DEF IInv, TypeOK, KeysHaveToken, AnswersStand, KeysKnown, RequestOk, CallOk, TxOk,
         CreatorOk, Creating, ExchangeOk, SignOutOk, RefusedOk, Apart, vars, tables, history

LEMMA NextKeeps ==
    ASSUME IInv, [Next]_vars
    PROVE  IInv'
  <1>1. CASE \E c \in Call, u \in User, k \in Key : SignUp(c, u, k) \/ SignIn(c, u, k)
    BY <1>1, CreatorArrives
  <1>2. CASE \E c \in Call, k \in Key :
                ExchangeToken(c, k) \/ SignOut(c, k) \/ VerifyToken(c, k)
    BY <1>2, OtherArrives
  <1>3. CASE \E c \in Call : Step(c) \/ Receive(c)
    BY <1>3, StepKeeps, ReceiveKeeps
  <1>4. CASE Restart \/ UNCHANGED vars
    BY <1>4, RestartKeeps, StutterKeeps
  <1> QED
    BY <1>1, <1>2, <1>3, <1>4 DEF Next

------------------------------------------------------------------------------
(* The invariant holds in every state the identity service reaches.        *)
THEOREM Invariance == Spec => []IInv
  BY InitInv, NextKeeps, PTL DEF Spec

(* Every variable of Identity keeps to its type.                           *)
THEOREM TypeCorrect == Spec => []TypeOK
  BY Invariance, PTL DEF IInv

(* The tables of the identity service agree, however its transactions      *)
(* interleave and whichever statements fail (user/service.go:57-302).      *)
THEOREM TablesAgree == Spec => []KeysHaveToken
  BY Invariance, PTL DEF IInv

(* What a success says stays so: a session that was signed out does not    *)
(* come back, and tokens that were handed out stay good until a sign-out.  *)
THEOREM SuccessStands == Spec => []AnswersStand
  BY Invariance, PTL DEF IInv

(* An exchange is refused only because the database failed, the session    *)
(* ended, or another request for the key committed meanwhile.              *)
THEOREM RefusalHasReason == Spec => []RefusedForReason
  <1>1. IInv => RefusedForReason
    BY DEF IInv, RequestOk, RefusedOk, RefusedForReason
  <1> QED
    BY <1>1, Invariance, PTL

------------------------------------------------------------------------------
(* The browser and the stream service. *)

TokenOrNone == Key \cup {None}
PageOperation == {"none", "sign_up", "login", "logout", "load", "fetch"}
Stage == {"sent", "refresh", "refreshing", "keys", "check", "retry_keys", "retry_check"}
Page == [op : PageOperation, stage : Stage, key : TokenOrNone, dead : SUBSET Key,
         allowed : TokenOrNone]

ClientType ==
    /\ cookie \in TokenOrNone
    /\ access \in [Call -> TokenOrNone]
    /\ page \in [Call -> Page]

(* A fetch that holds a key set holds one that was fetched after it began. *)
PageOk(c) ==
    /\ page[c].dead \subseteq revoked
    /\ page[c].op = "fetch" /\ page[c].stage \in {"check", "retry_check"} =>
            page[c].key \notin page[c].dead
    /\ page[c].allowed \notin page[c].dead

SInv == IInv /\ ClientType /\ \A c \in Call : PageOk(c)

------------------------------------------------------------------------------
(* The identity service, within a step of the client.                      *)

LEMMA GrantedAreKeys == ASSUME IInv, NEW k, Authenticate(k) PROVE k \in Key
  BY DEF IInv, TypeOK, Authenticate

LEMMA PageSteps ==
    ASSUME IInv, NEW c \in Call, PageStep(c)
    PROVE  Next \/ UNCHANGED vars
  <1>1. CASE \/ RegisterDone(c) \/ LoginDone(c) \/ LogoutDone(c) \/ LoadVerified(c)
             \/ LoadDone(c) \/ FetchRefreshed(c)
    BY <1>1 DEF RegisterDone, LoginDone, LogoutDone, LoadVerified, LoadDone,
                FetchRefreshed, Response, Next
  <1>2. CASE LoadRefresh(c)
    BY <1>2, GrantedAreKeys DEF LoadRefresh, ExchangeToken, Next
  <1>3. CASE FetchRefresh(c)
    BY <1>3, GrantedAreKeys DEF FetchRefresh, ExchangeToken, Next
  <1>4. CASE GetKeys(c) \/ CheckToken(c)
    BY <1>4 DEF GetKeys, CheckToken
  <1> QED
    BY <1>1, <1>2, <1>3, <1>4 DEF PageStep

LEMMA ClientSteps ==
    ASSUME IInv, [ClientNext]_allVars
    PROVE  [Next]_vars
  <1>1. CASE \E c \in Call, u \in User, k \in Key : Register(c, u, k) \/ Login(c, u, k)
    BY <1>1 DEF Register, Login, Next
  <1>2. ASSUME NEW c \in Call, Logout(c) \/ LoadAnonymous(c) \/ Load(c) \/ Fetch(c)
        PROVE  [Next]_vars
    <2>1. CASE Logout(c)
      BY <2>1, GrantedAreKeys DEF Logout, SignOut, Next
    <2>2. CASE Load(c)
      BY <2>2, GrantedAreKeys DEF Load, VerifyToken, Next
    <2>3. CASE LoadAnonymous(c) \/ Fetch(c)
      BY <2>3 DEF LoadAnonymous, Fetch
    <2> QED
      BY <1>2, <2>1, <2>2, <2>3
  <1>3. CASE \E c \in Call : PageStep(c) \/ ServiceStep(c)
    BY <1>3, PageSteps DEF ServiceStep, Next
  <1>4. CASE ServiceRestart \/ UNCHANGED allVars
    BY <1>4 DEF ServiceRestart, Next, allVars
  <1> QED
    BY <1>1, <1>2, <1>3, <1>4 DEF ClientNext

(* No step of the identity service takes a sign-out back.                  *)
LEMMA RevokedStays == ASSUME IInv, [Next]_vars PROVE revoked \subseteq revoked'
  <1>1. ASSUME NEW c \in Call, Step(c) PROVE revoked \subseteq revoked'
    BY <1>1 DEF Step, Statement, userGenerateRefreshToken, InsertUser, FindUser,
        InsertPrivateKey, AttachPrivateKey, ValidateToken, FindUserByPrivateKey,
        GetPrivateKey, AwaitRefreshToken, DeleteRefreshToken, InsertRefreshToken,
        AttachRefreshToken, DeletePrivateKey, StatementFails, Commit, CommitFails,
        Violates, history
  <1>2. ASSUME NEW c \in Call, Receive(c) PROVE revoked \subseteq revoked'
    BY <1>2 DEF Receive, history
  <1>3. CASE \E c \in Call, u \in User, k \in Key : SignUp(c, u, k) \/ SignIn(c, u, k)
    BY <1>3 DEF SignUp, SignIn, Arrive, history
  <1>4. CASE \E c \in Call, k \in Key :
                ExchangeToken(c, k) \/ SignOut(c, k) \/ VerifyToken(c, k)
    BY <1>4 DEF ExchangeToken, SignOut, VerifyToken, Arrive, history
  <1>5. CASE Restart \/ UNCHANGED vars
    BY <1>5 DEF Restart, vars, history
  <1> QED
    BY <1>1, <1>2, <1>3, <1>4, <1>5 DEF Next

------------------------------------------------------------------------------
(* The pages. *)

(* The pages are as they were, but for page c, which is as it should be.   *)
Moves(c) ==
    /\ page' \in [Call -> Page]
    /\ \A d \in Call \ {c} : page'[d] = page[d]
    /\ revoked \subseteq revoked' => PageOk(c)'

LEMMA BeginMoves ==
    ASSUME SInv, NEW c \in Call, NEW op \in PageOperation, NEW stage \in Stage,
           NEW k \in TokenOrNone, BeginPage(c, op, stage, k),
           stage \notin {"check", "retry_check"}
    PROVE  Moves(c)
  <1>1. revoked \subseteq Key /\ None \notin revoked
    BY IdentityAssumption DEF SInv, IInv, TypeOK, IdentityAssumption
  <1>2. /\ page' \in [Call -> Page]
        /\ page'[c] = [op |-> op, stage |-> stage, key |-> k, dead |-> revoked,
                       allowed |-> None]
        /\ \A d \in Call \ {c} : page'[d] = page[d]
    BY <1>1 DEF BeginPage, SInv, ClientType, Page, TokenOrNone
  <1> QED
    BY <1>1, <1>2 DEF Moves, PageOk

LEMMA StayMoves ==
    ASSUME SInv, NEW c \in Call, NEW stage \in Stage, Stay(c, stage),
           stage \in {"check", "retry_check"} => page[c].key \notin page[c].dead
    PROVE  Moves(c)
  <1>1. /\ page' \in [Call -> Page]
        /\ page'[c] = [page[c] EXCEPT !.stage = stage]
        /\ \A d \in Call \ {c} : page'[d] = page[d]
    BY DEF Stay, SInv, ClientType, Page
  <1>2. /\ page'[c].stage = stage /\ page'[c].key = page[c].key
        /\ page'[c].dead = page[c].dead /\ page'[c].allowed = page[c].allowed
    BY <1>1 DEF SInv, ClientType, Page
  <1> QED
    BY <1>1, <1>2 DEF Moves, PageOk, SInv

LEMMA EndMoves ==
    ASSUME SInv, NEW c \in Call, NEW allowed \in TokenOrNone, End(c, allowed),
           allowed \notin page[c].dead
    PROVE  Moves(c)
  <1>1. /\ page' \in [Call -> Page]
        /\ page'[c] = [AtRest EXCEPT !.dead = IF allowed = None THEN {} ELSE page[c].dead,
                                     !.allowed = allowed]
        /\ \A d \in Call \ {c} : page'[d] = page[d]
    <2> DEFINE rest == [AtRest EXCEPT !.dead = IF allowed = None THEN {} ELSE page[c].dead,
                                      !.allowed = allowed]
    <2>1. page[c].dead \in SUBSET Key /\ page \in [Call -> Page]
      BY DEF SInv, ClientType, Page
    <2>2. rest \in Page
      BY <2>1 DEF AtRest, Page, PageOperation, Stage, TokenOrNone
    <2> QED
      BY <2>1, <2>2 DEF End
  <1>2. /\ page'[c].op = "none" /\ page'[c].allowed = allowed
        /\ page'[c].dead = IF allowed = None THEN {} ELSE page[c].dead
    BY <1>1 DEF AtRest
  <1> QED
    BY <1>1, <1>2 DEF Moves, PageOk, SInv

(* No sign-out is answered for None.                                       *)
LEMMA NoneAlive == ASSUME SInv, NEW c \in Call PROVE None \notin page[c].dead
  BY IdentityAssumption DEF SInv, ClientType, Page, IdentityAssumption

LEMMA UnauthorizedMoves ==
    ASSUME SInv, NEW c \in Call, Unauthorized(c)
    PROVE  Moves(c)
  BY StayMoves, EndMoves, NoneAlive DEF Unauthorized, TokenOrNone, Stage

(* A key that is in the table was not signed out.                          *)
LEMMA GetKeysMoves ==
    ASSUME SInv, NEW c \in Call, GetKeys(c)
    PROVE  Moves(c)
  <1>1. PublicKeyList(page[c].key) => page[c].key \notin page[c].dead
    BY DEF PublicKeyList, GetPublciKeys, GetPrivateKeyById, SInv, PageOk, IInv,
           AnswersStand, ClientType, Page
  <1> QED
    BY <1>1, StayMoves, UnauthorizedMoves DEF GetKeys, Stage

LEMMA CheckTokenMoves ==
    ASSUME SInv, NEW c \in Call, CheckToken(c)
    PROVE  Moves(c)
  <1>1. page[c].key \notin page[c].dead /\ page[c].key \in TokenOrNone
    BY DEF CheckToken, SInv, PageOk, ClientType, Page
  <1> QED
    BY <1>1, EndMoves, UnauthorizedMoves DEF CheckToken, LetThrough

LEMMA FetchRefreshedMoves ==
    ASSUME SInv, NEW c \in Call, FetchRefreshed(c)
    PROVE  Moves(c)
  <1>1. CASE page' = [page EXCEPT ![c].stage = "retry_keys", ![c].key = Token(c)]
    <2>1. Token(c) \in TokenOrNone
      BY DEF Token, TokenOrNone, SInv, IInv, TypeOK, Request
    <2>2. /\ page' \in [Call -> Page]
          /\ page'[c] = [page[c] EXCEPT !.stage = "retry_keys", !.key = Token(c)]
          /\ \A d \in Call \ {c} : page'[d] = page[d]
      BY <1>1, <2>1 DEF SInv, ClientType, Page, Stage
    <2>3. /\ page'[c].stage = "retry_keys"
          /\ page'[c].dead = page[c].dead /\ page'[c].allowed = page[c].allowed
      BY <2>2 DEF SInv, ClientType, Page
    <2> QED
      BY <2>2, <2>3 DEF Moves, PageOk, SInv
  <1>2. CASE End(c, None)
    BY <1>2, EndMoves, NoneAlive DEF TokenOrNone
  <1> QED
    BY <1>1, <1>2 DEF FetchRefreshed

LEMMA PageStepMoves ==
    ASSUME SInv, NEW c \in Call, PageStep(c)
    PROVE  Moves(c)
  <1>1. CASE RegisterDone(c) \/ LoginDone(c) \/ LogoutDone(c) \/ LoadDone(c)
    BY <1>1, EndMoves, NoneAlive
    DEF RegisterDone, LoginDone, LogoutDone, LoadDone, TokenOrNone
  <1>2. CASE LoadVerified(c) \/ LoadRefresh(c)
    BY <1>2, StayMoves, EndMoves, NoneAlive DEF LoadVerified, LoadRefresh, TokenOrNone, Stage
  <1>3. CASE FetchRefresh(c)
    BY <1>3, StayMoves, EndMoves, NoneAlive DEF FetchRefresh, TokenOrNone, Stage
  <1>4. CASE GetKeys(c) \/ CheckToken(c) \/ FetchRefreshed(c)
    BY <1>4, GetKeysMoves, CheckTokenMoves, FetchRefreshedMoves
  <1> QED
    BY <1>1, <1>2, <1>3, <1>4 DEF PageStep

LEMMA SignInMoves ==
    ASSUME SInv, NEW c \in Call, NEW u \in User, NEW k \in Key,
           Register(c, u, k) \/ Login(c, u, k)
    PROVE  Moves(c)
  BY BeginMoves DEF Register, Login, PageOperation, Stage, TokenOrNone

(* The cookie and the stores of the pages hold tokens.                     *)
LEMMA TokensAreTokens ==
    ASSUME SInv, ClientNext
    PROVE  cookie' \in TokenOrNone /\ access' \in [Call -> TokenOrNone]
  <1>1. \A c \in Call : Token(c) \in TokenOrNone /\ page[c].key \in TokenOrNone
    BY DEF Token, TokenOrNone, SInv, IInv, TypeOK, Request, ClientType, Page
  <1>2. cookie \in TokenOrNone /\ access \in [Call -> TokenOrNone] /\ None \in TokenOrNone
    BY DEF SInv, ClientType, TokenOrNone
  <1>3. CASE \E c \in Call, u \in User, k \in Key : Register(c, u, k) \/ Login(c, u, k)
    BY <1>2, <1>3 DEF Register, Login
  <1>4. CASE \E c \in Call : Logout(c) \/ LoadAnonymous(c) \/ Load(c) \/ Fetch(c)
    BY <1>2, <1>4 DEF Logout, LoadAnonymous, Load, Fetch
  <1>5. ASSUME NEW c \in Call, PageStep(c)
        PROVE  cookie' \in TokenOrNone /\ access' \in [Call -> TokenOrNone]
    BY <1>1, <1>2, <1>5
    DEF PageStep, RegisterDone, LoginDone, LogoutDone, LoadVerified, LoadRefresh,
        LoadDone, GetKeys, CheckToken, FetchRefresh, FetchRefreshed
  <1>6. CASE (\E c \in Call : ServiceStep(c)) \/ ServiceRestart
    BY <1>2, <1>6 DEF ServiceStep, ServiceRestart, client
  <1> QED
    BY <1>3, <1>4, <1>5, <1>6 DEF ClientNext

LEMMA ClientInitInv == ClientInit => SInv
  <1> SUFFICES ASSUME ClientInit PROVE SInv
    OBVIOUS
  <1>1. IInv
    BY InitInv DEF ClientInit
  <1>2. AtRest \in Page
    BY DEF AtRest, Page, PageOperation, Stage, TokenOrNone
  <1>3. ClientType
    BY <1>2 DEF ClientInit, ClientType, TokenOrNone
  <1>4. \A c \in Call : PageOk(c)
    BY DEF ClientInit, PageOk, AtRest
  <1> QED
    BY <1>1, <1>3, <1>4 DEF SInv

LEMMA ClientNextKeeps ==
    ASSUME SInv, [ClientNext]_allVars
    PROVE  SInv'
  <1>1. [Next]_vars /\ IInv' /\ revoked \subseteq revoked'
    BY ClientSteps, NextKeeps, RevokedStays DEF SInv
  <1>2. ASSUME NEW c \in Call, Moves(c)
        PROVE  page' \in [Call -> Page] /\ \A d \in Call : PageOk(d)'
    BY <1>1, <1>2 DEF Moves, PageOk, SInv
  <1>3. ASSUME page' = page
        PROVE  page' \in [Call -> Page] /\ \A d \in Call : PageOk(d)'
    BY <1>1, <1>3 DEF PageOk, SInv, ClientType
  <1>4. ASSUME ClientNext
        PROVE  page' \in [Call -> Page] /\ \A d \in Call : PageOk(d)'
    <2>1. CASE \E c \in Call, u \in User, k \in Key : Register(c, u, k) \/ Login(c, u, k)
      BY <1>2, <2>1, SignInMoves
    <2>2. ASSUME NEW c \in Call, Logout(c) \/ Load(c) \/ Fetch(c) PROVE Moves(c)
      <3>1. cookie \in TokenOrNone /\ access[c] \in TokenOrNone /\ None \in TokenOrNone
        BY DEF SInv, ClientType, TokenOrNone
      <3> QED
        BY <2>2, <3>1, BeginMoves DEF Logout, Load, Fetch, PageOperation, Stage
    <2>3. CASE \E c \in Call : LoadAnonymous(c) \/ ServiceStep(c)
      BY <1>3, <2>3 DEF LoadAnonymous, ServiceStep, client, SInv, ClientType
    <2>4. CASE \E c \in Call : PageStep(c)
      BY <1>2, <2>4, PageStepMoves
    <2>5. CASE ServiceRestart
      <3>1. ASSUME NEW c \in Call PROVE page'[c] \in Page /\ PageOk(c)'
        <4>1. CASE page'[c] = [page[c] EXCEPT !.stage = "refresh"]
          BY <1>1, <4>1 DEF PageOk, SInv, ClientType, Page, Stage
        <4>2. CASE page'[c] = AtRest
          BY <4>2 DEF PageOk, AtRest, Page, PageOperation, Stage, TokenOrNone
        <4>3. CASE page'[c] = page[c]
          BY <1>1, <4>3 DEF PageOk, SInv, ClientType
        <4> QED
          BY <2>5, <4>1, <4>2, <4>3 DEF ServiceRestart
      <3> QED
        BY <2>5, <3>1 DEF ServiceRestart
    <2> QED
      BY <1>2, <1>4, <2>1, <2>2, <2>3, <2>4, <2>5 DEF ClientNext
  <1>5. CASE ClientNext
    BY <1>1, <1>4, <1>5, TokensAreTokens DEF SInv, ClientType
  <1>6. CASE UNCHANGED allVars
    BY <1>1, <1>3, <1>6 DEF SInv, ClientType, allVars, client
  <1> QED
    BY <1>5, <1>6

------------------------------------------------------------------------------
(* The invariant holds in every state the browser and the service reach.   *)
THEOREM ClientInvariance == ClientSpec => []SInv
  BY ClientInitInv, ClientNextKeeps, PTL DEF ClientSpec

(* The browser and the stream service do with the identity service what    *)
(* Identity lets its callers do, and what is proved of Spec holds of it    *)
(* (handler.go:34-300, verifier.go:23-78, asymmetric.go:37-88).            *)
THEOREM ClientUsesIdentity == ClientSpec => Spec
  <1>1. ClientInit => Init
    BY DEF ClientInit
  <1>2. SInv /\ [ClientNext]_allVars => [Next]_vars
    BY ClientSteps DEF SInv
  <1> QED
    BY <1>1, <1>2, ClientInvariance, PTL DEF ClientSpec, Spec

(* An API request made after the sign-out of its session was answered is   *)
(* not let through: the key is fetched anew for each request.              *)
THEOREM NoEntryAfterSignOut == ClientSpec => []SignedOutIsOut
  <1>1. SInv => SignedOutIsOut
    BY DEF SInv, PageOk, SignedOutIsOut
  <1> QED
    BY <1>1, ClientInvariance, PTL
------------------------------------------------------------------------------
(* What holds of the pages and their requests as long as the database has  *)
(* failed none of them and only page loads have overlapped.                *)

Asks(c, op) == call[c].pc # "idle" /\ call[c].op = op

Exchanging(c) == At(c, "load", "refreshing") \/ At(c, "fetch", "refreshing")

(* A request in flight is that of its page.                                *)
Linked(c) ==
    /\ page[c].op = "sign_up" => Asks(c, "sign_up")
    /\ page[c].op = "login" => Asks(c, "sign_in")
    /\ page[c].op = "logout" => Asks(c, "sign_out")
    /\ At(c, "load", "sent") => Asks(c, "verify")
    /\ Exchanging(c) => Asks(c, "exchange")
    /\ call[c].pc # "idle" =>
            \/ page[c].op \in {"sign_up", "login", "logout"}
            \/ At(c, "load", "sent")
            \/ Exchanging(c)

(* What the answers to an exchange, a sign-up and a sign-in may say.       *)
AnswerOk(c) ==
    call[c].pc = "answered" =>
        /\ call[c].op = "exchange" => call[c].status \in {"ok", "refused"}
        /\ call[c].op \in Creators /\ call[c].status = "ok" => call[c].key \in granted

(* A sign-out that took effect, whatever its answer, is final.             *)
EndedGone == \A k \in ended : k \in granted /\ private_keys[k] = None

Fine(c) == call[c].status = "ok" \/ call[c].failed

(* A load is about the cookie, and finds its key; an exchange is about the *)
(* cookie, if there is one, and has no rival; a new session has not ended; *)
(* a sign-out ends the session of the cookie, and says so.                 *)
LoadInOrder(c) ==
    /\ page[c].op = "load" => cookie # None /\ page[c].key = cookie
    /\ At(c, "load", "sent") =>
            /\ call[c].key = cookie
            /\ call[c].pc = "answered" => Fine(c)
    /\ At(c, "load", "refreshing") => call[c].key = cookie

SignInInOrder(c) ==
    /\ At(c, "fetch", "refreshing") =>
            /\ cookie # None => call[c].key = cookie
            /\ ~call[c].rival
    /\ page[c].op = "login" \/ At(c, "fetch", "refreshing") =>
            (call[c].pc = "answered" /\ call[c].status = "ok" => call[c].key \notin ended)

LogoutInOrder(c) ==
    page[c].op = "logout" =>
        /\ ~member
        /\ call[c].key = cookie
        /\ cookie \in ended => call[c].pc = "answered" /\ Fine(c)

(* Two pages that do something are both loaded.                            *)
Alone(c) ==
    \A d \in Call \ {c} :
        page[c].op # "none" /\ page[d].op # "none" =>
            page[c].op = "load" /\ page[d].op = "load"

PageInOrder(c) == LoadInOrder(c) /\ SignInInOrder(c) /\ LogoutInOrder(c) /\ Alone(c)

CookieInOrder ==
    /\ member => cookie # None
    /\ cookie # None => cookie \in granted
    /\ cookie \in ended => \E c \in Call : page[c].op = "logout"

InOrder == CookieInOrder /\ \A c \in Call : PageInOrder(c)

ServiceInv == IInv /\ EndedGone /\ \A c \in Call : AnswerOk(c)

MInv ==
    /\ SInv
    /\ ServiceInv
    /\ \A c \in Call : Linked(c)
    /\ ~troubled => InOrder

------------------------------------------------------------------------------
(* What a request does to itself, the others and the sessions.             *)

(* A statement ends no session and leaves the other requests alone; if it  *)
(* is the last, it is that of a verification, or its request has failed.   *)
Proceeds(c) ==
    /\ UNCHANGED <<tables, history>>
    /\ \A d \in Call \ {c} : call'[d] = call[d]
    /\ call[c].pc \notin {"idle", "answered"} /\ call'[c].pc # "idle"
    /\ call'[c].op = call[c].op /\ call'[c].key = call[c].key
    /\ call'[c].rival = call[c].rival
    /\ call'[c].pc = "answered" =>
        /\ call[c].op = "exchange" => call'[c].status = "refused"
        /\ call[c].op = "verify" =>
                \/ call'[c].status = "ok" \/ call'[c].failed
                \/ private_keys[call[c].key] = None
        /\ call[c].op # "verify" => call'[c].status # "ok"

LEMMA GotoProceeds ==
    ASSUME IInv, NEW c \in Call, NEW pc \in Location \ {"idle", "answered"}, Goto(c, pc),
           call[c].pc \notin {"idle", "answered"},
           UNCHANGED <<tables, history>>
    PROVE  Proceeds(c)
  <1>1. TypeOK
    BY DEF IInv
  <1> QED
    BY <1>1, GotoMoves DEF Proceeds, SameRequest

LEMMA AnswerProceeds ==
    ASSUME IInv, NEW c \in Call, NEW status \in Status, NEW failed \in BOOLEAN,
           Answer(c, status, failed),
           call[c].pc \notin {"idle", "answered"},
           UNCHANGED <<tables, history>>,
           call[c].op = "exchange" => status = "refused",
           call[c].op = "verify" =>
                status = "ok" \/ failed \/ private_keys[call[c].key] = None,
           call[c].op # "verify" => status # "ok"
    PROVE  Proceeds(c)
  <1>1. TypeOK
    BY DEF IInv
  <1> QED
    BY <1>1, AnswerMoves DEF Proceeds, SameRequest, Others

LEMMA ViolatesProceeds ==
    ASSUME IInv, NEW c \in Call, Violates(c),
           call[c].pc \notin {"idle", "answered"}, call[c].op # "verify"
    PROVE  Proceeds(c)
  <1>1. ErrorStatus(c) \in Status /\ ErrorStatus(c) # "ok"
        /\ (call[c].op = "exchange" => ErrorStatus(c) = "refused")
    BY DEF ErrorStatus, Status
  <1>2. UNCHANGED <<tables, history>>
    BY DEF Violates
  <1> QED
    BY <1>1, <1>2, AnswerProceeds DEF Violates

LEMMA StatementProceeds ==
    ASSUME IInv, NEW c \in Call, Statement(c) \/ StatementFails(c)
    PROVE  Proceeds(c)
  <1>0. CallOk(c)
    BY DEF IInv, RequestOk
  <1>1. CASE InsertUser(c)
    BY <1>0, <1>1, GotoProceeds, ViolatesProceeds DEF InsertUser, CallOk, Location
  <1>2. CASE FindUser(c)
    BY <1>0, <1>2, GotoProceeds, AnswerProceeds DEF FindUser, CallOk, Location, Status
  <1>3. CASE InsertPrivateKey(c) \/ AttachPrivateKey(c)
    BY <1>3, GotoProceeds DEF InsertPrivateKey, AttachPrivateKey, Location
  <1>4. CASE ValidateToken(c)
    <2>1. UNCHANGED <<tables, history>> /\ call[c].pc = "validate"
      BY <1>4 DEF ValidateToken
    <2>2. CASE ~GetPrivateKeyById(call[c].key) /\ Answer(c, ErrorStatus(c), FALSE)
      <3>1. ErrorStatus(c) \in Status /\ ErrorStatus(c) # "ok"
            /\ (call[c].op = "exchange" => ErrorStatus(c) = "refused")
        BY DEF ErrorStatus, Status
      <3> QED
        BY <2>1, <2>2, <3>1, AnswerProceeds DEF GetPrivateKeyById
    <2>3. CASE call[c].op = "verify" /\ Answer(c, "ok", FALSE)
      BY <2>1, <2>3, AnswerProceeds DEF Status
    <2>4. CASE Goto(c, "find_owner")
      BY <2>1, <2>4, GotoProceeds DEF Location
    <2> QED
      BY <1>4, <2>2, <2>3, <2>4 DEF ValidateToken
  <1>5. CASE FindUserByPrivateKey(c)
    <2>1. call[c].pc = "find_owner" /\ call[c].op = "exchange"
      BY <1>0, <1>5 DEF FindUserByPrivateKey, CallOk
    <2>2. CASE Violates(c)
      BY <2>1, <2>2, ViolatesProceeds
    <2>3. CASE call' = [call EXCEPT ![c].pc = "get_key",
                                    ![c].user = private_keys[call[c].key]]
      <3>1. /\ call'[c].pc = "get_key" /\ call'[c].op = call[c].op
            /\ call'[c].key = call[c].key /\ call'[c].rival = call[c].rival
            /\ \A d \in Call \ {c} : call'[d] = call[d]
        BY <2>3 DEF IInv, TypeOK, Request
      <3> QED
        BY <1>5, <2>1, <2>3, <3>1 DEF FindUserByPrivateKey, Proceeds, Violates, Answer
    <2> QED
      BY <1>5, <2>2, <2>3 DEF FindUserByPrivateKey
  <1>6. CASE GetPrivateKey(c)
    BY <1>0, <1>6, GotoProceeds, ViolatesProceeds DEF GetPrivateKey, CallOk, Location
  <1>7. CASE AwaitRefreshToken(c)
    BY <1>7, GotoProceeds DEF AwaitRefreshToken, Location
  <1>8. CASE DeleteRefreshToken(c)
    BY <1>8, GotoProceeds DEF DeleteRefreshToken, AfterDelete, Location
  <1>9. CASE InsertRefreshToken(c)
    BY <1>0, <1>9, GotoProceeds, ViolatesProceeds
    DEF InsertRefreshToken, CallOk, Creators, Location
  <1>10. CASE AttachRefreshToken(c)
    BY <1>10, GotoProceeds DEF AttachRefreshToken, Location
  <1>11. CASE DeletePrivateKey(c)
    BY <1>0, <1>11, GotoProceeds, ViolatesProceeds DEF DeletePrivateKey, CallOk, Location
  <1>12. CASE StatementFails(c)
    <2> DEFINE status == IF call[c].pc = "find_user" THEN "not_found" ELSE ErrorStatus(c)
    <2>1. /\ Answer(c, status, TRUE) /\ UNCHANGED <<tables, history>>
          /\ call[c].pc \notin {"idle", "answered"}
      BY <1>12 DEF StatementFails
    <2>2. /\ status \in Status /\ status # "ok"
          /\ call[c].op = "exchange" => status = "refused"
      BY <1>0 DEF CallOk, ErrorStatus, Status
    <2> HIDE DEF status
    <2> QED
      BY <2>1, <2>2, AnswerProceeds
  <1> QED
    BY <1>1, <1>2, <1>3, <1>4, <1>5, <1>6, <1>7, <1>8, <1>9, <1>10, <1>11, <1>12
    DEF Statement, userGenerateRefreshToken

(* A COMMIT that takes effect ends the session of a sign-out, which says   *)
(* so, and of no other request; nobody else's request begins or ends.      *)
Kept(d) ==
    /\ call'[d].op = call[d].op /\ call'[d].key = call[d].key
    /\ call'[d].status = call[d].status /\ call'[d].failed = call[d].failed
    /\ call'[d].pc = "idle" <=> call[d].pc = "idle"
    /\ call'[d].pc = "answered" <=> call[d].pc = "answered"

Settles(c) ==
    /\ call[c].pc = "commit" /\ call'[c].pc = "answered"
    /\ call'[c].op = call[c].op /\ call'[c].key = call[c].key
    /\ call'[c].rival = call[c].rival
    /\ \A d \in Call \ {c} : Kept(d)
    /\ granted \subseteq granted'
    /\ ended' = IF call[c].op = "sign_out" THEN ended \cup {call[c].key} ELSE ended
    /\ \A k \in Key \ {call[c].key} : private_keys'[k] = private_keys[k]
    /\ call[c].op = "sign_out" => private_keys'[call[c].key] = None /\ Fine(c)'
    /\ call[c].op # "sign_out" => call[c].key \notin ended
    /\ call[c].op = "exchange" => call'[c].status \in {"ok", "refused"}
    /\ call[c].op # "sign_out" /\ call'[c].status = "ok" => call[c].key \in granted'

LEMMA OvertakenKept ==
    ASSUME TypeOK, NEW c \in Call, NEW d \in Call, call'[d] = Overtaken(c, d)
    PROVE  Kept(d)
  BY DEF Kept, Overtaken, AfterDelete, TypeOK, Request

(* A request that is about to commit, and is no sign-out, has a session    *)
(* that has not ended.                                                     *)
LEMMA CommitsAlive ==
    ASSUME ServiceInv, NEW c \in Call, call[c].pc = "commit", call[c].op # "sign_out"
    PROVE  call[c].key \notin ended
  <1>1. RequestOk(c) /\ call[c].key \in Key /\ call[c].op \in Operation
    BY BegunHasKey DEF ServiceInv, IInv, TypeOK, Request
  <1>2. CASE call[c].op \in Creators
    BY <1>1, <1>2 DEF ServiceInv, EndedGone, RequestOk, CreatorOk, Creating
  <1>3. CASE call[c].op = "exchange"
    <2>1. private_keys[call[c].key] \in User
      BY <1>1, <1>3 DEF RequestOk, ExchangeOk
    <2> QED
      BY <2>1, IdentityAssumption DEF ServiceInv, EndedGone, IdentityAssumption
  <1> QED
    BY <1>1, <1>2, <1>3 DEF RequestOk, CallOk, Operation, Creators

LEMMA CommitSettles ==
    ASSUME ServiceInv, NEW c \in Call, Commit(c)
    PROVE  Settles(c)
  <1>1. TypeOK /\ Committed(c) /\ call[c].pc = "commit" /\ IInv
    BY DEF Commit, Committed, ServiceInv, IInv
  <1>2. /\ call'[c].pc = "answered" /\ call'[c].status = "ok"
        /\ call'[c].op = call[c].op /\ call'[c].key = call[c].key
        /\ call'[c].rival = call[c].rival
        /\ \A d \in Call \ {c} : call'[d] = Overtaken(c, d)
    BY <1>1 DEF Commit, TypeOK, Request
  <1>3. \A d \in Call \ {c} : Kept(d)
    BY <1>1, <1>2, OvertakenKept
  <1>4. /\ granted \subseteq granted'
        /\ call[c].op # "sign_out" => call[c].key \in granted'
    BY DEF Commit
  <1>5. ended' = IF call[c].op = "sign_out" THEN ended \cup {call[c].key} ELSE ended
    BY <1>1 DEF Committed, Apply
  <1>6. /\ \A k \in Key \ {call[c].key} : private_keys'[k] = private_keys[k]
        /\ call[c].op = "sign_out" => private_keys'[call[c].key] = None
    BY <1>1, CommitWrites
  <1> QED
    BY <1>1, <1>2, <1>3, <1>4, <1>5, <1>6, CommitsAlive DEF Settles, Fine

LEMMA CommitFailsSettles ==
    ASSUME ServiceInv, NEW c \in Call, CommitFails(c)
    PROVE  Settles(c) \/ Proceeds(c)
  <1>1. TypeOK /\ IInv /\ call[c].pc = "commit" /\ CallOk(c)
    BY DEF CommitFails, Committed, ServiceInv, IInv, RequestOk
  <1>2. /\ ErrorStatus(c) \in Status /\ ErrorStatus(c) # "ok"
        /\ call[c].op = "exchange" => ErrorStatus(c) = "refused"
    BY DEF ErrorStatus, Status
  <1>3. CASE /\ Committed(c)
             /\ call' = [d \in Call |->
                            IF d = c
                            THEN [call[c] EXCEPT !.pc = "answered", !.failed = TRUE,
                                                 !.status = ErrorStatus(c)]
                            ELSE Overtaken(c, d)]
             /\ UNCHANGED <<granted, revoked>>
    <2>1. /\ call'[c].pc = "answered" /\ call'[c].status = ErrorStatus(c)
          /\ call'[c].failed
          /\ call'[c].op = call[c].op /\ call'[c].key = call[c].key
          /\ call'[c].rival = call[c].rival
          /\ \A d \in Call \ {c} : call'[d] = Overtaken(c, d)
      BY <1>1, <1>3 DEF TypeOK, Request
    <2>2. \A d \in Call \ {c} : Kept(d)
      BY <1>1, <2>1, OvertakenKept
    <2>3. ended' = IF call[c].op = "sign_out" THEN ended \cup {call[c].key} ELSE ended
      BY <1>3 DEF Committed, Apply
    <2>4. /\ \A k \in Key \ {call[c].key} : private_keys'[k] = private_keys[k]
          /\ call[c].op = "sign_out" => private_keys'[call[c].key] = None
      BY <1>1, <1>3, CommitWrites
    <2>5. Fine(c)'
      BY <2>1 DEF Fine
    <2> QED
      BY <1>1, <1>2, <1>3, <2>1, <2>2, <2>3, <2>4, <2>5, CommitsAlive DEF Settles
  <1>4. CASE /\ call[c].pc = "commit"
             /\ Answer(c, ErrorStatus(c), TRUE)
             /\ UNCHANGED <<tables, used, history>>
    <2>1. UNCHANGED <<tables, history>> /\ call[c].op # "verify"
      BY <1>1, <1>4 DEF CallOk
    <2> QED
      BY <1>1, <1>2, <1>4, <2>1, AnswerProceeds
  <1> QED
    BY <1>3, <1>4 DEF CommitFails

LEMMA StepSettles ==
    ASSUME ServiceInv, NEW c \in Call, Step(c)
    PROVE  Settles(c) \/ Proceeds(c)
  BY StatementProceeds, CommitSettles, CommitFailsSettles DEF Step, ServiceInv

(* The invariant of the service. *)
LEMMA StepServes ==
    ASSUME ServiceInv, NEW c \in Call, Step(c)
    PROVE  EndedGone' /\ \A d \in Call : AnswerOk(d)'
  <1>1. CASE Proceeds(c)
    <2>1. EndedGone'
      BY <1>1 DEF ServiceInv, EndedGone, Proceeds, tables, history
    <2>2. AnswerOk(c)'
      BY <1>1 DEF AnswerOk, Proceeds, Creators
    <2>3. ASSUME NEW d \in Call \ {c} PROVE AnswerOk(d)'
      BY <1>1, <2>3 DEF ServiceInv, AnswerOk, Proceeds, history
    <2> QED
      BY <2>1, <2>2, <2>3
  <1>2. CASE Settles(c)
    <2>1. call[c].op = "sign_out" => call[c].key \in granted
      BY <1>2 DEF Settles, ServiceInv, IInv, RequestOk, CallOk, Creators
    <2>2. ended \subseteq Key
      BY DEF ServiceInv, IInv, TypeOK
    <2>3. EndedGone'
      BY <1>2, <2>1, <2>2 DEF ServiceInv, EndedGone, Settles
    <2>4. AnswerOk(c)'
      BY <1>2 DEF AnswerOk, Settles, Creators
    <2>5. ASSUME NEW d \in Call \ {c} PROVE AnswerOk(d)'
      BY <1>2, <2>5 DEF ServiceInv, AnswerOk, Settles, Kept
    <2> QED
      BY <2>3, <2>4, <2>5
  <1> QED
    BY <1>1, <1>2, StepSettles

LEMMA ArrivesWaiting ==
    ASSUME IInv, NEW c \in Call, NEW op, NEW pc, NEW u, NEW k, Arrive(c, op, pc, u, k)
    PROVE  /\ call[c].pc = "idle"
           /\ call'[c].pc = pc /\ call'[c].op = op /\ call'[c].key = k
           /\ ~call'[c].rival
           /\ \A d \in Call \ {c} : call'[d] = call[d]
           /\ UNCHANGED <<tables, history>>
  BY DEF Arrive, IInv, TypeOK, Idle

LEMMA ServiceKeeps ==
    ASSUME ServiceInv, [Next]_vars
    PROVE  ServiceInv'
  <1>1. IInv' /\ IInv
    BY NextKeeps DEF ServiceInv
  <1>2. ASSUME NEW c \in Call, UNCHANGED <<tables, history>>, call'[c].pc # "answered",
               \A d \in Call \ {c} : call'[d] = call[d]
        PROVE  EndedGone' /\ \A d \in Call : AnswerOk(d)'
    BY <1>2 DEF ServiceInv, EndedGone, AnswerOk, tables, history
  <1>3. ASSUME NEW c \in Call, NEW u \in User, NEW k \in Key,
               SignUp(c, u, k) \/ SignIn(c, u, k)
        PROVE  EndedGone' /\ \A d \in Call : AnswerOk(d)'
    BY <1>1, <1>2, <1>3, ArrivesWaiting DEF SignUp, SignIn
  <1>4. ASSUME NEW c \in Call, NEW k \in Key,
               ExchangeToken(c, k) \/ SignOut(c, k) \/ VerifyToken(c, k)
        PROVE  EndedGone' /\ \A d \in Call : AnswerOk(d)'
    BY <1>1, <1>2, <1>4, ArrivesWaiting DEF ExchangeToken, SignOut, VerifyToken
  <1>5. ASSUME NEW c \in Call, Receive(c)
        PROVE  EndedGone' /\ \A d \in Call : AnswerOk(d)'
    <2>1. /\ call'[c].pc = "idle" /\ UNCHANGED <<tables, history>>
          /\ \A d \in Call \ {c} : call'[d] = call[d]
      BY <1>1, <1>5 DEF Receive, IInv, TypeOK, Idle
    <2> QED
      BY <1>2, <2>1
  <1>6. CASE Restart
    <2>1. /\ \A d \in Call : call'[d].pc = "idle"
          /\ UNCHANGED <<tables, history>>
      BY <1>6 DEF Restart, Idle
    <2> QED
      BY <1>1, <2>1 DEF ServiceInv, EndedGone, AnswerOk, tables, history
  <1>7. CASE UNCHANGED vars
    BY <1>1, <1>7 DEF ServiceInv, EndedGone, AnswerOk, vars, tables, history
  <1>8. CASE \E c \in Call : Step(c)
    BY <1>1, <1>8, StepServes DEF ServiceInv
  <1> QED
    BY <1>1, <1>3, <1>4, <1>5, <1>6, <1>7, <1>8 DEF ServiceInv, Next

------------------------------------------------------------------------------
(* A request in flight is that of its page.                                *)

(* The page of c turns to op, at stage, with token k.                      *)
Turns(c, op, stage, k) ==
    /\ page'[c].op = op /\ page'[c].stage = stage /\ page'[c].key = k
    /\ \A d \in Call \ {c} : page'[d] = page[d]

LEMMA BeginTurns ==
    ASSUME ClientType, NEW c \in Call, NEW op, NEW stage, NEW k,
           BeginPage(c, op, stage, k)
    PROVE  Turns(c, op, stage, k) /\ page[c].op = "none"
  BY DEF ClientType, BeginPage, Turns

LEMMA StayTurns ==
    ASSUME ClientType, NEW c \in Call, NEW stage, Stay(c, stage)
    PROVE  Turns(c, page[c].op, stage, page[c].key)
  BY DEF ClientType, Stay, Turns, Page

LEMMA EndTurns ==
    ASSUME ClientType, NEW c \in Call, NEW allowed, End(c, allowed)
    PROVE  Turns(c, "none", "sent", None)
  BY DEF ClientType, End, Turns, AtRest

LEMMA ResponseTaken ==
    ASSUME IInv, NEW c \in Call, Response(c)
    PROVE  /\ call[c].pc = "answered" /\ call'[c].pc = "idle"
           /\ \A d \in Call \ {c} : call'[d] = call[d]
           /\ UNCHANGED <<tables, history>>
  BY DEF Response, Receive, IInv, TypeOK, Idle

(* Pages other than c, and their requests, are as they were.               *)
Elsewhere(c) ==
    \A d \in Call \ {c} : page'[d] = page[d] /\ call'[d] = call[d]

LEMMA LinkedElsewhere ==
    ASSUME NEW c \in Call, Elsewhere(c), \A d \in Call : Linked(d), Linked(c)'
    PROVE  \A d \in Call : Linked(d)'
  BY DEF Elsewhere, Linked, Asks, Exchanging, At

LEMMA Begins ==
    ASSUME SInv, NEW c \in Call, NEW op, NEW pc, NEW u, NEW k, Arrive(c, op, pc, u, k),
           pc # "idle",
           NEW pageOp, NEW stage, NEW j,
           Turns(c, pageOp, stage, j),
           \/ pageOp = "sign_up" /\ op = "sign_up"
           \/ pageOp = "login" /\ op = "sign_in"
           \/ pageOp = "logout" /\ op = "sign_out"
           \/ pageOp = "load" /\ stage = "sent" /\ op = "verify"
           \/ pageOp = "load" /\ stage = "refreshing" /\ op = "exchange"
           \/ pageOp = "fetch" /\ stage = "refreshing" /\ op = "exchange"
    PROVE  Elsewhere(c) /\ Linked(c)'
  <1>1. /\ call'[c].pc = pc /\ call'[c].op = op
        /\ \A d \in Call \ {c} : call'[d] = call[d]
    BY ArrivesWaiting DEF SInv
  <1> QED
    BY <1>1 DEF Turns, Elsewhere, Linked, Asks, Exchanging, At

(* The page of c goes on, waiting for nothing.                             *)
LEMMA WaitsForNothing ==
    ASSUME NEW c \in Call, NEW op, NEW stage, NEW k, Turns(c, op, stage, k),
           call'[c].pc = "idle", \A d \in Call \ {c} : call'[d] = call[d],
           \/ op = "none"
           \/ op = "load" /\ stage = "refresh"
           \/ op = "fetch" /\ stage # "refreshing"
    PROVE  Elsewhere(c) /\ Linked(c)'
  BY DEF Turns, Elsewhere, Linked, Asks, Exchanging, At

LEMMA FetchWaits ==
    ASSUME SInv, NEW c \in Call, Linked(c), page[c].op = "fetch",
           page[c].stage # "refreshing"
    PROVE  call[c].pc = "idle"
  BY DEF Linked, Exchanging, At

LEMMA UnauthorizedLinked ==
    ASSUME SInv, NEW c \in Call, Linked(c), Unauthorized(c), UNCHANGED vars,
           page[c].op = "fetch", page[c].stage # "refreshing"
    PROVE  Elsewhere(c) /\ Linked(c)'
  <1>1. ClientType /\ call' = call /\ call[c].pc = "idle"
    BY FetchWaits DEF SInv, vars
  <1>2. CASE Stay(c, "refresh")
    BY <1>1, <1>2, StayTurns, WaitsForNothing
  <1>3. CASE End(c, None)
    BY <1>1, <1>3, EndTurns, WaitsForNothing
  <1> QED
    BY <1>2, <1>3 DEF Unauthorized

LEMMA PageStepLinked ==
    ASSUME SInv, NEW c \in Call, Linked(c), PageStep(c)
    PROVE  Elsewhere(c) /\ Linked(c)'
  <1>0. ClientType /\ IInv
    BY DEF SInv
  <1>1. ASSUME Response(c), End(c, None) PROVE Elsewhere(c) /\ Linked(c)'
    BY <1>0, <1>1, ResponseTaken, EndTurns, WaitsForNothing
  <1>2. CASE RegisterDone(c) \/ LoginDone(c) \/ LogoutDone(c) \/ LoadDone(c)
    BY <1>1, <1>2 DEF RegisterDone, LoginDone, LogoutDone, LoadDone
  <1>3. CASE LoadVerified(c)
    <2>1. CASE Stay(c, "refresh")
      <3>1. page[c].op = "load" /\ Response(c)
        BY <1>3 DEF LoadVerified, At
      <3> QED
        BY <1>0, <2>1, <3>1, ResponseTaken, StayTurns, WaitsForNothing
    <2> QED
      BY <1>1, <1>3, <2>1 DEF LoadVerified
  <1>4. CASE LoadRefresh(c)
    <2>1. Turns(c, "load", "refreshing", page[c].key)
      BY <1>0, <1>4, StayTurns DEF LoadRefresh, At
    <2> QED
      BY <1>4, <2>1, Begins DEF LoadRefresh, ExchangeToken
  <1>5. CASE GetKeys(c)
    <2>1. /\ page[c].op = "fetch" /\ page[c].stage # "refreshing"
          /\ UNCHANGED vars /\ call' = call
      BY <1>5 DEF GetKeys, vars
    <2>2. CASE Stay(c, IF page[c].stage = "keys" THEN "check" ELSE "retry_check")
      BY <1>0, <2>1, <2>2, FetchWaits, StayTurns, WaitsForNothing
    <2> QED
      BY <1>5, <2>1, <2>2, UnauthorizedLinked DEF GetKeys
  <1>6. CASE CheckToken(c)
    <2>1. /\ page[c].op = "fetch" /\ page[c].stage # "refreshing"
          /\ UNCHANGED vars /\ call' = call
      BY <1>6 DEF CheckToken, vars
    <2>2. CASE End(c, page[c].key)
      BY <1>0, <2>1, <2>2, FetchWaits, EndTurns, WaitsForNothing
    <2> QED
      BY <1>6, <2>1, <2>2, UnauthorizedLinked DEF CheckToken, LetThrough
  <1>7. CASE FetchRefresh(c)
    <2>1. page[c].op = "fetch" /\ page[c].stage # "refreshing"
      BY <1>7 DEF FetchRefresh, At
    <2>2. CASE End(c, None) /\ UNCHANGED vars
      <3>1. call' = call
        BY <2>2 DEF vars
      <3> QED
        BY <1>0, <2>1, <2>2, <3>1, FetchWaits, EndTurns, WaitsForNothing
    <2>3. CASE /\ ExchangeToken(c, GetRefreshTokenFromCookieOrAuthHeader(page[c].key))
               /\ Stay(c, "refreshing")
      <3>1. Turns(c, "fetch", "refreshing", page[c].key)
        BY <1>0, <2>1, <2>3, StayTurns
      <3> QED
        BY <2>3, <3>1, Begins DEF ExchangeToken
    <2> QED
      BY <1>7, <2>2, <2>3 DEF FetchRefresh
  <1>8. CASE FetchRefreshed(c)
    <2>1. CASE page' = [page EXCEPT ![c].stage = "retry_keys", ![c].key = Token(c)]
      <3>1. page[c].op = "fetch" /\ Response(c)
        BY <1>8 DEF FetchRefreshed, At
      <3>2. Turns(c, "fetch", "retry_keys", Token(c))
        BY <1>0, <2>1, <3>1 DEF Turns, ClientType, Page
      <3> QED
        BY <1>0, <3>1, <3>2, ResponseTaken, WaitsForNothing
    <2> QED
      BY <1>1, <1>8, <2>1 DEF FetchRefreshed
  <1> QED
    BY <1>2, <1>3, <1>4, <1>5, <1>6, <1>7, <1>8 DEF PageStep

LEMMA LinkedKeeps ==
    ASSUME MInv, ClientNext
    PROVE  \A d \in Call : Linked(d)'
  <1>0. SInv /\ ClientType /\ IInv /\ \A d \in Call : Linked(d)
    BY DEF MInv, SInv
  <1>1. ASSUME NEW c \in Call, NEW u \in User, NEW k \in Key,
               Register(c, u, k) \/ Login(c, u, k)
        PROVE  Elsewhere(c) /\ Linked(c)'
    <2>1. CASE Register(c, u, k)
      BY <1>0, <2>1, BeginTurns, Begins DEF Register, SignUp
    <2>2. CASE Login(c, u, k)
      BY <1>0, <2>2, BeginTurns, Begins DEF Login, SignIn
    <2> QED
      BY <1>1, <2>1, <2>2
  <1>2. ASSUME NEW c \in Call, Logout(c) \/ Load(c)
        PROVE  Elsewhere(c) /\ Linked(c)'
    <2>1. CASE Logout(c)
      BY <1>0, <2>1, BeginTurns, Begins DEF Logout, SignOut
    <2>2. CASE Load(c)
      BY <1>0, <2>2, BeginTurns, Begins DEF Load, VerifyToken
    <2> QED
      BY <1>2, <2>1, <2>2
  <1>3. ASSUME NEW c \in Call, Fetch(c) PROVE Elsewhere(c) /\ Linked(c)'
    <2>1. Turns(c, "fetch", "keys", access[c]) /\ page[c].op = "none" /\ call' = call
      BY <1>0, <1>3, BeginTurns DEF Fetch, vars
    <2>2. call[c].pc = "idle"
      BY <1>0, <2>1 DEF Linked, Exchanging, At
    <2> QED
      BY <2>1, <2>2, WaitsForNothing
  <1>4. ASSUME NEW c \in Call, LoadAnonymous(c) PROVE \A d \in Call : Linked(d)'
    BY <1>0, <1>4 DEF LoadAnonymous, vars, Linked, Asks, Exchanging, At
  <1>5. ASSUME NEW c \in Call, ServiceStep(c) PROVE \A d \in Call : Linked(d)'
    <2>1. page' = page /\ (Settles(c) \/ Proceeds(c))
      BY <1>5, StepSettles DEF ServiceStep, client, MInv
    <2>2. \A d \in Call : call'[d].op = call[d].op /\ (call'[d].pc = "idle" <=> call[d].pc = "idle")
      BY <2>1 DEF Settles, Proceeds, Kept
    <2> QED
      BY <1>0, <2>1, <2>2 DEF Linked, Asks, Exchanging, At
  <1>6. CASE ServiceRestart
    <2>1. ASSUME NEW d \in Call PROVE Linked(d)'
      <3>1. call'[d].pc = "idle"
        BY <1>6 DEF ServiceRestart, Restart, Idle
      <3>2. page'[d] = IF At(d, "load", "sent") THEN [page[d] EXCEPT !.stage = "refresh"]
                       ELSE IF call[d].pc # "idle" THEN AtRest ELSE page[d]
        BY <1>6 DEF ServiceRestart
      <3>3. CASE At(d, "load", "sent")
        <4>1. page'[d].op = "load" /\ page'[d].stage = "refresh"
          BY <1>0, <3>2, <3>3 DEF At, ClientType, Page
        <4> QED
          BY <3>1, <4>1 DEF Linked, Exchanging, At
      <3>4. CASE ~At(d, "load", "sent") /\ call[d].pc # "idle"
        <4>1. page'[d].op = "none"
          BY <3>2, <3>4 DEF AtRest
        <4> QED
          BY <3>1, <4>1 DEF Linked, Exchanging, At
      <3>5. CASE ~At(d, "load", "sent") /\ call[d].pc = "idle"
        BY <1>0, <3>1, <3>2, <3>5 DEF Linked, Asks, Exchanging, At
      <3> QED
        BY <3>3, <3>4, <3>5
    <2> QED
      BY <2>1
  <1>7. ASSUME NEW c \in Call, PageStep(c) PROVE Elsewhere(c) /\ Linked(c)'
    BY <1>0, <1>7, PageStepLinked
  <1> QED
    BY <1>0, <1>1, <1>2, <1>3, <1>4, <1>5, <1>6, <1>7, LinkedElsewhere DEF ClientNext

------------------------------------------------------------------------------
(* Nothing goes wrong by itself: as long as it has not, who is signed in   *)
(* stays so.                                                               *)

LEMMA AtRestInOrder == ASSUME NEW c \in Call, page[c].op = "none" PROVE PageInOrder(c)
  BY DEF PageInOrder, LoadInOrder, SignInInOrder, LogoutInOrder, Alone, At

(* While a page does something other than a load, no other does anything.  *)
LEMMA AloneAtWork ==
    ASSUME InOrder, NEW c \in Call, page[c].op \notin {"none", "load"}
    PROVE  /\ \A d \in Call \ {c} : page[d].op = "none"
           /\ cookie \in ended => page[c].op = "logout"
  BY DEF InOrder, CookieInOrder, PageInOrder, Alone

(* While a page loads, nobody signs out.                                   *)
LEMMA LoadingAlive ==
    ASSUME InOrder, NEW c \in Call, page[c].op = "load"
    PROVE  cookie \notin ended
  BY DEF InOrder, CookieInOrder, PageInOrder, Alone

(* A step that ends no session and begins no session of page c but what    *)
(* leaves it in order; one that changes the cookie is alone.               *)
LEMMA ElsewhereInOrder ==
    ASSUME InOrder, NEW c \in Call, Elsewhere(c), UNCHANGED <<granted, ended>>,
           \/ cookie' = cookie /\ member' = member
           \/ \A d \in Call \ {c} : page[d].op = "none",
           CookieInOrder', PageInOrder(c)'
    PROVE  InOrder'
  <1>1. ASSUME NEW d \in Call \ {c} PROVE PageInOrder(d)'
    <2>1. page'[d] = page[d] /\ call'[d] = call[d] /\ PageInOrder(d)
      BY DEF Elsewhere, InOrder
    <2>2. CASE page[d].op = "none"
      BY <2>1, <2>2 DEF PageInOrder, LoadInOrder, SignInInOrder, LogoutInOrder, Alone, At
    <2>3. CASE cookie' = cookie /\ member' = member
      <3>1. LoadInOrder(d)' /\ SignInInOrder(d)' /\ LogoutInOrder(d)'
        BY <2>1, <2>3 DEF PageInOrder, LoadInOrder, SignInInOrder, LogoutInOrder, At, Fine
      <3>2. Alone(d)'
        BY <2>1 DEF PageInOrder, Alone, Elsewhere
      <3> QED
        BY <3>1, <3>2 DEF PageInOrder
    <2> QED
      BY <2>2, <2>3
  <1> QED
    BY <1>1 DEF InOrder

LEMMA TroubledStays == ASSUME ClientNext, ~troubled' PROVE ~troubled
  BY DEF ClientNext, Register, Login, Logout, LoadAnonymous, Load, Fetch, BeginPage,
         PageStep, RegisterDone, LoginDone, LogoutDone, LoadVerified, LoadRefresh,
         LoadDone, GetKeys, CheckToken, FetchRefresh, FetchRefreshed, Response,
         ServiceStep, ServiceRestart, client

(* An operation that begins without trouble overlaps with loads only if it *)
(* is one.                                                                 *)
LEMMA BeginsAlone ==
    ASSUME NEW c \in Call, NEW op, NEW stage, NEW k,
           BeginPage(c, op, stage, k), ~troubled'
    PROVE  \A d \in Call \ {c} :
                page[d].op = "none" \/ (op = "load" /\ page[d].op = "load")
  <1> SUFFICES ASSUME NEW d \in Call \ {c}, page[d].op # "none"
               PROVE  op = "load" /\ page[d].op = "load"
    OBVIOUS
  <1>1. {op, page[d].op} = {"load"}
    BY DEF BeginPage
  <1> QED
    BY <1>1

(* An answer that is taken without trouble is not a failure of the         *)
(* database.                                                               *)
LEMMA NoTrouble ==
    ASSUME NEW c \in Call, Response(c), ~troubled'
    PROVE  ~call[c].failed
  BY DEF Response

(* What begins while no page does anything.                                *)
LEMMA AloneBegins ==
    ASSUME MInv, NEW c \in Call, ~troubled, page[c].op = "none",
           \A d \in Call \ {c} : page[d].op = "none"
    PROVE  cookie \notin ended
  BY DEF MInv, InOrder, CookieInOrder

LEMMA RegisterInOrder ==
    ASSUME MInv, ~troubled, ~troubled', NEW c \in Call, NEW u \in User, NEW k \in Key,
           Register(c, u, k) \/ Login(c, u, k)
    PROVE  InOrder'
  <1>0. SInv /\ ClientType /\ IInv /\ InOrder
    BY DEF MInv, SInv
  <1>1. PICK op \in {"sign_up", "login"}, pc \in {"insert_user", "find_user"},
             asked \in Creators :
            BeginPage(c, op, "sent", None) /\ Arrive(c, asked, pc, u, k)
    BY DEF Register, Login, SignUp, SignIn, Creators
  <1>2. /\ Turns(c, op, "sent", None) /\ page[c].op = "none"
        /\ \A d \in Call \ {c} : page[d].op = "none"
    BY <1>0, <1>1, BeginTurns, BeginsAlone
  <1>3. /\ call'[c].pc = pc
        /\ \A d \in Call \ {c} : call'[d] = call[d]
        /\ UNCHANGED <<granted, ended>> /\ UNCHANGED <<cookie, member>>
    BY <1>0, <1>1, ArrivesWaiting DEF Register, Login, history
  <1>4. Elsewhere(c) /\ page'[c].op = op
    BY <1>2, <1>3 DEF Elsewhere, Turns
  <1>5. CookieInOrder'
    BY <1>0, <1>2, <1>3, AloneBegins DEF InOrder, CookieInOrder
  <1>6. PageInOrder(c)'
    BY <1>2, <1>3, <1>4
    DEF PageInOrder, LoadInOrder, SignInInOrder, LogoutInOrder, Alone, Elsewhere, At
  <1> QED
    BY <1>0, <1>3, <1>4, <1>5, <1>6, ElsewhereInOrder

LEMMA LogoutBeginsInOrder ==
    ASSUME MInv, ~troubled, ~troubled', NEW c \in Call, Logout(c)
    PROVE  InOrder'
  <1>0. SInv /\ ClientType /\ IInv /\ InOrder
    BY DEF MInv, SInv
  <1>1. BeginPage(c, "logout", "sent", None) /\ Arrive(c, "sign_out", "delete_token", None, cookie)
    BY DEF Logout, SignOut
  <1>2. /\ Turns(c, "logout", "sent", None) /\ page[c].op = "none"
        /\ \A d \in Call \ {c} : page[d].op = "none"
    BY <1>0, <1>1, BeginTurns, BeginsAlone
  <1>3. /\ call'[c].key = cookie
        /\ \A d \in Call \ {c} : call'[d] = call[d]
        /\ UNCHANGED <<granted, ended>>
        /\ cookie' = cookie /\ ~member'
    BY <1>0, <1>1, ArrivesWaiting DEF Logout, history
  <1>4. Elsewhere(c) /\ page'[c].op = "logout"
    BY <1>2, <1>3 DEF Elsewhere, Turns
  <1>5. cookie \notin ended
    BY <1>2, AloneBegins
  <1>6. CookieInOrder'
    BY <1>0, <1>3, <1>5 DEF InOrder, CookieInOrder
  <1>7. PageInOrder(c)'
    BY <1>2, <1>3, <1>4, <1>5
    DEF PageInOrder, LoadInOrder, SignInInOrder, LogoutInOrder, Alone, Elsewhere, At
  <1> QED
    BY <1>0, <1>2, <1>3, <1>4, <1>6, <1>7, ElsewhereInOrder

LEMMA LoadBeginsInOrder ==
    ASSUME MInv, ~troubled, ~troubled', NEW c \in Call, Load(c)
    PROVE  InOrder'
  <1>0. SInv /\ ClientType /\ IInv /\ InOrder
    BY DEF MInv, SInv
  <1>1. /\ BeginPage(c, "load", "sent", cookie)
        /\ Arrive(c, "verify", "validate", None, cookie)
        /\ cookie # None
    BY DEF Load, VerifyToken
  <1>2. /\ Turns(c, "load", "sent", cookie) /\ page[c].op = "none"
        /\ \A d \in Call \ {c} : page[d].op \in {"none", "load"}
    BY <1>0, <1>1, BeginTurns, BeginsAlone
  <1>3. /\ call'[c].key = cookie /\ call'[c].pc = "validate"
        /\ \A d \in Call \ {c} : call'[d] = call[d]
        /\ UNCHANGED <<granted, ended>> /\ UNCHANGED <<cookie, member>>
    BY <1>0, <1>1, ArrivesWaiting DEF Load, history
  <1>4. Elsewhere(c) /\ page'[c].op = "load" /\ page'[c].key = cookie /\ page'[c].stage = "sent"
    BY <1>2, <1>3 DEF Elsewhere, Turns
  <1>5. cookie \notin ended
    BY <1>0, <1>2 DEF InOrder, CookieInOrder
  <1>6. CookieInOrder'
    BY <1>0, <1>3, <1>5 DEF InOrder, CookieInOrder
  <1>7. LoadInOrder(c)' /\ SignInInOrder(c)' /\ LogoutInOrder(c)'
    BY <1>1, <1>3, <1>4 DEF LoadInOrder, SignInInOrder, LogoutInOrder, At
  <1>8. Alone(c)'
    BY <1>2, <1>4 DEF Alone, Elsewhere
  <1> QED
    BY <1>0, <1>3, <1>4, <1>6, <1>7, <1>8, ElsewhereInOrder DEF PageInOrder

LEMMA FetchBeginsInOrder ==
    ASSUME MInv, ~troubled, ~troubled', NEW c \in Call, Fetch(c)
    PROVE  InOrder'
  <1>0. SInv /\ ClientType /\ IInv /\ InOrder
    BY DEF MInv, SInv
  <1>1. BeginPage(c, "fetch", "keys", access[c]) /\ UNCHANGED <<cookie, member>>
        /\ UNCHANGED <<call, granted, ended>>
    BY DEF Fetch, vars, history
  <1>2. /\ Turns(c, "fetch", "keys", access[c]) /\ page[c].op = "none"
        /\ \A d \in Call \ {c} : page[d].op = "none"
    BY <1>0, <1>1, BeginTurns, BeginsAlone
  <1>3. Elsewhere(c) /\ page'[c].op = "fetch" /\ page'[c].stage = "keys"
    BY <1>1, <1>2 DEF Elsewhere, Turns
  <1>4. CookieInOrder'
    BY <1>0, <1>1, <1>2, AloneBegins DEF InOrder, CookieInOrder
  <1>5. PageInOrder(c)'
    BY <1>2, <1>3
    DEF PageInOrder, LoadInOrder, SignInInOrder, LogoutInOrder, Alone, Elsewhere, At
  <1> QED
    BY <1>0, <1>1, <1>3, <1>4, <1>5, ElsewhereInOrder

(* The answer of a request other than a page load is taken, while no other *)
(* page does anything: what becomes of the cookie is for the page to say.  *)
LEMMA EndInOrder ==
    ASSUME MInv, ~troubled, NEW c \in Call, page[c].op \notin {"none", "load"},
           Elsewhere(c), page'[c].op = "none", UNCHANGED <<granted, ended>>,
           member' => cookie' # None,
           cookie' # None => cookie' \in granted,
           cookie' \notin ended
    PROVE  InOrder'
  <1>1. InOrder /\ \A d \in Call \ {c} : page[d].op = "none"
    BY AloneAtWork DEF MInv
  <1>2. CookieInOrder'
    BY DEF CookieInOrder
  <1>3. PageInOrder(c)'
    BY DEF PageInOrder, LoadInOrder, SignInInOrder, LogoutInOrder, Alone, At
  <1> QED
    BY <1>1, <1>2, <1>3, ElsewhereInOrder

(* What is known when an answer is taken without trouble.                  *)
LEMMA Taking ==
    ASSUME MInv, ~troubled, ~troubled', NEW c \in Call, Response(c)
    PROVE  /\ SInv /\ ClientType /\ IInv /\ InOrder /\ PageInOrder(c)
           /\ call[c].pc = "answered" /\ ~call[c].failed
           /\ \A d \in Call \ {c} : call'[d] = call[d]
           /\ UNCHANGED <<granted, ended>>
           /\ None \notin ended
           /\ Token(c) \in Key /\ Token(c) # None
           /\ AnswerOk(c) /\ Linked(c)
  <1>1. SInv /\ ClientType /\ IInv /\ InOrder /\ PageInOrder(c) /\ AnswerOk(c) /\ Linked(c)
    BY DEF MInv, SInv, ServiceInv, InOrder
  <1>2. /\ call[c].pc = "answered"
        /\ \A d \in Call \ {c} : call'[d] = call[d]
        /\ UNCHANGED <<granted, ended>>
    BY <1>1, ResponseTaken DEF history
  <1>3. ~call[c].failed
    BY NoTrouble
  <1>4. None \notin Key /\ ended \subseteq Key /\ call[c].key \in Key
    BY <1>1, <1>2, BegunHasKey, IdentityAssumption DEF IdentityAssumption, IInv, TypeOK
  <1> QED
    BY <1>1, <1>2, <1>3, <1>4 DEF Token

LEMMA EndsElsewhere ==
    ASSUME ClientType, NEW c \in Call, NEW allowed, End(c, allowed),
           \A d \in Call \ {c} : call'[d] = call[d]
    PROVE  Elsewhere(c) /\ page'[c].op = "none"
  BY EndTurns DEF Turns, Elsewhere

(* The cookie of a browser in which nobody signs out has not ended.        *)
LEMMA CookieAlive ==
    ASSUME MInv, ~troubled, NEW c \in Call, page[c].op \notin {"none", "logout"}
    PROVE  cookie \notin ended
  BY AloneAtWork, LoadingAlive DEF MInv

LEMMA RegisterDoneInOrder ==
    ASSUME MInv, ~troubled, ~troubled', NEW c \in Call, RegisterDone(c)
    PROVE  InOrder'
  <1>1. /\ Response(c) /\ End(c, None) /\ UNCHANGED <<cookie, member>>
        /\ page[c].op = "sign_up"
    BY DEF RegisterDone
  <1>2. Elsewhere(c) /\ page'[c].op = "none"
    BY <1>1, Taking, EndsElsewhere
  <1>3. CookieInOrder /\ UNCHANGED <<granted, ended>>
    BY <1>1, Taking DEF InOrder
  <1> QED
    BY <1>1, <1>2, <1>3, CookieAlive, EndInOrder DEF CookieInOrder

LEMMA LoginDoneInOrder ==
    ASSUME MInv, ~troubled, ~troubled', NEW c \in Call, LoginDone(c)
    PROVE  InOrder'
  <1>1. /\ Response(c) /\ End(c, None) /\ page[c].op = "login"
        /\ \/ Answered(c, "ok") /\ cookie' = Token(c)
           \/ UNCHANGED <<cookie, member>>
    BY DEF LoginDone
  <1>2. Elsewhere(c) /\ page'[c].op = "none"
    BY <1>1, Taking, EndsElsewhere
  <1>3. /\ CookieInOrder /\ UNCHANGED <<granted, ended>> /\ Token(c) # None
        /\ Answered(c, "ok") => Token(c) \in granted /\ Token(c) \notin ended
    <2>1. call[c].op \in Creators /\ call[c].pc = "answered" /\ PageInOrder(c)
      BY <1>1, Taking DEF Linked, Asks, Creators
    <2> QED
      BY <1>1, <2>1, Taking
      DEF InOrder, AnswerOk, Answered, Token, PageInOrder, SignInInOrder
  <1> QED
    BY <1>1, <1>2, <1>3, CookieAlive, EndInOrder DEF CookieInOrder

LEMMA LogoutDoneInOrder ==
    ASSUME MInv, ~troubled, ~troubled', NEW c \in Call, LogoutDone(c)
    PROVE  InOrder'
  <1>1. /\ Response(c) /\ End(c, None) /\ page[c].op = "logout"
        /\ cookie' = IF Answered(c, "ok") THEN None ELSE cookie
        /\ member' = member
    BY DEF LogoutDone
  <1>2. Elsewhere(c) /\ page'[c].op = "none"
    BY <1>1, Taking, EndsElsewhere
  <1>3. CookieInOrder /\ UNCHANGED <<granted, ended>> /\ None \notin ended
    BY <1>1, Taking DEF InOrder
  <1>4. ~member /\ (cookie \in ended => Answered(c, "ok"))
    BY <1>1, Taking DEF PageInOrder, LogoutInOrder, Fine, Answered
  <1> QED
    BY <1>1, <1>2, <1>3, <1>4, EndInOrder DEF CookieInOrder

(* A load finds the key of the cookie ... *)
LEMMA LoadVerifiedInOrder ==
    ASSUME MInv, ~troubled, ~troubled', NEW c \in Call, LoadVerified(c)
    PROVE  InOrder'
  <1>1. At(c, "load", "sent") /\ Response(c) /\ member' = member
    BY DEF LoadVerified
  <1>2. Answered(c, "ok") /\ cookie # None /\ page[c].key = cookie
    BY <1>1, Taking DEF PageInOrder, LoadInOrder, Fine, Answered, At
  <1>3. Stay(c, "refresh") /\ cookie' = cookie
    BY <1>2 DEF LoadVerified
  <1>4. /\ Elsewhere(c) /\ page'[c].op = "load" /\ page'[c].stage = "refresh"
        /\ page'[c].key = cookie
    BY <1>1, <1>2, <1>3, Taking, StayTurns DEF Turns, Elsewhere, At
  <1>5. CookieInOrder'
    <2>1. cookie \notin ended
      BY <1>1, CookieAlive DEF At
    <2> QED
      BY <1>1, <1>3, <2>1, Taking DEF InOrder, CookieInOrder
  <1>6. LoadInOrder(c)' /\ SignInInOrder(c)' /\ LogoutInOrder(c)'
    BY <1>2, <1>3, <1>4 DEF LoadInOrder, SignInInOrder, LogoutInOrder, At
  <1>7. Alone(c)'
    BY <1>1, <1>4, Taking DEF PageInOrder, Alone, Elsewhere, At
  <1> QED
    BY <1>1, <1>3, <1>4, <1>5, <1>6, <1>7, Taking, ElsewhereInOrder DEF PageInOrder

(* ... and exchanges the token of the cookie ... *)
LEMMA LoadRefreshInOrder ==
    ASSUME MInv, ~troubled, ~troubled', NEW c \in Call, LoadRefresh(c)
    PROVE  InOrder'
  <1>0. SInv /\ ClientType /\ IInv /\ InOrder /\ PageInOrder(c)
    BY DEF MInv, SInv, InOrder
  <1>1. /\ At(c, "load", "refresh") /\ Stay(c, "refreshing") /\ UNCHANGED <<cookie, member>>
        /\ Arrive(c, "exchange", "validate", None, page[c].key)
    BY DEF LoadRefresh, ExchangeToken
  <1>2. page[c].op = "load" /\ cookie # None /\ page[c].key = cookie
    BY <1>0, <1>1 DEF PageInOrder, LoadInOrder, At
  <1>3. /\ call'[c].key = cookie
        /\ \A d \in Call \ {c} : call'[d] = call[d]
        /\ UNCHANGED <<granted, ended>>
    BY <1>0, <1>1, <1>2, ArrivesWaiting DEF history
  <1>4. /\ Elsewhere(c) /\ page'[c].op = "load" /\ page'[c].stage = "refreshing"
        /\ page'[c].key = cookie
    BY <1>0, <1>1, <1>2, <1>3, StayTurns DEF Turns, Elsewhere
  <1>5. CookieInOrder'
    BY <1>0, <1>1, <1>2, <1>3, CookieAlive DEF InOrder, CookieInOrder
  <1>6. LoadInOrder(c)' /\ SignInInOrder(c)' /\ LogoutInOrder(c)'
    BY <1>1, <1>2, <1>3, <1>4 DEF LoadInOrder, SignInInOrder, LogoutInOrder, At
  <1>7. Alone(c)'
    BY <1>0, <1>2, <1>4 DEF PageInOrder, Alone, Elsewhere
  <1> QED
    BY <1>0, <1>1, <1>3, <1>4, <1>5, <1>6, <1>7, ElsewhereInOrder DEF PageInOrder

(* ... of which the new one is the same session's.                         *)
LEMMA LoadDoneInOrder ==
    ASSUME MInv, ~troubled, ~troubled', NEW c \in Call, LoadDone(c)
    PROVE  InOrder'
  <1>1. /\ At(c, "load", "refreshing") /\ Response(c) /\ End(c, None)
        /\ member' = member /\ cookie' \in {Token(c), cookie}
    BY DEF LoadDone
  <1>2. cookie' = cookie
    BY <1>1, Taking DEF PageInOrder, LoadInOrder, Token
  <1>3. Elsewhere(c) /\ page'[c].op = "none"
    BY <1>1, Taking, EndsElsewhere
  <1>4. CookieInOrder'
    <2>1. cookie \notin ended
      BY <1>1, CookieAlive DEF At
    <2> QED
      BY <1>1, <1>2, <2>1, Taking DEF InOrder, CookieInOrder
  <1>5. PageInOrder(c)'
    BY <1>3 DEF PageInOrder, LoadInOrder, SignInInOrder, LogoutInOrder, Alone, At
  <1> QED
    BY <1>1, <1>2, <1>3, <1>4, <1>5, Taking, ElsewhereInOrder

(* A request to the API that goes on and waits for no exchange.            *)
LEMMA FetchGoesOn ==
    ASSUME MInv, ~troubled, NEW c \in Call, page[c].op = "fetch",
           Elsewhere(c), UNCHANGED <<granted, ended, cookie, member>>,
           \/ page'[c].op = "none"
           \/ page'[c].op = "fetch" /\ page'[c].stage # "refreshing"
    PROVE  InOrder'
  <1>1. InOrder /\ \A d \in Call \ {c} : page[d].op = "none"
    BY AloneAtWork DEF MInv
  <1>2. CookieInOrder'
    BY <1>1, CookieAlive DEF InOrder, CookieInOrder
  <1>3. PageInOrder(c)'
    BY <1>1
    DEF PageInOrder, LoadInOrder, SignInInOrder, LogoutInOrder, Alone, Elsewhere, At
  <1> QED
    BY <1>1, <1>2, <1>3, ElsewhereInOrder

LEMMA UnauthorizedInOrder ==
    ASSUME MInv, ~troubled, NEW c \in Call, page[c].op = "fetch", Unauthorized(c),
           UNCHANGED vars, UNCHANGED <<cookie, member>>
    PROVE  InOrder'
  <1>1. ClientType /\ call' = call /\ UNCHANGED <<granted, ended>>
    BY DEF MInv, SInv, vars, history
  <1>2. CASE Stay(c, "refresh")
    <2>1. Elsewhere(c) /\ page'[c].op = "fetch" /\ page'[c].stage = "refresh"
      BY <1>1, <1>2, StayTurns DEF Turns, Elsewhere
    <2> QED
      BY <1>1, <2>1, FetchGoesOn
  <1>3. CASE End(c, None)
    BY <1>1, <1>3, EndsElsewhere, FetchGoesOn
  <1> QED
    BY <1>2, <1>3 DEF Unauthorized

LEMMA GetKeysInOrder ==
    ASSUME MInv, ~troubled, ~troubled', NEW c \in Call, GetKeys(c)
    PROVE  InOrder'
  <1>1. /\ page[c].op = "fetch" /\ UNCHANGED vars /\ UNCHANGED <<cookie, member>>
        /\ ClientType /\ call' = call /\ UNCHANGED <<granted, ended>>
    BY DEF GetKeys, MInv, SInv, vars, history
  <1>2. CASE Unauthorized(c)
    BY <1>1, <1>2, UnauthorizedInOrder
  <1>3. CASE Stay(c, IF page[c].stage = "keys" THEN "check" ELSE "retry_check")
    <2>1. Elsewhere(c) /\ page'[c].op = "fetch" /\ page'[c].stage # "refreshing"
      BY <1>1, <1>3, StayTurns DEF Turns, Elsewhere
    <2> QED
      BY <1>1, <2>1, FetchGoesOn
  <1> QED
    BY <1>2, <1>3 DEF GetKeys

LEMMA CheckTokenInOrder ==
    ASSUME MInv, ~troubled, ~troubled', NEW c \in Call, CheckToken(c)
    PROVE  InOrder'
  <1>1. /\ page[c].op = "fetch" /\ UNCHANGED vars /\ UNCHANGED <<cookie, member>>
        /\ ClientType /\ call' = call /\ UNCHANGED <<granted, ended>>
    BY DEF CheckToken, MInv, SInv, vars, history
  <1>2. CASE Unauthorized(c)
    BY <1>1, <1>2, UnauthorizedInOrder
  <1>3. CASE End(c, page[c].key)
    BY <1>1, <1>3, EndsElsewhere, FetchGoesOn
  <1> QED
    BY <1>2, <1>3 DEF CheckToken, LetThrough

(* The exchange is about the cookie, if the browser has one.               *)
LEMMA FetchRefreshInOrder ==
    ASSUME MInv, ~troubled, ~troubled', NEW c \in Call, FetchRefresh(c)
    PROVE  InOrder'
  <1> DEFINE k == GetRefreshTokenFromCookieOrAuthHeader(page[c].key)
  <1>0. ClientType /\ IInv /\ SInv /\ InOrder
    BY DEF MInv, SInv
  <1>1. page[c].op = "fetch" /\ UNCHANGED <<cookie, member>>
    BY DEF FetchRefresh, At
  <1>2. CASE End(c, None) /\ UNCHANGED vars
    <2>1. call' = call /\ UNCHANGED <<granted, ended>>
      BY <1>2 DEF vars, history
    <2> QED
      BY <1>0, <1>1, <1>2, <2>1, EndsElsewhere, FetchGoesOn
  <1>3. CASE ExchangeToken(c, k) /\ Stay(c, "refreshing")
    <2>1. Arrive(c, "exchange", "validate", None, k) /\ (cookie # None => k = cookie)
      BY <1>3 DEF ExchangeToken, GetRefreshTokenFromCookieOrAuthHeader
    <2> HIDE DEF k
    <2>2. /\ call'[c].pc = "validate" /\ call'[c].key = k /\ ~call'[c].rival
          /\ \A d \in Call \ {c} : call'[d] = call[d]
          /\ UNCHANGED <<granted, ended>>
      BY <1>0, <2>1, ArrivesWaiting DEF history
    <2>3. Elsewhere(c) /\ page'[c].op = "fetch" /\ page'[c].stage = "refreshing"
      BY <1>0, <1>1, <1>3, <2>2, StayTurns DEF Turns, Elsewhere
    <2>4. \A d \in Call \ {c} : page[d].op = "none"
      BY <1>0, <1>1, AloneAtWork
    <2>5. CookieInOrder'
      BY <1>0, <1>1, <2>2, CookieAlive DEF InOrder, CookieInOrder
    <2>6. PageInOrder(c)'
      BY <1>1, <2>1, <2>2, <2>3, <2>4
      DEF PageInOrder, LoadInOrder, SignInInOrder, LogoutInOrder, Alone, Elsewhere, At
    <2> QED
      BY <1>0, <1>1, <2>2, <2>3, <2>5, <2>6, ElsewhereInOrder
  <1> QED
    BY <1>2, <1>3 DEF FetchRefresh

(* An exchange that is refused, for no failure and no rival, was not about *)
(* the cookie: there was none.                                             *)
LEMMA FetchRefreshedInOrder ==
    ASSUME MInv, ~troubled, ~troubled', NEW c \in Call, FetchRefreshed(c)
    PROVE  InOrder'
  <1>1. /\ At(c, "fetch", "refreshing") /\ page[c].op = "fetch" /\ Response(c)
        /\ member' = member
    BY DEF FetchRefreshed, At
  <1>2. /\ ClientType /\ InOrder /\ CookieInOrder
        /\ call[c].op = "exchange" /\ call[c].pc = "answered" /\ ~call[c].failed
        /\ ~call[c].rival /\ (cookie # None => Token(c) = cookie)
        /\ Answered(c, "ok") => Token(c) \notin ended
        /\ call[c].status \in {"ok", "refused"}
        /\ Token(c) # None /\ None \notin ended
        /\ UNCHANGED <<granted, ended>>
        /\ \A d \in Call \ {c} : call'[d] = call[d]
    BY <1>1, Taking
    DEF PageInOrder, SignInInOrder, InOrder, Linked, Asks, Exchanging, AnswerOk, Answered,
        Token
  <1>3. RefusedOk(c) /\ Token(c) \in granted
    BY <1>2 DEF MInv, SInv, IInv, RequestOk, CallOk, Creators, Token
  <1>4. cookie \notin ended
    BY <1>1, CookieAlive
  <1>5. \A d \in Call \ {c} : page[d].op = "none"
    BY <1>1, <1>2, AloneAtWork
  <1>6. CASE /\ Answered(c, "ok") /\ cookie' = Token(c)
             /\ page' = [page EXCEPT ![c].stage = "retry_keys", ![c].key = Token(c)]
    <2>1. /\ Elsewhere(c) /\ page'[c].op = "fetch" /\ page'[c].stage = "retry_keys"
      BY <1>1, <1>2, <1>6 DEF Elsewhere, ClientType, Page
    <2>2. CookieInOrder'
      BY <1>2, <1>3, <1>6 DEF CookieInOrder
    <2>3. PageInOrder(c)'
      BY <1>5, <2>1
      DEF PageInOrder, LoadInOrder, SignInInOrder, LogoutInOrder, Alone, Elsewhere, At
    <2> QED
      BY <1>2, <1>5, <2>1, <2>2, <2>3, ElsewhereInOrder
  <1>7. CASE ~Answered(c, "ok") /\ cookie' = None /\ End(c, None)
    <2>1. cookie = None
      BY <1>2, <1>3, <1>4, <1>7 DEF RefusedOk, Answered, Token
    <2>2. ~member
      BY <1>2, <2>1 DEF CookieInOrder
    <2> QED
      BY <1>1, <1>2, <1>7, <2>2, EndsElsewhere, EndInOrder
  <1> QED
    BY <1>6, <1>7 DEF FetchRefreshed

------------------------------------------------------------------------------
(* The identity service goes on. A load reads a key that is there, an      *)
(* exchange commits for a session that has not ended, and a session ends   *)
(* when its browser signs out, alone.                                      *)
LEMMA ProceedsInOrder ==
    ASSUME MInv, ~troubled, NEW c \in Call, Proceeds(c), UNCHANGED client
    PROVE  InOrder'
  <1>1. /\ UNCHANGED <<cookie, page, member>> /\ UNCHANGED <<granted, ended>>
        /\ InOrder /\ PageInOrder(c) /\ Linked(c) /\ IInv
    BY DEF client, Proceeds, history, MInv, SInv, InOrder
  <1>2. Elsewhere(c) /\ CookieInOrder'
    BY <1>1 DEF Elsewhere, Proceeds, InOrder, CookieInOrder
  <1>3. Alone(c)'
    BY <1>1 DEF PageInOrder, Alone
  <1>4. LoadInOrder(c)'
    <2>1. ASSUME At(c, "load", "sent"), call'[c].pc = "answered" PROVE Fine(c)'
      <3>1. call[c].op = "verify" /\ call[c].key = cookie /\ cookie # None
        BY <1>1, <2>1 DEF Linked, Asks, PageInOrder, LoadInOrder, At
      <3>2. cookie \in granted /\ cookie \notin ended
        BY <1>1, <2>1, <3>1, CookieAlive DEF InOrder, CookieInOrder, At
      <3>3. private_keys[call[c].key] # None
        BY <1>1, <3>1, <3>2 DEF IInv, AnswersStand, TypeOK
      <3> QED
        BY <2>1, <3>1, <3>3 DEF Proceeds, Fine
    <2>2. call'[c].key = call[c].key
      BY DEF Proceeds
    <2> QED
      BY <1>1, <2>1, <2>2 DEF PageInOrder, LoadInOrder, At
  <1>5. SignInInOrder(c)'
    <2>1. page[c].op = "login" \/ At(c, "fetch", "refreshing") => call[c].op # "verify"
      BY <1>1 DEF Linked, Asks, Exchanging
    <2>2. /\ call'[c].key = call[c].key /\ call'[c].rival = call[c].rival
          /\ call'[c].pc = "answered" /\ call[c].op # "verify" => call'[c].status # "ok"
      BY DEF Proceeds
    <2> QED
      BY <1>1, <2>1, <2>2 DEF PageInOrder, SignInInOrder, At
  <1>6. LogoutInOrder(c)'
    <2>1. call'[c].key = call[c].key /\ call[c].pc # "answered"
      BY DEF Proceeds
    <2> QED
      BY <1>1, <2>1 DEF PageInOrder, LogoutInOrder
  <1> QED
    BY <1>1, <1>2, <1>3, <1>4, <1>5, <1>6, ElsewhereInOrder DEF PageInOrder

(* What a page that does nothing but load sees of the COMMIT of another.   *)
LEMMA KeptInOrder ==
    ASSUME MInv, ~troubled, NEW d \in Call, Kept(d), UNCHANGED <<cookie, page, member>>,
           page[d].op \in {"none", "load"}
    PROVE  PageInOrder(d)'
  <1>1. PageInOrder(d)
    BY DEF MInv, InOrder
  <1>2. LoadInOrder(d)'
    BY <1>1 DEF PageInOrder, LoadInOrder, Kept, Fine, At
  <1>3. SignInInOrder(d)' /\ LogoutInOrder(d)' /\ Alone(d)'
    BY <1>1 DEF PageInOrder, SignInInOrder, LogoutInOrder, Alone, At
  <1> QED
    BY <1>2, <1>3 DEF PageInOrder

LEMMA SettlesInOrder ==
    ASSUME MInv, ~troubled, NEW c \in Call, Settles(c), UNCHANGED client
    PROVE  InOrder'
  <1>1. /\ UNCHANGED <<cookie, page, member>> /\ InOrder /\ PageInOrder(c) /\ Linked(c)
        /\ CallOk(c)
    BY DEF client, MInv, SInv, IInv, RequestOk, InOrder
  <1>2. /\ call[c].pc # "idle" /\ call[c].op # "verify"
    BY <1>1 DEF Settles, CallOk
  <1>3. page[c].op # "none" /\ (page[c].op = "logout" <=> call[c].op = "sign_out")
    BY <1>1, <1>2 DEF Linked, Asks, Exchanging, At
  <1>4. \A d \in Call \ {c} : page[d].op \in {"none", "load"}
    BY <1>1, <1>3 DEF PageInOrder, Alone
  <1>5. \A d \in Call \ {c} : PageInOrder(d)'
    BY <1>1, <1>4, KeptInOrder DEF Settles
  <1>6. CookieInOrder'
    BY <1>1, <1>3 DEF Settles, InOrder, CookieInOrder
  <1>7. LoadInOrder(c)'
    BY <1>1, <1>2 DEF Settles, PageInOrder, LoadInOrder, Linked, Asks, At
  <1>8. SignInInOrder(c)'
    <2>1. /\ call'[c].key = call[c].key /\ call'[c].rival = call[c].rival
          /\ page[c].op # "logout" => call[c].key \notin ended'
      BY <1>3 DEF Settles
    <2> QED
      BY <1>1, <2>1 DEF PageInOrder, SignInInOrder, At
  <1>9. LogoutInOrder(c)'
    BY <1>1, <1>3 DEF Settles, PageInOrder, LogoutInOrder
  <1>10. Alone(c)'
    BY <1>1 DEF PageInOrder, Alone
  <1> QED
    BY <1>5, <1>6, <1>7, <1>8, <1>9, <1>10 DEF InOrder, PageInOrder

LEMMA ClientInitOrder == ClientInit => MInv
  <1> SUFFICES ASSUME ClientInit PROVE MInv
    OBVIOUS
  <1>1. SInv /\ IInv
    BY ClientInitInv DEF SInv
  <1>2. EndedGone /\ \A c \in Call : AnswerOk(c)
    BY DEF ClientInit, Init, EndedGone, AnswerOk, Idle
  <1>3. \A c \in Call : page[c].op = "none" /\ call[c].pc = "idle"
    BY DEF ClientInit, Init, AtRest, Idle
  <1>4. \A c \in Call : Linked(c)
    BY <1>3 DEF Linked, Asks, Exchanging, At
  <1>5. InOrder
    <2>1. CookieInOrder
      BY DEF ClientInit, Init, CookieInOrder
    <2> QED
      BY <1>3, <2>1, AtRestInOrder DEF InOrder
  <1> QED
    BY <1>1, <1>2, <1>4, <1>5 DEF MInv, ServiceInv

LEMMA ClientNextInOrder ==
    ASSUME MInv, ClientNext, ~troubled'
    PROVE  InOrder'
  <1>0. ~troubled /\ InOrder
    BY TroubledStays DEF MInv
  <1>1. CASE \E c \in Call, u \in User, k \in Key : Register(c, u, k) \/ Login(c, u, k)
    BY <1>0, <1>1, RegisterInOrder
  <1>2. CASE \E c \in Call : Logout(c) \/ Load(c) \/ Fetch(c)
    BY <1>0, <1>2, LogoutBeginsInOrder, LoadBeginsInOrder, FetchBeginsInOrder
  <1>3. CASE \E c \in Call : LoadAnonymous(c)
    BY <1>0, <1>3
    DEF LoadAnonymous, vars, history, InOrder, CookieInOrder, PageInOrder, LoadInOrder,
        SignInInOrder, LogoutInOrder, Alone, Fine, At
  <1>4. CASE \E c \in Call : PageStep(c)
    BY <1>0, <1>4, RegisterDoneInOrder, LoginDoneInOrder, LogoutDoneInOrder,
       LoadVerifiedInOrder, LoadRefreshInOrder, LoadDoneInOrder, GetKeysInOrder,
       CheckTokenInOrder, FetchRefreshInOrder, FetchRefreshedInOrder
    DEF PageStep
  <1>5. CASE \E c \in Call : ServiceStep(c)
    BY <1>0, <1>5, StepSettles, ProceedsInOrder, SettlesInOrder DEF ServiceStep, MInv
  <1>6. CASE ServiceRestart
    BY <1>6 DEF ServiceRestart
  <1> QED
    BY <1>1, <1>2, <1>3, <1>4, <1>5, <1>6 DEF ClientNext

LEMMA ClientNextOrder ==
    ASSUME MInv, [ClientNext]_allVars
    PROVE  MInv'
  <1>1. SInv' /\ ServiceInv'
    BY ClientNextKeeps, ClientSteps, ServiceKeeps DEF MInv, SInv
  <1>2. CASE ClientNext
    BY <1>1, <1>2, LinkedKeeps, ClientNextInOrder DEF MInv
  <1>3. CASE UNCHANGED allVars
    <2>1. \A c \in Call : Linked(c)'
      BY <1>3 DEF MInv, Linked, Asks, Exchanging, At, allVars, vars, client
    <2>2. ~troubled' => InOrder'
      BY <1>3
      DEF MInv, InOrder, CookieInOrder, PageInOrder, LoadInOrder, SignInInOrder,
          LogoutInOrder, Alone, Fine, At, allVars, vars, client, history
    <2> QED
      BY <1>1, <2>1, <2>2 DEF MInv
  <1> QED
    BY <1>2, <1>3

------------------------------------------------------------------------------
(* The invariant of the cookie holds in every state. *)
THEOREM OrderInvariance == ClientSpec => []MInv
  BY ClientInitOrder, ClientNextOrder, PTL DEF ClientSpec

(* Who signed in and does not sign out stays signed in, however many pages *)
(* load at once and exchange the same cookie, and the cookie that a        *)
(* browser at rest holds is that of a session (hooks.server.ts:62-86,      *)
(* handler.go:199-272).                                                    *)
THEOREM MembersStaySignedIn == ClientSpec => []StaysSignedIn
  <1>1. ASSUME MInv, ~troubled
        PROVE  /\ member => cookie # None
               /\ (\A c \in Call : page[c].op = "none") /\ cookie # None =>
                        private_keys[cookie] # None
    <2>1. member => cookie # None
      BY <1>1 DEF MInv, InOrder, CookieInOrder
    <2>2. ASSUME \A c \in Call : page[c].op = "none", cookie # None
          PROVE  private_keys[cookie] # None
      <3>1. cookie \in granted \ ended
        BY <1>1, <2>2 DEF MInv, InOrder, CookieInOrder
      <3> QED
        BY <1>1, <3>1 DEF MInv, SInv, IInv, AnswersStand, TypeOK
    <2> QED
      BY <2>1, <2>2
  <1>2. MInv => StaysSignedIn
    BY <1>1 DEF StaysSignedIn
  <1> QED
    BY <1>2, OrderInvariance, PTL
==============================================================================
