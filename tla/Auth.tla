--------------------------------- MODULE Auth ---------------------------------
(***************************************************************************)
(* How requests become a user's, and how credentials are minted:          *)
(*   the client `auth` middleware (routes/api/client/mod.rs): a session    *)
(*     cookie, else an Authorization header holding an API key;            *)
(*   POST /api/auth/login/checkpoint: the second factor, a TOTP code or a  *)
(*     recovery code, against the confirmation token the password login    *)
(*     issued; a new session on success;                                   *)
(*   POST /api/auth/register: a new user and its first session;            *)
(*   PUT /api/client/account/password;                                     *)
(*   GET and POST /api/client/account/api-keys.                            *)
(* Requests run concurrently; each await on the database is a step.  A    *)
(* credential is abstracted to its owner and how it was obtained; a TOTP   *)
(* code to the secret it was computed from and whether it is inside the    *)
(* window check_current accepts (step 30 s, skew 1); a password to a model *)
(* value.                                                                  *)
(***************************************************************************)
EXTENDS Naturals, FiniteSets

CONSTANTS
    Workers,     \* requests, each a task that runs once, concurrently
    Users,       \* user ids; some exist initially, the others may register
    Secrets,     \* TOTP secrets
    Codes,       \* recovery codes
    Passwords,   \* passwords
    KeyNames,    \* API key names
    NoTotp,      \* a user without two-factor authentication
    Bogus,       \* a credential or token the server does not know
    BadLength,   \* a code of neither 6 nor 10 characters
    Invalid,     \* a payload validate_data rejects
    None,
    PasswordLogin,  \* the factor of a session the password login created
    Registration,   \* the factor of the session registration created
    Registered,     \* the users that exist initially
    RecoveryCodes   \* [Users -> SUBSET Codes]: the codes generated per user

ASSUME RecoveryCodes \in [Users -> SUBSET Codes]

\* A TOTP code: computed from secret s, current or outside the window.
TotpCodes == [secret : Secrets, current : BOOLEAN]

\* The confirmation token of the password login: signed user id and the
\* user's TOTP secret when it was issued.
Token(u, s) == [user |-> u, secret |-> s]

VARIABLES
    registered,  \* users rows
    totp,        \* [Users -> Secrets \cup {NoTotp}]
    codes,       \* [Users -> SUBSET Codes]: user_recovery_codes rows
    password,    \* [Users -> Passwords]
    sessions,    \* user_sessions rows: [user, factor], factor a ghost: the
                 \* code the checkpoint accepted, PasswordLogin or Registration
    keys,        \* user_api_keys rows: [user, name]
    tokens,      \* confirmation tokens handed out by the password login
    regEnabled,  \* settings.app.registration_enabled
    pc,          \* [Workers -> step of the request]
    req,         \* [Workers -> locals of the request]
    spent,       \* ghost: [Codes -> checkpoints that succeeded with it]
    resp         \* [Workers -> status code answered, or None]

vars == <<registered, totp, codes, password, sessions, keys, tokens,
          regEnabled, pc, req, spent, resp>>

dbVars == <<registered, totp, codes, password, sessions, keys, tokens,
            regEnabled>>

NoReq == [route |-> None, user |-> None, via |-> None, arg |-> None,
          arg2 |-> None]

Respond(w, code) ==
    /\ resp' = [resp EXCEPT ![w] = code]
    /\ pc' = [pc EXCEPT ![w] = "done"]
    /\ req' = [req EXCEPT ![w] = NoReq]

Continue(w, next, r) ==
    /\ pc' = [pc EXCEPT ![w] = next]
    /\ req' = [req EXCEPT ![w] = r]
    /\ UNCHANGED resp

(***************************************************************************)
(* The client `auth` middleware, then the route.  A session cookie is     *)
(* looked up with User::by_session, else an Authorization header with     *)
(* User::by_api_key; either unknown is 401, neither present is 401.  The   *)
(* spawned last_used UPDATE changes nothing modelled.  The route runs as   *)
(* the credential's owner, with AuthMethod Session or ApiKey.              *)
(***************************************************************************)
ClientAuth(w, route, cred, arg, arg2) ==
    /\ pc[w] = "idle"
    /\ IF cred = None \/ cred = Bogus
         THEN Respond(w, 401)
         ELSE Continue(w, route, [route |-> route, user |-> cred.user,
                                  via |-> cred.kind, arg |-> arg,
                                  arg2 |-> arg2])
    /\ UNCHANGED <<dbVars, spent>>

Credentials ==
    {[kind |-> "session", user |-> s.user] : s \in sessions}
        \cup {[kind |-> "key", user |-> k.user] : k \in keys}
        \cup {None, Bogus}

(***************************************************************************)
(* PUT /api/client/account/password: validate_data (401), then            *)
(* validate_password against the stored hash (401), then update_password  *)
(* in a later statement.  Sessions and API keys are left as they are.     *)
(***************************************************************************)
PasswordCheck(w) ==
    /\ pc[w] = "password"
    /\ IF req[w].arg = Invalid \/ req[w].arg # password[req[w].user]
         THEN Respond(w, 401)
         ELSE Continue(w, "password_update", req[w])
    /\ UNCHANGED <<dbVars, spent>>

PasswordUpdate(w) ==
    /\ pc[w] = "password_update"
    /\ password' = [password EXCEPT ![req[w].user] = req[w].arg2]
    /\ Respond(w, 200)
    /\ UNCHANGED <<registered, totp, codes, sessions, keys, tokens,
                   regEnabled, spent>>

\* GET /api/client/account/api-keys: validate_data on the query (401), then
\* a read of the caller's keys.
ApiKeyList(w) ==
    /\ pc[w] = "api_key_list"
    /\ Respond(w, IF req[w].arg = Invalid THEN 401 ELSE 200)
    /\ UNCHANGED <<dbVars, spent>>

(***************************************************************************)
(* POST /api/client/account/api-keys: validate_data (400); a request       *)
(* authenticated by an API key is refused (403); UserApiKey::create, whose *)
(* unique (user, name) violation is 409.                                   *)
(***************************************************************************)
ApiKeyCreate(w) ==
    LET u == req[w].user
        name == req[w].arg
    IN
    /\ pc[w] = "api_key_create"
    /\ IF name = Invalid THEN Respond(w, 400) /\ UNCHANGED keys
       ELSE IF req[w].via = "key" THEN Respond(w, 403) /\ UNCHANGED keys
       ELSE IF \E k \in keys : k.user = u /\ k.name = name
            THEN Respond(w, 409) /\ UNCHANGED keys
       ELSE /\ keys' = keys \cup {[user |-> u, name |-> name]}
            /\ Respond(w, 200)
    /\ UNCHANGED <<registered, totp, codes, password, sessions, tokens,
                   regEnabled, spent>>

(***************************************************************************)
(* POST /api/auth/login/checkpoint.  The confirmation token is verified    *)
(* (400).  A 6-character code is checked with check_current against the   *)
(* secret the token carries (400); a 10-character code goes to            *)
(* UserRecoveryCode::delete_by_code; any other length is 400.              *)
(***************************************************************************)
\* Mutant: the `_ =>` arm ends in `;` instead of `return`, so a code of
\* any other length falls through to the session.
CheckpointVerifyFallThrough(w, tok, code) ==
    /\ pc[w] = "idle"
    /\ IF tok = Bogus THEN Respond(w, 400)
       ELSE IF code \in TotpCodes
            THEN IF code.secret = tok.secret /\ code.current
                   THEN Continue(w, "cp_session",
                                 [NoReq EXCEPT !.user = tok.user, !.arg = code])
                   ELSE Respond(w, 400)
       ELSE IF code \in Codes
            THEN Continue(w, "cp_recovery",
                          [NoReq EXCEPT !.user = tok.user, !.arg = code])
       ELSE Continue(w, "cp_session",
                     [NoReq EXCEPT !.user = tok.user, !.arg = code])
    /\ UNCHANGED <<dbVars, spent>>

\* Mutant: `check_current(..).is_ok()`, which holds for a wrong code too.
CheckpointVerifyIsOk(w, tok, code) ==
    /\ pc[w] = "idle"
    /\ IF tok = Bogus THEN Respond(w, 400)
       ELSE IF code \in TotpCodes
            THEN Continue(w, "cp_session",
                          [NoReq EXCEPT !.user = tok.user, !.arg = code])
       ELSE IF code \in Codes
            THEN Continue(w, "cp_recovery",
                          [NoReq EXCEPT !.user = tok.user, !.arg = code])
       ELSE Respond(w, 400)
    /\ UNCHANGED <<dbVars, spent>>

CheckpointVerify(w, tok, code) ==
    /\ pc[w] = "idle"
    /\ IF tok = Bogus THEN Respond(w, 400)
       ELSE IF code \in TotpCodes
            THEN IF code.secret = tok.secret /\ code.current
                   THEN Continue(w, "cp_session",
                                 [NoReq EXCEPT !.user = tok.user, !.arg = code])
                   ELSE Respond(w, 400)
       ELSE IF code \in Codes
            THEN Continue(w, "cp_recovery",
                          [NoReq EXCEPT !.user = tok.user, !.arg = code])
       ELSE Respond(w, 400)
    /\ UNCHANGED <<dbVars, spent>>

\* Mutant: the code is looked up and not deleted.
CheckpointRecoveryLookup(w) ==
    LET u == req[w].user
        c == req[w].arg
    IN
    /\ pc[w] = "cp_recovery"
    /\ IF c \in codes[u]
         THEN /\ spent' = [spent EXCEPT ![c] = @ + 1]
              /\ Continue(w, "cp_session", req[w])
         ELSE Respond(w, 400) /\ UNCHANGED spent
    /\ UNCHANGED <<dbVars>>

\* DELETE FROM user_recovery_codes WHERE user_id = $1 AND code = $2
\* RETURNING code: one statement, so two requests cannot both get the row.
CheckpointRecovery(w) ==
    LET u == req[w].user
        c == req[w].arg
    IN
    /\ pc[w] = "cp_recovery"
    /\ IF c \in codes[u]
         THEN /\ codes' = [codes EXCEPT ![u] = @ \ {c}]
              /\ spent' = [spent EXCEPT ![c] = @ + 1]
              /\ Continue(w, "cp_session", req[w])
         ELSE Respond(w, 400) /\ UNCHANGED <<codes, spent>>
    /\ UNCHANGED <<registered, totp, password, sessions, keys, tokens,
                   regEnabled>>

\* User::by_id (404), then UserSession::create and the session cookie.
CheckpointSession(w) ==
    LET u == req[w].user IN
    /\ pc[w] = "cp_session"
    /\ IF u \notin registered THEN Respond(w, 404) /\ UNCHANGED sessions
       ELSE /\ sessions' = sessions \cup {[user |-> u, factor |-> req[w].arg]}
            /\ Respond(w, 200)
    /\ UNCHANGED <<registered, totp, codes, password, keys, tokens,
                   regEnabled, spent>>

(***************************************************************************)
(* POST /api/auth/register: validate_data (400); registration_enabled is   *)
(* read from the settings (400) and the settings guard dropped; the        *)
(* captcha is verified with an await (400); User::create, whose unique    *)
(* violation is 400; then UserSession::create.                             *)
(***************************************************************************)
RegisterCheck(w, u, captcha, pw) ==
    /\ pc[w] = "idle"
    /\ IF u = Invalid \/ ~regEnabled THEN Respond(w, 400)
       ELSE Continue(w, "reg_captcha",
                     [NoReq EXCEPT !.user = u, !.arg = captcha, !.arg2 = pw])
    /\ UNCHANGED <<dbVars, spent>>

RegisterCaptcha(w) ==
    /\ pc[w] = "reg_captcha"
    /\ IF req[w].arg THEN Continue(w, "reg_create", req[w])
                     ELSE Respond(w, 400)
    /\ UNCHANGED <<dbVars, spent>>

RegisterCreate(w) ==
    LET u == req[w].user IN
    /\ pc[w] = "reg_create"
    /\ IF u \in registered
         THEN Respond(w, 400) /\ UNCHANGED <<registered, password, sessions>>
         ELSE /\ registered' = registered \cup {u}
              /\ password' = [password EXCEPT ![u] = req[w].arg2]
              /\ sessions' = sessions \cup {[user |-> u, factor |-> Registration]}
              /\ Respond(w, 200)
    /\ UNCHANGED <<totp, codes, keys, tokens, regEnabled, spent>>

\* An administrator turns registration on or off (the settings update is
\* not part of the sources).
SettingsToggle ==
    /\ regEnabled' = ~regEnabled
    /\ UNCHANGED <<registered, totp, codes, password, sessions, keys, tokens,
                   pc, req, spent, resp>>

(***************************************************************************)
(* The requests a client may send: the route and its payload.              *)
(***************************************************************************)
ClientRequests ==
    [route : {"password"}, arg : Passwords \cup {Invalid}, arg2 : Passwords]
        \cup [route : {"api_key_list"}, arg : {None, Invalid}, arg2 : {None}]
        \cup [route : {"api_key_create"}, arg : KeyNames \cup {Invalid},
              arg2 : {None}]

(***************************************************************************)
(* The users of Registered exist, some with two-factor authentication and  *)
(* its recovery codes; those without it already hold a session from the    *)
(* password login, those with it a confirmation token.                     *)
(***************************************************************************)
Init ==
    /\ registered = Registered
    /\ totp \in {f \in [Users -> Secrets \cup {NoTotp}] :
                    \A u \in Users \ Registered : f[u] = NoTotp}
    /\ codes = [u \in Users |-> IF totp[u] # NoTotp THEN RecoveryCodes[u]
                                                    ELSE {}]
    /\ password \in [Users -> Passwords]
    /\ sessions = {[user |-> u, factor |-> PasswordLogin] :
                      u \in {v \in Registered : totp[v] = NoTotp}}
    /\ keys = {}
    /\ tokens = {Token(u, totp[u]) : u \in {v \in Registered : totp[v] # NoTotp}}
    /\ regEnabled \in BOOLEAN
    /\ pc = [w \in Workers |-> "idle"]
    /\ req = [w \in Workers |-> NoReq]
    /\ spent = [c \in Codes |-> 0]
    /\ resp = [w \in Workers |-> None]

Next ==
    \/ \E w \in Workers :
          \/ \E cred \in Credentials, r \in ClientRequests :
                ClientAuth(w, r.route, cred, r.arg, r.arg2)
          \/ PasswordCheck(w)
          \/ PasswordUpdate(w)
          \/ ApiKeyList(w)
          \/ ApiKeyCreate(w)
          \/ \E tok \in tokens \cup {Bogus},
               code \in TotpCodes \cup Codes \cup {BadLength} :
                CheckpointVerify(w, tok, code)
          \/ CheckpointRecovery(w)
          \/ CheckpointSession(w)
          \/ \E u \in Users \cup {Invalid}, captcha \in BOOLEAN, pw \in Passwords :
                RegisterCheck(w, u, captcha, pw)
          \/ RegisterCaptcha(w)
          \/ RegisterCreate(w)
    \/ SettingsToggle

Spec == Init /\ [][Next]_vars

-----------------------------------------------------------------------------
Steps == {"idle", "done", "password", "password_update", "api_key_list",
          "api_key_create", "cp_recovery", "cp_session", "reg_captcha",
          "reg_create"}

TypeOK ==
    /\ registered \subseteq Users
    /\ totp \in [Users -> Secrets \cup {NoTotp}]
    /\ codes \in [Users -> SUBSET Codes]
    /\ password \in [Users -> Passwords]
    /\ sessions \subseteq [user : Users, factor : TotpCodes \cup Codes
                                            \cup {PasswordLogin, Registration}]
    /\ keys \subseteq [user : Users, name : KeyNames]
    /\ regEnabled \in BOOLEAN
    /\ pc \in [Workers -> Steps]
    /\ spent \in [Codes -> 0..Cardinality(Workers)]
    /\ resp \in [Workers -> {None, 200, 400, 401, 403, 404, 409}]

(***************************************************************************)
(* A user with two-factor authentication gets a session only by a second  *)
(* factor of that user: a current TOTP code of the user's own secret, or   *)
(* one of the recovery codes generated for that user.  The checkpoint     *)
(* route takes the user and the secret from the confirmation token and    *)
(* the code from the request, and checks them in separate branches.       *)
(***************************************************************************)
SecondFactorBeforeSession ==
    \A s \in sessions :
        totp[s.user] # NoTotp =>
            \/ /\ s.factor \in TotpCodes
               /\ s.factor.secret = totp[s.user]
               /\ s.factor.current
            \/ s.factor \in RecoveryCodes[s.user]

(***************************************************************************)
(* A recovery code signs in at most once, also when two checkpoint         *)
(* requests present it concurrently (delete_by_code).                      *)
(***************************************************************************)
RecoveryCodeSingleUse == \A c \in Codes : spent[c] <= 1
=============================================================================
