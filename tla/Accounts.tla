------------------------------ MODULE Accounts ------------------------------
(***************************************************************************)
(* Sign-up, e-mail verification, login and password reset of the control   *)
(* plane (control-plane/internal/auth/handler.go, store.go, tokens.go).    *)
(* Every SQL statement outside a transaction is an action of its own; a    *)
(* call may stop between any two of them.  An UPDATE of users that finds   *)
(* its user by a token is two: at READ COMMITTED its sub-select reads the  *)
(* snapshot taken when it began, and it may then wait for the user's row.  *)
(* Session tokens are JWTs that no table knows: Issue leaves no state.      *)
(***************************************************************************)
EXTENDS Naturals

CONSTANTS
    Email,      \* e-mail addresses; users.email is unique, so one names a user
    Password,   \* passwords that pass ValidatePassword
    Token,      \* the random tokens the mails carry (a bound on their number)
    Ip,         \* addresses netip.ParseAddr accepts
    BadIp,      \* one it refuses
    Call,       \* calls a server works on at a time
    Limit,      \* signupsPerWindow (5 in the code)
    Random      \* a password nobody was told (RandomToken of a stub user)

ASSUME AccountsAssumption == Limit \in Nat \ {0} /\ Random \notin Password

VARIABLES
    row,        \* row[e]: "none", "unverified" or "verified"
    hash,       \* hash[e]: the password whose hash the row of e holds
    kind,       \* kind[t]: "verify" or "reset", by the table its row is in, or "none"
    owner,      \* owner[t]: the user of that row
    marks,      \* marks[t]: whether t was mailed, is expired, is marked consumed
    uses,       \* uses[t]: how often t changed a user, counted to two
    count,      \* count[ip] of signup_rate_limits, 0 when there is no row
    old,        \* old[ip]: the window of ip began more than an hour ago
    admitted,   \* admitted[ip]: sign-ups let through since that window began
    recent,     \* recent[ip]: sign-ups let through in the hour up to now
    pc,         \* pc[c]: the next statement of call c
    call        \* call[c]: what c was sent or has read

users == <<row, hash>>
tokens == <<kind, owner, marks, uses>>
limits == <<count, old, admitted, recent>>
vars == <<users, tokens, limits, pc, call>>

Steps == {"idle", "limitInsert", "create", "store", "mail",
          "verifyUpdate", "verifyMark", "issue",
          "resetStore", "resetMail", "resetUpdate", "resetMark"}
Hashed == Password \union {Random}
Calls == [email: Email \union {Random}, password: Hashed,
          ip: Ip \union {BadIp}, token: Token \union {Random}]

\* A call with a sign-up or login, one about a user, one about a token.
Sent(e, p, ip) == [email |-> e, password |-> p, ip |-> ip, token |-> Random]
About(e) == Sent(e, Random, BadIp)
Holding(t) == [email |-> Random, password |-> Random, ip |-> BadIp, token |-> t]
Resetting(t, p) == [email |-> Random, password |-> p, ip |-> BadIp, token |-> t]
Nothing == About(Random)

TypeOK ==
    /\ row \in [Email -> {"none", "unverified", "verified"}]
    /\ hash \in [Email -> Hashed]
    /\ kind \in [Token -> {"none", "verify", "reset"}]
    /\ owner \in [Token -> Email \union {Random}]
    /\ marks \in [Token -> SUBSET {"mailed", "consumed", "expired"}]
    /\ uses \in [Token -> 0 .. 2]
    /\ count \in [Ip -> 0 .. Limit]
    /\ admitted \in [Ip -> Nat]
    /\ recent \in [Ip -> Nat]
    /\ old \in [Ip -> BOOLEAN]
    /\ pc \in [Call -> Steps]
    /\ call \in [Call -> Calls]

Init ==
    /\ row = [e \in Email |-> "none"]
    /\ hash = [e \in Email |-> Random]
    /\ kind = [t \in Token |-> "none"]
    /\ owner = [t \in Token |-> Random]
    /\ marks = [t \in Token |-> {}]
    /\ uses = [t \in Token |-> 0]
    /\ count = [ip \in Ip |-> 0]
    /\ old = [ip \in Ip |-> FALSE]
    /\ admitted = [ip \in Ip |-> 0]
    /\ recent = [ip \in Ip |-> 0]
    /\ pc = [c \in Call |-> "idle"]
    /\ call = [c \in Call |-> Nothing]

Idle(c) == pc[c] = "idle"
At(c, step) == pc[c] = step
Goto(c, step, with) ==
    /\ pc' = [pc EXCEPT ![c] = step]
    /\ call' = [call EXCEPT ![c] = with]
End(c) == Goto(c, "idle", Nothing)

Exists(e) == row[e] # "none"
Mailed(t) == "mailed" \in marks[t]
Consumed(t) == "consumed" \in marks[t]
Expired(t) == "expired" \in marks[t]
Live(t, k) == kind[t] = k /\ ~Consumed(t) /\ ~Expired(t)
Marked(t, mark) == marks' = [marks EXCEPT ![t] = @ \union {mark}]
Used(t) == [uses EXCEPT ![t] = IF @ < 2 THEN @ + 1 ELSE @]

\* A statement that read t as live has yet to change its user.
Pending(t) == \E c \in Call :
    (At(c, "verifyUpdate") \/ At(c, "resetUpdate")) /\ call[c].token = t

-----------------------------------------------------------------------------
(* POST /v1/auth/register *)

Opened(ip) ==
    /\ count' = [count EXCEPT ![ip] = 1]
    /\ old' = [old EXCEPT ![ip] = FALSE]
    /\ admitted' = [admitted EXCEPT ![ip] = 1]
    /\ recent' = [recent EXCEPT ![ip] = @ + 1]

Admitted(ip) ==
    /\ count' = [count EXCEPT ![ip] = @ + 1]
    /\ admitted' = [admitted EXCEPT ![ip] = @ + 1]
    /\ recent' = [recent EXCEPT ![ip] = @ + 1]
    /\ UNCHANGED old

\* CheckSignupLimit locks the row it finds, so with a row the transaction is
\* one step; without one nothing is locked and the INSERT is a step of its own.
Register(c, e, p, ip) ==
    /\ Idle(c)
    /\ \/ /\ ip = BadIp
          /\ Goto(c, "create", Sent(e, p, BadIp))
          /\ UNCHANGED limits
       \/ /\ ip # BadIp /\ count[ip] = 0
          /\ Goto(c, "limitInsert", Sent(e, p, ip))
          /\ UNCHANGED limits
       \/ /\ ip # BadIp /\ count[ip] > 0 /\ old[ip]
          /\ Opened(ip)
          /\ Goto(c, "create", Sent(e, p, BadIp))
       \/ /\ ip # BadIp /\ count[ip] \in 1 .. Limit - 1 /\ ~old[ip]
          /\ Admitted(ip)
          /\ Goto(c, "create", Sent(e, p, BadIp))
    /\ UNCHANGED <<users, tokens>>

LimitInsertUpserts(c) ==
    LET ip == call[c].ip
    IN  /\ At(c, "limitInsert")
        /\ count' = [count EXCEPT ![ip] = 1]
        /\ old' = [old EXCEPT ![ip] = FALSE]
        /\ admitted' = [admitted EXCEPT ![ip] = @ + 1]
        /\ recent' = [recent EXCEPT ![ip] = @ + 1]
        /\ Goto(c, "create", Sent(call[c].email, call[c].password, BadIp))
        /\ UNCHANGED <<users, tokens>>

LimitInsertAdds(c) ==
    LET ip == call[c].ip
    IN  /\ At(c, "limitInsert")
        /\ Admitted(ip)
        /\ Goto(c, "create", Sent(call[c].email, call[c].password, BadIp))
        /\ UNCHANGED <<users, tokens>>

\* The primary key refuses the second INSERT: the call is answered INTERNAL.
LimitInsert(c) ==
    LET ip == call[c].ip
    IN  /\ At(c, "limitInsert")
        /\ \/ /\ count[ip] = 0
              /\ Opened(ip)
              /\ Goto(c, "create", Sent(call[c].email, call[c].password, BadIp))
           \/ /\ count[ip] > 0
              /\ End(c)
              /\ UNCHANGED limits
        /\ UNCHANGED <<users, tokens>>

CreateUpserts(c) ==
    LET e == call[c].email
    IN  /\ At(c, "create")
        /\ row' = [row EXCEPT ![e] = IF Exists(e) THEN @ ELSE "unverified"]
        /\ hash' = [hash EXCEPT ![e] = call[c].password]
        /\ Goto(c, "store", About(e))
        /\ UNCHANGED <<tokens, limits>>

\* A taken address is answered like a new one, and nothing is sent.
CreateUnverified(c) ==
    LET e == call[c].email
    IN  /\ At(c, "create")
        /\ \/ /\ ~Exists(e)
              /\ row' = [row EXCEPT ![e] = "unverified"]
              /\ hash' = [hash EXCEPT ![e] = call[c].password]
              /\ Goto(c, "store", About(e))
           \/ /\ Exists(e)
              /\ End(c)
              /\ UNCHANGED users
        /\ UNCHANGED <<tokens, limits>>

NewToken(t, k, e) ==
    /\ kind[t] = "none"
    /\ kind' = [kind EXCEPT ![t] = k]
    /\ owner' = [owner EXCEPT ![t] = e]
    /\ UNCHANGED <<marks, uses>>

StoreVerification(c, t) ==
    /\ At(c, "store")
    /\ NewToken(t, "verify", call[c].email)
    /\ Goto(c, "mail", Holding(t))
    /\ UNCHANGED <<users, limits>>

\* SMTP may deliver and still report an error, or lose what it accepted; the
\* answer is then INTERNAL or Created, and the row is the same.
Mail(c) ==
    /\ At(c, "mail") \/ At(c, "resetMail")
    /\ Marked(call[c].token, "mailed") \/ UNCHANGED marks
    /\ End(c)
    /\ UNCHANGED <<users, kind, owner, uses, limits>>

-----------------------------------------------------------------------------
(* POST /v1/auth/verify: ConsumeVerification is an UPDATE of users and a mark *)
(* of the token.  Only a token that was delivered is ever presented.          *)

VerifySelect(c, t) ==
    /\ Idle(c)
    /\ Live(t, "verify") /\ Mailed(t)
    /\ Goto(c, "verifyUpdate", Holding(t))
    /\ UNCHANGED <<users, tokens, limits>>

VerifyUse(c) ==
    LET t == call[c].token
    IN  /\ At(c, "verifyUpdate")
        /\ row' = [row EXCEPT ![owner[t]] = "verified"]
        /\ uses' = Used(t)
        /\ Goto(c, "verifyMark", Holding(t))
        /\ UNCHANGED <<hash, kind, owner, marks, limits>>

Mark(c) ==
    /\ At(c, "verifyMark") \/ At(c, "resetMark")
    /\ Marked(call[c].token, "consumed")
    /\ End(c)
    /\ UNCHANGED <<users, kind, owner, uses, limits>>

-----------------------------------------------------------------------------
(* POST /v1/auth/login: the row is read, and the JWTs are made from it later *)

LoginReadUnverified(c, e, p) ==
    /\ Idle(c)
    /\ Exists(e)
    /\ hash[e] = p
    /\ Goto(c, "issue", About(e))
    /\ UNCHANGED <<users, tokens, limits>>

LoginRead(c, e, p) ==
    /\ Idle(c)
    /\ row[e] = "verified"
    /\ hash[e] = p
    /\ Goto(c, "issue", About(e))
    /\ UNCHANGED <<users, tokens, limits>>

Issue(c) ==
    /\ At(c, "issue")
    /\ End(c)
    /\ UNCHANGED <<users, tokens, limits>>

-----------------------------------------------------------------------------
(* POST /v1/auth/request-password-reset and /v1/auth/reset-password *)

\* Other addresses are answered Accepted too, and nothing is stored.
RequestReset(c, e) ==
    /\ Idle(c)
    /\ row[e] = "verified"
    /\ Goto(c, "resetStore", About(e))
    /\ UNCHANGED <<users, tokens, limits>>

StoreResetToken(c, t) ==
    /\ At(c, "resetStore")
    /\ NewToken(t, "reset", call[c].email)
    /\ Goto(c, "resetMail", Holding(t))
    /\ UNCHANGED <<users, limits>>

ResetSelectConsumed(c, t, p) ==
    /\ Idle(c)
    /\ kind[t] = "reset" /\ ~Expired(t) /\ Mailed(t)
    /\ Goto(c, "resetUpdate", Resetting(t, p))
    /\ UNCHANGED <<users, tokens, limits>>

ResetSelect(c, t, p) ==
    /\ Idle(c)
    /\ Live(t, "reset") /\ Mailed(t)
    /\ Goto(c, "resetUpdate", Resetting(t, p))
    /\ UNCHANGED <<users, tokens, limits>>

ResetUse(c) ==
    LET t == call[c].token
    IN  /\ At(c, "resetUpdate")
        /\ hash' = [hash EXCEPT ![owner[t]] = call[c].password]
        /\ uses' = Used(t)
        /\ Goto(c, "resetMark", Holding(t))
        /\ UNCHANGED <<row, kind, owner, marks, limits>>

-----------------------------------------------------------------------------
(* What goes on around the calls *)

\* The users part of InviteMemberByEmail and of EnsurePlatformAdmin: a row
\* with a password nobody knows, and no mail.  A known address keeps its row.
Provision(e) ==
    /\ ~Exists(e)
    /\ row' = [row EXCEPT ![e] = "unverified"]
    /\ hash' = [hash EXCEPT ![e] = Random]
    /\ UNCHANGED <<tokens, limits, pc, call>>

\* A storage error, a client that goes away or a server that stops ends the
\* call where it is; what its statements wrote stays.
Drop(c) ==
    /\ ~Idle(c)
    /\ End(c)
    /\ UNCHANGED <<users, tokens, limits>>

\* (What no call can present any more need not expire.)
TokenExpires(t) ==
    /\ Mailed(t) /\ ~Consumed(t) /\ ~Expired(t)
    /\ Marked(t, "expired")
    /\ UNCHANGED <<users, kind, owner, uses, limits, pc, call>>

\* The window's first sign-up is an hour ago; the others may be as recent as
\* they like.
HourPasses(ip) ==
    /\ count[ip] > 0 /\ ~old[ip]
    /\ old' = [old EXCEPT ![ip] = TRUE]
    /\ \E r \in 0 .. admitted[ip] - 1 : recent' = [recent EXCEPT ![ip] = r]
    /\ UNCHANGED <<users, tokens, count, admitted, pc, call>>

\* Sign-ups of the window before this one leave the hour.
MinutesPass(ip) ==
    /\ \E r \in admitted[ip] .. recent[ip] - 1 : recent' = [recent EXCEPT ![ip] = r]
    /\ UNCHANGED <<users, tokens, count, old, admitted, pc, call>>

Next ==
    \/ \E c \in Call, e \in Email, p \in Password :
           \/ \E ip \in Ip \union {BadIp} : Register(c, e, p, ip)
           \/ LoginRead(c, e, p)
    \/ \E c \in Call, t \in Token :
           \/ StoreVerification(c, t)
           \/ VerifySelect(c, t)
           \/ StoreResetToken(c, t)
           \/ \E p \in Password : ResetSelect(c, t, p)
    \/ \E c \in Call : LimitInsert(c) \/ CreateUnverified(c) \/ Mail(c) \/ Mark(c)
    \/ \E c \in Call : VerifyUse(c) \/ ResetUse(c) \/ Issue(c) \/ Drop(c)
    \/ \E c \in Call, e \in Email : RequestReset(c, e)
    \/ \E e \in Email : Provision(e)
    \/ \E t \in Token : TokenExpires(t)
    \/ \E ip \in Ip : HourPasses(ip) \/ MinutesPass(ip)

Spec == Init /\ [][Next]_vars

-----------------------------------------------------------------------------
(* Properties *)

\* A session is only ever issued to an address that was shown to be its owner's:
\* some verification token mailed to it came back.  Neither a reset mail nor a
\* login that raced anything gets one another way.  So a stub user made by an
\* invitation never gets one, for no verification is mailed to it and both login
\* and RequestReset ask for a verified row, although the comment of
\* InviteMemberByEmail (members.go) has it claimed by a password reset.
SessionsAreProven ==
    \A c \in Call : At(c, "issue") =>
        LET e == call[c].email
        IN  /\ row[e] = "verified"
            /\ \E t \in Token :
                   /\ kind[t] = "verify" /\ owner[t] = e
                   /\ Mailed(t) /\ uses[t] > 0

\* CheckSignupLimit lets at most Limit sign-ups of one address through in the
\* window it keeps, also when the first two race for the row.  Its comment says
\* "per rolling hour", but the window starts over once it is an hour old, so what
\* holds of the hour up to now is one short of twice the limit.
SignupsAreBounded ==
    \A ip \in Ip : admitted[ip] <= Limit /\ recent[ip] <= 2 * Limit - 1

\* Once a token is consumed or expired, only statements that had read it before
\* still change its user, and no other ever comes to hold it, whatever order the
\* calls' UPDATEs and marks end in (ConsumeVerification, ConsumeResetToken).
ConsumedIsDead ==
    [][\A t \in Token : (Consumed(t) \/ Expired(t)) /\ ~Pending(t) =>
           uses'[t] = uses[t] /\ ~Pending(t)' /\ (Consumed(t) \/ Expired(t))']_vars

\* The password of an account changes by a statement that read a reset token
\* mailed to that very account as live, and by nothing else: no second sign-up,
\* invitation or verification of the address replaces it.
OnlyResetsChangePasswords ==
    [][\A e \in Email : Exists(e) /\ hash'[e] # hash[e] =>
           \E t \in Token : /\ Pending(t) /\ uses'[t] > 0
                           /\ kind[t] = "reset" /\ owner[t] = e /\ Mailed(t)]_vars

\* A reset token changes a password once at most ("single-use").
ResetIsSingleUse == \A t \in Token : kind[t] = "reset" => uses[t] <= 1

=============================================================================
