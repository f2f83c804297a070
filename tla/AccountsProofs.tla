--------------------------- MODULE AccountsProofs ---------------------------
(***************************************************************************)
(* Accounts proved, for any number of users, tokens, addresses and calls.  *)
(* A session is proven because its user was verified when the login read   *)
(* the row, because no statement takes a verification back, and because a  *)
(* token that was mailed and used stays in its table.                      *)
(***************************************************************************)
EXTENDS Accounts, TLAPS

\* What a call is about, by the statement it is at.
CallFits(step, with) ==
    /\ step \in {"limitInsert", "create", "store", "resetStore", "issue"} => with.email \in Email
    /\ step \in {"limitInsert", "create", "resetUpdate"} => with.password \in Password
    /\ step = "limitInsert" => with.ip \in Ip
    /\ step \in {"mail", "resetMail", "verifyUpdate", "resetUpdate", "verifyMark", "resetMark"} =>
           with.token \in Token
    /\ step = "issue" => row[with.email] = "verified"
    /\ step = "verifyUpdate" => kind[with.token] = "verify" /\ Mailed(with.token)
    /\ step = "resetUpdate" => kind[with.token] = "reset" /\ Mailed(with.token)

Owned == \A t \in Token : kind[t] # "none" => owner[t] \in Email

Shown(e) == \E t \in Token : kind[t] = "verify" /\ owner[t] = e /\ Mailed(t) /\ uses[t] > 0

\* The window of an address counts what it let through; the hour up to now
\* reaches back into the window before it while it is open, and not to its first
\* sign-up any more once it is old.
WindowsFit ==
    /\ admitted = count
    /\ \A ip \in Ip : recent[ip] < IF old[ip] THEN count[ip] ELSE count[ip] + Limit

AccountsInv ==
    /\ TypeOK
    /\ Owned
    /\ \A c \in Call : CallFits(pc[c], call[c])
    /\ \A e \in Email : row[e] = "verified" => Shown(e)
    /\ WindowsFit

\* What no step takes back.
RowsLast ==
    /\ \A e \in Email : row[e] = "verified" => row'[e] = "verified"
    /\ \A t \in Token : kind[t] # "none" => kind'[t] = kind[t] /\ owner'[t] = owner[t]
    /\ \A t \in Token : marks[t] \subseteq marks'[t] /\ uses[t] <= uses'[t]

-----------------------------------------------------------------------------
(* Steps that verify nobody *)

LEMMA Quiet ==
    ASSUME AccountsInv, TypeOK', RowsLast, Owned',
           \A e \in Email : row'[e] = "verified" => row[e] = "verified",
           WindowsFit', UNCHANGED <<pc, call>>
    PROVE  AccountsInv'
<1>1. \A c \in Call : CallFits(pc[c], call[c])'
  BY DEF AccountsInv, TypeOK, CallFits, Mailed, RowsLast
<1>2. \A e \in Email : row'[e] = "verified" => Shown(e)'
  BY DEF AccountsInv, TypeOK, Shown, Mailed, RowsLast
<1> QED
  BY <1>1, <1>2 DEF AccountsInv

LEMMA QuietCall ==
    ASSUME AccountsInv, TypeOK', RowsLast, Owned',
           \A e \in Email : row'[e] = "verified" => row[e] = "verified",
           WindowsFit',
           NEW c \in Call, NEW to, NEW with, Goto(c, to, with), CallFits(to, with)
    PROVE  AccountsInv'
<1>1. pc'[c] = to /\ call'[c] = with /\ \A d \in Call \ {c} : pc'[d] = pc[d] /\ call'[d] = call[d]
  BY DEF Goto, AccountsInv, TypeOK
<1>2. \A d \in Call : CallFits(pc[d], call[d])'
  BY <1>1 DEF AccountsInv, TypeOK, CallFits, Mailed, RowsLast
<1>3. \A e \in Email : row'[e] = "verified" => Shown(e)'
  BY DEF AccountsInv, TypeOK, Shown, Mailed, RowsLast
<1> QED
  BY <1>2, <1>3 DEF AccountsInv

LEMMA Typed ==
    ASSUME TypeOK, NEW c \in Call, NEW to \in Steps, NEW with \in Calls, Goto(c, to, with)
    PROVE  pc' \in [Call -> Steps] /\ call' \in [Call -> Calls]
BY DEF TypeOK, Goto

LEMMA WellFormed ==
    /\ Nothing \in Calls
    /\ \A e \in Email, p \in Password, ip \in Ip \union {BadIp} :
           /\ Sent(e, p, ip) \in Calls /\ Sent(e, p, ip).email = e
           /\ Sent(e, p, ip).password = p /\ Sent(e, p, ip).ip = ip
    /\ \A e \in Email : About(e) \in Calls /\ About(e).email = e
    /\ \A t \in Token : Holding(t) \in Calls /\ Holding(t).token = t
    /\ \A t \in Token, p \in Password :
           Resetting(t, p) \in Calls /\ Resetting(t, p).token = t /\ Resetting(t, p).password = p
BY DEF Nothing, Sent, About, Holding, Resetting, Calls, Hashed

LEMMA AccountsStart == ASSUME Init PROVE AccountsInv
<1>1. TypeOK
  BY AccountsAssumption, WellFormed DEF Init, TypeOK, Hashed, Steps
<1>2. Owned /\ \A c \in Call : CallFits(pc[c], call[c])
  BY DEF Init, Owned, CallFits
<1> QED
  BY <1>1, <1>2, AccountsAssumption DEF Init, AccountsInv, WindowsFit

-----------------------------------------------------------------------------
(* What every step keeps *)

LEMMA NewTokenLasts ==
    ASSUME TypeOK, NEW t \in Token, NEW k, NEW e, NewToken(t, k, e), UNCHANGED row
    PROVE  RowsLast
BY DEF NewToken, RowsLast, TypeOK

LEMMA MarkLasts ==
    ASSUME TypeOK, NEW t, NEW m, Marked(t, m) \/ UNCHANGED marks,
           UNCHANGED <<row, kind, owner, uses>>
    PROVE  RowsLast
BY DEF Marked, RowsLast, TypeOK

LEMMA UseLasts ==
    ASSUME TypeOK, NEW t \in Token, uses' = Used(t), UNCHANGED <<kind, owner, marks>>,
           row' = row \/ row' = [row EXCEPT ![owner[t]] = "verified"]
    PROVE  RowsLast
<1>1. \A u \in Token : uses[u] <= uses'[u]
  BY DEF Used, TypeOK
<1>2. \A e \in Email : row[e] = "verified" => row'[e] = "verified"
  BY DEF TypeOK
<1> QED
  BY <1>1, <1>2 DEF RowsLast

LEMMA RowLasts ==
    ASSUME TypeOK, UNCHANGED tokens, NEW e, ~Exists(e),
           row' = [row EXCEPT ![e] = "unverified"]
    PROVE  RowsLast
BY DEF tokens, Exists, RowsLast, TypeOK

LEMMA NoneLasts == ASSUME TypeOK, UNCHANGED tokens, UNCHANGED row PROVE RowsLast
BY DEF tokens, RowsLast, TypeOK

LEMMA StepLasts == ASSUME AccountsInv, [Next]_vars PROVE RowsLast
<1>0. TypeOK
  BY DEF AccountsInv
<1>1. CASE UNCHANGED vars
  BY <1>1, <1>0, NoneLasts DEF vars, users
<1>2. ASSUME NEW c \in Call, NEW e \in Email, NEW p \in Password,
             LoginRead(c, e, p) \/ \E ip \in Ip \union {BadIp} : Register(c, e, p, ip)
      PROVE  RowsLast
  BY <1>2, <1>0, NoneLasts DEF LoginRead, Register, users
<1>3. ASSUME NEW c \in Call, NEW t \in Token, StoreVerification(c, t) \/ StoreResetToken(c, t)
      PROVE  RowsLast
  BY <1>3, <1>0, NewTokenLasts DEF StoreVerification, StoreResetToken, users
<1>4. ASSUME NEW c \in Call, VerifyUse(c) \/ ResetUse(c)
      PROVE  RowsLast
  <2>1. call[c].token \in Token
    BY <1>4 DEF VerifyUse, ResetUse, At, AccountsInv, CallFits
  <2> QED
    BY <1>4, <2>1, <1>0, UseLasts DEF VerifyUse, ResetUse
<1>5. ASSUME NEW c \in Call,
             \/ LimitInsert(c) \/ Issue(c) \/ Drop(c)
             \/ \E t \in Token : VerifySelect(c, t) \/ \E p \in Password : ResetSelect(c, t, p)
      PROVE  RowsLast
  BY <1>5, <1>0, NoneLasts DEF LimitInsert, Issue, Drop, VerifySelect, ResetSelect, users
<1>6. ASSUME NEW c \in Call, CreateUnverified(c)
      PROVE  RowsLast
  BY <1>6, <1>0, NoneLasts, RowLasts DEF CreateUnverified, users
<1>7. ASSUME NEW c \in Call, Mail(c) \/ Mark(c)
      PROVE  RowsLast
  BY <1>7, <1>0, MarkLasts DEF Mail, Mark, users
<1>8. ASSUME NEW c \in Call, NEW e \in Email, RequestReset(c, e)
      PROVE  RowsLast
  BY <1>8, <1>0, NoneLasts DEF RequestReset, users
<1>9. ASSUME NEW e \in Email, Provision(e)
      PROVE  RowsLast
  BY <1>9, <1>0, RowLasts DEF Provision
<1>10. ASSUME NEW t \in Token, TokenExpires(t)
       PROVE  RowsLast
  BY <1>10, <1>0, MarkLasts DEF TokenExpires, users
<1>11. ASSUME NEW ip \in Ip, HourPasses(ip) \/ MinutesPass(ip)
       PROVE  RowsLast
  BY <1>11, <1>0, NoneLasts DEF HourPasses, MinutesPass, users
<1> QED
  BY <1>1, <1>2, <1>3, <1>4, <1>5, <1>6, <1>7, <1>8, <1>9, <1>10, <1>11 DEF Next

-----------------------------------------------------------------------------
(* The steps of sign-up *)

\* A window lets at most Limit sign-ups through, and starts with what the hour
\* up to now still holds of the one before.
LEMMA LimitsKept ==
    ASSUME AccountsInv, NEW ip,
           \/ UNCHANGED limits
           \/ ip \in Ip /\ (count[ip] = 0 \/ old[ip]) /\ Opened(ip)
           \/ ip \in Ip /\ count[ip] \in 1 .. Limit - 1 /\ ~old[ip] /\ Admitted(ip)
    PROVE  /\ count' \in [Ip -> 0 .. Limit] /\ admitted' \in [Ip -> Nat]
           /\ old' \in [Ip -> BOOLEAN] /\ recent' \in [Ip -> Nat] /\ WindowsFit'
<1>1. /\ count \in [Ip -> 0 .. Limit] /\ admitted \in [Ip -> Nat] /\ old \in [Ip -> BOOLEAN]
      /\ recent \in [Ip -> Nat] /\ admitted = count /\ Limit \in Nat \ {0}
      /\ \A i \in Ip : recent[i] < IF old[i] THEN count[i] ELSE count[i] + Limit
  BY AccountsAssumption DEF AccountsInv, TypeOK, WindowsFit
<1>2. CASE UNCHANGED limits
  BY <1>1, <1>2 DEF limits, WindowsFit
<1>3. CASE ip \in Ip /\ (count[ip] = 0 \/ old[ip]) /\ Opened(ip)
  <2>1. recent[ip] < Limit
    BY <1>1, <1>3
  <2>2. /\ count' \in [Ip -> 0 .. Limit] /\ admitted' \in [Ip -> Nat]
        /\ old' \in [Ip -> BOOLEAN] /\ recent' \in [Ip -> Nat] /\ admitted' = count'
    BY <1>1, <1>3 DEF Opened
  <2>3. \A i \in Ip : recent'[i] < IF old'[i] THEN count'[i] ELSE count'[i] + Limit
    BY <1>1, <1>3, <2>1 DEF Opened
  <2> QED
    BY <2>2, <2>3 DEF WindowsFit
<1>4. CASE ip \in Ip /\ count[ip] \in 1 .. Limit - 1 /\ ~old[ip] /\ Admitted(ip)
  <2>1. /\ count' \in [Ip -> 0 .. Limit] /\ admitted' \in [Ip -> Nat]
        /\ old' \in [Ip -> BOOLEAN] /\ recent' \in [Ip -> Nat] /\ admitted' = count'
    BY <1>1, <1>4 DEF Admitted
  <2>2. \A i \in Ip : recent'[i] < IF old'[i] THEN count'[i] ELSE count'[i] + Limit
    BY <1>1, <1>4 DEF Admitted
  <2> QED
    BY <2>1, <2>2 DEF WindowsFit
<1> QED
  BY <1>2, <1>3, <1>4

LEMMA RegisterStep ==
    ASSUME AccountsInv, RowsLast, NEW c \in Call, NEW e \in Email, NEW p \in Password,
           NEW ip \in Ip \union {BadIp}, Register(c, e, p, ip)
    PROVE  AccountsInv'
<1> DEFINE one == Sent(e, p, BadIp)
           two == Sent(e, p, ip)
<1>1. /\ one \in Calls /\ two \in Calls
      /\ CallFits("create", one) /\ (ip \in Ip => CallFits("limitInsert", two))
  BY WellFormed DEF CallFits
<1> HIDE DEF one, two
<1>2. UNCHANGED <<users, tokens>>
  BY DEF Register
<1>3. PICK to \in {"create", "limitInsert"}, with \in Calls :
          Goto(c, to, with) /\ CallFits(to, with)
  BY <1>1 DEF Register, one, two
<1>4. /\ count' \in [Ip -> 0 .. Limit] /\ admitted' \in [Ip -> Nat] /\ old' \in [Ip -> BOOLEAN]
      /\ recent' \in [Ip -> Nat] /\ WindowsFit'
  BY LimitsKept DEF Register
<1>5. TypeOK'
  BY <1>2, <1>3, <1>4, Typed DEF AccountsInv, TypeOK, users, tokens, Steps
<1> QED
  BY <1>2, <1>3, <1>4, <1>5, QuietCall DEF users, tokens, AccountsInv, Owned

LEMMA LimitInsertStep ==
    ASSUME AccountsInv, RowsLast, NEW c \in Call, LimitInsert(c)
    PROVE  AccountsInv'
<1> DEFINE ip == call[c].ip
           next == Sent(call[c].email, call[c].password, BadIp)
<1>1. ip \in Ip /\ call[c].email \in Email /\ call[c].password \in Password
  BY DEF LimitInsert, At, AccountsInv, CallFits
<1>2. next \in Calls /\ CallFits("create", next) /\ Nothing \in Calls /\ CallFits("idle", Nothing)
  BY <1>1, WellFormed DEF CallFits
<1> HIDE DEF next
<1>3. UNCHANGED <<users, tokens>>
  BY DEF LimitInsert
<1>4. PICK to \in {"create", "idle"}, with \in Calls : Goto(c, to, with) /\ CallFits(to, with)
  BY <1>2 DEF LimitInsert, End, next
<1>5. /\ count' \in [Ip -> 0 .. Limit] /\ admitted' \in [Ip -> Nat] /\ old' \in [Ip -> BOOLEAN]
      /\ recent' \in [Ip -> Nat] /\ WindowsFit'
  BY <1>1, LimitsKept DEF LimitInsert
<1>6. TypeOK'
  BY <1>3, <1>4, <1>5, Typed DEF AccountsInv, TypeOK, users, tokens, Steps
<1> QED
  BY <1>3, <1>4, <1>5, <1>6, QuietCall DEF users, tokens, AccountsInv, Owned

LEMMA CreateStep ==
    ASSUME AccountsInv, RowsLast, NEW c \in Call, CreateUnverified(c)
    PROVE  AccountsInv'
<1> DEFINE e == call[c].email
<1>1. e \in Email /\ call[c].password \in Password
  BY DEF CreateUnverified, At, AccountsInv, CallFits
<1>2. /\ About(e) \in Calls /\ CallFits("store", About(e))
      /\ Nothing \in Calls /\ CallFits("idle", Nothing)
  BY <1>1, WellFormed DEF CallFits
<1>3. UNCHANGED <<tokens, limits>>
  BY DEF CreateUnverified
<1>4. PICK to \in {"store", "idle"}, with \in Calls : Goto(c, to, with) /\ CallFits(to, with)
  BY <1>2 DEF CreateUnverified, End
<1>5. /\ row' \in [Email -> {"none", "unverified", "verified"}] /\ hash' \in [Email -> Hashed]
      /\ \A d \in Email : row'[d] = "verified" => row[d] = "verified"
  BY <1>1 DEF CreateUnverified, users, AccountsInv, TypeOK, Hashed
<1>6. TypeOK'
  BY <1>3, <1>4, <1>5, Typed DEF AccountsInv, TypeOK, tokens, limits, Steps
<1> QED
  BY <1>3, <1>4, <1>5, <1>6, QuietCall DEF tokens, limits, AccountsInv, Owned, WindowsFit

LEMMA StoreStep ==
    ASSUME AccountsInv, RowsLast, NEW c \in Call, NEW t \in Token,
           StoreVerification(c, t) \/ StoreResetToken(c, t)
    PROVE  AccountsInv'
<1>1. PICK k \in {"verify", "reset"}, to \in {"mail", "resetMail"} :
          NewToken(t, k, call[c].email) /\ Goto(c, to, Holding(t))
  BY DEF StoreVerification, StoreResetToken
<1>2. call[c].email \in Email
  BY DEF StoreVerification, StoreResetToken, At, AccountsInv, CallFits
<1>3. UNCHANGED <<users, limits>>
  BY DEF StoreVerification, StoreResetToken
<1>4. Holding(t) \in Calls /\ CallFits(to, Holding(t))
  BY WellFormed DEF CallFits
<1>5. TypeOK' /\ Owned'
  BY <1>1, <1>2, <1>3, <1>4, Typed
     DEF NewToken, AccountsInv, TypeOK, Owned, users, limits, Steps
<1> QED
  BY <1>1, <1>3, <1>4, <1>5, QuietCall DEF users, limits, AccountsInv, WindowsFit

LEMMA MarkStep ==
    ASSUME AccountsInv, RowsLast, NEW c \in Call, Mail(c) \/ Mark(c)
    PROVE  AccountsInv'
<1>1. call[c].token \in Token
  BY DEF Mail, Mark, At, AccountsInv, CallFits
<1>2. UNCHANGED <<users, kind, owner, uses, limits>> /\ Goto(c, "idle", Nothing)
  BY DEF Mail, Mark, End
<1>3. marks' \in [Token -> SUBSET {"mailed", "consumed", "expired"}]
  BY DEF Mail, Mark, Marked, AccountsInv, TypeOK
<1>4. TypeOK' /\ Owned'
  BY <1>2, <1>3, Typed, WellFormed DEF AccountsInv, TypeOK, Owned, users, limits, Steps
<1>5. CallFits("idle", Nothing)
  BY DEF CallFits
<1> QED
  BY <1>2, <1>4, <1>5, QuietCall DEF users, limits, AccountsInv, WindowsFit

-----------------------------------------------------------------------------
(* The steps that use a token, and the login *)

LEMMA TokenUseStep ==
    ASSUME AccountsInv, RowsLast, NEW c \in Call, VerifyUse(c)
    PROVE  AccountsInv'
<1> DEFINE t == call[c].token
           e == owner[t]
<1>1. /\ t \in Token /\ kind[t] = "verify" /\ Mailed(t) /\ e \in Email
      /\ row' = [row EXCEPT ![e] = "verified"]
      /\ uses' = Used(t) /\ Goto(c, "verifyMark", Holding(t))
      /\ UNCHANGED <<hash, kind, owner, marks, limits>>
  BY DEF VerifyUse, At, AccountsInv, CallFits, Owned
<1> HIDE DEF t
<1>2. Holding(t) \in Calls /\ Holding(t).token = t
  BY <1>1, WellFormed
<1>3. uses' \in [Token -> 0 .. 2] /\ uses'[t] > 0
  BY <1>1 DEF Used, AccountsInv, TypeOK
<1>4. TypeOK' /\ Owned'
  BY <1>1, <1>2, <1>3, Typed DEF AccountsInv, TypeOK, Owned, limits, Steps
<1>5. pc'[c] = "verifyMark" /\ call'[c] = Holding(t)
      /\ \A d \in Call \ {c} : pc'[d] = pc[d] /\ call'[d] = call[d]
  BY <1>1 DEF Goto, AccountsInv, TypeOK
<1>6. \A d \in Call : CallFits(pc[d], call[d])'
  BY <1>1, <1>2, <1>5 DEF AccountsInv, TypeOK, CallFits, Mailed, RowsLast
<1>7. \A d \in Email : row'[d] = "verified" => Shown(d)'
  <2>1. ASSUME NEW d \in Email, d = e
        PROVE  Shown(d)'
    BY <1>1, <1>3, <2>1 DEF Shown, Mailed
  <2>2. ASSUME NEW d \in Email, d # e, row'[d] = "verified"
        PROVE  Shown(d)'
    <3>1. row[d] = "verified"
      BY <1>1, <2>2 DEF AccountsInv, TypeOK
    <3>2. PICK u \in Token : kind[u] = "verify" /\ owner[u] = d /\ Mailed(u) /\ uses[u] > 0
      BY <3>1 DEF AccountsInv, Shown
    <3>3. uses[u] \in Nat /\ uses'[u] \in Nat
      BY <1>3 DEF AccountsInv, TypeOK
    <3> QED
      BY <1>1, <3>2, <3>3 DEF Shown, Mailed, RowsLast
  <2> QED
    BY <2>1, <2>2
<1> QED
  BY <1>1, <1>4, <1>6, <1>7 DEF AccountsInv, limits, WindowsFit

LEMMA ResetStep ==
    ASSUME AccountsInv, RowsLast, NEW c \in Call, ResetUse(c)
    PROVE  AccountsInv'
<1> DEFINE t == call[c].token
           p == call[c].password
<1>1. /\ hash' = [hash EXCEPT ![owner[t]] = p] /\ uses' = Used(t)
      /\ Goto(c, "resetMark", Holding(t)) /\ UNCHANGED <<row, kind, owner, marks, limits>>
      /\ t \in Token /\ p \in Password
  BY DEF ResetUse, At, AccountsInv, CallFits
<1> HIDE DEF t, p
<1>2. Holding(t) \in Calls /\ CallFits("resetMark", Holding(t))
  BY <1>1, WellFormed DEF CallFits
<1>3. uses' \in [Token -> 0 .. 2] /\ hash' \in [Email -> Hashed]
  <2>1. uses' \in [Token -> 0 .. 2]
    BY <1>1 DEF Used, AccountsInv, TypeOK
  <2>2. hash' \in [Email -> Hashed]
    BY <1>1 DEF AccountsInv, TypeOK, Hashed
  <2> QED
    BY <2>1, <2>2
<1>4. TypeOK' /\ Owned'
  BY <1>1, <1>2, <1>3, Typed DEF AccountsInv, TypeOK, Owned, limits, Steps
<1> QED
  BY <1>1, <1>2, <1>4, QuietCall DEF limits, AccountsInv, WindowsFit

\* The snapshot of an UPDATE that is to use a token.
LEMMA SelectStep ==
    ASSUME AccountsInv, RowsLast, NEW c \in Call, NEW t \in Token,
           VerifySelect(c, t) \/ \E p \in Password : ResetSelect(c, t, p)
    PROVE  AccountsInv'
<1>1. PICK to \in {"verifyUpdate", "resetUpdate"}, with \in Calls :
          Goto(c, to, with) /\ CallFits(to, with)
  BY WellFormed DEF VerifySelect, ResetSelect, Live, CallFits
<1>2. UNCHANGED <<users, tokens, limits>>
  BY DEF VerifySelect, ResetSelect
<1>3. TypeOK' /\ Owned'
  BY <1>1, <1>2, Typed DEF AccountsInv, TypeOK, Owned, users, tokens, limits, Steps
<1> QED
  BY <1>1, <1>2, <1>3, QuietCall DEF users, tokens, limits, AccountsInv, WindowsFit

LEMMA LoginStep ==
    ASSUME AccountsInv, RowsLast, NEW c \in Call, NEW e \in Email, NEW p \in Password,
           LoginRead(c, e, p)
    PROVE  AccountsInv'
<1>1. /\ UNCHANGED <<users, tokens, limits>> /\ row[e] = "verified"
      /\ Goto(c, "issue", About(e))
  BY DEF LoginRead
<1>2. About(e) \in Calls /\ CallFits("issue", About(e))
  BY <1>1, WellFormed DEF CallFits
<1>3. TypeOK' /\ Owned'
  BY <1>1, <1>2, Typed DEF AccountsInv, TypeOK, Owned, users, tokens, limits, Steps
<1> QED
  BY <1>1, <1>2, <1>3, QuietCall DEF users, tokens, limits, AccountsInv, WindowsFit

LEMMA ResetRequestStep ==
    ASSUME AccountsInv, RowsLast, NEW c \in Call, NEW e \in Email, RequestReset(c, e)
    PROVE  AccountsInv'
<1>1. UNCHANGED <<users, tokens, limits>> /\ Goto(c, "resetStore", About(e))
  BY DEF RequestReset
<1>2. About(e) \in Calls /\ CallFits("resetStore", About(e))
  BY WellFormed DEF CallFits
<1>3. TypeOK' /\ Owned'
  BY <1>1, <1>2, Typed DEF AccountsInv, TypeOK, Owned, users, tokens, limits, Steps
<1> QED
  BY <1>1, <1>2, <1>3, QuietCall DEF users, tokens, limits, AccountsInv, WindowsFit

LEMMA DropStep ==
    ASSUME AccountsInv, RowsLast, NEW c \in Call, Issue(c) \/ Drop(c)
    PROVE  AccountsInv'
<1>1. UNCHANGED <<users, tokens, limits>> /\ Goto(c, "idle", Nothing)
  BY DEF Issue, Drop, End
<1>2. CallFits("idle", Nothing)
  BY DEF CallFits
<1>3. TypeOK' /\ Owned'
  BY <1>1, Typed, WellFormed DEF AccountsInv, TypeOK, Owned, users, tokens, limits, Steps
<1> QED
  BY <1>1, <1>2, <1>3, QuietCall DEF users, tokens, limits, AccountsInv, WindowsFit

-----------------------------------------------------------------------------
(* What goes on around the calls *)

LEMMA ProvisionStep ==
    ASSUME AccountsInv, RowsLast, NEW e \in Email, Provision(e)
    PROVE  AccountsInv'
<1>1. /\ row' = [row EXCEPT ![e] = "unverified"] /\ hash' = [hash EXCEPT ![e] = Random]
      /\ UNCHANGED <<tokens, limits, pc, call>>
  BY DEF Provision
<1>2. /\ row' \in [Email -> {"none", "unverified", "verified"}] /\ hash' \in [Email -> Hashed]
      /\ \A d \in Email : row'[d] = "verified" => row[d] = "verified"
  BY <1>1 DEF AccountsInv, TypeOK, Hashed
<1>3. TypeOK' /\ Owned'
  BY <1>1, <1>2 DEF AccountsInv, TypeOK, Owned, tokens, limits
<1> QED
  BY <1>1, <1>2, <1>3, Quiet DEF AccountsInv, limits, WindowsFit

LEMMA ExpireStep ==
    ASSUME AccountsInv, RowsLast, NEW t \in Token, TokenExpires(t)
    PROVE  AccountsInv'
<1>1. Marked(t, "expired") /\ UNCHANGED <<users, kind, owner, uses, limits, pc, call>>
  BY DEF TokenExpires
<1>2. marks' \in [Token -> SUBSET {"mailed", "consumed", "expired"}]
  BY <1>1 DEF Marked, AccountsInv, TypeOK
<1>3. TypeOK' /\ Owned'
  BY <1>1, <1>2 DEF AccountsInv, TypeOK, Owned, users, limits
<1> QED
  BY <1>1, <1>3, Quiet DEF AccountsInv, users, limits, WindowsFit

LEMMA HourStep ==
    ASSUME AccountsInv, RowsLast, NEW ip \in Ip, HourPasses(ip) \/ MinutesPass(ip)
    PROVE  AccountsInv'
<1>1. UNCHANGED <<users, tokens, count, admitted, pc, call>>
  BY DEF HourPasses, MinutesPass
<1>2. /\ count \in [Ip -> 0 .. Limit] /\ admitted \in [Ip -> Nat] /\ old \in [Ip -> BOOLEAN]
      /\ recent \in [Ip -> Nat] /\ Limit \in Nat \ {0} /\ WindowsFit
  BY AccountsAssumption DEF AccountsInv, TypeOK
<1>3. old' \in [Ip -> BOOLEAN] /\ recent' \in [Ip -> Nat] /\ WindowsFit'
  <2>1. CASE HourPasses(ip)
    BY <1>1, <1>2, <2>1 DEF HourPasses, WindowsFit
  <2>2. CASE MinutesPass(ip)
    BY <1>1, <1>2, <2>2 DEF MinutesPass, WindowsFit
  <2> QED
    BY <2>1, <2>2
<1>4. TypeOK' /\ Owned'
  BY <1>1, <1>3 DEF AccountsInv, TypeOK, Owned, users, tokens
<1> QED
  BY <1>1, <1>3, <1>4, Quiet DEF AccountsInv, users

LEMMA AccountsStep == ASSUME AccountsInv, [Next]_vars PROVE AccountsInv'
<1>0. RowsLast
  BY StepLasts DEF AccountsInv
<1>1. CASE UNCHANGED vars
  <2>1. TypeOK' /\ Owned'
    BY <1>1 DEF vars, users, tokens, limits, AccountsInv, TypeOK, Owned
  <2> QED
    BY <1>0, <1>1, <2>1, Quiet DEF vars, users, limits, AccountsInv, WindowsFit
<1>2. ASSUME NEW c \in Call, NEW e \in Email, NEW p \in Password, NEW ip \in Ip \union {BadIp},
             Register(c, e, p, ip)
      PROVE  AccountsInv'
  BY <1>0, <1>2, RegisterStep
<1>3. ASSUME NEW c \in Call, NEW e \in Email, NEW p \in Password, LoginRead(c, e, p)
      PROVE  AccountsInv'
  BY <1>0, <1>3, LoginStep
<1>4. ASSUME NEW c \in Call, NEW t \in Token, StoreVerification(c, t) \/ StoreResetToken(c, t)
      PROVE  AccountsInv'
  BY <1>0, <1>4, StoreStep
<1>5. ASSUME NEW c \in Call, VerifyUse(c)
      PROVE  AccountsInv'
  BY <1>0, <1>5, TokenUseStep
<1>6. ASSUME NEW c \in Call, ResetUse(c)
      PROVE  AccountsInv'
  BY <1>0, <1>6, ResetStep
<1>7. ASSUME NEW c \in Call, LimitInsert(c) PROVE AccountsInv'
  BY <1>0, <1>7, LimitInsertStep
<1>8. ASSUME NEW c \in Call, CreateUnverified(c) PROVE AccountsInv'
  BY <1>0, <1>8, CreateStep
<1>9. ASSUME NEW c \in Call, Mail(c) \/ Mark(c) PROVE AccountsInv'
  BY <1>0, <1>9, MarkStep
<1>10. ASSUME NEW c \in Call, Issue(c) \/ Drop(c) PROVE AccountsInv'
  BY <1>0, <1>10, DropStep
<1>11. ASSUME NEW c \in Call, NEW e \in Email, RequestReset(c, e) PROVE AccountsInv'
  BY <1>0, <1>11, ResetRequestStep
<1>12. ASSUME NEW e \in Email, Provision(e) PROVE AccountsInv'
  BY <1>0, <1>12, ProvisionStep
<1>13. ASSUME NEW t \in Token, TokenExpires(t) PROVE AccountsInv'
  BY <1>0, <1>13, ExpireStep
<1>14. ASSUME NEW ip \in Ip, HourPasses(ip) \/ MinutesPass(ip) PROVE AccountsInv'
  BY <1>0, <1>14, HourStep
<1>15. ASSUME NEW c \in Call, NEW t \in Token,
              VerifySelect(c, t) \/ \E p \in Password : ResetSelect(c, t, p)
       PROVE  AccountsInv'
  BY <1>0, <1>15, SelectStep
<1> QED
  BY <1>1, <1>2, <1>3, <1>4, <1>5, <1>6, <1>7, <1>8, <1>9, <1>10, <1>11, <1>12, <1>13, <1>14,
     <1>15 DEF Next

-----------------------------------------------------------------------------

LEMMA AccountsCarried == Spec => []AccountsInv
<1>1. Init => AccountsInv
  BY AccountsStart
<1>2. AccountsInv /\ [Next]_vars => AccountsInv'
  BY AccountsStep
<1> QED
  BY <1>1, <1>2, PTL DEF Spec

\* Users, tokens, windows and calls are well typed.
THEOREM AccountsTypeCorrect == Spec => []TypeOK
<1>1. AccountsInv => TypeOK
  BY DEF AccountsInv
<1> QED
  BY <1>1, AccountsCarried, PTL

\* CheckSignupLimit lets no address sign up more often than its limit in one
\* window, and fewer than twice as often in any hour, also when the window is
\* opened by racing calls.
THEOREM SignupsBounded == Spec => []SignupsAreBounded
<1>1. ASSUME AccountsInv PROVE SignupsAreBounded
  <2>1. /\ count \in [Ip -> 0 .. Limit] /\ recent \in [Ip -> Nat] /\ admitted = count
        /\ Limit \in Nat \ {0}
        /\ \A ip \in Ip : recent[ip] < IF old[ip] THEN count[ip] ELSE count[ip] + Limit
    BY <1>1, AccountsAssumption DEF AccountsInv, TypeOK, WindowsFit
  <2> QED
    BY <2>1 DEF SignupsAreBounded
<1> QED
  BY <1>1, AccountsCarried, PTL

\* Every session a login issues stands on a verification mail that came back.
THEOREM SessionsProven == Spec => []SessionsAreProven
<1>1. AccountsInv => SessionsAreProven
  BY DEF AccountsInv, CallFits, At, SessionsAreProven, Shown
<1> QED
  BY <1>1, AccountsCarried, PTL

\* What a step may do with a token: a call comes to hold a live one only, and
\* changes a user by the one it holds.
LEMMA TokenSteps ==
    ASSUME AccountsInv, [Next]_vars, NEW t \in Token, ~Pending(t), ~Live(t, kind[t])
    PROVE  uses'[t] = uses[t] /\ ~Pending(t)'
<1>1. \A c \in Call : call[c].token = t => ~At(c, "verifyUpdate") /\ ~At(c, "resetUpdate")
  BY DEF Pending
<1>2. uses'[t] = uses[t]
  <2>1. \/ uses' = uses
        \/ \E c \in Call : (VerifyUse(c) \/ ResetUse(c)) /\ uses' = Used(call[c].token)
    <3>1. ASSUME NEW c \in Call,
                 \/ \E d \in Email, p \in Password :
                        LoginRead(c, d, p) \/ \E ip \in Ip \union {BadIp} : Register(c, d, p, ip)
                 \/ \E u \in Token : \/ VerifySelect(c, u) \/ StoreVerification(c, u)
                                     \/ StoreResetToken(c, u)
                                     \/ \E p \in Password : ResetSelect(c, u, p)
                 \/ LimitInsert(c) \/ CreateUnverified(c) \/ Mail(c) \/ Mark(c)
                 \/ Issue(c) \/ Drop(c)
                 \/ \E d \in Email : RequestReset(c, d)
          PROVE  uses' = uses
      BY <3>1 DEF tokens, Register, LoginRead, StoreVerification, StoreResetToken, NewToken,
                  VerifySelect, ResetSelect, LimitInsert, CreateUnverified, Mail, Mark, Issue, Drop,
                  RequestReset
    <3>2. ASSUME \/ \E e \in Email : Provision(e)
                 \/ \E u \in Token : TokenExpires(u)
                 \/ \E ip \in Ip : HourPasses(ip) \/ MinutesPass(ip)
                 \/ UNCHANGED vars
          PROVE  uses' = uses
      BY <3>2 DEF vars, tokens, Provision, TokenExpires, HourPasses, MinutesPass
    <3>3. ASSUME NEW c \in Call, VerifyUse(c) \/ ResetUse(c)
          PROVE  uses' = Used(call[c].token)
      BY <3>3 DEF VerifyUse, ResetUse
    <3> QED
      BY <3>1, <3>2, <3>3 DEF Next
  <2>2. ASSUME NEW c \in Call, VerifyUse(c) \/ ResetUse(c)
        PROVE  call[c].token \in Token /\ call[c].token # t
    BY <1>1, <2>2 DEF VerifyUse, ResetUse, At, AccountsInv, CallFits
  <2> QED
    BY <2>1, <2>2 DEF Used, AccountsInv, TypeOK
<1>3. ASSUME NEW c \in Call, call'[c].token = t
      PROVE  ~(At(c, "verifyUpdate")' \/ At(c, "resetUpdate")')
  <2> DEFINE Held == {"verifyUpdate", "resetUpdate"}
  <2>1. \/ UNCHANGED <<pc, call>>
        \/ \E d \in Call, to \in Steps \ Held : \E with : Goto(d, to, with)
        \/ \E d \in Call, u \in Token :
               VerifySelect(d, u) \/ \E p \in Password : ResetSelect(d, u, p)
    <3> DEFINE Moves == \E d \in Call, to \in Steps \ Held : \E with : Goto(d, to, with)
    <3>1. ASSUME NEW d \in Call, NEW e \in Email, NEW p \in Password,
                 LoginRead(d, e, p) \/ \E ip \in Ip \union {BadIp} : Register(d, e, p, ip)
          PROVE  Moves
      BY <3>1 DEF LoginRead, Register, Steps
    <3>2. ASSUME NEW d \in Call, NEW u \in Token, StoreVerification(d, u) \/ StoreResetToken(d, u)
          PROVE  Moves
      BY <3>2 DEF StoreVerification, StoreResetToken, Steps
    <3>3. ASSUME NEW d \in Call,
                 \/ LimitInsert(d) \/ CreateUnverified(d) \/ Mail(d) \/ Mark(d)
                 \/ VerifyUse(d) \/ ResetUse(d) \/ Issue(d) \/ Drop(d)
                 \/ \E e \in Email : RequestReset(d, e)
          PROVE  Moves
      BY <3>3 DEF LimitInsert, CreateUnverified, Mail, Mark, VerifyUse, ResetUse, Issue, Drop, End,
                  RequestReset, Steps
    <3>4. ASSUME \/ \E e \in Email : Provision(e)
                 \/ \E u \in Token : TokenExpires(u)
                 \/ \E ip \in Ip : HourPasses(ip) \/ MinutesPass(ip)
                 \/ UNCHANGED vars
          PROVE  UNCHANGED <<pc, call>>
      BY <3>4 DEF vars, Provision, TokenExpires, HourPasses, MinutesPass
    <3> QED
      BY <3>1, <3>2, <3>3, <3>4 DEF Next
  <2>2. CASE UNCHANGED <<pc, call>>
    BY <1>1, <1>3, <2>2 DEF At
  <2>3. ASSUME NEW d \in Call, NEW to \in Steps \ Held, NEW with, Goto(d, to, with)
        PROVE  ~(At(c, "verifyUpdate")' \/ At(c, "resetUpdate")')
    BY <1>1, <1>3, <2>3 DEF At, Goto, AccountsInv, TypeOK
  <2>4. ASSUME NEW d \in Call, NEW u \in Token,
               VerifySelect(d, u) \/ \E p \in Password : ResetSelect(d, u, p)
        PROVE  ~(At(c, "verifyUpdate")' \/ At(c, "resetUpdate")')
    <3>1. u # t
      BY <2>4 DEF VerifySelect, ResetSelect, Live
    <3>2. PICK to \in Steps, with \in Calls : Goto(d, to, with) /\ with.token = u
      BY <2>4, WellFormed DEF VerifySelect, ResetSelect, Steps
    <3> QED
      BY <1>1, <1>3, <3>1, <3>2 DEF At, Goto, AccountsInv, TypeOK
  <2> QED
    BY <2>1, <2>2, <2>3, <2>4
<1> QED
  BY <1>2, <1>3 DEF Pending

\* ConsumeVerification and ConsumeResetToken change a user by a dead token only
\* in the statements that had read it before it died.
THEOREM DeadStayDead == Spec => ConsumedIsDead
<1> DEFINE Dead == \A t \in Token : (Consumed(t) \/ Expired(t)) /\ ~Pending(t) =>
                       uses'[t] = uses[t] /\ ~Pending(t)' /\ (Consumed(t) \/ Expired(t))'
<1>1. AccountsInv /\ [Next]_vars => [Dead]_vars
  <2> SUFFICES ASSUME AccountsInv, [Next]_vars, NEW t \in Token,
                      Consumed(t) \/ Expired(t), ~Pending(t)
               PROVE  uses'[t] = uses[t] /\ ~Pending(t)' /\ (Consumed(t) \/ Expired(t))'
    OBVIOUS
  <2>1. (Consumed(t) \/ Expired(t))'
    BY StepLasts DEF RowsLast, Consumed, Expired
  <2>2. uses'[t] = uses[t] /\ ~Pending(t)'
    BY TokenSteps DEF Live
  <2> QED
    BY <2>1, <2>2
<1> QED
  BY <1>1, AccountsCarried, PTL DEF Spec, ConsumedIsDead

\* No second sign-up, invitation, verification or bootstrap replaces the
\* password of an account: only ConsumeResetToken does, by a token mailed to it.
THEOREM OnlyResets == Spec => OnlyResetsChangePasswords
<1> DEFINE Due == \A e \in Email : Exists(e) /\ hash'[e] # hash[e] =>
                      \E t \in Token : /\ Pending(t) /\ uses'[t] > 0
                                      /\ kind[t] = "reset" /\ owner[t] = e /\ Mailed(t)
<1>1. AccountsInv /\ [Next]_vars => [Due]_vars
  <2> SUFFICES ASSUME AccountsInv, [Next]_vars, NEW e \in Email, Exists(e), hash'[e] # hash[e]
               PROVE  \E t \in Token : /\ Pending(t) /\ uses'[t] > 0
                                      /\ kind[t] = "reset" /\ owner[t] = e /\ Mailed(t)
    OBVIOUS
  <2> DEFINE Made == \E d : ~Exists(d) /\ \E x : hash' = [hash EXCEPT ![d] = x]
             Reset == \E c \in Call : ResetUse(c)
  <2>1. hash' = hash \/ Made \/ Reset
    <3>1. ASSUME NEW c \in Call, CreateUnverified(c) PROVE hash' = hash \/ Made
      BY <3>1 DEF CreateUnverified, users
    <3>2. ASSUME NEW d \in Email, Provision(d) PROVE Made
      BY <3>2 DEF Provision
    <3>3. ASSUME NEW c \in Call,
                 \/ \E d \in Email, p \in Password :
                        LoginRead(c, d, p) \/ \E ip \in Ip \union {BadIp} : Register(c, d, p, ip)
                 \/ \E t \in Token : \/ VerifySelect(c, t) \/ StoreVerification(c, t)
                                     \/ StoreResetToken(c, t)
                                     \/ \E p \in Password : ResetSelect(c, t, p)
                 \/ LimitInsert(c) \/ Mail(c) \/ Mark(c) \/ VerifyUse(c) \/ Issue(c) \/ Drop(c)
                 \/ \E d \in Email : RequestReset(c, d)
          PROVE  hash' = hash
      BY <3>3 DEF users, Register, LoginRead, StoreVerification, StoreResetToken, VerifySelect,
                  ResetSelect, VerifyUse, LimitInsert, Mail, Mark, Issue, Drop, RequestReset
    <3>4. ASSUME \/ \E t \in Token : TokenExpires(t)
                 \/ \E ip \in Ip : HourPasses(ip) \/ MinutesPass(ip)
                 \/ UNCHANGED vars
          PROVE  hash' = hash
      BY <3>4 DEF vars, users, TokenExpires, HourPasses, MinutesPass
    <3> QED
      BY <3>1, <3>2, <3>3, <3>4 DEF Next
  <2>2. ASSUME NEW d, ~Exists(d), NEW x, hash' = [hash EXCEPT ![d] = x]
        PROVE  FALSE
    BY <2>2 DEF AccountsInv, TypeOK
  <2>3. PICK c \in Call : ResetUse(c)
    BY <2>1, <2>2
  <2> DEFINE t == call[c].token
  <2>4. /\ At(c, "resetUpdate") /\ t \in Token /\ kind[t] = "reset" /\ Mailed(t)
        /\ uses' = Used(t) /\ hash' = [hash EXCEPT ![owner[t]] = call[c].password]
    BY <2>3 DEF ResetUse, At, AccountsInv, CallFits
  <2>5. Pending(t)
    BY <2>4 DEF Pending
  <2> HIDE DEF t
  <2>6. owner[t] = e
    BY <2>4 DEF AccountsInv, TypeOK
  <2>7. uses'[t] > 0
    BY <2>4 DEF Used, AccountsInv, TypeOK
  <2> QED
    BY <2>4, <2>5, <2>6, <2>7
<1> QED
  BY <1>1, AccountsCarried, PTL DEF Spec, OnlyResetsChangePasswords
=============================================================================
