------------------------------ MODULE Accounts ------------------------------
(* The way into the platform: registration and email verification of one    *)
(* email address (app/services/auth.py), and the throttle in front of login *)
(* and password reset (app/services/auth_throttle.py), whose counter lives  *)
(* in Redis and whose commands are separate steps.  Time is relative: the   *)
(* model keeps what is left of the counter's TTL and the age of attempts.   *)
EXTENDS Integers, FiniteSets, FiniteSetsExt

CONSTANTS
    Clients,
    Limit,    \* auth_rate_limit_per_minute
    Unit,     \* clock ticks in a second
    Window,   \* WINDOW_SECONDS, in ticks
    MaxCount, \* bound: the counter
    MaxUsers  \* bound: registrations that insert a row

ASSUME AccountsAssumption ==
    /\ Limit \in Nat \ {0} /\ Unit \in Nat \ {0} /\ MaxCount \in Nat /\ MaxUsers \in Nat
    /\ Window \in Nat \ {0} /\ Window % Unit = 0

Users == 1..MaxUsers

VARIABLES
    count,     \* the counter, 0 if the key does not exist
    ttl,       \* ticks until the key expires, NoExpiry, or NoKey
    at,        \* at[c]: the next step of client c
    recent,    \* recent[a]: attempts let through a ticks ago
    advice,    \* advice[c]: ticks until half a second after the retry_after c was given,
               \* while the counter that refused it is there; or Unadvised
    abandoned, \* the client that created the counter ended before its EXPIRE
    row,       \* row[c]: the user row c has inserted
    users,     \* users[i]: "free", "open" (uncommitted), "gone", "live" or "verified"
    mailed,    \* the action tokens sent
    presented  \* the tokens with which somebody asked for verification

vars == <<count, ttl, at, recent, advice, abandoned, row, users, mailed, presented>>
throttle == <<count, ttl, recent, advice, abandoned>>
accounts == <<row, users, mailed, presented>>

NoExpiry == -1
NoKey == -2
Unadvised == -1
Ages == 0..(Window - 1)

Init ==
    /\ count = 0 /\ ttl = NoKey
    /\ at = [c \in Clients |-> "idle"]
    /\ recent = [a \in Ages |-> 0]
    /\ advice = [c \in Clients |-> Unadvised]
    /\ abandoned = FALSE
    /\ row = [c \in Clients |-> 0]
    /\ users = [i \in Users |-> "free"]
    /\ mailed = {} /\ presented = {}

Goto(c, place) == at' = [at EXCEPT ![c] = place]

-----------------------------------------------------------------------------
(* Faulty variant: an attempt at the limit is one too many let through. *)
LetThroughOneMore(n) == n <= Limit + 1

LetThrough(n) == n <= Limit

(* Faulty variant: every attempt renews the expiry. *)
IncrRenews(c) ==
    LET n == count + 1
    IN  /\ at[c] = "idle" /\ count < MaxCount
        /\ count' = n
        /\ ttl' = IF n = 1 THEN NoExpiry ELSE Window
        /\ Goto(c, IF n = 1 THEN "expire" ELSE IF LetThrough(n) THEN "idle" ELSE "ttl")
        /\ recent' = IF n # 1 /\ LetThrough(n) THEN [recent EXCEPT ![0] = @ + 1] ELSE recent
        /\ advice' = [advice EXCEPT ![c] = Unadvised]
        /\ UNCHANGED <<abandoned, accounts>>

(* AuthThrottle.check, INCR: the first attempt must set the expiry, one     *)
(* over the limit asks for the TTL, the others go on to the handler.        *)
Incr(c) ==
    LET n == count + 1
    IN  /\ at[c] = "idle" /\ count < MaxCount
        /\ count' = n
        /\ ttl' = IF n = 1 THEN NoExpiry ELSE ttl
        /\ Goto(c, IF n = 1 THEN "expire" ELSE IF LetThrough(n) THEN "idle" ELSE "ttl")
        /\ recent' = IF n # 1 /\ LetThrough(n) THEN [recent EXCEPT ![0] = @ + 1] ELSE recent
        /\ advice' = [advice EXCEPT ![c] = Unadvised]
        /\ UNCHANGED <<abandoned, accounts>>

(* EXPIRE by the client whose INCR returned 1, which is then let through. *)
Expire(c) ==
    /\ at[c] = "expire"
    /\ ttl' = Window
    /\ recent' = [recent EXCEPT ![0] = @ + 1]
    /\ Goto(c, "idle")
    /\ UNCHANGED <<count, advice, abandoned, accounts>>

(* Redis answers TTL in seconds, rounded to the nearest. *)
TtlSeconds == (2 * ttl + Unit) \div (2 * Unit)

(* TTL, and the refusal with retry_after = max(ttl, 1).  Without an expiry  *)
(* the answer is -1, and the advice is worth nothing.                       *)
ReadTtl(c) ==
    /\ at[c] = "ttl"
    /\ advice' = [advice EXCEPT ![c] =
                    IF ttl < 0 THEN Unadvised
                    ELSE Unit * Max({TtlSeconds, 1}) + Unit \div 2]
    /\ Goto(c, "idle")
    /\ UNCHANGED <<count, ttl, recent, abandoned, accounts>>

(* A tick of the clock.  A key whose TTL runs out is gone. *)
Tick ==
    /\ ttl' = IF ttl = 1 THEN NoKey ELSE IF ttl > 1 THEN ttl - 1 ELSE ttl
    /\ count' = IF ttl = 1 THEN 0 ELSE count
    /\ advice' = [c \in Clients |->
                    IF ttl = 1 \/ advice[c] = Unadvised THEN Unadvised
                    ELSE IF advice[c] > 0 THEN advice[c] - 1 ELSE 0]
    /\ recent' = [a \in Ages |-> IF a = 0 THEN 0 ELSE recent[a - 1]]
    /\ UNCHANGED <<at, abandoned, accounts>>

-----------------------------------------------------------------------------
Registered == \E i \in Users : users[i] \in {"live", "verified"}

(* register: the address is not taken. *)
CheckEmail(c) ==
    /\ at[c] = "idle" /\ ~Registered
    /\ Goto(c, "insert")
    /\ UNCHANGED <<throttle, accounts>>

(* The INSERT waits for another of the same address to end, and raises if   *)
(* that has committed.                                                      *)
InsertUser(c) ==
    /\ at[c] = "insert"
    /\ \A i \in Users : users[i] # "open"
    /\ IF Registered
       THEN Goto(c, "idle") /\ UNCHANGED accounts
       ELSE \E i \in Users :
              /\ users[i] = "free" /\ \A j \in 1..(i - 1) : users[j] # "free"
              /\ users' = [users EXCEPT ![i] = "open"]
              /\ row' = [row EXCEPT ![c] = i]
              /\ Goto(c, "mail")
              /\ UNCHANGED <<mailed, presented>>
    /\ UNCHANGED throttle

(* Faulty variant: the registration ends without its verification email. *)
SendMailNever(c) ==
    /\ at[c] = "mail"
    /\ Goto(c, "commit")
    /\ UNCHANGED <<throttle, row, users, mailed, presented>>

Purposes == {"email_verify", "password_reset"}
ActionTokens == [sub : Users, type : Purposes]

(* create_action_token and decode_action_token: signed, so only what was    *)
(* created decodes, and only for its purpose; one that has expired is one   *)
(* that nobody presents any more.                                           *)
ActionToken(i, purpose) == [sub |-> i, type |-> purpose]
Decodes(token, purpose) == token \in mailed /\ token.type = purpose

(* _send_verification_email: the token names the row, which is not          *)
(* committed yet.                                                           *)
SendMail(c) ==
    /\ at[c] = "mail"
    /\ mailed' = mailed \cup {ActionToken(row[c], "email_verify")}
    /\ Goto(c, "commit")
    /\ UNCHANGED <<throttle, row, users, presented>>

CommitUser(c) ==
    /\ at[c] = "commit"
    /\ users' = [users EXCEPT ![row[c]] = "live"]
    /\ row' = [row EXCEPT ![c] = 0]
    /\ Goto(c, "idle")
    /\ UNCHANGED <<throttle, mailed, presented>>

(* A client's request is cancelled, or its process dies, or a call raises:  *)
(* its row is rolled back, and an EXPIRE not sent is never sent.            *)
Abort(c) ==
    /\ at[c] # "idle"
    /\ Goto(c, "idle")
    /\ abandoned' = (abandoned \/ at[c] = "expire")
    /\ users' = [i \in Users |-> IF i = row[c] THEN "gone" ELSE users[i]]
    /\ row' = [row EXCEPT ![c] = 0]
    /\ UNCHANGED <<count, ttl, recent, advice, mailed, presented>>

(* request_password_reset mails a token for the account, which Sessions     *)
(* follows.                                                                 *)
RequestReset(i) ==
    /\ users[i] \in {"live", "verified"}
    /\ mailed' = mailed \cup {ActionToken(i, "password_reset")}
    /\ UNCHANGED <<at, throttle, row, users, presented>>

(* Faulty variant: the token stands for the address and not for the row. *)
VerifyAddress(token) ==
    /\ Decodes(token, "email_verify")
    /\ presented' = presented \cup {token}
    /\ users' = [j \in Users |-> IF users[j] = "live" THEN "verified" ELSE users[j]]
    /\ UNCHANGED <<at, throttle, row, mailed>>

(* verify_email: a token whose row is not there, or not yet, is refused. *)
Verify(token) ==
    /\ Decodes(token, "email_verify")
    /\ presented' = presented \cup {token}
    /\ users' = [users EXCEPT ![token.sub] = IF @ = "live" THEN "verified" ELSE @]
    /\ UNCHANGED <<at, throttle, row, mailed>>

Attempt(c) == Incr(c) \/ Expire(c) \/ ReadTtl(c)
Register(c) == CheckEmail(c) \/ InsertUser(c) \/ SendMail(c) \/ CommitUser(c)

Next ==
    \/ \E c \in Clients : Attempt(c) \/ Register(c) \/ Abort(c)
    \/ \E i \in Users : RequestReset(i)
    \/ \E token \in ActionTokens : Verify(token)
    \/ Tick

Spec == Init /\ [][Next]_vars

-----------------------------------------------------------------------------
(* The types of all variables.  The key has a TTL or none exactly while it  *)
(* exists, and a client that is about to commit has mailed its token.       *)
TypeOK ==
    /\ count \in 0..MaxCount
    /\ ttl \in 1..Window \cup {NoExpiry, NoKey}
    /\ count = 0 <=> ttl = NoKey
    /\ at \in [Clients -> {"idle", "expire", "ttl", "insert", "mail", "commit"}]
    /\ recent \in [Ages -> Nat]
    /\ advice \in [Clients -> Nat \cup {Unadvised}]
    /\ abandoned \in BOOLEAN
    /\ row \in [Clients -> Users \cup {0}]
    /\ users \in [Users -> {"free", "open", "gone", "live", "verified"}]
    /\ mailed \subseteq ActionTokens /\ presented \subseteq mailed
    /\ \A c \in Clients : at[c] = "commit" => ActionToken(row[c], "email_verify") \in mailed

(* The attempts let through within the last n ticks and this one, one by    *)
(* one.                                                                     *)
Within(n) == UNION {{a} \X (1..recent[a]) : a \in 0..n}

(* No span as long as the window lets more than twice the limit through,    *)
(* however the INCRs of several clients interleave with the late EXPIRE of  *)
(* the first and with the end of the window.                                *)
AttemptsPerWindow == Cardinality(Within(Window - 1)) <= 2 * Limit

(* A refused client finds the counter gone when it has waited retry_after   *)
(* and half a second (the TTL is rounded).  The exception is a counter with *)
(* no expiry when it was refused: while the EXPIRE of its first client is   *)
(* outstanding, or for ever once that client has ended without it.          *)
LockoutEnds ==
    /\ \A c \in Clients : advice[c] # 0
    /\ ttl = NoExpiry => abandoned \/ \E c \in Clients : at[c] = "expire"

(* However registrations overlap and fail, an address has one account, and  *)
(* only the verification token mailed for that very account verifies it:    *)
(* neither one mailed by a registration that was rolled back afterwards,    *)
(* nor a password reset token.                                              *)
OneProvedAccount ==
    /\ Cardinality({i \in Users : users[i] \in {"live", "verified"}}) <= 1
    /\ \A i \in Users : users[i] = "verified" => ActionToken(i, "email_verify") \in presented
=============================================================================
