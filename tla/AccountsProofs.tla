--------------------------- MODULE AccountsProofs ---------------------------
(* What holds of Accounts for any number of clients, any limit, window and  *)
(* clock.  The throttle and the accounts share the clients only.            *)
EXTENDS Accounts, FiniteSetTheorems, TLAPS

USE AccountsAssumption

(* One client at most is between INCR and EXPIRE, and until its EXPIRE the  *)
(* counter has none.                                                        *)
OneExpirer ==
    \A c \in Clients : at[c] = "expire" =>
        /\ ttl = NoExpiry
        /\ \A d \in Clients : at[d] = "expire" => d = c

(* A client that waits finds the counter gone no later than it comes back.  *)
AdviceCovers ==
    \A c \in Clients : advice[c] # Unadvised => ttl >= 1 /\ advice[c] >= ttl

(* A counter with no expiry has a client that will set it, or had one.      *)
ExpiryDue ==
    ttl = NoExpiry => abandoned \/ \E c \in Clients : at[c] = "expire"

ThrottleInv == OneExpirer /\ AdviceCovers /\ ExpiryDue

(* A client has a row while its transaction is open, and no other has it.   *)
RowsOK ==
    \A c \in Clients :
        /\ at[c] \in {"mail", "commit"} => row[c] \in Users /\ users[row[c]] = "open"
        /\ at[c] \notin {"mail", "commit"} => row[c] = 0

(* One row of the address at most is open or committed. *)
OneRow ==
    \A i, j \in Users :
        /\ users[i] \in {"open", "live", "verified"}
        /\ users[j] \in {"open", "live", "verified"}
        => i = j

(* A verified account has had its own token presented. *)
Proved ==
    \A i \in Users : users[i] = "verified" => ActionToken(i, "email_verify") \in presented

OwnRow ==
    \A c, d \in Clients : row[c] = row[d] /\ row[c] # 0 => c = d

AccountInv == RowsOK /\ OwnRow /\ OneRow /\ Proved

Inv == TypeOK /\ ThrottleInv /\ AccountInv

-----------------------------------------------------------------------------
(* Integer division. *)
LEMMA DivBounds ==
    ASSUME NEW a \in Nat, NEW b \in Nat \ {0}
    PROVE  a \div b \in Nat /\ b * (a \div b) <= a /\ a < b * (a \div b) + b
  OBVIOUS

(* retry_after and half a second are no shorter than the TTL. *)
LEMMA AdviceLongEnough ==
    ASSUME ttl \in Nat
    PROVE  LET w == Unit * Max({TtlSeconds, 1}) + Unit \div 2
           IN  w \in Nat /\ w >= ttl
<1> DEFINE q == TtlSeconds
           h == Unit \div 2
<1>1. q \in Nat /\ (2 * Unit) * q <= 2 * ttl + Unit /\ 2 * ttl + Unit < (2 * Unit) * q + 2 * Unit
  <2>1. 2 * ttl + Unit \in Nat /\ 2 * Unit \in Nat \ {0}
    OBVIOUS
  <2> QED BY <2>1, DivBounds DEF TtlSeconds
<1>2. h \in Nat /\ 2 * h <= Unit /\ Unit < 2 * h + 2
  BY DivBounds
<1> HIDE DEF q, h
<1>3. 2 * (Unit * q) + Unit > 2 * ttl
  BY <1>1
<1>4. PICK m \in Nat : m = Max({q, 1}) /\ m >= q
  BY <1>1 DEF Max
<1>5. Unit * m >= Unit * q /\ Unit * m \in Nat /\ Unit * q \in Nat
  BY <1>1, <1>4
<1>6. Unit * m + h >= ttl
  BY <1>2, <1>3, <1>5
<1> QED BY <1>2, <1>4, <1>5, <1>6 DEF q, h

(* A set with no two elements has one at most. *)
LEMMA AtMostOne ==
    ASSUME NEW S, \A x, y \in S : x = y
    PROVE  Cardinality(S) <= 1
<1>1. CASE S = {}
  <2>1. Cardinality(S) = 0
    BY <1>1, FS_EmptySet
  <2> QED BY <2>1
<1>2. CASE S # {}
  <2>1. PICK x : x \in S
    BY <1>2
  <2>2. S = {x}
    BY <2>1
  <2>3. Cardinality(S) = 1
    BY <2>2, FS_Singleton
  <2> QED BY <2>3
<1> QED BY <1>1, <1>2

(* Inv holds initially. *)
LEMMA InitInv == Init => Inv
<1> SUFFICES ASSUME Init PROVE Inv
  OBVIOUS
<1>1. /\ recent \in [Ages -> Nat] /\ row \in [Clients -> Users \cup {0}]
      /\ users \in [Users -> {"free", "open", "gone", "live", "verified"}]
  BY DEF Init
<1>2. TypeOK
  <2>1. at \in [Clients -> {"idle", "expire", "ttl", "insert", "mail", "commit"}]
    BY DEF Init
  <2>2. advice \in [Clients -> Nat \cup {Unadvised}]
    BY DEF Init
  <2>3. \A c \in Clients : at[c] # "commit"
    BY DEF Init
  <2>4. mailed = {} /\ presented = {} /\ abandoned \in BOOLEAN /\ count = 0 /\ ttl = NoKey
    BY DEF Init
  <2> QED BY <1>1, <2>1, <2>2, <2>3, <2>4 DEF TypeOK
<1>3. ThrottleInv
  BY DEF Init, ThrottleInv, OneExpirer, AdviceCovers, ExpiryDue, NoKey, NoExpiry
<1>4. AccountInv
  BY DEF Init, AccountInv, RowsOK, OwnRow, OneRow, Proved
<1> QED BY <1>2, <1>3, <1>4 DEF Inv

-----------------------------------------------------------------------------
(* What a step of the throttle leaves alone. *)
LEMMA AccountsUntouched ==
    ASSUME Inv, UNCHANGED accounts, NEW c \in Clients, NEW p,
           at' = [at EXCEPT ![c] = p],
           at[c] \notin {"mail", "commit"}, p \notin {"mail", "commit"}
    PROVE  /\ AccountInv'
           /\ \A d \in Clients : at'[d] = "commit" => ActionToken(row'[d], "email_verify") \in mailed'
<1>1. UNCHANGED <<row, users, mailed, presented>>
  BY DEF accounts
<1>2. at \in [Clients -> {"idle", "expire", "ttl", "insert", "mail", "commit"}]
  BY DEF Inv, TypeOK
<1>3. at'[c] = p /\ \A d \in Clients : d # c => at'[d] = at[d]
  BY <1>2
<1>4. RowsOK'
  BY <1>1, <1>3 DEF Inv, AccountInv, RowsOK
<1>5. OwnRow' /\ OneRow' /\ Proved'
  BY <1>1 DEF Inv, AccountInv, OwnRow, OneRow, Proved
<1>6. \A d \in Clients : at'[d] = "commit" => ActionToken(row'[d], "email_verify") \in mailed'
  BY <1>1, <1>3 DEF Inv, TypeOK
<1> QED BY <1>4, <1>5, <1>6 DEF AccountInv

(* What a step of a registration leaves alone. *)
LEMMA ThrottleUntouched ==
    ASSUME Inv, UNCHANGED throttle, NEW c \in Clients, NEW p,
           at' = [at EXCEPT ![c] = p], at[c] # "expire", p # "expire"
    PROVE  ThrottleInv'
<1>1. UNCHANGED <<count, ttl, recent, advice, abandoned>>
  BY DEF throttle
<1>2. at \in [Clients -> {"idle", "expire", "ttl", "insert", "mail", "commit"}]
  BY DEF Inv, TypeOK
<1>3. \A d \in Clients : at'[d] = "expire" <=> at[d] = "expire"
  BY <1>2
<1> QED BY <1>1, <1>3 DEF Inv, ThrottleInv, OneExpirer, AdviceCovers, ExpiryDue

(* Inv is preserved by INCR. *)
LEMMA IncrInv ==
    ASSUME Inv, NEW c \in Clients, Incr(c)
    PROVE  Inv'
<1> DEFINE n == count + 1
           p == IF n = 1 THEN "expire" ELSE IF LetThrough(n) THEN "idle" ELSE "ttl"
<1>1. /\ at[c] = "idle" /\ count < MaxCount /\ count' = n
      /\ ttl' = IF n = 1 THEN NoExpiry ELSE ttl
      /\ at' = [at EXCEPT ![c] = p]
      /\ recent' = IF n # 1 /\ LetThrough(n) THEN [recent EXCEPT ![0] = @ + 1] ELSE recent
      /\ advice' = [advice EXCEPT ![c] = Unadvised]
      /\ UNCHANGED <<abandoned, accounts, row, users, mailed, presented>>
  BY DEF Incr, Goto, accounts
<1>2. /\ count \in 0..MaxCount /\ ttl \in 1..Window \cup {NoExpiry, NoKey}
      /\ count = 0 <=> ttl = NoKey
      /\ at \in [Clients -> {"idle", "expire", "ttl", "insert", "mail", "commit"}]
      /\ recent \in [Ages -> Nat] /\ advice \in [Clients -> Nat \cup {Unadvised}]
  BY DEF Inv, TypeOK
<1>3. p \in {"idle", "expire", "ttl"} /\ (p = "expire" <=> n = 1)
  OBVIOUS
<1> HIDE DEF p
<1>4. /\ at' \in [Clients -> {"idle", "expire", "ttl", "insert", "mail", "commit"}]
      /\ at'[c] = p /\ \A d \in Clients : d # c => at'[d] = at[d]
  BY <1>1, <1>2, <1>3
<1>5. /\ advice' \in [Clients -> Nat \cup {Unadvised}]
      /\ \A d \in Clients : advice'[d] = Unadvised \/ advice'[d] = advice[d]
  BY <1>1, <1>2
<1>6. recent' \in [Ages -> Nat]
  <2>1. 0 \in Ages /\ recent[0] + 1 \in Nat
    BY <1>2 DEF Ages
  <2> QED BY <1>1, <1>2, <2>1
<1>7. count' \in 0..MaxCount /\ count' # 0
  BY <1>1, <1>2
<1>8. ttl' \in 1..Window \cup {NoExpiry, NoKey} /\ ttl' # NoKey
  BY <1>1, <1>2 DEF NoExpiry, NoKey
<1>9. /\ AccountInv'
      /\ \A d \in Clients : at'[d] = "commit" => ActionToken(row'[d], "email_verify") \in mailed'
  BY <1>1, <1>3, AccountsUntouched
<1>10. TypeOK'
  BY <1>1, <1>4, <1>5, <1>6, <1>7, <1>8, <1>9 DEF Inv, TypeOK
<1>11. ThrottleInv'
  <2>1. CASE n = 1
    <3>1. ttl = NoKey /\ ttl' = NoExpiry
      BY <2>1, <1>1, <1>2
    <3>2. \A d \in Clients : at[d] # "expire" /\ advice[d] = Unadvised
      BY <3>1 DEF Inv, ThrottleInv, OneExpirer, AdviceCovers, NoKey, NoExpiry
    <3>3. OneExpirer' /\ ExpiryDue'
      BY <3>1, <3>2, <1>3, <1>4, <2>1 DEF OneExpirer, ExpiryDue
    <3>4. AdviceCovers'
      BY <3>2, <1>5 DEF AdviceCovers
    <3> QED BY <3>3, <3>4 DEF ThrottleInv
  <2>2. CASE n # 1
    <3>1. ttl' = ttl /\ \A d \in Clients : at'[d] = "expire" <=> at[d] = "expire"
      BY <2>2, <1>1, <1>3, <1>4
    <3>2. OneExpirer' /\ ExpiryDue'
      BY <3>1, <1>1 DEF Inv, ThrottleInv, OneExpirer, ExpiryDue
    <3>3. AdviceCovers'
      BY <3>1, <1>5 DEF Inv, ThrottleInv, AdviceCovers
    <3> QED BY <3>2, <3>3 DEF ThrottleInv
  <2> QED BY <2>1, <2>2
<1> QED BY <1>9, <1>10, <1>11 DEF Inv

(* Inv is preserved by EXPIRE. *)
LEMMA ExpireInv ==
    ASSUME Inv, NEW c \in Clients, Expire(c)
    PROVE  Inv'
<1>1. /\ at[c] = "expire" /\ ttl' = Window /\ recent' = [recent EXCEPT ![0] = @ + 1]
      /\ at' = [at EXCEPT ![c] = "idle"]
      /\ UNCHANGED <<count, advice, abandoned, accounts, row, users, mailed, presented>>
  BY DEF Expire, Goto, accounts
<1>2. /\ at \in [Clients -> {"idle", "expire", "ttl", "insert", "mail", "commit"}]
      /\ recent \in [Ages -> Nat] /\ (count = 0 <=> ttl = NoKey)
  BY DEF Inv, TypeOK
<1>3. /\ at' \in [Clients -> {"idle", "expire", "ttl", "insert", "mail", "commit"}]
      /\ at'[c] = "idle" /\ \A d \in Clients : d # c => at'[d] = at[d]
  BY <1>1, <1>2
<1>4. recent' \in [Ages -> Nat]
  <2>1. 0 \in Ages /\ recent[0] + 1 \in Nat
    BY <1>2 DEF Ages
  <2> QED BY <1>1, <1>2, <2>1
<1>5. ttl = NoExpiry /\ \A d \in Clients : d # c => at[d] # "expire"
  BY <1>1 DEF Inv, ThrottleInv, OneExpirer
<1>6. \A d \in Clients : advice[d] = Unadvised
  BY <1>5 DEF Inv, ThrottleInv, AdviceCovers, NoExpiry
<1>7. /\ AccountInv'
      /\ \A d \in Clients : at'[d] = "commit" => ActionToken(row'[d], "email_verify") \in mailed'
  BY <1>1, AccountsUntouched
<1>8. count' # 0 /\ ttl' # NoKey /\ ttl' \in 1..Window
  BY <1>1, <1>2, <1>5 DEF NoExpiry, NoKey
<1>9. TypeOK'
  BY <1>1, <1>3, <1>4, <1>7, <1>8 DEF Inv, TypeOK
<1>10. ThrottleInv'
  BY <1>1, <1>3, <1>5, <1>6 DEF ThrottleInv, OneExpirer, AdviceCovers, ExpiryDue, NoExpiry
<1> QED BY <1>7, <1>9, <1>10 DEF Inv

(* Inv is preserved by a refusal: the advice covers the TTL it has read.    *)
LEMMA ReadTtlInv ==
    ASSUME Inv, NEW c \in Clients, ReadTtl(c)
    PROVE  Inv'
<1> DEFINE w == Unit * Max({TtlSeconds, 1}) + Unit \div 2
           x == IF ttl < 0 THEN Unadvised ELSE w
<1>1. /\ at[c] = "ttl" /\ advice' = [advice EXCEPT ![c] = x]
      /\ at' = [at EXCEPT ![c] = "idle"]
      /\ UNCHANGED <<count, ttl, recent, abandoned, accounts, row, users, mailed, presented>>
  BY DEF ReadTtl, Goto, accounts
<1>2. /\ at \in [Clients -> {"idle", "expire", "ttl", "insert", "mail", "commit"}]
      /\ advice \in [Clients -> Nat \cup {Unadvised}]
      /\ ttl \in 1..Window \cup {NoExpiry, NoKey}
  BY DEF Inv, TypeOK
<1>3. x \in Nat \cup {Unadvised} /\ (x # Unadvised => ttl >= 1 /\ x >= ttl)
  <2>1. CASE ttl \in 1..Window
    <3>1. ttl \in Nat /\ ~(ttl < 0) /\ ttl >= 1
      BY <2>1
    <3>2. w \in Nat /\ w >= ttl
      BY <3>1, AdviceLongEnough
    <3> QED BY <3>1, <3>2
  <2>2. CASE ttl \notin 1..Window
    BY <2>2, <1>2 DEF NoExpiry, NoKey
  <2> QED BY <2>1, <2>2
<1> HIDE DEF x
<1>4. /\ advice' \in [Clients -> Nat \cup {Unadvised}] /\ advice'[c] = x
      /\ \A d \in Clients : d # c => advice'[d] = advice[d]
  BY <1>1, <1>2, <1>3
<1>5. /\ at' \in [Clients -> {"idle", "expire", "ttl", "insert", "mail", "commit"}]
      /\ \A d \in Clients : at'[d] = "expire" <=> at[d] = "expire"
  BY <1>1, <1>2
<1>6. /\ AccountInv'
      /\ \A d \in Clients : at'[d] = "commit" => ActionToken(row'[d], "email_verify") \in mailed'
  BY <1>1, AccountsUntouched
<1>7. TypeOK'
  BY <1>1, <1>4, <1>5, <1>6 DEF Inv, TypeOK
<1>8. OneExpirer' /\ ExpiryDue'
  BY <1>1, <1>5 DEF Inv, ThrottleInv, OneExpirer, ExpiryDue
<1>9. AdviceCovers'
  BY <1>1, <1>3, <1>4 DEF Inv, ThrottleInv, AdviceCovers
<1> QED BY <1>6, <1>7, <1>8, <1>9 DEF Inv, ThrottleInv

(* Inv is preserved by time: TTL and advice run down together. *)
LEMMA TickInv ==
    ASSUME Inv, Tick
    PROVE  Inv'
<1>1. /\ ttl' = IF ttl = 1 THEN NoKey ELSE IF ttl > 1 THEN ttl - 1 ELSE ttl
      /\ count' = IF ttl = 1 THEN 0 ELSE count
      /\ advice' = [c \in Clients |->
                      IF ttl = 1 \/ advice[c] = Unadvised THEN Unadvised
                      ELSE IF advice[c] > 0 THEN advice[c] - 1 ELSE 0]
      /\ recent' = [a \in Ages |-> IF a = 0 THEN 0 ELSE recent[a - 1]]
      /\ UNCHANGED <<at, abandoned, row, users, mailed, presented>>
  BY DEF Tick, accounts
<1>2. /\ count \in 0..MaxCount /\ ttl \in 1..Window \cup {NoExpiry, NoKey}
      /\ count = 0 <=> ttl = NoKey
      /\ recent \in [Ages -> Nat] /\ advice \in [Clients -> Nat \cup {Unadvised}]
  BY DEF Inv, TypeOK
<1>3. recent' \in [Ages -> Nat]
  <2>1. \A a \in Ages : a # 0 => a - 1 \in Ages
    BY DEF Ages
  <2> QED BY <1>1, <1>2, <2>1
<1>4. count' \in 0..MaxCount /\ ttl' \in 1..Window \cup {NoExpiry, NoKey}
      /\ (count' = 0 <=> ttl' = NoKey)
      /\ (ttl' = NoExpiry <=> ttl = NoExpiry)
  BY <1>1, <1>2 DEF NoExpiry, NoKey
<1>5. ASSUME NEW c \in Clients
      PROVE  /\ advice'[c] \in Nat \cup {Unadvised}
             /\ advice'[c] # Unadvised => ttl' >= 1 /\ advice'[c] >= ttl'
  <2>1. advice[c] \in Nat \cup {Unadvised}
        /\ (advice[c] # Unadvised => ttl >= 1 /\ advice[c] >= ttl)
    BY <1>2 DEF Inv, ThrottleInv, AdviceCovers
  <2>2. CASE ttl = 1 \/ advice[c] = Unadvised
    BY <2>2, <1>1
  <2>3. CASE ~(ttl = 1 \/ advice[c] = Unadvised)
    <3>1. ttl > 1 /\ ttl \in Nat /\ advice[c] \in Nat /\ advice[c] > 0
      BY <2>1, <2>3, <1>2 DEF NoExpiry, NoKey
    <3>2. ttl' = ttl - 1 /\ advice'[c] = advice[c] - 1
      BY <2>3, <3>1, <1>1
    <3> QED BY <2>1, <2>3, <3>1, <3>2
  <2> QED BY <2>2, <2>3
<1>6. advice' \in [Clients -> Nat \cup {Unadvised}]
  BY <1>1, <1>5
<1>7. TypeOK'
  BY <1>1, <1>3, <1>4, <1>6 DEF Inv, TypeOK
<1>8. ThrottleInv'
  BY <1>1, <1>4, <1>5 DEF Inv, ThrottleInv, OneExpirer, AdviceCovers, ExpiryDue
<1>9. AccountInv'
  BY <1>1 DEF Inv, AccountInv, RowsOK, OwnRow, OneRow, Proved
<1> QED BY <1>7, <1>8, <1>9 DEF Inv

-----------------------------------------------------------------------------
(* Inv is preserved by a registration that finds the address free. *)
LEMMA CheckEmailInv ==
    ASSUME Inv, NEW c \in Clients, CheckEmail(c)
    PROVE  Inv'
<1>1. /\ at[c] = "idle" /\ at' = [at EXCEPT ![c] = "insert"]
      /\ UNCHANGED <<throttle, accounts>>
      /\ UNCHANGED <<count, ttl, recent, advice, abandoned, row, users, mailed, presented>>
  BY DEF CheckEmail, Goto, throttle, accounts
<1>2. at' \in [Clients -> {"idle", "expire", "ttl", "insert", "mail", "commit"}]
  BY <1>1 DEF Inv, TypeOK
<1>3. /\ AccountInv'
      /\ \A d \in Clients : at'[d] = "commit" => ActionToken(row'[d], "email_verify") \in mailed'
  BY <1>1, AccountsUntouched
<1>4. ThrottleInv'
  BY <1>1, ThrottleUntouched
<1>5. TypeOK'
  BY <1>1, <1>2, <1>3 DEF Inv, TypeOK
<1> QED BY <1>3, <1>4, <1>5 DEF Inv

(* Inv is preserved by the INSERT, whether the constraint refuses it or not.*)
LEMMA InsertUserInv ==
    ASSUME Inv, NEW c \in Clients, InsertUser(c)
    PROVE  Inv'
<1>1. /\ at[c] = "insert" /\ \A i \in Users : users[i] # "open"
      /\ UNCHANGED throttle
      /\ UNCHANGED <<count, ttl, recent, advice, abandoned>>
  BY DEF InsertUser, throttle
<1>2. CASE at' = [at EXCEPT ![c] = "idle"] /\ UNCHANGED accounts
  <2>1. UNCHANGED <<row, users, mailed, presented>>
    BY <1>2 DEF accounts
  <2>2. at' \in [Clients -> {"idle", "expire", "ttl", "insert", "mail", "commit"}]
    BY <1>2 DEF Inv, TypeOK
  <2>3. /\ AccountInv'
        /\ \A d \in Clients : at'[d] = "commit" => ActionToken(row'[d], "email_verify") \in mailed'
    BY <1>1, <1>2, AccountsUntouched
  <2>4. ThrottleInv'
    BY <1>1, <1>2, ThrottleUntouched
  <2>5. TypeOK'
    BY <1>1, <2>1, <2>2, <2>3 DEF Inv, TypeOK
  <2> QED BY <2>3, <2>4, <2>5 DEF Inv
<1>3. ASSUME ~Registered, NEW i \in Users, users[i] = "free",
             users' = [users EXCEPT ![i] = "open"], row' = [row EXCEPT ![c] = i],
             at' = [at EXCEPT ![c] = "mail"], UNCHANGED <<mailed, presented>>
      PROVE  Inv'
  <2>1. /\ at \in [Clients -> {"idle", "expire", "ttl", "insert", "mail", "commit"}]
        /\ row \in [Clients -> Users \cup {0}]
        /\ users \in [Users -> {"free", "open", "gone", "live", "verified"}]
    BY DEF Inv, TypeOK
  <2>2. /\ at' \in [Clients -> {"idle", "expire", "ttl", "insert", "mail", "commit"}]
        /\ at'[c] = "mail" /\ \A d \in Clients : d # c => at'[d] = at[d]
    BY <1>3, <2>1
  <2>3. /\ row' \in [Clients -> Users \cup {0}]
        /\ row'[c] = i /\ \A d \in Clients : d # c => row'[d] = row[d]
    BY <1>3, <2>1
  <2>4. /\ users' \in [Users -> {"free", "open", "gone", "live", "verified"}]
        /\ users'[i] = "open" /\ \A j \in Users : j # i => users'[j] = users[j]
    BY <1>3, <2>1
  <2>5. \A j \in Users : users[j] \notin {"open", "live", "verified"}
    BY <1>1, <1>3 DEF Registered
  <2>6. \A d \in Clients : at[d] \notin {"mail", "commit"} /\ row[d] = 0
    BY <2>5 DEF Inv, AccountInv, RowsOK
  <2>7. RowsOK' /\ OwnRow'
    BY <2>2, <2>3, <2>4, <2>6 DEF RowsOK, OwnRow
  <2>8. OneRow' /\ Proved'
    BY <1>3, <2>4, <2>5 DEF OneRow, Proved
  <2>9. ThrottleInv'
    BY <1>1, <1>3, ThrottleUntouched
  <2>10. TypeOK'
    BY <1>1, <1>3, <2>2, <2>3, <2>4, <2>6 DEF Inv, TypeOK
  <2> QED BY <2>7, <2>8, <2>9, <2>10 DEF Inv, AccountInv
<1> QED BY <1>2, <1>3 DEF InsertUser, Goto

(* Inv is preserved by the verification email. *)
LEMMA SendMailInv ==
    ASSUME Inv, NEW c \in Clients, SendMail(c)
    PROVE  Inv'
<1>1. /\ at[c] = "mail" /\ at' = [at EXCEPT ![c] = "commit"]
      /\ mailed' = mailed \cup {ActionToken(row[c], "email_verify")}
      /\ UNCHANGED throttle
      /\ UNCHANGED <<count, ttl, recent, advice, abandoned, row, users, presented>>
  BY DEF SendMail, Goto, throttle
<1>2. at \in [Clients -> {"idle", "expire", "ttl", "insert", "mail", "commit"}]
  BY DEF Inv, TypeOK
<1>3. /\ at' \in [Clients -> {"idle", "expire", "ttl", "insert", "mail", "commit"}]
      /\ at'[c] = "commit" /\ \A d \in Clients : d # c => at'[d] = at[d]
  BY <1>1, <1>2
<1>4. row[c] \in Users
  BY <1>1 DEF Inv, AccountInv, RowsOK
<1>5. mailed' \subseteq ActionTokens
  BY <1>1, <1>4 DEF Inv, TypeOK, ActionTokens, ActionToken, Purposes
<1>6. RowsOK'
  BY <1>1, <1>3 DEF Inv, AccountInv, RowsOK
<1>7. OwnRow' /\ OneRow' /\ Proved'
  BY <1>1 DEF Inv, AccountInv, OwnRow, OneRow, Proved
<1>8. ThrottleInv'
  BY <1>1, ThrottleUntouched
<1>9. TypeOK'
  BY <1>1, <1>3, <1>5 DEF Inv, TypeOK
<1> QED BY <1>6, <1>7, <1>8, <1>9 DEF Inv, AccountInv

(* Inv is preserved by the commit of a registration. *)
LEMMA CommitUserInv ==
    ASSUME Inv, NEW c \in Clients, CommitUser(c)
    PROVE  Inv'
<1>1. /\ at[c] = "commit" /\ at' = [at EXCEPT ![c] = "idle"]
      /\ users' = [users EXCEPT ![row[c]] = "live"] /\ row' = [row EXCEPT ![c] = 0]
      /\ UNCHANGED throttle
      /\ UNCHANGED <<count, ttl, recent, advice, abandoned, mailed, presented>>
  BY DEF CommitUser, Goto, throttle
<1>2. /\ at \in [Clients -> {"idle", "expire", "ttl", "insert", "mail", "commit"}]
      /\ row \in [Clients -> Users \cup {0}]
      /\ users \in [Users -> {"free", "open", "gone", "live", "verified"}]
  BY DEF Inv, TypeOK
<1>3. row[c] \in Users /\ users[row[c]] = "open" /\ row[c] # 0
  BY <1>1 DEF Inv, AccountInv, RowsOK, Users
<1>4. /\ at' \in [Clients -> {"idle", "expire", "ttl", "insert", "mail", "commit"}]
      /\ at'[c] = "idle" /\ \A d \in Clients : d # c => at'[d] = at[d]
  BY <1>1, <1>2
<1>5. /\ row' \in [Clients -> Users \cup {0}]
      /\ row'[c] = 0 /\ \A d \in Clients : d # c => row'[d] = row[d]
  BY <1>1, <1>2
<1>6. /\ users' \in [Users -> {"free", "open", "gone", "live", "verified"}]
      /\ users'[row[c]] = "live" /\ \A j \in Users : j # row[c] => users'[j] = users[j]
  BY <1>1, <1>2, <1>3
<1>7. \A d \in Clients : d # c => row[d] # row[c]
  BY <1>3 DEF Inv, AccountInv, OwnRow
<1>8. RowsOK'
  BY <1>4, <1>5, <1>6, <1>7 DEF Inv, AccountInv, RowsOK
<1>9. OwnRow'
  BY <1>5 DEF Inv, AccountInv, OwnRow
<1>10. OneRow'
  BY <1>3, <1>6 DEF Inv, AccountInv, OneRow
<1>11. Proved'
  BY <1>1, <1>6 DEF Inv, AccountInv, Proved
<1>12. ThrottleInv'
  BY <1>1, ThrottleUntouched
<1>13. TypeOK'
  BY <1>1, <1>4, <1>5, <1>6 DEF Inv, TypeOK
<1> QED BY <1>8, <1>9, <1>10, <1>11, <1>12, <1>13 DEF Inv, AccountInv

(* Inv is preserved by the end of a client in any step. *)
LEMMA AbortInv ==
    ASSUME Inv, NEW c \in Clients, Abort(c)
    PROVE  Inv'
<1>1. /\ at[c] # "idle" /\ at' = [at EXCEPT ![c] = "idle"]
      /\ abandoned' = (abandoned \/ at[c] = "expire")
      /\ users' = [i \in Users |-> IF i = row[c] THEN "gone" ELSE users[i]]
      /\ row' = [row EXCEPT ![c] = 0]
      /\ UNCHANGED <<count, ttl, recent, advice, mailed, presented>>
  BY DEF Abort, Goto
<1>2. /\ at \in [Clients -> {"idle", "expire", "ttl", "insert", "mail", "commit"}]
      /\ row \in [Clients -> Users \cup {0}]
      /\ users \in [Users -> {"free", "open", "gone", "live", "verified"}]
      /\ abandoned \in BOOLEAN
  BY DEF Inv, TypeOK
<1>3. /\ at' \in [Clients -> {"idle", "expire", "ttl", "insert", "mail", "commit"}]
      /\ at'[c] = "idle" /\ \A d \in Clients : d # c => at'[d] = at[d]
  BY <1>1, <1>2
<1>4. /\ row' \in [Clients -> Users \cup {0}]
      /\ row'[c] = 0 /\ \A d \in Clients : d # c => row'[d] = row[d]
  BY <1>1, <1>2
<1>5. /\ users' \in [Users -> {"free", "open", "gone", "live", "verified"}]
      /\ \A j \in Users : users'[j] = "gone" \/ (j # row[c] /\ users'[j] = users[j])
      /\ \A j \in Users : j # row[c] => users'[j] = users[j]
  BY <1>1, <1>2
<1>6. ASSUME NEW d \in Clients, d # c, at[d] \in {"mail", "commit"}
      PROVE  row[d] \in Users /\ users[row[d]] = "open" /\ row[d] # row[c]
  <2>1. row[d] \in Users /\ users[row[d]] = "open" /\ row[d] # 0
    BY <1>6 DEF Inv, AccountInv, RowsOK, Users
  <2> QED BY <1>6, <2>1 DEF Inv, AccountInv, OwnRow
<1>7. RowsOK'
  BY <1>3, <1>4, <1>5, <1>6 DEF Inv, AccountInv, RowsOK
<1>8. OwnRow'
  BY <1>4 DEF Inv, AccountInv, OwnRow
<1>9. OneRow' /\ Proved'
  BY <1>1, <1>5 DEF Inv, AccountInv, OneRow, Proved
<1>10. TypeOK'
  BY <1>1, <1>2, <1>3, <1>4, <1>5 DEF Inv, TypeOK
<1>11. OneExpirer' /\ AdviceCovers'
  BY <1>1, <1>3 DEF Inv, ThrottleInv, OneExpirer, AdviceCovers
<1>12. ExpiryDue'
  BY <1>1, <1>2, <1>3 DEF Inv, ThrottleInv, ExpiryDue
<1> QED BY <1>7, <1>8, <1>9, <1>10, <1>11, <1>12 DEF Inv, AccountInv, ThrottleInv

(* Inv is preserved by the mailing of a reset token. *)
LEMMA RequestResetInv ==
    ASSUME Inv, NEW i \in Users, RequestReset(i)
    PROVE  Inv'
<1>1. /\ mailed' = mailed \cup {ActionToken(i, "password_reset")}
      /\ UNCHANGED <<at, count, ttl, recent, advice, abandoned, row, users, presented>>
  BY DEF RequestReset, throttle
<1>2. ActionToken(i, "password_reset") \in ActionTokens
  BY DEF ActionToken, ActionTokens, Purposes
<1>3. TypeOK'
  BY <1>1, <1>2 DEF Inv, TypeOK
<1>4. ThrottleInv'
  BY <1>1 DEF Inv, ThrottleInv, OneExpirer, AdviceCovers, ExpiryDue
<1>5. AccountInv'
  BY <1>1 DEF Inv, AccountInv, RowsOK, OwnRow, OneRow, Proved
<1> QED BY <1>3, <1>4, <1>5 DEF Inv

(* Inv is preserved by a verification. *)
LEMMA VerifyInv ==
    ASSUME Inv, NEW token \in ActionTokens, Verify(token)
    PROVE  Inv'
<1> DEFINE i == token.sub
<1>1. /\ token \in mailed /\ token.type = "email_verify"
      /\ presented' = presented \cup {token}
      /\ users' = [users EXCEPT ![i] = IF @ = "live" THEN "verified" ELSE @]
      /\ UNCHANGED <<at, count, ttl, recent, advice, abandoned, row, mailed>>
  BY DEF Verify, Decodes, throttle
<1>2. i \in Users /\ token = ActionToken(i, "email_verify")
  BY <1>1 DEF ActionTokens, ActionToken
<1>3. users \in [Users -> {"free", "open", "gone", "live", "verified"}]
  BY DEF Inv, TypeOK
<1> HIDE DEF i
<1>4. /\ users' \in [Users -> {"free", "open", "gone", "live", "verified"}]
      /\ \A j \in Users : j # i => users'[j] = users[j]
      /\ users[i] = "live" => users'[i] = "verified"
      /\ users[i] # "live" => users'[i] = users[i]
  BY <1>1, <1>2, <1>3
<1>5. TypeOK'
  BY <1>1, <1>4 DEF Inv, TypeOK
<1>6. ThrottleInv'
  BY <1>1 DEF Inv, ThrottleInv, OneExpirer, AdviceCovers, ExpiryDue
<1>7. RowsOK'
  <2>1. \A j \in Users : users[j] = "open" => users'[j] = "open"
    BY <1>4
  <2> QED BY <1>1, <2>1 DEF Inv, AccountInv, RowsOK
<1>8. OwnRow'
  BY <1>1 DEF Inv, AccountInv, OwnRow
<1>9. OneRow'
  <2>1. \A j \in Users : users'[j] \in {"open", "live", "verified"} =>
                         users[j] \in {"open", "live", "verified"}
    BY <1>2, <1>4
  <2> QED BY <2>1 DEF Inv, AccountInv, OneRow
<1>10. Proved'
  BY <1>1, <1>2, <1>4 DEF Inv, AccountInv, Proved
<1> QED BY <1>5, <1>6, <1>7, <1>8, <1>9, <1>10 DEF Inv, AccountInv

(* Inv is preserved by every step. *)
LEMMA NextInv == Inv /\ [Next]_vars => Inv'
<1> SUFFICES ASSUME Inv, [Next]_vars PROVE Inv'
  OBVIOUS
<1>1. ASSUME NEW c \in Clients, Attempt(c) \/ Register(c) \/ Abort(c) PROVE Inv'
  BY <1>1, IncrInv, ExpireInv, ReadTtlInv, CheckEmailInv, InsertUserInv, SendMailInv,
     CommitUserInv, AbortInv DEF Attempt, Register
<1>2. ASSUME NEW i \in Users, RequestReset(i) PROVE Inv'
  BY <1>2, RequestResetInv
<1>3. ASSUME NEW token \in ActionTokens, Verify(token) PROVE Inv'
  BY <1>3, VerifyInv
<1>4. CASE Tick
  BY <1>4, TickInv
<1>5. CASE UNCHANGED vars
  <2>1. UNCHANGED <<count, ttl, at, recent, advice, abandoned, row, users, mailed, presented>>
    BY <1>5 DEF vars
  <2>2. TypeOK'
    BY <2>1 DEF Inv, TypeOK
  <2>3. ThrottleInv'
    BY <2>1 DEF Inv, ThrottleInv, OneExpirer, AdviceCovers, ExpiryDue
  <2>4. AccountInv'
    BY <2>1 DEF Inv, AccountInv, RowsOK, OwnRow, OneRow, Proved
  <2> QED BY <2>2, <2>3, <2>4 DEF Inv
<1> QED BY <1>1, <1>2, <1>3, <1>4, <1>5 DEF Next

(* Inv holds in every reachable state. *)
LEMMA Invariance == Spec => []Inv
  BY InitInv, NextInv, PTL DEF Spec

-----------------------------------------------------------------------------
(* The variables of the throttle and of the accounts keep their types, and  *)
(* register commits no account before its token is mailed.                  *)
THEOREM AccountsTypes == Spec => []TypeOK
<1>1. Inv => TypeOK
  BY DEF Inv
<1> QED BY <1>1, Invariance, PTL

(* AuthThrottle.check: a refused client that waits retry_after and half a   *)
(* second finds the counter gone, unless it had no expiry when it was read. *)
THEOREM LockoutsEnd == Spec => []LockoutEnds
<1>1. Inv => LockoutEnds
  <2> SUFFICES ASSUME Inv PROVE LockoutEnds
    OBVIOUS
  <2>1. ASSUME NEW c \in Clients PROVE advice[c] # 0
    <3>1. advice[c] \in Nat \cup {Unadvised} /\ ttl \in 1..Window \cup {NoExpiry, NoKey}
      BY DEF Inv, TypeOK
    <3> QED BY <3>1 DEF Inv, ThrottleInv, AdviceCovers, Unadvised, NoExpiry, NoKey
  <2> QED BY <2>1 DEF Inv, ThrottleInv, ExpiryDue, LockoutEnds
<1> QED BY <1>1, Invariance, PTL

(* register and verify_email: an address has one account, and its own token *)
(* has verified it.                                                         *)
THEOREM AddressesProved == Spec => []OneProvedAccount
<1>1. Inv => OneProvedAccount
  <2> SUFFICES ASSUME Inv PROVE OneProvedAccount
    OBVIOUS
  <2> DEFINE S == {i \in Users : users[i] \in {"live", "verified"}}
  <2>1. \A i, j \in S : i = j
    BY DEF Inv, AccountInv, OneRow
  <2>2. Cardinality(S) <= 1
    BY <2>1, AtMostOne
  <2> QED BY <2>2 DEF Inv, AccountInv, Proved, OneProvedAccount
<1> QED BY <1>1, Invariance, PTL

-----------------------------------------------------------------------------
(* Within(n), of the counts rec; recent after an attempt and after a tick.  *)
Grid(rec, n) == UNION {{a} \X (1..rec[a]) : a \in 0..n}
OneMore(rec) == [rec EXCEPT ![0] = @ + 1]
Older(rec) == [a \in Ages |-> IF a = 0 THEN 0 ELSE rec[a - 1]]

(* How many of the attempts counted were let through.  What the window of   *)
(* the counter may still add to the last one's: before the EXPIRE all of    *)
(* the last window may be recent; after it, what is younger than the EXPIRE *)
(* is this window's, and at its end there is nothing else.                  *)
Passed == IF count < Limit THEN count ELSE Limit
Budget ==
    /\ ttl = NoKey => Cardinality(Grid(recent, Window - 1)) <= Limit
    /\ ttl = NoExpiry => Cardinality(Grid(recent, Window - 1)) <= Limit + Passed - 1
    /\ ttl \in 1..Window =>
          /\ Cardinality(Grid(recent, Window - 1)) <= Limit + Passed
          /\ Cardinality(Grid(recent, Window - ttl - 1)) <= Passed

(* The elements of a grid. *)
LEMMA GridElements ==
    ASSUME NEW rec \in [Ages -> Nat], NEW n \in Int, n <= Window - 1
    PROVE  /\ \A x : x \in Grid(rec, n) <=>
                 \E a \in 0..n : \E i \in 1..rec[a] : x = <<a, i>>
           /\ IsFiniteSet(Grid(rec, n)) /\ Cardinality(Grid(rec, n)) \in Nat
<1>1. \A x : x \in Grid(rec, n) <=> \E a \in 0..n : \E i \in 1..rec[a] : x = <<a, i>>
  BY DEF Grid
<1>2. IsFiniteSet(0..n)
  BY FS_Interval
<1>3. PICK col : col = [a \in 0..n |-> {a} \X (1..rec[a])]
  OBVIOUS
<1>4. PICK cols : cols = {{a} \X (1..rec[a]) : a \in 0..n}
  OBVIOUS
<1>5. IsFiniteSet(cols)
  <2>1. col \in Surjection(0..n, cols)
    BY <1>3, <1>4 DEF Surjection
  <2> QED BY <1>2, <2>1, FS_Surjection
<1>6. \A T \in cols : IsFiniteSet(T)
  <2> SUFFICES ASSUME NEW a \in 0..n PROVE IsFiniteSet({a} \X (1..rec[a]))
    BY <1>4
  <2>1. PICK m \in Nat : m = rec[a]
    BY DEF Ages
  <2>2. IsFiniteSet({a}) /\ IsFiniteSet(1..m)
    <3>1. IsFiniteSet({a})
      BY FS_Singleton
    <3>2. IsFiniteSet(1..m)
      BY FS_Interval
    <3> QED BY <3>1, <3>2
  <2>3. IsFiniteSet({a} \X (1..m))
    BY <2>2, FS_Product
  <2> QED BY <2>1, <2>3
<1>7. IsFiniteSet(UNION cols)
  BY <1>5, <1>6, FS_UNION
<1>8. IsFiniteSet(Grid(rec, n))
  BY <1>4, <1>7 DEF Grid
<1> QED BY <1>1, <1>8, FS_CardinalityType

(* A longer span has no fewer attempts. *)
LEMMA GridMonotone ==
    ASSUME NEW rec \in [Ages -> Nat], NEW n \in Int, n <= Window - 1
    PROVE  Cardinality(Grid(rec, n)) <= Cardinality(Grid(rec, Window - 1))
<1>1. PICK m \in Int : m = Window - 1
  OBVIOUS
<1>2. PICK G, H : G = Grid(rec, n) /\ H = Grid(rec, m)
  OBVIOUS
<1>3. IsFiniteSet(H)
  BY <1>1, <1>2, GridElements
<1>4. G \subseteq H
  <2>1. 0..n \subseteq 0..m
    BY <1>1
  <2> QED BY <1>2, <2>1 DEF Grid
<1>5. Cardinality(G) <= Cardinality(H)
  BY <1>3, <1>4, FS_Subset
<1> QED BY <1>1, <1>2, <1>5

(* An attempt adds one to every span. *)
LEMMA GridOneMore ==
    ASSUME NEW rec \in [Ages -> Nat], NEW n \in Int, n <= Window - 1
    PROVE  /\ OneMore(rec) \in [Ages -> Nat]
           /\ Cardinality(Grid(OneMore(rec), n)) <= Cardinality(Grid(rec, n)) + 1
<1>1. 0 \in Ages
  BY DEF Ages
<1>2. PICK new : new = OneMore(rec)
  OBVIOUS
<1>3. /\ new \in [Ages -> Nat] /\ new[0] = rec[0] + 1 /\ rec[0] \in Nat
      /\ \A a \in Ages : a # 0 => new[a] = rec[a]
  BY <1>1, <1>2 DEF OneMore
<1>4. PICK G, H : G = Grid(rec, n) /\ H = Grid(new, n)
  OBVIOUS
<1>5. /\ \A x : x \in G <=> \E a \in 0..n : \E i \in 1..rec[a] : x = <<a, i>>
      /\ IsFiniteSet(G) /\ Cardinality(G) \in Nat
  BY <1>4, GridElements
<1>6. /\ \A x : x \in H <=> \E a \in 0..n : \E i \in 1..new[a] : x = <<a, i>>
      /\ IsFiniteSet(H) /\ Cardinality(H) \in Nat
  BY <1>3, <1>4, GridElements
<1>7. PICK y : y = <<0, new[0]>>
  OBVIOUS
<1>8. H \subseteq G \cup {y}
  <2> SUFFICES ASSUME NEW x \in H, x # y PROVE x \in G
    OBVIOUS
  <2>0. PICK a \in 0..n : \E i \in 1..new[a] : x = <<a, i>>
    BY <1>6
  <2>1. PICK i \in 1..new[a] : x = <<a, i>>
    BY <2>0
  <2>2. i \in 1..rec[a]
    <3>1. CASE a = 0
      <4>1. i # new[0]
        BY <1>7, <2>1, <3>1
      <4> QED BY <1>3, <2>1, <3>1, <4>1
    <3>2. CASE a # 0
      <4>1. a \in Ages
        BY DEF Ages
      <4> QED BY <1>3, <2>1, <3>2, <4>1
    <3> QED BY <3>1, <3>2
  <2> QED BY <1>5, <2>1, <2>2
<1>9. IsFiniteSet(G \cup {y}) /\ Cardinality(G \cup {y}) <= Cardinality(G) + 1
  <2>1. /\ IsFiniteSet(G \cup {y})
        /\ Cardinality(G \cup {y}) = IF y \in G THEN Cardinality(G) ELSE Cardinality(G) + 1
    BY <1>5, FS_AddElement
  <2> QED BY <1>5, <2>1
<1>10. Cardinality(H) <= Cardinality(G \cup {y})
  BY <1>8, <1>9, FS_Subset
<1>11. Cardinality(G \cup {y}) \in Nat
  BY <1>9, FS_CardinalityType
<1>12. Cardinality(H) <= Cardinality(G) + 1
  BY <1>5, <1>6, <1>9, <1>10, <1>11
<1> QED BY <1>2, <1>3, <1>4, <1>12

(* After a tick a span has what a span shorter by one had before. *)
LEMMA GridOlder ==
    ASSUME NEW rec \in [Ages -> Nat], NEW n \in Int, n <= Window - 1
    PROVE  /\ Older(rec) \in [Ages -> Nat]
           /\ Cardinality(Grid(Older(rec), n)) <= Cardinality(Grid(rec, n - 1))
<1>1. PICK new : new = Older(rec)
  OBVIOUS
<1>2. /\ new \in [Ages -> Nat]
      /\ \A a \in Ages : /\ a = 0 => new[a] = 0
                         /\ a # 0 => new[a] = rec[a - 1]
  <2>1. \A a \in Ages : a # 0 => a - 1 \in Ages
    BY DEF Ages
  <2> QED BY <1>1, <2>1 DEF Older
<1>3. PICK m \in Int : m = n - 1
  OBVIOUS
<1>4. PICK G, H : G = Grid(rec, m) /\ H = Grid(new, n)
  OBVIOUS
<1>5. /\ \A x : x \in G <=> \E a \in 0..m : \E i \in 1..rec[a] : x = <<a, i>>
      /\ IsFiniteSet(G)
  BY <1>3, <1>4, GridElements
<1>6. \A x : x \in H <=> \E a \in 0..n : \E i \in 1..new[a] : x = <<a, i>>
  BY <1>2, <1>4, GridElements
<1>7. PICK f : f = [x \in G |-> <<x[1] + 1, x[2]>>]
  OBVIOUS
<1>8. \A x \in G : f[x] \in H
  <2> SUFFICES ASSUME NEW x \in G PROVE f[x] \in H
    OBVIOUS
  <2>0. PICK a \in 0..m : \E i \in 1..rec[a] : x = <<a, i>>
    BY <1>5
  <2>1. PICK i \in 1..rec[a] : x = <<a, i>>
    BY <2>0
  <2>2. f[x] = <<a + 1, i>>
    BY <1>7, <2>1
  <2>3. a + 1 \in 0..n /\ a + 1 \in Ages /\ a + 1 # 0 /\ (a + 1) - 1 = a
    BY <1>3 DEF Ages
  <2>4. i \in 1..new[a + 1]
    BY <1>2, <2>1, <2>3
  <2> QED BY <1>6, <2>2, <2>3, <2>4
<1>9. \A y \in H : \E x \in G : f[x] = y
  <2> SUFFICES ASSUME NEW y \in H PROVE \E x \in G : f[x] = y
    OBVIOUS
  <2>0. PICK a \in 0..n : \E i \in 1..new[a] : y = <<a, i>>
    BY <1>6
  <2>1. PICK i \in 1..new[a] : y = <<a, i>>
    BY <2>0
  <2>2. a \in Ages /\ a # 0
    <3>1. a \in Ages
      BY DEF Ages
    <3>2. a # 0
      BY <1>2, <2>1, <3>1
    <3> QED BY <3>1, <3>2
  <2>3. PICK b \in 0..m : b = a - 1 /\ a = b + 1
    BY <1>3, <2>2 DEF Ages
  <2>4. i \in 1..rec[b]
    BY <1>2, <2>1, <2>2, <2>3
  <2>5. <<b, i>> \in G
    BY <1>5, <2>4
  <2>6. f[<<b, i>>] = y
    BY <1>7, <2>1, <2>3, <2>5
  <2> QED BY <2>5, <2>6
<1>10. f \in Surjection(G, H)
  <2>1. f \in [G -> H]
    BY <1>7, <1>8
  <2> QED BY <1>9, <2>1 DEF Surjection
<1>11. Cardinality(H) <= Cardinality(G)
  BY <1>5, <1>10, FS_Surjection
<1> QED BY <1>1, <1>2, <1>3, <1>4, <1>11

(* The budget is kept by INCR: what it lets through it has counted. *)
LEMMA IncrBudget ==
    ASSUME Inv, Budget, NEW c \in Clients, Incr(c)
    PROVE  Budget'
<1>1. /\ count \in 0..MaxCount /\ ttl \in 1..Window \cup {NoExpiry, NoKey}
      /\ (count = 0 <=> ttl = NoKey) /\ recent \in [Ages -> Nat]
  BY DEF Inv, TypeOK
<1>2. /\ count' = count + 1
      /\ ttl' = IF count + 1 = 1 THEN NoExpiry ELSE ttl
      /\ recent' = IF count + 1 # 1 /\ LetThrough(count + 1) THEN OneMore(recent) ELSE recent
  BY DEF Incr, OneMore
<1>3. PICK rec \in [Ages -> Nat] : rec = recent
  BY <1>1
<1>4. PICK p \in Nat : p = Passed /\ (count = 0 => p = 0)
  BY <1>1 DEF Passed
<1>5. CASE count = 0
  <2>1. ttl = NoKey /\ ttl' = NoExpiry /\ recent' = rec /\ count' = 1
    BY <1>1, <1>2, <1>3, <1>5
  <2>2. Passed' = 1
    BY <2>1 DEF Passed
  <2>3. Cardinality(Grid(rec, Window - 1)) <= Limit
    BY <1>3, <2>1 DEF Budget
  <2>4. ttl' # NoKey /\ ttl' \notin 1..Window
    BY <2>1 DEF NoKey, NoExpiry
  <2> QED BY <2>1, <2>2, <2>3, <2>4 DEF Budget
<1>6. CASE count # 0 /\ ~LetThrough(count + 1)
  <2>1. ttl' = ttl /\ recent' = rec
    BY <1>1, <1>2, <1>3, <1>6
  <2>2. Passed' = Passed
    BY <1>1, <1>2, <1>6 DEF Passed, LetThrough
  <2> QED BY <1>3, <2>1, <2>2 DEF Budget
<1>7. CASE count # 0 /\ LetThrough(count + 1)
  <2>1. ttl' = ttl /\ recent' = OneMore(rec) /\ ttl # NoKey
    BY <1>1, <1>2, <1>3, <1>7
  <2>2. Passed' = p + 1
    BY <1>1, <1>2, <1>4, <1>7 DEF Passed, LetThrough
  <2>3. PICK new : new = OneMore(rec)
    OBVIOUS
  <2>4. ASSUME NEW n \in Int, n <= Window - 1
        PROVE  /\ Cardinality(Grid(new, n)) <= Cardinality(Grid(rec, n)) + 1
               /\ Cardinality(Grid(new, n)) \in Nat /\ Cardinality(Grid(rec, n)) \in Nat
    <3>1. new \in [Ages -> Nat] /\ Cardinality(Grid(new, n)) <= Cardinality(Grid(rec, n)) + 1
      BY <2>3, <2>4, GridOneMore
    <3> QED BY <2>4, <3>1, GridElements
  <2>5. /\ Cardinality(Grid(new, Window - 1)) <= Cardinality(Grid(rec, Window - 1)) + 1
        /\ Cardinality(Grid(new, Window - 1)) \in Nat /\ Cardinality(Grid(rec, Window - 1)) \in Nat
    BY <2>4
  <2>6. CASE ttl = NoExpiry
    <3>1. Cardinality(Grid(rec, Window - 1)) <= Limit + p - 1
      BY <1>3, <1>4, <2>6 DEF Budget
    <3>2. ttl \notin 1..Window
      BY <2>6 DEF NoExpiry
    <3> QED BY <2>1, <2>2, <2>3, <2>5, <2>6, <3>1, <3>2 DEF Budget
  <2>7. CASE ttl \in 1..Window
    <3>1. ttl # NoExpiry
      BY <2>7 DEF NoExpiry
    <3>2. PICK n \in Int : n = Window - ttl - 1 /\ n <= Window - 1
      BY <2>7
    <3>3. /\ Cardinality(Grid(rec, Window - 1)) <= Limit + p
          /\ Cardinality(Grid(rec, n)) <= p
      BY <1>3, <1>4, <2>7, <3>2 DEF Budget
    <3>4. Cardinality(Grid(new, Window - 1)) <= Limit + (p + 1)
      BY <2>5, <3>3
    <3>5. Cardinality(Grid(new, n)) <= p + 1
      BY <2>4, <3>2, <3>3
    <3> QED BY <2>1, <2>2, <2>3, <3>1, <3>2, <3>4, <3>5 DEF Budget
  <2> QED BY <1>1, <2>1, <2>6, <2>7
<1> QED BY <1>5, <1>6, <1>7

(* The budget is kept by EXPIRE, from which the window is counted. *)
LEMMA ExpireBudget ==
    ASSUME Inv, Budget, NEW c \in Clients, Expire(c)
    PROVE  Budget'
<1>1. /\ count \in 0..MaxCount /\ recent \in [Ages -> Nat]
      /\ ttl = NoExpiry /\ (count = 0 <=> ttl = NoKey)
  BY DEF Inv, TypeOK, Expire, ThrottleInv, OneExpirer
<1>2. ttl' = Window /\ recent' = OneMore(recent) /\ count' = count
  BY DEF Expire, OneMore
<1>3. PICK rec \in [Ages -> Nat] : rec = recent
  BY <1>1
<1>4. PICK new : new = OneMore(rec)
  OBVIOUS
<1>5. PICK p \in Nat : p = Passed /\ Passed' = p
  <2>1. Passed \in Nat
    BY <1>1 DEF Passed
  <2>2. Passed' = Passed
    BY <1>2 DEF Passed
  <2> QED BY <2>1, <2>2
<1>6. Cardinality(Grid(rec, Window - 1)) <= Limit + p - 1
  BY <1>1, <1>3, <1>5 DEF Budget
<1>7. new \in [Ages -> Nat]
      /\ Cardinality(Grid(new, Window - 1)) <= Cardinality(Grid(rec, Window - 1)) + 1
  BY <1>4, GridOneMore
<1>8. Cardinality(Grid(new, Window - 1)) \in Nat /\ Cardinality(Grid(rec, Window - 1)) \in Nat
  <2>1. PICK m \in Int : m = Window - 1 /\ m <= Window - 1
    OBVIOUS
  <2>2. Cardinality(Grid(new, m)) \in Nat
    BY <1>7, <2>1, GridElements
  <2>3. Cardinality(Grid(rec, m)) \in Nat
    BY <2>1, GridElements
  <2> QED BY <2>1, <2>2, <2>3
<1>9. Cardinality(Grid(new, Window - 1)) <= Limit + p
  BY <1>6, <1>7, <1>8
<1>10. Cardinality(Grid(new, Window - Window - 1)) <= p
  <2>1. PICK n \in Int : n = Window - Window - 1 /\ n = -1
    OBVIOUS
  <2>2. 0..n = {}
    BY <2>1
  <2>3. Grid(new, n) = {}
    BY <2>2 DEF Grid
  <2>4. Cardinality(Grid(new, n)) = 0
    BY <2>3, FS_EmptySet
  <2> QED BY <2>1, <2>4
<1>11. ttl' # NoKey /\ ttl' # NoExpiry
  BY <1>2 DEF NoKey, NoExpiry
<1> QED BY <1>2, <1>3, <1>4, <1>5, <1>9, <1>10, <1>11 DEF Budget

(* The budget is kept by time.  When the key goes, what is older than its   *)
(* EXPIRE has left the window.                                              *)
LEMMA TickBudget ==
    ASSUME Inv, Budget, Tick
    PROVE  Budget'
<1>1. /\ count \in 0..MaxCount /\ ttl \in 1..Window \cup {NoExpiry, NoKey}
      /\ (count = 0 <=> ttl = NoKey) /\ recent \in [Ages -> Nat]
  BY DEF Inv, TypeOK
<1>2. /\ ttl' = IF ttl = 1 THEN NoKey ELSE IF ttl > 1 THEN ttl - 1 ELSE ttl
      /\ count' = IF ttl = 1 THEN 0 ELSE count
      /\ recent' = Older(recent)
  BY DEF Tick, Older
<1>3. PICK rec \in [Ages -> Nat] : rec = recent
  BY <1>1
<1>4. PICK new : new = Older(rec)
  OBVIOUS
<1>5. PICK p \in Nat : p = Passed /\ p <= Limit
  BY <1>1 DEF Passed
<1>6. ASSUME NEW n \in Int, n <= Window - 1
      PROVE  /\ Cardinality(Grid(new, n)) <= Cardinality(Grid(rec, n - 1))
             /\ Cardinality(Grid(new, n)) \in Nat /\ Cardinality(Grid(rec, n - 1)) \in Nat
  <2>1. new \in [Ages -> Nat] /\ Cardinality(Grid(new, n)) <= Cardinality(Grid(rec, n - 1))
    BY <1>4, <1>6, GridOlder
  <2>2. Cardinality(Grid(new, n)) \in Nat
    BY <1>6, <2>1, GridElements
  <2>3. PICK m \in Int : m = n - 1 /\ m <= Window - 1
    BY <1>6
  <2>4. Cardinality(Grid(rec, m)) \in Nat
    BY <2>3, GridElements
  <2> QED BY <2>1, <2>2, <2>3, <2>4
<1>7. PICK T : T = Cardinality(Grid(rec, Window - 1)) /\ T \in Nat
  BY GridElements
<1>8. PICK N : N = Cardinality(Grid(new, Window - 1)) /\ N \in Nat /\ N <= T
  <2>1. PICK m \in Int : m = (Window - 1) - 1 /\ m <= Window - 1
    OBVIOUS
  <2>2. Cardinality(Grid(rec, m)) <= T
    BY <1>7, <2>1, GridMonotone
  <2>3. /\ Cardinality(Grid(new, Window - 1)) <= Cardinality(Grid(rec, m))
        /\ Cardinality(Grid(new, Window - 1)) \in Nat /\ Cardinality(Grid(rec, m)) \in Nat
    BY <1>6, <2>1
  <2> QED BY <1>7, <2>2, <2>3
<1>9. CASE ttl \in {NoKey, NoExpiry}
  <2>1. ttl' = ttl /\ count' = count /\ ttl' \notin 1..Window
    BY <1>2, <1>9 DEF NoKey, NoExpiry
  <2>2. Passed' = p
    BY <1>5, <2>1 DEF Passed
  <2>3. /\ ttl = NoKey => T <= Limit
        /\ ttl = NoExpiry => T <= Limit + p - 1
    BY <1>3, <1>5, <1>7 DEF Budget
  <2>4. /\ ttl = NoKey => N <= Limit
        /\ ttl = NoExpiry => N <= Limit + p - 1
    BY <1>7, <1>8, <2>3
  <2> QED BY <1>2, <1>3, <1>4, <1>8, <2>1, <2>2, <2>4 DEF Budget
<1>10. CASE ttl = 1
  <2>1. ttl' = NoKey /\ ttl' # NoExpiry /\ ttl' \notin 1..Window
    BY <1>2, <1>10 DEF NoKey, NoExpiry
  <2>2. PICK m \in Int : m = Window - 1 - 1 /\ m = (Window - 1) - 1
    OBVIOUS
  <2>3. Cardinality(Grid(rec, m)) <= p
    BY <1>3, <1>5, <1>10, <2>2 DEF Budget
  <2>4. N <= Cardinality(Grid(rec, m)) /\ Cardinality(Grid(rec, m)) \in Nat
    BY <1>6, <1>8, <2>2
  <2>5. N <= Limit
    BY <1>5, <1>8, <2>3, <2>4
  <2> QED BY <1>2, <1>3, <1>4, <1>8, <2>1, <2>5 DEF Budget
<1>11. CASE ttl \in 2..Window
  <2>1. ttl' = ttl - 1 /\ ttl' \in 1..Window /\ count' = count
    BY <1>2, <1>11
  <2>2. ttl' # NoKey /\ ttl' # NoExpiry
    BY <2>1 DEF NoKey, NoExpiry
  <2>3. Passed' = p
    BY <1>5, <2>1 DEF Passed
  <2>4. PICK n \in Int : n = Window - ttl' - 1 /\ n - 1 = Window - ttl - 1 /\ n <= Window - 1
    BY <1>11, <2>1
  <2>5. T <= Limit + p /\ Cardinality(Grid(rec, n - 1)) <= p
    BY <1>3, <1>5, <1>7, <1>11, <2>4 DEF Budget
  <2>6. N <= Limit + p
    BY <1>7, <1>8, <2>5
  <2>7. Cardinality(Grid(new, n)) <= p
    BY <1>6, <2>4, <2>5
  <2> QED BY <1>2, <1>3, <1>4, <1>8, <2>1, <2>2, <2>3, <2>4, <2>6, <2>7 DEF Budget
<1> QED BY <1>1, <1>9, <1>10, <1>11

(* The budget holds in every reachable state. *)
LEMMA BudgetKept == Spec => []Budget
<1>1. Init => Budget
  <2> SUFFICES ASSUME Init PROVE Budget
    OBVIOUS
  <2>1. ttl = NoKey /\ recent = [a \in Ages |-> 0]
    BY DEF Init
  <2>2. Grid(recent, Window - 1) = {}
    BY <2>1 DEF Grid, Ages
  <2>3. Cardinality(Grid(recent, Window - 1)) = 0
    BY <2>2, FS_EmptySet
  <2>4. ttl # NoExpiry /\ ttl \notin 1..Window
    BY <2>1 DEF NoKey, NoExpiry
  <2> QED BY <2>3, <2>4 DEF Budget
<1>2. ASSUME Inv, Budget, UNCHANGED <<count, ttl, recent>> PROVE Budget'
  BY <1>2 DEF Budget, Passed
<1>3. Inv /\ Budget /\ [Next]_vars => Budget'
  <2> SUFFICES ASSUME Inv, Budget, [Next]_vars PROVE Budget'
    OBVIOUS
  <2>1. ASSUME NEW c \in Clients, Incr(c) PROVE Budget'
    BY <2>1, IncrBudget
  <2>2. ASSUME NEW c \in Clients, Expire(c) PROVE Budget'
    BY <2>2, ExpireBudget
  <2>3. CASE Tick
    BY <2>3, TickBudget
  <2>4. ASSUME NEW c \in Clients, ReadTtl(c) \/ Register(c) \/ Abort(c) PROVE Budget'
    BY <1>2, <2>4 DEF ReadTtl, Register, CheckEmail, InsertUser, SendMail, CommitUser, Abort, throttle
  <2>5. ASSUME NEW i \in Users, RequestReset(i) PROVE Budget'
    BY <1>2, <2>5 DEF RequestReset, throttle
  <2>6. ASSUME NEW token \in ActionTokens, Verify(token) PROVE Budget'
    BY <1>2, <2>6 DEF Verify, throttle
  <2>7. CASE UNCHANGED vars
    BY <1>2, <2>7 DEF vars
  <2> QED BY <2>1, <2>2, <2>3, <2>4, <2>5, <2>6, <2>7 DEF Next, Attempt
<1> QED BY <1>1, <1>3, Invariance, PTL DEF Spec

(* AuthThrottle.check: no span as long as the window lets more than twice   *)
(* the limit through, whatever the limit, the window and the delay between  *)
(* INCR and EXPIRE.                                                         *)
THEOREM ThrottleBounded == Spec => []AttemptsPerWindow
<1>1. Inv /\ Budget => AttemptsPerWindow
  <2> SUFFICES ASSUME Inv, Budget PROVE AttemptsPerWindow
    OBVIOUS
  <2>1. /\ count \in 0..MaxCount /\ ttl \in 1..Window \cup {NoExpiry, NoKey}
        /\ recent \in [Ages -> Nat]
    BY DEF Inv, TypeOK
  <2>2. PICK p \in Nat : p = Passed /\ p <= Limit
    BY <2>1 DEF Passed
  <2>3. PICK T : T = Cardinality(Grid(recent, Window - 1))
    OBVIOUS
  <2>4. T \in Nat
    <3>1. PICK rec \in [Ages -> Nat] : rec = recent
      BY <2>1
    <3> QED BY <2>3, <3>1, GridElements
  <2>5. T <= Limit \/ T <= Limit + p - 1 \/ T <= Limit + p
    BY <2>1, <2>2, <2>3 DEF Budget
  <2>6. T <= 2 * Limit
    BY <2>2, <2>4, <2>5
  <2> QED BY <2>3, <2>6 DEF AttemptsPerWindow, Within, Grid
<1> QED BY <1>1, BudgetKept, Invariance, PTL
=============================================================================
