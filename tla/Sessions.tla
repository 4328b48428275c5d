------------------------------ MODULE Sessions ------------------------------
(* The sessions of one user account (app/services/auth.py): login, refresh  *)
(* token rotation, logout and password reset.  A request is one Postgres    *)
(* transaction at READ COMMITTED: it reads committed rows, decides, and     *)
(* writes when it commits, so other requests commit between its reads and   *)
(* its writes.  A request that raises is rolled back (db/session.py), so a  *)
(* refused request changes nothing.  Counting of login attempts             *)
(* (services/auth_throttle.py) and access tokens, which no table holds, are *)
(* left out.                                                                *)
EXTENDS Integers, FiniteSets

CONSTANTS
    Clients,    \* requests in progress at a time
    Passwords,
    MaxTokens,  \* bound: refresh tokens issued
    MaxHashes   \* bound: password hashes computed after the first

ASSUME SessionsAssumption ==
    /\ Passwords # {}
    /\ MaxTokens \in Nat
    /\ MaxHashes \in Nat \ {0}

Tokens == 1..MaxTokens
Serials == 0..MaxHashes

VARIABLES
    hash,      \* users.password_hash: a serial number, as the salt of every hash is new
    hashed,    \* the serials drawn so far
    password,  \* password[s]: the password of the hash with serial s
    mailed,    \* the serials of the hashes that mailed reset tokens are bound to (pfp)
    family,    \* family[t]: family_id of token t, or 0 if t is not in the table
    revoked,   \* the tokens with revoked_at set
    rotatedTo, \* rotatedTo[t]: the column rotated_to, or 0
    job,       \* job[c]: the request of c and what it has read
    \* What only the properties read:
    stale,     \* stale[f]: rotations of family f of a token revoked since they read it
    reused,    \* families in which the use of a revoked token was detected
    ended,     \* the tokens that a reset which has committed found in the table
    chosen,    \* the password that the last reset to commit has set
    revived,   \* a login has replaced a hash newer than the one it had read
    spent,     \* spent[s]: resets committed with the token bound to serial s
    contested  \* contested[s]: those of them that replaced a newer hash

tokenVars == <<family, revoked, rotatedTo>>
hashVars == <<hash, hashed, password>>
ghostVars == <<stale, reused, ended, chosen, revived, spent, contested>>
vars == <<hashVars, mailed, tokenVars, job, ghostVars>>

(* password_needs_rehash: only the first hash can be from before the change *)
(* of the parameters.                                                       *)
Outdated(s) == s = 0

Idle == [op |-> "idle", token |-> 0, hash |-> 0, active |-> {}, seen |-> {}]

(* The request has read the hash, and the token t if it presents one. *)
Reading(op, t) == [Idle EXCEPT !.op = op, !.token = t, !.hash = hash]

Init ==
    /\ hash \in {0, 1}
    /\ hashed = hash
    /\ \E pw \in Passwords : password = [s \in Serials |-> pw]
    /\ mailed = {}
    /\ family = [t \in Tokens |-> 0]
    /\ revoked = {}
    /\ rotatedTo = [t \in Tokens |-> 0]
    /\ job = [c \in Clients |-> Idle]
    /\ stale = [f \in Tokens |-> 0]
    /\ reused = {}
    /\ ended = {}
    /\ chosen = password[hash]
    /\ revived = FALSE
    /\ spent = [s \in Serials |-> 0]
    /\ contested = [s \in Serials |-> 0]

Issued == {t \in Tokens : family[t] # 0}
Fresh == Cardinality(Issued) + 1

(* The tokens of family f that rotate would accept. *)
Active(f) == {t \in Tokens : family[t] = f /\ t \notin revoked}

Doing(c, op) == job[c].op = op
Done(c) == job' = [job EXCEPT ![c] = Idle]

(* hash_password: a new hash of pw. *)
NewHash(pw) ==
    /\ hashed < MaxHashes
    /\ hashed' = hashed + 1
    /\ hash' = hashed + 1
    /\ password' = [password EXCEPT ![hash'] = pw]

(* issue_tokens: a new row, in the family given or in a new one. *)
Issue(f) ==
    /\ Fresh \in Tokens
    /\ family' = [family EXCEPT ![Fresh] = f]

-----------------------------------------------------------------------------
(* authenticate has found the password to match the hash it has read. *)
Login(c) ==
    /\ Doing(c, "idle")
    /\ job' = [job EXCEPT ![c] = Reading("login", 0)]
    /\ UNCHANGED <<hashVars, mailed, tokenVars, ghostVars>>

(* The new session is committed, and a new hash of the same password if the *)
(* one read was outdated.                                                   *)
LoginCommit(c) ==
    /\ Doing(c, "login")
    /\ Issue(Fresh)
    /\ IF Outdated(job[c].hash)
       THEN /\ NewHash(password[job[c].hash])
            /\ revived' = (revived \/ hash # job[c].hash)
       ELSE UNCHANGED <<hashVars, revived>>
    /\ Done(c)
    /\ UNCHANGED <<mailed, revoked, rotatedTo, stale, reused, ended, chosen, spent, contested>>

(* rotate finds its token not revoked. *)
Refresh(c) ==
    /\ Doing(c, "idle")
    /\ \E t \in Issued \ revoked :
          job' = [job EXCEPT ![c] = Reading("refresh", t)]
    /\ UNCHANGED <<hashVars, mailed, tokenVars, ghostVars>>

(* rotate finds its token revoked: it revokes the family and raises, which  *)
(* rolls the revocation back.                                               *)
RefreshReused(c) ==
    /\ Doing(c, "idle")
    /\ \E t \in Issued \cap revoked : reused' = reused \cup {family[t]}
    /\ UNCHANGED <<hashVars, mailed, tokenVars, job, stale, ended, chosen, revived,
                   spent, contested>>

(* Faulty variant: the old token is not revoked. *)
RefreshCommitKeep(c) ==
    LET t == job[c].token
    IN  /\ Doing(c, "refresh")
        /\ Issue(family[t])
        /\ rotatedTo' = [rotatedTo EXCEPT ![t] = Fresh]
        /\ Done(c)
        /\ UNCHANGED <<hashVars, mailed, revoked, ghostVars>>

(* Faulty variant: rotated_to is set in the first token of the family. *)
RefreshCommitFirst(c) ==
    LET t == job[c].token
    IN  /\ Doing(c, "refresh")
        /\ Issue(family[t])
        /\ revoked' = revoked \cup {t}
        /\ rotatedTo' = [rotatedTo EXCEPT ![family[t]] = Fresh]
        /\ stale' = [stale EXCEPT ![family[t]] = @ + (IF t \in revoked THEN 1 ELSE 0)]
        /\ Done(c)
        /\ UNCHANGED <<hashVars, mailed, reused, ended, chosen, revived, spent, contested>>

(* The successor is committed with the revocation of the old token, which   *)
(* is not read again.                                                       *)
RefreshCommit(c) ==
    LET t == job[c].token
    IN  /\ Doing(c, "refresh")
        /\ Issue(family[t])
        /\ revoked' = revoked \cup {t}
        /\ rotatedTo' = [rotatedTo EXCEPT ![t] = Fresh]
        /\ stale' = [stale EXCEPT ![family[t]] = @ + (IF t \in revoked THEN 1 ELSE 0)]
        /\ Done(c)
        /\ UNCHANGED <<hashVars, mailed, reused, ended, chosen, revived, spent, contested>>

(* Faulty variant: the token need not be in the table. *)
LogoutUnknown(c) ==
    /\ Doing(c, "idle")
    /\ \E t \in Tokens \ revoked :
          job' = [job EXCEPT ![c] = Reading("logout", t)]
    /\ UNCHANGED <<hashVars, mailed, tokenVars, ghostVars>>

(* logout: its token, if not revoked, is revoked. *)
Logout(c) ==
    /\ Doing(c, "idle")
    /\ \E t \in Issued \ revoked :
          job' = [job EXCEPT ![c] = Reading("logout", t)]
    /\ UNCHANGED <<hashVars, mailed, tokenVars, ghostVars>>

LogoutCommit(c) ==
    /\ Doing(c, "logout")
    /\ revoked' = revoked \cup {job[c].token}
    /\ Done(c)
    /\ UNCHANGED <<hashVars, mailed, family, rotatedTo, ghostVars>>

-----------------------------------------------------------------------------
(* request_password_reset mails a token bound to the current hash. *)
RequestReset ==
    /\ hash \notin mailed
    /\ mailed' = mailed \cup {hash}
    /\ UNCHANGED <<hashVars, tokenVars, job, ghostVars>>

(* Faulty variant: the token is not compared with the hash. *)
ResetUnbound(c) ==
    /\ Doing(c, "idle")
    /\ \E s \in mailed :
          job' = [job EXCEPT ![c] = Reading("scan", s)]
    /\ UNCHANGED <<hashVars, mailed, tokenVars, ghostVars>>

(* reset_password accepts a token that is bound to the hash it reads. *)
Reset(c) ==
    /\ Doing(c, "idle")
    /\ \E s \in mailed :
          /\ s = hash
          /\ job' = [job EXCEPT ![c] = Reading("scan", s)]
    /\ UNCHANGED <<hashVars, mailed, tokenVars, ghostVars>>

(* Faulty variant: only the newest of the active tokens is returned. *)
ResetScanOne(c) ==
    /\ Doing(c, "scan")
    /\ job' = [job EXCEPT ![c] = [@ EXCEPT !.op = "reset", !.seen = Issued,
                  !.active = {t \in Issued \ revoked : \A u \in Issued \ revoked : u <= t}]]
    /\ UNCHANGED <<hashVars, mailed, tokenVars, ghostVars>>

(* _active_tokens_for: the rows that are active and committed now. *)
ResetScan(c) ==
    /\ Doing(c, "scan")
    /\ job' = [job EXCEPT ![c] = [@ EXCEPT !.op = "reset", !.seen = Issued,
                                           !.active = Issued \ revoked]]
    /\ UNCHANGED <<hashVars, mailed, tokenVars, ghostVars>>

(* Faulty variant: the new hash is computed and not stored. *)
ResetCommitKeep(c) ==
    /\ Doing(c, "reset")
    /\ revoked' = revoked \cup job[c].active
    /\ ended' = ended \cup job[c].seen
    /\ \E pw \in Passwords : chosen' = pw
    /\ Done(c)
    /\ UNCHANGED <<hashVars, mailed, family, rotatedTo, stale, reused, revived, spent, contested>>

(* The new hash and the revocations are committed. *)
ResetCommit(c) ==
    LET s == job[c].token
        again == hash # job[c].hash
    IN  /\ Doing(c, "reset")
        /\ \E pw \in Passwords : NewHash(pw) /\ chosen' = pw
        /\ revoked' = revoked \cup job[c].active
        /\ ended' = ended \cup job[c].seen
        /\ spent' = [spent EXCEPT ![s] = @ + 1]
        /\ contested' = [contested EXCEPT ![s] = @ + (IF again THEN 1 ELSE 0)]
        /\ revived' = FALSE
        /\ Done(c)
        /\ UNCHANGED <<mailed, family, rotatedTo, stale, reused>>

-----------------------------------------------------------------------------
(* The request is cancelled, or its process dies, before its commit. *)
Abort(c) ==
    /\ ~Doing(c, "idle")
    /\ Done(c)
    /\ UNCHANGED <<hashVars, mailed, tokenVars, ghostVars>>

Step(c) ==
    \/ Login(c) \/ LoginCommit(c)
    \/ Refresh(c) \/ RefreshReused(c) \/ RefreshCommit(c)
    \/ Logout(c) \/ LogoutCommit(c)
    \/ Reset(c) \/ ResetScan(c) \/ ResetCommit(c)
    \/ Abort(c)

Next == RequestReset \/ \E c \in Clients : Step(c)

Spec == Init /\ [][Next]_vars

-----------------------------------------------------------------------------
Ops == {"idle", "login", "refresh", "logout", "scan", "reset"}
Jobs == [op : Ops, token : Tokens \cup Serials, hash : Serials,
         active : SUBSET Tokens, seen : SUBSET Tokens]

(* The types of all variables, and the order of their numbers: no hash is   *)
(* in use whose serial was not drawn, tokens are numbered without a gap.    *)
TypeOK ==
    /\ hash \in Serials /\ hashed \in Serials
    /\ password \in [Serials -> Passwords]
    /\ hash <= hashed
    /\ mailed \subseteq 0..hashed
    /\ family \in [Tokens -> 0..MaxTokens]
    /\ \A t \in Issued : 1..t \subseteq Issued
    /\ revoked \subseteq Issued
    /\ rotatedTo \in [Tokens -> 0..MaxTokens]
    /\ job \in [Clients -> Jobs]
    /\ stale \in [Tokens -> Nat]
    /\ reused \subseteq Tokens
    /\ ended \subseteq Issued
    /\ chosen \in Passwords
    /\ revived \in BOOLEAN
    /\ spent \in [Serials -> Nat]
    /\ contested \in [Serials -> Nat]

(* Rotation keeps one active token in a family.  More appear only when two  *)
(* rotations of the same token overlap, one for each that came second.      *)
OneActivePerFamily ==
    \A f \in Tokens : Cardinality(Active(f)) <= 1 + stale[f]

(* rotated_to records every rotation but those that a later one of the same *)
(* token has overwritten: the rest of a family's tokens can be traced back. *)
AuditTrail ==
    \A f \in Tokens :
        Cardinality({t \in Issued \ {f} : family[t] = f /\ \A u \in Tokens : rotatedTo[u] # t})
            <= stale[f]

(* A password reset ends the sessions it finds: whatever rotations, logouts *)
(* and other resets were in progress, none of their tokens is active again. *)
(* The sessions of requests that commit after the scan are not among them.  *)
ResetEndsSessions == ended \subseteq revoked

(* The password that logs in is the one set by the last reset, unless a     *)
(* login that began before it has put the old one back to upgrade its hash. *)
LastResetRules == password[hash] = chosen \/ revived

(* A reset token works once.  It works again only for resets that had       *)
(* accepted it before the first one committed.                              *)
ResetTokenOnce ==
    \A s \in Serials : spent[s] <= 1 + contested[s]

(* models/user.py: "If a *revoked* token is presented again (reuse), the    *)
(* whole family is revoked".                                                *)
FamilyRevoked ==
    \A f \in reused : Active(f) = {}
=============================================================================
