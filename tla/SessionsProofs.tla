--------------------------- MODULE SessionsProofs ---------------------------
(* What holds of Sessions for any number of requests in progress, of        *)
(* tokens, of hashes and of passwords.  The inductive invariant has three   *)
(* parts: the token table (numbers without a gap, families, rotated_to),    *)
(* the hashes (a new one has never been spent), and what a request in       *)
(* progress may rely on although others commit before it.                   *)
EXTENDS Sessions, FiniteSetTheorems, TLAPS

USE SessionsAssumption

(* Tokens are numbered in the order in which they are issued. *)
Gapless == \E n \in 0..MaxTokens : Issued = 1..n

(* A family is named after its first token. *)
FamilyOK == \A t \in Issued : family[t] \in Issued

(* rotated_to leads from a revoked token to one of the same family. *)
Traced ==
    \A t \in Tokens : rotatedTo[t] # 0 =>
        /\ t \in revoked /\ rotatedTo[t] \in Issued
        /\ family[rotatedTo[t]] = family[t]

(* The tokens of family f that no token leads to. *)
Untraced(f) == {t \in Issued \ {f} : family[t] = f /\ \A u \in Tokens : rotatedTo[u] # t}

TokenInv == Gapless /\ FamilyOK /\ Traced /\ OneActivePerFamily /\ AuditTrail

(* The hash in the table, and those not drawn yet, are not spent. *)
FreshHash ==
    \A s \in Serials : s = hash \/ s > hashed => spent[s] <= contested[s]

HashInv == LastResetRules /\ FreshHash /\ ResetTokenOnce

(* A request presents a token that was issued; a reset has its token from   *)
(* the hash it read, and what it saw in the table it has found active or    *)
(* revoked.                                                                 *)
JobOK(j) ==
    /\ j.op \in {"refresh", "logout"} => j.token \in Issued
    /\ j.op \in {"scan", "reset"} => j.token = j.hash /\ j.hash <= hashed
    /\ j.active \subseteq Issued /\ j.seen \subseteq Issued
    /\ j.op = "reset" => j.seen \subseteq j.active \cup revoked

JobsOK == \A c \in Clients : JobOK(job[c])

Inv == TypeOK /\ TokenInv /\ HashInv /\ JobsOK /\ ResetEndsSessions

-----------------------------------------------------------------------------
(* The tokens are finitely many. *)
LEMMA TokensFinite ==
    ASSUME NEW S \in SUBSET Tokens
    PROVE  IsFiniteSet(S) /\ Cardinality(S) \in Nat
<1>1. IsFiniteSet(Tokens)
  BY FS_Interval DEF Tokens
<1>2. IsFiniteSet(S)
  BY <1>1, FS_Subset
<1> QED BY <1>2, FS_CardinalityType

(* The number of the next token is the first that is not in use. *)
LEMMA FreshUnused ==
    ASSUME Gapless
    PROVE  /\ Fresh \in Nat \ {0} /\ Fresh \notin Issued
           /\ Issued = 1..(Fresh - 1)
<1>1. PICK n \in 0..MaxTokens : Issued = 1..n
  BY DEF Gapless
<1>2. Cardinality(1..n) = n
  BY <1>1, FS_Interval
<1>3. Fresh = n + 1
  BY <1>1, <1>2 DEF Fresh
<1> QED BY <1>1, <1>3

(* One more element is one more at most, and a subset has no more. *)
LEMMA CardGrow ==
    ASSUME NEW S \in SUBSET Tokens, NEW T \in SUBSET Tokens, NEW x
    PROVE  /\ S \subseteq T => Cardinality(S) <= Cardinality(T)
           /\ S \subseteq T \cup {x} => Cardinality(S) <= Cardinality(T) + 1
           /\ x \in T /\ S \subseteq T \ {x} => Cardinality(S) <= Cardinality(T) - 1
<1>1. IsFiniteSet(T) /\ Cardinality(T) \in Nat /\ IsFiniteSet(S) /\ Cardinality(S) \in Nat
  BY TokensFinite
<1>2. S \subseteq T => Cardinality(S) <= Cardinality(T)
  BY <1>1, FS_Subset
<1>3. ASSUME S \subseteq T \cup {x} PROVE Cardinality(S) <= Cardinality(T) + 1
  <2>1. IsFiniteSet(T \cup {x}) /\ Cardinality(T \cup {x}) <= Cardinality(T) + 1
    BY <1>1, FS_AddElement
  <2>2. Cardinality(S) <= Cardinality(T \cup {x}) /\ Cardinality(T \cup {x}) \in Nat
    BY <1>3, <2>1, FS_Subset, FS_CardinalityType
  <2> QED BY <1>1, <2>1, <2>2
<1>4. ASSUME x \in T, S \subseteq T \ {x} PROVE Cardinality(S) <= Cardinality(T) - 1
  <2>1. IsFiniteSet(T \ {x}) /\ Cardinality(T \ {x}) = Cardinality(T) - 1
    BY <1>1, <1>4, FS_RemoveElement
  <2>2. Cardinality(S) <= Cardinality(T \ {x})
    BY <1>4, <2>1, FS_Subset
  <2> QED BY <2>1, <2>2
<1> QED BY <1>2, <1>3, <1>4

(* AuditTrail in terms of Untraced. *)
LEMMA AuditTrailUntraced ==
    /\ AuditTrail <=> \A f \in Tokens : Cardinality(Untraced(f)) <= stale[f]
    /\ AuditTrail' <=> \A f \in Tokens : Cardinality(Untraced(f)') <= stale'[f]
  BY DEF AuditTrail, Untraced

(* Inv holds initially. *)
LEMMA InitInv == Init => Inv
<1> SUFFICES ASSUME Init PROVE Inv
  OBVIOUS
<1>0. Issued = {} /\ \A f \in Tokens : Active(f) = {} /\ Untraced(f) = {}
  BY DEF Init, Issued, Active, Untraced, Tokens
<1>1. TypeOK
  <2>1. hash \in Serials /\ hashed \in Serials /\ hash <= hashed
    BY DEF Init, Serials
  <2>2. password \in [Serials -> Passwords] /\ chosen \in Passwords
    BY <2>1 DEF Init
  <2>3. Idle \in Jobs
    BY DEF Idle, Jobs, Ops, Serials
  <2>4. job \in [Clients -> Jobs]
    BY <2>3 DEF Init
  <2>5. family \in [Tokens -> 0..MaxTokens] /\ rotatedTo \in [Tokens -> 0..MaxTokens]
    BY DEF Init
  <2> QED BY <1>0, <2>1, <2>2, <2>4, <2>5 DEF Init, TypeOK
<1>2. TokenInv
  <2>1. Cardinality({}) = 0
    BY FS_EmptySet
  <2>2. Gapless
    <3>1. Issued = 1..0 /\ 0 \in 0..MaxTokens
      BY <1>0
    <3> QED BY <3>1 DEF Gapless
  <2>3. FamilyOK /\ Traced
    BY <1>0 DEF Init, FamilyOK, Traced
  <2>4. OneActivePerFamily
    <3> SUFFICES ASSUME NEW f \in Tokens PROVE Cardinality(Active(f)) <= 1 + stale[f]
      BY DEF OneActivePerFamily
    <3>1. Cardinality(Active(f)) = 0 /\ stale[f] = 0
      BY <1>0, <2>1 DEF Init
    <3> QED BY <3>1
  <2>5. AuditTrail
    <3> SUFFICES ASSUME NEW f \in Tokens PROVE Cardinality(Untraced(f)) <= stale[f]
      BY AuditTrailUntraced
    <3>1. Cardinality(Untraced(f)) = 0 /\ stale[f] = 0
      BY <1>0, <2>1 DEF Init
    <3> QED BY <3>1
  <2> QED BY <2>2, <2>3, <2>4, <2>5 DEF TokenInv
<1>3. HashInv
  BY DEF Init, HashInv, LastResetRules, FreshHash, ResetTokenOnce
<1>4. JobsOK /\ ResetEndsSessions
  BY DEF Init, JobsOK, JobOK, Idle, ResetEndsSessions
<1> QED BY <1>1, <1>2, <1>3, <1>4 DEF Inv

-----------------------------------------------------------------------------
(* The three parts under the changes that commits make. *)

(* What a request relies on stays while tokens are only added and revoked.  *)
LEMMA JobStays ==
    ASSUME Inv, NEW c \in Clients, job' = [job EXCEPT ![c] = Idle],
           Issued \subseteq Issued', revoked \subseteq revoked',
           hashed' \in Serials, hashed <= hashed'
    PROVE  JobsOK' /\ job' \in [Clients -> Jobs]
<1>1. Idle \in Jobs
  BY DEF Idle, Jobs, Ops, Serials
<1>2. job' \in [Clients -> Jobs]
  BY <1>1 DEF Inv, TypeOK
<1>3. \A d \in Clients : d # c => job'[d] = job[d]
  BY DEF Inv, TypeOK
<1>4. job'[c] = Idle
  BY DEF Inv, TypeOK
<1>5. ASSUME NEW d \in Clients PROVE JobOK(job[d])'
  <2>1. CASE d = c
    BY <2>1, <1>4 DEF JobOK, Idle
  <2>2. CASE d # c
    <3>1. job'[d] = job[d] /\ JobOK(job[d])
      BY <2>2, <1>3 DEF Inv, JobsOK
    <3>2. job[d].hash <= hashed => job[d].hash <= hashed'
      BY DEF Inv, TypeOK, Jobs, Serials
    <3> QED BY <3>1, <3>2 DEF JobOK
  <2> QED BY <2>1, <2>2
<1> QED BY <1>2, <1>5 DEF JobsOK

(* Revocations and nothing else in the token table. *)
LEMMA TokensRevoked ==
    ASSUME Inv, UNCHANGED <<family, rotatedTo, stale>>, revoked \subseteq revoked',
           revoked' \subseteq Issued
    PROVE  TokenInv'
<1> USE DEF Inv, TokenInv
<1>1. Issued' = Issued
  BY DEF Issued
<1>2. Gapless' /\ FamilyOK' /\ Traced'
  BY <1>1 DEF Gapless, FamilyOK, Traced
<1>3. OneActivePerFamily'
  <2> SUFFICES ASSUME NEW f \in Tokens PROVE Cardinality(Active(f)') <= 1 + stale[f]
    BY DEF OneActivePerFamily
  <2>1. Active(f)' \subseteq Active(f) /\ Active(f) \in SUBSET Tokens /\ Active(f)' \in SUBSET Tokens
    BY DEF Active
  <2>2. Cardinality(Active(f)') <= Cardinality(Active(f))
    BY <2>1, CardGrow
  <2>3. Cardinality(Active(f)) <= 1 + stale[f] /\ stale[f] \in Nat
    BY DEF OneActivePerFamily, TypeOK
  <2>4. Cardinality(Active(f)) \in Nat /\ Cardinality(Active(f)') \in Nat
    BY <2>1, TokensFinite
  <2> QED BY <2>2, <2>3, <2>4
<1>4. AuditTrail'
  <2>1. \A f \in Tokens : Untraced(f)' = Untraced(f)
    BY <1>1 DEF Untraced
  <2> QED BY <2>1, AuditTrailUntraced
<1> QED BY <1>2, <1>3, <1>4 DEF TokenInv

(* No change of the token table. *)
LEMMA TokensKept ==
    ASSUME Inv, UNCHANGED <<family, rotatedTo, stale, revoked>>
    PROVE  TokenInv'
  BY TokensRevoked DEF Inv, TypeOK

(* A row is added; the rest of what is proved of it depends on its family.  *)
LEMMA IssueRow ==
    ASSUME Inv, NEW f \in Issued \cup {Fresh}, Issue(f)
    PROVE  /\ Fresh \in Tokens /\ Fresh \notin Issued
           /\ family' \in [Tokens -> 0..MaxTokens]
           /\ Issued' = Issued \cup {Fresh} /\ family'[Fresh] = f
           /\ \A t \in Tokens : t # Fresh => family'[t] = family[t]
           /\ Gapless' /\ FamilyOK'
           /\ \A t \in Issued' : 1..t \subseteq Issued'
<1>1. /\ Fresh \in Tokens /\ Fresh \in Nat \ {0} /\ Fresh \notin Issued
      /\ Issued = 1..(Fresh - 1)
  BY FreshUnused DEF Inv, TokenInv, Issue
<1>2. f \in Tokens /\ f \in 0..MaxTokens /\ Fresh <= MaxTokens
  BY <1>1 DEF Issued, Tokens
<1> DEFINE n == Fresh
<1> HIDE DEF n
<1>3. /\ n \in Tokens /\ n \in Nat \ {0} /\ Issued = 1..(n - 1)
      /\ family' = [family EXCEPT ![n] = f]
  BY <1>1 DEF n, Issue
<1>a. family \in [Tokens -> 0..MaxTokens]
  BY DEF Inv, TypeOK
<1>4. /\ family' \in [Tokens -> 0..MaxTokens] /\ family'[n] = f
      /\ \A t \in Tokens : t # n => family'[t] = family[t]
  BY <1>2, <1>3, <1>a
<1>5. Issued' = Issued \cup {n}
  BY <1>2, <1>3, <1>4 DEF Issued, Tokens
<1>6. Issued' = 1..n
  BY <1>3, <1>5
<1>7. Gapless' /\ \A t \in Issued' : 1..t \subseteq Issued'
  BY <1>3, <1>6 DEF Gapless, Tokens
<1>8. FamilyOK'
  BY <1>3, <1>4, <1>5 DEF n, FamilyOK, Issued, Inv, TokenInv
<1> QED
  BY <1>1, <1>4, <1>5, <1>7, <1>8 DEF n

(* A login starts a family of its own. *)
LEMMA IssueNewFamily ==
    ASSUME Inv, Issue(Fresh), UNCHANGED <<revoked, rotatedTo, stale>>
    PROVE  TokenInv'
<1> DEFINE n == Fresh
<1>1. /\ n \in Tokens /\ n \notin Issued /\ n # 0
      /\ Issued' = Issued \cup {n} /\ family'[n] = n
      /\ \A t \in Tokens : t # n => family'[t] = family[t]
      /\ Gapless' /\ FamilyOK'
  BY IssueRow DEF Tokens
<1> HIDE DEF n
<1>2. \A t \in Issued : family[t] # n /\ t # n /\ t \in Tokens
  BY <1>1 DEF Inv, TokenInv, FamilyOK, Issued
<1>3. \A t \in Tokens : family[t] # n
  BY <1>1, <1>2 DEF Issued
<1>4. Traced'
  <2> SUFFICES ASSUME NEW t \in Tokens, rotatedTo[t] # 0
               PROVE  /\ t \in revoked /\ rotatedTo[t] \in Issued'
                      /\ family'[rotatedTo[t]] = family'[t]
    BY DEF Traced
  <2>1. t \in revoked /\ t \in Issued /\ rotatedTo[t] \in Issued /\ family[rotatedTo[t]] = family[t]
    BY DEF Inv, TypeOK, TokenInv, Traced
  <2> QED BY <1>1, <1>2, <2>1
<1>5. OneActivePerFamily'
  <2> SUFFICES ASSUME NEW g \in Tokens PROVE Cardinality(Active(g)') <= 1 + stale[g]
    BY DEF OneActivePerFamily
  <2>1. stale[g] \in Nat /\ Cardinality(Active(g)) <= 1 + stale[g]
    BY DEF Inv, TypeOK, TokenInv, OneActivePerFamily
  <2>2. CASE g = n
    <3>1. Active(g)' \in SUBSET {n}
      BY <1>1, <1>3, <2>2 DEF Active
    <3>2. IsFiniteSet({n}) /\ Cardinality({n}) = 1
      BY FS_Singleton
    <3>3. Cardinality(Active(g)') <= 1 /\ Cardinality(Active(g)') \in Nat
      BY <3>1, <3>2, FS_Subset, FS_CardinalityType
    <3> QED BY <2>1, <3>3
  <2>3. CASE g # n
    <3>1. family[n] # g
      BY <1>1 DEF Issued, Tokens
    <3>2. Active(g)' = Active(g)
      BY <1>1, <2>3, <3>1 DEF Active
    <3> QED BY <2>1, <3>2
  <2> QED BY <2>2, <2>3
<1>6. AuditTrail'
  <2> SUFFICES ASSUME NEW g \in Tokens PROVE Cardinality(Untraced(g)') <= stale[g]
    BY AuditTrailUntraced
  <2>1. Untraced(g)' \subseteq Untraced(g)
    BY <1>1, <1>2 DEF Untraced
  <2>2. Untraced(g) \in SUBSET Tokens /\ Untraced(g)' \in SUBSET Tokens
    BY <1>1 DEF Untraced, Issued
  <2>3. Cardinality(Untraced(g)') <= Cardinality(Untraced(g))
    BY <2>1, <2>2, CardGrow
  <2>4. Cardinality(Untraced(g)') \in Nat /\ Cardinality(Untraced(g)) \in Nat
    BY <2>2, TokensFinite
  <2>5. Cardinality(Untraced(g)) <= stale[g] /\ stale[g] \in Nat
    BY AuditTrailUntraced DEF Inv, TypeOK, TokenInv
  <2> QED BY <2>3, <2>4, <2>5
<1> QED BY <1>1, <1>4, <1>5, <1>6 DEF TokenInv

(* A rotation: the successor is in the family of the token it replaces.     *)
LEMMA Rotation ==
    ASSUME Inv, NEW t \in Issued, Issue(family[t]),
           revoked' = revoked \cup {t}, rotatedTo' = [rotatedTo EXCEPT ![t] = Fresh],
           stale' = [stale EXCEPT ![family[t]] = @ + (IF t \in revoked THEN 1 ELSE 0)]
    PROVE  /\ TokenInv'
           /\ rotatedTo' \in [Tokens -> 0..MaxTokens]
           /\ stale' \in [Tokens -> Nat]
<1> DEFINE n == Fresh
           f == family[t]
<1>0. f \in Issued /\ f \in Tokens /\ t \in Tokens
  BY DEF Inv, TokenInv, FamilyOK, Issued
<1>1. /\ n \in Tokens /\ n \notin Issued /\ n # 0 /\ n \in 0..MaxTokens
      /\ Issued' = Issued \cup {n} /\ family'[n] = f
      /\ \A u \in Tokens : u # n => family'[u] = family[u]
      /\ Gapless' /\ FamilyOK'
  BY <1>0, IssueRow DEF Tokens
<1>2. rotatedTo \in [Tokens -> 0..MaxTokens] /\ stale \in [Tokens -> Nat] /\ revoked \subseteq Issued
  BY DEF Inv, TypeOK
<1>3. rotatedTo' = [rotatedTo EXCEPT ![t] = n]
  OBVIOUS
<1>4. stale' = [stale EXCEPT ![f] = @ + (IF t \in revoked THEN 1 ELSE 0)]
  OBVIOUS
<1>5. family[t] = f
  OBVIOUS
<1> HIDE DEF n, f
<1>6. rotatedTo' \in [Tokens -> 0..MaxTokens] /\ rotatedTo'[t] = n
      /\ \A u \in Tokens : u # t => rotatedTo'[u] = rotatedTo[u]
  BY <1>0, <1>1, <1>2, <1>3
<1>7. /\ stale' \in [Tokens -> Nat]
      /\ \A g \in Tokens : g # f => stale'[g] = stale[g]
      /\ t \in revoked => stale'[f] = stale[f] + 1
      /\ t \notin revoked => stale'[f] = stale[f]
  <2> DEFINE d == IF t \in revoked THEN 1 ELSE 0
  <2>1. stale' = [stale EXCEPT ![f] = stale[f] + d]
    BY <1>4
  <2>2. d \in Nat /\ stale[f] \in Nat /\ stale[f] + 0 = stale[f]
    BY <1>0, <1>2
  <2>3. (t \in revoked => d = 1) /\ (t \notin revoked => d = 0)
    OBVIOUS
  <2> HIDE DEF d
  <2>4. stale[f] + d \in Nat
    BY <2>2
  <2>5. /\ stale' \in [Tokens -> Nat] /\ stale'[f] = stale[f] + d
        /\ \A g \in Tokens : g # f => stale'[g] = stale[g]
    BY <1>0, <1>2, <2>1, <2>4
  <2> QED BY <2>2, <2>3, <2>5
<1>8. \A u \in Tokens : rotatedTo[u] # 0 =>
        /\ u \in revoked /\ rotatedTo[u] \in Issued
        /\ family[rotatedTo[u]] = family[u]
  BY DEF Inv, TokenInv, Traced
<1>9. \A u \in Issued : u # n /\ u # 0 /\ u \in Tokens
  BY <1>1 DEF Issued, Tokens
<1>10. Traced'
  <2> SUFFICES ASSUME NEW u \in Tokens, rotatedTo'[u] # 0
               PROVE  /\ u \in revoked' /\ rotatedTo'[u] \in Issued'
                      /\ family'[rotatedTo'[u]] = family'[u]
    BY DEF Traced
  <2>1. CASE u = t
    BY <2>1, <1>0, <1>1, <1>5, <1>6, <1>9
  <2>2. CASE u # t
    <3>1. rotatedTo'[u] = rotatedTo[u]
      BY <2>2, <1>6
    <3>2. u \in revoked /\ rotatedTo[u] \in Issued /\ family[rotatedTo[u]] = family[u]
      BY <3>1, <1>8
    <3> QED BY <3>1, <3>2, <1>1, <1>2, <1>9
  <2> QED BY <2>1, <2>2
<1>11. OneActivePerFamily'
  <2> SUFFICES ASSUME NEW g \in Tokens PROVE Cardinality(Active(g)') <= 1 + stale'[g]
    BY DEF OneActivePerFamily
  <2>0. Active(g) \in SUBSET Tokens /\ Active(g)' \in SUBSET Tokens
        /\ (Active(g) \ {t}) \in SUBSET Tokens
    BY DEF Active
  <2>1. /\ stale[g] \in Nat /\ Cardinality(Active(g)) <= 1 + stale[g]
        /\ Cardinality(Active(g)) \in Nat /\ Cardinality(Active(g)') \in Nat
        /\ Cardinality(Active(g) \ {t}) \in Nat
    BY <2>0, TokensFinite DEF Inv, TypeOK, TokenInv, OneActivePerFamily
  <2>2. CASE g # f
    <3>1. Active(g)' \subseteq Active(g)
      BY <2>2, <1>1, <1>9 DEF Active
    <3>2. Cardinality(Active(g)') <= Cardinality(Active(g))
      BY <2>0, <3>1, CardGrow
    <3> QED BY <2>1, <2>2, <3>2, <1>7
  <2>3. CASE g = f
    <3>1. Active(g)' \subseteq (Active(g) \ {t}) \cup {n}
      BY <2>3, <1>1, <1>9 DEF Active
    <3>2. CASE t \in revoked
      <4>1. Active(g)' \subseteq Active(g) \cup {n}
        BY <3>1
      <4>2. Cardinality(Active(g)') <= Cardinality(Active(g)) + 1
        BY <2>0, <4>1, CardGrow
      <4> QED BY <2>1, <2>3, <3>2, <4>2, <1>7
    <3>3. CASE t \notin revoked
      <4>1. t \in Active(g)
        BY <2>3, <3>3, <1>0, <1>5 DEF Active
      <4>2. Cardinality(Active(g) \ {t}) <= Cardinality(Active(g)) - 1
        BY <2>0, <4>1, CardGrow
      <4>3. Cardinality(Active(g)') <= Cardinality(Active(g) \ {t}) + 1
        BY <2>0, <3>1, CardGrow
      <4> QED BY <2>1, <2>3, <3>3, <4>2, <4>3, <1>7
    <3> QED BY <3>2, <3>3
  <2> QED BY <2>2, <2>3
<1>12. AuditTrail'
  <2> SUFFICES ASSUME NEW g \in Tokens PROVE Cardinality(Untraced(g)') <= stale'[g]
    BY AuditTrailUntraced
  <2>0. Untraced(g) \in SUBSET Tokens /\ Untraced(g)' \in SUBSET Tokens
    BY <1>1, <1>9 DEF Untraced
  <2>1. /\ stale[g] \in Nat /\ Cardinality(Untraced(g)) <= stale[g]
        /\ Cardinality(Untraced(g)) \in Nat /\ Cardinality(Untraced(g)') \in Nat
    BY <2>0, TokensFinite, AuditTrailUntraced DEF Inv, TypeOK, TokenInv
  <2>2. ASSUME NEW x \in Untraced(g)'
        PROVE  x \in Untraced(g) \/ (x = rotatedTo[t] /\ g = f /\ t \in revoked)
    <3>1. /\ x \in Issued' /\ x # g /\ family'[x] = g
          /\ \A u \in Tokens : rotatedTo'[u] # x
      BY <2>2 DEF Untraced
    <3>2. x # n
      BY <3>1, <1>0, <1>6
    <3>3. x \in Issued /\ x # 0 /\ family[x] = g
      BY <3>1, <3>2, <1>1, <1>9
    <3>4. CASE rotatedTo[t] = x
      BY <3>3, <3>4, <1>0, <1>5, <1>8
    <3>5. CASE rotatedTo[t] # x
      BY <3>1, <3>3, <3>5, <1>6 DEF Untraced
    <3> QED BY <3>4, <3>5
  <2>3. CASE g = f /\ t \in revoked
    <3>1. Untraced(g)' \subseteq Untraced(g) \cup {rotatedTo[t]}
      BY <2>2
    <3>2. Cardinality(Untraced(g)') <= Cardinality(Untraced(g)) + 1
      BY <2>0, <3>1, CardGrow
    <3> QED BY <2>1, <2>3, <3>2, <1>7
  <2>4. CASE ~(g = f /\ t \in revoked)
    <3>1. Untraced(g)' \subseteq Untraced(g)
      BY <2>2, <2>4
    <3>2. Cardinality(Untraced(g)') <= Cardinality(Untraced(g))
      BY <2>0, <3>1, CardGrow
    <3> QED BY <2>1, <2>4, <3>2, <1>7
  <2> QED BY <2>3, <2>4
<1> QED BY <1>1, <1>6, <1>7, <1>10, <1>11, <1>12 DEF TokenInv

(* A new hash has the next serial. *)
LEMMA HashDrawn ==
    ASSUME Inv, NEW pw \in Passwords, NewHash(pw)
    PROVE  /\ hashed' = hashed + 1 /\ hash' = hashed'
           /\ hash' \in Serials /\ hashed' \in Serials /\ hash' <= hashed' /\ hashed <= hashed'
           /\ password' \in [Serials -> Passwords] /\ password'[hash'] = pw
           /\ mailed \subseteq 0..hashed'
<1>1. /\ hashed \in Serials /\ hashed \in Nat /\ password \in [Serials -> Passwords]
      /\ mailed \subseteq 0..hashed
  BY DEF Inv, TypeOK, Serials
<1>2. hashed' = hashed + 1 /\ hash' = hashed' /\ hashed < MaxHashes
  BY DEF NewHash
<1>3. hash' \in Serials
  BY <1>1, <1>2 DEF Serials
<1>4. password' \in [Serials -> Passwords] /\ password'[hash'] = pw
  BY <1>1, <1>3 DEF NewHash
<1>5. mailed \subseteq 0..hashed'
  BY <1>1, <1>2
<1> QED BY <1>1, <1>2, <1>3, <1>4, <1>5

(* A hash upgraded at login. *)
LEMMA HashUpgraded ==
    ASSUME Inv, NEW h \in Serials, NewHash(password[h]), revived' = (revived \/ hash # h),
           UNCHANGED <<chosen, spent, contested>>
    PROVE  HashInv'
<1>1. /\ hashed \in Nat /\ revived \in BOOLEAN /\ password[h] \in Passwords
      /\ spent \in [Serials -> Nat] /\ contested \in [Serials -> Nat]
  BY DEF Inv, TypeOK, Serials
<1>2. hashed' = hashed + 1 /\ hash' = hashed' /\ password'[hash'] = password[h]
  BY <1>1, HashDrawn
<1>3. LastResetRules'
  BY <1>1, <1>2 DEF Inv, HashInv, LastResetRules
<1>4. FreshHash'
  <2> SUFFICES ASSUME NEW s \in Serials, s = hash' \/ s > hashed' PROVE spent[s] <= contested[s]
    BY DEF FreshHash
  <2>1. s > hashed
    BY <1>1, <1>2 DEF Serials
  <2> QED BY <2>1 DEF Inv, HashInv, FreshHash
<1>5. ResetTokenOnce'
  BY DEF Inv, HashInv, ResetTokenOnce
<1> QED BY <1>3, <1>4, <1>5 DEF HashInv

(* A hash set by a reset with the token of serial s. *)
LEMMA HashReset ==
    ASSUME Inv, NEW pw \in Passwords, NewHash(pw), chosen' = pw,
           NEW s \in Serials, s <= hashed,
           spent' = [spent EXCEPT ![s] = @ + 1],
           contested' = [contested EXCEPT ![s] = @ + (IF hash # s THEN 1 ELSE 0)]
    PROVE  /\ HashInv'
           /\ spent' \in [Serials -> Nat] /\ contested' \in [Serials -> Nat]
<1>1. hashed \in Nat /\ spent \in [Serials -> Nat] /\ contested \in [Serials -> Nat]
  BY DEF Inv, TypeOK, Serials
<1>2. hashed' = hashed + 1 /\ hash' = hashed' /\ password'[hash'] = pw
  BY HashDrawn
<1>3. /\ spent' \in [Serials -> Nat] /\ spent'[s] = spent[s] + 1
      /\ \A x \in Serials : x # s => spent'[x] = spent[x]
  BY <1>1
<1> DEFINE d == IF hash # s THEN 1 ELSE 0
<1>4. contested' = [contested EXCEPT ![s] = contested[s] + d]
  OBVIOUS
<1>5. contested[s] \in Nat /\ spent[s] \in Nat /\ d \in Nat
  BY <1>1
<1>6. (hash # s => d = 1) /\ (hash = s => d = 0)
  OBVIOUS
<1> HIDE DEF d
<1>7. contested[s] + d \in Nat
  BY <1>5
<1>8. /\ contested' \in [Serials -> Nat] /\ contested'[s] = contested[s] + d
      /\ \A x \in Serials : x # s => contested'[x] = contested[x]
  BY <1>1, <1>4, <1>7
<1>9. LastResetRules'
  BY <1>2 DEF LastResetRules
<1>10. FreshHash'
  <2> SUFFICES ASSUME NEW x \in Serials, x = hash' \/ x > hashed' PROVE spent'[x] <= contested'[x]
    BY DEF FreshHash
  <2>1. x > hashed /\ x # s
    BY <1>1, <1>2 DEF Serials
  <2>2. spent[x] <= contested[x]
    BY <2>1 DEF Inv, HashInv, FreshHash
  <2> QED BY <2>1, <2>2, <1>3, <1>8
<1>11. ResetTokenOnce'
  <2> SUFFICES ASSUME NEW x \in Serials PROVE spent'[x] <= 1 + contested'[x]
    BY DEF ResetTokenOnce
  <2>1. spent[x] <= 1 + contested[x]
    BY DEF Inv, HashInv, ResetTokenOnce
  <2>2. CASE x # s
    BY <2>1, <2>2, <1>3, <1>8
  <2>3. CASE x = s /\ hash # s
    BY <2>1, <2>3, <1>3, <1>5, <1>6, <1>8
  <2>4. CASE x = s /\ hash = s
    <3>1. spent[s] <= contested[s]
      BY <2>4 DEF Inv, HashInv, FreshHash
    <3> QED BY <2>4, <3>1, <1>3, <1>5, <1>6, <1>8
  <2> QED BY <2>2, <2>3, <2>4
<1> QED BY <1>3, <1>8, <1>9, <1>10, <1>11 DEF HashInv

(* No change of the hashes. *)
LEMMA HashKept ==
    ASSUME Inv, UNCHANGED <<hash, hashed, password, chosen, revived, spent, contested>>
    PROVE  HashInv'
  BY DEF Inv, HashInv, LastResetRules, FreshHash, ResetTokenOnce

(* A request that reads: only its own job changes. *)
LEMMA QuietJob ==
    ASSUME Inv, NEW c \in Clients, NEW j \in Jobs, JobOK(j),
           job' = [job EXCEPT ![c] = j],
           UNCHANGED <<hashVars, mailed, tokenVars, ghostVars>>
    PROVE  Inv'
<1> USE DEF hashVars, tokenVars, ghostVars
<1>1. job' \in [Clients -> Jobs] /\ job'[c] = j
      /\ \A d \in Clients : d # c => job'[d] = job[d]
  BY DEF Inv, TypeOK
<1>2. Issued' = Issued
  BY DEF Issued
<1>3. TypeOK'
  BY <1>1, <1>2 DEF Inv, TypeOK
<1>4. TokenInv' /\ HashInv'
  BY TokensKept, HashKept
<1>5. JobsOK'
  BY <1>1, <1>2 DEF Inv, JobsOK, JobOK
<1> QED BY <1>3, <1>4, <1>5 DEF Inv, ResetEndsSessions

-----------------------------------------------------------------------------
(* The actions, one by one. *)

(* What Reading makes of a request. *)
LEMMA ReadingOK ==
    ASSUME Inv, NEW op \in Ops, NEW t \in Tokens \cup Serials
    PROVE  /\ Reading(op, t) \in Jobs
           /\ Reading(op, t).op = op /\ Reading(op, t).token = t /\ Reading(op, t).hash = hash
           /\ Reading(op, t).active = {} /\ Reading(op, t).seen = {}
<1>1. hash \in Serials
  BY DEF Inv, TypeOK
<1>2. Idle \in Jobs /\ Idle.active = {} /\ Idle.seen = {}
  BY DEF Idle, Jobs, Ops, Serials
<1> QED BY <1>1, <1>2 DEF Reading, Jobs

(* Inv is preserved by a login that has read the hash. *)
LEMMA LoginInv ==
    ASSUME Inv, NEW c \in Clients, Login(c)
    PROVE  Inv'
<1> DEFINE j == Reading("login", 0)
<1>1. j \in Jobs /\ j.op = "login" /\ j.active = {} /\ j.seen = {}
  BY ReadingOK DEF Ops, Serials
<1>2. job' = [job EXCEPT ![c] = j] /\ UNCHANGED <<hashVars, mailed, tokenVars, ghostVars>>
  BY DEF Login
<1> HIDE DEF j
<1>3. JobOK(j)
  BY <1>1 DEF JobOK
<1> QED BY <1>1, <1>2, <1>3, QuietJob

(* Inv is preserved by a refresh or a logout that has read its token. *)
LEMMA PresentInv ==
    ASSUME Inv, NEW c \in Clients, Refresh(c) \/ Logout(c)
    PROVE  Inv'
<1>1. PICK op \in {"refresh", "logout"}, t \in Issued : job' = [job EXCEPT ![c] = Reading(op, t)]
  BY DEF Refresh, Logout
<1>2. UNCHANGED <<hashVars, mailed, tokenVars, ghostVars>>
  BY DEF Refresh, Logout
<1> DEFINE j == Reading(op, t)
<1>3. j \in Jobs /\ j.op = op /\ j.token = t /\ j.active = {} /\ j.seen = {}
  BY ReadingOK DEF Ops, Issued
<1>4. job' = [job EXCEPT ![c] = j]
  BY <1>1
<1> HIDE DEF j
<1>5. JobOK(j)
  BY <1>3 DEF JobOK
<1> QED BY <1>2, <1>3, <1>4, <1>5, QuietJob

(* Inv is preserved by a reset whose token matches the hash. *)
LEMMA ResetInv ==
    ASSUME Inv, NEW c \in Clients, Reset(c)
    PROVE  Inv'
<1>1. PICK s \in mailed : s = hash /\ job' = [job EXCEPT ![c] = Reading("scan", s)]
  BY DEF Reset
<1>2. UNCHANGED <<hashVars, mailed, tokenVars, ghostVars>>
  BY DEF Reset
<1>3. hash \in Serials /\ hash <= hashed
  BY DEF Inv, TypeOK
<1> DEFINE j == Reading("scan", s)
<1>4. j \in Jobs /\ j.op = "scan" /\ j.token = s /\ j.hash = s /\ j.active = {} /\ j.seen = {}
  BY <1>1, <1>3, ReadingOK DEF Ops
<1>5. job' = [job EXCEPT ![c] = j]
  BY <1>1
<1> HIDE DEF j
<1>6. JobOK(j)
  BY <1>1, <1>3, <1>4 DEF JobOK
<1> QED BY <1>2, <1>4, <1>5, <1>6, QuietJob

(* Inv is preserved by the query of a reset for the active tokens. *)
LEMMA ResetScanInv ==
    ASSUME Inv, NEW c \in Clients, ResetScan(c)
    PROVE  Inv'
<1> DEFINE j == [job[c] EXCEPT !.op = "reset", !.seen = Issued, !.active = Issued \ revoked]
<1>1. job[c] \in Jobs /\ JobOK(job[c]) /\ job[c].op = "scan"
  BY DEF Inv, TypeOK, JobsOK, ResetScan, Doing
<1>2. job' = [job EXCEPT ![c] = j] /\ UNCHANGED <<hashVars, mailed, tokenVars, ghostVars>>
  BY DEF ResetScan
<1>3. Issued \in SUBSET Tokens
  BY DEF Issued
<1>4. /\ j \in Jobs /\ j.op = "reset" /\ j.token = job[c].token /\ j.hash = job[c].hash
      /\ j.seen = Issued /\ j.active = Issued \ revoked
  BY <1>1, <1>3 DEF Jobs, Ops
<1> HIDE DEF j
<1>5. JobOK(j)
  BY <1>1, <1>4 DEF JobOK
<1> QED BY <1>2, <1>4, <1>5, QuietJob

(* Inv is preserved by the refusal of a revoked token. *)
LEMMA RefreshReusedInv ==
    ASSUME Inv, NEW c \in Clients, RefreshReused(c)
    PROVE  Inv'
<1> USE DEF hashVars, tokenVars
<1>1. PICK t \in Issued \cap revoked : reused' = reused \cup {family[t]}
  BY DEF RefreshReused
<1>2. /\ UNCHANGED <<hash, hashed, password, mailed, family, revoked, rotatedTo, job>>
      /\ UNCHANGED <<stale, ended, chosen, revived, spent, contested>>
  BY DEF RefreshReused
<1>3. Issued' = Issued
  BY <1>2 DEF Issued
<1>4. family[t] \in Tokens
  BY DEF Inv, TokenInv, FamilyOK, Issued
<1>5. TypeOK'
  BY <1>1, <1>2, <1>3, <1>4 DEF Inv, TypeOK
<1>6. TokenInv' /\ HashInv'
  BY <1>2, TokensKept, HashKept
<1>7. JobsOK' /\ ResetEndsSessions'
  BY <1>2, <1>3 DEF Inv, JobsOK, JobOK, ResetEndsSessions
<1> QED BY <1>5, <1>6, <1>7 DEF Inv

(* Inv is preserved by the mailing of a reset token. *)
LEMMA RequestResetInv ==
    ASSUME Inv, RequestReset
    PROVE  Inv'
<1> USE DEF hashVars, tokenVars, ghostVars
<1>2. /\ UNCHANGED <<hash, hashed, password, family, revoked, rotatedTo, job>>
      /\ UNCHANGED <<stale, reused, ended, chosen, revived, spent, contested>>
      /\ mailed' = mailed \cup {hash}
  BY DEF RequestReset
<1>3. Issued' = Issued
  BY <1>2 DEF Issued
<1>4. hash \in 0..hashed
  BY DEF Inv, TypeOK, Serials
<1>5. TypeOK'
  BY <1>2, <1>3, <1>4 DEF Inv, TypeOK
<1>6. TokenInv' /\ HashInv'
  BY <1>2, TokensKept, HashKept
<1>7. JobsOK' /\ ResetEndsSessions'
  BY <1>2, <1>3 DEF Inv, JobsOK, JobOK, ResetEndsSessions
<1> QED BY <1>5, <1>6, <1>7 DEF Inv

(* Inv is preserved by a request that is rolled back. *)
LEMMA AbortInv ==
    ASSUME Inv, NEW c \in Clients, Abort(c)
    PROVE  Inv'
<1>1. Idle \in Jobs /\ JobOK(Idle)
  BY DEF Idle, Jobs, Ops, Serials, JobOK
<1>2. job' = [job EXCEPT ![c] = Idle] /\ UNCHANGED <<hashVars, mailed, tokenVars, ghostVars>>
  BY DEF Abort, Done
<1> QED BY <1>1, <1>2, QuietJob

(* Inv is preserved by the commit of a logout. *)
LEMMA LogoutCommitInv ==
    ASSUME Inv, NEW c \in Clients, LogoutCommit(c)
    PROVE  Inv'
<1> USE DEF hashVars, ghostVars
<1>1. /\ UNCHANGED <<hash, hashed, password, mailed, family, rotatedTo>>
      /\ UNCHANGED <<stale, reused, ended, chosen, revived, spent, contested>>
      /\ revoked' = revoked \cup {job[c].token}
      /\ job' = [job EXCEPT ![c] = Idle]
  BY DEF LogoutCommit, Done
<1>2. job[c].token \in Issued
  BY DEF LogoutCommit, Doing, Inv, JobsOK, JobOK
<1>3. Issued' = Issued /\ revoked' \subseteq Issued /\ revoked \subseteq Issued
  BY <1>1, <1>2 DEF Issued, Inv, TypeOK
<1>4. TokenInv' /\ HashInv'
  BY <1>1, <1>3, TokensRevoked, HashKept
<1>5. hashed' \in Serials /\ hashed <= hashed'
  BY <1>1 DEF Inv, TypeOK, Serials
<1>6. JobsOK' /\ job' \in [Clients -> Jobs]
  BY <1>1, <1>3, <1>5, JobStays
<1>7. TypeOK'
  BY <1>1, <1>3, <1>6 DEF Inv, TypeOK
<1>8. ResetEndsSessions'
  BY <1>1 DEF Inv, ResetEndsSessions
<1> QED BY <1>4, <1>6, <1>7, <1>8 DEF Inv

(* Inv is preserved by the commit of a login, with or without a new hash. *)
LEMMA LoginCommitInv ==
    ASSUME Inv, NEW c \in Clients, LoginCommit(c)
    PROVE  Inv'
<1> DEFINE h == job[c].hash
<1>1. /\ UNCHANGED <<mailed, revoked, rotatedTo, stale, reused, ended, chosen, spent, contested>>
      /\ job' = [job EXCEPT ![c] = Idle] /\ Issue(Fresh)
  BY DEF LoginCommit, Done
<1>2. h \in Serials
  BY DEF Inv, TypeOK, Jobs
<1>3. \/ NewHash(password[h]) /\ revived' = (revived \/ hash # h)
      \/ UNCHANGED <<hash, hashed, password, revived>>
  BY DEF LoginCommit, hashVars
<1> HIDE DEF h
<1>4. /\ family' \in [Tokens -> 0..MaxTokens] /\ Issued \subseteq Issued'
      /\ \A t \in Issued' : 1..t \subseteq Issued'
  BY <1>1, IssueRow
<1>5. TokenInv'
  BY <1>1, IssueNewFamily
<1>6. /\ HashInv' /\ hash' \in Serials /\ hashed' \in Serials /\ hash' <= hashed' /\ hashed <= hashed'
      /\ password' \in [Serials -> Passwords] /\ mailed \subseteq 0..hashed' /\ revived' \in BOOLEAN
  <2>1. CASE NewHash(password[h]) /\ revived' = (revived \/ hash # h)
    <3>1. password[h] \in Passwords /\ revived \in BOOLEAN
      BY <1>2 DEF Inv, TypeOK
    <3>2. HashInv'
      BY <1>1, <1>2, <2>1, HashUpgraded
    <3> QED BY <2>1, <3>1, <3>2, HashDrawn
  <2>2. CASE UNCHANGED <<hash, hashed, password, revived>>
    <3>1. HashInv'
      BY <1>1, <2>2, HashKept
    <3> QED BY <2>2, <3>1 DEF Inv, TypeOK, Serials
  <2> QED BY <1>3, <2>1, <2>2
<1>7. JobsOK' /\ job' \in [Clients -> Jobs]
  BY <1>1, <1>4, <1>6, JobStays
<1>8. TypeOK'
  BY <1>1, <1>4, <1>6, <1>7 DEF Inv, TypeOK
<1>9. ResetEndsSessions'
  BY <1>1 DEF Inv, ResetEndsSessions
<1> QED BY <1>5, <1>6, <1>7, <1>8, <1>9 DEF Inv

(* Inv is preserved by the commit of a rotation. *)
LEMMA RefreshCommitInv ==
    ASSUME Inv, NEW c \in Clients, RefreshCommit(c)
    PROVE  Inv'
<1> USE DEF hashVars
<1>1. PICK t : t = job[c].token
  OBVIOUS
<1>2. /\ UNCHANGED <<hash, hashed, password, mailed, reused, ended, chosen, revived, spent, contested>>
      /\ job' = [job EXCEPT ![c] = Idle]
  BY DEF RefreshCommit, Done
<1>3. /\ Issue(family[t]) /\ revoked' = revoked \cup {t}
      /\ rotatedTo' = [rotatedTo EXCEPT ![t] = Fresh]
      /\ stale' = [stale EXCEPT ![family[t]] = @ + (IF t \in revoked THEN 1 ELSE 0)]
  BY <1>1 DEF RefreshCommit
<1>4. t \in Issued
  BY <1>1 DEF RefreshCommit, Doing, Inv, JobsOK, JobOK
<1>5. TokenInv' /\ rotatedTo' \in [Tokens -> 0..MaxTokens] /\ stale' \in [Tokens -> Nat]
  BY <1>3, <1>4, Rotation
<1>6. family[t] \in Issued
  BY <1>4 DEF Inv, TokenInv, FamilyOK
<1>7. /\ family' \in [Tokens -> 0..MaxTokens] /\ Issued \subseteq Issued'
      /\ \A x \in Issued' : 1..x \subseteq Issued'
  BY <1>3, <1>6, IssueRow
<1>8. HashInv'
  BY <1>2, HashKept
<1>9. hashed' \in Serials /\ hashed <= hashed'
  BY <1>2 DEF Inv, TypeOK, Serials
<1>10. JobsOK' /\ job' \in [Clients -> Jobs]
  BY <1>2, <1>3, <1>7, <1>9, JobStays
<1>11. revoked' \subseteq Issued' /\ ended' \subseteq Issued'
  BY <1>2, <1>3, <1>4, <1>7 DEF Inv, TypeOK
<1>12. TypeOK'
  BY <1>2, <1>5, <1>7, <1>10, <1>11 DEF Inv, TypeOK
<1>13. ResetEndsSessions'
  BY <1>2, <1>3 DEF Inv, ResetEndsSessions
<1> QED BY <1>5, <1>8, <1>10, <1>12, <1>13 DEF Inv

(* Inv is preserved by the commit of a reset. *)
LEMMA ResetCommitInv ==
    ASSUME Inv, NEW c \in Clients, ResetCommit(c)
    PROVE  Inv'
<1>1. PICK s : s = job[c].token
  OBVIOUS
<1>2. /\ UNCHANGED <<mailed, family, rotatedTo, stale, reused>>
      /\ job' = [job EXCEPT ![c] = Idle]
      /\ revoked' = revoked \cup job[c].active /\ ended' = ended \cup job[c].seen
      /\ revived' = FALSE
  BY DEF ResetCommit, Done
<1>3. job[c] \in Jobs /\ JobOK(job[c]) /\ job[c].op = "reset"
  BY DEF ResetCommit, Doing, Inv, TypeOK, JobsOK
<1>4. s = job[c].hash /\ s \in Serials /\ s <= hashed
  BY <1>1, <1>3 DEF JobOK, Jobs
<1>5. PICK pw \in Passwords : NewHash(pw) /\ chosen' = pw
  BY DEF ResetCommit
<1>6. /\ spent' = [spent EXCEPT ![s] = @ + 1]
      /\ contested' = [contested EXCEPT ![s] = @ + (IF hash # s THEN 1 ELSE 0)]
  BY <1>1, <1>4 DEF ResetCommit
<1>7. HashInv' /\ spent' \in [Serials -> Nat] /\ contested' \in [Serials -> Nat]
  BY <1>4, <1>5, <1>6, HashReset
<1>8. /\ hash' \in Serials /\ hashed' \in Serials /\ hash' <= hashed' /\ hashed <= hashed'
      /\ password' \in [Serials -> Passwords] /\ mailed \subseteq 0..hashed'
  BY <1>5, HashDrawn
<1>9. /\ Issued' = Issued /\ revoked' \subseteq Issued /\ revoked \subseteq revoked'
      /\ ended' \subseteq Issued
  BY <1>2, <1>3 DEF Issued, Inv, TypeOK, JobOK
<1>10. TokenInv'
  BY <1>2, <1>9, TokensRevoked
<1>11. JobsOK' /\ job' \in [Clients -> Jobs]
  BY <1>2, <1>8, <1>9, JobStays
<1>12. TypeOK'
  BY <1>2, <1>5, <1>7, <1>8, <1>9, <1>11 DEF Inv, TypeOK
<1>13. ResetEndsSessions'
  BY <1>2, <1>3 DEF Inv, ResetEndsSessions, JobOK
<1> QED BY <1>7, <1>10, <1>11, <1>12, <1>13 DEF Inv

(* Inv is preserved by every step. *)
LEMMA NextInv == Inv /\ [Next]_vars => Inv'
<1> SUFFICES ASSUME Inv, [Next]_vars PROVE Inv'
  OBVIOUS
<1>1. CASE RequestReset
  BY <1>1, RequestResetInv
<1>2. ASSUME NEW c \in Clients, Step(c) PROVE Inv'
  BY <1>2, LoginInv, LoginCommitInv, PresentInv, RefreshReusedInv, RefreshCommitInv,
     LogoutCommitInv, ResetInv, ResetScanInv, ResetCommitInv, AbortInv DEF Step
<1>3. CASE UNCHANGED vars
  <2>1. /\ UNCHANGED <<hash, hashed, password, mailed, family, revoked, rotatedTo, job>>
        /\ UNCHANGED <<stale, reused, ended, chosen, revived, spent, contested>>
    BY <1>3 DEF vars, hashVars, tokenVars, ghostVars
  <2>2. Issued' = Issued
    BY <2>1 DEF Issued
  <2>3. TypeOK'
    BY <2>1, <2>2 DEF Inv, TypeOK
  <2>4. TokenInv' /\ HashInv'
    BY <2>1, TokensKept, HashKept
  <2>5. JobsOK' /\ ResetEndsSessions'
    BY <2>1, <2>2 DEF Inv, JobsOK, JobOK, ResetEndsSessions
  <2> QED BY <2>3, <2>4, <2>5 DEF Inv
<1> QED BY <1>1, <1>2, <1>3 DEF Next

(* Inv holds in every reachable state. *)
LEMMA Invariance == Spec => []Inv
  BY InitInv, NextInv, PTL DEF Spec

-----------------------------------------------------------------------------
(* The tables of services/auth.py keep their types, and tokens are numbered *)
(* without a gap.                                                           *)
THEOREM SessionsTypes == Spec => []TypeOK
<1>1. Inv => TypeOK
  BY DEF Inv
<1> QED BY <1>1, Invariance, PTL

(* TokenService.rotate: a family has one active token and one more for each *)
(* rotation of a token that was revoked after the rotation had read it.     *)
THEOREM FamiliesBounded == Spec => []OneActivePerFamily
<1>1. Inv => OneActivePerFamily
  BY DEF Inv, TokenInv
<1> QED BY <1>1, Invariance, PTL

(* rotated_to: as many tokens have lost their predecessor as rotations came *)
(* second.                                                                  *)
THEOREM RotationsTraceable == Spec => []AuditTrail
<1>1. Inv => AuditTrail
  BY DEF Inv, TokenInv
<1> QED BY <1>1, Invariance, PTL

(* reset_password: no token that a committed reset saw is active again.     *)
THEOREM ResetsEndSessions == Spec => []ResetEndsSessions
<1>1. Inv => ResetEndsSessions
  BY DEF Inv
<1> QED BY <1>1, Invariance, PTL

(* The password of the last reset is the one in the table, unless a login   *)
(* has upgraded an older hash over it.                                      *)
THEOREM LastResetWins == Spec => []LastResetRules
<1>1. Inv => LastResetRules
  BY DEF Inv, HashInv
<1> QED BY <1>1, Invariance, PTL

(* The fingerprint in a reset token makes it work once, but for resets that *)
(* had accepted it before.                                                  *)
THEOREM ResetTokensWorkOnce == Spec => []ResetTokenOnce
<1>1. Inv => ResetTokenOnce
  BY DEF Inv, HashInv
<1> QED BY <1>1, Invariance, PTL
=============================================================================
