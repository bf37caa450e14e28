--------------------------- MODULE AccountsProofs ---------------------------
(***************************************************************************)
(* Theorems about accounts, for any number of users, passkeys, chains and  *)
(* blocks: who has registered can be reached, the index is the chain, and  *)
(* home chains change only with a reason.                                  *)
(*                                                                         *)
(* The argument, for the user-service: a revocation that holds its locks   *)
(* is the only one of its user and leaves another active credential, a     *)
(* name is given to somebody who has one, and an override remembers the    *)
(* home it will replace.  For the indexer: what it has fetched is in the   *)
(* table or still to be ingested, so that the cursor moves past nothing.   *)
(***************************************************************************)
EXTENDS Accounts, FiniteSetTheorems, WellFoundedInduction, TLAPS

(* A revocation between its locks and its commit. *)
Revocable(r) ==
    /\ credentials[r.passkey].user = r.user
    /\ \E q \in activeOf(r.user) : q # r.passkey

(* What an override has read is still the home chain, or was none. *)
Overridable(o) ==
    o.previous_chain # Null =>
        LET u == credentials[o.passkey].user
        IN  u # Null /\ users[u].home_chain = o.previous_chain

(* Users are numbered as they register; credentials and calls are of users that exist;
   at most one override is open. *)
UserTypes ==
    /\ requests \in 0..MaxRequests
    /\ users \in Seq(User) /\ Len(users) <= requests
    /\ credentials \in [Passkeys -> Credential]
    /\ \A p \in Passkeys : credentials[p].user <= Len(users)
    /\ creating \subseteq Request /\ revoking \subseteq Request
    /\ \A r \in creating : r.user <= Len(users)
    /\ overriding \subseteq Audit /\ (overriding = {} \/ \E o : overriding = {o})
    /\ audit \in Seq(Audit)

(* An open revoke() holds the row locks of its user: it can still commit, and it is
   the only one of that user. *)
Revocations ==
    /\ \A r \in revoking : Revocable(r)
    /\ \A r, s \in revoking : r.user = s.user => r = s

(* Whoever owns a credential owns an active one. *)
Reachable == \A u \in 1..Len(users) : ownedBy(u) # {} => activeOf(u) # {}

(* A username belongs to a user with an active credential, and whatever its casing to
   one user only. *)
Names ==
    /\ \A u \in 1..Len(users) : users[u].username # NoUsername => activeOf(u) # {}
    /\ \A u, v \in 1..Len(users) :
          users[v].username # NoUsername /\ same_username(users[u].username, users[v].username)
              => u = v

(* The inductive invariant of the user-service. *)
UserInv ==
    /\ UserTypes
    /\ Revocations
    /\ Reachable
    /\ Names
    /\ \A o \in overriding : Overridable(o)

-----------------------------------------------------------------------------
(* The users of a state, and what a step does to one of them. *)
LEMMA UserUpdate ==
  ASSUME NEW us \in Seq(User), NEW v \in 1..Len(us), NEW x \in User, NEW us2,
         us2 = [us EXCEPT ![v] = x]
  PROVE  /\ us2 \in Seq(User) /\ Len(us2) = Len(us)
         /\ \A u \in 1..Len(us) : us2[u] = IF u = v THEN x ELSE us[u]
OBVIOUS

(* What the updates of a users row change, and what they leave alone. *)
LEMMA UserFields ==
  /\ \A x \in User, c \in Chains :
        /\ [x EXCEPT !.home_chain = c] \in User
        /\ [x EXCEPT !.home_chain = c].username = x.username
        /\ [x EXCEPT !.home_chain = c].home_chain = c
  /\ \A x \in User, n \in Usernames :
        /\ [x EXCEPT !.username = n] \in User
        /\ [x EXCEPT !.username = n].username = n
        /\ [x EXCEPT !.username = n].home_chain = x.home_chain
  /\ [username |-> NoUsername, home_chain |-> Null] \in User
BY DEF User

(* Nothing happens to users and credentials. *)
LEMMA UserFrame ==
  ASSUME UserInv, UNCHANGED userVars, requests' \in requests..MaxRequests
  PROVE  UserInv'
<1>1. UNCHANGED <<users, credentials, creating, revoking, overriding, audit>>
  BY DEF userVars
<1>2. UserTypes'
  <2>1. requests' \in 0..MaxRequests /\ Len(users) <= requests'
    <3>1. requests \in Nat /\ MaxRequests \in Nat /\ Len(users) \in Nat /\ Len(users) <= requests
      BY AccountsAssumption DEF UserInv, UserTypes
    <3>2. QED
      BY <3>1
  <2>2. QED
    BY <1>1, <2>1 DEF UserInv, UserTypes
<1>3. Revocations' /\ Reachable' /\ Names'
  BY <1>1 DEF UserInv, Revocations, Revocable, Reachable, Names, ownedBy, activeOf, same_username
<1>4. \A o \in overriding' : Overridable(o)'
  BY <1>1 DEF UserInv, Overridable
<1>5. QED
  BY <1>2, <1>3, <1>4 DEF UserInv

(* The first insert of create_user(): a user nobody owns a credential for. *)
LEMMA CreateUser ==
  ASSUME UserInv, NEW p \in Passkeys, create_user(p), requests < MaxRequests, requests' = requests + 1
  PROVE  UserInv'
<1> DEFINE n == Len(users) + 1
           new == [username |-> NoUsername, home_chain |-> Null]
           request == [user |-> n, passkey |-> p]
<1>1. /\ users' = Append(users, new) /\ creating' = creating \cup {request}
      /\ UNCHANGED <<credentials, revoking, overriding, audit>>
  BY DEF create_user
<1>2. /\ users \in Seq(User) /\ Len(users) \in Nat /\ requests \in Nat /\ MaxRequests \in Nat
      /\ Len(users) <= requests /\ \A q \in Passkeys : credentials[q] \in Credential
  BY AccountsAssumption DEF UserInv, UserTypes
<1>3. new \in User /\ request \in Request /\ request.user = n
  BY <1>2, UserFields DEF Request, Users
<1> HIDE DEF new, request
<1>4. /\ users' \in Seq(User) /\ Len(users') = n /\ users'[n] = new
      /\ \A u \in 1..Len(users) : users'[u] = users[u]
  BY <1>1, <1>2, <1>3
<1>5. \A q \in Passkeys : credentials[q].user \in Nat /\ credentials[q].user <= Len(users)
  BY <1>2 DEF UserInv, UserTypes, Credential, Users, Null
<1>6. UserTypes'
  <2>1. requests' \in 0..MaxRequests /\ Len(users') <= requests'
    BY <1>2, <1>4
  <2>2. \A q \in Passkeys : credentials'[q].user <= Len(users')
    BY <1>1, <1>2, <1>4, <1>5
  <2>3. creating' \subseteq Request /\ \A r \in creating' : r.user <= Len(users')
    <3>1. \A r \in creating : r.user \in Int /\ r.user <= Len(users)
      BY AccountsAssumption DEF UserInv, UserTypes, Request, Users
    <3>2. creating \subseteq Request
      BY DEF UserInv, UserTypes
    <3>3. QED
      BY <1>1, <1>2, <1>3, <1>4, <3>1, <3>2
  <2>4. QED
    BY <1>1, <1>4, <2>1, <2>2, <2>3 DEF UserInv, UserTypes
<1>7. \A u : ownedBy(u)' = ownedBy(u) /\ activeOf(u)' = activeOf(u)
  BY <1>1 DEF ownedBy, activeOf
<1>8. Revocations'
  BY <1>1, <1>7 DEF UserInv, Revocations, Revocable
<1>9. ownedBy(n) = {}
  BY <1>2, <1>5 DEF ownedBy
<1>10. Reachable'
  BY <1>2, <1>4, <1>7, <1>9 DEF UserInv, Reachable
<1>11. users'[n].username = NoUsername
  BY <1>4 DEF new
<1>12. Names'
  <2>1. \A u \in 1..Len(users') : u # n => u \in 1..Len(users) /\ users'[u] = users[u]
    BY <1>2, <1>4
  <2>2. Names
    BY DEF UserInv
  <2>3. \A u \in 1..Len(users') : users'[u].username # NoUsername =>
           u \in 1..Len(users) /\ users'[u] = users[u]
    BY <1>11, <2>1
  <2>4. \A u \in 1..Len(users') : users'[u].username # NoUsername => activeOf(u)' # {}
    BY <1>7, <2>2, <2>3 DEF Names
  <2>5. ASSUME NEW u \in 1..Len(users'), NEW v \in 1..Len(users'),
               users'[v].username # NoUsername, same_username(users'[u].username, users'[v].username)
        PROVE  u = v
    <3>1. users'[u].username # NoUsername
      BY <2>5 DEF same_username
    <3>2. QED
      BY <2>2, <2>3, <2>5, <3>1 DEF Names
  <2>6. QED
    BY <2>4, <2>5 DEF Names, same_username
<1>13. \A o \in overriding' : Overridable(o)'
  <2>1. ASSUME NEW o \in overriding, o.previous_chain # Null
        PROVE  credentials[o.passkey].user \in 1..Len(users)
    BY <1>2, <1>5, <2>1 DEF UserInv, UserTypes, Overridable, Audit, Null
  <2>2. QED
    BY <1>1, <1>4, <2>1 DEF UserInv, Overridable
<1>14. QED
  BY <1>6, <1>8, <1>10, <1>12, <1>13 DEF UserInv

(* A new credential, of a registered user. *)
LEMMA InsertCredential ==
  ASSUME UserInv, NEW u \in 1..Len(users), NEW p \in Passkeys, insertable(p),
         credentials' = inserted(u, p), UNCHANGED <<users, revoking, overriding, audit>>,
         creating' \subseteq creating, requests' \in requests..MaxRequests
  PROVE  UserInv'
<1>1. /\ users \in Seq(User) /\ credentials \in [Passkeys -> Credential] /\ Len(users) \in Nat
      /\ requests \in Nat /\ MaxRequests \in Nat /\ Len(users) <= requests /\ requests <= MaxRequests
  BY AccountsAssumption DEF UserInv, UserTypes
<1> DEFINE row == [user |-> u, active |-> TRUE]
<1>2. row \in Credential /\ row.user = u /\ row.active
  <2>1. u \in Users
    BY <1>1 DEF Users
  <2>2. QED
    BY <2>1 DEF Credential
<1>3. credentials' = [credentials EXCEPT ![p] = row]
  BY DEF inserted
<1> HIDE DEF row
<1>4. /\ credentials' \in [Passkeys -> Credential] /\ credentials'[p] = row
      /\ \A q \in Passkeys : q # p => credentials'[q] = credentials[q]
  BY <1>1, <1>2, <1>3
<1>5. UserTypes'
  <2>1. \A q \in Passkeys : credentials'[q].user <= Len(users)
    BY <1>1, <1>2, <1>4 DEF UserInv, UserTypes
  <2>2. \A r \in creating' : r.user <= Len(users)
    BY DEF UserInv, UserTypes
  <2>3. requests' \in 0..MaxRequests /\ Len(users) <= requests'
    BY <1>1
  <2>4. QED
    BY <1>4, <2>1, <2>2, <2>3 DEF UserInv, UserTypes
<1>6. /\ \A v : v # Null => activeOf(v) \subseteq activeOf(v)'
      /\ \A v : v # u /\ v # Null => ownedBy(v)' = ownedBy(v)
      /\ p \in activeOf(u)'
  BY <1>2, <1>4 DEF activeOf, ownedBy, insertable
<1>7. Revocations'
  <2>1. ASSUME NEW r \in revoking PROVE Revocable(r)'
    <3>1. r.passkey \in Passkeys /\ r.user # Null
      BY <1>1 DEF UserInv, UserTypes, Request, Users, Null
    <3>2. r.passkey # p
      BY <3>1 DEF UserInv, Revocations, Revocable, insertable
    <3>3. QED
      BY <1>4, <1>6, <3>1, <3>2 DEF UserInv, Revocations, Revocable
  <2>2. QED
    BY <2>1 DEF UserInv, Revocations
<1>8. Reachable'
  BY <1>1, <1>6 DEF UserInv, Reachable, Null
<1>9. Names'
  <2>1. \A v \in 1..Len(users) : v # Null
    BY DEF Null
  <2>2. QED
    BY <1>6, <2>1 DEF UserInv, Names, same_username
<1>10. \A o \in overriding' : Overridable(o)'
  <2>1. ASSUME NEW o \in overriding, o.previous_chain # Null
        PROVE  o.passkey \in Passkeys /\ o.passkey # p
    BY <2>1 DEF UserInv, UserTypes, Overridable, Audit, insertable
  <2>2. QED
    BY <1>4, <2>1 DEF UserInv, Overridable
<1>11. QED
  BY <1>5, <1>7, <1>8, <1>9, <1>10 DEF UserInv

(* The credentials a state has, in the terms of the lemmas below. *)
LEMMA UserFacts ==
  ASSUME UserInv
  PROVE  /\ users \in Seq(User) /\ Len(users) \in Nat /\ DOMAIN users = 1..Len(users)
         /\ \A q \in Passkeys : credentials[q].user \in 0..Len(users)
BY AccountsAssumption DEF UserInv, UserTypes, Credential, Users, Null

(* The user whose home an override has read. *)
LEMMA OverrideOwner ==
  ASSUME UserInv, NEW o \in overriding, o.previous_chain # Null
  PROVE  /\ o.passkey \in Passkeys /\ credentials[o.passkey].user \in 1..Len(users)
         /\ users[credentials[o.passkey].user].home_chain = o.previous_chain
<1>1. o.passkey \in Passkeys
  BY DEF UserInv, UserTypes, Audit
<1>2. /\ credentials[o.passkey].user # Null
      /\ users[credentials[o.passkey].user].home_chain = o.previous_chain
  BY DEF UserInv, Overridable
<1>3. credentials[o.passkey].user \in 0..Len(users) /\ Len(users) \in Nat
  BY <1>1, UserFacts
<1>4. QED
  BY <1>1, <1>2, <1>3 DEF Null

(* A username, which nobody else has in any casing. *)
LEMMA SetUsername ==
  ASSUME UserInv, NEW u \in DOMAIN users, NEW name \in Usernames, set_username(u, name),
         requests' \in requests..MaxRequests
  PROVE  UserInv'
<1>1. users \in Seq(User) /\ Len(users) \in Nat /\ u \in 1..Len(users) /\ users[u] \in User
  BY UserFacts
<1> DEFINE x == [users[u] EXCEPT !.username = name]
<1>2. users' = [users EXCEPT ![u] = x] /\ UNCHANGED <<credentials, creating, revoking, overriding, audit>>
  BY DEF set_username
<1>3. x \in User /\ x.username = name /\ x.home_chain = users[u].home_chain
  BY <1>1, UserFields
<1> HIDE DEF x
<1>4. /\ users' \in Seq(User) /\ Len(users') = Len(users)
      /\ \A v \in 1..Len(users) : users'[v] = IF v = u THEN x ELSE users[v]
  BY <1>1, <1>2, <1>3, UserUpdate
<1>5. UserTypes'
  <2>1. requests' \in 0..MaxRequests /\ Len(users) <= requests'
    <3>1. requests \in Nat /\ MaxRequests \in Nat /\ Len(users) <= requests
      BY AccountsAssumption DEF UserInv, UserTypes
    <3>2. QED
      BY <1>1, <3>1
  <2>2. QED
    BY <1>2, <1>4, <2>1 DEF UserInv, UserTypes
<1>6. \A v : ownedBy(v)' = ownedBy(v) /\ activeOf(v)' = activeOf(v)
  BY <1>2 DEF ownedBy, activeOf
<1>7. Revocations' /\ Reachable'
  BY <1>2, <1>4, <1>6 DEF UserInv, Revocations, Revocable, Reachable
<1>8. Names'
  <2>1. activeOf(u) # {} /\ \A v \in 1..Len(users) : v # u => ~same_username(users[v].username, name)
    BY <1>1 DEF set_username
  <2>2. ASSUME NEW v \in 1..Len(users), NEW w \in 1..Len(users),
               users'[v].username # NoUsername, users'[w].username # NoUsername,
               LOWER(users'[v].username) = LOWER(users'[w].username)
        PROVE  v = w
    BY <1>3, <1>4, <2>1, <2>2 DEF UserInv, Names, same_username
  <2>3. QED
    BY <1>3, <1>4, <1>6, <2>1, <2>2 DEF UserInv, Names, same_username
<1>9. \A o \in overriding' : Overridable(o)'
  <2>1. \A v \in 1..Len(users) : users'[v].home_chain = users[v].home_chain
    BY <1>3, <1>4
  <2>2. ASSUME NEW o \in overriding, o.previous_chain # Null
        PROVE  credentials[o.passkey].user \in 1..Len(users)
    BY <2>2, OverrideOwner
  <2>3. QED
    BY <1>2, <2>1, <2>2 DEF UserInv, Overridable
<1>10. QED
  BY <1>5, <1>7, <1>8, <1>9 DEF UserInv

(* A home chain, of a registered user. *)
LEMMA SetHome ==
  ASSUME UserInv, NEW u \in 1..Len(users), NEW x \in User, x.username = users[u].username,
         users' = [users EXCEPT ![u] = x], UNCHANGED <<credentials, creating, revoking, requests>>,
         overriding' = {} \/ (overriding' = overriding /\ users[u].home_chain = Null),
         audit' \in Seq(Audit)
  PROVE  UserInv'
<1>1. users \in Seq(User) /\ Len(users) \in Nat /\ users[u] \in User
  BY UserFacts
<1>4. /\ users' \in Seq(User) /\ Len(users') = Len(users)
      /\ \A v \in 1..Len(users) : users'[v] = IF v = u THEN x ELSE users[v]
  BY <1>1, UserUpdate
<1>5. UserTypes'
  BY <1>4 DEF UserInv, UserTypes
<1>6. \A v : ownedBy(v)' = ownedBy(v) /\ activeOf(v)' = activeOf(v)
  BY DEF ownedBy, activeOf
<1>7. Revocations' /\ Reachable'
  BY <1>4, <1>6 DEF UserInv, Revocations, Revocable, Reachable
<1>8. Names'
  <2>1. \A v \in 1..Len(users) : users'[v].username = users[v].username
    BY <1>4
  <2>2. QED
    BY <1>4, <1>6, <2>1 DEF UserInv, Names, same_username
<1>9. \A o \in overriding' : Overridable(o)'
  <2>1. ASSUME NEW o \in overriding, overriding' = overriding, o.previous_chain # Null
        PROVE  /\ credentials[o.passkey].user \in 1..Len(users) /\ credentials[o.passkey].user # u
    BY <2>1, OverrideOwner
  <2>2. QED
    BY <1>4, <2>1 DEF UserInv, Overridable
<1>10. QED
  BY <1>5, <1>7, <1>8, <1>9 DEF UserInv

(* The locks of revoke(): there is no other revocation of this user, and another
   active credential. *)
LEMMA BeginRevoke ==
  ASSUME UserInv, NEW u \in DOMAIN users, NEW p \in Passkeys, begin_revoke(u, p),
         requests' \in requests..MaxRequests
  PROVE  UserInv'
<1> DEFINE r == [user |-> u, passkey |-> p]
<1>1. /\ revoking' = revoking \cup {r} /\ p \in activeOf(u) /\ Cardinality(activeOf(u)) # 1
      /\ ~locked(u) /\ UNCHANGED <<users, credentials, creating, overriding, audit>>
  BY DEF begin_revoke
<1>2. requests \in Nat /\ MaxRequests \in Nat /\ Len(users) <= requests /\ Len(users) \in Nat
      /\ requests <= MaxRequests /\ u \in 1..Len(users)
  BY UserFacts, AccountsAssumption DEF UserInv, UserTypes
<1>3. r \in Request /\ r.user = u /\ r.passkey = p
  BY <1>2 DEF Request, Users
<1> HIDE DEF r
<1>4. UserTypes'
  <2>1. requests' \in 0..MaxRequests /\ Len(users) <= requests'
    BY <1>2
  <2>2. revoking' \subseteq Request
    BY <1>1, <1>3 DEF UserInv, UserTypes
  <2>3. QED
    BY <1>1, <2>1, <2>2 DEF UserInv, UserTypes
<1>5. \A v : ownedBy(v)' = ownedBy(v) /\ activeOf(v)' = activeOf(v)
  BY <1>1 DEF ownedBy, activeOf
<1>6. \E q \in activeOf(u) : q # p
  <2>1. activeOf(u) # {p}
    BY <1>1, FS_Singleton
  <2>2. QED
    BY <1>1, <2>1
<1>7. credentials[p].user = u
  BY <1>1 DEF activeOf, ownedBy
<1>8. Revocations'
  <2>1. \A z \in revoking' : Revocable(z)'
    BY <1>1, <1>3, <1>5, <1>6, <1>7 DEF UserInv, Revocations, Revocable
  <2>2. \A z \in revoking : z.user # u
    BY <1>1 DEF locked
  <2>3. QED
    BY <1>1, <1>3, <2>1, <2>2 DEF UserInv, Revocations
<1>9. Reachable' /\ Names'
  BY <1>1, <1>5 DEF UserInv, Reachable, Names, same_username
<1>10. \A o \in overriding' : Overridable(o)'
  BY <1>1 DEF UserInv, Overridable
<1>11. QED
  BY <1>4, <1>8, <1>9, <1>10 DEF UserInv

(* The commit of revoke(): one credential of its user is active still. *)
LEMMA CommitRevoke ==
  ASSUME UserInv, NEW r \in revoking, commit_revoke(r), requests' = requests
  PROVE  UserInv'
<1> DEFINE p == r.passkey
           x == [credentials[p] EXCEPT !.active = FALSE]
<1>1. /\ revoking' = revoking \ {r} /\ credentials' = [credentials EXCEPT ![p] = x]
      /\ UNCHANGED <<users, creating, overriding, audit>>
  BY DEF commit_revoke
<1>2. p \in Passkeys /\ credentials \in [Passkeys -> Credential]
  BY DEF UserInv, UserTypes, Request
<1>3. x \in Credential /\ x.user = credentials[p].user /\ ~ x.active
  BY <1>2 DEF Credential
<1> HIDE DEF p, x
<1>4. /\ credentials' \in [Passkeys -> Credential] /\ credentials'[p] = x
      /\ \A q \in Passkeys : q # p => credentials'[q] = credentials[q]
  BY <1>1, <1>2, <1>3
<1>5. \A q \in Passkeys : credentials'[q].user = credentials[q].user
  BY <1>3, <1>4
<1>6. UserTypes'
  BY <1>1, <1>4, <1>5 DEF UserInv, UserTypes
<1>7. \A v : ownedBy(v)' = ownedBy(v) /\ activeOf(v)' = activeOf(v) \ {p}
  BY <1>3, <1>4, <1>5 DEF ownedBy, activeOf
<1>8. credentials[p].user = r.user /\ \E q \in activeOf(r.user) : q # p
  BY DEF UserInv, Revocations, Revocable, p
<1>9. \A v : v # r.user => activeOf(v)' = activeOf(v)
  BY <1>7, <1>8 DEF activeOf, ownedBy
<1>10. \A v : activeOf(v) # {} => activeOf(v)' # {}
  BY <1>7, <1>8, <1>9
<1>11. Revocations'
  <2>1. ASSUME NEW z \in revoking' PROVE Revocable(z)'
    <3>1. z \in revoking /\ z.user # r.user /\ z.passkey \in Passkeys
      BY <1>1 DEF UserInv, UserTypes, Request, Revocations
    <3>2. QED
      BY <1>5, <1>9, <3>1 DEF UserInv, Revocations, Revocable
  <2>2. QED
    BY <1>1, <2>1 DEF UserInv, Revocations
<1>12. Reachable' /\ Names'
  BY <1>1, <1>7, <1>10 DEF UserInv, Reachable, Names, same_username
<1>13. \A o \in overriding' : Overridable(o)'
  BY <1>1, <1>5 DEF UserInv, UserTypes, Audit, Overridable
<1>14. QED
  BY <1>6, <1>11, <1>12, <1>13 DEF UserInv

(* The SELECT of an override. *)
LEMMA BeginOverride ==
  ASSUME UserInv, NEW p \in Passkeys, NEW c \in Targets, begin_override(p, c),
         requests' \in requests..MaxRequests
  PROVE  UserInv'
<1> DEFINE prev == IF userOf(p) = Null THEN Null ELSE users[userOf(p)].home_chain
           o == [passkey |-> p, new_chain |-> c, previous_chain |-> prev]
<1>1. overriding' = {o} /\ UNCHANGED <<users, credentials, creating, revoking, audit>>
  BY DEF begin_override
<1>2. requests \in Nat /\ MaxRequests \in Nat /\ Len(users) <= requests /\ Len(users) \in Nat
      /\ users \in Seq(User) /\ credentials[p].user \in 0..Len(users)
  <2>1. requests \in Nat /\ MaxRequests \in Nat /\ Len(users) <= requests
    BY AccountsAssumption DEF UserInv, UserTypes
  <2>2. QED
    BY <2>1, UserFacts
<1>3. userOf(p) # Null => userOf(p) = credentials[p].user /\ credentials[p].user \in 1..Len(users)
  BY <1>2 DEF userOf, Null
<1>4. \A x \in User : x.home_chain \in Chains \cup {Null}
  BY DEF User
<1>5. prev \in Chains \cup {Null}
  BY <1>2, <1>3, <1>4
<1>6. prev # Null => credentials[p].user # Null /\ users[credentials[p].user].home_chain = prev
  BY <1>2, <1>3 DEF Null
<1> HIDE DEF prev
<1>7. o \in Audit /\ o.passkey = p /\ o.previous_chain = prev
  BY <1>5, AccountsAssumption DEF Audit
<1> HIDE DEF o
<1>8. UserTypes'
  <2>1. requests' \in 0..MaxRequests /\ Len(users) <= requests'
    BY <1>2
  <2>2. overriding' \subseteq Audit /\ \E z : overriding' = {z}
    BY <1>1, <1>7
  <2>3. QED
    BY <1>1, <2>1, <2>2 DEF UserInv, UserTypes
<1>9. Revocations' /\ Reachable' /\ Names'
  BY <1>1 DEF UserInv, Revocations, Revocable, Reachable, Names, ownedBy, activeOf, same_username
<1>10. \A z \in overriding' : Overridable(z)'
  BY <1>1, <1>6, <1>7 DEF Overridable
<1>11. QED
  BY <1>8, <1>9, <1>10 DEF UserInv

-----------------------------------------------------------------------------
(* The indexer. *)
Indexer == [pc : {"idle", "ingest", "push", "cursor"}, todo : SUBSET Chains, chain : Chains,
            to : Nat, logs : SUBSET Nat]

(* No answer of a chain or of the database was lost; the event of a block is in the
   table. *)
Healthy == {"rpc", "db"} \cap Range(disturbances) = {}
Stored(c, b) == [chain |-> c, block |-> b] \in Range(account_events)

(* The log that is ingested or pushed next. *)
IsFirst(b) == b \in indexer.logs /\ \A other \in indexer.logs : precedes(b, other)

(* Blocks, rows and cursors are in their types; rows are distinct and are about blocks
   that exist. *)
TableTypes ==
    /\ chain \in [Chains -> Seq(Events)] /\ \A c \in Chains : Len(chain[c]) <= requests
    /\ account_events \in Seq(EventRow) /\ IsInjective(account_events)
    /\ \A k \in 1..Len(account_events) :
          account_events[k].block <= Len(chain[account_events[k].chain])
    /\ index_cursors \in [Chains -> Nat] /\ \A c \in Chains : index_cursors[c] <= Len(chain[c]) + 1
    /\ requests \in 0..MaxRequests

(* The disturbances so far. *)
DisturbanceTypes == disturbances \in Seq(Disturbances) /\ Len(disturbances) <= MaxDisturbances

(* The indexer works inside the blocks that exist, and on a log only while it has one.
   *)
IndexerTypes ==
    /\ indexer \in Indexer
    /\ indexer.to <= Len(chain[indexer.chain]) /\ indexer.logs \subseteq 1..indexer.to
    /\ indexer.pc \in {"ingest", "push"} <=> indexer.logs # {}

(* Who is pushed has a deposit in the table. *)
PushIsDue ==
    indexer.pc = "push" => \A b : IsFirst(b) =>
        Stored(indexer.chain, b) /\ chain[indexer.chain][b].kind = "deposited"

(* What was fetched is to be ingested or in the table. *)
NothingSkipped ==
    Healthy /\ indexer.pc # "idle" =>
        \A b \in window(index_cursors[indexer.chain], indexer.to) :
            b \in indexer.logs \/ Stored(indexer.chain, b)

(* Behind the cursor nothing is missing. *)
Gapless ==
    Healthy => \A c \in Chains : \A b \in 1..Len(chain[c]) :
        b < index_cursors[c] /\ b + MAX_BLOCK_RANGE >= Len(chain[c]) => Stored(c, b)

(* The inductive invariant of the indexer. *)
IndexInv ==
    /\ TableTypes /\ DisturbanceTypes /\ IndexerTypes
    /\ PushIsDue /\ NothingSkipped /\ Gapless

(* Disturbances only accumulate. *)
LEMMA Disturb ==
  ASSUME DisturbanceTypes, Undisturbed \/ \E kind : Disturbance(kind)
  PROVE  /\ DisturbanceTypes' /\ (Healthy' => Healthy)
         /\ (\E kind \in {"rpc", "db"} : Disturbance(kind)) => ~Healthy'
<1>1. disturbances \in Seq(Disturbances) /\ Len(disturbances) \in Nat /\ MaxDisturbances \in Nat
  BY AccountsAssumption DEF DisturbanceTypes
<1>2. CASE Undisturbed /\ ~\E kind : Disturbance(kind)
  BY <1>2 DEF Undisturbed, DisturbanceTypes, Healthy
<1>3. ASSUME NEW kind, Disturbance(kind)
      PROVE  DisturbanceTypes' /\ (Healthy' => Healthy) /\ (kind \in {"rpc", "db"} => ~Healthy')
  <2>1. disturbances' = Append(disturbances, kind) /\ kind \in Disturbances
        /\ Len(disturbances) < MaxDisturbances
    BY <1>3 DEF Disturbance
  <2>2. DisturbanceTypes'
    BY <1>1, <2>1 DEF DisturbanceTypes
  <2>3. Range(disturbances') = Range(disturbances) \cup {kind}
    BY <1>1, <2>1 DEF Range
  <2>4. QED
    BY <2>2, <2>3 DEF Healthy
<1>4. QED
  BY <1>2, <1>3

(* Every nonempty set of blocks has a first one. *)
LEMMA LeastBlock ==
  ASSUME NEW T, T \subseteq Nat, T # {}
  PROVE  \E x \in T : \A y \in T : x <= y
<1>1. \E x \in T : \A y \in T : ~ (<<y, x>> \in OpToRel(<, Nat))
  BY NatLessThanWellFounded, WFMin, Zenon
<1>2. PICK x \in T : \A y \in T : ~ (<<y, x>> \in OpToRel(<, Nat))
  BY <1>1
<1>3. \A y \in T : ~ (y < x)
  BY <1>2, x \in Nat DEF OpToRel
<1>4. QED
  BY <1>3

(* The kinds of the logs at hand. *)
LEMMA LogKinds ==
  ASSUME TableTypes, NEW c \in Chains, NEW b \in 1..Len(chain[c])
  PROVE  chain[c][b].kind \in {"deposited", "other"} /\ chain[c][b].who \in Passkeys
<1>1. chain[c] \in Seq(Events)
  BY DEF TableTypes
<1>2. chain[c][b] \in Event
  BY <1>1, AccountsAssumption
<1>3. QED
  BY <1>2 DEF Event

(* currentLog is the first log, and the only first one. *)
LEMMA CurrentLog ==
  ASSUME TableTypes, IndexerTypes, indexer.logs # {}
  PROVE  /\ IsFirst(currentLog)
         /\ \A b : IsFirst(b) => b = currentLog
<1> DEFINE L == indexer.logs
           kind(b) == chain[indexer.chain][b].kind
           D == {b \in L : kind(b) = "deposited"}
<1>1. L \subseteq Nat /\ L \subseteq 1..Len(chain[indexer.chain]) /\ indexer.chain \in Chains
  BY DEF IndexerTypes, Indexer, TableTypes
<1>2. \A b \in L : kind(b) \in {"deposited", "other"}
  BY <1>1, LogKinds
<1>3. \A x, y \in L : precedes(x, y) <=>
        (kind(x) = "deposited" /\ kind(y) # "deposited") \/ (kind(x) = kind(y) /\ x <= y)
  BY DEF precedes
<1>4. \E b \in L : \A other \in L : precedes(b, other)
  <2>1. CASE D # {}
    <3>1. PICK x \in D : \A y \in D : x <= y
      BY <1>1, <2>1, LeastBlock
    <3>2. QED
      BY <1>1, <1>3, <3>1
  <2>2. CASE D = {}
    <3>1. PICK x \in L : \A y \in L : x <= y
      BY <1>1, LeastBlock
    <3>2. QED
      BY <1>2, <1>3, <2>2, <3>1
  <2>3. QED
    BY <2>1, <2>2
<1>5. IsFirst(currentLog)
  BY <1>4 DEF currentLog, IsFirst
<1>6. ASSUME NEW b, IsFirst(b) PROVE b = currentLog
  <2>1. b \in L /\ currentLog \in L /\ precedes(b, currentLog) /\ precedes(currentLog, b)
    BY <1>5, <1>6 DEF IsFirst
  <2>2. b \in Nat /\ currentLog \in Nat
    BY <1>1, <2>1
  <2>3. QED
    BY <1>3, <2>1, <2>2
<1>7. QED
  BY <1>5, <1>6

(* Nothing happens to the chains, the tables and the indexer. *)
LEMMA IndexFrame ==
  ASSUME IndexInv, UNCHANGED <<chain, indexVars>>, requests' \in requests..MaxRequests,
         Undisturbed \/ \E kind : Disturbance(kind)
  PROVE  IndexInv'
<1>1. UNCHANGED <<chain, account_events, index_cursors, indexer>>
  BY DEF indexVars
<1>2. DisturbanceTypes' /\ (Healthy' => Healthy)
  BY Disturb DEF IndexInv
<1>3. TableTypes'
  <2>1. requests' \in 0..MaxRequests /\ \A c \in Chains : Len(chain[c]) <= requests'
    <3>1. requests \in Nat /\ MaxRequests \in Nat
          /\ \A c \in Chains : Len(chain[c]) \in Nat /\ Len(chain[c]) <= requests
      BY AccountsAssumption DEF IndexInv, TableTypes
    <3>2. QED
      BY <3>1
  <2>2. QED
    BY <1>1, <2>1 DEF IndexInv, TableTypes, IsInjective
<1>4. IndexerTypes' /\ PushIsDue'
  BY <1>1 DEF IndexInv, IndexerTypes, PushIsDue, IsFirst, Stored, precedes, Range
<1>5. NothingSkipped' /\ Gapless'
  BY <1>1, <1>2 DEF IndexInv, NothingSkipped, Gapless, Stored, window, Range
<1>6. QED
  BY <1>2, <1>3, <1>4, <1>5 DEF IndexInv

(* A new block is ahead of every cursor. *)
LEMMA MineKeeps ==
  ASSUME IndexInv, NEW c \in Chains, NEW event \in Events, mine(c, event),
         requests < MaxRequests, requests' = requests + 1, UNCHANGED disturbances
  PROVE  IndexInv'
<1>1. /\ chain' = [chain EXCEPT ![c] = Append(@, event)]
      /\ UNCHANGED <<account_events, index_cursors, indexer>>
  BY DEF mine, indexVars
<1>2. /\ chain \in [Chains -> Seq(Events)] /\ requests \in Nat /\ MaxRequests \in Nat
      /\ \A d \in Chains : Len(chain[d]) \in Nat /\ Len(chain[d]) <= requests
      /\ account_events \in Seq(EventRow)
      /\ \A k \in 1..Len(account_events) :
            account_events[k].chain \in Chains /\ account_events[k].block \in Nat
      /\ index_cursors \in [Chains -> Nat] /\ MAX_BLOCK_RANGE \in Nat
  <2>1. \A x \in EventRow : x.chain \in Chains /\ x.block \in Nat
    BY DEF EventRow
  <2>2. account_events \in Seq(EventRow)
    BY DEF IndexInv, TableTypes
  <2>3. \A k \in 1..Len(account_events) : account_events[k] \in EventRow
    BY <2>2
  <2>4. QED
    BY <2>1, <2>2, <2>3, AccountsAssumption DEF IndexInv, TableTypes
<1>3. /\ chain' \in [Chains -> Seq(Events)]
      /\ \A d \in Chains : /\ Len(chain'[d]) \in Nat /\ Len(chain[d]) <= Len(chain'[d])
                           /\ Len(chain'[d]) <= Len(chain[d]) + 1
                           /\ \A b \in 1..Len(chain[d]) : chain'[d][b] = chain[d][b]
  BY <1>1, <1>2
<1>4. TableTypes'
  <2>1. requests' \in 0..MaxRequests /\ \A d \in Chains : Len(chain'[d]) <= requests'
    BY <1>2, <1>3
  <2>2. \A k \in 1..Len(account_events) :
          account_events[k].block <= Len(chain'[account_events[k].chain])
    BY <1>2, <1>3 DEF IndexInv, TableTypes
  <2>3. \A d \in Chains : index_cursors[d] <= Len(chain'[d]) + 1
    BY <1>2, <1>3 DEF IndexInv, TableTypes
  <2>4. QED
    BY <1>1, <1>3, <2>1, <2>2, <2>3 DEF IndexInv, TableTypes, IsInjective
<1>5. indexer \in Indexer /\ indexer.chain \in Chains /\ indexer.to \in Nat
      /\ indexer.to <= Len(chain[indexer.chain]) /\ indexer.logs \subseteq 1..indexer.to
  BY DEF IndexInv, IndexerTypes, Indexer
<1>6. IndexerTypes'
  BY <1>1, <1>2, <1>3, <1>5 DEF IndexInv, IndexerTypes
<1>7. \A b \in indexer.logs : chain'[indexer.chain][b] = chain[indexer.chain][b]
  <2>1. indexer.logs \subseteq 1..Len(chain[indexer.chain])
    BY <1>2, <1>5
  <2>2. QED
    BY <1>3, <1>5, <2>1
<1>8. \A b : IsFirst(b)' => IsFirst(b)
  <2>1. \A x, y \in indexer.logs : precedes(x, y)' <=> precedes(x, y)
    BY <1>1, <1>7 DEF precedes
  <2>2. QED
    BY <1>1, <2>1 DEF IsFirst
<1>9. PushIsDue'
  <2>1. ASSUME indexer.pc = "push", NEW b, IsFirst(b)'
        PROVE  Stored(indexer.chain, b) /\ chain'[indexer.chain][b].kind = "deposited"
    <3>1. IsFirst(b) /\ b \in indexer.logs
      BY <1>8, <2>1 DEF IsFirst
    <3>2. QED
      BY <1>7, <2>1, <3>1 DEF IndexInv, PushIsDue
  <2>2. QED
    <3>1. \A d, b : Stored(d, b)' = Stored(d, b)
      BY <1>1 DEF Stored, Range
    <3>2. QED
      BY <1>1, <2>1, <3>1 DEF PushIsDue
<1>10. Healthy' = Healthy /\ \A d, b : Stored(d, b)' = Stored(d, b)
  BY <1>1 DEF Healthy, Stored, Range
<1>11. NothingSkipped'
  BY <1>1, <1>10 DEF IndexInv, NothingSkipped, window
<1>12. Gapless'
  <2>1. ASSUME Healthy, NEW d \in Chains, NEW b \in 1..Len(chain'[d]), b < index_cursors[d],
               b + MAX_BLOCK_RANGE >= Len(chain'[d])
        PROVE  Stored(d, b)
    <3>1. index_cursors[d] \in Nat /\ index_cursors[d] <= Len(chain[d]) + 1
      BY DEF IndexInv, TableTypes
    <3>2. b \in 1..Len(chain[d]) /\ b + MAX_BLOCK_RANGE >= Len(chain[d])
      BY <1>2, <1>3, <2>1, <3>1
    <3>3. QED
      BY <2>1, <3>2 DEF IndexInv, Gapless
  <2>2. QED
    BY <1>1, <1>10, <2>1 DEF Gapless
<1>13. QED
  BY <1>4, <1>6, <1>9, <1>11, <1>12 DEF IndexInv, DisturbanceTypes

(* Rows are added once, and only for blocks that exist. *)
LEMMA UpsertRow ==
  ASSUME TableTypes, NEW c \in Chains, NEW b \in 1..Len(chain[c]),
         account_events' = upsert_event([chain |-> c, block |-> b]),
         UNCHANGED <<chain, index_cursors, requests>>
  PROVE  TableTypes' /\ Stored(c, b)' /\ \A d, k : Stored(d, k) => Stored(d, k)'
<1> DEFINE row == [chain |-> c, block |-> b]
           old == account_events
<1>1. /\ old \in Seq(EventRow) /\ Len(old) \in Nat /\ Len(chain[c]) \in Nat /\ MaxRequests \in Nat
      /\ Len(chain[c]) <= MaxRequests
  <2>1. requests \in 0..MaxRequests /\ Len(chain[c]) <= requests /\ Len(chain[c]) \in Nat
    BY DEF TableTypes
  <2>2. QED
    BY <2>1, AccountsAssumption DEF TableTypes
<1>2. row \in EventRow /\ row.chain = c /\ row.block = b
  BY <1>1 DEF EventRow
<1>3. Range(old) = {old[k] : k \in 1..Len(old)}
  BY <1>1 DEF Range
<1>4. CASE row \in Range(old)
  <2>1. account_events' = account_events
    BY <1>4 DEF upsert_event
  <2>2. QED
    BY <1>4, <2>1 DEF TableTypes, Stored, Range, IsInjective
<1>5. CASE row \notin Range(old)
  <2>1. account_events' = Append(old, row)
    BY <1>5 DEF upsert_event
  <2> HIDE DEF row
  <2>2. /\ account_events' \in Seq(EventRow) /\ Len(account_events') = Len(old) + 1
        /\ account_events'[Len(old) + 1] = row
        /\ \A k \in 1..Len(old) : account_events'[k] = old[k]
        /\ DOMAIN account_events' = 1..(Len(old) + 1)
    BY <1>1, <1>2, <2>1, SMTT(30)
  <2> HIDE DEF old
  <2>3. IsInjective(account_events')
    <3>1. \A j, k \in 1..Len(old) : old[j] = old[k] => j = k
      BY <1>1 DEF TableTypes, IsInjective, old
    <3>2. \A k \in 1..Len(old) : old[k] # row
      BY <1>3, <1>5
    <3>3. ASSUME NEW j \in 1..(Len(old) + 1), NEW k \in 1..(Len(old) + 1),
                 account_events'[j] = account_events'[k]
          PROVE  j = k
      <4>1. (j \in 1..Len(old) \/ j = Len(old) + 1) /\ (k \in 1..Len(old) \/ k = Len(old) + 1)
        BY <1>1
      <4>2. QED
        BY <2>2, <3>1, <3>2, <3>3, <4>1
    <3>4. QED
      BY <2>2, <3>3 DEF IsInjective
  <2>4. \A k \in 1..(Len(old) + 1) :
          account_events'[k].block <= Len(chain[account_events'[k].chain])
    <3>1. \A k \in 1..Len(old) : old[k].block <= Len(chain[old[k].chain])
      BY DEF TableTypes, old
    <3>2. \A k \in 1..(Len(old) + 1) : k \in 1..Len(old) \/ k = Len(old) + 1
      BY <1>1
    <3>3. row.block <= Len(chain[row.chain])
      BY <1>1, <1>2
    <3>4. QED
      BY <2>2, <3>1, <3>2, <3>3
  <2>5. TableTypes'
    BY <2>2, <2>3, <2>4 DEF TableTypes
  <2>6. Range(account_events') = Range(old) \cup {row}
    BY <1>1, <1>3, <2>2, SMTT(30) DEF Range
  <2>7. QED
    BY <2>5, <2>6 DEF Stored, row, old
<1>6. QED
  BY <1>4, <1>5

(* index_chain(): fetched logs are those of the window, or some of them. *)
LEMMA Fetched ==
  ASSUME IndexInv, NEW c \in Chains, NEW rest \in SUBSET Chains, NEW to \in 0..Len(chain[c]),
         NEW logs \in SUBSET (1..to),
         indexer' = [pc |-> IF logs = {} THEN "cursor" ELSE "ingest", todo |-> rest,
                     chain |-> c, to |-> to, logs |-> logs],
         UNCHANGED <<chain, account_events, index_cursors, requests>>,
         DisturbanceTypes', Healthy' => Healthy /\ window(index_cursors[c], to) \subseteq logs
  PROVE  IndexInv'
<1>1. Len(chain[c]) \in Nat /\ to \in Nat /\ to <= Len(chain[c])
  BY DEF IndexInv, TableTypes
<1>2. /\ indexer'.pc = (IF logs = {} THEN "cursor" ELSE "ingest") /\ indexer'.logs = logs
      /\ indexer'.to = to /\ indexer'.chain = c
  OBVIOUS
<1>3. indexer' \in Indexer
  BY <1>1 DEF Indexer
<1>4. IndexerTypes' /\ PushIsDue'
  <2>1. indexer'.to <= Len(chain'[indexer'.chain]) /\ indexer'.logs \subseteq 1..indexer'.to
    BY <1>1, <1>2
  <2>2. indexer'.pc \in {"ingest", "push"} <=> indexer'.logs # {}
    BY <1>2
  <2>3. indexer'.pc # "push"
    BY <1>2
  <2>4. QED
    BY <1>3, <2>1, <2>2, <2>3 DEF IndexerTypes, PushIsDue
<1>5. TableTypes'
  BY DEF IndexInv, TableTypes, IsInjective
<1>6. \A d, b : Stored(d, b)' = Stored(d, b)
  BY DEF Stored, Range
<1>7. NothingSkipped'
  BY <1>2 DEF NothingSkipped, window
<1>8. Gapless'
  BY <1>6 DEF IndexInv, Gapless
<1>9. QED
  BY <1>4, <1>5, <1>7, <1>8 DEF IndexInv

(* The indexer stops for now: the next chain, or a restart. *)
LEMMA Rests ==
  ASSUME IndexInv, NEW todo \in SUBSET Chains, indexer' = Idle(todo),
         UNCHANGED <<chain, account_events, requests>>,
         TableTypes', DisturbanceTypes', Gapless'
  PROVE  IndexInv'
<1>1. 1 \in Chains
  BY AccountsAssumption DEF Chains
<1>2. indexer'.pc = "idle" /\ indexer'.logs = {} /\ indexer'.to = 0 /\ indexer'.chain = 1
  BY DEF Idle
<1>3. indexer' \in Indexer
  BY <1>1 DEF Idle, Indexer
<1>4. Len(chain'[1]) \in Nat
  BY <1>1 DEF IndexInv, TableTypes
<1>5. IndexerTypes' /\ PushIsDue' /\ NothingSkipped'
  BY <1>2, <1>3, <1>4 DEF IndexerTypes, PushIsDue, NothingSkipped
<1>6. QED
  BY <1>5 DEF IndexInv

(* The next log, once the one at hand is in the table or was lost. *)
LEMMA NextLogKeeps ==
  ASSUME IndexInv, indexer.pc \in {"ingest", "push"}, indexer' = nextLog,
         UNCHANGED <<chain, index_cursors, requests>>,
         TableTypes', DisturbanceTypes', Healthy' => Healthy,
         \A d, k : Stored(d, k) => Stored(d, k)',
         NEW c, NEW l, c = indexer.chain, l = currentLog, Healthy' => Stored(c, l)'
  PROVE  IndexInv'
<1>1. indexer \in Indexer /\ indexer.logs # {}
  BY DEF IndexInv, IndexerTypes
<1>2. currentLog \in indexer.logs
  BY <1>1, CurrentLog DEF IndexInv, IsFirst
<1>3. /\ indexer'.logs = indexer.logs \ {currentLog} /\ indexer'.to = indexer.to
      /\ indexer'.chain = indexer.chain
      /\ indexer'.pc = (IF indexer.logs = {currentLog} THEN "cursor" ELSE "ingest")
      /\ indexer' \in Indexer
  BY <1>1 DEF nextLog, Indexer
<1>4. IndexerTypes' /\ PushIsDue'
  BY <1>2, <1>3 DEF IndexInv, IndexerTypes, PushIsDue
<1>5. NothingSkipped'
  <2>1. ASSUME Healthy', NEW b \in window(index_cursors[indexer.chain], indexer.to)
        PROVE  b \in indexer'.logs \/ Stored(indexer.chain, b)'
    <3>1. b \in indexer.logs \/ Stored(indexer.chain, b)
      BY <2>1 DEF IndexInv, NothingSkipped
    <3>2. QED
      BY <1>3, <2>1, <3>1
  <2>2. QED
    BY <1>3, <2>1 DEF NothingSkipped, window
<1>6. Gapless'
  BY DEF IndexInv, Gapless
<1>7. QED
  BY <1>4, <1>5, <1>6 DEF IndexInv

(* A step that leaves chains and tables alone. *)
LEMMA SameTables ==
  ASSUME TableTypes, UNCHANGED <<chain, account_events, index_cursors, requests>>
  PROVE  TableTypes' /\ \A d, b : Stored(d, b)' = Stored(d, b)
BY DEF TableTypes, IsInjective, Stored, Range

(* A scan fetches the whole window, unless a chain or the database does not answer. *)
LEMMA IndexChain ==
  ASSUME IndexInv, NEW c \in Chains, index_chain(c), UNCHANGED <<chain, requests>>
  PROVE  IndexInv'
<1> DEFINE head == Len(chain[c])
           round == IF indexer.todo = {} THEN Chains ELSE indexer.todo
           rest == round \ {c}
           of(kind, cursor, to) == {b \in window(cursor, to) : chain[c][b].kind = kind}
           all(cursor, to) == of("deposited", cursor, to) \cup of("other", cursor, to)
           fetched(to, logs) == [pc |-> IF logs = {} THEN "cursor" ELSE "ingest", todo |-> rest,
                                 chain |-> c, to |-> to, logs |-> logs]
<1>1. /\ \/ Undisturbed /\ indexer' = fetched(head, all(index_cursors[c], head))
         \/ /\ Disturbance("lag")
            /\ \E to \in 0..(head - 1) : indexer' = fetched(to, all(index_cursors[c], to))
         \/ Disturbance("db") /\ indexer' = fetched(head, all(Null, head))
         \/ Disturbance("rpc")
            /\ \/ indexer' = Idle(rest)
               \/ \E kind \in {"deposited", "other"} :
                     indexer' = fetched(head, of(kind, index_cursors[c], head))
      /\ UNCHANGED <<account_events, index_cursors>>
  BY DEF index_chain
<1>2. rest \in SUBSET Chains
  BY DEF IndexInv, IndexerTypes, Indexer
<1>h. head \in Nat
  BY DEF IndexInv, TableTypes
<1>3. \A cursor, to : window(cursor, to) \subseteq 1..to
  BY DEF window
<1>4. \A kind, cursor, to : of(kind, cursor, to) \in SUBSET (1..to)
  BY <1>3
<1>5. \A cursor, to : to \in 0..head =>
        all(cursor, to) \in SUBSET (1..to) /\ window(cursor, to) \subseteq all(cursor, to)
  <2> SUFFICES ASSUME NEW cursor, NEW to \in 0..head
               PROVE  all(cursor, to) \in SUBSET (1..to) /\ window(cursor, to) \subseteq all(cursor, to)
    OBVIOUS
  <2>1. window(cursor, to) \subseteq 1..head
    BY <1>h, <1>3
  <2>2. QED
    BY <1>4, <2>1, LogKinds DEF IndexInv
<1>6. TableTypes' /\ \A d, b : Stored(d, b)' = Stored(d, b)
  BY <1>1, SameTables DEF IndexInv
<1>7. /\ DisturbanceTypes' /\ (Healthy' => Healthy)
      /\ (Disturbance("rpc") \/ Disturbance("db")) => ~Healthy'
  BY <1>1, Disturb DEF IndexInv
<1>r. head \in 0..head /\ \A to \in 0..(head - 1) : to \in 0..head
  BY <1>h
<1> HIDE DEF head, rest, of, all
<1>8. ASSUME NEW to \in 0..head, NEW logs \in SUBSET (1..to), indexer' = fetched(to, logs),
             Healthy' => window(index_cursors[c], to) \subseteq logs
      PROVE  IndexInv'
  BY <1>1, <1>2, <1>7, <1>8, Fetched DEF head
<1>9. CASE Undisturbed /\ indexer' = fetched(head, all(index_cursors[c], head))
  BY <1>5, <1>8, <1>9, <1>r
<1>l. ASSUME NEW to \in 0..(head - 1), indexer' = fetched(to, all(index_cursors[c], to))
      PROVE  IndexInv'
  BY <1>5, <1>8, <1>l, <1>r
<1>10. CASE Disturbance("db") /\ indexer' = fetched(head, all(Null, head))
  BY <1>5, <1>7, <1>8, <1>10, <1>r
<1>11. ASSUME NEW kind, Disturbance("rpc"), indexer' = fetched(head, of(kind, index_cursors[c], head))
       PROVE  IndexInv'
  BY <1>4, <1>7, <1>8, <1>11, <1>r
<1>12. CASE Disturbance("rpc") /\ indexer' = Idle(rest)
  <2>1. Gapless'
    BY <1>7, <1>12 DEF Gapless
  <2>2. QED
    BY <1>1, <1>2, <1>6, <1>7, <1>12, <2>1, Rests
<1>13. QED
  BY <1>1, <1>9, <1>l, <1>10, <1>11, <1>12

(* The push of the log at hand, a deposit that is in the table now. *)
LEMMA GotoPush ==
  ASSUME IndexInv, indexer.pc = "ingest", indexer' = [indexer EXCEPT !.pc = "push"],
         UNCHANGED <<chain, index_cursors, requests>>,
         TableTypes', DisturbanceTypes', Healthy' => Healthy,
         \A d, k : Stored(d, k) => Stored(d, k)',
         NEW c, NEW l, c = indexer.chain, l = currentLog, Stored(c, l)',
         chain[c][l].kind = "deposited"
  PROVE  IndexInv'
<1>1. indexer \in Indexer /\ indexer.logs # {}
  BY DEF IndexInv, IndexerTypes
<1>2. /\ indexer'.logs = indexer.logs /\ indexer'.to = indexer.to /\ indexer'.chain = indexer.chain
      /\ indexer'.pc = "push" /\ indexer' \in Indexer
  BY <1>1 DEF Indexer
<1>3. IndexerTypes'
  BY <1>1, <1>2 DEF IndexInv, IndexerTypes
<1>4. \A b : IsFirst(b)' => b = l
  <2>1. \A b : IsFirst(b)' = IsFirst(b)
    BY <1>2 DEF IsFirst, precedes
  <2>2. QED
    BY <1>1, <2>1, CurrentLog DEF IndexInv
<1>5. PushIsDue'
  BY <1>2, <1>4 DEF PushIsDue
<1>6. NothingSkipped'
  BY <1>2 DEF IndexInv, NothingSkipped, window
<1>7. Gapless'
  BY DEF IndexInv, Gapless
<1>8. QED
  BY <1>3, <1>5, <1>6, <1>7 DEF IndexInv

(* ingest_row(): the row is in the table afterwards, unless the database fails. *)
LEMMA IngestRow ==
  ASSUME IndexInv, ingest_row, UNCHANGED <<chain, requests>>
  PROVE  IndexInv'
<1> DEFINE c == indexer.chain
           l == currentLog
           row == [chain |-> c, block |-> l]
<1>1. /\ indexer.pc = "ingest" /\ UNCHANGED index_cursors
      /\ \/ /\ Undisturbed \/ Disturbance("db")
            /\ account_events' = upsert_event(row)
            /\ \/ indexer' = nextLog
               \/ chain[c][l].kind = "deposited" /\ indexer' = [indexer EXCEPT !.pc = "push"]
         \/ Disturbance("db") /\ UNCHANGED account_events /\ indexer' = nextLog
  BY DEF ingest_row, rowOf, eventOf, should_push_home_chain
<1>2. c \in Chains /\ l \in 1..Len(chain[c])
  <2>1. /\ indexer \in Indexer /\ indexer.logs # {} /\ indexer.to <= Len(chain[c])
        /\ indexer.logs \subseteq 1..indexer.to
    BY <1>1 DEF IndexInv, IndexerTypes
  <2>2. l \in indexer.logs
    BY <2>1, CurrentLog DEF IndexInv, IsFirst
  <2>3. c \in Chains /\ indexer.to \in Nat
    BY <2>1 DEF Indexer
  <2>4. Len(chain[c]) \in Nat
    BY <2>3 DEF IndexInv, TableTypes
  <2>5. QED
    BY <2>1, <2>2, <2>3, <2>4
<1>3. DisturbanceTypes' /\ (Healthy' => Healthy) /\ (Disturbance("db") => ~Healthy')
  BY <1>1, Disturb DEF IndexInv
<1>4. PICK d, k : d = c /\ k = l
  OBVIOUS
<1> HIDE DEF c, l
<1>5. CASE account_events' = upsert_event(row)
  <2>1. TableTypes' /\ Stored(d, k)' /\ \A e, b : Stored(e, b) => Stored(e, b)'
    BY <1>1, <1>2, <1>4, <1>5, UpsertRow DEF IndexInv
  <2>2. CASE indexer' = nextLog
    BY <1>1, <1>3, <1>4, <2>1, <2>2, NextLogKeeps DEF c, l
  <2>3. CASE chain[c][l].kind = "deposited" /\ indexer' = [indexer EXCEPT !.pc = "push"]
    BY <1>1, <1>3, <1>4, <2>1, <2>3, GotoPush DEF c, l
  <2>4. QED
    BY <1>1, <2>2, <2>3, <1>5
<1>6. CASE Disturbance("db") /\ UNCHANGED account_events /\ indexer' = nextLog
  <2>1. TableTypes' /\ \A e, b : Stored(e, b)' = Stored(e, b)
    BY <1>1, <1>6, SameTables DEF IndexInv
  <2>2. QED
    BY <1>1, <1>3, <1>4, <1>6, <2>1, NextLogKeeps DEF c, l
<1>7. QED
  BY <1>1, <1>5, <1>6

(* push_home_chain() changes users only: the row is in the table. *)
LEMMA PushHome ==
  ASSUME IndexInv, push_home_chain, UNCHANGED <<chain, requests>>
  PROVE  IndexInv'
<1>1. /\ indexer.pc = "push" /\ indexer' = nextLog /\ UNCHANGED <<account_events, index_cursors>>
      /\ Undisturbed \/ Disturbance("unreachable")
  BY DEF push_home_chain
<1>2. DisturbanceTypes' /\ (Healthy' => Healthy)
  BY <1>1, Disturb DEF IndexInv
<1>3. TableTypes' /\ \A d, b : Stored(d, b)' = Stored(d, b)
  BY <1>1, SameTables DEF IndexInv
<1>4. PICK c, l : c = indexer.chain /\ l = currentLog
  OBVIOUS
<1>5. Stored(c, l)
  <2>1. indexer.logs # {}
    BY <1>1 DEF IndexInv, IndexerTypes
  <2>2. QED
    BY <1>1, <1>4, <2>1, CurrentLog DEF IndexInv, PushIsDue
<1>6. QED
  BY <1>1, <1>2, <1>3, <1>4, <1>5, NextLogKeeps

(* The cursor moves past what is in the table. *)
LEMMA SetCursor ==
  ASSUME IndexInv, set_cursor, UNCHANGED <<chain, requests>>
  PROVE  IndexInv'
<1>1. /\ indexer.pc = "cursor" /\ indexer' = Idle(indexer.todo) /\ UNCHANGED account_events
      /\ \/ Undisturbed /\ index_cursors' = [index_cursors EXCEPT ![indexer.chain] = indexer.to + 1]
         \/ Disturbance("db") /\ UNCHANGED index_cursors
  BY DEF set_cursor
<1>2. DisturbanceTypes' /\ (Healthy' => Healthy) /\ (Disturbance("db") => ~Healthy')
  BY <1>1, Disturb DEF IndexInv
<1>3. /\ indexer.todo \in SUBSET Chains /\ indexer.chain \in Chains /\ indexer.to \in Nat
      /\ indexer.to <= Len(chain[indexer.chain]) /\ indexer.logs = {}
  BY <1>1 DEF IndexInv, IndexerTypes, Indexer
<1>4. \A d, b : Stored(d, b)' = Stored(d, b)
  BY <1>1 DEF Stored, Range
<1>5. CASE Undisturbed /\ index_cursors' = [index_cursors EXCEPT ![indexer.chain] = indexer.to + 1]
  <2> DEFINE c == indexer.chain
             to == indexer.to
  <2>1. /\ index_cursors \in [Chains -> Nat] /\ Len(chain[c]) \in Nat /\ MAX_BLOCK_RANGE \in Nat
        /\ index_cursors[c] \in Nat
    BY <1>3, AccountsAssumption DEF IndexInv, TableTypes
  <2>2. /\ index_cursors' \in [Chains -> Nat] /\ index_cursors'[c] = to + 1
        /\ \A d \in Chains : d # c => index_cursors'[d] = index_cursors[d]
    BY <1>3, <1>5, <2>1
  <2>3. TableTypes'
    <3>1. \A d \in Chains : index_cursors'[d] <= Len(chain[d]) + 1
      <4>1. \A d \in Chains : index_cursors[d] <= Len(chain[d]) + 1
        BY DEF IndexInv, TableTypes
      <4>2. to + 1 <= Len(chain[c]) + 1
        BY <1>3, <2>1
      <4>3. QED
        BY <2>2, <4>1, <4>2
    <3>2. QED
      BY <1>1, <2>2, <3>1 DEF IndexInv, TableTypes, IsInjective
  <2>4. ASSUME Healthy, NEW b \in 1..Len(chain[c]), b < to + 1, b + MAX_BLOCK_RANGE >= Len(chain[c])
        PROVE  Stored(c, b)
    <3>1. CASE b < index_cursors[c]
      BY <1>3, <2>4, <3>1 DEF IndexInv, Gapless
    <3>2. CASE ~ (b < index_cursors[c])
      <4>1. b \in 1..to /\ b >= index_cursors[c] /\ b >= to - MAX_BLOCK_RANGE
        BY <1>3, <2>1, <2>4, <3>2
      <4>2. b \in window(index_cursors[c], to)
        BY <1>3, <2>1, <4>1 DEF window
      <4>3. QED
        BY <1>1, <1>3, <2>4, <4>2 DEF IndexInv, NothingSkipped
    <3>3. QED
      BY <3>1, <3>2
  <2>5. Gapless'
    <3>1. ASSUME Healthy, NEW d \in Chains, NEW b \in 1..Len(chain[d]), b < index_cursors'[d],
                 b + MAX_BLOCK_RANGE >= Len(chain[d])
          PROVE  Stored(d, b)
      <4>1. CASE d = c
        BY <2>2, <2>4, <3>1, <4>1
      <4>2. CASE d # c
        BY <2>2, <3>1, <4>2 DEF IndexInv, Gapless
      <4>3. QED
        BY <4>1, <4>2
    <3>2. QED
      BY <1>2, <1>4, <3>1 DEF Gapless
  <2>6. QED
    BY <1>1, <1>2, <1>3, <2>3, <2>5, Rests
<1>6. CASE Disturbance("db") /\ UNCHANGED index_cursors
  <2>1. TableTypes' /\ Gapless'
    BY <1>1, <1>2, <1>6, SameTables DEF IndexInv, Gapless
  <2>2. QED
    BY <1>1, <1>2, <1>3, <2>1, Rests
<1>7. QED
  BY <1>1, <1>5, <1>6

(* A restart forgets the locals: what they promised is promised by the tables. *)
LEMMA RestartKeeps ==
  ASSUME IndexInv, restart, UNCHANGED <<chain, requests>>
  PROVE  IndexInv'
<1>1. Disturbance("restart") /\ indexer' = Idle({}) /\ UNCHANGED <<account_events, index_cursors>>
  BY DEF restart
<1>2. DisturbanceTypes' /\ (Healthy' => Healthy)
  BY <1>1, Disturb DEF IndexInv
<1>3. TableTypes' /\ \A d, b : Stored(d, b)' = Stored(d, b)
  BY <1>1, SameTables DEF IndexInv
<1>4. Gapless'
  BY <1>1, <1>2, <1>3 DEF IndexInv, Gapless
<1>5. QED
  BY <1>1, <1>2, <1>3, <1>4, Rests

-----------------------------------------------------------------------------
(* Who is pushed has made a deposit that is in the table. *)
LEMMA PushedIsDeposit ==
  ASSUME IndexInv, indexer.pc = "push"
  PROVE  /\ indexer.chain \in Chains /\ currentLog \in 1..Len(chain[indexer.chain])
         /\ chain[indexer.chain][currentLog].kind = "deposited"
         /\ chain[indexer.chain][currentLog].who \in Passkeys
         /\ Stored(indexer.chain, currentLog)
<1>1. /\ indexer \in Indexer /\ indexer.logs # {} /\ indexer.to <= Len(chain[indexer.chain])
      /\ indexer.logs \subseteq 1..indexer.to
  BY DEF IndexInv, IndexerTypes
<1>2. indexer.chain \in Chains /\ indexer.to \in Nat
  BY <1>1 DEF Indexer
<1>3. IsFirst(currentLog) /\ currentLog \in indexer.logs
  BY <1>1, CurrentLog DEF IndexInv, IsFirst
<1>4. Len(chain[indexer.chain]) \in Nat
  BY <1>2 DEF IndexInv, TableTypes
<1>5. currentLog \in 1..Len(chain[indexer.chain])
  BY <1>1, <1>2, <1>3, <1>4
<1>6. QED
  BY <1>2, <1>3, <1>5, LogKinds DEF IndexInv, PushIsDue

(* Requests that end without an effect, or die. *)
LEMMA DropRequests ==
  ASSUME UserInv, UNCHANGED <<users, credentials, audit, requests>>,
         creating' \subseteq creating, revoking' \subseteq revoking,
         overriding' = {} \/ overriding' = overriding
  PROVE  UserInv'
<1>1. \A u : ownedBy(u)' = ownedBy(u) /\ activeOf(u)' = activeOf(u)
  BY DEF ownedBy, activeOf
<1>2. UserTypes'
  <2>1. creating' \subseteq Request /\ revoking' \subseteq Request /\ overriding' \subseteq Audit
    BY DEF UserInv, UserTypes
  <2>2. QED
    BY <2>1 DEF UserInv, UserTypes
<1>3. Revocations'
  BY <1>1 DEF UserInv, Revocations, Revocable
<1>4. Reachable' /\ Names' /\ \A o \in overriding' : Overridable(o)'
  BY <1>1 DEF UserInv, Reachable, Names, Overridable, same_username
<1>5. QED
  BY <1>2, <1>3, <1>4 DEF UserInv

(* A push of a home chain: nobody's home is replaced. *)
LEMMA PushUser ==
  ASSUME UserInv, IndexInv, push_home_chain, UNCHANGED requests
  PROVE  UserInv'
<1> DEFINE who == eventOf(rowOf(currentLog)).who
           u == userOf(who)
           x == [users[u] EXCEPT !.home_chain = indexer.chain]
<1>1. /\ users' = set_home_chain_if_unset(who, indexer.chain) \/ UNCHANGED users
      /\ UNCHANGED <<credentials, creating, revoking, overriding, audit>>
  BY DEF push_home_chain
<1>2. requests' \in requests..MaxRequests /\ audit' \in Seq(Audit) /\ indexer.chain \in Chains
  <2>1. requests \in 0..MaxRequests /\ audit \in Seq(Audit) /\ indexer.chain \in Chains
    BY DEF UserInv, UserTypes, IndexInv, IndexerTypes, Indexer
  <2>2. QED
    BY <1>1, <2>1, AccountsAssumption
<1>3. CASE UNCHANGED users
  BY <1>1, <1>2, <1>3, UserFrame DEF userVars
<1>4. CASE ~UNCHANGED users
  <2>1. u # Null /\ users[u].home_chain = Null /\ users' = [users EXCEPT ![u] = x]
    BY <1>1, <1>4 DEF set_home_chain_if_unset
  <2>2. who \in Passkeys
    BY PushedIsDeposit DEF push_home_chain, rowOf, eventOf
  <2>3. u \in 1..Len(users)
    BY <2>1, <2>2, UserFacts DEF userOf, Null
  <2>4. users[u] \in User
    BY <2>3, UserFacts
  <2>5. x \in User /\ x.username = users[u].username
    BY <1>2, <2>4, UserFields
  <2>6. QED
    BY <1>1, <1>2, <2>1, <2>3, <2>5, SetHome
<1>5. QED
  BY <1>3, <1>4

(* The UPDATE of an override. *)
LEMMA CommitOverride ==
  ASSUME UserInv, NEW o \in overriding, commit_override(o), UNCHANGED requests
  PROVE  UserInv'
<1> DEFINE u == userOf(o.passkey)
           x == [users[u] EXCEPT !.home_chain = o.new_chain]
<1>1. /\ overriding' = {} /\ UNCHANGED <<credentials, creating, revoking>>
      /\ IF u = Null THEN UNCHANGED <<users, audit>>
         ELSE users' = [users EXCEPT ![u] = x] /\ audit' = Append(audit, o)
  BY DEF commit_override
<1>2. /\ o \in Audit /\ o.passkey \in Passkeys /\ o.new_chain \in Chains
      /\ audit \in Seq(Audit)
  BY DEF UserInv, UserTypes, Audit
<1>3. CASE u = Null
  BY <1>1, <1>3, DropRequests
<1>4. CASE u # Null
  <2>1. u \in 1..Len(users)
    BY <1>2, <1>4, UserFacts DEF userOf, Null
  <2>2. users[u] \in User
    BY <2>1, UserFacts
  <2>3. x \in User /\ x.username = users[u].username
    BY <1>2, <2>2, UserFields
  <2>4. audit' \in Seq(Audit)
    BY <1>1, <1>2, <1>4
  <2>5. QED
    BY <1>1, <1>4, <2>1, <2>3, <2>4, SetHome
<1>5. QED
  BY <1>3, <1>4

-----------------------------------------------------------------------------
(* What makes accounts correct, as one inductive invariant. *)
AccountsInv == UserInv /\ IndexInv

(* The empty tables satisfy the invariant. *)
LEMMA InitAccounts == AccountsInit => AccountsInv
<1> SUFFICES ASSUME AccountsInit PROVE AccountsInv
  OBVIOUS
<1> USE DEF AccountsInit, NoRequests, NothingIndexed
<1>1. UserInv
  <2>1. \A p \in Passkeys : credentials[p] \in Credential /\ credentials[p].user = 0
    BY DEF Credential, Null
  <2>2. UserTypes
    <3>1. credentials \in [Passkeys -> Credential]
      BY <2>1
    <3>2. users \in Seq(User) /\ Len(users) = 0 /\ audit \in Seq(Audit)
      OBVIOUS
    <3>3. requests \in 0..MaxRequests
      BY AccountsAssumption
    <3>4. creating = {} /\ revoking = {} /\ overriding = {} /\ requests = 0
      OBVIOUS
    <3> HIDE DEF AccountsInit, NoRequests, NothingIndexed
    <3>5. QED
      BY <2>1, <3>1, <3>2, <3>3, <3>4 DEF UserTypes
  <2>3. QED
    BY <2>2 DEF UserInv, Revocations, Reachable, Names
<1>2. IndexInv
  <2>1. 1 \in Chains /\ MaxRequests \in Nat /\ MaxDisturbances \in Nat
    BY AccountsAssumption DEF Chains
  <2>2. TableTypes
    BY <2>1 DEF TableTypes, IsInjective, Null
  <2>3. /\ indexer.pc = "idle" /\ indexer.logs = {} /\ indexer.to = 0 /\ indexer.chain = 1
        /\ indexer \in Indexer
    BY <2>1 DEF Idle, Indexer
  <2>4. DisturbanceTypes /\ IndexerTypes
    BY <2>1, <2>3 DEF DisturbanceTypes, IndexerTypes
  <2>5. PushIsDue /\ NothingSkipped /\ Gapless
    BY <2>3 DEF PushIsDue, NothingSkipped, Gapless
  <2>6. QED
    BY <2>2, <2>4, <2>5 DEF IndexInv
<1>3. QED
  BY <1>1, <1>2 DEF AccountsInv

(* A call to the user-service keeps what is claimed of its tables. *)
LEMMA CallKeeps ==
  ASSUME UserInv, Call, requests < MaxRequests, requests' = requests + 1
  PROVE  UserInv'
<1>1. requests' \in requests..MaxRequests
  BY AccountsAssumption DEF UserInv, UserTypes
<1>2. ASSUME NEW p \in Passkeys, create_user(p) PROVE UserInv'
  BY <1>2, CreateUser
<1>3. ASSUME NEW u \in DOMAIN users, NEW p \in Passkeys, add_credential(u, p) PROVE UserInv'
  <2>1. u \in 1..Len(users)
    BY UserFacts
  <2>2. QED
    BY <1>1, <1>3, <2>1, InsertCredential DEF add_credential
<1>4. ASSUME NEW u \in DOMAIN users, NEW p \in Passkeys, begin_revoke(u, p) PROVE UserInv'
  BY <1>1, <1>4, BeginRevoke
<1>5. ASSUME NEW u \in DOMAIN users, NEW name \in Usernames, set_username(u, name) PROVE UserInv'
  BY <1>1, <1>5, SetUsername
<1>6. ASSUME NEW p \in Passkeys, NEW c \in Targets, begin_override(p, c) PROVE UserInv'
  BY <1>1, <1>6, BeginOverride
<1>7. QED
  BY <1>2, <1>3, <1>4, <1>5, <1>6 DEF Call

(* So does the second half of a call that was split. *)
LEMMA CommitKeeps ==
  ASSUME UserInv, Commit
  PROVE  UserInv'
<1>1. UNCHANGED requests /\ requests' \in requests..MaxRequests
  BY AccountsAssumption DEF Commit, UserInv, UserTypes
<1>2. ASSUME NEW r \in creating, create_credential(r) PROVE UserInv'
  <2>1. /\ creating' \subseteq creating /\ UNCHANGED <<users, revoking, overriding, audit>>
        /\ credentials' = IF insertable(r.passkey) THEN inserted(r.user, r.passkey) ELSE credentials
    BY <1>2 DEF create_credential
  <2>2. r.passkey \in Passkeys /\ r.user \in 1..Len(users)
    <3>1. r.passkey \in Passkeys /\ r.user \in Users /\ r.user <= Len(users)
      BY DEF UserInv, UserTypes, Request
    <3>2. QED
      BY <3>1, UserFacts, AccountsAssumption DEF Users
  <2>3. CASE insertable(r.passkey)
    BY <1>1, <2>1, <2>2, <2>3, InsertCredential
  <2>4. CASE ~insertable(r.passkey)
    BY <1>1, <2>1, <2>4, DropRequests
  <2>5. QED
    BY <2>3, <2>4
<1>3. ASSUME NEW r \in revoking, commit_revoke(r) PROVE UserInv'
  BY <1>1, <1>3, CommitRevoke
<1>4. ASSUME NEW o \in overriding, commit_override(o) PROVE UserInv'
  BY <1>1, <1>4, CommitOverride
<1>5. QED
  BY <1>2, <1>3, <1>4 DEF Commit

(* Every step of the composition keeps the invariant. *)
LEMMA NextAccounts ==
  ASSUME AccountsInv, [AccountsNext]_vars
  PROVE  AccountsInv'
<1>1. UserInv /\ IndexInv
  BY DEF AccountsInv
<1>2. requests \in 0..MaxRequests /\ MaxRequests \in Nat
  BY <1>1, AccountsAssumption DEF UserInv, UserTypes
<1>3. CASE Ask
  <2>1. /\ requests < MaxRequests /\ requests' = requests + 1 /\ UNCHANGED disturbances
        /\ requests' \in requests..MaxRequests
    BY <1>2, <1>3 DEF Ask
  <2>2. CASE Call
    <3>1. UNCHANGED <<chain, indexVars>> /\ Undisturbed
      BY <2>1, <2>2 DEF Call, Undisturbed
    <3>2. QED
      BY <1>1, <2>1, <2>2, <3>1, CallKeeps, IndexFrame DEF AccountsInv
  <2>3. ASSUME NEW c \in Chains, NEW event \in Events, mine(c, event) PROVE AccountsInv'
    <3>1. UNCHANGED userVars
      BY <2>3 DEF mine
    <3>2. QED
      BY <1>1, <2>1, <2>3, <3>1, MineKeeps, UserFrame DEF AccountsInv
  <2>4. QED
    BY <1>3, <2>2, <2>3 DEF Ask
<1>4. CASE Commit
  <2>1. UNCHANGED <<chain, indexVars>> /\ Undisturbed /\ requests' \in requests..MaxRequests
    BY <1>2, <1>4 DEF Commit, Undisturbed
  <2>2. QED
    BY <1>1, <1>4, <2>1, CommitKeeps, IndexFrame DEF AccountsInv
<1>5. CASE Crash
  <2>1. /\ UNCHANGED <<chain, indexVars, requests>> /\ Disturbance("crash")
        /\ requests' \in requests..MaxRequests /\ UNCHANGED <<users, credentials, audit>>
        /\ creating' \subseteq creating /\ revoking' \subseteq revoking /\ overriding' = {}
    BY <1>2, <1>5 DEF Crash, crash
  <2>2. QED
    BY <1>1, <2>1, DropRequests, IndexFrame DEF AccountsInv
<1>6. CASE IndexStep
  <2>1. UNCHANGED <<chain, requests>> /\ requests' \in requests..MaxRequests
    BY <1>2, <1>6 DEF IndexStep
  <2>2. CASE push_home_chain
    BY <1>1, <2>1, <2>2, PushUser, PushHome DEF AccountsInv
  <2>3. CASE ((\E c \in Chains : index_chain(c)) \/ ingest_row \/ set_cursor) /\ UNCHANGED userVars
    BY <1>1, <2>1, <2>3, UserFrame, IndexChain, IngestRow, SetCursor DEF AccountsInv
  <2>4. QED
    BY <1>6, <2>2, <2>3 DEF IndexStep
<1>7. CASE Restart
  <2>1. restart /\ UNCHANGED <<userVars, chain, requests>> /\ requests' \in requests..MaxRequests
    BY <1>2, <1>7 DEF Restart
  <2>2. QED
    BY <1>1, <2>1, UserFrame, RestartKeeps DEF AccountsInv
<1>8. CASE UNCHANGED vars
  <2>1. /\ UNCHANGED <<userVars, chain, indexVars, requests>> /\ Undisturbed
        /\ requests' \in requests..MaxRequests
    BY <1>2, <1>8 DEF vars, Undisturbed
  <2>2. QED
    BY <1>1, <2>1, UserFrame, IndexFrame DEF AccountsInv
<1>9. QED
  BY <1>3, <1>4, <1>5, <1>6, <1>7, <1>8 DEF AccountsNext

(* The invariant of accounts and index holds throughout. *)
LEMMA AccountsInvariant == AccountsSpec => []AccountsInv
BY InitAccounts, NextAccounts, PTL DEF AccountsSpec

(* Sets of at most one member. *)
LEMMA AtMostOne ==
  ASSUME NEW S, S = {} \/ \E x : S = {x}
  PROVE  Cardinality(S) <= 1
<1>1. Cardinality({}) = 0
  BY FS_EmptySet
<1>2. \A x : Cardinality({x}) = 1
  BY FS_Singleton
<1>3. CASE S = {}
  BY <1>1, <1>3
<1>4. ASSUME NEW x, S = {x} PROVE Cardinality(S) <= 1
  <2>1. Cardinality(S) = 1
    BY <1>2, <1>4
  <2>2. QED
    BY <2>1
<1>5. QED
  BY <1>3, <1>4

(* For any number of users, passkeys and chains the tables of the user-service and
   of the account index and the locals of the indexer keep their types: owners
   exist, cursors are at most one past the head, the fetched logs are blocks. *)
THEOREM AccountsTyped == AccountsSpec => []AccountsTypeOK
<1>1. AccountsInv => AccountsTypeOK
  <2> SUFFICES ASSUME AccountsInv PROVE AccountsTypeOK
    OBVIOUS
  <2>1. UserTypes /\ TableTypes /\ DisturbanceTypes /\ IndexerTypes
    BY DEF AccountsInv, UserInv, IndexInv
  <2>2. Cardinality(overriding) <= 1
    BY <2>1, AtMostOne DEF UserTypes
  <2>3. \A c \in Chains : index_cursors[c] \in 0..(Len(chain[c]) + 1)
    BY <2>1 DEF TableTypes
  <2>4. /\ indexer.pc \in {"idle", "ingest", "push", "cursor"} /\ indexer.todo \subseteq Chains
        /\ indexer.chain \in Chains /\ indexer.to \in Nat
    BY <2>1 DEF IndexerTypes, Indexer
  <2>5. indexer.to \in 0..Len(chain[indexer.chain])
    <3>1. Len(chain[indexer.chain]) \in Nat /\ indexer.to <= Len(chain[indexer.chain])
      BY <2>1, <2>4 DEF IndexerTypes, TableTypes
    <3>2. QED
      BY <2>4, <3>1
  <2>6. QED
    BY <2>1, <2>2, <2>3, <2>4, <2>5
       DEF AccountsTypeOK, UserTypes, TableTypes, DisturbanceTypes, IndexerTypes
<1>2. QED
  BY <1>1, AccountsInvariant, PTL

(* Whatever revocations, inserts and renamings run at the same time, whoever has
   registered can be reached, and a username leads to one user (revoke,
   set_username, create_user, get_user_by_username). *)
THEOREM UsersAreReachable == AccountsSpec => []AccountsAreReachable
<1>1. AccountsInv => AccountsAreReachable
  <2> SUFFICES ASSUME AccountsInv PROVE AccountsAreReachable
    OBVIOUS
  <2>1. UserInv /\ Reachable /\ Names
    BY DEF AccountsInv, UserInv
  <2>2. DOMAIN users = 1..Len(users)
    BY <2>1, UserFacts
  <2>3. ASSUME NEW name \in Usernames, NEW named,
               named = {u \in DOMAIN users : users[u].username # NoUsername
                                             /\ LOWER(users[u].username) = LOWER(name)}
        PROVE  Cardinality(named) <= 1 /\ \A u \in named : activeOf(u) # {}
    <3>1. \A u, v \in named : u = v
      BY <2>1, <2>2, <2>3 DEF Names, same_username
    <3>2. named = {} \/ \E u : named = {u}
      BY <3>1
    <3>3. Cardinality(named) <= 1
      BY <3>2, AtMostOne
    <3>4. QED
      BY <2>1, <2>2, <2>3, <3>3 DEF Names
  <2>4. QED
    BY <2>1, <2>2, <2>3 DEF AccountsAreReachable, Reachable
<1>2. QED
  BY <1>1, AccountsInvariant, PTL

(* No event has two rows, and behind the cursor none is missing, on any number of
   chains, with any number of restarts (index_chain, upsert_event, set_cursor). *)
THEOREM IndexFaithful == AccountsSpec => []IndexIsFaithful
<1>1. AccountsInv => IndexIsFaithful
  <2> SUFFICES ASSUME AccountsInv PROVE IndexIsFaithful
    OBVIOUS
  <2>1. \A c \in Chains : DOMAIN chain[c] = 1..Len(chain[c])
    BY DEF AccountsInv, IndexInv, TableTypes
  <2>2. QED
    BY <2>1 DEF AccountsInv, IndexInv, TableTypes, Gapless, Healthy, Stored, IndexIsFaithful
<1>2. QED
  BY <1>1, AccountsInvariant, PTL

(* What a step may do to the home chain of a user. *)
HomeStep ==
    \A u \in DOMAIN users :
        LET home == users[u].home_chain IN
        users'[u].home_chain # home =>
            \/ home = Null /\ DepositedOn(u, users'[u].home_chain)
            \/ /\ Len(audit') = Len(audit) + 1
               /\ Last(audit').passkey \in ownedBy(u)
               /\ Last(audit').new_chain = users'[u].home_chain
               /\ Last(audit').previous_chain \in {Null, home}

(* Most steps do not touch a home chain. *)
LEMMA HomesStay ==
  ASSUME \A u \in DOMAIN users : users'[u].home_chain = users[u].home_chain
  PROVE  HomeStep
BY DEF HomeStep

(* The push explains itself by the row that ingest_row() has inserted. *)
LEMMA PushExplained ==
  ASSUME AccountsInv, push_home_chain
  PROVE  HomeStep
<1> DEFINE c == indexer.chain
           l == currentLog
           who == chain[c][l].who
           w == userOf(who)
<1>1. UserInv /\ IndexInv /\ indexer.pc = "push"
  BY DEF AccountsInv, push_home_chain
<1>2. /\ c \in Chains /\ l \in 1..Len(chain[c]) /\ chain[c][l].kind = "deposited"
      /\ who \in Passkeys /\ Stored(c, l)
  BY <1>1, PushedIsDeposit
<1>3. users' = set_home_chain_if_unset(who, c) \/ UNCHANGED users
  BY DEF push_home_chain, eventOf, rowOf
<1>4. PICK k \in DOMAIN account_events : account_events[k] = [chain |-> c, block |-> l]
  BY <1>2 DEF Stored, Range
<1>5. w # Null => who \in ownedBy(w)
  BY <1>2 DEF userOf, ownedBy, Null
<1> HIDE DEF c, l
<1>6. w # Null => DepositedOn(w, c)
  BY <1>2, <1>4, <1>5 DEF DepositedOn, eventOf
<1> HIDE DEF who, w
<1>7. CASE UNCHANGED users
  BY <1>7, HomesStay
<1>8. CASE ~UNCHANGED users
  <2>1. /\ w # Null /\ users[w].home_chain = Null
        /\ users' = [users EXCEPT ![w].home_chain = c]
    BY <1>3, <1>8 DEF set_home_chain_if_unset, w
  <2>2. ASSUME NEW u \in DOMAIN users, users'[u].home_chain # users[u].home_chain
        PROVE  u = w /\ users'[u].home_chain = c
    <3>1. u = w
      BY <2>1, <2>2
    <3>2. users[u] \in User
      BY <1>1, UserFacts
    <3>3. users'[u] = [users[u] EXCEPT !.home_chain = c]
      BY <2>1, <3>1
    <3>4. QED
      BY <1>2, <3>1, <3>2, <3>3, UserFields
  <2>3. QED
    BY <1>6, <2>1, <2>2 DEF HomeStep
<1>9. QED
  BY <1>7, <1>8

(* The override explains itself by its audit entry. *)
LEMMA OverrideExplained ==
  ASSUME AccountsInv, NEW o \in overriding, commit_override(o)
  PROVE  HomeStep
<1> DEFINE w == userOf(o.passkey)
<1>1. UserInv
  BY DEF AccountsInv
<1>2. /\ o \in Audit /\ o.passkey \in Passkeys /\ o.new_chain \in Chains
      /\ audit \in Seq(Audit)
  BY <1>1 DEF UserInv, UserTypes, Audit
<1>3. CASE w = Null
  BY <1>3, HomesStay DEF commit_override
<1>4. CASE w # Null
  <2>1. users' = [users EXCEPT ![w].home_chain = o.new_chain] /\ audit' = Append(audit, o)
    BY <1>4 DEF commit_override
  <2>2. w = credentials[o.passkey].user
    BY <1>4 DEF userOf
  <2>3. w \in 1..Len(users) /\ users[w] \in User
    <3>1. w \in 1..Len(users)
      BY <1>1, <1>2, <1>4, <2>2, UserFacts DEF Null
    <3>2. QED
      BY <1>1, <3>1, UserFacts
  <2>4. /\ Len(audit') = Len(audit) + 1 /\ Last(audit') = o
    <3>1. Len(audit') = Len(audit) + 1 /\ audit'[Len(audit) + 1] = o
      BY <1>2, <2>1
    <3>2. QED
      BY <3>1 DEF Last
  <2>5. o.passkey \in ownedBy(w)
    BY <1>2, <2>2 DEF ownedBy
  <2>6. o.previous_chain \in {Null, users[w].home_chain}
    BY <1>1, <2>2, OverrideOwner
  <2>7. ASSUME NEW u \in DOMAIN users, users'[u].home_chain # users[u].home_chain
        PROVE  u = w /\ users'[u].home_chain = o.new_chain
    <3>1. u = w
      BY <2>1, <2>7
    <3>2. users'[u] = [users[u] EXCEPT !.home_chain = o.new_chain]
      BY <2>1, <3>1
    <3>3. QED
      BY <1>2, <2>3, <3>1, <3>2, UserFields
  <2> HIDE DEF w
  <2>8. QED
    BY <2>4, <2>5, <2>6, <2>7 DEF HomeStep
<1>5. QED
  BY <1>3, <1>4

(* A home chain is set once, by a deposit of the user that is in the index, and
   later only with an audit entry that tells the chain it replaces (ingest_row,
   push_home_chain, set_home_chain_if_unset, set_home_chain_for_decommission). *)
THEOREM HomesAreExplained == AccountsSpec => HomeChangesAreExplained
<1>1. ASSUME AccountsInv, [AccountsNext]_vars PROVE [HomeStep]_vars
  <2>1. UserInv
    BY <1>1 DEF AccountsInv
  <2>2. CASE UNCHANGED users
    BY <2>2, HomesStay
  <2>3. CASE push_home_chain
    BY <1>1, <2>3, PushExplained
  <2>4. ASSUME NEW o \in overriding, commit_override(o) PROVE HomeStep
    BY <1>1, <2>4, OverrideExplained
  <2>5. ASSUME NEW p \in Passkeys, create_user(p) PROVE HomeStep
    <3>1. \A u \in DOMAIN users : users'[u] = users[u]
      BY <2>1, <2>5, UserFacts DEF create_user
    <3>2. QED
      BY <3>1, HomesStay
  <2>6. ASSUME NEW v \in DOMAIN users, NEW name \in Usernames, set_username(v, name) PROVE HomeStep
    <3>1. users' = [users EXCEPT ![v].username = name] /\ users[v] \in User
      BY <2>1, <2>6, UserFacts DEF set_username
    <3>2. users'[v] = [users[v] EXCEPT !.username = name]
          /\ \A u \in DOMAIN users : u # v => users'[u] = users[u]
      BY <2>6, <3>1
    <3>3. QED
      BY <3>1, <3>2, UserFields, HomesStay
  <2>7. CASE UNCHANGED vars
    BY <2>7
  <2>8. QED
    BY <1>1, <2>2, <2>3, <2>4, <2>5, <2>6, <2>7
       DEF AccountsNext, Ask, Call, mine, add_credential, begin_revoke, begin_override, Commit,
           create_credential, commit_revoke, Crash, crash, IndexStep, Restart, userVars
<1>2. QED
  <2>1. AccountsSpec => [][HomeStep]_vars
    BY <1>1, AccountsInvariant, PTL DEF AccountsSpec
  <2>2. QED
    BY <2>1 DEF HomeStep, HomeChangesAreExplained
=============================================================================
