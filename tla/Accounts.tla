------------------------------ MODULE Accounts ------------------------------
(***************************************************************************)
(* Who owns what, and where: the user-service (users, passkeys, usernames, *)
(* home chains) and the account index of the Treasury (account_index.rs),  *)
(* which scans every chain and tells the user-service the chain of a       *)
(* user's first deposit.                                                   *)
(*                                                                         *)
(* A passkey stands for its credential_id and for the address derived from *)
(* its public key: both columns are UNIQUE, revoked rows included.  Blocks *)
(* hold one event each.  A step is a database statement, a transaction up  *)
(* to its next lock, or what the indexer does between two awaits.  Names   *)
(* for display and the events' amounts are left out.                       *)
(***************************************************************************)
EXTENDS Integers, Sequences, FiniteSets, SequencesExt

CONSTANTS
    N,                  \* number of chains
    Passkeys,           \* credentials with their addresses
    Events,             \* what blocks hold: deposits and other events
    Usernames,          \* <<folded name, casing>>
    Targets,            \* chains to which decommissions move homes
    MAX_BLOCK_RANGE,    \* blocks behind the head that a scan reaches
    MaxRequests,        \* bound: calls of the user-service and blocks, together
    Disturbances,       \* which of the disturbances below happen
    MaxDisturbances     \* bound: number of them

Chains == 1..N
Users == 1..(MaxRequests + 1)
Null == 0
NoUsername == <<>>
Kinds == {"rpc", "lag", "db", "unreachable", "restart", "crash"}

Event == [kind : {"deposited", "other"}, who : Passkeys]

ASSUME AccountsAssumption ==
    /\ N \in Nat \ {0} /\ Events \subseteq Event /\ Targets \subseteq Chains
    /\ MAX_BLOCK_RANGE \in Nat
    /\ MaxRequests \in Nat
    /\ Disturbances \subseteq Kinds /\ MaxDisturbances \in Nat

VARIABLES
    users,          \* users.users: username and home_chain
    credentials,    \* users.credentials: owner, and whether not revoked
    creating,       \* create_user() between its two inserts
    revoking,       \* revoke() transactions that hold their locks
    overriding,     \* set_home_chain_for_decommission() after its SELECT
    audit,          \* users.home_chain_audit
    chain,          \* the blocks of every chain (external)
    account_events, \* treasury.account_events
    index_cursors,  \* treasury.index_cursors, Null without a row
    indexer,        \* the locals of poll_loop, index_chain and ingest_row
    requests,       \* calls and blocks so far
    disturbances    \* the disturbances so far

userVars == <<users, credentials, creating, revoking, overriding, audit>>
indexVars == <<account_events, index_cursors, indexer>>
vars == <<userVars, chain, indexVars, requests, disturbances>>

User == [username : Usernames \cup {NoUsername}, home_chain : Chains \cup {Null}]
Credential == [user : Users \cup {Null}, active : BOOLEAN]
Request == [user : Users, passkey : Passkeys]
Audit == [passkey : Passkeys, previous_chain : Chains \cup {Null}, new_chain : Chains]
EventRow == [chain : Chains, block : 1..MaxRequests]

Idle(todo) == [pc |-> "idle", todo |-> todo, chain |-> 1, to |-> 0, logs |-> {}]

AccountsTypeOK ==
    /\ users \in Seq(User) /\ requests \in 0..MaxRequests
    /\ credentials \in [Passkeys -> Credential]
    /\ \A p \in Passkeys : credentials[p].user <= Len(users)
    /\ creating \subseteq Request /\ revoking \subseteq Request
    /\ overriding \subseteq Audit /\ Cardinality(overriding) <= 1
    /\ audit \in Seq(Audit)
    /\ chain \in [Chains -> Seq(Events)]
    /\ account_events \in Seq(EventRow)
    /\ \A c \in Chains : index_cursors[c] \in 0..(Len(chain[c]) + 1)
    /\ indexer.pc \in {"idle", "ingest", "push", "cursor"}
    /\ indexer.todo \subseteq Chains /\ indexer.chain \in Chains
    /\ indexer.to \in 0..Len(chain[indexer.chain]) /\ indexer.logs \subseteq 1..indexer.to
    /\ indexer.pc \in {"ingest", "push"} <=> indexer.logs # {}
    /\ disturbances \in Seq(Disturbances) /\ Len(disturbances) <= MaxDisturbances

NoRequests ==
    /\ creating = {} /\ revoking = {} /\ overriding = {} /\ audit = <<>>
    /\ chain = [c \in Chains |-> <<>>] /\ requests = 0 /\ disturbances = <<>>
NothingIndexed ==
    /\ account_events = <<>> /\ index_cursors = [c \in Chains |-> Null]
    /\ indexer = Idle({})

AccountsInit ==
    /\ users = <<>> /\ credentials = [p \in Passkeys |-> [user |-> Null, active |-> FALSE]]
    /\ NoRequests /\ NothingIndexed

Disturbance(kind) ==
    /\ kind \in Disturbances /\ Len(disturbances) < MaxDisturbances
    /\ disturbances' = Append(disturbances, kind)
Undisturbed == UNCHANGED disturbances

-----------------------------------------------------------------------------
(* The user-service.  Callers act for a user who has an active credential: the
   BFF has just looked up the one of the session. *)
ownedBy(u) == {p \in Passkeys : credentials[p].user = u}
activeOf(u) == {p \in ownedBy(u) : credentials[p].active}
userOf(p) == IF credentials[p].active THEN credentials[p].user ELSE Null

create_user(p) ==
    /\ users' = Append(users, [username |-> NoUsername, home_chain |-> Null])
    /\ creating' = creating \cup {[user |-> Len(users) + 1, passkey |-> p]}
    /\ UNCHANGED <<credentials, revoking, overriding, audit>>

insertable(p) == credentials[p].user = Null
inserted(u, p) == [credentials EXCEPT ![p] = [user |-> u, active |-> TRUE]]

(* The second insert of create_user(): when it fails the user stays without one. *)
create_credential(r) ==
    /\ r \in creating /\ creating' = creating \ {r}
    /\ credentials' = IF insertable(r.passkey) THEN inserted(r.user, r.passkey) ELSE credentials
    /\ UNCHANGED <<users, revoking, overriding, audit>>

add_credential(u, p) ==
    /\ activeOf(u) # {} /\ insertable(p)
    /\ credentials' = inserted(u, p)
    /\ UNCHANGED <<users, creating, revoking, overriding, audit>>

LOWER(name) == name[1]
same_username(m, n) == m # NoUsername /\ LOWER(m) = LOWER(n)

set_username(u, name) ==
    /\ activeOf(u) # {} /\ users[u].username # name
    /\ \A v \in DOMAIN users \ {u} : ~same_username(users[v].username, name)
    /\ users' = [users EXCEPT ![u].username = name]
    /\ UNCHANGED <<credentials, creating, revoking, overriding, audit>>

(* revoke(): SELECT ... FOR UPDATE waits for the rows another one has locked,
   and the last active credential stays. *)
locked_Never(u) == FALSE
locked(u) == \E r \in revoking : r.user = u

begin_revoke(u, p) ==
    /\ p \in activeOf(u) /\ ~locked(u)
    /\ Cardinality(activeOf(u)) # 1
    /\ revoking' = revoking \cup {[user |-> u, passkey |-> p]}
    /\ UNCHANGED <<users, credentials, creating, overriding, audit>>

commit_revoke(r) ==
    /\ r \in revoking /\ revoking' = revoking \ {r}
    /\ credentials' = [credentials EXCEPT ![r.passkey].active = FALSE]
    /\ UNCHANGED <<users, creating, overriding, audit>>

set_home_chain_if_unset_Always(p, c) ==
    IF userOf(p) # Null THEN [users EXCEPT ![userOf(p)].home_chain = c] ELSE users
set_home_chain_if_unset(p, c) ==
    IF userOf(p) # Null /\ users[userOf(p)].home_chain = Null
    THEN [users EXCEPT ![userOf(p)].home_chain = c]
    ELSE users

(* set_home_chain_for_decommission(): the previous home is read without a lock,
   then UPDATE and audit entry commit together, or nothing without a user. *)
begin_override(p, c) ==
    /\ overriding = {}
    /\ overriding' = {[passkey |-> p, new_chain |-> c,
           previous_chain |-> IF userOf(p) = Null THEN Null ELSE users[userOf(p)].home_chain]}
    /\ UNCHANGED <<users, credentials, creating, revoking, audit>>

commit_override(o) ==
    /\ o \in overriding /\ overriding' = {}
    /\ IF userOf(o.passkey) = Null
       THEN UNCHANGED <<users, audit>>
       ELSE /\ users' = [users EXCEPT ![userOf(o.passkey)].home_chain = o.new_chain]
            /\ audit' = Append(audit, o)
    /\ UNCHANGED <<credentials, creating, revoking>>

(* The user-service crashes: requests die, open transactions roll back. *)
crash ==
    /\ creating # {} \/ revoking # {} \/ overriding # {}
    /\ creating' = {} /\ revoking' = {} /\ overriding' = {}
    /\ UNCHANGED <<users, credentials, audit>>

-----------------------------------------------------------------------------
(* The indexer: one task that visits the chains in turn, for ever. *)
eventOf(row) == chain[row.chain][row.block]
rowOf(b) == [chain |-> indexer.chain, block |-> b]

(* The cursor is one past the head when nothing is new: the last block is scanned
   again. *)
window(cursor, to) ==
    LET from == IF cursor < to THEN cursor ELSE to
    IN  {b \in 1..to : b >= from /\ b >= to - MAX_BLOCK_RANGE}

(* Bank logs and Transfer logs; a failed fetch is an empty answer, a cursor that
   cannot be read is none, and a node may be behind its chain. *)
index_chain(c) ==
    LET head == Len(chain[c])
        round == IF indexer.todo = {} THEN Chains ELSE indexer.todo
        rest == round \ {c}
        of(kind, cursor, to) == {b \in window(cursor, to) : chain[c][b].kind = kind}
        all(cursor, to) == of("deposited", cursor, to) \cup of("other", cursor, to)
        fetched(to, logs) == [pc |-> IF logs = {} THEN "cursor" ELSE "ingest", todo |-> rest,
                              chain |-> c, to |-> to, logs |-> logs]
    IN  /\ indexer.pc = "idle" /\ c \in round
        /\ \/ Undisturbed /\ indexer' = fetched(head, all(index_cursors[c], head))
           \/ /\ Disturbance("lag")
              /\ \E to \in 0..(head - 1) : indexer' = fetched(to, all(index_cursors[c], to))
           \/ Disturbance("db") /\ indexer' = fetched(head, all(Null, head))
           \/ Disturbance("rpc")
              /\ \/ indexer' = Idle(rest)
                 \/ \E kind \in {"deposited", "other"} :
                       indexer' = fetched(head, of(kind, index_cursors[c], head))
        /\ UNCHANGED <<account_events, index_cursors>>

(* The log at hand: the Bank's come first, each kind in the order of its blocks. *)
precedes(x, y) ==
    LET kind(b) == chain[indexer.chain][b].kind
    IN  (kind(x) = "deposited" /\ kind(y) # "deposited") \/ (kind(x) = kind(y) /\ x <= y)
currentLog == CHOOSE b \in indexer.logs : \A other \in indexer.logs : precedes(b, other)

user_has_deposit(p) ==
    \E k \in DOMAIN account_events :
        eventOf(account_events[k]) = [kind |-> "deposited", who |-> p]

upsert_event_Duplicates(row) == Append(account_events, row)
upsert_event(row) == IF row \in Range(account_events) THEN account_events
                     ELSE Append(account_events, row)

should_push_home_chain_Redelivered(upserted, is_first_deposit) == ~upserted /\ is_first_deposit
should_push_home_chain(upserted, is_first_deposit) == upserted /\ is_first_deposit

nextLog_Endless == [indexer EXCEPT !.logs = @ \ {currentLog}, !.pc = "ingest"]
nextLog == [indexer EXCEPT !.logs = @ \ {currentLog},
                           !.pc = IF indexer.logs = {currentLog} THEN "cursor" ELSE "ingest"]

(* ingest_row() up to the push.  A database error reads as "no deposit yet" or as
   "already there". *)
ingest_row ==
    LET row == rowOf(currentLog)
        deposit == eventOf(row).kind = "deposited"
        push(first) == should_push_home_chain(row \notin Range(account_events), deposit /\ first)
        goto(pushing) == IF pushing THEN [indexer EXCEPT !.pc = "push"] ELSE nextLog
    IN  /\ indexer.pc = "ingest"
        /\ \/ /\ Undisturbed /\ account_events' = upsert_event(row)
              /\ indexer' = goto(push(~user_has_deposit(eventOf(row).who)))
           \/ /\ Disturbance("db") /\ account_events' = upsert_event(row)
              /\ indexer' = goto(push(TRUE))
           \/ Disturbance("db") /\ UNCHANGED account_events /\ indexer' = nextLog
        /\ UNCHANGED index_cursors

(* SetUserHomeChain, once: nobody repeats a push that fails, or that comes before
   the address is registered. *)
push_home_chain ==
    LET event == eventOf(rowOf(currentLog)) IN
    /\ indexer.pc = "push"
    /\ \/ Undisturbed /\ users' = set_home_chain_if_unset(event.who, indexer.chain)
       \/ Disturbance("unreachable") /\ UNCHANGED users
    /\ indexer' = nextLog
    /\ UNCHANGED <<account_events, index_cursors, credentials, creating, revoking, overriding, audit>>

set_cursor ==
    /\ indexer.pc = "cursor"
    /\ \/ Undisturbed /\ index_cursors' = [index_cursors EXCEPT ![indexer.chain] = indexer.to + 1]
       \/ Disturbance("db") /\ UNCHANGED index_cursors
    /\ indexer' = Idle(indexer.todo)
    /\ UNCHANGED account_events

(* The Treasury restarts: the tables survive. *)
restart ==
    /\ indexer.pc # "idle" /\ Disturbance("restart")
    /\ indexer' = Idle({})
    /\ UNCHANGED <<account_events, index_cursors>>

-----------------------------------------------------------------------------
(* A block with an event of an address, registered or not (external). *)
mine(c, event) ==
    /\ chain' = [chain EXCEPT ![c] = Append(@, event)]
    /\ UNCHANGED <<userVars, indexVars>>

Call ==
    /\ \/ \E p \in Passkeys : create_user(p)
       \/ \E u \in DOMAIN users, p \in Passkeys : add_credential(u, p) \/ begin_revoke(u, p)
       \/ \E u \in DOMAIN users, name \in Usernames : set_username(u, name)
       \/ \E p \in Passkeys, c \in Targets : begin_override(p, c)
    /\ UNCHANGED <<chain, indexVars>>

Ask ==
    /\ requests < MaxRequests /\ requests' = requests + 1 /\ UNCHANGED disturbances
    /\ Call \/ \E c \in Chains, event \in Events : mine(c, event)

Commit ==
    /\ \/ \E r \in creating : create_credential(r)
       \/ \E r \in revoking : commit_revoke(r)
       \/ \E o \in overriding : commit_override(o)
    /\ UNCHANGED <<chain, indexVars, requests, disturbances>>

Crash == crash /\ Disturbance("crash") /\ UNCHANGED <<chain, indexVars, requests>>

IndexStep ==
    /\ \/ /\ (\E c \in Chains : index_chain(c)) \/ ingest_row \/ set_cursor
          /\ UNCHANGED userVars
       \/ push_home_chain
    /\ UNCHANGED <<chain, requests>>

Restart == restart /\ UNCHANGED <<userVars, chain, requests>>

AccountsNext == Ask \/ Commit \/ Crash \/ IndexStep \/ Restart

AccountsSpec == AccountsInit /\ [][AccountsNext]_vars

(* tokio keeps running the indexer; users and chains need do nothing. *)
AccountsFairness == WF_vars(IndexStep)

FairAccountsSpec == AccountsSpec /\ AccountsFairness

-----------------------------------------------------------------------------
(* Whoever has registered can be reached: a user with credentials keeps an active
   one whatever revocations run at the same time, and a username, in any casing,
   leads to one user, who has one (revoke, set_username, create_user,
   get_user_by_username). *)
AccountsAreReachable ==
    /\ \A u \in DOMAIN users : ownedBy(u) # {} => activeOf(u) # {}
    /\ \A name \in Usernames :
           LET named == {u \in DOMAIN users : users[u].username # NoUsername
                                              /\ LOWER(users[u].username) = LOWER(name)}
           IN  Cardinality(named) <= 1 /\ \A u \in named : activeOf(u) # {}

(* The index is the chain: no event has two rows although every poll scans the
   last block again, and behind the cursor, as far back as a scan reaches, none is
   missing, whatever restarts and nodes that are behind, while chains and database
   answer (index_chain, upsert_event, set_cursor). *)
IndexIsFaithful ==
    /\ IsInjective(account_events)
    /\ \A c \in Chains : \A b \in DOMAIN chain[c] :
           (/\ b < index_cursors[c] /\ b + MAX_BLOCK_RANGE >= Len(chain[c])
            /\ {"rpc", "db"} \cap Range(disturbances) = {})
               => [chain |-> c, block |-> b] \in Range(account_events)

DepositedOn(u, c) ==
    \E k \in DOMAIN account_events :
        LET event == eventOf(account_events[k])
        IN  account_events[k].chain = c /\ event.kind = "deposited" /\ event.who \in ownedBy(u)

(* A home chain is set once, to a chain where the index has a deposit of the user,
   and later only with an audit entry, which also tells the chain it replaces,
   unless that one was set while the override ran (ingest_row, push_home_chain,
   set_home_chain_if_unset, set_home_chain_for_decommission). *)
HomeChangesAreExplained ==
    [][\A u \in DOMAIN users :
          LET home == users[u].home_chain IN
          users'[u].home_chain # home =>
              \/ home = Null /\ DepositedOn(u, users'[u].home_chain)
              \/ /\ Len(audit') = Len(audit) + 1
                 /\ Last(audit').passkey \in ownedBy(u)
                 /\ Last(audit').new_chain = users'[u].home_chain
                 /\ Last(audit').previous_chain \in {Null, home}]_vars

DepositAt(p, c, b) == chain[c][b] = [kind |-> "deposited", who |-> p]

Owed(p) ==
    /\ userOf(p) # Null /\ ~user_has_deposit(p)
    /\ \E c \in Chains : \E b \in DOMAIN chain[c] : DepositAt(p, c, b)

Excused(p) ==
    \/ userOf(p) = Null \/ disturbances # <<>>
    \/ \E c \in Chains : \E b \in DOMAIN chain[c] :
           DepositAt(p, c, b) /\ b + MAX_BLOCK_RANGE < Len(chain[c])

(* The first deposit of a registered address sets the home chain of its user,
   unless the passkey is revoked meanwhile, something fails, or the indexer falls
   behind its range: the push has one chance (ingest_row, should_push_home_chain). *)
FirstDepositSetsHome ==
    \A p \in Passkeys :
        Owed(p) ~> (Excused(p) \/ users[userOf(p)].home_chain # Null)
=============================================================================
