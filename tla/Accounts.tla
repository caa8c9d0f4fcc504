------------------------------ MODULE Accounts ------------------------------
(***************************************************************************)
(* Registration, login and token check: the user table in MySQL and the    *)
(* session of each user in Redis.  A call takes one step per query, and    *)
(* other calls run in between.  Any query may fail; the call then returns  *)
(* an error and has changed nothing more.                                  *)
(***************************************************************************)
EXTENDS Integers, Sequences

CONSTANTS Emails, Passwords, AuthCalls,
          MaxUsers,    \* bound on rows of the user table
          MaxTokens    \* bound on tokens issued

ASSUME AccountsAssumption == MaxUsers \in Nat /\ MaxTokens \in Nat

VARIABLES
  users,       \* rows of the table, in order: [email, password]; the index
               \* stands for the uuid
  sessions,    \* Redis "login_<uuid>": uuid -> the session's token, 0 if none
  tokens,      \* tokens issued, in order: the uuid each was made for
  authCall,    \* per call: [at, ...]
  newest,      \* history: uuid -> the token the last login stored
  wroteBack    \* history: uuids whose session changed under a token check

accountVars == <<users, sessions, tokens, authCall, newest, wroteBack>>

NoCall == [at |-> "idle"]
UserIds == 1..MaxUsers
Becomes(c, rec) == authCall' = [authCall EXCEPT ![c] = rec]

-----------------------------------------------------------------------------
\* The row is looked up first; no key of the table makes emails unique.
Registering(c, e, w) ==
  Becomes(c, [at |-> "create", email |-> e, password |-> w])

EmailPasswordRegister(c, e, w) ==
  /\ authCall[c] = NoCall
  /\ \A u \in DOMAIN users : users[u].email # e
  /\ Registering(c, e, w)
  /\ UNCHANGED <<users, sessions, tokens, newest, wroteBack>>

CreateUser(c) ==
  LET a == authCall[c]
  IN /\ a.at = "create" /\ Len(users) < MaxUsers
     /\ users' = Append(users, [email |-> a.email, password |-> a.password])
     /\ Becomes(c, NoCall)
     /\ UNCHANGED <<sessions, tokens, newest, wroteBack>>

\* Take returns some row with the email; its password must match.
EmailPasswordLogin(c, e, w) ==
  /\ authCall[c] = NoCall /\ Len(tokens) < MaxTokens
  /\ \E u \in DOMAIN users :
       /\ users[u] = [email |-> e, password |-> w]
       /\ tokens' = Append(tokens, u)
       /\ Becomes(c, [at |-> "store", uuid |-> u, token |-> Len(tokens) + 1])
  /\ UNCHANGED <<users, sessions, newest, wroteBack>>

StoreSession(c) ==
  LET a == authCall[c]
  IN /\ a.at = "store"
     /\ sessions' = [sessions EXCEPT ![a.uuid] = a.token]
     /\ newest' = [newest EXCEPT ![a.uuid] = a.token]
     /\ Becomes(c, NoCall)
     /\ UNCHANGED <<users, tokens, wroteBack>>

\* AuthCheck reads the session, compares tokens and writes the session back
\* with a new time of last activity.
Refreshing(c, t) ==
  LET u == tokens[t]
  IN /\ authCall[c] = NoCall /\ sessions[u] # 0
     /\ Becomes(c, [at |-> "refresh", uuid |-> u, token |-> t, read |-> sessions[u]])
     /\ UNCHANGED <<users, sessions, tokens, newest, wroteBack>>

\* Mutant: the tokens are not compared.
AuthCheckAnyToken(c, t) == Refreshing(c, t)

AuthCheck(c, t) == sessions[tokens[t]] = t /\ Refreshing(c, t)

RefreshSession(c) ==
  LET a == authCall[c]
  IN /\ a.at = "refresh"
     /\ sessions' = [sessions EXCEPT ![a.uuid] = a.token]
     /\ wroteBack' = IF sessions[a.uuid] # a.read THEN wroteBack \cup {a.uuid}
                     ELSE wroteBack
     /\ Becomes(c, NoCall)
     /\ UNCHANGED <<users, tokens, newest>>

\* A query fails and the call returns its error; or the address to register has
\* no '@', and the slice of it for the nickname panics before the row is made.
QueryFails(c) ==
  /\ authCall[c] # NoCall
  /\ Becomes(c, NoCall)
  /\ UNCHANGED <<users, sessions, tokens, newest, wroteBack>>

\* 24 hours without a login or a check.
SessionExpires(u) ==
  /\ sessions[u] # 0
  /\ sessions' = [sessions EXCEPT ![u] = 0]
  /\ UNCHANGED <<users, tokens, authCall, newest, wroteBack>>

AccountsInit ==
  /\ users = <<>> /\ sessions = [u \in UserIds |-> 0] /\ tokens = <<>>
  /\ authCall = [c \in AuthCalls |-> NoCall] /\ newest = [u \in UserIds |-> 0]
  /\ wroteBack = {}

AccountsNext ==
  \/ \E c \in AuthCalls, e \in Emails, w \in Passwords :
       EmailPasswordRegister(c, e, w) \/ EmailPasswordLogin(c, e, w)
  \/ \E c \in AuthCalls, t \in DOMAIN tokens : AuthCheck(c, t)
  \/ \E c \in AuthCalls :
       CreateUser(c) \/ StoreSession(c) \/ RefreshSession(c) \/ QueryFails(c)
  \/ \E u \in UserIds : SessionExpires(u)

AccountsSpec == AccountsInit /\ [][AccountsNext]_accountVars

-----------------------------------------------------------------------------
\* The session holds the token of the user's last login, or has expired,
\* unless a token check read it before a login, or its expiry, and wrote it
\* back after: then the newer token is refused and the older one works again.
SessionIsNewest ==
  \A u \in UserIds \ wroteBack : sessions[u] \in {0, newest[u]}
=============================================================================
