---------------------------- MODULE SoapSessions ----------------------------
(***************************************************************************)
(* The sessions of a SessionClient (session_client.py): opened and logged  *)
(* in by the authenticator (authenticator.py), exported as a pair, resumed *)
(* from a stored pair, also after a restart of the program, and closed     *)
(* (session/soap_session.py).                                              *)
(*                                                                         *)
(* BroadWorks ties a login to two values, the JSESSIONID cookie, which its *)
(* web server gives out, and the OCI-P session id, which the session makes *)
(* up.  The client itself keeps no list of sessions, so any number of      *)
(* logins and resumed sessions run at once.  An action is one round trip,  *)
(* or a call without one.                                                  *)
(***************************************************************************)
EXTENDS Integers, FiniteSets

CONSTANTS
    Sessions,  \* identities of session atoms, and of the ids they make up
    Users,     \* who logs in
    Nobody     \* no user yet, no id yet

ASSUME SoapAssumption == IsFiniteSet(Sessions) /\ Nobody \notin Sessions \cup Users

VARIABLES
    tls,        \* tls of the client: which login flow it uses
    stage,      \* life of each session
    connected,  \* sessions whose httpx client is open
    user,       \* whom each session was opened for
    sid,        \* session_id of each session
    jar,        \* its JSESSIONID cookie, 0 for none
    nonce,      \* the nonce its login signs with, 0 for none
    store,      \* pairs the callers have exported, with the user they belong to
    cookies,    \* cookies the server has given out
    nonces,     \* nonces the server has given out
    challenge,  \* the nonce the server expects to be signed for each session id
    logins      \* history: logins the server has accepted

serverVars == <<cookies, nonces, challenge, logins>>
vars == <<tls, stage, connected, user, sid, jar, nonce, store,
          cookies, nonces, challenge, logins>>

LoggingIn == {"auth", "login"}
Stages == LoggingIn \cup {"none", "open", "closed", "abandoning", "failed"}

\* At most one cookie and one nonce for each session that is opened.
Limit == Cardinality(Sessions)
Pairs == [cookie : 1..Limit, sid : Sessions, user : Users]

Init ==
    /\ tls \in BOOLEAN
    /\ stage = [s \in Sessions |-> "none"]
    /\ connected = {}
    /\ user = [s \in Sessions |-> Nobody]
    /\ sid = [s \in Sessions |-> Nobody]
    /\ jar = [s \in Sessions |-> 0]
    /\ nonce = [s \in Sessions |-> 0]
    /\ store = {}
    /\ cookies = 0
    /\ nonces = 0
    /\ challenge = [s \in Sessions |-> 0]
    /\ logins = {}

-----------------------------------------------------------------------------
(* open(): a new session and its login. *)

\* A session id is made up for the new session; nothing is sent yet.
Open(s, u) ==
    /\ stage[s] = "none"
    /\ stage' = [stage EXCEPT ![s] = IF tls THEN "login" ELSE "auth"]
    /\ connected' = connected \cup {s}
    /\ user' = [user EXCEPT ![s] = u]
    /\ sid' = [sid EXCEPT ![s] = s]
    /\ UNCHANGED <<tls, jar, nonce, store, serverVars>>

\* The web server gives a cookie with its first answer.
TakeCookie(s) ==
    IF jar[s] = 0
    THEN cookies' = cookies + 1 /\ jar' = [jar EXCEPT ![s] = cookies + 1]
    ELSE UNCHANGED <<cookies, jar>>

SharedNonce(s) ==                                                  \* mutant
    nonce' = [r \in Sessions |-> nonces + 1]

\* auth_resp.nonce is local to this login, the authenticator keeps nothing.
KeepNonce(s) == nonce' = [nonce EXCEPT ![s] = nonces + 1]

\* The answer to the AuthenticationRequest.
Authenticated(s) ==
    /\ stage[s] = "auth"
    /\ TakeCookie(s)
    /\ nonces' = nonces + 1
    /\ challenge' = [challenge EXCEPT ![sid[s]] = nonces + 1]
    /\ KeepNonce(s)
    /\ stage' = [stage EXCEPT ![s] = "login"]
    /\ UNCHANGED <<tls, connected, user, sid, store, logins>>

\* The login is accepted and the session is handed to the caller.
LoginAccepted(s) ==
    /\ stage[s] = "login"
    /\ tls \/ nonce[s] = challenge[sid[s]]
    /\ TakeCookie(s)
    /\ logins' = logins \cup {[cookie |-> jar'[s], sid |-> sid[s], user |-> user[s]]}
    /\ stage' = [stage EXCEPT ![s] = "open"]
    /\ UNCHANGED <<tls, connected, user, sid, nonce, store, nonces, challenge>>

LoginFailedLeaks(s) ==                                             \* mutant
    /\ stage[s] \in LoggingIn
    /\ stage' = [stage EXCEPT ![s] = "failed"]
    /\ UNCHANGED <<tls, connected, user, sid, jar, nonce, store, serverVars>>

\* A step of the login is rejected, breaks, times out or is cancelled: the
\* session is closed before the error goes on.
LoginFailed(s) ==
    /\ stage[s] \in LoggingIn
    /\ stage' = [stage EXCEPT ![s] = "abandoning"]
    /\ connected' = connected \ {s}
    /\ UNCHANGED <<tls, user, sid, jar, nonce, store, serverVars>>

Abandoned(s) ==
    /\ stage[s] = "abandoning"
    /\ stage' = [stage EXCEPT ![s] = "failed"]
    /\ UNCHANGED <<tls, connected, user, sid, jar, nonce, store, serverVars>>

-----------------------------------------------------------------------------
(* pair, resume() and close() *)

Pair(s) == [cookie |-> jar[s], sid |-> sid[s], user |-> user[s]]

\* The caller stores the pair; a closed session still has it.
Export(s) ==
    /\ stage[s] \in {"open", "closed"}
    /\ jar[s] # 0
    /\ store' = store \cup {Pair(s)}
    /\ UNCHANGED <<tls, stage, connected, user, sid, jar, nonce, serverVars>>

ResumeKeepsOwnId(s, pair) ==                                       \* mutant
    /\ stage[s] = "none"
    /\ pair \in store
    /\ stage' = [stage EXCEPT ![s] = "open"]
    /\ connected' = connected \cup {s}
    /\ user' = [user EXCEPT ![s] = pair.user]
    /\ sid' = [sid EXCEPT ![s] = s]
    /\ jar' = [jar EXCEPT ![s] = pair.cookie]
    /\ UNCHANGED <<tls, nonce, store, serverVars>>

\* A new session takes the identity of a stored pair, without a login.
Resume(s, pair) ==
    /\ stage[s] = "none"
    /\ pair \in store
    /\ stage' = [stage EXCEPT ![s] = "open"]
    /\ connected' = connected \cup {s}
    /\ user' = [user EXCEPT ![s] = pair.user]
    /\ sid' = [sid EXCEPT ![s] = pair.sid]
    /\ jar' = [jar EXCEPT ![s] = pair.cookie]
    /\ UNCHANGED <<tls, nonce, store, serverVars>>

CloseForgetsId(s) ==                                               \* mutant
    /\ stage[s] = "open"
    /\ stage' = [stage EXCEPT ![s] = "closed"]
    /\ connected' = connected \ {s}
    /\ sid' = [sid EXCEPT ![s] = Nobody]
    /\ UNCHANGED <<tls, user, jar, nonce, store, serverVars>>

\* close() lets go of the transport; nobody logs out.
Close(s) ==
    /\ stage[s] = "open"
    /\ stage' = [stage EXCEPT ![s] = "closed"]
    /\ connected' = connected \ {s}
    /\ UNCHANGED <<tls, user, sid, jar, nonce, store, serverVars>>

\* The program ends and starts again: sessions are gone, stored pairs are not.
Restart ==
    /\ \E s \in Sessions : stage[s] \notin {"none", "failed"}
    /\ stage' = [s \in Sessions |-> IF stage[s] = "none" THEN "none" ELSE "failed"]
    /\ connected' = {}
    /\ UNCHANGED <<tls, user, sid, jar, nonce, store, serverVars>>

-----------------------------------------------------------------------------

Terminated ==
    /\ \A s \in Sessions : stage[s] \in {"closed", "failed"}
    /\ UNCHANGED vars

Next ==
    \/ \E s \in Sessions, u \in Users : Open(s, u)
    \/ \E s \in Sessions : \/ Authenticated(s) \/ LoginAccepted(s)
                           \/ LoginFailed(s) \/ Abandoned(s)
                           \/ Export(s) \/ Close(s)
    \/ \E s \in Sessions : \E pair \in store : Resume(s, pair)
    \/ Restart
    \/ Terminated

Spec == Init /\ [][Next]_vars

-----------------------------------------------------------------------------
(* Properties *)

\* The type invariant of the sessions, the stored pairs and the server.
TypeOK ==
    /\ tls \in BOOLEAN
    /\ stage \in [Sessions -> Stages]
    /\ connected \in SUBSET Sessions
    /\ user \in [Sessions -> Users \cup {Nobody}]
    /\ sid \in [Sessions -> Sessions \cup {Nobody}]
    /\ jar \in [Sessions -> 0..cookies]
    /\ nonce \in [Sessions -> 0..nonces]
    /\ cookies \in 0..Limit /\ nonces \in 0..Limit
    /\ challenge \in [Sessions -> 0..nonces]
    /\ store \in SUBSET Pairs /\ logins \in SUBSET Pairs

\* The cookie and the session id a session sends belong to one login of its
\* own user, through any chain of export, close, restart and resume: the
\* server rejects one value without the other.
PairIsOneLogin == \A s \in Sessions : stage[s] = "open" => Pair(s) \in logins

\* Logins that run at once, through one authenticator or several, never sign
\* with the nonce of another session.
OwnNonce ==
    \A s \in Sessions : stage[s] = "login" /\ ~tls => nonce[s] = challenge[sid[s]]

\* Whoever raises or is cancelled, no httpx client stays open unless a login
\* is under way or a caller was handed the session.
NoLeakedTransport ==
    \A s \in connected : stage[s] \in LoggingIn \cup {"open"}

=============================================================================
