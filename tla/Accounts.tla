----------------------------- MODULE Accounts -----------------------------
(***************************************************************************)
(* The account of one user: logins through GitLab, sessions and the        *)
(* requests that renew them, the GitLab credential with its rotating       *)
(* refresh token (oauth/service.go, postgres/oauth/repository.go), and the *)
(* directory refreshes that end all of it when the user leaves the project *)
(* (RefreshDirectory, ReplaceDirectory).                                   *)
(*                                                                         *)
(* A session has the number of its login.  GitLab takes a refresh token    *)
(* once; a token pair has the number in which GitLab issued it.            *)
(***************************************************************************)
EXTENDS Integers, Sequences

CONSTANTS Calls,        \* requests and workers that need the user's token
          Requests,     \* requests that come with a session
          SessionTTL, StateTTL, TokenTTL,
          MaxClock,     \* bound: the clock
          MaxLogins,    \* bound: logins
          MaxPairs,     \* bound: token pairs
          MaxMoves      \* bound: times the user leaves or joins the project

ASSUME AccountsAssumption ==
    /\ SessionTTL \in Nat \ {0} /\ StateTTL \in Nat \ {0} /\ TokenTTL \in Nat
    /\ MaxClock \in Nat /\ MaxLogins \in Nat /\ MaxPairs \in Nat /\ MaxMoves \in Nat

VARIABLES now,
          member,      \* the user is an active member of the project
          moves,       \* counts its changes
          pairs,       \* the token pairs of the user
          logins,      \* the logins, each with its row of oauth_states
          sessions,    \* expires_at in auth_sessions, 0 without a row
          request,     \* what each request is doing with its session
          credential,  \* the pair in gitlab_oauth_credentials, 0 without a row
          call,        \* AccessToken, for each caller
          lost,        \* pairs whose successor never reached the database
          refreshing   \* RefreshDirectory, of Run and of a webhook worker

accountVars == <<now, member, moves, pairs, logins, sessions, request, credential, call, lost, refreshing>>

Refreshers == {"run", "webhook"}
Asking(at, session, until, asked) == [at |-> at, session |-> session, until |-> until, asked |-> asked]
Resting == Asking("resting", 0, 0, 0)
Calling(at, pair, next) == [at |-> at, pair |-> pair, next |-> next]
Quiet == Calling("quiet", 0, 0)

AccountInit ==
    /\ now = 1 /\ member = TRUE /\ moves = 0 /\ pairs = <<>> /\ logins = <<>>
    /\ sessions = [l \in 1 .. MaxLogins |-> 0]
    /\ request = [r \in Requests |-> Resting]
    /\ credential = 0 /\ call = [c \in Calls |-> Quiet] /\ lost = {}
    /\ refreshing = [x \in Refreshers |-> "waiting"]

Issued == [spent |-> FALSE, until |-> now + TokenTTL]

-----------------------------------------------------------------------------
(* Logins *)

Login(at, until, pair) == [at |-> at, until |-> until, pair |-> pair]
Moved(l, at) == [logins EXCEPT ![l] = Login(at, logins[l].until, logins[l].pair)]

Start ==
    /\ Len(logins) < MaxLogins
    /\ logins' = Append(logins, Login("stored", now + StateTTL, 0))
    /\ UNCHANGED <<now, member, moves, pairs, sessions, request, credential, call, lost, refreshing>>

\* ConsumeOAuthState takes the row, expired or not.
ConsumeState(l) ==
    /\ logins[l].at = "stored"
    /\ logins' = Moved(l, IF now < logins[l].until THEN "consumed" ELSE "refused")
    /\ UNCHANGED <<now, member, moves, pairs, sessions, request, credential, call, lost, refreshing>>

\* ExchangeIdentity: the tokens, and then who the user is.
ExchangeIdentity(l) ==
    /\ logins[l].at = "consumed" /\ Len(pairs) < MaxPairs
    /\ pairs' = Append(pairs, Issued)
    /\ logins' = [logins EXCEPT ![l] = Login(IF member THEN "answered" ELSE "refused",
                                             logins[l].until, Len(pairs) + 1)]
    /\ UNCHANGED <<now, member, moves, sessions, request, credential, call, lost, refreshing>>

\* The transaction of Complete.
CreateSession(l) ==
    /\ logins[l].at = "answered"
    /\ logins' = Moved(l, "done")
    /\ credential' = logins[l].pair
    /\ sessions' = [sessions EXCEPT ![l] = now + SessionTTL]
    /\ UNCHANGED <<now, member, moves, pairs, request, call, lost, refreshing>>

\* GitLab or the database fails, or the server crashes, in Complete.
LoginFails(l) ==
    /\ logins[l].at \in {"consumed", "answered"}
    /\ logins' = Moved(l, "refused")
    /\ UNCHANGED <<now, member, moves, pairs, sessions, request, credential, call, lost, refreshing>>

-----------------------------------------------------------------------------
(* Sessions *)

\* VerifySession: the row is read, the clock after it, and the row is written.
ReadSession(r, l) ==
    /\ request[r].at = "resting" /\ sessions[l] # 0
    /\ request' = [request EXCEPT ![r] = Asking("read", l, sessions[l], 0)]
    /\ UNCHANGED <<now, member, moves, pairs, logins, sessions, credential, call, lost, refreshing>>

LookAtClock(r) ==
    /\ request[r].at = "read"
    /\ request' = [request EXCEPT ![r] = Asking(IF now < request[r].until THEN "valid" ELSE "expired",
                                               request[r].session, request[r].until, now)]
    /\ UNCHANGED <<now, member, moves, pairs, logins, sessions, credential, call, lost, refreshing>>

\* TouchSession finds the row if it is there and valid.
TouchSession(r) ==
    /\ request[r].at = "valid"
    /\ request' = [request EXCEPT ![r] = Resting]
    /\ sessions' = [sessions EXCEPT ![request[r].session] =
                        IF @ > request[r].asked THEN request[r].asked + SessionTTL ELSE @]
    /\ UNCHANGED <<now, member, moves, pairs, logins, credential, call, lost, refreshing>>

\* Mutant: the row is deleted by what was read of it, though it may be renewed since.
DeleteBlindly(r) ==
    /\ request[r].at = "expired"
    /\ request' = [request EXCEPT ![r] = Resting]
    /\ sessions' = [sessions EXCEPT ![request[r].session] = 0]
    /\ UNCHANGED <<now, member, moves, pairs, logins, credential, call, lost, refreshing>>

\* The row is deleted if it is expired still.
DeleteExpiredSession(r) ==
    /\ request[r].at = "expired"
    /\ request' = [request EXCEPT ![r] = Resting]
    /\ sessions' = [sessions EXCEPT ![request[r].session] = IF @ <= now THEN 0 ELSE @]
    /\ UNCHANGED <<now, member, moves, pairs, logins, credential, call, lost, refreshing>>

Logout(l) ==
    /\ sessions[l] # 0 /\ sessions' = [sessions EXCEPT ![l] = 0]
    /\ UNCHANGED <<now, member, moves, pairs, logins, request, credential, call, lost, refreshing>>

\* Expired states and sessions.
Prune ==
    /\ logins' = [l \in DOMAIN logins |-> IF logins[l].at = "stored" /\ logins[l].until < now
                                          THEN Login("refused", logins[l].until, 0) ELSE logins[l]]
    /\ sessions' = [l \in DOMAIN sessions |-> IF sessions[l] < now THEN 0 ELSE sessions[l]]
    /\ UNCHANGED <<now, member, moves, pairs, request, credential, call, lost, refreshing>>

-----------------------------------------------------------------------------
(* The credential *)

\* AccessToken with an access token that is about to expire.
LoadCredential(c) ==
    /\ call[c].at = "quiet" /\ credential # 0 /\ pairs[credential].until <= now
    /\ call' = [call EXCEPT ![c] = Calling("loaded", credential, 0)]
    /\ UNCHANGED <<now, member, moves, pairs, logins, sessions, request, credential, lost, refreshing>>

\* GitLab takes the refresh token and issues the next pair.
Used(p) == [spent |-> TRUE, until |-> pairs[p].until]
Rotated(p) == Append([pairs EXCEPT ![p] = Used(p)], Issued)

RefreshToken(c) ==
    /\ call[c].at = "loaded" /\ ~pairs[call[c].pair].spent /\ Len(pairs) < MaxPairs
    /\ pairs' = Rotated(call[c].pair)
    /\ call' = [call EXCEPT ![c] = Calling("refreshed", call[c].pair, Len(pairs) + 1)]
    /\ UNCHANGED <<now, member, moves, logins, sessions, request, credential, lost, refreshing>>

\* GitLab has seen this token before, or cannot be reached.
RefreshFails(c) ==
    /\ call[c].at = "loaded"
    /\ call' = [call EXCEPT ![c] = Quiet]
    /\ UNCHANGED <<now, member, moves, pairs, logins, sessions, request, credential, lost, refreshing>>

\* The answer is lost, with the pair in it.
RefreshAnswerLost(c) ==
    /\ call[c].at = "loaded" /\ ~pairs[call[c].pair].spent /\ Len(pairs) < MaxPairs
    /\ pairs' = Rotated(call[c].pair)
    /\ lost' = lost \cup {call[c].pair}
    /\ call' = [call EXCEPT ![c] = Quiet]
    /\ UNCHANGED <<now, member, moves, logins, sessions, request, credential, refreshing>>

\* Mutant: the access token alone is stored, next to the old refresh token.
StoreAccessToken(c) ==
    /\ call[c].at = "refreshed"
    /\ credential' = call[c].pair
    /\ call' = [call EXCEPT ![c] = Quiet]
    /\ UNCHANGED <<now, member, moves, pairs, logins, sessions, request, lost, refreshing>>

\* UpsertOAuthCredential, whatever row is there.
StoreRefreshed(c) ==
    /\ call[c].at = "refreshed"
    /\ credential' = call[c].next
    /\ call' = [call EXCEPT ![c] = Quiet]
    /\ UNCHANGED <<now, member, moves, pairs, logins, sessions, request, lost, refreshing>>

\* The database fails or the server crashes.
StoreFails(c) ==
    /\ call[c].at = "refreshed"
    /\ lost' = lost \cup {call[c].pair}
    /\ call' = [call EXCEPT ![c] = Quiet]
    /\ UNCHANGED <<now, member, moves, pairs, logins, sessions, request, credential, refreshing>>

-----------------------------------------------------------------------------
(* The directory *)

\* RefreshDirectory has the members of the project from GitLab.
ReadMembers(x) ==
    /\ refreshing[x] = "waiting"
    /\ refreshing' = [refreshing EXCEPT ![x] = IF member THEN "member" ELSE "left"]
    /\ UNCHANGED <<now, member, moves, pairs, logins, sessions, request, credential, call, lost>>

\* Mutant: the sessions end, and the credentials stay.
EndSessionsOnly(x) ==
    /\ refreshing[x] # "waiting"
    /\ refreshing' = [refreshing EXCEPT ![x] = "waiting"]
    /\ sessions' = IF refreshing[x] = "left" THEN [l \in DOMAIN sessions |-> 0] ELSE sessions
    /\ UNCHANGED <<now, member, moves, pairs, logins, request, credential, call, lost>>

\* ReplaceDirectory ends the sessions and takes the credentials of users who
\* are not active members in the new snapshot, whether or not in the old one.
ReplaceDirectory(x) ==
    /\ refreshing[x] # "waiting"
    /\ refreshing' = [refreshing EXCEPT ![x] = "waiting"]
    /\ sessions' = IF refreshing[x] = "left" THEN [l \in DOMAIN sessions |-> 0] ELSE sessions
    /\ credential' = IF refreshing[x] = "left" THEN 0 ELSE credential
    /\ UNCHANGED <<now, member, moves, pairs, logins, request, call, lost>>

\* The refresh fails; a webhook's is tried again, as a delivery.
RefreshDirectoryFails(x) ==
    /\ refreshing[x] # "waiting"
    /\ refreshing' = [refreshing EXCEPT ![x] = "waiting"]
    /\ UNCHANGED <<now, member, moves, pairs, logins, sessions, request, credential, call, lost>>

-----------------------------------------------------------------------------
(* GitLab and the clock *)

LeaveOrJoin ==
    /\ moves < MaxMoves /\ moves' = moves + 1
    /\ member' = ~member
    /\ UNCHANGED <<now, pairs, logins, sessions, request, credential, call, lost, refreshing>>

TimePasses ==
    /\ now < MaxClock /\ now' = now + 1
    /\ UNCHANGED <<member, moves, pairs, logins, sessions, request, credential, call, lost, refreshing>>

AccountNext ==
    \/ Start \/ Prune \/ LeaveOrJoin \/ TimePasses
    \/ \E l \in DOMAIN logins : \/ ConsumeState(l) \/ ExchangeIdentity(l) \/ CreateSession(l)
                                \/ LoginFails(l) \/ Logout(l)
                                \/ \E r \in Requests : ReadSession(r, l)
    \/ \E r \in Requests : LookAtClock(r) \/ TouchSession(r) \/ DeleteExpiredSession(r)
    \/ \E c \in Calls : \/ LoadCredential(c) \/ RefreshToken(c) \/ RefreshFails(c)
                        \/ RefreshAnswerLost(c) \/ StoreRefreshed(c) \/ StoreFails(c)
    \/ \E x \in Refreshers : ReadMembers(x) \/ ReplaceDirectory(x) \/ RefreshDirectoryFails(x)

\* The ticker of Run comes again whatever a refresh ended with, and one in so
\* many refreshes succeeds.
AccountFairness == WF_accountVars(ReadMembers("run")) /\ SF_accountVars(ReplaceDirectory("run"))

AccountSpec == AccountInit /\ [][AccountNext]_accountVars /\ AccountFairness

-----------------------------------------------------------------------------
(* Properties *)

LoginRow == [at : {"stored", "consumed", "answered", "done", "refused"}, until : Nat, pair : Nat]
CallState == [at : {"quiet", "loaded", "refreshed"}, pair : Nat, next : Nat]
RequestState == [at : {"resting", "read", "valid", "expired"}, session : Nat, until : Nat, asked : Nat]

\* The types; every pair that the server has is one that GitLab issued.
AccountTypeOK ==
    /\ now \in Nat /\ member \in BOOLEAN /\ moves \in Nat
    /\ pairs \in Seq([spent : BOOLEAN, until : Nat])
    /\ logins \in Seq(LoginRow) /\ Len(logins) <= MaxLogins
    /\ \A l \in DOMAIN logins : logins[l].pair <= Len(pairs)
    /\ sessions \in [1 .. MaxLogins -> Nat]
    /\ request \in [Requests -> RequestState]
    /\ credential \in 0 .. Len(pairs)
    /\ call \in [Calls -> CallState]
    /\ \A c \in Calls : call[c].pair <= Len(pairs) /\ call[c].next <= Len(pairs)
    /\ lost \subseteq 1 .. Len(pairs)
    /\ refreshing \in [Refreshers -> {"waiting", "member", "left"}]

\* "Rotating refresh tokens" (ARCHITECTURE.md:35): however the user's requests,
\* workers and logins refresh and store tokens at the same time, the stored
\* refresh token is one GitLab still takes, or the caller that used it is
\* about to store the next, or that one was lost on its way to the database.
CredentialWorks ==
    credential # 0 /\ pairs[credential].spent =>
        \/ credential \in lost
        \/ \E c \in Calls : call[c].at = "refreshed" /\ call[c].pair = credential

\* Who has left the project is signed out and has no token here in the end,
\* also if a login or a refresh of the token was going on at the time.
LeaversAreSignedOut ==
    <>[]~member => <>[](credential = 0 /\ \A l \in DOMAIN sessions : sessions[l] = 0)

\* A session that a request has renewed ends before its time only when the
\* user logs out or has left the project, whatever another request has read
\* of it before; and one that has ended does not come back.
SessionsRunTheirTime ==
    [][\A l \in DOMAIN sessions :
        /\ sessions[l] > now /\ sessions'[l] = 0 =>
               Logout(l) \/ \E x \in Refreshers : refreshing[x] = "left" /\ refreshing'[x] = "waiting"
        /\ sessions[l] = 0 /\ sessions'[l] # 0 => logins[l].at = "answered"]_accountVars

\* service.go:464-468: "sign out and sign in again", when a refresh fails.
SignInIsNeeded ==
    [][\A c \in Calls : RefreshFails(c) /\ pairs[call[c].pair].spent =>
            credential = 0 \/ pairs[credential].spent]_accountVars
=============================================================================
