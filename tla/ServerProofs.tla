---------------------------- MODULE ServerProofs ----------------------------
(***************************************************************************)
(* Proofs about the parts of the server that talk to GitLab.  The stored   *)
(* refresh token works, and sessions end, whatever callers, logins and     *)
(* directory refreshes do at the same time (Accounts).  The overlap of     *)
(* delta reads is enough: whatever is read, lost, repeated or crashes, a   *)
(* card the board lacks is not behind the next delta read (BoardIntake).   *)
(* Both for any number of actors, cards and deliveries.                    *)
(***************************************************************************)
EXTENDS Accounts, BoardIntake, TLAPS, WellFoundedInduction

-----------------------------------------------------------------------------
(* Accounts *)

Pair == [spent : BOOLEAN, until : Nat]

\* A login, or a caller, with a pair that is not stored yet.
OfLogin(l, p) == logins[l].at = "answered" /\ logins[l].pair = p
OfCall(c, p) == call[c].at = "refreshed" /\ call[c].next = p

\* Nobody has used it, and nobody can.
Unseen(p) == /\ p \in 1 .. Len(pairs) /\ ~pairs[p].spent
             /\ credential # p /\ \A c \in Calls : call[c].pair # p

\* Who has a pair that is not stored yet has it alone.
LoginsAlone == \A l \in DOMAIN logins : \A p \in Nat : OfLogin(l, p) =>
    /\ Unseen(p)
    /\ \A k \in DOMAIN logins : k # l => ~OfLogin(k, p)
    /\ \A c \in Calls : ~OfCall(c, p)

CallsAlone == \A c \in Calls : \A p \in Nat : OfCall(c, p) =>
    /\ Unseen(p)
    /\ \A d \in Calls : d # c => ~OfCall(d, p)

CallersHavePairs == \A c \in Calls : call[c].at # "quiet" => call[c].pair # 0

AccountInv == AccountTypeOK /\ CallersHavePairs /\ LoginsAlone /\ CallsAlone /\ CredentialWorks

-----------------------------------------------------------------------------
(* Types *)

LEMMA AccountBegins == AccountInit => AccountInv
<1> SUFFICES ASSUME AccountInit PROVE AccountInv
  OBVIOUS
<1>1. pairs \in Seq(Pair) /\ Len(pairs) = 0 /\ logins \in Seq(LoginRow) /\ DOMAIN logins = {}
  BY DEF AccountInit
<1>2. request \in [Requests -> RequestState] /\ call \in [Calls -> CallState]
  BY DEF AccountInit, RequestState, CallState, Resting, Asking, Quiet, Calling
<1>3. \A c \in Calls : call[c].pair = 0 /\ call[c].next = 0 /\ call[c].at = "quiet"
  BY DEF AccountInit, Quiet, Calling
<1>4. AccountTypeOK
  BY <1>1, <1>2, <1>3, AccountsAssumption DEF AccountInit, AccountTypeOK, Pair
<1> QED BY <1>1, <1>3, <1>4 DEF AccountInit, AccountInv, CallersHavePairs,
           LoginsAlone, CallsAlone, CredentialWorks, OfCall

\* The parts of the state that requests with a session and the clock change.
LEMMA SessionTypes ==
    ASSUME AccountTypeOK, AccountNext
    PROVE  /\ now' \in Nat /\ member' \in BOOLEAN /\ moves' \in Nat
           /\ sessions' \in [1 .. MaxLogins -> Nat] /\ request' \in [Requests -> RequestState]
           /\ refreshing' \in [Refreshers -> {"waiting", "member", "left"}]
<1> USE AccountsAssumption DEF AccountsAssumption
<1>1. CASE UNCHANGED <<now, member, moves, request, refreshing>> /\ UNCHANGED sessions
  BY <1>1 DEF AccountTypeOK
<1>2. CASE Start \/ LeaveOrJoin \/ TimePasses
  <2>1. member' \in BOOLEAN
    BY <1>2, Zenon DEF AccountTypeOK, Start, LeaveOrJoin, TimePasses
  <2>2. /\ now' \in Nat /\ moves' \in Nat /\ UNCHANGED <<sessions, request, refreshing>>
    BY <1>2 DEF AccountTypeOK, Start, LeaveOrJoin, TimePasses
  <2> QED BY <2>1, <2>2 DEF AccountTypeOK
<1>3. CASE Prune
  BY <1>3 DEF AccountTypeOK, Prune
<1>4. ASSUME NEW l \in DOMAIN logins, CreateSession(l) \/ Logout(l)
      PROVE  sessions' \in [1 .. MaxLogins -> Nat] /\ UNCHANGED <<now, member, moves, request, refreshing>>
  <2>1. CASE CreateSession(l)
    BY <2>1 DEF AccountTypeOK, CreateSession
  <2>2. CASE Logout(l)
    BY <2>2 DEF AccountTypeOK, Logout
  <2> QED BY <1>4, <2>1, <2>2
<1>5. ASSUME NEW r \in Requests, NEW l \in DOMAIN logins, ReadSession(r, l)
      PROVE  request' \in [Requests -> RequestState] /\ UNCHANGED <<now, member, moves, sessions, refreshing>>
  <2>1. l \in Nat /\ sessions[l] \in Nat
    BY DEF AccountTypeOK
  <2>2. Asking("read", l, sessions[l], 0) \in RequestState
    BY <2>1 DEF RequestState, Asking
  <2> QED BY <1>5, <2>2 DEF AccountTypeOK, ReadSession
<1>6. ASSUME NEW r \in Requests, LookAtClock(r) \/ TouchSession(r) \/ DeleteExpiredSession(r)
      PROVE  /\ request' \in [Requests -> RequestState] /\ sessions' \in [1 .. MaxLogins -> Nat]
             /\ UNCHANGED <<now, member, moves, refreshing>>
  <2>1. request[r] \in RequestState
    BY DEF AccountTypeOK
  <2>2. CASE LookAtClock(r)
    <3>1. \A at \in {"valid", "expired"} :
              Asking(at, request[r].session, request[r].until, now) \in RequestState
      BY <2>1 DEF RequestState, Asking, AccountTypeOK
    <3>2. PICK at \in {"valid", "expired"} :
              request' = [request EXCEPT ![r] = Asking(at, request[r].session, request[r].until, now)]
      BY <2>2 DEF LookAtClock
    <3> QED BY <2>2, <3>1, <3>2 DEF LookAtClock, AccountTypeOK
  <2>3. Resting \in RequestState
    BY DEF RequestState, Asking, Resting
  <2>4. CASE TouchSession(r)
    <3>1. request[r].asked + SessionTTL \in Nat
      BY <2>1 DEF RequestState
    <3>2. sessions' \in [1 .. MaxLogins -> Nat]
      BY <2>4, <3>1 DEF TouchSession, AccountTypeOK
    <3> QED BY <2>3, <2>4, <3>2 DEF TouchSession, AccountTypeOK
  <2>5. CASE DeleteExpiredSession(r)
    <3>1. sessions' \in [1 .. MaxLogins -> Nat]
      BY <2>5 DEF DeleteExpiredSession, AccountTypeOK
    <3> QED BY <2>3, <2>5, <3>1 DEF DeleteExpiredSession, AccountTypeOK
  <2> QED BY <1>6, <2>2, <2>4, <2>5
<1>7. ASSUME NEW x \in Refreshers, ReadMembers(x) \/ ReplaceDirectory(x) \/ RefreshDirectoryFails(x)
      PROVE  /\ refreshing' \in [Refreshers -> {"waiting", "member", "left"}]
             /\ sessions' \in [1 .. MaxLogins -> Nat] /\ UNCHANGED <<now, member, moves, request>>
  <2>1. CASE ReadMembers(x)
    BY <2>1 DEF AccountTypeOK, ReadMembers
  <2>2. CASE ReplaceDirectory(x)
    BY <2>2 DEF AccountTypeOK, ReplaceDirectory
  <2>3. CASE RefreshDirectoryFails(x)
    BY <2>3 DEF AccountTypeOK, RefreshDirectoryFails
  <2> QED BY <1>7, <2>1, <2>2, <2>3
<1>8. ASSUME NEW l \in DOMAIN logins, ConsumeState(l) \/ ExchangeIdentity(l) \/ LoginFails(l)
      PROVE  UNCHANGED <<now, member, moves, request, refreshing, sessions>>
  BY <1>8 DEF ConsumeState, ExchangeIdentity, LoginFails
<1>9. ASSUME NEW c \in Calls, \/ LoadCredential(c) \/ RefreshToken(c) \/ RefreshFails(c)
                              \/ RefreshAnswerLost(c) \/ StoreRefreshed(c) \/ StoreFails(c)
      PROVE  UNCHANGED <<now, member, moves, request, refreshing, sessions>>
  BY <1>9 DEF LoadCredential, RefreshToken, RefreshFails, RefreshAnswerLost, StoreRefreshed, StoreFails
<1> QED BY <1>1, <1>2, <1>3, <1>4, <1>5, <1>6, <1>7, <1>8, <1>9 DEF AccountNext, AccountTypeOK

-----------------------------------------------------------------------------
(* Pairs *)

\* What AccountInv says of the pairs and of who has them.
Core ==
    /\ pairs \in Seq(Pair) /\ now \in Nat
    /\ logins \in Seq(LoginRow) /\ Len(logins) <= MaxLogins
    /\ \A l \in DOMAIN logins : logins[l].pair <= Len(pairs)
    /\ credential \in 0 .. Len(pairs)
    /\ call \in [Calls -> CallState]
    /\ \A c \in Calls : call[c].pair <= Len(pairs) /\ call[c].next <= Len(pairs)
    /\ lost \subseteq 1 .. Len(pairs)
    /\ CallersHavePairs /\ LoginsAlone /\ CallsAlone /\ CredentialWorks

LEMMA LoginFields ==
    ASSUME NEW at \in {"stored", "consumed", "answered", "done", "refused"}, NEW until \in Nat,
           NEW pair \in Nat
    PROVE  /\ Login(at, until, pair) \in LoginRow
           /\ Login(at, until, pair).at = at /\ Login(at, until, pair).pair = pair
BY DEF Login, LoginRow

LEMMA LoginTypes ==
    ASSUME Core, NEW l \in DOMAIN logins
    PROVE  /\ logins[l] \in LoginRow /\ logins[l].until \in Nat /\ logins[l].pair \in Nat
           /\ logins[l].pair <= Len(pairs) /\ l \in 1 .. Len(logins)
<1>1. logins[l] \in LoginRow /\ l \in 1 .. Len(logins)
  BY DEF Core
<1> QED BY <1>1 DEF Core, LoginRow

\* A login that gets no pair and gives none away: as before, or refused.
LEMMA LoginsKeep ==
    ASSUME Core, UNCHANGED <<pairs, credential, call, lost>>, now' \in Nat,
           logins' \in Seq(LoginRow), Len(logins') <= MaxLogins,
           \A l \in DOMAIN logins' :
               \/ logins'[l].at # "answered" /\ logins'[l].pair <= Len(pairs)
               \/ l \in DOMAIN logins /\ logins'[l] = logins[l]
    PROVE  Core'
<1>1. \A l \in DOMAIN logins' : logins'[l].pair <= Len(pairs)
  BY DEF Core
<1>2. \A l \in DOMAIN logins', p \in Nat : OfLogin(l, p)' => l \in DOMAIN logins /\ OfLogin(l, p)
  BY DEF OfLogin
<1>3. \A p \in Nat : Unseen(p)' <=> Unseen(p)
  BY DEF Unseen
<1>4. \A c \in Calls, p \in Nat : OfCall(c, p)' <=> OfCall(c, p)
  BY DEF OfCall
<1>5. LoginsAlone'
  BY <1>2, <1>3, <1>4 DEF Core, LoginsAlone
<1>6. CallsAlone'
  BY <1>3, <1>4 DEF Core, CallsAlone
<1>7. CredentialWorks'
  BY DEF Core, CredentialWorks
<1> QED BY <1>1, <1>5, <1>6, <1>7 DEF Core, CallersHavePairs

LEMMA LoginStepsKeep ==
    ASSUME Core, now' \in Nat, AccountsAssumption,
           \/ Start \/ Prune
           \/ \E l \in DOMAIN logins : ConsumeState(l) \/ LoginFails(l)
    PROVE  Core'
<1> USE DEF AccountsAssumption
<1>0. logins \in Seq(LoginRow) /\ Len(logins) <= MaxLogins /\ now \in Nat
  BY DEF Core
<1>1. CASE Start
  <2>1. Login("stored", now + StateTTL, 0) \in LoginRow
    BY <1>0 DEF Login, LoginRow
  <2>2. /\ logins' \in Seq(LoginRow) /\ Len(logins') = Len(logins) + 1
        /\ \A l \in 1 .. Len(logins) : logins'[l] = logins[l]
        /\ logins'[Len(logins) + 1] = Login("stored", now + StateTTL, 0)
    BY <1>0, <1>1, <2>1 DEF Start
  <2>3. \A l \in DOMAIN logins' : l \in DOMAIN logins \/ l = Len(logins) + 1
    BY <1>0, <2>2
  <2>4. Login("stored", now + StateTTL, 0).at # "answered" /\ Login("stored", now + StateTTL, 0).pair = 0
    BY DEF Login
  <2>5. 0 <= Len(pairs) /\ Len(logins') <= MaxLogins
    BY <1>0, <1>1, <2>2 DEF Core, Start
  <2>6. \A l \in DOMAIN logins' : \/ logins'[l].at # "answered" /\ logins'[l].pair <= Len(pairs)
                                  \/ l \in DOMAIN logins /\ logins'[l] = logins[l]
    <3> SUFFICES ASSUME NEW l \in DOMAIN logins'
                 PROVE  \/ logins'[l].at # "answered" /\ logins'[l].pair <= Len(pairs)
                        \/ l \in DOMAIN logins /\ logins'[l] = logins[l]
      OBVIOUS
    <3>1. CASE l \in DOMAIN logins
      <4>1. l \in 1 .. Len(logins)
        BY <1>0, <3>1
      <4> QED BY <2>2, <3>1, <4>1
    <3>2. CASE l = Len(logins) + 1
      <4>1. logins'[l] = Login("stored", now + StateTTL, 0)
        BY <2>2, <3>2
      <4> QED BY <2>4, <2>5, <4>1
    <3> QED BY <2>3, <3>1, <3>2
  <2>7. UNCHANGED <<pairs, credential, call, lost>>
    BY <1>1 DEF Start
  <2> QED BY <2>2, <2>5, <2>6, <2>7, LoginsKeep
<1>2. CASE Prune
  <2>1. \A l \in DOMAIN logins : /\ Login("refused", logins[l].until, 0) \in LoginRow
                                 /\ Login("refused", logins[l].until, 0).at # "answered"
                                 /\ Login("refused", logins[l].until, 0).pair = 0
    BY LoginTypes, LoginFields
  <2>2. /\ DOMAIN logins' = 1 .. Len(logins)
        /\ \A l \in DOMAIN logins : logins'[l] = Login("refused", logins[l].until, 0) \/ logins'[l] = logins[l]
        /\ \A l \in DOMAIN logins : logins'[l] \in LoginRow
    BY <1>0, <1>2, <2>1 DEF Prune
  <2>3. logins' \in Seq(LoginRow) /\ Len(logins') = Len(logins)
    BY <1>0, <1>2, <2>2 DEF Prune
  <2>4. 0 <= Len(pairs)
    BY DEF Core
  <2>5. \A l \in DOMAIN logins' : \/ logins'[l].at # "answered" /\ logins'[l].pair <= Len(pairs)
                                  \/ l \in DOMAIN logins /\ logins'[l] = logins[l]
    BY <1>0, <2>1, <2>2, <2>4
  <2>6. UNCHANGED <<pairs, credential, call, lost>>
    BY <1>2 DEF Prune
  <2> QED BY <1>0, <2>3, <2>5, <2>6, LoginsKeep
<1>3. ASSUME NEW l \in DOMAIN logins, ConsumeState(l) \/ LoginFails(l) PROVE Core'
  <2>1. PICK at \in {"consumed", "refused"} :
            logins' = [logins EXCEPT ![l] = Login(at, logins[l].until, logins[l].pair)]
    BY <1>3 DEF ConsumeState, LoginFails, Moved
  <2>2. /\ Login(at, logins[l].until, logins[l].pair) \in LoginRow
        /\ Login(at, logins[l].until, logins[l].pair).at # "answered"
        /\ Login(at, logins[l].until, logins[l].pair).pair = logins[l].pair
    <3>1. logins[l].until \in Nat /\ logins[l].pair \in Nat
      BY LoginTypes
    <3> QED BY <3>1, LoginFields
  <2>3. logins' \in Seq(LoginRow) /\ Len(logins') = Len(logins)
    BY <1>0, <2>1, <2>2
  <2>4. \A k \in DOMAIN logins' : \/ logins'[k].at # "answered" /\ logins'[k].pair <= Len(pairs)
                                  \/ k \in DOMAIN logins /\ logins'[k] = logins[k]
    BY <1>0, <2>1, <2>2 DEF Core
  <2>5. UNCHANGED <<pairs, credential, call, lost>>
    BY <1>3 DEF ConsumeState, LoginFails
  <2> QED BY <1>0, <2>3, <2>4, <2>5, LoginsKeep
<1> QED BY <1>1, <1>2, <1>3


LEMMA CallFields ==
    ASSUME NEW at \in {"quiet", "loaded", "refreshed"}, NEW pair \in Nat, NEW next \in Nat
    PROVE  /\ Calling(at, pair, next) \in CallState
           /\ Calling(at, pair, next).at = at /\ Calling(at, pair, next).pair = pair
           /\ Calling(at, pair, next).next = next
BY DEF CallState, Calling

\* A new pair is nobody's yet.
LEMMA NewPair ==
    ASSUME Core, AccountsAssumption
    PROVE  /\ Issued \in Pair /\ ~Issued.spent
           /\ Append(pairs, Issued) \in Seq(Pair) /\ Len(Append(pairs, Issued)) = Len(pairs) + 1
           /\ \A p \in 1 .. Len(pairs) : Append(pairs, Issued)[p] = pairs[p]
           /\ Append(pairs, Issued)[Len(pairs) + 1] = Issued
<1>1. Issued \in Pair /\ ~Issued.spent
  BY AccountsAssumption DEF AccountsAssumption, Issued, Pair, Core
<1> QED BY <1>1 DEF Core

LEMMA ExchangeKeeps ==
    ASSUME Core, AccountsAssumption, NEW l \in DOMAIN logins, ExchangeIdentity(l)
    PROVE  Core'
<1>1. PICK at \in {"answered", "refused"} :
          logins' = [logins EXCEPT ![l] = Login(at, logins[l].until, Len(pairs) + 1)]
  BY DEF ExchangeIdentity
<1>2. /\ UNCHANGED <<now, credential, call, lost>> /\ pairs' = Append(pairs, Issued)
      /\ logins[l].at = "consumed"
  BY DEF ExchangeIdentity
<1>3. /\ pairs' \in Seq(Pair) /\ Len(pairs') = Len(pairs) + 1 /\ Len(pairs) \in Nat
      /\ \A p \in 1 .. Len(pairs) : pairs'[p] = pairs[p]
      /\ pairs'[Len(pairs) + 1] = Issued /\ ~Issued.spent
  BY <1>2, NewPair DEF Core
<1>4. /\ Login(at, logins[l].until, Len(pairs) + 1) \in LoginRow
      /\ Login(at, logins[l].until, Len(pairs) + 1).pair = Len(pairs) + 1
  <2>1. logins[l].until \in Nat /\ Len(pairs) + 1 \in Nat
    BY <1>3, LoginTypes
  <2> QED BY <2>1, LoginFields
<1>5. /\ logins' \in Seq(LoginRow) /\ Len(logins') = Len(logins) /\ DOMAIN logins' = DOMAIN logins
      /\ logins'[l].pair = Len(pairs) + 1 /\ \A k \in DOMAIN logins : k # l => logins'[k] = logins[k]
  BY <1>1, <1>4 DEF Core
<1>6. \A k \in DOMAIN logins : logins[k].pair \in Nat /\ logins[k].pair <= Len(pairs)
  BY LoginTypes
<1>7. \A c \in Calls : /\ call[c].pair \in Nat /\ call[c].pair <= Len(pairs)
                       /\ call[c].next \in Nat /\ call[c].next <= Len(pairs)
  BY DEF Core, CallState
<1>8. PICK q \in Nat : q = Len(pairs) + 1
  BY <1>3
<1>9. /\ Unseen(q)' /\ \A p \in Nat : Unseen(p) => Unseen(p)'
      /\ \A p \in Nat : Unseen(p) => p # q
  BY <1>2, <1>3, <1>7, <1>8 DEF Unseen, Core
<1>10. \A c \in Calls, p \in Nat : /\ OfCall(c, p)' <=> OfCall(c, p)
                                   /\ OfCall(c, p) => p # q
  BY <1>2, <1>7, <1>8 DEF OfCall
<1>11. \A k \in DOMAIN logins, p \in Nat : /\ k # l => (OfLogin(k, p)' <=> OfLogin(k, p))
                                           /\ OfLogin(l, p)' => p = q
                                           /\ OfLogin(k, p) => p # q
  BY <1>5, <1>6, <1>8 DEF OfLogin
<1>12. LoginsAlone'
  <2> SUFFICES ASSUME NEW k \in DOMAIN logins, NEW p \in Nat, OfLogin(k, p)'
               PROVE  /\ Unseen(p)' /\ \A j \in DOMAIN logins : j # k => ~OfLogin(j, p)'
                      /\ \A c \in Calls : ~OfCall(c, p)'
    BY <1>5 DEF LoginsAlone
  <2>1. CASE k = l
    BY <2>1, <1>9, <1>10, <1>11
  <2>2. CASE k # l
    BY <2>2, <1>9, <1>10, <1>11 DEF Core, LoginsAlone
  <2> QED BY <2>1, <2>2
<1>13. CallsAlone'
  BY <1>9, <1>10 DEF Core, CallsAlone
<1>14. CredentialWorks'
  BY <1>2, <1>3 DEF Core, CredentialWorks
<1>15. CallersHavePairs'
  BY <1>2 DEF Core, CallersHavePairs
<1>16. Len(logins') <= MaxLogins /\ \A k \in DOMAIN logins' : logins'[k].pair <= Len(pairs')
  <2>1. \A k \in DOMAIN logins : logins'[k].pair <= Len(pairs')
    <3> TAKE k \in DOMAIN logins
    <3>1. CASE k = l
      BY <3>1, <1>3, <1>5
    <3>2. CASE k # l
      BY <3>2, <1>3, <1>5, <1>6
    <3> QED BY <3>1, <3>2
  <2>2. Len(logins') <= MaxLogins
    BY <1>5 DEF Core
  <2> QED BY <1>5, <2>1, <2>2
<1>17. /\ now' \in Nat /\ credential' \in 0 .. Len(pairs') /\ lost' \subseteq 1 .. Len(pairs')
       /\ call' \in [Calls -> CallState]
  BY <1>2, <1>3 DEF Core
<1>18. \A c \in Calls : call'[c].pair <= Len(pairs') /\ call'[c].next <= Len(pairs')
  BY <1>2, <1>3, <1>7
<1> QED BY <1>3, <1>5, <1>12, <1>13, <1>14, <1>15, <1>16, <1>17, <1>18 DEF Core


LEMMA CreateSessionKeeps ==
    ASSUME Core, NEW l \in DOMAIN logins, CreateSession(l)
    PROVE  Core'
<1>1. /\ UNCHANGED <<now, pairs, call, lost>> /\ logins[l].at = "answered"
      /\ logins' = [logins EXCEPT ![l] = Login("done", logins[l].until, logins[l].pair)]
      /\ credential' = logins[l].pair
  BY DEF CreateSession, Moved
<1>2. PICK q \in Nat : q = logins[l].pair /\ q <= Len(pairs)
  BY LoginTypes
<1>3. /\ Login("done", logins[l].until, q) \in LoginRow
      /\ Login("done", logins[l].until, q).at = "done" /\ Login("done", logins[l].until, q).pair = q
  <2>1. logins[l].until \in Nat
    BY LoginTypes
  <2> QED BY <2>1, LoginFields
<1>4. /\ logins' \in Seq(LoginRow) /\ Len(logins') = Len(logins) /\ DOMAIN logins' = DOMAIN logins
      /\ logins'[l].at = "done" /\ logins'[l].pair = q
      /\ \A k \in DOMAIN logins : k # l => logins'[k] = logins[k]
  BY <1>1, <1>2, <1>3 DEF Core
<1>5. \A k \in DOMAIN logins : \A p \in Nat : OfLogin(k, p)' => k # l /\ OfLogin(k, p)
  BY <1>4 DEF OfLogin
<1>6. \A c \in Calls, p \in Nat : OfCall(c, p)' <=> OfCall(c, p)
  BY <1>1 DEF OfCall
<1>7. OfLogin(l, q) /\ Unseen(q)
  BY <1>1, <1>2 DEF Core, LoginsAlone, OfLogin
<1>8. \A p \in Nat : Unseen(p) /\ p # q => Unseen(p)'
  BY <1>1, <1>2 DEF Unseen
<1>9. \A k \in DOMAIN logins, p \in Nat : k # l /\ OfLogin(k, p) => p # q
  BY <1>7 DEF Core, LoginsAlone
<1>10. LoginsAlone'
  BY <1>4, <1>5, <1>6, <1>8, <1>9 DEF Core, LoginsAlone
<1>11. CallsAlone'
  BY <1>6, <1>7, <1>8 DEF Core, LoginsAlone, CallsAlone
<1>12. credential' \in 0 .. Len(pairs') /\ ~pairs'[credential'].spent
  BY <1>1, <1>2, <1>7 DEF Unseen
<1>13. CredentialWorks'
  BY <1>12 DEF CredentialWorks
<1>14. \A k \in DOMAIN logins' : logins'[k].pair <= Len(pairs')
  BY <1>1, <1>2, <1>4 DEF Core
<1> QED BY <1>1, <1>4, <1>10, <1>11, <1>12, <1>13, <1>14 DEF Core, CallersHavePairs

LEMMA ReplaceKeeps ==
    ASSUME Core, UNCHANGED <<now, pairs, logins, call, lost>>, credential' \in {0, credential}
    PROVE  Core'
<1>1. \A p \in Nat : Unseen(p) => Unseen(p)'
  BY DEF Unseen
<1>2. /\ \A k \in DOMAIN logins, p \in Nat : OfLogin(k, p)' <=> OfLogin(k, p)
      /\ \A c \in Calls, p \in Nat : OfCall(c, p)' <=> OfCall(c, p)
  BY DEF OfLogin, OfCall
<1>3. LoginsAlone'
  BY <1>1, <1>2 DEF Core, LoginsAlone
<1>4. CallsAlone'
  BY <1>1, <1>2 DEF Core, CallsAlone
<1>5. CredentialWorks' /\ credential' \in 0 .. Len(pairs')
  BY DEF Core, CredentialWorks
<1> QED BY <1>3, <1>4, <1>5 DEF Core, CallersHavePairs

\* A call that ends without storing anything, with its pair lost if it has one.
LEMMA CallEnds ==
    ASSUME Core, NEW c \in Calls, UNCHANGED <<now, pairs, logins, credential>>,
           call' = [call EXCEPT ![c] = Quiet],
           \/ lost' = lost /\ call[c].at = "loaded"
           \/ lost' = lost \cup {call[c].pair} /\ call[c].at = "refreshed"
    PROVE  Core'
<1>1. Quiet \in CallState /\ Quiet.at = "quiet" /\ Quiet.pair = 0 /\ Quiet.next = 0
  BY CallFields DEF Quiet
<1>2. /\ call' \in [Calls -> CallState] /\ call'[c] = Quiet
      /\ \A d \in Calls : d # c => call'[d] = call[d]
  BY <1>1 DEF Core
<1>3. /\ \A k \in DOMAIN logins, p \in Nat : OfLogin(k, p)' <=> OfLogin(k, p)
      /\ \A d \in Calls, p \in Nat : OfCall(d, p)' => d # c /\ OfCall(d, p)
  BY <1>1, <1>2 DEF OfLogin, OfCall
<1>4. \A p \in Nat : Unseen(p) => Unseen(p)'
  BY <1>1, <1>2 DEF Unseen
<1>5. LoginsAlone'
  BY <1>3, <1>4 DEF Core, LoginsAlone
<1>6. CallsAlone'
  BY <1>3, <1>4 DEF Core, CallsAlone
<1>7. CredentialWorks'
  BY <1>2 DEF Core, CredentialWorks
<1>8. /\ lost' \subseteq 1 .. Len(pairs')
      /\ \A d \in Calls : call'[d].pair <= Len(pairs') /\ call'[d].next <= Len(pairs')
  <2>1. /\ Len(pairs) \in Nat /\ call[c].pair \in Nat
        /\ \A d \in Calls : call[d].pair <= Len(pairs) /\ call[d].next <= Len(pairs)
    BY DEF Core, CallState
  <2>2. call[c].at = "refreshed" => call[c].pair \in 1 .. Len(pairs)
    BY <2>1 DEF Core, CallersHavePairs
  <2>3. lost' \subseteq 1 .. Len(pairs')
    BY <2>2 DEF Core
  <2> QED BY <1>1, <1>2, <2>1, <2>3
<1>9. CallersHavePairs'
  BY <1>1, <1>2 DEF Core, CallersHavePairs
<1> QED BY <1>2, <1>5, <1>6, <1>7, <1>8, <1>9 DEF Core


LEMMA LoadKeeps ==
    ASSUME Core, NEW c \in Calls, LoadCredential(c)
    PROVE  Core'
<1>1. /\ UNCHANGED <<now, pairs, logins, credential, lost>> /\ credential \in 1 .. Len(pairs)
      /\ call' = [call EXCEPT ![c] = Calling("loaded", credential, 0)]
      /\ call[c].at = "quiet"
  BY DEF LoadCredential, Core
<1>2. /\ call' \in [Calls -> CallState] /\ call'[c].at = "loaded" /\ call'[c].pair = credential
      /\ call'[c].next = 0 /\ \A d \in Calls : d # c => call'[d] = call[d]
  <2>1. credential \in Nat /\ 0 \in Nat
    BY <1>1
  <2>2. /\ Calling("loaded", credential, 0) \in CallState
        /\ Calling("loaded", credential, 0).at = "loaded"
        /\ Calling("loaded", credential, 0).pair = credential /\ Calling("loaded", credential, 0).next = 0
    BY <2>1, CallFields
  <2> QED BY <1>1, <2>2 DEF Core
<1>3. /\ \A k \in DOMAIN logins, p \in Nat : OfLogin(k, p)' <=> OfLogin(k, p)
      /\ \A d \in Calls, p \in Nat : OfCall(d, p)' => d # c /\ OfCall(d, p)
  BY <1>1, <1>2 DEF OfLogin, OfCall
<1>4. \A p \in Nat : Unseen(p) => Unseen(p)'
  BY <1>1, <1>2 DEF Unseen
<1>5. LoginsAlone'
  BY <1>1, <1>3, <1>4 DEF Core, LoginsAlone
<1>6. CallsAlone'
  BY <1>3, <1>4 DEF Core, CallsAlone
<1>7. CredentialWorks'
  BY <1>1, <1>2 DEF Core, CredentialWorks
<1>8. /\ CallersHavePairs'
      /\ \A d \in Calls : call'[d].pair <= Len(pairs') /\ call'[d].next <= Len(pairs')
  BY <1>1, <1>2 DEF Core, CallersHavePairs
<1> QED BY <1>1, <1>2, <1>5, <1>6, <1>7, <1>8 DEF Core

LEMMA StoreKeeps ==
    ASSUME Core, NEW c \in Calls, StoreRefreshed(c)
    PROVE  Core'
<1>1. /\ UNCHANGED <<now, pairs, logins, lost>> /\ call[c].at = "refreshed"
      /\ credential' = call[c].next /\ call' = [call EXCEPT ![c] = Quiet]
  BY DEF StoreRefreshed
<1>2. PICK q \in Nat : q = call[c].next /\ OfCall(c, q)
  BY <1>1 DEF Core, CallState, OfCall
<1>3. Unseen(q) /\ credential' = q
  BY <1>1, <1>2 DEF Core, CallsAlone
<1>4. Quiet \in CallState /\ Quiet.at = "quiet" /\ Quiet.pair = 0 /\ Quiet.next = 0
  BY CallFields DEF Quiet
<1>5. /\ call' \in [Calls -> CallState] /\ call'[c] = Quiet
      /\ \A d \in Calls : d # c => call'[d] = call[d]
  BY <1>1, <1>4 DEF Core
<1>6. /\ \A k \in DOMAIN logins, p \in Nat : OfLogin(k, p)' <=> OfLogin(k, p)
      /\ \A d \in Calls, p \in Nat : OfCall(d, p)' => d # c /\ OfCall(d, p)
  BY <1>1, <1>4, <1>5 DEF OfLogin, OfCall
<1>7. /\ \A k \in DOMAIN logins, p \in Nat : OfLogin(k, p) => p # q
      /\ \A d \in Calls, p \in Nat : d # c /\ OfCall(d, p) => p # q
  BY <1>2 DEF Core, LoginsAlone, CallsAlone
<1>8. \A p \in Nat : Unseen(p) /\ p # q => Unseen(p)'
  BY <1>1, <1>3, <1>4, <1>5 DEF Unseen
<1>9. LoginsAlone'
  BY <1>1, <1>6, <1>7, <1>8 DEF Core, LoginsAlone
<1>10. CallsAlone'
  BY <1>6, <1>7, <1>8 DEF Core, CallsAlone
<1>11. credential' \in 0 .. Len(pairs') /\ ~pairs'[credential'].spent
  BY <1>1, <1>3 DEF Unseen
<1>12. CredentialWorks'
  BY <1>11 DEF CredentialWorks
<1>13. CallersHavePairs'
  BY <1>4, <1>5 DEF Core, CallersHavePairs
<1>14. \A d \in Calls : call'[d].pair <= Len(pairs') /\ call'[d].next <= Len(pairs')
  BY <1>1, <1>4, <1>5 DEF Core
<1> QED BY <1>1, <1>5, <1>9, <1>10, <1>11, <1>12, <1>13, <1>14 DEF Core

\* GitLab rotates the pair: its answer arrives, or is lost.
LEMMA RefreshKeeps ==
    ASSUME Core, AccountsAssumption, NEW c \in Calls, RefreshToken(c) \/ RefreshAnswerLost(c)
    PROVE  Core'
<1>1. /\ UNCHANGED <<now, logins, credential>> /\ call[c].at = "loaded" /\ pairs' = Rotated(call[c].pair)
  BY DEF RefreshToken, RefreshAnswerLost
<1>2. PICK p \in Nat : p = call[c].pair /\ p \in 1 .. Len(pairs)
  BY <1>1 DEF Core, CallState, CallersHavePairs
<1>3. /\ Issued \in Pair /\ ~Issued.spent
  BY NewPair
<1>4. PICK old \in Pair : old = Used(p) /\ old.spent
  <2>1. pairs[p] \in Pair
    BY <1>2 DEF Core
  <2>2. pairs[p].until \in Nat
    BY <2>1 DEF Pair
  <2>3. Used(p) \in Pair /\ Used(p).spent
    BY <2>2 DEF Used, Pair
  <2> QED BY <2>3
<1>5. /\ [pairs EXCEPT ![p] = old] \in Seq(Pair) /\ Len([pairs EXCEPT ![p] = old]) = Len(pairs)
      /\ [pairs EXCEPT ![p] = old][p] = old
      /\ \A k \in 1 .. Len(pairs) : k # p => [pairs EXCEPT ![p] = old][k] = pairs[k]
  BY <1>2, <1>4 DEF Core
<1>6. pairs' = Append([pairs EXCEPT ![p] = old], Issued)
  BY <1>1, <1>2, <1>4 DEF Rotated
<1>7. PICK q \in Nat : q = Len(pairs) + 1
  BY DEF Core
<1>8. /\ pairs' \in Seq(Pair) /\ Len(pairs') = Len(pairs) + 1
      /\ pairs'[p] = old /\ pairs'[q] = Issued
      /\ \A k \in 1 .. Len(pairs) : k # p => pairs'[k] = pairs[k]
  BY <1>2, <1>3, <1>5, <1>6, <1>7
<1>9. \A d \in Calls : /\ call[d].pair \in Nat /\ call[d].pair <= Len(pairs)
                       /\ call[d].next \in Nat /\ call[d].next <= Len(pairs)
  BY DEF Core, CallState
<1>10. /\ call' \in [Calls -> CallState] /\ \A d \in Calls : d # c => call'[d] = call[d]
       /\ \/ /\ lost' = lost /\ call'[c].at = "refreshed" /\ call'[c].pair = p /\ call'[c].next = q
          \/ lost' = lost \cup {p} /\ call'[c].at = "quiet" /\ call'[c].pair = 0 /\ call'[c].next = 0
  <2>1. CASE RefreshToken(c)
    <3>1. /\ Calling("refreshed", p, q) \in CallState
          /\ Calling("refreshed", p, q).at = "refreshed"
          /\ Calling("refreshed", p, q).pair = p /\ Calling("refreshed", p, q).next = q
      BY CallFields
    <3>2. call' = [call EXCEPT ![c] = Calling("refreshed", p, q)] /\ lost' = lost
      BY <2>1, <1>2, <1>7 DEF RefreshToken
    <3> QED BY <3>1, <3>2 DEF Core
  <2>2. CASE RefreshAnswerLost(c)
    <3>1. Quiet \in CallState /\ Quiet.at = "quiet" /\ Quiet.pair = 0 /\ Quiet.next = 0
      BY CallFields DEF Quiet
    <3> QED BY <2>2, <1>2, <3>1 DEF Core, RefreshAnswerLost
  <2> QED BY <2>1, <2>2
<1>11. /\ \A k \in DOMAIN logins, r \in Nat : OfLogin(k, r)' <=> OfLogin(k, r)
       /\ \A d \in Calls, r \in Nat : d # c => (OfCall(d, r)' <=> OfCall(d, r))
       /\ \A r \in Nat : OfCall(c, r)' => r = q
       /\ \A k \in DOMAIN logins, r \in Nat : OfLogin(k, r) => r # q
       /\ \A d \in Calls, r \in Nat : OfCall(d, r) => r # q
  <2>1. \A k \in DOMAIN logins : logins[k].pair \in Nat /\ logins[k].pair <= Len(pairs)
    BY LoginTypes
  <2> QED BY <2>1, <1>1, <1>7, <1>9, <1>10 DEF OfLogin, OfCall
<1>12. \A r \in Nat : Unseen(r) => Unseen(r)'
  BY <1>1, <1>2, <1>8, <1>10 DEF Unseen
<1>13. Unseen(q)'
  <2>1. credential' # q /\ \A d \in Calls : call'[d].pair # q
    BY <1>1, <1>2, <1>7, <1>9, <1>10 DEF Core
  <2> QED BY <2>1, <1>3, <1>7, <1>8 DEF Unseen
<1>14. LoginsAlone'
  BY <1>1, <1>11, <1>12 DEF Core, LoginsAlone
<1>15. CallsAlone'
  BY <1>11, <1>12, <1>13 DEF Core, CallsAlone
<1>16. CredentialWorks'
  <2>1. CASE credential = p
    BY <2>1, <1>1, <1>10 DEF CredentialWorks
  <2>2. CASE credential # p
    <3>1. credential # 0 => pairs'[credential] = pairs[credential]
      BY <2>2, <1>8 DEF Core
    <3> QED BY <3>1, <1>1, <1>10 DEF Core, CredentialWorks
  <2> QED BY <2>1, <2>2
<1>17. CallersHavePairs'
  BY <1>2, <1>10 DEF Core, CallersHavePairs
<1>18. /\ \A d \in Calls : call'[d].pair <= Len(pairs') /\ call'[d].next <= Len(pairs')
       /\ lost' \subseteq 1 .. Len(pairs') /\ credential' \in 0 .. Len(pairs')
       /\ \A k \in DOMAIN logins' : logins'[k].pair <= Len(pairs')
  <2>1. \A k \in DOMAIN logins : logins[k].pair \in Nat /\ logins[k].pair <= Len(pairs)
    BY LoginTypes
  <2>2. lost' \subseteq 1 .. Len(pairs') /\ Len(pairs) \in Nat
    <3>1. lost \subseteq 1 .. Len(pairs) /\ Len(pairs) \in Nat
      BY DEF Core
    <3>2. lost' \subseteq 1 .. Len(pairs)
      BY <3>1, <1>2, <1>10
    <3> QED BY <3>1, <3>2, <1>8
  <2>3. credential' \in 0 .. Len(pairs')
    BY <1>1, <1>8 DEF Core
  <2>4. \A d \in Calls : call'[d].pair <= Len(pairs') /\ call'[d].next <= Len(pairs')
    BY <2>2, <1>2, <1>7, <1>8, <1>9, <1>10
  <2> QED BY <2>1, <2>2, <2>3, <2>4, <1>1, <1>8
<1> QED BY <1>1, <1>8, <1>10, <1>14, <1>15, <1>16, <1>17, <1>18 DEF Core


-----------------------------------------------------------------------------
(* Theorems *)

LEMMA CoreSteps ==
    ASSUME Core, now' \in Nat, AccountsAssumption, [AccountNext]_accountVars
    PROVE  Core'
<1>1. CASE Start \/ Prune \/ \E l \in DOMAIN logins : ConsumeState(l) \/ LoginFails(l)
  BY <1>1, LoginStepsKeep
<1>2. CASE UNCHANGED <<pairs, logins, credential, call, lost>>
  <2>1. /\ logins' \in Seq(LoginRow) /\ Len(logins') <= MaxLogins
        /\ \A l \in DOMAIN logins' : l \in DOMAIN logins /\ logins'[l] = logins[l]
    BY <1>2 DEF Core
  <2> QED BY <1>2, <2>1, LoginsKeep
<1>3. ASSUME NEW l \in DOMAIN logins, ExchangeIdentity(l) PROVE Core'
  BY <1>3, ExchangeKeeps
<1>4. ASSUME NEW l \in DOMAIN logins, CreateSession(l) PROVE Core'
  BY <1>4, CreateSessionKeeps
<1>5. ASSUME NEW c \in Calls, \/ LoadCredential(c) \/ RefreshToken(c) \/ RefreshFails(c)
                              \/ RefreshAnswerLost(c) \/ StoreRefreshed(c) \/ StoreFails(c)
      PROVE  Core'
  <2>1. CASE LoadCredential(c)
    BY <2>1, LoadKeeps
  <2>2. CASE RefreshToken(c) \/ RefreshAnswerLost(c)
    BY <2>2, RefreshKeeps
  <2>3. CASE RefreshFails(c) \/ StoreFails(c)
    BY <2>3, CallEnds DEF RefreshFails, StoreFails
  <2>4. CASE StoreRefreshed(c)
    BY <2>4, StoreKeeps
  <2> QED BY <1>5, <2>1, <2>2, <2>3, <2>4
<1>6. ASSUME NEW x \in Refreshers, ReplaceDirectory(x) PROVE Core'
  BY <1>6, ReplaceKeeps DEF ReplaceDirectory
<1>7. ASSUME NEW l \in DOMAIN logins, Logout(l) \/ \E r \in Requests : ReadSession(r, l)
      PROVE  UNCHANGED <<pairs, logins, credential, call, lost>>
  BY <1>7 DEF Logout, ReadSession
<1>8. ASSUME NEW r \in Requests, LookAtClock(r) \/ TouchSession(r) \/ DeleteExpiredSession(r)
      PROVE  UNCHANGED <<pairs, logins, credential, call, lost>>
  BY <1>8 DEF LookAtClock, TouchSession, DeleteExpiredSession
<1>9. ASSUME NEW x \in Refreshers, ReadMembers(x) \/ RefreshDirectoryFails(x)
      PROVE  UNCHANGED <<pairs, logins, credential, call, lost>>
  BY <1>9 DEF ReadMembers, RefreshDirectoryFails
<1>10. CASE LeaveOrJoin \/ TimePasses \/ UNCHANGED accountVars
  BY <1>2, <1>10 DEF LeaveOrJoin, TimePasses, accountVars
<1> QED BY <1>1, <1>2, <1>3, <1>4, <1>5, <1>6, <1>7, <1>8, <1>9, <1>10 DEF AccountNext

\* Every step keeps the inductive invariant.
LEMMA AccountStepsKeep ==
    ASSUME AccountInv, AccountsAssumption, [AccountNext]_accountVars
    PROVE  AccountInv'
<1>1. Core
  BY DEF AccountInv, AccountTypeOK, Core, Pair
<1>2. /\ now' \in Nat /\ member' \in BOOLEAN /\ moves' \in Nat
      /\ sessions' \in [1 .. MaxLogins -> Nat] /\ request' \in [Requests -> RequestState]
      /\ refreshing' \in [Refreshers -> {"waiting", "member", "left"}]
  <2>1. CASE AccountNext
    BY <2>1, SessionTypes DEF AccountInv
  <2>2. CASE UNCHANGED accountVars
    BY <2>2 DEF accountVars, AccountInv, AccountTypeOK
  <2> QED BY <2>1, <2>2
<1>3. Core'
  BY <1>1, <1>2, CoreSteps
<1> QED BY <1>2, <1>3 DEF AccountInv, AccountTypeOK, Core, Pair

\* The types of Accounts hold, and every pair that the server has is one that
\* GitLab issued.
THEOREM AccountsTyped == AccountSpec => []AccountTypeOK
<1>1. AccountInv /\ [AccountNext]_accountVars => AccountInv'
  BY AccountStepsKeep, AccountsAssumption
<1>2. AccountInv => AccountTypeOK
  BY DEF AccountInv
<1> QED BY AccountBegins, <1>1, <1>2, PTL DEF AccountSpec

\* Rotating refresh tokens (ARCHITECTURE.md:35): any number of requests and
\* workers may refresh the user's token and any number of logins may store a
\* new one, and the stored one is still one that GitLab takes, but for the
\* time until its successor is stored, or when that is lost.
THEOREM CredentialAlwaysWorks == AccountSpec => []CredentialWorks
<1>1. AccountInv /\ [AccountNext]_accountVars => AccountInv'
  BY AccountStepsKeep, AccountsAssumption
<1>2. AccountInv => CredentialWorks
  BY DEF AccountInv
<1> QED BY AccountBegins, <1>1, <1>2, PTL DEF AccountSpec

-----------------------------------------------------------------------------
(* Sessions *)

\* What ends a session before its time, and what begins one.
Ended(l) == Logout(l) \/ \E x \in Refreshers : refreshing[x] = "left" /\ refreshing'[x] = "waiting"
RunsItsTime(l) == /\ sessions[l] > now /\ sessions'[l] = 0 => Ended(l)
                  /\ sessions[l] = 0 /\ sessions'[l] # 0 => logins[l].at = "answered"

\* A request renews the row it finds valid and deletes the row it finds expired, with
\* the clock of each: neither ends a session that another request has renewed.
LEMMA RequestsRespect ==
    ASSUME AccountTypeOK, NEW r \in Requests, NEW l,
           ReadSession(r, l) \/ LookAtClock(r) \/ TouchSession(r) \/ DeleteExpiredSession(r)
    PROVE  \A k \in DOMAIN sessions : RunsItsTime(k)
<1> TAKE k \in DOMAIN sessions
<1>1. /\ sessions \in [1 .. MaxLogins -> Nat] /\ sessions[k] \in Nat /\ now \in Nat
      /\ request[r].asked \in Nat /\ SessionTTL \in Nat /\ SessionTTL > 0
  <2>1. request[r] \in RequestState
    BY DEF AccountTypeOK
  <2>2. request[r].asked \in Nat
    BY <2>1 DEF RequestState
  <2>3. sessions \in [1 .. MaxLogins -> Nat] /\ now \in Nat
    BY DEF AccountTypeOK
  <2>4. SessionTTL \in Nat /\ SessionTTL > 0
    BY AccountsAssumption DEF AccountsAssumption
  <2> QED BY <2>2, <2>3, <2>4
<1>2. \/ sessions'[k] = sessions[k]
      \/ sessions[k] > request[r].asked /\ sessions'[k] = request[r].asked + SessionTTL
      \/ sessions[k] <= now /\ sessions'[k] = 0
  <2>1. CASE ReadSession(r, l) \/ LookAtClock(r)
    BY <2>1 DEF ReadSession, LookAtClock
  <2>2. CASE TouchSession(r)
    BY <1>1, <2>2 DEF TouchSession
  <2>3. CASE DeleteExpiredSession(r)
    BY <1>1, <2>3 DEF DeleteExpiredSession
  <2> QED BY <2>1, <2>2, <2>3
<1> QED BY <1>1, <1>2 DEF RunsItsTime

LEMMA LoginsRespect ==
    ASSUME AccountTypeOK, NEW l \in DOMAIN logins,
           \/ ConsumeState(l) \/ ExchangeIdentity(l) \/ CreateSession(l) \/ LoginFails(l) \/ Logout(l)
    PROVE  \A k \in DOMAIN sessions : RunsItsTime(k)
<1> TAKE k \in DOMAIN sessions
<1>1. /\ sessions \in [1 .. MaxLogins -> Nat] /\ sessions[k] \in Nat /\ now \in Nat
      /\ SessionTTL \in Nat /\ SessionTTL > 0
  <2>1. sessions \in [1 .. MaxLogins -> Nat] /\ now \in Nat
    BY DEF AccountTypeOK
  <2>2. SessionTTL \in Nat /\ SessionTTL > 0
    BY AccountsAssumption DEF AccountsAssumption
  <2> QED BY <2>1, <2>2
<1>2. CASE ConsumeState(l) \/ ExchangeIdentity(l) \/ LoginFails(l)
  <2>1. sessions' = sessions
    BY <1>2 DEF ConsumeState, ExchangeIdentity, LoginFails
  <2> QED BY <1>1, <2>1 DEF RunsItsTime
<1>3. CASE CreateSession(l)
  <2>1. /\ logins[l].at = "answered"
        /\ sessions'[k] = sessions[k] \/ (k = l /\ sessions'[k] = now + SessionTTL)
    BY <1>1, <1>3 DEF CreateSession
  <2> QED BY <1>1, <2>1 DEF RunsItsTime
<1>4. CASE Logout(l)
  <2>1. sessions'[k] = sessions[k] \/ (k = l /\ sessions'[k] = 0)
    BY <1>1, <1>4 DEF Logout
  <2>2. CASE k = l
    BY <1>1, <1>4, <2>1, <2>2 DEF RunsItsTime, Ended
  <2>3. CASE k # l
    BY <1>1, <2>1, <2>3 DEF RunsItsTime
  <2> QED BY <2>2, <2>3
<1> QED BY <1>2, <1>3, <1>4

\* A session that a request has renewed ends before its time only when the user logs
\* out or has left the project, and one that has ended does not come back
\* (oauth/service.go VerifySession, postgres/oauth/repository.go).
THEOREM SessionsHold == AccountSpec => SessionsRunTheirTime
<1>1. ASSUME AccountTypeOK, [AccountNext]_accountVars PROVE \A l \in DOMAIN sessions : RunsItsTime(l)
  <2>1. ASSUME sessions' = sessions PROVE \A l \in DOMAIN sessions : RunsItsTime(l)
    BY <1>1, <2>1 DEF RunsItsTime, AccountTypeOK
  <2>2. CASE \E r \in Requests : \/ LookAtClock(r) \/ TouchSession(r) \/ DeleteExpiredSession(r)
                                 \/ \E l \in DOMAIN logins : ReadSession(r, l)
    <3>1. PICK r \in Requests : \/ LookAtClock(r) \/ TouchSession(r) \/ DeleteExpiredSession(r)
                                \/ \E l \in DOMAIN logins : ReadSession(r, l)
      BY <2>2
    <3> QED BY <1>1, <3>1, RequestsRespect
  <2>3. CASE \E l \in DOMAIN logins : \/ ConsumeState(l) \/ ExchangeIdentity(l) \/ CreateSession(l)
                                      \/ LoginFails(l) \/ Logout(l)
    BY <1>1, <2>3, LoginsRespect
  <2>4. CASE Prune
    <3> SUFFICES ASSUME NEW l \in DOMAIN sessions PROVE RunsItsTime(l)
      OBVIOUS
    <3>1. sessions[l] \in Nat /\ now \in Nat
      BY <1>1 DEF AccountTypeOK
    <3>2. sessions'[l] = IF sessions[l] < now THEN 0 ELSE sessions[l]
      BY <2>4 DEF Prune
    <3> QED BY <3>1, <3>2 DEF RunsItsTime
  <2>5. CASE \E x \in Refreshers : ReplaceDirectory(x)
    <3>1. PICK x \in Refreshers : ReplaceDirectory(x)
      BY <2>5
    <3>2. CASE refreshing[x] = "left"
      <4>1. \A l \in DOMAIN sessions : sessions'[l] = 0
        BY <3>1, <3>2 DEF ReplaceDirectory
      <4>2. refreshing'[x] = "waiting"
        BY <1>1, <3>1 DEF ReplaceDirectory, AccountTypeOK
      <4> QED BY <3>2, <4>1, <4>2 DEF RunsItsTime, Ended
    <3>3. CASE refreshing[x] # "left"
      BY <2>1, <3>1, <3>3 DEF ReplaceDirectory
    <3> QED BY <3>2, <3>3
  <2>6. CASE \/ Start \/ LeaveOrJoin \/ TimePasses \/ UNCHANGED accountVars
             \/ \E c \in Calls : \/ LoadCredential(c) \/ RefreshToken(c) \/ RefreshFails(c)
                                 \/ RefreshAnswerLost(c) \/ StoreRefreshed(c) \/ StoreFails(c)
             \/ \E x \in Refreshers : ReadMembers(x) \/ RefreshDirectoryFails(x)
    <3>1. sessions' = sessions
      BY <2>6 DEF Start, LeaveOrJoin, TimePasses, accountVars, LoadCredential, RefreshToken, RefreshFails,
                  RefreshAnswerLost, StoreRefreshed, StoreFails, ReadMembers, RefreshDirectoryFails
    <3> QED BY <2>1, <3>1
  <2> QED BY <1>1, <2>2, <2>3, <2>4, <2>5, <2>6 DEF AccountNext
<1> QED BY <1>1, AccountsTyped, PTL DEF AccountSpec, SessionsRunTheirTime, RunsItsTime, Ended

-----------------------------------------------------------------------------
(* BoardIntake *)

AnyKind == Kinds \cup {"unborn", "deleted"}
Finding == [issue : Issues, at : Times, is : AnyKind]
AnyRow == [state : {"none", "synced", "queued", "applied", "early"}, at : Times \cup {NoTime},
           confirmed : BOOLEAN]
Read == [kind : {"none", "delta", "presence", "deep"}, since : Int, began : Int, last : Int \X Int,
         found : SUBSET Finding, ended : BOOLEAN]
Work == [at : {"idle", "claimed", "fetched"}, delivery : Nat, attempt : Int, began : Int,
         early : BOOLEAN, found : SUBSET Finding]
Delivery == [issue : Issues, state : {"pending", "processing", "stale", "completed", "dead"},
             attempts : Int]

Types ==
    /\ clock \in Times /\ watermark \in Times \cup {NoTime}
    /\ gitlab \in [Issues -> Version] /\ listed \in [Issues -> Version]
    /\ rows \in [Issues -> AnyRow]
    /\ read \in Read /\ worker \in [Workers -> Work] /\ inbox \in Seq(Delivery)

\* Nothing is newer than the clock, and what is due within a time is not late.
Clocked ==
    /\ watermark <= clock
    /\ \A i \in Issues : /\ listed[i].at <= gitlab[i].at /\ gitlab[i].at <= clock
                         /\ rows[i].at <= gitlab[i].at
                         /\ listed[i] = gitlab[i] \/ clock <= gitlab[i].at + Lag
                         /\ rows[i].state \in {"applied", "early"} => clock <= rows[i].at + ReadTime

\* The card was as it is when everything read since "began" was read.
Settled(i, began) == gitlab[i].is = "card" /\ gitlab[i].at + Lag < began
Card(i) == [issue |-> i, at |-> gitlab[i].at, is |-> "card"]
Passed(i) == read.ended \/ ~Precedes(read.last, Place(i))
True(f) == f.at <= gitlab[f.issue].at

\* A read has found the settled cards it has passed.
Reading ==
    read # NoRead =>
        /\ read.kind # "none" /\ read.began <= clock /\ clock <= read.began + ReadTime
        /\ read.since = IF read.kind = "delta" THEN Since ELSE NoTime
        /\ read.kind = "delta" => watermark # NoTime
        /\ \A f \in read.found : True(f) /\ f.at >= read.since
        /\ \A i \in Issues : Settled(i, read.began) /\ gitlab[i].at >= read.since /\ Passed(i)
                             => Card(i) \in read.found

\* So has a worker the card of its delivery.
Working ==
    \A w \in Workers : worker[w] # Idle =>
        /\ worker[w].began <= clock /\ clock <= worker[w].began + ReadTime
        /\ worker[w].at # "idle" /\ worker[w].delivery \in DOMAIN inbox
        /\ worker[w].at = "fetched" =>
              \E f \in Finding : /\ worker[w].found = {f} /\ True(f)
                                 /\ Settled(f.issue, worker[w].began) => f = Card(f.issue)

IntakeInv == Types /\ Clocked /\ Reading /\ Working /\ CursorCoversUpdates

-----------------------------------------------------------------------------
LEMMA Constants == /\ Lag \in Nat /\ ReadTime \in Nat /\ Lag + ReadTime <= DeltaOverlap
                   /\ DeltaOverlap \in Int /\ MaxTime \in Nat /\ Issues \subseteq Nat \ {0}
                   /\ NoTime \in Int /\ NoTime = -1 /\ NoTime \notin Times
                   /\ \A t \in Times : t \in Int /\ t >= 0
                   /\ \A t \in Times \cup {NoTime} : t \in Int /\ NoTime <= t
BY IntakeAssumption DEF IntakeAssumption, Times, NoTime

LEMMA LatestOf ==
    ASSUME NEW S, S \subseteq Times, S # {}
    PROVE  Max(S) \in S /\ \A y \in S : y <= Max(S)
<1> DEFINE T == {MaxTime - d : d \in S}
<1>1. T \subseteq Nat /\ T # {}
  <2>1. \A d \in S : MaxTime - d \in Nat
    BY Constants DEF Times
  <2> QED BY <2>1
<1>2. PICK m \in T : \A y \in T : ~(<<y, m>> \in OpToRel(<, Nat))
  <2> HIDE DEF T
  <2>1. IsWellFoundedOn(OpToRel(<, Nat), Nat)
    BY NatLessThanWellFounded
  <2> QED BY <1>1, <2>1, WFMin
<1>3. PICK x \in S : m = MaxTime - x
  BY <1>2
<1>4. \A y \in S : x >= y
  <2> TAKE y \in S
  <2>1. MaxTime - y \in T
    OBVIOUS
  <2>2. ~(MaxTime - y < MaxTime - x)
    BY <1>1, <1>2, <1>3, <2>1 DEF OpToRel
  <2> QED BY <2>2, Constants DEF Times
<1>5. Max(S) \in S /\ \A y \in S : Max(S) >= y
  BY <1>4 DEF Max
<1> QED BY <1>5, Constants DEF Times

-----------------------------------------------------------------------------
(* The merge *)

\* What a merge makes of one row: findings are true, so a row is never newer
\* than its issue, and a finding of the card as it is brings the row up to it.
LEMMA MergedRow ==
    ASSUME Types, Clocked, NEW found \in SUBSET Finding, \A f \in found : True(f),
           NEW removed, NEW pruned, NEW confirmed \in BOOLEAN, NEW i \in Issues,
           NEW m, m = Merged(found, removed, pruned, confirmed)[i]
    PROVE  /\ m \in AnyRow /\ m.at <= gitlab[i].at
           /\ rows[i].state \notin {"none", "synced"} => m.state = rows[i].state /\ m.at = rows[i].at
           /\ rows[i].state \in {"none", "synced"} => m.state \in {"none", "synced"}
           /\ rows[i].state \in {"none", "synced"} /\ Card(i) \in found => m.at = gitlab[i].at
           /\ i \notin removed \cup pruned /\ rows[i].at = gitlab[i].at => m.at = gitlab[i].at
<1> DEFINE row == IF i \in removed \cup pruned /\ rows[i].state = "synced" THEN NoRow ELSE rows[i]
           times == {f.at : f \in {g \in found : g.issue = i /\ g.is = "card"}}
<1>1. /\ rows[i] \in AnyRow /\ rows[i].at <= gitlab[i].at
      /\ gitlab[i].at \in Times /\ gitlab[i].at \in Int /\ NoTime <= gitlab[i].at
  BY Constants DEF Types, Clocked, Version
<1>2. NoRow \in AnyRow /\ NoRow.at = NoTime /\ NoRow.state = "none"
  BY Constants DEF NoRow, AnyRow
<1>3. /\ row \in AnyRow /\ row.at <= gitlab[i].at
      /\ rows[i].state \notin {"none", "synced"} => row = rows[i]
      /\ rows[i].state \in {"none", "synced"} => row.state \in {"none", "synced"}
      /\ i \notin removed \cup pruned => row = rows[i]
  BY <1>1, <1>2
<1>4. m = IF i \notin Cards(found) THEN row
          ELSE IF row.state \in {"none", "synced"} /\ row.at <= Newest(found, i)
               THEN [state |-> "synced", at |-> Newest(found, i), confirmed |-> confirmed]
               ELSE [row EXCEPT !.confirmed = confirmed]
  BY DEF Merged
<1>5. times \subseteq Times /\ \A t \in times : t <= gitlab[i].at
  BY DEF Finding, True
<1>6. Newest(found, i) = Max(times)
  BY DEF Newest
<1>7. i \in Cards(found) => times # {}
  BY DEF Cards
<1>8. Card(i) \in found => i \in Cards(found) /\ gitlab[i].at \in times
  BY DEF Card, Cards
<1> HIDE DEF times, row
<1>9. i \in Cards(found) => /\ Newest(found, i) \in Times /\ Newest(found, i) <= gitlab[i].at
                            /\ \A t \in times : t <= Newest(found, i)
  BY <1>5, <1>6, <1>7, LatestOf
<1>10. Card(i) \in found => Newest(found, i) = gitlab[i].at
  <2> SUFFICES ASSUME Card(i) \in found PROVE Newest(found, i) = gitlab[i].at
    OBVIOUS
  <2>1. gitlab[i].at <= Newest(found, i) /\ Newest(found, i) <= gitlab[i].at
    BY <1>8, <1>9
  <2>2. Newest(found, i) \in Int
    BY <1>8, <1>9, Constants
  <2> QED BY <1>1, <2>1, <2>2
<1>11. LET r == [row EXCEPT !.confirmed = confirmed]
       IN  r \in AnyRow /\ r.state = row.state /\ r.at = row.at
  BY <1>3 DEF AnyRow
<1>12. LET r == [state |-> "synced", at |-> Newest(found, i), confirmed |-> confirmed]
       IN  i \in Cards(found) => r \in AnyRow /\ r.state = "synced" /\ r.at = Newest(found, i)
  BY <1>9 DEF AnyRow
<1>13. row.at \in Int /\ (i \in Cards(found) => Newest(found, i) \in Int)
  <2>1. row.at \in Times \cup {NoTime}
    BY <1>3 DEF AnyRow
  <2> QED BY <2>1, <1>9, Constants
<1>14. CASE i \notin Cards(found)
  BY <1>3, <1>4, <1>8, <1>14
<1>15. CASE i \in Cards(found) /\ row.state \in {"none", "synced"} /\ row.at <= Newest(found, i)
  <2>1. m \in AnyRow /\ m.state = "synced" /\ m.at = Newest(found, i)
    BY <1>4, <1>12, <1>15
  <2> QED BY <2>1, <1>1, <1>3, <1>9, <1>10, <1>13, <1>15
<1>16. CASE i \in Cards(found) /\ ~(row.state \in {"none", "synced"} /\ row.at <= Newest(found, i))
  <2>1. m \in AnyRow /\ m.state = row.state /\ m.at = row.at
    BY <1>4, <1>11, <1>16
  <2> QED BY <2>1, <1>3, <1>10, <1>16
<1> QED BY <1>14, <1>15, <1>16
-----------------------------------------------------------------------------
(* What keeps the parts of the invariant *)

\* GitLab moves on: an issue changes now, or what changed before shows in reads.
Moves == \A i \in Issues : \/ gitlab'[i].at = clock /\ listed'[i] = listed[i]
                           \/ gitlab'[i] = gitlab[i] /\ listed'[i] \in {listed[i], gitlab[i]}

LEMMA Numbers ==
    ASSUME Types
    PROVE  /\ clock \in Int /\ watermark \in Int /\ read.began \in Int /\ read.since \in Int
           /\ \A i \in Issues : /\ gitlab[i].at \in Int /\ NoTime <= gitlab[i].at /\ listed[i].at \in Int
                                /\ gitlab[i].at \in Times /\ listed[i].at \in Times
                                /\ rows[i].at \in Int /\ rows[i].at \in Times \cup {NoTime}
           /\ \A f \in Finding : f.at \in Int /\ NoTime <= f.at /\ f.issue \in Issues /\ f.at \in Times
           /\ \A w \in Workers : worker[w].began \in Int
BY Constants DEF Types, Read, Version, AnyRow, Finding, Work

\* A settled card is what reads return.
LEMMA SettledShows ==
    ASSUME Types, Clocked, NEW i \in Issues, NEW began \in Int, began <= clock, Settled(i, began)
    PROVE  listed[i] = gitlab[i] /\ gitlab[i].at < clock
BY Numbers, Constants DEF Clocked, Settled

LEMMA WorldClocked ==
    ASSUME Types, Types', Clocked, Moves, UNCHANGED <<clock, watermark, rows>>
    PROVE  Clocked'
BY Numbers, Constants DEF Clocked, Moves

LEMMA WorldReading ==
    ASSUME Types, Types', Clocked, Reading, Moves, UNCHANGED <<clock, watermark, read>>
    PROVE  Reading'
<1> SUFFICES ASSUME read # NoRead PROVE Reading'
  BY DEF Reading
<1>1. \A f \in read.found : f \in Finding
  BY DEF Types, Read
<1>2. \A f \in read.found : True(f)' /\ f.at >= read.since
  BY <1>1, Numbers DEF Reading, True, Moves, Clocked
<1>3. ASSUME NEW i \in Issues, Settled(i, read.began)', gitlab'[i].at >= read.since, Passed(i)'
      PROVE  Card(i)' \in read.found
  <2>1. gitlab'[i].at # clock
    BY <1>3, Numbers, Constants DEF Settled, Reading
  <2>2. gitlab'[i] = gitlab[i] /\ Settled(i, read.began)
    BY <1>3, <2>1 DEF Moves, Settled
  <2>3. listed[i] = gitlab[i] /\ listed'[i] = listed[i]
    BY <2>1, <2>2, SettledShows, Numbers DEF Reading, Moves
  <2>4. Passed(i)
    BY <1>3, <2>3 DEF Passed, Place
  <2>5. Card(i) \in read.found
    BY <1>3, <2>2, <2>4 DEF Reading
  <2> QED BY <2>2, <2>5 DEF Card
<1> QED BY <1>2, <1>3 DEF Reading, Since

LEMMA WorldWorking ==
    ASSUME Types, Types', Clocked, Working, Moves, UNCHANGED <<clock, worker>>,
           DOMAIN inbox \subseteq DOMAIN inbox'
    PROVE  Working'
<1> SUFFICES ASSUME NEW w \in Workers, worker[w] # Idle, worker[w].at = "fetched",
                    NEW f \in Finding, worker[w].found = {f}, True(f),
                    Settled(f.issue, worker[w].began) => f = Card(f.issue)
             PROVE  True(f)' /\ (Settled(f.issue, worker[w].began)' => f = Card(f.issue)')
  BY DEF Working
<1>1. f.issue \in Issues /\ worker[w].began <= clock
  BY Numbers DEF Working
<1>2. True(f)'
  BY <1>1, Numbers DEF True, Moves, Clocked
<1>3. ASSUME Settled(f.issue, worker[w].began)' PROVE f = Card(f.issue)'
  <2>1. gitlab'[f.issue].at # clock
    BY <1>1, <1>3, Numbers, Constants DEF Settled
  <2>2. gitlab'[f.issue] = gitlab[f.issue]
    BY <1>1, <2>1 DEF Moves
  <2> QED BY <1>3, <2>2 DEF Settled, Card
<1> QED BY <1>2, <1>3

\* A watermark never is past the clock: a card may fall behind that changed
\* since the lag and the time a read takes.
LEMMA CursorStays ==
    ASSUME Types', watermark' <= clock', CursorCoversUpdates,
           \A i \in Issues : Behind(i)' =>
               \/ clock' <= gitlab'[i].at + Lag + ReadTime
               \/ watermark' = watermark /\ Behind(i) /\ gitlab'[i] = gitlab[i]
    PROVE  CursorCoversUpdates'
<1> SUFFICES ASSUME NEW i \in Issues, watermark' # NoTime, Behind(i)' PROVE gitlab'[i].at >= Since'
  BY DEF CursorCoversUpdates
<1>1. /\ clock' \in Int /\ watermark' \in Int /\ gitlab'[i].at \in Int
  BY Numbers, Constants DEF Types, Version
<1>2. CASE clock' <= gitlab'[i].at + Lag + ReadTime
  BY <1>1, <1>2, Constants DEF Since
<1>3. CASE watermark' = watermark /\ Behind(i) /\ gitlab'[i] = gitlab[i]
  BY <1>3 DEF CursorCoversUpdates, Since
<1> QED BY <1>2, <1>3

-----------------------------------------------------------------------------
LEMMA IntakeBegins == IntakeInit => IntakeInv
<1> SUFFICES ASSUME IntakeInit PROVE IntakeInv
  OBVIOUS
<1>1. NoRow \in AnyRow /\ NoRow.at = NoTime /\ NoRow.state = "none"
  BY Constants DEF NoRow, AnyRow
<1>2. NoRead \in Read /\ Idle \in Work
  BY DEF NoRead, Read, Idle, Work
<1>3. 0 \in Times
  BY Constants DEF Times
<1>4. Types
  <2>1. [at : {0}, is : {"unborn", "card"}] \subseteq Version
    BY <1>3 DEF Version, Kinds
  <2>2. gitlab \in [Issues -> Version] /\ inbox = <<>> /\ inbox \in Seq(Delivery)
    BY <2>1 DEF IntakeInit
  <2> QED BY <1>1, <1>2, <1>3, <2>2 DEF IntakeInit, Types
<1>5. Clocked
  BY <1>1, Constants DEF IntakeInit, Clocked
<1>6. Reading /\ Working
  BY DEF IntakeInit, Reading, Working
<1>7. CursorCoversUpdates
  BY DEF IntakeInit, CursorCoversUpdates
<1> QED BY <1>4, <1>5, <1>6, <1>7 DEF IntakeInv

-----------------------------------------------------------------------------
(* GitLab and the clock *)

LEMMA TickKeeps == ASSUME IntakeInv, Tick PROVE IntakeInv'
<1>1. /\ clock < MaxTime /\ clock' = clock + 1
      /\ UNCHANGED <<gitlab, listed, rows, watermark, read, inbox, worker>>
      /\ Types /\ Clocked /\ Reading /\ Working /\ CursorCoversUpdates
  BY DEF Tick, IntakeInv
<1>2. clock' \in Times
  BY <1>1, Numbers, Constants DEF Types, Times
<1>3. Types'
  BY <1>1, <1>2 DEF Types
<1>4. Clocked'
  <2>1. \A i \in Issues : /\ listed[i] = gitlab[i] \/ clock + 1 <= gitlab[i].at + Lag
                          /\ rows[i].state \in {"applied", "early"} => clock + 1 <= rows[i].at + ReadTime
    BY <1>1, Numbers, Constants DEF Tick
  <2> QED BY <1>1, <2>1, Numbers DEF Clocked
<1>5. Reading'
  <2>1. read # NoRead => clock + 1 <= read.began + ReadTime /\ read.began <= clock + 1
    BY <1>1, Numbers, Constants DEF Tick, Reading
  <2>2. \A i \in Issues : /\ Settled(i, read.began)' <=> Settled(i, read.began)
                          /\ Passed(i)' <=> Passed(i)
                          /\ Card(i)' = Card(i)
    BY <1>1 DEF Settled, Passed, Place, Card
  <2>3. \A f \in read.found : True(f)' <=> True(f)
    BY <1>1 DEF True
  <2> QED BY <1>1, <2>1, <2>2, <2>3 DEF Reading, Since
<1>6. Working'
  <2>1. \A w \in Workers : worker[w] # Idle =>
            clock + 1 <= worker[w].began + ReadTime /\ worker[w].began <= clock + 1
    BY <1>1, Numbers, Constants DEF Tick, Working
  <2>2. \A f \in Finding : /\ True(f)' <=> True(f)
                           /\ Card(f.issue)' = Card(f.issue)
    BY <1>1 DEF True, Card
  <2>3. \A f \in Finding, w \in Workers :
            Settled(f.issue, worker[w].began)' <=> Settled(f.issue, worker[w].began)
    BY <1>1 DEF Settled
  <2> QED BY <1>1, <2>1, <2>2, <2>3 DEF Working
<1>7. CursorCoversUpdates'
  BY <1>1 DEF CursorCoversUpdates, Behind, Since
<1> QED BY <1>3, <1>4, <1>5, <1>6, <1>7 DEF IntakeInv

LEMMA EditKeeps ==
    ASSUME IntakeInv, NEW i \in Issues, NEW kind \in Kinds \cup {"deleted"}, TheyEdit(i, kind)
    PROVE  IntakeInv'
<1> DEFINE new == [at |-> clock, is |-> kind]
<1>1. /\ UNCHANGED <<clock, listed, rows, watermark, read, inbox, worker>>
      /\ gitlab' = [gitlab EXCEPT ![i] = new]
      /\ Types /\ Clocked /\ Reading /\ Working /\ CursorCoversUpdates
  BY DEF TheyEdit, IntakeInv
<1>2. new \in Version /\ new.at = clock
  BY <1>1 DEF Types, Version
<1> HIDE DEF new
<1>3. Types' /\ Moves
  BY <1>1, <1>2 DEF Types, Moves
<1>4. CursorCoversUpdates'
  <2>1. \A j \in Issues : Behind(j)' => \/ clock' <= gitlab'[j].at + Lag + ReadTime
                                        \/ watermark' = watermark /\ Behind(j) /\ gitlab'[j] = gitlab[j]
    BY <1>1, <1>2, <1>3, Numbers, Constants DEF Behind, Types
  <2>2. watermark' <= clock'
    BY <1>1 DEF Clocked
  <2> QED BY <1>1, <1>3, <2>1, <2>2, CursorStays
<1> QED BY <1>1, <1>3, <1>4, WorldClocked, WorldReading, WorldWorking DEF IntakeInv

LEMMA VisibleKeeps ==
    ASSUME IntakeInv, NEW i \in Issues, BecomesVisible(i) PROVE IntakeInv'
<1>1. /\ UNCHANGED <<clock, gitlab, rows, watermark, read, inbox, worker>>
      /\ listed' = [listed EXCEPT ![i] = gitlab[i]]
      /\ Types /\ Clocked /\ Reading /\ Working /\ CursorCoversUpdates
  BY DEF BecomesVisible, IntakeInv
<1>2. Types' /\ Moves
  BY <1>1 DEF Types, Moves
<1>3. CursorCoversUpdates'
  BY <1>1 DEF CursorCoversUpdates, Behind, Since
<1> QED BY <1>1, <1>2, <1>3, WorldClocked, WorldReading, WorldWorking DEF IntakeInv

\* Steps of the inbox alone.
LEMMA InboxKeeps ==
    ASSUME IntakeInv, UNCHANGED <<clock, gitlab, listed, rows, watermark, read, worker>>,
           inbox' \in Seq(Delivery), DOMAIN inbox \subseteq DOMAIN inbox'
    PROVE  IntakeInv'
<1>1. Types /\ Clocked /\ Reading /\ Working /\ CursorCoversUpdates
  BY DEF IntakeInv
<1>2. Types' /\ Moves
  BY <1>1 DEF Types, Moves
<1>3. CursorCoversUpdates'
  BY <1>1 DEF CursorCoversUpdates, Behind, Since
<1> QED BY <1>1, <1>2, <1>3, WorldClocked, WorldReading, WorldWorking DEF IntakeInv

LEMMA ReceiveKeeps ==
    ASSUME IntakeInv, NEW i \in Issues, Receive(i) PROVE IntakeInv'
<1>1. Pending(i) \in Delivery
  BY DEF Pending, Delivery
<1>2. inbox \in Seq(Delivery) /\ inbox' = Append(inbox, Pending(i))
  BY DEF Receive, IntakeInv, Types
<1>3. inbox' \in Seq(Delivery) /\ DOMAIN inbox \subseteq DOMAIN inbox'
  BY <1>1, <1>2
<1> QED BY <1>3, InboxKeeps DEF Receive

LEMMA DeliveryTypes ==
    ASSUME NEW s \in Seq(Delivery), NEW n \in DOMAIN s, NEW d \in Delivery
    PROVE  /\ [s EXCEPT ![n] = d] \in Seq(Delivery)
           /\ DOMAIN [s EXCEPT ![n] = d] = DOMAIN s
OBVIOUS

LEMMA StateTypes ==
    ASSUME NEW s \in Seq(Delivery), NEW n \in DOMAIN s,
           NEW state \in {"pending", "processing", "stale", "completed", "dead"}
    PROVE  /\ [s EXCEPT ![n].state = state] \in Seq(Delivery)
           /\ DOMAIN [s EXCEPT ![n].state = state] = DOMAIN s
<1>1. s[n] \in Delivery
  OBVIOUS
<1>2. [s[n] EXCEPT !.state = state] \in Delivery
  BY <1>1 DEF Delivery
<1> QED BY <1>2, DeliveryTypes

LEMMA ExpireKeeps ==
    ASSUME IntakeInv, NEW n \in DOMAIN inbox, Expire(n) PROVE IntakeInv'
<1>1. inbox \in Seq(Delivery) /\ inbox' = [inbox EXCEPT ![n].state = "stale"]
  BY DEF Expire, IntakeInv, Types
<1>2. inbox' \in Seq(Delivery) /\ DOMAIN inbox \subseteq DOMAIN inbox'
  BY <1>1, StateTypes
<1> QED BY <1>2, InboxKeeps DEF Expire

-----------------------------------------------------------------------------
(* Operations *)

\* Steps that change rows, and of GitLab what an operation sets there now.
LEMMA RowKeeps ==
    ASSUME IntakeInv, UNCHANGED <<clock, listed, watermark, read, inbox, worker>>, Moves,
           NEW i \in Issues, NEW row \in AnyRow, rows' = [rows EXCEPT ![i] = row],
           gitlab' \in [Issues -> Version], row.at <= gitlab'[i].at,
           row.state \in {"applied", "early"} => clock <= row.at + ReadTime,
           \A j \in Issues : j # i => gitlab'[j] = gitlab[j],
           Behind(i)' => clock <= gitlab'[i].at + Lag + ReadTime
    PROVE  IntakeInv'
<1>1. Types /\ Clocked /\ Reading /\ Working /\ CursorCoversUpdates
  BY DEF IntakeInv
<1>2. Types'
  BY <1>1 DEF Types
<1>3. Clocked'
  <2>1. \A j \in Issues : rows'[j] = IF j = i THEN row ELSE rows[j]
    BY <1>1 DEF Types
  <2> QED BY <1>1, <1>2, <2>1, Numbers, Constants DEF Clocked, Moves
<1>4. CursorCoversUpdates'
  <2>1. \A j \in Issues : Behind(j)' => \/ clock' <= gitlab'[j].at + Lag + ReadTime
                                        \/ watermark' = watermark /\ Behind(j) /\ gitlab'[j] = gitlab[j]
    BY <1>1 DEF Behind, Types
  <2>2. watermark' <= clock'
    BY <1>1 DEF Clocked
  <2> QED BY <1>1, <1>2, <2>1, <2>2, CursorStays
<1> QED BY <1>1, <1>2, <1>3, <1>4, WorldReading, WorldWorking DEF IntakeInv

LEMMA BeginKeeps == ASSUME IntakeInv, NEW i \in Issues, BeginOperation(i) PROVE IntakeInv'
<1>0. PICK row : row = [rows[i] EXCEPT !.state = "queued"]
  OBVIOUS
<1>1. /\ UNCHANGED <<clock, gitlab, listed, watermark, read, inbox, worker>>
      /\ rows' = [rows EXCEPT ![i] = row] /\ Types /\ Clocked
  BY <1>0 DEF BeginOperation, IntakeInv
<1>2. rows[i] \in AnyRow /\ rows[i].at <= gitlab[i].at /\ gitlab \in [Issues -> Version]
  BY <1>1 DEF Types, Clocked
<1>3. row \in AnyRow /\ row.at = rows[i].at /\ row.state = "queued"
  BY <1>0, <1>2 DEF AnyRow
<1>4. ~Behind(i)' /\ Moves
  BY <1>1, <1>3 DEF Behind, Moves, Types
<1> QED BY <1>1, <1>2, <1>3, <1>4, RowKeeps

LEMMA ApplyKeeps == ASSUME IntakeInv, NEW i \in Issues, ApplyIssue(i) PROVE IntakeInv'
<1>0. PICK row, new : /\ row = [rows[i] EXCEPT !.state = "applied", !.at = clock]
                      /\ new = [gitlab[i] EXCEPT !.at = clock]
  OBVIOUS
<1>1. /\ UNCHANGED <<clock, listed, watermark, read, inbox, worker>>
      /\ rows' = [rows EXCEPT ![i] = row] /\ gitlab' = [gitlab EXCEPT ![i] = new]
      /\ Types /\ Clocked
  BY <1>0 DEF ApplyIssue, IntakeInv
<1>2. /\ rows[i] \in AnyRow /\ gitlab[i] \in Version /\ gitlab \in [Issues -> Version]
      /\ clock \in Times
  BY <1>1 DEF Types
<1>3. row \in AnyRow /\ row.at = clock /\ row.state = "applied"
  BY <1>0, <1>2 DEF AnyRow
<1>4. new \in Version /\ new.at = clock
  BY <1>0, <1>2 DEF Version
<1>5. /\ gitlab' \in [Issues -> Version] /\ gitlab'[i] = new
      /\ \A j \in Issues : j # i => gitlab'[j] = gitlab[j]
  BY <1>1, <1>2, <1>4
<1>6. ~Behind(i)' /\ Moves
  BY <1>1, <1>3, <1>4, <1>5 DEF Behind, Moves, Types
<1>7. row.at <= gitlab'[i].at /\ clock <= row.at + ReadTime
  BY <1>1, <1>3, <1>4, <1>5, Numbers, Constants
<1> QED BY <1>1, <1>3, <1>5, <1>6, <1>7, RowKeeps

LEMMA CompleteKeeps == ASSUME IntakeInv, NEW i \in Issues, CompleteOperation(i) PROVE IntakeInv'
<1>0. PICK row : row = [rows[i] EXCEPT !.state = "synced", !.confirmed = rows[i].state = "applied"]
  OBVIOUS
<1>1. /\ UNCHANGED <<clock, gitlab, listed, watermark, read, inbox, worker>>
      /\ rows' = [rows EXCEPT ![i] = row] /\ Types /\ Clocked
      /\ rows[i].state \in {"applied", "early"}
  BY <1>0 DEF CompleteOperation, IntakeInv
<1>2. /\ rows[i] \in AnyRow /\ rows[i].at <= gitlab[i].at /\ gitlab \in [Issues -> Version]
      /\ clock <= rows[i].at + ReadTime
  BY <1>1 DEF Types, Clocked
<1>3. row \in AnyRow /\ row.at = rows[i].at /\ row.state = "synced"
  BY <1>0, <1>2 DEF AnyRow
<1>4. clock <= gitlab[i].at + Lag + ReadTime /\ Moves
  BY <1>1, <1>2, Numbers, Constants DEF Moves
<1> QED BY <1>1, <1>2, <1>3, <1>4, RowKeeps

-----------------------------------------------------------------------------
(* Reads *)

LEMMA StartKeeps ==
    ASSUME IntakeInv, NEW kind \in {"delta", "presence", "deep"}, StartRead(kind) PROVE IntakeInv'
<1>1. /\ UNCHANGED <<clock, gitlab, listed, watermark, inbox>>
      /\ Types /\ Clocked /\ Reading /\ Working /\ CursorCoversUpdates
  BY DEF StartRead, IntakeInv
<1>2. PICK since \in Int : since = IF kind = "delta" THEN Since ELSE NoTime
  BY <1>1, Numbers, Constants DEF Since
<1>3. /\ read' \in Read /\ read' # NoRead /\ read'.kind = kind /\ read'.began = clock
      /\ read'.since = since /\ read'.last = <<0, 0>> /\ read'.found = {} /\ read'.ended = FALSE
  <2>1. read' = [kind |-> kind, since |-> since, began |-> clock, last |-> <<0, 0>>, found |-> {},
                 ended |-> FALSE]
    BY <1>2 DEF StartRead
  <2>2. clock \in Int
    BY <1>1, Numbers
  <2> QED BY <2>1, <2>2 DEF Read, NoRead
<1>4. \A i \in Issues : /\ rows'[i] \in AnyRow /\ rows'[i].at = rows[i].at
                        /\ rows'[i].state = IF rows[i].state = "applied" THEN "early" ELSE rows[i].state
  <2> SUFFICES ASSUME NEW i \in Issues
               PROVE  /\ rows'[i] \in AnyRow /\ rows'[i].at = rows[i].at
                      /\ rows'[i].state = IF rows[i].state = "applied" THEN "early" ELSE rows[i].state
    OBVIOUS
  <2>1. rows[i] \in AnyRow
    BY <1>1 DEF Types
  <2>2. rows'[i] = [rows[i] EXCEPT !.confirmed = FALSE, !.state = IF @ = "applied" THEN "early" ELSE @]
    BY DEF StartRead
  <2> QED BY <2>1, <2>2 DEF AnyRow
<1>5. \A w \in Workers : /\ worker'[w] \in Work /\ worker'[w].began = worker[w].began
                         /\ worker'[w].at = worker[w].at /\ worker'[w].found = worker[w].found
                         /\ worker'[w].delivery = worker[w].delivery
                         /\ worker[w] = Idle => worker'[w] = Idle
  <2> SUFFICES ASSUME NEW w \in Workers
               PROVE  /\ worker'[w] \in Work /\ worker'[w].began = worker[w].began
                      /\ worker'[w].at = worker[w].at /\ worker'[w].found = worker[w].found
                      /\ worker'[w].delivery = worker[w].delivery
                      /\ worker[w] = Idle => worker'[w] = Idle
    OBVIOUS
  <2>1. worker[w] \in Work
    BY <1>1 DEF Types
  <2>2. worker'[w] = IF worker[w] = Idle THEN Idle ELSE [worker[w] EXCEPT !.early = TRUE]
    BY DEF StartRead
  <2> QED BY <2>1, <2>2 DEF Work
<1>6. Types'
  <2>1. rows' \in [Issues -> AnyRow]
    BY <1>4 DEF StartRead
  <2>2. worker' \in [Workers -> Work]
    BY <1>5 DEF StartRead
  <2> QED BY <1>1, <1>3, <2>1, <2>2 DEF Types
<1>7. Clocked'
  BY <1>1, <1>4 DEF Clocked
<1>8. Reading'
  <2>1. \A i \in Issues : ~Passed(i)'
    <3> SUFFICES ASSUME NEW i \in Issues PROVE Precedes(read'.last, Place(i)')
      BY <1>3 DEF Passed
    <3>1. listed[i].at \in Int /\ listed[i].at >= 0 /\ i \in Int /\ i > 0
      BY <1>1, Numbers, Constants
    <3>2. Place(i)' = <<listed[i].at, i>> \/ Place(i)' = <<0, i>>
      BY <1>1 DEF Place
    <3> QED BY <1>3, <3>1, <3>2 DEF Precedes
  <2>2. kind = "delta" => watermark # NoTime
    BY DEF StartRead
  <2>3. clock <= clock + ReadTime
    BY <1>1, Numbers, Constants
  <2>4. Since' = Since
    BY <1>1 DEF Since
  <2> QED BY <1>1, <1>2, <1>3, <2>1, <2>2, <2>3, <2>4, Numbers DEF Reading
<1>9. Working'
  <2>1. \A f \in Finding : True(f)' = True(f) /\ Card(f.issue)' = Card(f.issue)
    BY <1>1 DEF True, Card
  <2>2. \A f \in Finding, w \in Workers :
            Settled(f.issue, worker[w].began)' <=> Settled(f.issue, worker[w].began)
    BY <1>1, <1>5 DEF Settled
  <2> QED BY <1>1, <1>5, <2>1, <2>2 DEF Working
<1>10. CursorCoversUpdates'
  BY <1>1, <1>4 DEF CursorCoversUpdates, Behind, Since
<1> QED BY <1>6, <1>7, <1>8, <1>9, <1>10 DEF IntakeInv

LEMMA FailsKeeps == ASSUME IntakeInv, ReadFails PROVE IntakeInv'
<1>1. /\ UNCHANGED <<clock, gitlab, listed, rows, watermark, inbox, worker>> /\ read' = NoRead
      /\ Types /\ Clocked /\ Reading /\ Working /\ CursorCoversUpdates
  BY DEF ReadFails, IntakeInv
<1>2. Types' /\ Moves
  <2>1. NoRead \in Read
    BY DEF NoRead, Read
  <2> QED BY <1>1, <2>1 DEF Types, Moves
<1>3. Reading'
  BY <1>1 DEF Reading
<1>4. CursorCoversUpdates'
  BY <1>1 DEF CursorCoversUpdates, Behind, Since
<1> QED BY <1>1, <1>2, <1>3, <1>4, WorldClocked, WorldWorking DEF IntakeInv

LEMMA PageKeeps == ASSUME IntakeInv, ReadPage PROVE IntakeInv'
<1>1. /\ UNCHANGED <<clock, gitlab, listed, rows, watermark, inbox, worker>>
      /\ read # NoRead /\ ~read.ended /\ read \in Read
      /\ Types /\ Clocked /\ Reading /\ Working /\ CursorCoversUpdates
  BY DEF ReadPage, IntakeInv, Types
<1>2. /\ Moves /\ CursorCoversUpdates' /\ \A f \in Finding : True(f)' <=> True(f)
  BY <1>1 DEF Moves, CursorCoversUpdates, Behind, Since, True
\* A settled card that is passed now was to come.
<1>3. ASSUME NEW j \in Issues, Settled(j, read.began), gitlab[j].at >= read.since,
             Card(j) \notin read.found
      PROVE  j \in ToCome
  <2>1. ~Passed(j)
    BY <1>1, <1>3 DEF Reading
  <2>2. listed[j] = gitlab[j]
    BY <1>1, <1>3, Numbers, SettledShows DEF Reading
  <2>3. Exists(listed[j])
    BY <1>3, <2>2 DEF Settled, Exists, Kinds
  <2> QED BY <1>3, <2>1, <2>2, <2>3 DEF Passed, ToCome
<1>4. ASSUME NEW r \in Read, read' = r, r.kind = read.kind, r.since = read.since, r.began = read.began,
             \A f \in r.found : True(f) /\ f.at >= read.since,
             \A j \in Issues : Settled(j, read.began) /\ gitlab[j].at >= read.since /\ Passed(j)'
                               => Card(j) \in r.found
      PROVE  IntakeInv'
  <2>1. Types'
    BY <1>1, <1>4 DEF Types
  <2>2. r # NoRead
    BY <1>1, <1>4 DEF Reading, NoRead
  <2>3. \A f \in r.found : True(f)'
    BY <1>1, <1>2, <1>4 DEF Read
  <2>4. \A j \in Issues : Card(j)' = Card(j)
    BY <1>1 DEF Card
  <2>5. \A j \in Issues : Settled(j, read.began)' <=> Settled(j, read.began)
    BY <1>1, <1>4 DEF Settled
  <2>6. Reading'
    BY <1>1, <1>4, <2>2, <2>3, <2>4, <2>5 DEF Reading, Since
  <2> QED BY <1>1, <1>2, <2>1, <2>6, WorldClocked, WorldWorking DEF IntakeInv
<1>5. CASE ToCome = {}
  <2>1. PICK r : r = [read EXCEPT !.ended = TRUE]
    OBVIOUS
  <2>2. /\ r \in Read /\ r.kind = read.kind /\ r.since = read.since /\ r.began = read.began
        /\ r.found = read.found
    BY <1>1, <2>1 DEF Read
  <2>3. read' = r
    BY <1>5, <2>1 DEF ReadPage
  <2> QED BY <1>1, <1>3, <1>4, <1>5, <2>2, <2>3 DEF Reading
<1>6. ASSUME NEW i \in ToCome, \A j \in ToCome \ {i} : Precedes(Place(i), Place(j)),
             read' = [read EXCEPT !.last = Place(i), !.ended = ToCome = {i},
                         !.found = @ \cup {[issue |-> i, at |-> listed[i].at, is |-> listed[i].is]}]
      PROVE  IntakeInv'
  <2>1. PICK f : f = [issue |-> i, at |-> listed[i].at, is |-> listed[i].is]
    OBVIOUS
  <2>2. i \in Issues /\ Place(i) \in Int \X Int
    BY <1>1, Numbers, Constants DEF ToCome, Place
  <2>3. /\ f \in Finding /\ True(f) /\ f.at >= read.since
    <3>1. listed[i] \in Version /\ listed[i].at <= gitlab[i].at
      BY <1>1, <2>2 DEF Types, Clocked
    <3> QED BY <1>6, <2>1, <2>2, <3>1 DEF Finding, Version, AnyKind, True, ToCome
  <2>41. PICK last \in Int \X Int, ended \in BOOLEAN, found \in SUBSET Finding :
            last = Place(i) /\ ended = (ToCome = {i}) /\ found = read.found \cup {f}
    BY <1>1, <2>2, <2>3 DEF Read
  <2>4. PICK r : r = [read EXCEPT !.last = last, !.ended = ended, !.found = found]
    OBVIOUS
  <2>5. /\ r \in Read /\ r.kind = read.kind /\ r.since = read.since /\ r.began = read.began
        /\ r.last = Place(i) /\ r.ended = (ToCome = {i}) /\ r.found = read.found \cup {f}
    <3>1. /\ r \in Read /\ r.kind = read.kind /\ r.since = read.since /\ r.began = read.began
          /\ r.last = last /\ r.ended = ended /\ r.found = found
      BY <1>1, <2>41, <2>4 DEF Read
    <3> QED BY <2>41, <3>1
  <2>6. read' = r
    BY <1>6, <2>1, <2>41, <2>4
  <2>7. ASSUME NEW j \in Issues, Settled(j, read.began), gitlab[j].at >= read.since, Passed(j)'
        PROVE  Card(j) \in r.found
    <3>1. CASE Card(j) \in read.found
      BY <2>5, <3>1
    <3>2. CASE Card(j) \notin read.found
      <4>1. j \in ToCome
        BY <1>3, <2>7, <3>2
      <4>2. Place(j)' = Place(j)
        BY <1>1, <2>5, <2>6 DEF Place
      <4>3. j = i
        <5>1. r.ended \/ ~Precedes(r.last, Place(j))
          BY <2>6, <2>7, <4>2 DEF Passed, Precedes
        <5> QED BY <1>6, <2>5, <4>1, <5>1
      <4>4. listed[j] = gitlab[j] /\ gitlab[j].is = "card"
        BY <1>1, <2>7, Numbers, SettledShows DEF Reading, Settled
      <4> QED BY <2>1, <2>5, <4>3, <4>4 DEF Card
    <3> QED BY <3>1, <3>2
  <2>8. \A g \in r.found : True(g) /\ g.at >= read.since
    BY <1>1, <2>3, <2>5 DEF Reading
  <2> QED BY <1>4, <2>5, <2>6, <2>7, <2>8
<1> QED BY <1>5, <1>6 DEF ReadPage

LEMMA NextKept ==
    ASSUME Types, Clocked, NEW times \in SUBSET Times, \A t \in times : t <= clock,
           read.kind = "delta" => watermark # NoTime
    PROVE  /\ NextWatermark(times) \in Times \cup {NoTime} /\ NextWatermark(times) <= clock
           /\ times = {} => NextWatermark(times) = watermark
<1> DEFINE all == times \cup (IF read.kind = "delta" THEN {watermark} ELSE {})
<1>1. NextWatermark(times) = IF times = {} THEN watermark ELSE Max(all)
  BY DEF NextWatermark
<1>2. all \subseteq Times /\ \A t \in all : t <= clock
  BY DEF Types, Clocked
<1>3. times # {} => all # {}
  OBVIOUS
<1> HIDE DEF all
<1>4. times # {} => Max(all) \in all
  BY <1>2, <1>3, LatestOf
<1> QED BY <1>1, <1>2, <1>4 DEF Types, Clocked

LEMMA ReadKeeps == ASSUME IntakeInv, ApplyRead PROVE IntakeInv'
<1> DEFINE cards == IF read.kind = "presence" THEN {} ELSE read.found
           removed == IF read.kind # "delta" THEN {}
                      ELSE {f.issue : f \in {g \in read.found : g.is = "other"}}
           times == {f.at : f \in cards}
<1>1. /\ UNCHANGED <<clock, gitlab, listed, inbox, worker>> /\ read' = NoRead
      /\ read.ended /\ read # NoRead
      /\ Types /\ Clocked /\ Reading /\ Working /\ CursorCoversUpdates
  BY DEF ApplyRead, IntakeInv, NoRead
<1>2. rows' = Merged(cards, removed, Prunable, FALSE) /\ watermark' = NextWatermark(times)
  BY DEF ApplyRead
<1>3. /\ cards \subseteq read.found /\ cards \in SUBSET Finding /\ \A f \in cards : True(f)
      /\ read.found \subseteq Finding
  BY <1>1 DEF Types, Read, Reading
<1>4. times \in SUBSET Times /\ \A t \in times : t <= clock
  <2>1. \A f \in cards : f.at \in Times /\ f.at <= clock
    BY <1>1, <1>3, Numbers DEF True, Clocked
  <2> QED BY <2>1
<1>5. \A i \in Issues : gitlab[i].is = "card" /\ i \in removed =>
          read.kind = "delta" /\ gitlab[i].at >= read.since
  <2> SUFFICES ASSUME NEW f \in read.found, f.is = "other", read.kind = "delta"
               PROVE  gitlab[f.issue].at >= read.since
    OBVIOUS
  <2>1. f \in Finding /\ True(f) /\ f.at >= read.since
    BY <1>1, <1>3 DEF Reading
  <2> QED BY <1>1, <2>1, Numbers DEF True
<1>6. \A i \in Issues : Card(i) \in read.found /\ read.kind = "presence" => i \notin Prunable
  BY DEF Prunable, Observed, Card
<1>7. read.kind = "delta" => Prunable = {}
  BY DEF Prunable
<1>8. read.kind = "presence" => times = {} /\ removed = {}
  OBVIOUS
<1>9. read.kind # "presence" => cards = read.found
  OBVIOUS
<1> HIDE DEF cards, removed, times
<1>10. /\ watermark' \in Times \cup {NoTime} /\ watermark' <= clock
       /\ times = {} => watermark' = watermark
  BY <1>1, <1>2, <1>4, NextKept DEF Reading
<1>11. ASSUME NEW i \in Issues
       PROVE  /\ rows'[i] \in AnyRow /\ rows'[i].at <= gitlab[i].at
              /\ rows[i].state \notin {"none", "synced"}
                    => rows'[i].state = rows[i].state /\ rows'[i].at = rows[i].at
              /\ rows[i].state \in {"none", "synced"} => rows'[i].state \in {"none", "synced"}
              /\ rows[i].state \in {"none", "synced"} /\ Card(i) \in cards => rows'[i].at = gitlab[i].at
              /\ i \notin removed \cup Prunable /\ rows[i].at = gitlab[i].at
                    => rows'[i].at = gitlab[i].at
  <2>10. PICK c \in BOOLEAN : c = FALSE
    OBVIOUS
  <2>1. PICK rem, pru, m : rem = removed /\ pru = Prunable /\ m = Merged(cards, rem, pru, c)[i]
    OBVIOUS
  <2>2. rows'[i] = m
    BY <1>2, <2>10, <2>1
  <2>3. /\ m \in AnyRow /\ m.at <= gitlab[i].at
        /\ rows[i].state \notin {"none", "synced"} => m.state = rows[i].state /\ m.at = rows[i].at
        /\ rows[i].state \in {"none", "synced"} => m.state \in {"none", "synced"}
        /\ rows[i].state \in {"none", "synced"} /\ Card(i) \in cards => m.at = gitlab[i].at
        /\ i \notin removed \cup Prunable /\ rows[i].at = gitlab[i].at => m.at = gitlab[i].at
    <3>1. Types /\ Clocked /\ cards \in SUBSET Finding /\ \A f \in cards : True(f)
      BY <1>1, <1>3
    <3>2. /\ m \in AnyRow /\ m.at <= gitlab[i].at
          /\ rows[i].state \notin {"none", "synced"} => m.state = rows[i].state /\ m.at = rows[i].at
          /\ rows[i].state \in {"none", "synced"} => m.state \in {"none", "synced"}
          /\ rows[i].state \in {"none", "synced"} /\ Card(i) \in cards => m.at = gitlab[i].at
          /\ i \notin rem \cup pru /\ rows[i].at = gitlab[i].at => m.at = gitlab[i].at
      BY <2>1, <3>1, MergedRow
    <3> QED BY <2>1, <3>2
  <2> QED BY <2>2, <2>3
<1>12. Types'
  <2>1. NoRead \in Read
    BY DEF NoRead, Read
  <2>2. rows' \in [Issues -> AnyRow]
    BY <1>2, <1>11 DEF Merged
  <2> QED BY <1>1, <1>10, <2>1, <2>2 DEF Types
<1>13. Clocked'
  BY <1>1, <1>10, <1>11 DEF Clocked
<1>14. Reading' /\ Working'
  <2>1. Moves
    BY <1>1 DEF Moves
  <2> QED BY <1>1, <1>12, <2>1, WorldWorking DEF Reading
<1>15. CursorCoversUpdates'
  <2>1. ASSUME NEW i \in Issues, Behind(i)', ~(clock <= gitlab[i].at + Lag + ReadTime)
        PROVE  watermark' = watermark /\ Behind(i)
    <3>1. gitlab[i].is = "card" /\ rows'[i].state \in {"none", "synced"} /\ rows'[i].at # gitlab[i].at
      BY <1>1, <2>1 DEF Behind
    <3>2. rows[i].state \in {"none", "synced"} /\ Card(i) \notin cards
      BY <1>11, <3>1
    <3>3. i \notin removed \cup Prunable => Behind(i)
      BY <1>11, <3>1, <3>2 DEF Behind
    <3>4. Settled(i, read.began) /\ Passed(i)
      BY <1>1, <2>1, <3>1, Numbers, Constants DEF Settled, Passed, Reading
    <3>5. CASE gitlab[i].at >= read.since
      <4>1. Card(i) \in read.found
        BY <1>1, <3>4, <3>5 DEF Reading
      <4>2. read.kind = "presence"
        BY <1>9, <3>2, <4>1
      <4> QED BY <1>6, <1>8, <1>10, <3>3, <4>1, <4>2
    <3>6. CASE ~(gitlab[i].at >= read.since)
      <4>1. read.kind = "delta" /\ read.since = Since /\ watermark # NoTime
        BY <1>1, <3>6, Numbers DEF Reading
      <4>2. Behind(i)
        BY <1>5, <1>7, <3>1, <3>3, <3>6, <4>1
      <4> QED BY <1>1, <3>6, <4>1, <4>2 DEF CursorCoversUpdates
    <3> QED BY <3>5, <3>6
  <2>2. watermark' <= clock'
    BY <1>1, <1>10
  <2> QED BY <1>1, <1>12, <2>1, <2>2, CursorStays
<1> QED BY <1>12, <1>13, <1>14, <1>15 DEF IntakeInv

-----------------------------------------------------------------------------
(* Webhooks *)

\* One worker goes on, with its delivery or without.
LEMMA WorkKeeps ==
    ASSUME IntakeInv, UNCHANGED <<clock, gitlab, listed, rows, watermark, read>>,
           NEW w \in Workers, NEW work \in Work, worker' = [worker EXCEPT ![w] = work],
           inbox' \in Seq(Delivery), DOMAIN inbox' = DOMAIN inbox,
           work # Idle =>
               /\ work.began <= clock /\ clock <= work.began + ReadTime
               /\ work.at # "idle" /\ work.delivery \in DOMAIN inbox
               /\ work.at = "fetched" =>
                     \E f \in Finding : /\ work.found = {f} /\ True(f)
                                        /\ Settled(f.issue, work.began) => f = Card(f.issue)
    PROVE  IntakeInv'
<1>1. Types /\ Clocked /\ Reading /\ Working /\ CursorCoversUpdates
  BY DEF IntakeInv
<1>2. Types' /\ Moves
  BY <1>1 DEF Types, Moves
<1>3. CursorCoversUpdates'
  BY <1>1 DEF CursorCoversUpdates, Behind, Since
<1>4. Working'
  <2>1. \A v \in Workers : worker'[v] = IF v = w THEN work ELSE worker[v]
    BY <1>1 DEF Types
  <2>2. \A f \in Finding : True(f)' = True(f) /\ Card(f.issue)' = Card(f.issue)
    BY <1>1 DEF True, Card
  <2> SUFFICES ASSUME NEW v \in Workers, worker'[v] # Idle
               PROVE  /\ worker'[v].began <= clock' /\ clock' <= worker'[v].began + ReadTime
                      /\ worker'[v].at # "idle" /\ worker'[v].delivery \in DOMAIN inbox'
                      /\ worker'[v].at = "fetched" =>
                            \E f \in Finding : /\ worker'[v].found = {f} /\ True(f)'
                                               /\ Settled(f.issue, worker[v].began)' => f = Card(f.issue)'
    BY DEF Working
  <2>4. CASE v = w
    <3>1. worker'[v] = work /\ work \in Work /\ work.began \in Int
      BY <2>1, <2>4 DEF Work
    <3>2. \A f \in Finding : Settled(f.issue, worker[v].began)' <=> Settled(f.issue, work.began)
      BY <1>1, <3>1 DEF Settled
    <3> QED BY <1>1, <2>2, <3>1, <3>2
  <2>5. CASE v # w
    <3>1. worker'[v] = worker[v]
      BY <2>1, <2>5
    <3>2. \A f \in Finding : Settled(f.issue, worker[v].began)' <=> Settled(f.issue, worker[v].began)
      BY <1>1, <3>1 DEF Settled
    <3> QED BY <1>1, <2>2, <3>1, <3>2 DEF Working
  <2> QED BY <2>4, <2>5
<1> QED BY <1>1, <1>2, <1>3, <1>4, WorldClocked, WorldReading DEF IntakeInv

LEMMA CrashKeeps ==
    ASSUME IntakeInv, NEW w \in Workers, worker' = [worker EXCEPT ![w] = Idle],
           UNCHANGED <<clock, gitlab, listed, rows, watermark, read>>,
           inbox' \in Seq(Delivery), DOMAIN inbox' = DOMAIN inbox
    PROVE  IntakeInv'
<1>1. Idle \in Work
  BY DEF Idle, Work
<1> QED BY <1>1, WorkKeeps

LEMMA ClaimKeeps ==
    ASSUME IntakeInv, NEW w \in Workers, NEW n \in DOMAIN inbox, Claim(w, n) PROVE IntakeInv'
<1>1. /\ UNCHANGED <<clock, gitlab, listed, rows, watermark, read>>
      /\ inbox \in Seq(Delivery) /\ inbox[n] \in Delivery /\ n \in Nat /\ Types
  BY DEF Claim, IntakeInv, Types
<1>2. PICK work, attempt, d :
         /\ attempt = inbox[n].attempts + 1
         /\ work = [Idle EXCEPT !.at = "claimed", !.delivery = n, !.began = clock, !.attempt = attempt]
         /\ d = [inbox[n] EXCEPT !.state = "processing", !.attempts = attempt]
  OBVIOUS
<1>3. worker' = [worker EXCEPT ![w] = work] /\ inbox' = [inbox EXCEPT ![n] = d]
  <2>1. worker' = [worker EXCEPT ![w] = work]
    BY <1>2 DEF Claim
  <2>2. worker'[w].attempt = attempt
    BY <1>1, <1>2, <2>1 DEF Types, Idle
  <2>3. inbox' = [inbox EXCEPT ![n] = d]
    BY <1>2, <2>2 DEF Claim
  <2> QED BY <2>1, <2>3
<1>4. clock \in Int /\ attempt \in Int
  BY <1>1, <1>2, Numbers DEF Delivery
<1>5. work \in Work /\ work.at = "claimed" /\ work.delivery = n /\ work.began = clock
  BY <1>1, <1>2, <1>4 DEF Idle, Work
<1>6. d \in Delivery
  BY <1>1, <1>2, <1>4 DEF Delivery
<1>7. inbox' \in Seq(Delivery) /\ DOMAIN inbox' = DOMAIN inbox
  BY <1>1, <1>3, <1>6, DeliveryTypes
<1>8. work.began <= clock /\ clock <= work.began + ReadTime
  BY <1>4, <1>5, Constants
<1> QED BY <1>1, <1>3, <1>5, <1>7, <1>8, WorkKeeps

LEMMA FetchKeeps == ASSUME IntakeInv, NEW w \in Workers, Fetch(w) PROVE IntakeInv'
<1>1. /\ UNCHANGED <<clock, gitlab, listed, rows, watermark, read, inbox>>
      /\ worker[w].at = "claimed" /\ worker[w] \in Work
      /\ inbox \in Seq(Delivery) /\ Types /\ Clocked /\ Working
  BY DEF Fetch, IntakeInv, Types
<1>2. worker[w] # Idle
  BY <1>1 DEF Idle
<1>3. PICK i, f, work : /\ i = inbox[worker[w].delivery].issue
                        /\ f = [issue |-> i, at |-> listed[i].at, is |-> listed[i].is]
                        /\ work = [worker[w] EXCEPT !.at = "fetched", !.found = {f}]
  OBVIOUS
<1>4. worker' = [worker EXCEPT ![w] = work]
  BY <1>3 DEF Fetch
<1>5. inbox[worker[w].delivery] \in Delivery
  BY <1>1, <1>2 DEF Working
<1>6. i \in Issues /\ listed[i] \in Version /\ listed[i].at <= gitlab[i].at
  BY <1>1, <1>3, <1>5 DEF Delivery, Types, Clocked
<1>7. f \in Finding /\ True(f) /\ f.issue = i /\ f.at = listed[i].at /\ f.is = listed[i].is
  BY <1>3, <1>6 DEF Finding, Version, AnyKind, True
<1>8. /\ work \in Work /\ work.at = "fetched" /\ work.found = {f}
      /\ work.began = worker[w].began /\ work.delivery = worker[w].delivery
  BY <1>1, <1>3, <1>7 DEF Work
<1>9. Settled(f.issue, work.began) => f = Card(f.issue)
  <2> SUFFICES ASSUME Settled(i, worker[w].began) PROVE f = Card(i)
    BY <1>7, <1>8
  <2>1. listed[i] = gitlab[i] /\ gitlab[i].is = "card"
    BY <1>1, <1>2, <1>6, Numbers, SettledShows DEF Working, Settled
  <2> QED BY <1>3, <2>1 DEF Card
<1>10. /\ work.began <= clock /\ clock <= work.began + ReadTime
       /\ work.at # "idle" /\ work.delivery \in DOMAIN inbox
  BY <1>1, <1>2, <1>8 DEF Working
<1> QED BY <1>1, <1>4, <1>7, <1>8, <1>9, <1>10, WorkKeeps

LEMMA FailDeliveryKeeps ==
    ASSUME IntakeInv, NEW w \in Workers, worker[w] # Idle, FailDelivery(w) PROVE IntakeInv'
<1>1. inbox \in Seq(Delivery) /\ worker[w].delivery \in DOMAIN inbox
  BY DEF IntakeInv, Types, Working
<1>2. PICK state \in {"dead", "pending"} : inbox' = [inbox EXCEPT ![worker[w].delivery].state = state]
  BY DEF FailDelivery
<1>3. inbox' \in Seq(Delivery) /\ DOMAIN inbox' = DOMAIN inbox
  BY <1>1, <1>2, StateTypes
<1> QED BY <1>3, CrashKeeps DEF FailDelivery

\* A webhook's merge: the row of its issue is up to a card that was settled
\* when the delivery was claimed.
LEMMA ReconcileKeeps == ASSUME IntakeInv, NEW w \in Workers, Reconcile(w) PROVE IntakeInv'
<1>1. /\ UNCHANGED <<clock, gitlab, listed, watermark, read>>
      /\ worker' = [worker EXCEPT ![w] = Idle] /\ worker[w].at = "fetched" /\ worker[w] \in Work
      /\ Types /\ Clocked /\ Reading /\ Working /\ CursorCoversUpdates
  BY DEF Reconcile, Mapped, IntakeInv, Types
<1>2. worker[w] # Idle
  BY <1>1 DEF Idle
<1>3. PICK f \in Finding : /\ worker[w].found = {f} /\ True(f)
                           /\ Settled(f.issue, worker[w].began) => f = Card(f.issue)
  BY <1>1, <1>2 DEF Working
<1>4. Found(w) = f
  BY <1>3 DEF Found
<1>5. PICK c \in BOOLEAN : c = ~worker[w].early
  OBVIOUS
<1>6. PICK removed : removed = IF f.is = "card" THEN {} ELSE {f.issue}
  OBVIOUS
<1>7. rows' = Merged({f}, removed, {}, c)
  BY <1>3, <1>4, <1>5, <1>6 DEF Reconcile
<1>8. ASSUME NEW i \in Issues
      PROVE  /\ rows'[i] \in AnyRow /\ rows'[i].at <= gitlab[i].at
             /\ rows[i].state \notin {"none", "synced"}
                   => rows'[i].state = rows[i].state /\ rows'[i].at = rows[i].at
             /\ rows[i].state \in {"none", "synced"} => rows'[i].state \in {"none", "synced"}
             /\ rows[i].state \in {"none", "synced"} /\ Card(i) \in {f} => rows'[i].at = gitlab[i].at
             /\ i \notin removed /\ rows[i].at = gitlab[i].at => rows'[i].at = gitlab[i].at
  <2>1. PICK m : m = Merged({f}, removed, {}, c)[i]
    OBVIOUS
  <2>2. /\ m \in AnyRow /\ m.at <= gitlab[i].at
        /\ rows[i].state \notin {"none", "synced"} => m.state = rows[i].state /\ m.at = rows[i].at
        /\ rows[i].state \in {"none", "synced"} => m.state \in {"none", "synced"}
        /\ rows[i].state \in {"none", "synced"} /\ Card(i) \in {f} => m.at = gitlab[i].at
        /\ i \notin removed \cup {} /\ rows[i].at = gitlab[i].at => m.at = gitlab[i].at
    <3>1. Types /\ Clocked /\ {f} \in SUBSET Finding /\ \A g \in {f} : True(g)
      BY <1>1, <1>3
    <3> QED BY <2>1, <3>1, MergedRow
  <2> QED BY <1>7, <2>1, <2>2
<1>9. inbox' \in Seq(Delivery) /\ DOMAIN inbox' = DOMAIN inbox
  <2>1. inbox \in Seq(Delivery) /\ worker[w].delivery \in DOMAIN inbox
    BY <1>1, <1>2 DEF Types, Working
  <2>2. \/ inbox' = [inbox EXCEPT ![worker[w].delivery].state = "completed"]
        \/ inbox' = inbox
    BY DEF Reconcile
  <2>3. CASE inbox' = inbox
    BY <2>1, <2>3
  <2>4. CASE inbox' = [inbox EXCEPT ![worker[w].delivery].state = "completed"]
    BY <2>1, <2>4, StateTypes
  <2> QED BY <2>2, <2>3, <2>4
<1>10. Types' /\ Moves
  <2>1. rows' \in [Issues -> AnyRow]
    BY <1>7, <1>8 DEF Merged
  <2>2. Idle \in Work
    BY DEF Idle, Work
  <2> QED BY <1>1, <1>9, <2>1, <2>2 DEF Types, Moves
<1>11. Clocked'
  BY <1>1, <1>8 DEF Clocked
<1>12. Working'
  <2>1. \A v \in Workers : worker'[v] = IF v = w THEN Idle ELSE worker[v]
    BY <1>1 DEF Types
  <2>2. \A g \in Finding : True(g)' = True(g) /\ Card(g.issue)' = Card(g.issue)
    BY <1>1 DEF True, Card
  <2> SUFFICES ASSUME NEW v \in Workers, worker'[v] # Idle
               PROVE  /\ worker'[v].began <= clock' /\ clock' <= worker'[v].began + ReadTime
                      /\ worker'[v].at # "idle" /\ worker'[v].delivery \in DOMAIN inbox'
                      /\ worker'[v].at = "fetched" =>
                            \E g \in Finding : /\ worker'[v].found = {g} /\ True(g)'
                                               /\ Settled(g.issue, worker[v].began)' => g = Card(g.issue)'
    BY DEF Working
  <2>3. worker'[v] = worker[v]
    BY <2>1
  <2>4. \A g \in Finding : Settled(g.issue, worker[v].began)' <=> Settled(g.issue, worker[v].began)
    BY <1>1, <2>3 DEF Settled
  <2> QED BY <1>1, <1>9, <2>2, <2>3, <2>4 DEF Working
<1>13. CursorCoversUpdates'
  <2>1. ASSUME NEW i \in Issues, Behind(i)', ~(clock <= gitlab[i].at + Lag + ReadTime)
        PROVE  Behind(i)
    <3>1. gitlab[i].is = "card" /\ rows'[i].state \in {"none", "synced"} /\ rows'[i].at # gitlab[i].at
      BY <1>1, <2>1 DEF Behind
    <3>2. rows[i].state \in {"none", "synced"} /\ Card(i) # f
      BY <1>8, <3>1
    <3>3. i \notin removed
      <4> SUFFICES ASSUME i = f.issue, f.is # "card" PROVE FALSE
        BY <1>6
      <4>1. Settled(i, worker[w].began)
        BY <1>1, <1>2, <2>1, <3>1, Numbers, Constants DEF Working, Settled
      <4> QED BY <1>3, <3>2, <4>1
    <3> QED BY <1>8, <3>1, <3>2, <3>3 DEF Behind
  <2>2. watermark' <= clock'
    BY <1>1 DEF Clocked
  <2> QED BY <1>1, <1>10, <2>1, <2>2, CursorStays
<1> QED BY <1>1, <1>10, <1>11, <1>12, <1>13, WorldReading DEF IntakeInv
-----------------------------------------------------------------------------
LEMMA IntakeKeeps == ASSUME IntakeInv, [IntakeNext]_intakeVars PROVE IntakeInv'
<1>1. ASSUME UNCHANGED intakeVars PROVE IntakeInv'
  <2>1. inbox' \in Seq(Delivery) /\ DOMAIN inbox \subseteq DOMAIN inbox'
    BY <1>1 DEF intakeVars, IntakeInv, Types
  <2> QED BY <1>1, <2>1, InboxKeeps DEF intakeVars
<1>2. ASSUME NEW i \in Issues,
             \/ BecomesVisible(i) \/ Receive(i) \/ BeginOperation(i) \/ ApplyIssue(i) \/ CompleteOperation(i)
             \/ \E kind \in Kinds \cup {"deleted"} : TheyEdit(i, kind)
      PROVE  IntakeInv'
  BY <1>2, VisibleKeeps, ReceiveKeeps, BeginKeeps, ApplyKeeps, CompleteKeeps, EditKeeps
<1>3. ASSUME NEW w \in Workers, FetchFails(w) \/ Unmapped(w) PROVE IntakeInv'
  <2>1. worker[w] # Idle /\ FailDelivery(w)
    BY <1>3 DEF FetchFails, Unmapped, Idle
  <2> QED BY <2>1, FailDeliveryKeeps
<1>4. ASSUME NEW w \in Workers, Crash(w) PROVE IntakeInv'
  BY <1>4, CrashKeeps DEF Crash, IntakeInv, Types
<1> QED BY <1>1, <1>2, <1>3, <1>4, TickKeeps, StartKeeps, PageKeeps, ReadKeeps, FailsKeeps,
           ExpireKeeps, ClaimKeeps, FetchKeeps, ReconcileKeeps DEF IntakeNext

\* The overlap of delta reads is enough: however pages, webhooks, sweeps and
\* operations interleave, a card the board lacks lies within the next delta
\* read (service.go, deltaOverlap), whatever the lag and the durations are that
\* the overlap is not shorter than.
THEOREM OverlapIsEnough == IntakeSpec => []CursorCoversUpdates
<1>1. IntakeInv => CursorCoversUpdates
  BY DEF IntakeInv
<1> QED BY <1>1, IntakeBegins, IntakeKeeps, PTL DEF IntakeSpec

=============================================================================
