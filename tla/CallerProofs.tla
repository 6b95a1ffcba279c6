---------------------------- MODULE CallerProofs ----------------------------
(***************************************************************************)
(* Proofs about those who call the service and must show who they are: the *)
(* administrator (any number of initializations, logins, tokens and any    *)
(* limits) and the pipeline with its signed callbacks (any messages,       *)
(* deliveries, times and nonces).                                          *)
(*                                                                         *)
(* AdminAccess: a counter and the logins that may still increment it       *)
(* together stay under the bound (CountersHaveRoom).  A login has a token  *)
(* only behind CreateSession, so one that ends earlier forgets none        *)
(* (EarlyLoginsHaveNoToken).                                               *)
(*                                                                         *)
(* CallbackDelivery: a status is passed once, for the job stands at or     *)
(* behind the status of each message that was applied (AppliedIsPassed).   *)
(* A claim covers every claim made before it (ClaimsCover).                *)
(***************************************************************************)
EXTENDS AdminAccess, CallbackDelivery, FiniteSetTheorems, TLAPS

EarlyState == {"free", "verify", "username", "ip", "create"}

LoginsTypeOK ==
    /\ login \in [Login -> [at : LoginState, token : Token \cup {NoToken}]]
    /\ failures \in [Counter -> Nat]
    /\ sessions \subseteq Token
    /\ initializer \in [Initializer -> {"count", "create", "created", "refused"}]

\* The logins that will increment counter c, if they fail.
Pending(c) ==
    {l \in Login : login[l].at \in {"verify", "username"} \cup (IF c = "ip" THEN {"ip"} ELSE {})}

CountersHaveRoom ==
    \A c \in Counter : failures[c] + Cardinality(Pending(c)) < FailureLimit[c] + Cardinality(Login)

EarlyLoginsHaveNoToken == \A l \in Login : login[l].at \in EarlyState => login[l].token = NoToken

OneRow ==
    /\ \A i, j \in administrators : i = j
    /\ \A i \in Initializer : initializer[i] = "created" => i \in administrators

AccessInv ==
    /\ LoginsTypeOK
    /\ CountersHaveRoom
    /\ EarlyLoginsHaveNoToken
    /\ OneRow
    /\ FailedLoginLeavesNoSession

-----------------------------------------------------------------------------

LEMMA PendingIsFinite ==
    ASSUME NEW S, S \subseteq Login
    PROVE  /\ IsFiniteSet(S) /\ Cardinality(S) \in Nat
           /\ Cardinality(Login) \in Nat
           /\ Cardinality(S) <= Cardinality(Login)
BY AccessAssumption, FS_Subset, FS_CardinalityType

\* A step of login l keeps room in a counter when it leaves the set of those that
\* will increment it, when it increments it on leaving, or when it joins them while
\* the counter is under its limit.
LEMMA RoomRemains ==
    ASSUME LoginsTypeOK, LoginsTypeOK', CountersHaveRoom, NEW c \in Counter, NEW l \in Login,
           \A q \in Login \ {l} : login'[q] = login[q],
           \/ failures'[c] <= failures[c] /\ (l \in Pending(c) \/ l \notin Pending(c)')
           \/ failures'[c] <= failures[c] + 1 /\ l \in Pending(c) /\ l \notin Pending(c)'
           \/ failures'[c] <= failures[c] /\ failures[c] < FailureLimit[c]
    PROVE  failures'[c] + Cardinality(Pending(c)') < FailureLimit[c] + Cardinality(Login)
<1>1. /\ failures[c] \in Nat /\ failures'[c] \in Nat /\ FailureLimit[c] \in Nat
      /\ failures[c] + Cardinality(Pending(c)) < FailureLimit[c] + Cardinality(Login)
  BY AccessAssumption DEF LoginsTypeOK, CountersHaveRoom
<1>2. Pending(c) \subseteq Login /\ Pending(c)' \subseteq Login
  BY DEF Pending
<1>3. \A q \in Login \ {l} : q \in Pending(c) <=> q \in Pending(c)'
  BY DEF Pending
<1>4. /\ IsFiniteSet(Pending(c)) /\ Cardinality(Pending(c)) \in Nat
      /\ Cardinality(Pending(c)) <= Cardinality(Login)
  BY <1>2, PendingIsFinite
<1>5. /\ Cardinality(Pending(c)') \in Nat /\ Cardinality(Login) \in Nat
      /\ Cardinality(Pending(c)') <= Cardinality(Login)
  BY <1>2, PendingIsFinite
<1>6. CASE failures'[c] <= failures[c] /\ (l \in Pending(c) \/ l \notin Pending(c)')
  <2>1. Pending(c)' \subseteq Pending(c)
    BY <1>2, <1>3, <1>6
  <2>2. Cardinality(Pending(c)') <= Cardinality(Pending(c))
    BY <2>1, <1>4, FS_Subset
  <2> QED BY <2>2, <1>1, <1>4, <1>5, <1>6
<1>7. CASE failures'[c] <= failures[c] + 1 /\ l \in Pending(c) /\ l \notin Pending(c)'
  <2>1. Pending(c)' = Pending(c) \ {l}
    BY <1>2, <1>3, <1>7
  <2>2. Cardinality(Pending(c)') = Cardinality(Pending(c)) - 1
    BY <2>1, <1>4, <1>7, FS_RemoveElement
  <2> QED BY <2>2, <1>1, <1>4, <1>5, <1>7
<1>8. CASE failures'[c] <= failures[c] /\ failures[c] < FailureLimit[c]
  BY <1>8, <1>1, <1>5
<1> QED BY <1>6, <1>7, <1>8

\* The steps that leave the logins and do not count failures up.
LEMMA RoomIsLeft ==
    ASSUME LoginsTypeOK, LoginsTypeOK', CountersHaveRoom, UNCHANGED login,
           \A c \in Counter : failures'[c] <= failures[c]
    PROVE  CountersHaveRoom'
<1> SUFFICES ASSUME NEW c \in Counter
             PROVE  failures'[c] + Cardinality(Pending(c)') < FailureLimit[c] + Cardinality(Login)
  BY DEF CountersHaveRoom
<1>1. Pending(c)' = Pending(c)
  BY DEF Pending
<1>2. Cardinality(Pending(c)) \in Nat /\ Cardinality(Login) \in Nat
  BY PendingIsFinite DEF Pending
<1>3. /\ failures[c] \in Nat /\ failures'[c] \in Nat /\ FailureLimit[c] \in Nat
      /\ failures[c] + Cardinality(Pending(c)) < FailureLimit[c] + Cardinality(Login)
  BY AccessAssumption DEF LoginsTypeOK, CountersHaveRoom
<1> QED BY <1>1, <1>2, <1>3

LEMMA AccessStarts == AccessInit => AccessInv
<1> SUFFICES ASSUME AccessInit PROVE AccessInv
  OBVIOUS
<1>1. LoginsTypeOK
  BY DEF AccessInit, LoginsTypeOK, LoginState, Free
<1>2. EarlyLoginsHaveNoToken /\ OneRow /\ FailedLoginLeavesNoSession
  BY DEF AccessInit, EarlyLoginsHaveNoToken, OneRow, FailedLoginLeavesNoSession, Free
<1>3. CountersHaveRoom
  <2> SUFFICES ASSUME NEW c \in Counter
               PROVE  failures[c] + Cardinality(Pending(c)) < FailureLimit[c] + Cardinality(Login)
    BY DEF CountersHaveRoom
  <2>1. failures[c] = 0 /\ FailureLimit[c] \in Nat \ {0}
    BY AccessAssumption DEF AccessInit
  <2>2. Pending(c) = {}
    BY DEF AccessInit, Pending, Free
  <2>3. Cardinality(Pending(c)) = 0 /\ Cardinality(Login) \in Nat
    BY <2>2, FS_EmptySet, PendingIsFinite
  <2> QED BY <2>1, <2>3
<1> QED BY <1>1, <1>2, <1>3 DEF AccessInv

-----------------------------------------------------------------------------

\* What a step of login l does to the others, and where it goes.
LEMMA ProceedsAlone ==
    ASSUME LoginsTypeOK, NEW l \in Login, NEW from \in LoginState, NEW to \in LoginState, Proceeds(l, from, to)
    PROVE  /\ login[l].at = from /\ login'[l].at = to
           /\ login'[l].token = IF to = "free" THEN NoToken ELSE login[l].token
           /\ \A q \in Login \ {l} : login'[q] = login[q]
           /\ login' \in [Login -> [at : LoginState, token : Token \cup {NoToken}]]
BY DEF Proceeds, LoginsTypeOK, Free, LoginState

\* A login that has no session yet goes one step further.
LEMMA EarlyStepsKeepSessions ==
    ASSUME AccessInv, NEW l \in Login, NEW from \in EarlyState, NEW to \in EarlyState, Proceeds(l, from, to),
           UNCHANGED <<sessions, cookies, strays>>
    PROVE  EarlyLoginsHaveNoToken' /\ FailedLoginLeavesNoSession'
<1> USE DEF AccessInv
<1>1. /\ login[l].at = from /\ login'[l].at = to
      /\ login'[l].token = IF to = "free" THEN NoToken ELSE login[l].token
      /\ \A q \in Login \ {l} : login'[q] = login[q]
  BY ProceedsAlone DEF EarlyState, LoginState
<1>2. EarlyLoginsHaveNoToken'
  BY <1>1 DEF EarlyLoginsHaveNoToken
<1>3. FailedLoginLeavesNoSession'
  <2> SUFFICES ASSUME NEW t \in sessions, t \notin cookies, t \notin strays
               PROVE  \E q \in Login : login'[q].at # "free" /\ login'[q].token = t
    BY DEF FailedLoginLeavesNoSession, InFlight
  <2>1. PICK q \in Login : login[q].at # "free" /\ login[q].token = t
    BY DEF FailedLoginLeavesNoSession, InFlight
  <2>2. t # NoToken
    BY AccessAssumption DEF LoginsTypeOK
  <2>3. q # l
    BY <2>1, <2>2, <1>1 DEF EarlyLoginsHaveNoToken
  <2> QED BY <2>1, <2>3, <1>1
<1> QED BY <1>2, <1>3

LEMMA AllowKeepsInv ==
    ASSUME AccessInv, NEW l \in Login, Allow(l)
    PROVE  AccessInv'
<1> USE DEF AccessInv, Allow
<1>1. /\ \A q \in Login \ {l} : login'[q] = login[q]
      /\ login' \in [Login -> [at : LoginState, token : Token \cup {NoToken}]]
  BY ProceedsAlone DEF LoginState
<1>2. LoginsTypeOK'
  BY <1>1 DEF LoginsTypeOK, accessAccount
<1>3. EarlyLoginsHaveNoToken' /\ FailedLoginLeavesNoSession'
  BY EarlyStepsKeepSessions DEF EarlyState
<1>4. CountersHaveRoom'
  <2> SUFFICES ASSUME NEW c \in Counter
               PROVE  failures'[c] + Cardinality(Pending(c)') < FailureLimit[c] + Cardinality(Login)
    BY DEF CountersHaveRoom
  <2>1. failures'[c] <= failures[c] /\ failures[c] < FailureLimit[c]
    BY DEF Allowed, LoginsTypeOK
  <2> QED BY <1>1, <1>2, <2>1, RoomRemains
<1>5. OneRow'
  BY DEF OneRow, accessAccount
<1> QED BY <1>2, <1>3, <1>4, <1>5

LEMMA VerifyKeepsInv ==
    ASSUME AccessInv, NEW l \in Login, VerifyPassword(l)
    PROVE  AccessInv'
<1> USE DEF AccessInv, VerifyPassword
<1>1. PICK to \in {"create", "username", "free"} : Proceeds(l, "verify", to)
  OBVIOUS
<1>2. /\ login[l].at = "verify" /\ login'[l].at = to
      /\ \A q \in Login \ {l} : login'[q] = login[q]
      /\ login' \in [Login -> [at : LoginState, token : Token \cup {NoToken}]]
  BY <1>1, ProceedsAlone DEF LoginState
<1>3. LoginsTypeOK'
  BY <1>2 DEF LoginsTypeOK, accessAccount
<1>4. EarlyLoginsHaveNoToken' /\ FailedLoginLeavesNoSession'
  BY <1>1, EarlyStepsKeepSessions DEF EarlyState
<1>5. CountersHaveRoom'
  <2> SUFFICES ASSUME NEW c \in Counter
               PROVE  failures'[c] + Cardinality(Pending(c)') < FailureLimit[c] + Cardinality(Login)
    BY DEF CountersHaveRoom
  <2>1. failures'[c] <= failures[c] /\ l \in Pending(c)
    BY <1>2 DEF LoginsTypeOK, Pending
  <2> QED BY <1>2, <1>3, <2>1, RoomRemains
<1>6. OneRow'
  BY DEF OneRow, accessAccount
<1> QED BY <1>3, <1>4, <1>5, <1>6

LEMMA FailureKeepsInv ==
    ASSUME AccessInv, NEW l \in Login, RecordFailure(l)
    PROVE  AccessInv'
<1> USE DEF AccessInv
<1>1. PICK c \in Counter : /\ Proceeds(l, c, IF c = "username" THEN "ip" ELSE "free")
                           /\ failures' \in {failures, [failures EXCEPT ![c] = @ + 1]}
  BY DEF RecordFailure
<1> DEFINE to == IF c = "username" THEN "ip" ELSE "free"
<1>2. /\ login[l].at = c /\ login'[l].at = to
      /\ \A q \in Login \ {l} : login'[q] = login[q]
      /\ login' \in [Login -> [at : LoginState, token : Token \cup {NoToken}]]
  BY <1>1, ProceedsAlone DEF LoginState, Counter
<1>3. failures' \in [Counter -> Nat]
  BY <1>1 DEF LoginsTypeOK
<1>4. LoginsTypeOK'
  BY <1>2, <1>3 DEF LoginsTypeOK, accessAccount, RecordFailure
<1>5. EarlyLoginsHaveNoToken' /\ FailedLoginLeavesNoSession'
  BY <1>1, EarlyStepsKeepSessions DEF EarlyState, Counter, RecordFailure
<1>6. CountersHaveRoom'
  <2> SUFFICES ASSUME NEW e \in Counter
               PROVE  failures'[e] + Cardinality(Pending(e)') < FailureLimit[e] + Cardinality(Login)
    BY DEF CountersHaveRoom
  <2>1. CASE e = c
    <3>1. l \in Pending(e) /\ l \notin Pending(e)'
      BY <2>1, <1>2 DEF Pending, Counter
    <3>2. failures'[e] <= failures[e] + 1
      BY <2>1, <1>1 DEF LoginsTypeOK
    <3> QED BY <3>1, <3>2, <1>2, <1>4, RoomRemains
  <2>2. CASE e # c
    <3>1. failures'[e] <= failures[e]
      BY <2>2, <1>1 DEF LoginsTypeOK
    <3>2. l \in Pending(e) \/ l \notin Pending(e)'
      BY <2>2, <1>2 DEF Pending, Counter
    <3> QED BY <3>1, <3>2, <1>2, <1>4, RoomRemains
  <2> QED BY <2>1, <2>2
<1>7. OneRow'
  BY DEF OneRow, accessAccount, RecordFailure
<1> QED BY <1>4, <1>5, <1>6, <1>7

-----------------------------------------------------------------------------

\* A login behind CreateSession will not count a failure.
LEMMA LateStepsKeepRoom ==
    ASSUME LoginsTypeOK, LoginsTypeOK', CountersHaveRoom, NEW l \in Login,
           login[l].at \in {"create", "touch", "reset", "compensate"},
           login'[l].at \in {"free", "touch", "reset", "compensate"},
           \A q \in Login \ {l} : login'[q] = login[q],
           \A c \in Counter : failures'[c] <= failures[c]
    PROVE  CountersHaveRoom'
<1> SUFFICES ASSUME NEW c \in Counter
             PROVE  failures'[c] + Cardinality(Pending(c)') < FailureLimit[c] + Cardinality(Login)
  BY DEF CountersHaveRoom
<1>1. l \notin Pending(c)'
  BY DEF Pending
<1>2. failures'[c] <= failures[c]
  OBVIOUS
<1> QED BY <1>1, <1>2, RoomRemains

LEMMA CreateSessionKeepsInv ==
    ASSUME AccessInv, NEW l \in Login, CreateSession(l)
    PROVE  AccessInv'
<1> USE DEF AccessInv
<1>1. login[l].at = "create" /\ login[l].token = NoToken
  BY DEF CreateSession, EarlyLoginsHaveNoToken, EarlyState
<1>2. PICK t \in Token :
        \/ /\ sessions' = sessions \cup {t}
           /\ login' = [login EXCEPT ![l] = [at |-> "touch", token |-> t]]
           /\ UNCHANGED strays
        \/ /\ sessions' = sessions \cup {t} /\ strays' = strays \cup {t}
           /\ Proceeds(l, "create", "free")
        \/ /\ UNCHANGED <<sessions, strays>>
           /\ Proceeds(l, "create", "free")
  BY DEF CreateSession
<1>3. UNCHANGED <<initializer, administrators, failures, cookies>>
  BY DEF CreateSession, accessAccount
<1>4. /\ login' \in [Login -> [at : LoginState, token : Token \cup {NoToken}]]
      /\ \A q \in Login \ {l} : login'[q] = login[q]
      /\ \/ login'[l].at = "touch" /\ login'[l].token = t
         \/ login'[l].at = "free" /\ login'[l].token = NoToken
  BY <1>2, ProceedsAlone DEF LoginsTypeOK, LoginState
<1>5. LoginsTypeOK'
  BY <1>2, <1>3, <1>4 DEF LoginsTypeOK
<1>6. CountersHaveRoom'
  BY <1>1, <1>3, <1>4, <1>5, LateStepsKeepRoom DEF LoginsTypeOK
<1>7. EarlyLoginsHaveNoToken' /\ OneRow'
  BY <1>3, <1>4 DEF EarlyLoginsHaveNoToken, EarlyState, OneRow
<1>8. FailedLoginLeavesNoSession'
  <2> SUFFICES ASSUME NEW s \in sessions', s \notin cookies, s \notin strays'
               PROVE  \E q \in Login : login'[q].at # "free" /\ login'[q].token = s
    BY <1>3 DEF FailedLoginLeavesNoSession, InFlight
  <2>1. CASE s \in sessions
    <3>1. s # NoToken /\ s \notin strays
      BY <2>1, <1>2, AccessAssumption DEF LoginsTypeOK
    <3>2. PICK q \in Login : login[q].at # "free" /\ login[q].token = s
      BY <2>1, <3>1 DEF FailedLoginLeavesNoSession, InFlight
    <3>3. q # l
      BY <3>1, <3>2, <1>1
    <3> QED BY <3>2, <3>3, <1>4
  <2>2. CASE s \notin sessions
    <3>1. s = t /\ login' = [login EXCEPT ![l] = [at |-> "touch", token |-> t]]
      BY <2>2, <1>2
    <3>2. login'[l].at = "touch" /\ login'[l].token = s
      BY <3>1 DEF LoginsTypeOK
    <3> QED BY <3>2
  <2> QED BY <2>1, <2>2
<1> QED BY <1>5, <1>6, <1>7, <1>8

\* A login that goes on behind its session keeps the token; one that ends has
\* given it to a browser, removed it or left it as a stray.
LEMMA LateStepsKeepInv ==
    ASSUME AccessInv, NEW l \in Login,
           UpdateLastLogin(l) \/ ResetUsername(l) \/ CompensateSession(l)
    PROVE  AccessInv'
<1> USE DEF AccessInv
<1>1. PICK from \in {"touch", "reset", "compensate"}, to \in {"reset", "compensate", "free"} : Proceeds(l, from, to)
  BY DEF UpdateLastLogin, ResetUsername, CompensateSession, AfterFailedReset
<1>2. /\ login[l].at = from /\ login'[l].at = to
      /\ login'[l].token = IF to = "free" THEN NoToken ELSE login[l].token
      /\ \A q \in Login \ {l} : login'[q] = login[q]
      /\ login' \in [Login -> [at : LoginState, token : Token \cup {NoToken}]]
  BY <1>1, ProceedsAlone DEF LoginState
<1>3. UNCHANGED <<initializer, administrators>>
  BY DEF UpdateLastLogin, ResetUsername, CompensateSession, accessAccount
<1>4. sessions' \subseteq sessions
  BY DEF UpdateLastLogin, ResetUsername, CompensateSession, DeleteSession
<1>5. failures' \in {failures, [failures EXCEPT !["username"] = 0]}
  BY DEF UpdateLastLogin, ResetUsername, CompensateSession
<1>6. failures' \in [Counter -> Nat] /\ \A c \in Counter : failures'[c] <= failures[c]
  BY <1>5 DEF LoginsTypeOK
<1>7. LoginsTypeOK'
  BY <1>2, <1>3, <1>4, <1>6 DEF LoginsTypeOK
<1>8. CountersHaveRoom'
  BY <1>2, <1>6, <1>7, LateStepsKeepRoom
<1>9. EarlyLoginsHaveNoToken' /\ OneRow'
  BY <1>2, <1>3 DEF EarlyLoginsHaveNoToken, EarlyState, OneRow
<1>10. cookies \subseteq cookies' /\ strays \subseteq strays'
  BY DEF UpdateLastLogin, ResetUsername, CompensateSession
<1>11. to = "free" => login[l].token \notin sessions' \/ login[l].token \in cookies' \cup strays'
  <2>1. CASE UpdateLastLogin(l)
    BY <2>1, <1>2, ProceedsAlone DEF UpdateLastLogin, LoginState
  <2>2. CASE ResetUsername(l)
    BY <2>2, <1>2, ProceedsAlone DEF ResetUsername, AfterFailedReset, LoginState
  <2>3. CASE CompensateSession(l)
    BY <2>3 DEF CompensateSession, DeleteSession
  <2> QED BY <2>1, <2>2, <2>3
<1>12. FailedLoginLeavesNoSession'
  <2> SUFFICES ASSUME NEW s \in sessions', s \notin cookies', s \notin strays'
               PROVE  \E q \in Login : login'[q].at # "free" /\ login'[q].token = s
    BY DEF FailedLoginLeavesNoSession, InFlight
  <2>1. PICK q \in Login : login[q].at # "free" /\ login[q].token = s
    BY <1>4, <1>10 DEF FailedLoginLeavesNoSession, InFlight
  <2>2. CASE q = l
    BY <2>1, <2>2, <1>2, <1>11
  <2>3. CASE q # l
    BY <2>1, <2>3, <1>2
  <2> QED BY <2>2, <2>3
<1> QED BY <1>7, <1>8, <1>9, <1>12

-----------------------------------------------------------------------------

LEMMA InitializersKeepInv ==
    ASSUME AccessInv, NEW i \in Initializer, CountAdmins(i) \/ CreateAdmin(i)
    PROVE  AccessInv'
<1> USE DEF AccessInv
<1>1. UNCHANGED <<failures, login, sessions, cookies, strays>>
  BY DEF CountAdmins, CreateAdmin
<1>2. initializer' \in [Initializer -> {"count", "create", "created", "refused"}] /\ OneRow'
  <2>1. CASE CountAdmins(i)
    BY <2>1 DEF CountAdmins, LoginsTypeOK, OneRow
  <2>2. CASE CreateAdmin(i)
    BY <2>2 DEF CreateAdmin, LoginsTypeOK, OneRow, SingletonKeyIsFree
  <2> QED BY <2>1, <2>2
<1>3. LoginsTypeOK'
  BY <1>1, <1>2 DEF LoginsTypeOK
<1>4. CountersHaveRoom'
  BY <1>1, <1>3, RoomIsLeft DEF LoginsTypeOK
<1>5. EarlyLoginsHaveNoToken' /\ FailedLoginLeavesNoSession'
  BY <1>1 DEF EarlyLoginsHaveNoToken, FailedLoginLeavesNoSession, InFlight
<1> QED BY <1>2, <1>3, <1>4, <1>5

\* Windows, browsers and requests: no session is stored, and the one whose cookie
\* a browser forgets has been removed.
LEMMA OthersKeepInv ==
    ASSUME AccessInv,
           \/ WindowPasses \/ FindAdmin \/ CompensateRequest \/ UNCHANGED accessVars
           \/ \E t \in Token : Logout(t) \/ SessionExpires(t) \/ GetSession(t)
    PROVE  AccessInv'
<1> USE DEF AccessInv
<1>1. UNCHANGED <<initializer, administrators, login>>
  BY DEF WindowPasses, FindAdmin, CompensateRequest, Logout, SessionExpires, GetSession, accessVars, accessAccount
<1>2. sessions' \subseteq sessions
  BY DEF WindowPasses, FindAdmin, CompensateRequest, Logout, SessionExpires, GetSession, accessVars, DeleteSession
<1>3. sessions' \cap (cookies \cup strays) \subseteq cookies' \cup strays'
  BY DEF WindowPasses, FindAdmin, CompensateRequest, Logout, SessionExpires, GetSession, accessVars, DeleteSession
<1>4. failures' = failures \/ \E c \in Counter : failures' = [failures EXCEPT ![c] = 0]
  BY DEF WindowPasses, FindAdmin, CompensateRequest, Logout, SessionExpires, GetSession, accessVars
<1>5. failures' \in [Counter -> Nat] /\ \A c \in Counter : failures'[c] <= failures[c]
  BY <1>4 DEF LoginsTypeOK
<1>6. LoginsTypeOK'
  BY <1>1, <1>2, <1>5 DEF LoginsTypeOK
<1>7. CountersHaveRoom'
  BY <1>1, <1>5, <1>6, RoomIsLeft
<1>8. EarlyLoginsHaveNoToken' /\ OneRow'
  BY <1>1 DEF EarlyLoginsHaveNoToken, OneRow
<1>9. FailedLoginLeavesNoSession'
  BY <1>1, <1>2, <1>3 DEF FailedLoginLeavesNoSession, InFlight
<1> QED BY <1>6, <1>7, <1>8, <1>9

LEMMA AccessStep == AccessInv /\ [AccessNext]_accessVars => AccessInv'
<1> SUFFICES ASSUME AccessInv, [AccessNext]_accessVars PROVE AccessInv'
  OBVIOUS
<1>1. ASSUME NEW i \in Initializer, CountAdmins(i) \/ CreateAdmin(i) PROVE AccessInv'
  BY <1>1, InitializersKeepInv
<1>2. ASSUME NEW l \in Login,
             \/ Allow(l) \/ VerifyPassword(l) \/ RecordFailure(l)
             \/ CreateSession(l) \/ UpdateLastLogin(l) \/ ResetUsername(l) \/ CompensateSession(l)
      PROVE  AccessInv'
  BY <1>2, AllowKeepsInv, VerifyKeepsInv, FailureKeepsInv, CreateSessionKeepsInv, LateStepsKeepInv
<1>3. CASE \/ WindowPasses \/ FindAdmin \/ CompensateRequest \/ UNCHANGED accessVars
           \/ \E t \in Token : Logout(t) \/ SessionExpires(t) \/ GetSession(t)
  BY <1>3, OthersKeepInv
<1> QED BY <1>1, <1>2, <1>3 DEF AccessNext

-----------------------------------------------------------------------------

THEOREM AccessInvariance == AccessSpec => []AccessInv
BY AccessStarts, AccessStep, PTL DEF AccessSpec

\* auth/service.go Login: however many logins run between the look at the counters
\* and the counting, a counter exceeds its limit by less than their number.
THEOREM FailuresStayBounded == AccessSpec => []FailuresAreBounded
<1>1. AccessInv => FailuresAreBounded
  <2> SUFFICES ASSUME AccessInv, NEW c \in Counter
               PROVE  failures[c] < FailureLimit[c] + Cardinality(Login)
    BY DEF FailuresAreBounded
  <2>1. Cardinality(Pending(c)) \in Nat /\ Cardinality(Login) \in Nat
    BY PendingIsFinite DEF Pending
  <2>2. /\ failures[c] \in Nat /\ FailureLimit[c] \in Nat
        /\ failures[c] + Cardinality(Pending(c)) < FailureLimit[c] + Cardinality(Login)
    BY AccessAssumption DEF AccessInv, CountersHaveRoom, LoginsTypeOK
  <2> QED BY <2>1, <2>2
<1> QED BY <1>1, AccessInvariance, PTL

\* auth/service.go Login, compensateSession: no failed login leaves a session that
\* nobody was given, unless Redis erred.
THEOREM SessionsStayAccounted == AccessSpec => []FailedLoginLeavesNoSession
<1>1. AccessInv => FailedLoginLeavesNoSession
  BY DEF AccessInv
<1> QED BY <1>1, AccessInvariance, PTL

\* bootstrap/admin.go CreateFirstAdmin: runs at the same time create one administrator.
THEOREM AdministratorStaysAlone == AccessSpec => []OneAdministrator
<1>1. AccessInv => OneAdministrator
  <2> SUFFICES ASSUME AccessInv PROVE OneAdministrator
    OBVIOUS
  <2>1. administrators = {} \/ \E i : administrators = {i}
    BY DEF AccessInv, OneRow
  <2>2. Cardinality(administrators) <= 1
    <3>1. CASE administrators = {}
      BY <3>1, FS_EmptySet
    <3>2. ASSUME NEW i, administrators = {i} PROVE Cardinality(administrators) <= 1
      <4>1. Cardinality({i}) = 1
        BY FS_Singleton
      <4> QED BY <3>2, <4>1
    <3> QED BY <2>1, <3>1, <3>2
  <2> QED BY <2>2 DEF AccessInv, OneRow, OneAdministrator
<1> QED BY <1>1, AccessInvariance, PTL

-----------------------------------------------------------------------------

Stage(status) ==
    CASE status = "pending"   -> 0
      [] status = "queued"    -> 1
      [] status = "building"  -> 2
      [] status = "deploying" -> 3
      [] OTHER                -> 4

CallbackTypeOK ==
    /\ clock \in Nat
    /\ delivery \in [Delivery -> [at : {"answered", "claim", "read", "apply", "replay"},
                                  message : Message \cup {NoMessage}]]
    /\ claims \in [Nonces -> [message : Message \cup {NoMessage}, until : Nat]]
    /\ jobStatus \in CallbackStatus
    /\ appliedCount \in [Message -> Nat]
    /\ claimedAt \in [Message -> Nat \cup {-1}]

CarriesMessage ==
    \A d \in Delivery : delivery[d].at \in {"claim", "read", "apply"} => delivery[d].message \in Message

AppliedIsPassed ==
    \A m \in Message : appliedCount[m] > 0 => Stage(StatusOf[m]) <= Stage(jobStatus)

ClaimsCover ==
    \A m \in Message : claimedAt[m] >= 0 =>
        /\ claims[NonceOf[m]].message # NoMessage
        /\ claims[NonceOf[m]].until >= claimedAt[m] + ReplayTTL

CallbackInv ==
    /\ CallbackTypeOK
    /\ CarriesMessage
    /\ AppliedIsPassed
    /\ ClaimsCover
    /\ AppliedOnce
    /\ NonceHasOneOwner

-----------------------------------------------------------------------------

LEMMA StagesAscend ==
    ASSUME NEW from \in CallbackStatus, NEW to \in CallbackStatus, MayFollow(from, to)
    PROVE  Stage(to) = Stage(from) + 1
BY DEF CallbackStatus, MayFollow, Stage

LEMMA StagesAreNumbers == \A status \in CallbackStatus : Stage(status) \in Nat
BY DEF CallbackStatus, Stage

LEMMA CallbackStarts == CallbackInit => CallbackInv
<1> SUFFICES ASSUME CallbackInit PROVE CallbackInv
  OBVIOUS
<1> USE DEF CallbackInit
<1>1. CallbackTypeOK
  BY DEF CallbackTypeOK, Arrived, Unclaimed, CallbackStatus
<1>2. CarriesMessage /\ AppliedIsPassed /\ ClaimsCover
  BY DEF CarriesMessage, AppliedIsPassed, ClaimsCover, Arrived, Unclaimed
<1>3. AppliedOnce /\ NonceHasOneOwner
  BY DEF AppliedOnce, NonceHasOneOwner
<1> QED BY <1>1, <1>2, <1>3 DEF CallbackInv

\* The clock and the moves of a delivery that write nothing.
LEMMA ArrivalsKeepInv ==
    ASSUME CallbackInv, NEW d \in Delivery,
           \/ \E m \in Message : AcceptMessage(d, m)
           \/ ReadClaim(d)
           \/ DeliveryFails(d)
    PROVE  CallbackInv'
<1> USE DEF CallbackInv, Arrive
<1>1. UNCHANGED <<clock, claims, jobStatus, appliedCount, claimedAt>>
  BY DEF AcceptMessage, ReadClaim, DeliveryFails
<1>2. CallbackTypeOK' /\ CarriesMessage'
  <2>1. ASSUME NEW m \in Message, AcceptMessage(d, m) PROVE CallbackTypeOK' /\ CarriesMessage'
    BY <2>1, <1>1 DEF AcceptMessage, Arrived, CallbackTypeOK, CarriesMessage
  <2>2. CASE ReadClaim(d)
    BY <2>2, <1>1 DEF ReadClaim, CallbackTypeOK, CarriesMessage
  <2>3. CASE DeliveryFails(d)
    BY <2>3, <1>1 DEF DeliveryFails, CallbackTypeOK, CarriesMessage
  <2> QED BY <2>1, <2>2, <2>3
<1>3. (AppliedIsPassed /\ ClaimsCover /\ AppliedOnce /\ NonceHasOneOwner)'
  BY <1>1 DEF AppliedIsPassed, ClaimsCover, AppliedOnce, NonceHasOneOwner
<1> QED BY <1>2, <1>3

\* A claim is made when the one before it has ended.
LEMMA ClaimKeepsInv ==
    ASSUME CallbackInv, NEW d \in Delivery, ClaimNonce(d)
    PROVE  CallbackInv'
<1> USE DEF CallbackInv, Arrive
<1> DEFINE m == delivery[d].message
           n == NonceOf[m]
<1>1. m \in Message /\ n \in Nonces
  BY DEF ClaimNonce, CarriesMessage, Nonces
<1>2. UNCHANGED <<clock, jobStatus, appliedCount>>
  BY DEF ClaimNonce
<1>3. CallbackTypeOK' /\ CarriesMessage'
  <2>1. clock + ReplayTTL \in Nat
    BY CallbackAssumption DEF CallbackTypeOK
  <2>2. /\ claims' \in [Nonces -> [message : Message \cup {NoMessage}, until : Nat]]
        /\ claimedAt' \in [Message -> Nat \cup {-1}]
    <3>1. CASE NonceIsFree(n)
      <4>1. /\ claims' = [claims EXCEPT ![n] = [message |-> m, until |-> clock + ReplayTTL]]
            /\ claimedAt' = [claimedAt EXCEPT ![m] = clock]
        BY <3>1 DEF ClaimNonce
      <4>2. [message |-> m, until |-> clock + ReplayTTL]
                \in [message : Message \cup {NoMessage}, until : Nat]
        BY <1>1, <2>1
      <4> HIDE DEF m, n
      <4> QED BY <1>1, <4>1, <4>2 DEF CallbackTypeOK
    <3>2. CASE ~NonceIsFree(n)
      <4>1. UNCHANGED <<claims, claimedAt>>
        BY <3>2 DEF ClaimNonce
      <4> QED BY <4>1 DEF CallbackTypeOK
    <3> QED BY <3>1, <3>2
  <2>3. \E at \in {"apply", "answered", "read"} : delivery' = [delivery EXCEPT ![d].at = at]
    BY DEF ClaimNonce
  <2>4. /\ delivery' \in [Delivery -> [at : {"answered", "claim", "read", "apply", "replay"},
                                       message : Message \cup {NoMessage}]]
        /\ CarriesMessage'
    BY <1>1, <2>3 DEF CallbackTypeOK, CarriesMessage
  <2> QED BY <1>2, <2>2, <2>4 DEF CallbackTypeOK
<1>4. AppliedIsPassed' /\ AppliedOnce'
  BY <1>2 DEF AppliedIsPassed, AppliedOnce
<1>5. ClaimsCover' /\ NonceHasOneOwner'
  <2>1. CASE ~NonceIsFree(n)
    BY <2>1 DEF ClaimNonce, ClaimsCover, NonceHasOneOwner
  <2>2. CASE NonceIsFree(n)
    <3>1. /\ claims' = [claims EXCEPT ![n] = [message |-> m, until |-> clock + ReplayTTL]]
          /\ claimedAt' = [claimedAt EXCEPT ![m] = clock]
      BY <2>2 DEF ClaimNonce
    <3>2. ASSUME NEW l \in Message, NonceOf[l] = n, claimedAt[l] >= 0
          PROVE  clock >= claimedAt[l] + ReplayTTL
      <4>1. claims[n].message # NoMessage /\ claims[n].until >= claimedAt[l] + ReplayTTL
        BY <3>2 DEF ClaimsCover
      <4>2. clock >= claims[n].until
        BY <4>1, <2>2, <1>1 DEF NonceIsFree, ClaimLives, CallbackTypeOK
      <4> QED BY <4>1, <4>2, <1>1, CallbackAssumption DEF CallbackTypeOK
    <3>3. ClaimsCover'
      <4> SUFFICES ASSUME NEW l \in Message, claimedAt'[l] >= 0
                   PROVE  /\ claims'[NonceOf[l]].message # NoMessage
                          /\ claims'[NonceOf[l]].until >= claimedAt'[l] + ReplayTTL
        BY DEF ClaimsCover
      <4>1. CASE NonceOf[l] # n
        <5>1. claims'[NonceOf[l]] = claims[NonceOf[l]] /\ claimedAt'[l] = claimedAt[l]
          BY <4>1, <3>1 DEF CallbackTypeOK
        <5> QED BY <5>1 DEF ClaimsCover
      <4>2. CASE NonceOf[l] = n
        <5>1. claims'[NonceOf[l]].message = m /\ claims'[NonceOf[l]].until = clock + ReplayTTL
          BY <4>2, <3>1, <1>1 DEF CallbackTypeOK
        <5>2. claimedAt'[l] <= clock
          BY <4>2, <3>1, <3>2, <1>1, CallbackAssumption DEF CallbackTypeOK
        <5>3. claimedAt'[l] \in Int /\ clock \in Nat
          BY <1>3, <1>2 DEF CallbackTypeOK
        <5> QED BY <5>1, <5>2, <5>3, <1>1, CallbackAssumption
      <4> QED BY <4>1, <4>2
    <3>4. NonceHasOneOwner'
      <4> SUFFICES ASSUME NEW k \in Message, NEW l \in Message, k # l, NonceOf[k] = NonceOf[l],
                          claimedAt'[k] >= 0, claimedAt'[l] >= claimedAt'[k]
                   PROVE  claimedAt'[l] - claimedAt'[k] >= ReplayTTL
        BY DEF NonceHasOneOwner
      <4>1. CASE l = m
        <5>1. claimedAt'[l] = clock /\ claimedAt'[k] = claimedAt[k]
          BY <4>1, <3>1, <1>1 DEF CallbackTypeOK
        <5>2. clock >= claimedAt[k] + ReplayTTL
          BY <4>1, <5>1, <3>2
        <5> QED BY <5>1, <5>2, CallbackAssumption DEF CallbackTypeOK
      <4>2. CASE k = m
        <5>1. claimedAt'[k] = clock /\ claimedAt'[l] = claimedAt[l]
          BY <4>2, <3>1, <1>1 DEF CallbackTypeOK
        <5>2. claimedAt[l] >= 0 /\ claimedAt[l] >= clock
          BY <5>1 DEF CallbackTypeOK
        <5>3. clock >= claimedAt[l] + ReplayTTL
          BY <4>2, <5>2, <3>2
        <5>4. claimedAt[l] \in Int /\ clock \in Int /\ ReplayTTL \in Nat
          BY CallbackAssumption DEF CallbackTypeOK
        <5> QED BY <5>1, <5>2, <5>3, <5>4
      <4>3. CASE k # m /\ l # m
        <5>1. claimedAt'[k] = claimedAt[k] /\ claimedAt'[l] = claimedAt[l]
          BY <4>3, <3>1 DEF CallbackTypeOK
        <5> QED BY <5>1 DEF NonceHasOneOwner
      <4> QED BY <4>1, <4>2, <4>3
    <3> QED BY <3>3, <3>4
  <2> QED BY <2>1, <2>2
<1> QED BY <1>3, <1>4, <1>5

\* The message that is applied takes the job one stage further.
LEMMA ApplyKeepsInv ==
    ASSUME CallbackInv, NEW d \in Delivery, ApplyMessage(d)
    PROVE  CallbackInv'
<1> USE DEF CallbackInv, Arrive
<1> DEFINE m == delivery[d].message
<1>1. m \in Message
  BY DEF ApplyMessage, CarriesMessage
<1>2. UNCHANGED <<clock, claims, claimedAt>>
  BY DEF ApplyMessage
<1>3. ClaimsCover' /\ NonceHasOneOwner'
  BY <1>2 DEF ClaimsCover, NonceHasOneOwner
<1>4. CallbackTypeOK' /\ CarriesMessage'
  BY <1>1, CallbackAssumption DEF ApplyMessage, CallbackTypeOK, CarriesMessage
<1>5. AppliedIsPassed' /\ AppliedOnce'
  <2>1. CASE ~MayFollow(jobStatus, StatusOf[m])
    BY <2>1 DEF ApplyMessage, AppliedIsPassed, AppliedOnce
  <2>2. CASE MayFollow(jobStatus, StatusOf[m])
    <3>1. jobStatus' = StatusOf[m] /\ appliedCount' = [appliedCount EXCEPT ![m] = @ + 1]
      BY <2>2 DEF ApplyMessage
    <3>2. StatusOf[m] \in CallbackStatus /\ jobStatus \in CallbackStatus
      BY <1>1, CallbackAssumption DEF CallbackTypeOK
    <3>3. Stage(StatusOf[m]) = Stage(jobStatus) + 1
      BY <3>2, <2>2, StagesAscend
    <3>4. \A l \in Message : Stage(StatusOf[l]) \in Nat
      BY StagesAreNumbers, CallbackAssumption
    <3>5. Stage(jobStatus) \in Nat
      BY <3>2, StagesAreNumbers
    <3>6. appliedCount[m] = 0
      BY <1>1, <3>3, <3>4, <3>5 DEF AppliedIsPassed, CallbackTypeOK
    <3>7. AppliedOnce'
      BY <3>1, <3>6, <1>1 DEF AppliedOnce, CallbackTypeOK
    <3>8. AppliedIsPassed'
      <4> SUFFICES ASSUME NEW l \in Message, appliedCount'[l] > 0
                   PROVE  Stage(StatusOf[l]) <= Stage(StatusOf[m])
        BY <3>1 DEF AppliedIsPassed
      <4>1. CASE l = m
        BY <4>1, <3>4
      <4>2. CASE l # m
        <5>1. appliedCount'[l] = appliedCount[l]
          BY <4>2, <3>1 DEF CallbackTypeOK
        <5>2. Stage(StatusOf[l]) <= Stage(jobStatus)
          BY <5>1 DEF AppliedIsPassed
        <5> QED BY <5>2, <3>3, <3>4, <3>5
      <4> QED BY <4>1, <4>2
    <3> QED BY <3>7, <3>8
  <2> QED BY <2>1, <2>2
<1> QED BY <1>3, <1>4, <1>5

LEMMA CallbackStep == CallbackInv /\ [CallbackNext]_callbackVars => CallbackInv'
<1> SUFFICES ASSUME CallbackInv, [CallbackNext]_callbackVars PROVE CallbackInv'
  OBVIOUS
<1>1. CASE ClockTicks \/ UNCHANGED callbackVars
  <2>1. UNCHANGED <<claims, delivery, jobStatus, appliedCount, claimedAt>> /\ clock' \in Nat
    BY <1>1 DEF ClockTicks, callbackVars, CallbackInv, CallbackTypeOK
  <2> QED BY <2>1 DEF CallbackInv, CallbackTypeOK, CarriesMessage, AppliedIsPassed, ClaimsCover,
        AppliedOnce, NonceHasOneOwner
<1>2. ASSUME NEW d \in Delivery,
             \/ \E m \in Message : AcceptMessage(d, m)
             \/ ClaimNonce(d) \/ ReadClaim(d) \/ ApplyMessage(d) \/ DeliveryFails(d)
      PROVE  CallbackInv'
  BY <1>2, ArrivalsKeepInv, ClaimKeepsInv, ApplyKeepsInv
<1> QED BY <1>1, <1>2 DEF CallbackNext

THEOREM CallbackInvariance == CallbackSpec => []CallbackInv
BY CallbackStarts, CallbackStep, PTL DEF CallbackSpec

\* release/repository_mysql.go ApplyCallbackLocked behind builder/callback.go: no message
\* changes the job twice, although the claim of its nonce ends, is repeated and is
\* not looked at when the message is applied.
THEOREM MessagesApplyOnce == CallbackSpec => []AppliedOnce
<1>1. CallbackInv => AppliedOnce
  BY DEF CallbackInv
<1> QED BY <1>1, CallbackInvariance, PTL

\* builder/callback.go VerifyAndClaim: two messages with one nonce hold it a lifetime apart.
THEOREM NonceKeepsOneOwner == CallbackSpec => []NonceHasOneOwner
<1>1. CallbackInv => NonceHasOneOwner
  BY DEF CallbackInv
<1> QED BY <1>1, CallbackInvariance, PTL
=============================================================================
