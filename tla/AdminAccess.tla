---------------------------- MODULE AdminAccess ----------------------------
(***************************************************************************)
(* The administrator's account, logins and sessions (bootstrap/admin.go,   *)
(* auth/service.go, limiter_redis.go, session.go, session_redis.go).       *)
(* Failures are counted in Redis for the name and for the address, in a    *)
(* window of time; a login looks at both counts, verifies the password and *)
(* then counts its failure or stores a session, and undoes the session     *)
(* when what follows fails.  Every call to MySQL or Redis is a step and    *)
(* may err; a write that errs may have been done.                          *)
(***************************************************************************)
EXTENDS Naturals, FiniteSets

CONSTANTS
    Initializer,     \* runs of blog-admin init
    Login,           \* requests to log in, one after another in each
    Token, NoToken,
    FailureLimit     \* [{"username", "ip"} -> Nat]: how many failures close a window

Counter == {"username", "ip"}

ASSUME AccessAssumption ==
    /\ NoToken \notin Token /\ FailureLimit \in [Counter -> Nat \ {0}]
    /\ IsFiniteSet(Login)

VARIABLES
    initializer,     \* where each initialization is
    administrators,  \* the initializations whose row is in the table
    failures,        \* the counters of the present window
    login,           \* where each login is, and its token
    sessions,        \* tokens with a session in Redis
    cookies,         \* tokens a browser was given and has not logged out
    strays,          \* tokens nobody was given whose removal failed, or whose storing erred
    request          \* a request with a cookie, and how far Current is with it

accessAccount == <<initializer, administrators>>
accessVars == <<accessAccount, failures, login, sessions, cookies, strays, request>>

LoginState == {"free", "verify", "username", "ip", "create", "touch", "reset", "compensate"}

Free == [at |-> "free", token |-> NoToken]

AccessInit ==
    /\ initializer = [i \in Initializer |-> "count"]
    /\ administrators = {}
    /\ failures = [c \in Counter |-> 0]
    /\ login = [l \in Login |-> Free]
    /\ sessions = {} /\ cookies = {} /\ strays = {}
    /\ request = Free

-----------------------------------------------------------------------------

\* CreateFirstAdmin counts, hashes the password and then inserts.
CountAdmins(i) ==
    /\ initializer[i] = "count"
    /\ initializer' = [initializer EXCEPT ![i] = IF administrators = {} THEN "create" ELSE "refused"]
    /\ UNCHANGED <<administrators, failures, login, sessions, cookies, strays, request>>

\* Variant: nothing but the count keeps a second row out.
WithoutSingletonKey == TRUE

SingletonKeyIsFree == administrators = {}

CreateAdmin(i) ==
    /\ initializer[i] = "create"
    /\ IF SingletonKeyIsFree
       THEN /\ administrators' = administrators \cup {i}
            /\ \E answer \in {"created", "refused"} : initializer' = [initializer EXCEPT ![i] = answer]
       ELSE /\ initializer' = [initializer EXCEPT ![i] = "refused"]
            /\ UNCHANGED administrators
    /\ UNCHANGED <<failures, login, sessions, cookies, strays, request>>

-----------------------------------------------------------------------------

Proceeds(l, from, to) ==
    /\ login[l].at = from
    /\ login' = [login EXCEPT ![l] = IF to = "free" THEN Free ELSE [@ EXCEPT !.at = to]]

\* Variant: only the count for the address is looked at.
AllowByAddress == failures["ip"] < FailureLimit["ip"]

Allowed == \A c \in Counter : failures[c] < FailureLimit[c]

Allow(l) ==
    /\ Allowed
    /\ Proceeds(l, "free", "verify")
    /\ UNCHANGED <<accessAccount, failures, sessions, cookies, strays, request>>

\* The administrator is read and the password verified; either may err, and an
\* operator may have set the state of the account to something else than "active".
VerifyPassword(l) ==
    /\ \/ administrators # {} /\ Proceeds(l, "verify", "create")
       \/ Proceeds(l, "verify", "username")
       \/ Proceeds(l, "verify", "free")
    /\ UNCHANGED <<accessAccount, failures, sessions, cookies, strays, request>>

\* Both counters are incremented, in one pipeline, whether or not the first is.
RecordFailure(l) ==
    /\ \E c \in Counter :
        /\ Proceeds(l, c, IF c = "username" THEN "ip" ELSE "free")
        /\ \/ failures' = [failures EXCEPT ![c] = @ + 1]
           \/ UNCHANGED failures
    /\ UNCHANGED <<accessAccount, sessions, cookies, strays, request>>

\* A counter expires with its key; each has a window of its own.
WindowPasses ==
    /\ \E c \in Counter : failures' = [failures EXCEPT ![c] = 0]
    /\ UNCHANGED <<accessAccount, login, sessions, cookies, strays, request>>

Drawn == sessions \cup cookies \cup strays \cup {login[l].token : l \in Login} \cup {request.token}

CreateSession(l) ==
    /\ login[l].at = "create"
    /\ \E t \in Token \ Drawn :
        \/ /\ sessions' = sessions \cup {t}
           /\ login' = [login EXCEPT ![l] = [at |-> "touch", token |-> t]]
           /\ UNCHANGED strays
        \/ /\ sessions' = sessions \cup {t} /\ strays' = strays \cup {t}
           /\ Proceeds(l, "create", "free")
        \/ /\ UNCHANGED <<sessions, strays>>
           /\ Proceeds(l, "create", "free")
    /\ UNCHANGED <<accessAccount, failures, cookies, request>>

UpdateLastLogin(l) ==
    /\ Proceeds(l, "touch", "reset") \/ Proceeds(l, "touch", "compensate")
    /\ UNCHANGED <<accessAccount, failures, sessions, cookies, strays, request>>

\* Variant: the login fails and its session is left behind.
ForgetSession == "free"

AfterFailedReset == "compensate"

\* The count for the name is removed, and the browser gets the token.
ResetUsername(l) ==
    /\ \/ /\ Proceeds(l, "reset", "free")
          /\ cookies' = cookies \cup {login[l].token}
          /\ failures' = [failures EXCEPT !["username"] = 0]
       \/ /\ Proceeds(l, "reset", AfterFailedReset)
          /\ failures' \in {failures, [failures EXCEPT !["username"] = 0]}
          /\ UNCHANGED cookies
    /\ UNCHANGED <<accessAccount, sessions, strays, request>>

\* A session is deleted, or the deletion errs having been done or not.
DeleteSession(t, err) ==
    \/ sessions' = sessions \ {t} /\ ~err
    \/ sessions' \in {sessions, sessions \ {t}} /\ err

CompensateSession(l) ==
    /\ Proceeds(l, "compensate", "free")
    /\ \E err \in BOOLEAN :
        /\ DeleteSession(login[l].token, err)
        /\ strays' = IF err THEN strays \cup {login[l].token} ELSE strays
    /\ UNCHANGED <<accessAccount, failures, cookies, request>>

Logout(t) ==
    /\ t \in cookies
    /\ \E err \in BOOLEAN :
        /\ DeleteSession(t, err)
        /\ cookies' = IF err THEN cookies ELSE cookies \ {t}
    /\ UNCHANGED <<accessAccount, failures, login, strays, request>>

\* The time to live ends; a browser may still send the cookie.
SessionExpires(t) ==
    /\ t \in sessions
    /\ sessions' = sessions \ {t} /\ strays' = strays \ {t}
    /\ UNCHANGED <<accessAccount, failures, login, cookies, request>>

-----------------------------------------------------------------------------

\* Current reads the session, then the administrator, who is served, or the read
\* errs, or the account is no longer active.
GetSession(t) ==
    /\ request = Free /\ t \in cookies
    /\ request' = IF t \in sessions THEN [at |-> "find", token |-> t] ELSE Free
    /\ UNCHANGED <<accessAccount, failures, login, sessions, cookies, strays>>

FindAdmin ==
    /\ request.at = "find"
    /\ request' \in {Free, [request EXCEPT !.at = "compensate"]}
    /\ UNCHANGED <<accessAccount, failures, login, sessions, cookies, strays>>

\* The session of an account that is no longer active is removed.
CompensateRequest ==
    /\ request.at = "compensate"
    /\ request' = Free
    /\ \E err \in BOOLEAN : DeleteSession(request.token, err)
    /\ UNCHANGED <<accessAccount, failures, login, cookies, strays>>

AccessNext ==
    \/ \E i \in Initializer : CountAdmins(i) \/ CreateAdmin(i)
    \/ WindowPasses
    \/ \E l \in Login :
        \/ Allow(l) \/ VerifyPassword(l) \/ RecordFailure(l)
        \/ CreateSession(l) \/ UpdateLastLogin(l) \/ ResetUsername(l) \/ CompensateSession(l)
    \/ \E t \in Token : Logout(t) \/ SessionExpires(t) \/ GetSession(t)
    \/ FindAdmin \/ CompensateRequest

AccessSpec == AccessInit /\ [][AccessNext]_accessVars

-----------------------------------------------------------------------------

InFlight == {l \in Login : login[l].at # "free"}

\* The look at the counters and the counting are steps apart, so logins that run
\* together may all pass; but a counter exceeds its limit by no more than their
\* number, through windows, resets and increments that fail.
FailuresAreBounded ==
    \A c \in Counter : failures[c] < FailureLimit[c] + Cardinality(Login)

\* A login that fails leaves no session: each that is stored was given to a
\* browser, belongs to a login under way, or could not be removed.
FailedLoginLeavesNoSession ==
    sessions \subseteq cookies \cup strays \cup {login[l].token : l \in InFlight}

\* However many initializations run at once there is one administrator, and the
\* one that answered "created" created it.
OneAdministrator ==
    /\ Cardinality(administrators) <= 1
    /\ \A i \in Initializer : initializer[i] = "created" => administrators = {i}
=============================================================================
