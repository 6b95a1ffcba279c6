---------------------------- MODULE AdminSession ----------------------------
(***************************************************************************)
(* What the administration page takes itself to be: signed in, signed out, *)
(* not known (admin/src/auth/AuthProvider.tsx).  The question asked when   *)
(* the page opens, logins, logouts and the queries of the pages overlap.   *)
(* A request is served when the server gets to it and answered later; an   *)
(* aborted one may still be served, and its answer may be under way        *)
(* already.  Handlers and answers run one at a time.                       *)
(*                                                                         *)
(* askedSoFar and signOuts belong to the model: how many requests there    *)
(* have been, and how often the page has shown that nobody is signed in.   *)
(***************************************************************************)
EXTENDS Naturals, FiniteSets

CONSTANTS
    NoController,     \* no AbortController
    MaxCalls          \* bound on the requests of a page

ASSUME SessionAssumption == MaxCalls \in Nat /\ NoController \notin Nat

VARIABLES
    page,                   \* state.kind
    bootstrapGeneration,    \* the refs of the provider; a controller is
    bootstrapEffect,        \* the number of the request it was made for
    actionController,
    calls,                  \* requests that have not been answered
    askedSoFar,
    signOuts,
    signedIn                \* the browser's cookie names a session the server has

sessionRefs == <<bootstrapGeneration, bootstrapEffect, actionController>>
sessionVars == <<page, sessionRefs, calls, askedSoFar, signOuts, signedIn>>

\* generation is the value the handler has read; since is how often the page had
\* been signed out when the request was made.
Call(kind, generation) ==
    [kind |-> kind, number |-> askedSoFar + 1, generation |-> generation,
     since |-> signOuts, answer |-> "none"]

Ask(kind, generation) ==
    /\ askedSoFar < MaxCalls /\ askedSoFar' = askedSoFar + 1
    /\ calls' = calls \cup {Call(kind, generation)}

\* The provider is mounted, and its effect asks who is signed in.
SessionInit ==
    /\ page = "loading"
    /\ bootstrapGeneration = 1 /\ bootstrapEffect = 1 /\ actionController = NoController
    /\ calls = {[kind |-> "current", number |-> 1, generation |-> 1, since |-> 0, answer |-> "none"]}
    /\ askedSoFar = 1 /\ signOuts = 0
    /\ signedIn \in BOOLEAN

-----------------------------------------------------------------------------

\* "Retry": the effect runs again, its cleanup puts the run before it out of use.
AskAgain ==
    /\ page = "unavailable" /\ page' = "loading"
    /\ Ask("current", bootstrapGeneration + 1)
    /\ bootstrapGeneration' = bootstrapGeneration + 1 /\ bootstrapEffect' = askedSoFar + 1
    /\ UNCHANGED <<actionController, signOuts, signedIn>>

\* The login page shows its form, the shell its button, to whom they concern.
SignIn ==
    /\ page = "anonymous" /\ Ask("login", bootstrapGeneration)
    /\ actionController' = askedSoFar + 1
    /\ UNCHANGED <<page, bootstrapGeneration, bootstrapEffect, signOuts, signedIn>>

SignOut ==
    /\ page = "authenticated" /\ Ask("logout", bootstrapGeneration)
    /\ actionController' = askedSoFar + 1
    /\ UNCHANGED <<page, bootstrapGeneration, bootstrapEffect, signOuts, signedIn>>

\* Whatever else a page asks.
Query ==
    /\ page = "authenticated" /\ Ask("query", bootstrapGeneration)
    /\ UNCHANGED <<page, sessionRefs, signOuts, signedIn>>

-----------------------------------------------------------------------------

\* A wrong password is a 401 of another code than that of a missing session.
ServeCall(c) ==
    /\ c.answer = "none"
    /\ \E answer \in {"ok", "unauthenticated", "failure"} :
        /\ calls' = (calls \ {c}) \cup {[c EXCEPT !.answer = answer]}
        /\ CASE c.kind = "login" ->
                    answer # "unauthenticated" /\ signedIn' \in {signedIn, TRUE} /\ (answer = "ok" => signedIn')
             [] c.kind = "logout" ->
                    answer # "unauthenticated" /\ signedIn' \in {signedIn, FALSE} /\ (answer = "ok" => ~signedIn')
             [] OTHER ->
                    (answer = "ok" => signedIn) /\ (answer = "unauthenticated" => ~signedIn) /\ UNCHANGED signedIn
    /\ UNCHANGED <<page, sessionRefs, askedSoFar, signOuts>>

CookieExpires ==
    /\ signedIn /\ signedIn' = FALSE
    /\ UNCHANGED <<page, sessionRefs, calls, askedSoFar, signOuts>>

-----------------------------------------------------------------------------

ExpireSession ==
    /\ page' = "anonymous" /\ signOuts' = signOuts + 1
    /\ bootstrapGeneration' = bootstrapGeneration + 1
    /\ actionController' = NoController

BootstrapHolds(c) == c.number = bootstrapEffect /\ c.generation = bootstrapGeneration

\* Variant: an answer is taken whichever action it belongs to.
AnyActionHolds(c) == TRUE

ActionHolds(c) == actionController = c.number /\ c.generation = bootstrapGeneration

\* Nothing happens that the page could show.
Ignore == UNCHANGED <<page, signOuts, bootstrapGeneration>>

Finally(c) ==
    actionController' = IF actionController = c.number THEN NoController ELSE actionController

\* responseProblem calls onUnauthenticated before the caller sees the answer, and
\* whoever the caller is.
Unauthenticated(c) == c.answer = "unauthenticated" /\ ExpireSession

BootstrapAnswered(c) ==
    /\ c.kind = "current" /\ c.answer # "unauthenticated"
    /\ IF BootstrapHolds(c)
       THEN /\ page' = IF c.answer = "ok" THEN "authenticated" ELSE "unavailable"
            /\ UNCHANGED <<signOuts, bootstrapGeneration>>
       ELSE Ignore
    /\ UNCHANGED actionController

LoginAnswered(c) ==
    /\ c.kind = "login"
    /\ IF c.answer = "ok" /\ ActionHolds(c)
       THEN page' = "authenticated" /\ UNCHANGED <<signOuts, bootstrapGeneration>>
       ELSE Ignore
    /\ Finally(c)

LogoutAnswered(c) ==
    /\ c.kind = "logout"
    /\ IF c.answer = "ok" /\ ActionHolds(c)
       THEN ExpireSession
       ELSE Ignore /\ Finally(c)

QueryAnswered(c) ==
    /\ c.kind = "query" /\ c.answer # "unauthenticated"
    /\ Ignore /\ UNCHANGED actionController

CallAnswered(c) ==
    /\ c.answer # "none" /\ calls' = calls \ {c}
    /\ Unauthenticated(c) \/ BootstrapAnswered(c) \/ LoginAnswered(c) \/ LogoutAnswered(c) \/ QueryAnswered(c)
    /\ UNCHANGED <<bootstrapEffect, askedSoFar, signedIn>>

\* An aborted request ends in an AbortError, served or not.
CallAborted(c) ==
    /\ calls' = calls \ {c}
    /\ CASE c.kind = "current" -> ~BootstrapHolds(c) /\ UNCHANGED actionController
         [] c.kind \in {"login", "logout"} -> actionController # c.number /\ UNCHANGED actionController
         [] OTHER -> page # "authenticated" /\ UNCHANGED actionController
    /\ Ignore
    /\ UNCHANGED <<bootstrapEffect, askedSoFar, signedIn>>

SessionNext ==
    \/ AskAgain \/ SignIn \/ SignOut \/ Query \/ CookieExpires
    \/ \E c \in calls : ServeCall(c) \/ CallAnswered(c) \/ CallAborted(c)

SessionSpec == SessionInit /\ [][SessionNext]_sessionVars

-----------------------------------------------------------------------------

\* Once the page has shown that nobody is signed in, no answer to a question asked
\* before brings the administrator back: neither that of the first question nor
\* that of a login which was overtaken.
SignOutIsFinal ==
    [][\A c \in calls \ calls' :
        page # "authenticated" /\ page' = "authenticated" => c.since = signOuts]_sessionVars
=============================================================================
