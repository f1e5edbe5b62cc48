---------------------------- MODULE LoginLimiter ----------------------------
(***************************************************************************)
(* The login limiter (src/api/utils/login_limiter.go) and the handlers     *)
(* that use it: the middleware in front of every route, the admin login,   *)
(* which may ask for a captcha, the client login, which does not, and the  *)
(* captcha route.  Each method of the limiter holds its mutex, so it is    *)
(* one step; between two of them the handlers of other requests run.       *)
(* Addresses do not influence each other, so one client address is         *)
(* modelled, with many requests.  Time is counted in ticks.                *)
(*                                                                         *)
(* Failures are counted by time only, and two may share a tick, so a list  *)
(* of times is a set of stamps: a time and a number that tells the stamps  *)
(* of one tick apart.                                                      *)
(*                                                                         *)
(* guesses is history: when wrong passwords were tried since the last      *)
(* admin login.                                                            *)
(***************************************************************************)
EXTENDS Integers, FiniteSets

CONSTANTS
    Logins,           \* requests in flight at a time
    Ids,                \* captcha challenges that exist at a time
    CaptchaThreshold, BanThreshold, AttemptsWindow, BanDuration,
    CaptchaLife,        \* the provider's Expiration()
    MaxTime             \* bound on the clock

ASSUME LimiterAssumption ==
    /\ CaptchaThreshold \in Int /\ BanThreshold \in Nat
    /\ AttemptsWindow \in Nat \ {0} /\ BanDuration \in Nat \ {0}
    /\ CaptchaLife \in Nat /\ MaxTime \in Nat
    /\ IsFiniteSet(Logins) /\ Logins # {}

VARIABLES
    now,
    attempts,       \* the stamps of the recorded failures
    bannedUntil,    \* ExpiresAt of the ban, -1 without one
    captchas,       \* challenge -> ExpiresAt, -1 when it does not exist
    phase,          \* request -> where its handler is
    needCaptcha,    \* request -> what the admin login read
    guesses

limiterVars == <<now, attempts, bannedUntil, captchas, phase, needCaptcha, guesses>>

Times == 0 .. MaxTime
Never == -1

LimiterTypeOK ==
    /\ now \in Times
    /\ attempts \subseteq Times \X Nat /\ guesses \subseteq Times \X Nat
    /\ bannedUntil \in Times \cup (MaxTime .. MaxTime + BanDuration) \cup {Never}
    /\ captchas \in [Ids -> Times \cup (MaxTime .. MaxTime + CaptchaLife) \cup {Never}]
    /\ phase \in [Logins -> {"idle", "admin", "client", "form", "password", "wrong"}]
    /\ needCaptcha \in [Logins -> BOOLEAN]

LimiterInit ==
    /\ now = 0
    /\ attempts = {} /\ guesses = {}
    /\ bannedUntil = Never
    /\ captchas = [i \in Ids |-> Never]
    /\ phase = [r \in Logins |-> "idle"]
    /\ needCaptcha = [r \in Logins |-> FALSE]

-----------------------------------------------------------------------------
isDisabled == CaptchaThreshold < 0 /\ BanThreshold = 0

\* isBanned drops a ban that is over; a ban holds up to its last instant.
isBanned == bannedUntil # Never /\ now <= bannedUntil
liftBan == IF isBanned THEN bannedUntil ELSE Never

\* The stamps after a time, and a new one for this instant.
After(s, time) == {a \in s : a[1] > time}
stamp(s) == <<now, CHOOSE k \in 0 .. Cardinality(s) : <<now, k>> \notin s>>

BugPruneEarly(s) == After(s, now)

\* The failures after the cutoff.
pruneAttempts(s) == After(s, now - AttemptsWindow)

goto(r, p) == phase' = [phase EXCEPT ![r] = p]

\* RecordFailedAttempt: nothing while the limiter is off or the address is
\* banned; otherwise the failure counts, and the one that reaches the
\* threshold bans the address and clears the count.
RecordFailedAttempt ==
    IF isDisabled THEN UNCHANGED <<attempts, bannedUntil>>
    ELSE IF isBanned THEN UNCHANGED <<attempts, bannedUntil>>
    ELSE LET valid == pruneAttempts(attempts) \cup {stamp(pruneAttempts(attempts))}
             ban == BanThreshold > 0 /\ Cardinality(valid) >= BanThreshold
         IN  /\ attempts' = IF ban THEN {} ELSE valid
             /\ bannedUntil' = IF ban THEN now + BanDuration ELSE Never

\* CheckSecurityStatus: the answer, and the pruning it does on the way.
checked(banned, need) ==
    IF isDisabled THEN /\ ~banned /\ ~need
                       /\ UNCHANGED <<attempts, bannedUntil>>
    ELSE /\ banned = isBanned
         /\ bannedUntil' = liftBan
         /\ attempts' = IF isBanned THEN attempts ELSE pruneAttempts(attempts)
         /\ need = (~isBanned /\ Cardinality(attempts') >= CaptchaThreshold)

\* middleware.Limiter in front of a login route: a banned address stops here.
Limiter(r, route) ==
    /\ phase[r] = "idle"
    /\ \E banned, need \in BOOLEAN :
        /\ checked(banned, need)
        /\ goto(r, IF banned THEN "idle" ELSE route)
    /\ UNCHANGED <<now, captchas, needCaptcha, guesses>>

\* Login of the admin panel asks again, for the captcha only: a ban that came
\* in between is not looked at.
LoginChecks(r) ==
    /\ phase[r] = "admin"
    /\ \E banned, need \in BOOLEAN :
        /\ checked(banned, need)
        /\ needCaptcha' = [needCaptcha EXCEPT ![r] = need]
    /\ goto(r, "form")
    /\ UNCHANGED <<now, captchas, guesses>>

\* Malformed or invalid parameters count as a failure on both routes.
BadParameters(r) ==
    /\ phase[r] \in {"form", "client"}
    /\ RecordFailedAttempt
    /\ goto(r, "idle")
    /\ UNCHANGED <<now, captchas, needCaptcha, guesses>>

\* The client login, and an admin login that needs no captcha, go on to the
\* password.
NoCaptcha(r) ==
    /\ phase[r] = "client" \/ (phase[r] = "form" /\ ~needCaptcha[r])
    /\ goto(r, "password")
    /\ UNCHANGED <<now, attempts, bannedUntil, captchas, needCaptcha, guesses>>

\* VerifyCaptcha: a right answer in time uses the challenge up; a wrong one
\* leaves it; an expired challenge goes.  A failure ends the request and is
\* not counted.
VerifyCaptcha(r, i, right) ==
    LET live == captchas[i] # Never /\ now <= captchas[i]
        pass == live /\ right
    IN  /\ phase[r] = "form" /\ needCaptcha[r]
        /\ captchas' = IF live /\ ~right THEN captchas ELSE [captchas EXCEPT ![i] = Never]
        /\ goto(r, IF pass THEN "password" ELSE "idle")
        /\ UNCHANGED <<now, attempts, bannedUntil, needCaptcha, guesses>>

\* The password is wrong (the user store is read without the mutex) ...
WrongPassword(r) ==
    /\ phase[r] = "password"
    /\ guesses' = guesses \cup {stamp(guesses)}
    /\ goto(r, "wrong")
    /\ UNCHANGED <<now, attempts, bannedUntil, captchas, needCaptcha>>

\* ... and the failure is recorded.  The admin login then asks once more what
\* to answer, which only prunes what is already pruned.
RecordWrong(r) ==
    /\ phase[r] = "wrong"
    /\ goto(r, "idle")
    /\ RecordFailedAttempt
    /\ UNCHANGED <<now, captchas, needCaptcha, guesses>>

\* The password is right: the admin login forgets the failures of the
\* address, the client login and a disabled user do not.
LoggedIn(r, forgets) ==
    /\ phase[r] = "password"
    /\ attempts' = IF forgets THEN {} ELSE attempts
    /\ guesses' = IF forgets THEN {} ELSE guesses
    /\ goto(r, "idle")
    /\ UNCHANGED <<now, bannedUntil, captchas, needCaptcha>>

BugExpiresInThePast(i) ==
    /\ captchas[i] = Never
    /\ checked(FALSE, TRUE)
    /\ captchas' = [captchas EXCEPT ![i] = now - CaptchaLife - 1]
    /\ UNCHANGED <<now, phase, needCaptcha, guesses>>

\* The captcha route hands out a fresh challenge when one is required.
Captcha(i) ==
    /\ captchas[i] = Never
    /\ checked(FALSE, TRUE)
    /\ captchas' = [captchas EXCEPT ![i] = now + CaptchaLife]
    /\ UNCHANGED <<now, phase, needCaptcha, guesses>>

\* The clean-up of every minute.
cleanupExpired ==
    /\ bannedUntil' = liftBan
    /\ attempts' = pruneAttempts(attempts)
    /\ captchas' = [i \in Ids |-> IF now > captchas[i] THEN Never ELSE captchas[i]]
    /\ UNCHANGED <<now, phase, needCaptcha, guesses>>

Tick ==
    /\ now < MaxTime
    /\ now' = now + 1
    /\ guesses' = After(guesses, now' - AttemptsWindow)
    /\ UNCHANGED <<attempts, bannedUntil, captchas, phase, needCaptcha>>

LimiterNext ==
    \/ \E r \in Logins :
        \/ \E route \in {"admin", "client"} : Limiter(r, route)
        \/ LoginChecks(r)
        \/ BadParameters(r)
        \/ NoCaptcha(r)
        \/ \E i \in Ids, right \in BOOLEAN : VerifyCaptcha(r, i, right)
        \/ WrongPassword(r)
        \/ RecordWrong(r)
        \/ \E forgets \in BOOLEAN : LoggedIn(r, forgets)
    \/ \E i \in Ids : Captcha(i)
    \/ cleanupExpired
    \/ Tick

LimiterSpec == LimiterInit /\ [][LimiterNext]_limiterVars

-----------------------------------------------------------------------------
\* The ban bounds the wrong passwords that an address can try within one
\* window, when a ban outlasts the window: of the requests that passed the
\* middleware before a ban each may try one more, its failure is not counted,
\* and as many may do so again at the next ban; no pruning, clean-up or end of
\* a ban makes room for others.
GuessesBounded ==
    (BanThreshold > 0 /\ BanDuration >= AttemptsWindow)
        => Cardinality(guesses) <= BanThreshold + 2 * (Cardinality(Logins) - 1)
=============================================================================
