----------------------------- MODULE AuthStore -----------------------------
(***************************************************************************)
(* Logging in to the server: one-time codes, refresh tokens and the log of *)
(* attempts in SQLite (src/skytrap/server/auth/store.py), and the requests *)
(* of auth/router.py that use them.  Each request is served by a thread of *)
(* its own; a lock guards the store, but a request calls it several times, *)
(* and two of its methods commit twice.                                    *)
(***************************************************************************)
EXTENDS Integers, Sequences, FiniteSets

CONSTANTS Requests,      \* threads that serve requests
          Nobody,        \* holds the lock when no request does
          CodeTTL,       \* OTP_TTL_MINUTES
          Cooldown,      \* OTP_RESEND_COOLDOWN_SECONDS
          CodeWindow,    \* OTP_WINDOW_MINUTES
          MaxPerWindow,  \* OTP_MAX_PER_WINDOW
          MaxAttempts,   \* OTP_MAX_ATTEMPTS
          TokenTTL,      \* REFRESH_TOKEN_TTL_DAYS
          LoginWindow,   \* LOGIN_RATE_LIMIT_WINDOW_MINUTES
          LoginMax,      \* LOGIN_RATE_LIMIT_MAX_ATTEMPTS
          MaxServed,     \* bound: requests served
          MaxTime        \* bound: the clock

ASSUME AuthAssumption ==
  /\ Nobody \notin Requests
  /\ {CodeTTL, Cooldown, CodeWindow, MaxPerWindow, MaxAttempts, TokenTTL,
      LoginWindow, LoginMax, MaxServed, MaxTime} \subseteq Nat

VARIABLES
  registered,  \* the one user exists
  codes,       \* table otp_codes: created, consumed, tries
  tokens,      \* table refresh_tokens: expires, revoked
  log,         \* table login_attempts, of one address: stage, time
  lock,        \* the request that holds the lock between two commits
  at,          \* where each request is
  arg,         \* the code it checks or consumed, or the token it came with
  now,         \* the clock
  served,      \* requests so far
  origin       \* history: of each token, the code and the token it came from

tables == <<registered, codes, tokens, log>>
authVars == <<tables, lock, at, arg, now, served, origin>>

AuthInit == /\ registered = FALSE
            /\ codes = <<>> /\ tokens = <<>> /\ log = <<>>
            /\ lock = Nobody
            /\ at = [r \in Requests |-> "idle"]
            /\ arg = [r \in Requests |-> 0]
            /\ now = 0
            /\ served = 0
            /\ origin = <<>>

-----------------------------------------------------------------------------
(* The store *)

Free(r) == lock = Nobody

\* Faulty variant of Reenter: the lock is not reentrant.
ReenterPlain(r) == lock = Nobody

Reenter(r) == lock \in {Nobody, r}

\* Faulty variant of RateLimited: one too late.
LimitedLate ==
  Cardinality({k \in DOMAIN log : log[k].time >= now - LoginWindow})
    > LoginMax

RateLimited ==
  Cardinality({k \in DOMAIN log : log[k].time >= now - LoginWindow})
    >= LoginMax

Logged(stage) == log' = Append(log, [stage |-> stage, time |-> now])

IssuanceAllowed ==
  /\ codes # <<>> => now - codes[Len(codes)].created >= Cooldown
  /\ Cardinality({k \in DOMAIN codes : codes[k].created >= now - CodeWindow})
       < MaxPerWindow

\* Only the last code counts.
Usable == /\ codes # <<>>
          /\ LET last == codes[Len(codes)]
             IN  /\ ~last.consumed
                 /\ now <= last.created + CodeTTL
                 /\ last.tries < MaxAttempts

NewToken(code, token) ==
  /\ tokens' = Append(tokens, [expires |-> now + TokenTTL, revoked |-> FALSE])
  /\ origin' = Append(origin, [code |-> code, token |-> token])

-----------------------------------------------------------------------------
(* The requests.  Goto ends a step of request r; "idle" is its response. *)

Goto(r, place, value) == /\ at' = [at EXCEPT ![r] = place]
                         /\ arg' = [arg EXCEPT ![r] = value]

Begin(r, place, value) == /\ at[r] = "idle"
                          /\ served < MaxServed
                          /\ served' = served + 1
                          /\ Goto(r, place, value)
                          /\ UNCHANGED <<tables, lock, now, origin>>

CreateUser == /\ ~registered
              /\ registered' = TRUE
              /\ UNCHANGED <<codes, tokens, log, lock, at, arg, now, served,
                             origin>>

\* There is one account, and every address but its own is unknown.
UserFound == registered

\* login(): the limit, then the password and the log, then the code.
Login(r) == Free(r) /\ ~RateLimited /\ Begin(r, "password", 0)

Password(r) ==
  /\ at[r] = "password"
  /\ Free(r)
  /\ Logged("password")
  /\ \/ UserFound /\ Goto(r, "issue", 0)
     \/ Goto(r, "idle", 0)
  /\ UNCHANGED <<registered, codes, tokens, lock, now, served, origin>>

Resend(r) == UserFound /\ Begin(r, "issue", 0)

\* A code that is not allowed is a 429.
CreateOtp(r) ==
  /\ at[r] = "issue"
  /\ Free(r)
  /\ codes' = IF IssuanceAllowed
              THEN Append(codes, [created |-> now, consumed |-> FALSE,
                                  tries |-> 0])
              ELSE codes
  /\ Goto(r, "idle", 0)
  /\ UNCHANGED <<registered, tokens, log, lock, now, served, origin>>

Verify(r) == Begin(r, IF UserFound THEN "code" ELSE "attempt", 0)

\* verify_otp() counts the attempt, commits, compares and commits again.
VerifyOtp(r) ==
  /\ at[r] = "code"
  /\ Free(r)
  /\ IF Usable
     THEN /\ codes' = [codes EXCEPT ![Len(codes)].tries = @ + 1]
          /\ lock' = r
          /\ Goto(r, "compare", Len(codes))
     ELSE UNCHANGED <<codes, lock>> /\ Goto(r, "attempt", 0)
  /\ UNCHANGED <<registered, tokens, log, now, served, origin>>

Compare(r) ==
  /\ at[r] = "compare"
  /\ \/ UNCHANGED codes /\ Goto(r, "attempt", 0)
     \/ /\ codes' = [codes EXCEPT ![arg[r]].consumed = TRUE]
        /\ Goto(r, "attempt", arg[r])
  /\ lock' = Nobody
  /\ UNCHANGED <<registered, tokens, log, now, served, origin>>

Attempt(r) ==
  /\ at[r] = "attempt"
  /\ Free(r)
  /\ Logged("otp")
  /\ Goto(r, IF arg[r] = 0 THEN "idle" ELSE "session", arg[r])
  /\ UNCHANGED <<registered, codes, tokens, lock, now, served, origin>>

CreateRefreshToken(r) ==
  /\ at[r] = "session"
  /\ Free(r)
  /\ NewToken(arg[r], 0)
  /\ Goto(r, "idle", 0)
  /\ UNCHANGED <<registered, codes, log, lock, now, served>>

\* A client may come with any token it was ever given.
Refresh(r) == \E t \in DOMAIN tokens : Begin(r, "rotate", t)

\* Faulty variant of Rotate: a token is taken whatever became of it.
RotateAny(r) ==
  /\ at[r] = "rotate"
  /\ Free(r)
  /\ tokens' = [tokens EXCEPT ![arg[r]].revoked = TRUE]
  /\ lock' = r
  /\ Goto(r, "replace", arg[r])
  /\ UNCHANGED <<registered, codes, log, now, served, origin>>

\* rotate_refresh_token() commits the revocation before the new token.
Rotate(r) ==
  /\ at[r] = "rotate"
  /\ Free(r)
  /\ IF tokens[arg[r]].revoked \/ now > tokens[arg[r]].expires
     THEN UNCHANGED <<tokens, lock>> /\ Goto(r, "idle", 0)
     ELSE /\ tokens' = [tokens EXCEPT ![arg[r]].revoked = TRUE]
          /\ lock' = r
          /\ Goto(r, "replace", arg[r])
  /\ UNCHANGED <<registered, codes, log, now, served, origin>>

Replace(r) ==
  /\ at[r] = "replace"
  /\ Reenter(r)
  /\ NewToken(origin[arg[r]].code, arg[r])
  /\ lock' = Nobody
  /\ Goto(r, "idle", 0)
  /\ UNCHANGED <<registered, codes, log, now, served>>

Logout(r) == \E t \in DOMAIN tokens : Begin(r, "revoke", t)

Revoke(r) ==
  /\ at[r] = "revoke"
  /\ Free(r)
  /\ tokens' = [tokens EXCEPT ![arg[r]].revoked = TRUE]
  /\ Goto(r, "idle", 0)
  /\ UNCHANGED <<registered, codes, log, lock, now, served, origin>>

Tick == /\ now < MaxTime
        /\ now' = now + 1
        /\ UNCHANGED <<tables, lock, at, arg, served, origin>>

\* The server is killed; what was committed stays.
Crash == /\ \E r \in Requests : at[r] # "idle"
         /\ at' = [r \in Requests |-> "idle"]
         /\ arg' = [r \in Requests |-> 0]
         /\ lock' = Nobody
         /\ UNCHANGED <<tables, now, served, origin>>

-----------------------------------------------------------------------------

Arrive(r) == \/ Login(r) \/ Resend(r) \/ Verify(r)
             \/ Refresh(r) \/ Logout(r)

Serve(r) == \/ Password(r) \/ CreateOtp(r)
            \/ VerifyOtp(r) \/ Compare(r) \/ Attempt(r)
            \/ CreateRefreshToken(r) \/ Rotate(r) \/ Replace(r) \/ Revoke(r)

AuthNext == \/ \E r \in Requests : Arrive(r) \/ Serve(r)
            \/ CreateUser \/ Tick \/ Crash

AuthSpec == AuthInit /\ [][AuthNext]_authVars

-----------------------------------------------------------------------------
(* Properties *)

\* A code opens one session, whoever sends it twice at once, and whatever the
\* server loses in a crash (test_otp_generate_and_verify_once).
CodeOpensOne ==
  \A j, k \in DOMAIN origin :
    origin[j].token = 0 /\ origin[k].token = 0
      /\ origin[j].code = origin[k].code => j = k

\* Of all the tokens that come from one login, one at most is not revoked:
\* concurrent refreshes do not fork a session (rotate_refresh_token).
OneLiveToken ==
  \A j, k \in DOMAIN tokens :
    ~tokens[j].revoked /\ ~tokens[k].revoked
      /\ origin[j].code = origin[k].code => j = k

\* Codes are issued no closer than the cooldown and no more than the limit in
\* any window, however many requests ask at once.
CodesArePaced ==
  \A k \in DOMAIN codes :
    /\ k > 1 => codes[k].created - codes[k - 1].created >= Cooldown
    /\ k > MaxPerWindow =>
         codes[k].created - codes[k - MaxPerWindow].created > CodeWindow

\* The limit and the log are two calls, so requests under way can exceed the
\* limit of passwords tried in a window, but by no more than their number.
PasswordsAreLimited ==
  \A k \in DOMAIN log :
    Cardinality({j \in 1..k : /\ log[j].stage = "password"
                              /\ log[j].time >= log[k].time - LoginWindow})
      < LoginMax + Cardinality(Requests)

\* What a user proved once opens one session: neither a code sent twice nor
\* a token refreshed twice at the same time makes two of it, and no crash
\* between the two commits of either does.
OpensOnce == CodeOpensOne /\ OneLiveToken

\* Nobody can have codes sent, or try passwords, faster than the limits say,
\* by asking from several threads at once.  (store.py, login of router.py)
GuessesArePaced == CodesArePaced /\ PasswordsAreLimited

\* Every request is answered, also those that take the lock twice.
EveryRequestIsAnswered ==
  \A r \in Requests : at[r] # "idle" ~> at[r] = "idle"

=============================================================================
