-------------------------------- MODULE Auth --------------------------------
(***************************************************************************)
(* Logging in to the API: the sessions, the limit on their number and the  *)
(* limit on attempts of routes/auth.py, and the middleware of main.py that *)
(* asks it.  No handler awaits anything, so a call is one step; what can   *)
(* go wrong takes many of them, and time.                                  *)
(*                                                                         *)
(* Browsers, their cookies and the proxy in front of them are external.    *)
(* Times are ages, counted up to where they make no difference any more;   *)
(* the two clocks of the code run at the same pace.                        *)
(* A definition X_Y before X is X with the plausible defect Y.  Names that *)
(* module Bridge has too begin with Auth: ApiProofs extends both.          *)
(***************************************************************************)
EXTENDS Naturals, Sequences, FiniteSets

CONSTANTS
  Browsers,
  Addresses,
  From,         \* the address each browser is seen to come from
  Named,        \* browsers whose requests carry AUTH_PROXY_HEADER
  Trusted,      \* the addresses of TRUSTED_PROXY_IPS
  Keyed,        \* browsers that know the API key
  Tokens,       \* what secrets.token_urlsafe() may return
  Absent,
  MaxSessions,  \* MAX_SESSIONS
  MaxAge,       \* SESSION_MAX_AGE
  Window,       \* LOGIN_WINDOW_SECONDS
  MaxAttempts,  \* LOGIN_MAX_ATTEMPTS
  MaxRestarts   \* bound on API restarts within a window

ASSUME AuthAssumption ==
  /\ From \in [Browsers -> Addresses] /\ Named \cup Keyed \subseteq Browsers
  /\ Trusted \subseteq Addresses
  /\ Absent \notin Tokens \cup Nat
  /\ IsFiniteSet(Browsers) /\ IsFiniteSet(Tokens)
  /\ Cardinality(Tokens) > MaxSessions + Cardinality(Browsers)  \* there is always a new one
  /\ {MaxSessions, MaxAge, Window, MaxAttempts} \subseteq Nat \ {0}
  /\ MaxRestarts \in Nat

VARIABLES
  required,  \* login_required: ADMIN_USER is set
  key,       \* api_auth_required: API_KEY is set
  sessions,  \* _sessions: how old the session of each token is, Absent if none
  attempts,  \* _login_attempts: how long ago each attempt was
  cookie,    \* the token in each browser's cookie
  reply,     \* what the last call was answered
  tries,     \* of each address, when the passwords of the last window were compared
  restarts   \* when the API was started again within the last window

authVars == <<required, key, sessions, attempts, cookie, reply, tries, restarts>>
config == <<required, key, restarts>>

AuthInit ==
  /\ required \in BOOLEAN /\ key \in BOOLEAN
  /\ sessions = [t \in Tokens |-> Absent]
  /\ attempts = [a \in Addresses |-> <<>>]
  /\ cookie = [b \in Browsers |-> Absent]
  /\ reply = "none"
  /\ tries = [a \in Addresses |-> <<>>]
  /\ restarts = <<>>

-----------------------------------------------------------------------------
Stored(store) == {t \in Tokens : store[t] # Absent}

\* A session is good as long as its time has not come.
Live == {t \in Stored(sessions) : sessions[t] < MaxAge}

Swept_Late ==
  [t \in Tokens |-> IF sessions[t] # Absent /\ sessions[t] <= MaxAge THEN sessions[t] ELSE Absent]

\* The store without the sessions whose time has come.
Swept == [t \in Tokens |-> IF t \in Live THEN sessions[t] ELSE Absent]

\* A token nobody has had: secrets.token_urlsafe(32).
NewToken == CHOOSE t \in Tokens : sessions[t] = Absent /\ \A b \in Browsers : cookie[b] # t

\* What is left of a list of times: the latest come last, so that those
\* within the window are a suffix.
Recent(ages) ==
  LET first == CHOOSE k \in 1..Len(ages) + 1 :
                 /\ \A i \in 1..k - 1 : ages[i] >= Window
                 /\ k <= Len(ages) => ages[k] < Window
  IN  SubSeq(ages, first, Len(ages))

\* _check_rate_limit(): the attempts within the window.
Pruned(a) == Recent(attempts[a])

Limited(a) == Len(Pruned(a)) >= MaxAttempts

-----------------------------------------------------------------------------
\* POST /auth/login without a login to ask for.
Anonymous(b) ==
  /\ ~required
  /\ reply' = "anonymous"
  /\ UNCHANGED <<config, sessions, attempts, cookie, tries>>

TooMany_Restamps(b) ==
  /\ required /\ Limited(From[b])
  /\ attempts' = [attempts EXCEPT ![From[b]] = [i \in 1..Len(Pruned(From[b])) |-> 0]]
  /\ reply' = "limited"
  /\ UNCHANGED <<config, sessions, cookie, tries>>

\* Too many attempts: this one is not counted.
TooMany(b) ==
  /\ required /\ Limited(From[b])
  /\ attempts' = [attempts EXCEPT ![From[b]] = Pruned(From[b])]
  /\ reply' = "limited"
  /\ UNCHANGED <<config, sessions, cookie, tries>>

Counted_Once(b) ==
  /\ required /\ ~Limited(From[b])
  /\ attempts' = [attempts EXCEPT ![From[b]] =
       IF Pruned(From[b]) # <<>> /\ Pruned(From[b])[Len(Pruned(From[b]))] = 0
       THEN Pruned(From[b]) ELSE Append(Pruned(From[b]), 0)]
  /\ tries' = [tries EXCEPT ![From[b]] = Append(@, 0)]

\* An attempt is counted before the password is looked at.
Counted(b) ==
  /\ required /\ ~Limited(From[b])
  /\ attempts' = [attempts EXCEPT ![From[b]] = Append(Pruned(From[b]), 0)]
  /\ tries' = [tries EXCEPT ![From[b]] = Append(@, 0)]

WrongPassword(b) ==
  /\ Counted(b)
  /\ reply' = "wrong"
  /\ UNCHANGED <<config, sessions, cookie>>

\* The password is right: the store is swept, and there is no room.
TooManySessions(b) ==
  /\ Counted(b)
  /\ Cardinality(Stored(Swept)) >= MaxSessions
  /\ sessions' = Swept
  /\ reply' = "full"
  /\ UNCHANGED <<config, cookie>>

\* Or there is.  A session the browser had before is not ended by it.
LoggedIn(b) ==
  /\ Counted(b)
  /\ Cardinality(Stored(Swept)) < MaxSessions
  /\ sessions' = [Swept EXCEPT ![NewToken] = 0]
  /\ cookie' = [cookie EXCEPT ![b] = NewToken]
  /\ reply' = "in"
  /\ UNCHANGED config

\* POST /auth/logout.
Logout(b) ==
  /\ sessions' = [t \in Tokens |-> IF t = cookie[b] THEN Absent ELSE sessions[t]]
  /\ cookie' = [cookie EXCEPT ![b] = Absent]
  /\ reply' = "out"
  /\ UNCHANGED <<config, attempts, tries>>

\* _check_proxy_header(): the header is ignored from a source that is not
\* trusted, and from every source when none is.
ProxyUser(b) == b \in Named /\ From[b] \in Trusted

\* What a request may carry as X-API-Key.
Keys(b) == {"none", "wrong"} \cup (IF b \in Keyed THEN {"right"} ELSE {})

HasKey(sent) == key /\ sent = "right"

\* check_auth() before it looks at a session.
Identified(b, sent) == ~required \/ ProxyUser(b) \/ HasKey(sent)

\* check_auth(): the session is the last thing that is looked at, and it is
\* removed when its time has come.
CheckAuth(b, sent) ==
  \/ /\ Identified(b, sent) \/ cookie[b] \in Live
     /\ reply' = "user" /\ UNCHANGED sessions
  \/ /\ ~Identified(b, sent) /\ cookie[b] \notin Live
     /\ sessions' = [t \in Tokens |-> IF t = cookie[b] THEN Absent ELSE sessions[t]]
     /\ reply' = "unauthorised"

\* GET /auth/me.
Me(b) ==
  /\ \E sent \in Keys(b) : CheckAuth(b, sent)
  /\ UNCHANGED <<config, attempts, cookie, tries>>

\* auth_middleware(), for every other call of the API: the key is enough; who
\* sends none is refused when there is no login to ask for, and who sends a
\* wrong one then is not.
Call(b) ==
  /\ \E sent \in Keys(b) :
       \/ /\ HasKey(sent)
          /\ reply' = "passed" /\ UNCHANGED sessions
       \/ /\ ~HasKey(sent) /\ required
          /\ CheckAuth(b, sent)
       \/ /\ ~HasKey(sent) /\ ~required
          /\ reply' = IF key /\ sent = "none" THEN "unauthorised" ELSE "passed"
          /\ UNCHANGED sessions
  /\ UNCHANGED <<config, attempts, cookie, tries>>

-----------------------------------------------------------------------------
\* A browser drops its cookie.
Forget(b) ==
  /\ cookie[b] # Absent
  /\ cookie' = [cookie EXCEPT ![b] = Absent]
  /\ reply' = "none"
  /\ UNCHANGED <<config, sessions, attempts, tries>>

\* The API is started again: its lists were in memory.  The passwords compared
\* before stay compared.
Restart ==
  /\ Len(restarts) < MaxRestarts
  /\ required' \in BOOLEAN /\ key' \in BOOLEAN
  /\ sessions' = [t \in Tokens |-> Absent]
  /\ attempts' = [a \in Addresses |-> <<>>]
  /\ reply' = "none"
  /\ restarts' = Append(restarts, 0)
  /\ UNCHANGED <<cookie, tries>>

Older(age, bound) == IF age < bound THEN age + 1 ELSE bound

Aged(ages) == [i \in DOMAIN ages |-> Older(ages[i], Window)]

Tick ==
  /\ sessions' = [t \in Tokens |-> IF sessions[t] = Absent THEN Absent ELSE Older(sessions[t], MaxAge)]
  /\ attempts' = [a \in Addresses |-> Aged(attempts[a])]
  /\ tries' = [a \in Addresses |-> Recent(Aged(tries[a]))]
  /\ restarts' = Recent(Aged(restarts))
  /\ reply' = "none"
  /\ UNCHANGED <<required, key, cookie>>

AuthNext ==
  \/ \E b \in Browsers :
       \/ Anonymous(b) \/ TooMany(b) \/ WrongPassword(b) \/ TooManySessions(b) \/ LoggedIn(b)
       \/ Logout(b) \/ Me(b) \/ Call(b) \/ Forget(b)
  \/ Restart \/ Tick

AuthSpec == AuthInit /\ [][AuthNext]_authVars

AuthFairSpec == AuthSpec /\ WF_authVars(Tick)  \* time passes

-----------------------------------------------------------------------------
AuthTypeOK ==
  /\ required \in BOOLEAN /\ key \in BOOLEAN
  /\ sessions \in [Tokens -> 0..MaxAge \cup {Absent}]
  /\ attempts \in [Addresses -> Seq(0..Window)]
  /\ cookie \in [Browsers -> Tokens \cup {Absent}]
  /\ reply \in {"none", "anonymous", "limited", "wrong", "full", "in", "out", "user",
                "passed", "unauthorised"}
  /\ tries \in [Addresses -> Seq(0..Window)]
  /\ restarts \in Seq(0..Window)

\* In no window of time are more than MaxAttempts passwords of one address
\* compared, wherever the window begins and whatever becomes of the attempts,
\* and MaxAttempts more for each time the API has been started again in it:
\* the list of attempts is in memory, the guesses made are not undone by a
\* restart (auth.py:28, 131-157).
GuessesLimited ==
  \A a \in Addresses : Len(tries[a]) <= MaxAttempts * (Len(restarts) + 1)

\* An address that is locked out gets another try after a while, even if it
\* never stops trying: knocking does not prolong it (auth.py:149-157).
LockoutEnds == \A a \in Addresses : Limited(a) ~> ~Limited(a)

\* The right password is turned away for the number of sessions only when
\* that many can still be used: sessions nobody uses any more, whose browser
\* has logged in again or is gone, stand in nobody's way once their time has
\* come, and there is no age at which a session is neither good nor swept
\* (auth.py:102, 163-168).
RefusedOnlyWhenFull == reply = "full" => Cardinality(Live) >= MaxSessions
=============================================================================
