------------------------------- MODULE Sessions -------------------------------
(***************************************************************************)
(* Signing in to the dashboard (routes/auth.py, app.py) over the store of  *)
(* login state (state_store.py).  The credentials stand in .env and, as    *)
(* the process uses them, in its environment; a change writes the file,    *)
(* then the environment, then raises the session version, which refuses    *)
(* every session issued before.  The handlers of the pages run in a thread *)
(* pool, those of the settings one after the other on the event loop: the  *)
(* steps of any two interleave, any of them may fail, the process may stop *)
(* between them.                                                           *)
(***************************************************************************)
EXTENDS Naturals, FiniteSets

CONSTANTS
    Workers,      \* requests handled at a time
    MaxTries,     \* LOGIN_MAX_ATTEMPTS: failures of one address until it is blocked
    MaxPending,   \* max_pending: reset links pending at a time
    MaxChanges,   \* bound: credentials ever set
    MaxLinks      \* bound: reset links ever made

ASSUME CountsAssumption ==
    /\ MaxTries \in Nat \ {0} /\ MaxPending \in Nat
    /\ MaxChanges \in Nat \ {0} /\ MaxLinks \in Nat

VARIABLES
    file,     \* the login email and the password in .env; 0 is none
    env,      \* the same in os.environ, which the handlers read
    version,  \* SESSION_VERSION
    store,    \* the database: session version, login state of an address, links
    cookie,   \* the session of one browser, any of those ever issued
    newest,   \* the newest version a session was issued with; 0 before the first
    req,      \* the requests under way
    made,     \* credentials and links made so far
    slipped,  \* a change since the last rotation was not announced (history)
    apart,    \* changes of file and environment crossed (history)
    uses      \* password changes made with each link (history)

vars == <<file, env, version, store, cookie, newest, req, made,
          slipped, apart, uses>>

history == <<slipped, apart, uses>>

NoChange == [email |-> 0, pw |-> 0]
NoCookie == [cred |-> NoChange, sv |-> 0, late |-> FALSE]

\* cred: what a sign-in verified; set: what a change sets, 0 for what it leaves.
Idle == [kind |-> "none", at |-> "idle", cred |-> NoChange, set |-> NoChange,
         link |-> 0, note |-> FALSE]

\* The dashboard as first started: nobody registered, or an account as it was.
Init ==
    /\ file \in {NoChange, [email |-> 1, pw |-> 1]}
    /\ env = file
    /\ version = 1
    /\ store = [version |-> 1, tries |-> 0, block |-> "none", links |-> {}]
    /\ cookie = NoCookie /\ newest = 0
    /\ req = [w \in Workers |-> Idle]
    /\ made = [creds |-> 1, links |-> 0]
    /\ slipped = FALSE /\ apart = FALSE
    /\ uses = [l \in 1 .. MaxLinks |-> 0]

-----------------------------------------------------------------------------
(* Helpers *)

At(w, kind, at) == req[w].kind = kind /\ req[w].at = at
Step(w, at) == req' = [req EXCEPT ![w].at = at]
Done(w) == req' = [req EXCEPT ![w] = Idle]

\* _is_setup_mode
SetupMode == env.pw = 0

\* update_env_file and _apply_runtime_env change the keys they are given.
Merged(old, set) ==
    [email |-> IF set.email = 0 THEN old.email ELSE set.email,
     pw    |-> IF set.pw = 0 THEN old.pw ELSE set.pw]

Overlap(s, t) == (s.email # 0 /\ t.email # 0) \/ (s.pw # 0 /\ t.pw # 0)

\* current_session and require_session
Accepted(c) == c.sv # 0 /\ c.sv >= version

\* The handlers of the settings run on the event loop: between
\* their one await and their answer no other of them runs.
OnLoop(k) == k \in {"password", "account", "email"}

LoopFree == \A v \in Workers : OnLoop(req[v].kind) => req[v].at = "json"

\* A change that the handlers make known to the sessions only later.
Unannounced == \E v \in Workers : req[v].at \in {"save", "bump"}

Fresh == made.creds + 1

-----------------------------------------------------------------------------
(* POST /login *)

\* blocked_seconds: a block that is over is cleared.  In its last second it counts
\* as zero seconds, which is not blocked.
CheckBlock ==
    store' = [store EXCEPT !.block = IF @ = "past" THEN "none" ELSE @]

Blocked == store.block = "on"

LoginArrives(w) ==
    /\ req[w] = Idle /\ ~SetupMode
    /\ CheckBlock
    /\ ~Blocked /\ req' = [req EXCEPT ![w].kind = "login", ![w].at = "verify"]
    /\ UNCHANGED <<file, env, version, cookie, newest, made, history>>

\* verify_login_credentials reads the environment: the sign-in is one with the
\* credentials of this moment, or with others.
VerifyLogin(w) ==
    /\ At(w, "login", "verify")
    /\ \/ req' = [req EXCEPT ![w].at = "clear", ![w].cred = env]
       \/ Step(w, "count")
    /\ UNCHANGED <<file, env, version, store, cookie, newest, made, history>>

WithFailure(s) ==
    IF s.tries + 1 >= MaxTries THEN [s EXCEPT !.tries = 0, !.block = "on"]
    ELSE [s EXCEPT !.tries = @ + 1, !.block = "none"]

\* Mutant: a failure that comes in during a block is counted from zero again.
CountedAnew == store' = WithFailure(store)

\* register_failed_login
Counted ==
    store' = IF store.block \in {"on", "last"} THEN store ELSE WithFailure(store)

CountFailure(w) ==
    /\ At(w, "login", "count")
    /\ Counted /\ Done(w)
    /\ UNCHANGED <<file, env, version, cookie, newest, made, history>>

\* clear_login_failures
ClearFailures(w) ==
    /\ At(w, "login", "clear")
    /\ store' = [store EXCEPT !.tries = 0, !.block = "none"]
    /\ Step(w, "issue")
    /\ UNCHANGED <<file, env, version, cookie, newest, made, history>>

\* issue_session_cookie takes the version of this moment.  late: of credentials
\* that were replaced since they were verified, and after their last rotation.
IssueCookie(w) ==
    /\ req[w].at = "issue"
    /\ \/ cookie' = [cred |-> req[w].cred, sv |-> version,
                     late |-> req[w].cred # env /\ ~Unannounced]
       \/ UNCHANGED cookie
    /\ newest' = IF version > newest THEN version ELSE newest
    /\ Done(w)
    /\ UNCHANGED <<file, env, version, store, made, history>>

\* The cookie expires, or the browser signs out.
Logout ==
    /\ cookie # NoCookie /\ cookie' = NoCookie
    /\ UNCHANGED <<file, env, version, store, newest, req, made, history>>

\* Time: the oldest failure leaves the window; a block comes to its last second
\* and to its end.
TimePasses ==
    /\ store' = [store EXCEPT !.tries = IF @ > 0 THEN @ - 1 ELSE 0,
                              !.block = CASE @ = "on" -> "last"
                                          [] @ \in {"last", "past"} -> "past"
                                          [] OTHER -> "none"]
    /\ store' # store
    /\ UNCHANGED <<file, env, version, cookie, newest, req, made, history>>

-----------------------------------------------------------------------------
(* POST /register, /forgot-password and /reset-password *)

RegisterArrives(w) ==
    /\ req[w] = Idle /\ SetupMode /\ made.creds < MaxChanges
    /\ LET c == [email |-> Fresh, pw |-> Fresh]
       IN  req' = [req EXCEPT ![w].kind = "register", ![w].at = "write",
                              ![w].set = c, ![w].cred = c]
    /\ made' = [made EXCEPT !.creds = Fresh]
    /\ UNCHANGED <<file, env, version, store, cookie, newest, history>>

ForgotArrives(w) ==
    /\ req[w] = Idle /\ ~SetupMode
    /\ CheckBlock
    /\ ~Blocked /\ req' = [req EXCEPT ![w].kind = "forgot", ![w].at = "ask"]
    /\ UNCHANGED <<file, env, version, cookie, newest, made, history>>

\* Another address than that of the account counts as a failed sign-in.
ForgotMistaken(w) ==
    /\ At(w, "forgot", "ask")
    /\ Counted /\ Done(w)
    /\ UNCHANGED <<file, env, version, cookie, newest, made, history>>

\* store_reset_token: refused while too many links are pending.  The page says that
\* the mail was sent either way, and the mail may fail: then nobody has the link.
StoreLink(w) ==
    /\ At(w, "forgot", "ask") /\ made.links < MaxLinks
    /\ IF Cardinality(store.links) >= MaxPending
       THEN UNCHANGED <<store, made>>
       ELSE /\ made' = [made EXCEPT !.links = @ + 1]
            /\ store' = [store EXCEPT !.links = @ \cup {made.links + 1}]
    /\ Done(w)
    /\ UNCHANGED <<file, env, version, cookie, newest, history>>

\* A link runs out after 15 minutes: the next transaction on the links deletes it.
LinkExpires ==
    /\ \E l \in store.links : store' = [store EXCEPT !.links = @ \ {l}]
    /\ UNCHANGED <<file, env, version, cookie, newest, req, made, history>>

\* Mutant: the link is looked up and stays.
LinkKept(l) == store

\* consume_reset_token
Spent(l) == [store EXCEPT !.links = @ \ {l}]

\* An invalid link ends the request; a valid one is spent before anything is saved.
ResetArrives(w) ==
    /\ req[w] = Idle /\ ~SetupMode /\ made.creds < MaxChanges
    /\ \E l \in store.links :
        /\ store' = Spent(l)
        /\ req' = [req EXCEPT ![w] = [Idle EXCEPT !.kind = "reset", !.at = "write",
                                     !.link = l, !.set = [email |-> 0, pw |-> Fresh]]]
    /\ made' = [made EXCEPT !.creds = Fresh]
    /\ UNCHANGED <<file, env, version, cookie, newest, history>>

-----------------------------------------------------------------------------
(* The settings: password, account, login email *)

\* require_session looks at the session before the body of the request is read.
SettingsArrive(w) ==
    /\ req[w] = Idle
    /\ newest >= version /\ newest > 0
    /\ \E k \in {"password", "account", "email"} :
        req' = [req EXCEPT ![w].kind = k, ![w].at = "json"]
    /\ UNCHANGED <<file, env, version, store, cookie, newest, made, history>>

\* The current password is wrong, or what was entered is refused.
SettingsRefused(w) ==
    /\ req[w].kind \in {"password", "account", "email"} /\ req[w].at = "json"
    /\ LoopFree /\ Done(w)
    /\ UNCHANGED <<file, env, version, store, cookie, newest, made, history>>

\* What each handler sets.  note: the account page also changes the notification
\* email, which is saved in config.json (changing that alone is no step here).
NewEmail == [email |-> Fresh, pw |-> 0]
NewPassword == [email |-> 0, pw |-> Fresh]

Requested(kind) ==
    CASE kind = "password" -> {NewPassword}
      [] kind = "email"    -> {NewEmail}
      [] kind = "account"  -> {NewPassword, NewEmail, [email |-> Fresh, pw |-> Fresh]}
      [] OTHER             -> {}

SettingsAccepted(w) ==
    /\ req[w].at = "json" /\ LoopFree /\ made.creds < MaxChanges
    /\ \E s \in Requested(req[w].kind), n \in BOOLEAN :
        /\ n => req[w].kind = "account"
        /\ req' = [req EXCEPT ![w].at = "write", ![w].set = s, ![w].note = n]
    /\ made' = [made EXCEPT !.creds = Fresh]
    /\ UNCHANGED <<file, env, version, store, cookie, newest, history>>

-----------------------------------------------------------------------------
(* The steps of every change *)

\* _update_env_file: one at a time, under ENV_LOCK, which is free again before the
\* environment is changed.
WriteEnvFile(w) ==
    /\ req[w].at = "write"
    /\ file' = Merged(file, req[w].set)
    /\ apart' = (apart \/ \E v \in Workers \ {w} :
                             req[v].at = "apply" /\ Overlap(req[v].set, req[w].set))
    /\ Step(w, "apply")
    /\ UNCHANGED <<env, version, store, cookie, newest, made, slipped, uses>>

\* Mutant: a failed write is logged and the handler goes on.
WriteFailsLogged(w) ==
    /\ req[w].at = "write" /\ Step(w, "apply")
    /\ UNCHANGED <<file, env, version, store, cookie, newest, made, history>>

\* The write raises OSError: the handler answers that nothing was saved.  A reset link
\* is spent all the same.
WriteFails(w) ==
    /\ req[w].at = "write" /\ Done(w)
    /\ UNCHANGED <<file, env, version, store, cookie, newest, made, history>>

\* Mutant: the account page signs others out only when the password changed.
AfterPassword(r) ==
    CASE r.kind = "register" -> "issue"
      [] r.kind = "account" /\ r.note -> "save"
      [] r.kind = "account" /\ ~r.note /\ r.set.pw = 0 -> "idle"
      [] OTHER -> "bump"

AfterApply(r) ==
    CASE r.kind = "register" -> "issue"
      [] r.kind = "account" /\ r.note -> "save"
      [] OTHER -> "bump"

\* _apply_runtime_env.  Of two registrations that both found no account the second
\* replaces the first and rotates nothing.
ApplyRuntimeEnv(w) ==
    /\ req[w].at = "apply"
    /\ env' = Merged(env, req[w].set)
    /\ slipped' = (slipped \/ (req[w].kind = "register" /\ ~SetupMode))
    /\ uses' = IF req[w].link # 0 THEN [uses EXCEPT ![req[w].link] = @ + 1] ELSE uses
    /\ Step(w, AfterApply(req[w]))
    /\ UNCHANGED <<file, version, store, cookie, newest, made, apart>>

\* The account handler saves config.json between the change and the rotation; when
\* that raises, the handler is over.
SaveConfig(w) ==
    /\ req[w].at = "save"
    /\ \/ Step(w, "bump") /\ UNCHANGED slipped
       \/ Done(w) /\ slipped' = TRUE
    /\ UNCHANGED <<file, env, version, store, cookie, newest, made, apart, uses>>

\* _rotate_session_version over bump_session_version: the store counts on, and the
\* process takes the number over under SESSION_VERSION_LOCK.
Rotate(w) ==
    /\ req[w].at = "bump"
    /\ store' = [store EXCEPT !.version = @ + 1]
    /\ version' = store.version + 1
    /\ slipped' = FALSE
    /\ Done(w)
    /\ UNCHANGED <<file, env, cookie, newest, made, apart, uses>>

\* The database fails.
RotateRaises(w) ==
    /\ req[w].at = "bump"
    /\ slipped' = TRUE
    /\ Done(w)
    /\ UNCHANGED <<file, env, version, store, cookie, newest, made, apart, uses>>

-----------------------------------------------------------------------------
(* Restart *)

\* Mutant: the version counts from one again in each process.
VersionForgotten == 1

\* lifespan: get_session_version
VersionAtStart == store.version

\* The process stops and starts: it reads .env and the store.
Restart ==
    /\ req' = [w \in Workers |-> Idle]
    /\ env' = file
    /\ version' = VersionAtStart
    /\ slipped' = (slipped \/ file # env \/ Unannounced)
    /\ apart' = FALSE
    /\ UNCHANGED <<file, store, cookie, newest, made, uses>>

-----------------------------------------------------------------------------
SignIn(w) ==
    LoginArrives(w) \/ VerifyLogin(w) \/ CountFailure(w) \/ ClearFailures(w) \/ IssueCookie(w)

Account(w) ==
    \/ RegisterArrives(w) \/ ForgotArrives(w) \/ ForgotMistaken(w) \/ StoreLink(w)
    \/ ResetArrives(w) \/ SettingsArrive(w) \/ SettingsRefused(w) \/ SettingsAccepted(w)

Change(w) ==
    \/ WriteEnvFile(w) \/ WriteFails(w) \/ ApplyRuntimeEnv(w) \/ SaveConfig(w)
    \/ Rotate(w) \/ RotateRaises(w)

Next ==
    \/ \E w \in Workers : SignIn(w) \/ Account(w) \/ Change(w)
    \/ Logout \/ TimePasses \/ LinkExpires \/ Restart

Spec == Init /\ [][Next]_vars

-----------------------------------------------------------------------------
(* Properties *)

Creds == [email : 0 .. MaxChanges, pw : 0 .. MaxChanges]
Stores == [version : Nat, tries : 0 .. MaxTries - 1, block : {"none", "on", "last", "past"},
           links : SUBSET (1 .. MaxLinks)]
Places == {"idle", "verify", "count", "clear", "issue", "ask", "json",
           "write", "apply", "save", "bump"}
Kinds == {"none", "login", "register", "forgot", "reset", "password", "account", "email"}
Requests == [kind : Kinds, at : Places, cred : Creds, set : Creds,
             link : 0 .. MaxLinks, note : BOOLEAN]

\* Type invariant.
TypeOK ==
    /\ file \in Creds /\ env \in Creds
    /\ version \in Nat /\ newest \in Nat
    /\ store \in Stores
    /\ cookie \in [cred : Creds, sv : Nat, late : BOOLEAN]
    /\ req \in [Workers -> Requests]
    /\ made \in [creds : Nat, links : 0 .. MaxLinks]
    /\ slipped \in BOOLEAN /\ apart \in BOOLEAN
    /\ uses \in [1 .. MaxLinks -> Nat]

\* A session is of the credentials in force ("all existing sessions invalidated",
\* app.py), except while a change is about to announce itself, and but for what the
\* code lets slip until the next rotation: a sign-in that verified before a change
\* and got its cookie after it, a second registration, a save or a rotation that
\* raised, a process that stopped between the change and the rotation.
OldSessionsEnd ==
    Accepted(cookie) /\ cookie.cred # env =>
        cookie.late \/ Unannounced \/ slipped

\* .env and the environment of the process hold the same credentials while no change
\* is between the two: after a restart people sign in as before it.  Two changes of
\* the same key that cross break this.
FileMatchesEnvironment ==
    (\A w \in Workers : req[w].at # "apply") /\ ~apart => file = env

\* One reset link changes the password at most once, however requests, failures and
\* restarts interleave.
LinkChangesOnce ==
    \A l \in 1 .. MaxLinks : uses[l] <= 1

\* What was refused stays refused: no rotation, restart or failure brings the session
\* of an earlier version back.
RefusedForGood ==
    [][~Accepted(cookie) /\ cookie' = cookie => ~Accepted(cookie)']_vars

\* A block ends by its time, by a sign-in that was let through before it began and
\* succeeds; no failure that comes late cuts it short.
BlockHolds ==
    [][store.block = "on" =>
         \/ store'.block \in {"on", "last"}
         \/ \E w \in Workers : req[w].at = "clear" /\ req'[w].at = "issue"]_vars

==============================================================================
