------------------------------- MODULE Settings -------------------------------
(***************************************************************************)
(* Saving settings on the dashboard (app.py).  A setting stands in         *)
(* config.json, some also in .env, from where each process took it into    *)
(* its environment at its start, and the SMTP password in the database.    *)
(* One save changes these places one after the other; any of the writes    *)
(* may fail, and the dashboard may stop between two of them.  The handlers *)
(* are coroutines: they wait once, for the body of their request, and run  *)
(* from there to their answer without another of them in between.          *)
(***************************************************************************)
EXTENDS Naturals, Sequences

CONSTANTS
    Requests,     \* settings requests under way at a time
    Pages,        \* open settings pages
    Addresses,    \* addresses for the notifications
    MaxSaves      \* bound: saves accepted

ASSUME AddressAssumption == 1 \in Addresses

VARIABLES
    config,    \* config.json: each section by the number of the save it is from
    file,      \* .env: SMTP settings and EMAIL_TO
    env,       \* the environment of the dashboard
    sched,     \* the environment of the scheduler and the scripts it starts
    secret,    \* the SMTP password of the database
    form,      \* the contract each page shows in its form
    req,       \* the requests under way
    saves,     \* saves accepted so far
    told,      \* the address of the last answer that it is saved (history)
    asked,     \* config.json as the saves asked for it (history)
    half,      \* settings of which a save stopped half way (history)
    revived,   \* a page saved a contract that was ended meanwhile (history)
    letter,    \* a mail of the thread pool: the server it has read, on the way to the password
    amid       \* it met a save between its password and its server (history)

vars == <<config, file, env, sched, secret, form, req, saves, told, asked, half, revived,
          letter, amid>>
post == <<letter, amid>>

Idle == [kind |-> "none", at |-> "idle", v |-> 0, pw |-> FALSE, seen |-> <<>>]

NoLetter == [at |-> "none", smtp |-> 0]

FirstConfig == [mail |-> 0, plain |-> 0, to |-> 1, contract |-> 0, history |-> <<>>]

Init ==
    /\ config = FirstConfig /\ asked = FirstConfig
    /\ file = [smtp |-> 0, to |-> 1] /\ env = file /\ sched = file
    /\ secret = 0
    /\ form = [p \in Pages |-> 0]
    /\ req = [r \in Requests |-> Idle]
    /\ saves = 0
    /\ told = 1
    /\ half = {} /\ revived = FALSE
    /\ letter = NoLetter /\ amid = FALSE

-----------------------------------------------------------------------------
(* Helpers *)

Kinds == {"plain", "mail", "account", "notify", "user", "update"}

LoopFree == \A r \in Requests : req[r].at \in {"idle", "json"}

This == saves + 1

Done(r) == req' = [req EXCEPT ![r] = Idle]
Step(r, at) == req' = [req EXCEPT ![r].at = at]

\* Mutant: the configuration is loaded before the body of the request.
LoadedEarly(r) == req[r].seen

\* load_config, after the body has come.
Loaded(r) == config

\* save_config: the handler stores all it loaded, with the sections it edits.
Save(edited, wanted) == config' = edited /\ asked' = wanted

Accept == saves < MaxSaves /\ saves' = This

\* The requests whose body has come.
Ready(r, kind) == req[r].kind = kind /\ req[r].at = "json" /\ LoopFree

-----------------------------------------------------------------------------
(* The pages *)

\* dashboard_settings_payload and populateSettingsForm: the form shows the contract
\* as it is, until the page loads again.
LoadPage(p) ==
    /\ form[p] # config.contract
    /\ form' = [form EXCEPT ![p] = config.contract]
    /\ UNCHANGED <<config, file, env, sched, secret, req, saves, told, asked, half, revived, post>>

Arrive(r) ==
    /\ req[r] = Idle
    /\ \E k \in Kinds : req' = [req EXCEPT ![r].kind = k, ![r].at = "json", ![r].seen = config]
    /\ UNCHANGED <<config, file, env, sched, secret, form, saves, told, asked, half, revived, post>>

\* Validation comes before anything is written.
Refuse(r) ==
    /\ req[r].at = "json" /\ LoopFree
    /\ Done(r)
    /\ UNCHANGED <<config, file, env, sched, secret, form, saves, told, asked, half, revived, post>>

-----------------------------------------------------------------------------
(* Saves of config.json only *)

\* The server, the appearance, and the sections of the settings form that have no
\* other place: schedule, push, theme, thresholds.
SavePlain(r) ==
    /\ Ready(r, "plain") /\ Accept
    /\ LET Edited(c) == [c EXCEPT !.plain = This] IN Save(Edited(Loaded(r)), Edited(asked))
    /\ Done(r)
    /\ UNCHANGED <<file, env, sched, secret, form, told, half, revived, post>>

Archived(c) == \E i \in DOMAIN config.history : config.history[i].contract = c

\* The account section posts the contract of the form with it: the one it was
\* loaded with, another one, or none.
SaveAccount(r) ==
    /\ Ready(r, "account") /\ Accept
    /\ \E p \in Pages : \E k \in {form[p], This, 0} :
        /\ LET Edited(c) == [c EXCEPT !.plain = This, !.contract = k] IN Save(Edited(Loaded(r)), Edited(asked))
        /\ form' = [form EXCEPT ![p] = k]
        /\ revived' = (revived \/ (k # 0 /\ Archived(k)))
    /\ Done(r)
    /\ UNCHANGED <<file, env, sched, secret, told, half, post>>

\* Mutant: the contract is archived and stays the current one.
LeftCurrent(c) == c

\* The current contract after its end: no dates.
Cleared(c) == 0

\* end_current_contract has no body to wait for: it runs as it comes.  The page
\* loads the settings again.
EndContract ==
    /\ LoopFree /\ config.contract # 0 /\ Len(config.history) < MaxSaves
    /\ LET Ended(c) == [c EXCEPT !.history = Append(@, [contract |-> c.contract, rev |-> 0]),
                                 !.contract = Cleared(@)]
       IN  Save(Ended(config), Ended(asked))
    /\ \E p \in Pages : form' = [form EXCEPT ![p] = config'.contract]
    /\ UNCHANGED <<file, env, sched, secret, req, saves, told, half, revived, post>>

\* update_archived_contract finds the entry by the key the page shows, in the file
\* as it is now.
UpdateArchived(r) ==
    /\ Ready(r, "update") /\ Accept
    /\ \E i \in DOMAIN Loaded(r).history :
        LET Edited(c) == [c EXCEPT !.history[i].rev = This] IN Save(Edited(Loaded(r)), Edited(asked))
    /\ Done(r)
    /\ UNCHANGED <<file, env, sched, secret, form, told, half, revived, post>>

-----------------------------------------------------------------------------
(* The email section: config.json, the password, .env, the environment *)

SaveMail(r) ==
    /\ Ready(r, "mail") /\ Accept
    /\ LET Edited(c) == [c EXCEPT !.mail = This] IN Save(Edited(Loaded(r)), Edited(asked))
    /\ \E pw \in BOOLEAN :
        req' = [req EXCEPT ![r].v = This, ![r].pw = pw, ![r].at = IF pw THEN "secret" ELSE "env"]
    /\ UNCHANGED <<file, env, sched, secret, form, told, half, revived, post>>

\* The password is in the database and its server not in use yet.
Ahead(r) == req[r].kind = "mail" /\ req[r].pw /\ req[r].at \in {"env", "apply"}

Handover == "mail" \in half \/ \E r \in Requests : Ahead(r)

\* Mutant: .env is left alone when the password went to the database.
StoreSecretOnly(r) ==
    /\ req[r].at = "secret"
    /\ secret' = req[r].v /\ Done(r)
    /\ UNCHANGED <<config, file, env, sched, form, saves, told, asked, half, revived, post>>

\* set_app_secret may raise, before its commit or after it: the rest of the save is
\* left undone.
StoreSecret(r) ==
    /\ req[r].at = "secret"
    /\ \/ /\ secret' = req[r].v
          /\ amid' = (amid \/ letter.at = "server")
          /\ \/ Step(r, "env") /\ UNCHANGED half
             \/ Done(r) /\ half' = half \cup {"mail"}
       \/ Done(r) /\ UNCHANGED <<secret, amid, half>>
    /\ UNCHANGED <<config, file, env, sched, form, saves, told, asked, revived, letter>>

-----------------------------------------------------------------------------
(* The address of the notifications, which two handlers save *)

\* update_notification_email: config.json first.
SaveNotify(r) ==
    /\ Ready(r, "notify") /\ Accept
    /\ \E a \in Addresses :
        /\ LET Edited(c) == [c EXCEPT !.to = a] IN Save(Edited(Loaded(r)), Edited(asked))
        /\ req' = [req EXCEPT ![r].v = a, ![r].at = "env"]
    /\ UNCHANGED <<file, env, sched, secret, form, told, half, revived, post>>

\* update_user_account_settings compares with config.json: with nothing changed
\* there it answers with that address.  Otherwise .env first.
UserUnchanged(r) ==
    /\ Ready(r, "user")
    /\ told' = config.to
    /\ Done(r)
    /\ UNCHANGED <<config, file, env, sched, secret, form, saves, asked, half, revived, post>>

ChangeUser(r) ==
    /\ Ready(r, "user") /\ Accept
    /\ \E a \in Addresses \ {config.to} :
        req' = [req EXCEPT ![r].v = a, ![r].at = "env"]
    /\ UNCHANGED <<config, file, env, sched, secret, form, told, asked, half, revived, post>>

\* Its last step, which may raise.
SaveUser(r) ==
    /\ req[r].at = "config"
    /\ \/ /\ LET Edited(c) == [c EXCEPT !.to = req[r].v] IN Save(Edited(Loaded(r)), Edited(asked))
          /\ told' = req[r].v /\ half' = half \ {"to"}
       \/ half' = half \cup {"to"} /\ UNCHANGED <<config, told, asked>>
    /\ Done(r)
    /\ UNCHANGED <<file, env, sched, secret, form, saves, revived, post>>

-----------------------------------------------------------------------------
(* .env and the environment *)

Put(e, r) ==
    IF req[r].kind = "mail" THEN [e EXCEPT !.smtp = req[r].v] ELSE [e EXCEPT !.to = req[r].v]

\* What is half saved when a request ends before it wrote .env.
Unwritten(r) ==
    CASE req[r].kind = "notify" -> {"to"}
      [] req[r].kind = "mail" /\ req[r].pw -> {"mail"}
      [] OTHER -> {}

WriteEnv(r) ==
    /\ req[r].at = "env"
    /\ \/ file' = Put(file, r) /\ Step(r, "apply") /\ UNCHANGED half
       \/ UNCHANGED file /\ Done(r) /\ half' = half \cup Unwritten(r)
    /\ UNCHANGED <<config, env, sched, secret, form, saves, told, asked, revived, post>>

\* Mutant: the process keeps what it had in its environment.
Kept(r) == env

\* _apply_runtime_env
Applied(r) == Put(env, r)

\* Then the answer, but of the account page, which saves
\* config.json last.
ApplyEnv(r) ==
    /\ req[r].at = "apply"
    /\ env' = Applied(r)
    /\ IF req[r].kind = "user"
       THEN Step(r, "config") /\ UNCHANGED <<half, told>>
       ELSE /\ Done(r)
            /\ half' = half \ {IF req[r].kind = "mail" THEN "mail" ELSE "to"}
            /\ told' = IF req[r].kind = "notify" THEN req[r].v ELSE told
    /\ UNCHANGED <<config, file, sched, secret, form, saves, asked, revived, post>>

-----------------------------------------------------------------------------
(* A mail with a reset link: forgot_password runs in the thread pool, beside the   *)
(* coroutines.  load_mail_settings takes the server from the environment and then  *)
(* the password from the database.  Mails do not meet: one stands for all.         *)

ReadServer ==
    /\ letter.at = "none"
    /\ letter' = [at |-> "server", smtp |-> env.smtp]
    /\ amid' = Handover
    /\ UNCHANGED <<config, file, env, sched, secret, form, req, saves, told, asked, half, revived>>

\* It takes the password as it is now.  Whether the mail is sent or the server refuses,
\* the answer is the same.
ReadPassword ==
    /\ letter.at = "server"
    /\ letter' = NoLetter /\ amid' = FALSE
    /\ UNCHANGED <<config, file, env, sched, secret, form, req, saves, told, asked, half, revived>>

-----------------------------------------------------------------------------
(* Restarts: the environment is read from .env *)

Cut(r) ==
    CASE req[r].at = "env" -> Unwritten(r)
      [] req[r].kind = "user" /\ req[r].at \in {"apply", "config"} -> {"to"}
      [] req[r].kind = "notify" /\ req[r].at = "apply" -> {"to"}
      [] OTHER -> {}

RestartDashboard ==
    /\ env' = file
    /\ req' = [r \in Requests |-> Idle]
    /\ half' = half \cup UNION {Cut(r) : r \in Requests}
    /\ letter' = NoLetter /\ amid' = FALSE
    /\ UNCHANGED <<config, file, sched, secret, form, saves, told, asked, revived>>

RestartScheduler ==
    /\ sched # file /\ sched' = file
    /\ UNCHANGED <<config, file, env, secret, form, req, saves, told, asked, half, revived, post>>

-----------------------------------------------------------------------------
Handle(r) ==
    \/ Arrive(r) \/ Refuse(r)
    \/ SavePlain(r) \/ SaveAccount(r) \/ UpdateArchived(r)
    \/ SaveMail(r) \/ StoreSecret(r)
    \/ SaveNotify(r) \/ UserUnchanged(r) \/ ChangeUser(r) \/ SaveUser(r)
    \/ WriteEnv(r) \/ ApplyEnv(r)

Next ==
    \/ \E r \in Requests : Handle(r)
    \/ \E p \in Pages : LoadPage(p)
    \/ EndContract \/ RestartDashboard \/ RestartScheduler
    \/ ReadServer \/ ReadPassword

Spec == Init /\ [][Next]_vars

-----------------------------------------------------------------------------
(* Properties *)

\* No save undoes another: however the requests overlap, config.json holds in each
\* section what the last save of that section asked for.
NoEditLost == config = asked

\* The address the dashboard last confirmed is the one in config.json, in .env and
\* in use, unless a save of it stopped half way.  After that a save from the account
\* page may confirm an address that is not in use ("No account changes detected").
ToldHolds ==
    LoopFree /\ "to" \notin half => told = config.to /\ told = env.to /\ told = file.to

\* A mail of the dashboard that is to read the password now joins it with an earlier
\* server only if, when it read the server or since, a save of the email section had
\* stored a password and not applied its server yet, or one had stopped there.  In the
\* scheduler the password is ahead until its restart also, as it still has the earlier
\* server in its environment.
PasswordNotAhead ==
    /\ letter.at = "server" /\ secret > letter.smtp => amid
    /\ secret > env.smtp => Handover
    /\ secret > sched.smtp => Handover \/ file.smtp > sched.smtp

\* A contract that was ended is archived once and is not the current one again,
\* except by a save from a page that was loaded before its end.
EndedStaysEnded ==
    \/ revived
    \/ /\ config.contract # 0 => ~Archived(config.contract)
       /\ \A i, j \in DOMAIN config.history :
            config.history[i].contract = config.history[j].contract => i = j
==============================================================================
