---------------------------- MODULE SettingsProofs ----------------------------
(***************************************************************************)
(* The properties of Settings for any number of requests, pages, addresses *)
(* and saves.  All of them rest on one request at a time being beyond its  *)
(* body (OneAtWork); what that one has written and what it has yet to      *)
(* write makes the difference between the places of a setting.             *)
(***************************************************************************)
EXTENDS Settings, SequenceTheorems, TLAPS

Entries == [contract : Nat, rev : Nat]
Configs == [mail : Nat, plain : Nat, to : Addresses, contract : Nat, history : Seq(Entries)]
Envs == [smtp : Nat, to : Addresses]
Letters == [at : {"none", "server"}, smtp : Nat]
Places == {"idle", "json", "secret", "env", "apply", "config"}
RequestType == [kind : Kinds \cup {"none"}, at : Places, v : Nat \cup Addresses, pw : BOOLEAN,
                seen : Configs \cup {<<>>}]

\* Beyond its body, at one of the writes.
Working(r) == req[r].at \in {"secret", "env", "apply", "config"}

OneAtWork == \A r, s \in Requests : Working(r) /\ Working(s) => r = s

\* What a request at work is about.
WorkOf(r) ==
    \/ req[r].kind = "mail" /\ req[r].at \in {"secret", "env", "apply"} /\ req[r].v \in Nat
    \/ req[r].kind = "notify" /\ req[r].at \in {"env", "apply"} /\ req[r].v \in Addresses
    \/ req[r].kind = "user" /\ req[r].at \in {"env", "apply", "config"} /\ req[r].v \in Addresses

SettingsTypeOK ==
    /\ config \in Configs /\ asked \in Configs
    /\ file \in Envs /\ env \in Envs /\ sched \in Envs
    /\ secret \in Nat /\ saves \in Nat
    /\ form \in [Pages -> Nat]
    /\ req \in [Requests -> RequestType]
    /\ told \in Addresses
    /\ revived \in BOOLEAN /\ amid \in BOOLEAN
    /\ letter \in Letters
    /\ OneAtWork
    /\ \A r \in Requests : Working(r) => WorkOf(r)

USE AddressAssumption DEF post

-----------------------------------------------------------------------------
(* How the requests move *)

\* One request moves; the others stay and are not at work when it takes up work.
LEMMA MoveType ==
    ASSUME SettingsTypeOK, NEW r \in Requests, NEW new \in RequestType,
           req' = [req EXCEPT ![r] = new],
           Working(r)' => WorkOf(r)' /\ (LoopFree \/ Working(r))
    PROVE  /\ req' \in [Requests -> RequestType] /\ OneAtWork'
           /\ \A s \in Requests : Working(s)' => WorkOf(s)'
<1>1. req \in [Requests -> RequestType] /\ OneAtWork /\ \A s \in Requests : Working(s) => WorkOf(s)
  BY DEF SettingsTypeOK
<1>2. \A s \in Requests \ {r} : req'[s] = req[s]
  BY <1>1
<1>3. LoopFree => \A s \in Requests : ~Working(s)
  BY DEF LoopFree, Working
<1>4. OneAtWork'
  BY <1>1, <1>2, <1>3 DEF OneAtWork, Working
<1>. QED
  BY <1>1, <1>2, <1>4 DEF WorkOf, Working

LEMMA IdleType == Idle \in RequestType /\ Idle.at = "idle"
BY DEF Idle, RequestType, Places

LEMMA DoneType ==
    ASSUME SettingsTypeOK, NEW r \in Requests, Done(r)
    PROVE  /\ req' \in [Requests -> RequestType] /\ OneAtWork'
           /\ \A s \in Requests : Working(s)' => WorkOf(s)'
           /\ req'[r] = Idle /\ ~Working(r)' /\ \A s \in Requests \ {r} : req'[s] = req[s]
<1>1. req'[r] = Idle /\ \A s \in Requests \ {r} : req'[s] = req[s]
  BY DEF Done, SettingsTypeOK
<1>. QED
  BY <1>1, IdleType, MoveType DEF Done, Working

LEMMA StepMoves ==
    ASSUME SettingsTypeOK, NEW r \in Requests, NEW at \in Places, Step(r, at)
    PROVE  /\ req' = [req EXCEPT ![r] = [req[r] EXCEPT !.at = at]]
           /\ [req[r] EXCEPT !.at = at] \in RequestType
           /\ req'[r].at = at /\ req'[r].kind = req[r].kind /\ req'[r].v = req[r].v
           /\ req'[r].pw = req[r].pw /\ \A s \in Requests \ {r} : req'[s] = req[s]
BY DEF Step, SettingsTypeOK, RequestType

\* The last steps of a request at work.
LEMMA StepType ==
    ASSUME SettingsTypeOK, NEW r \in Requests, NEW at \in Places, Step(r, at), Working(r),
           \/ req[r].at = "secret" /\ at = "env"
           \/ req[r].at = "env" /\ at = "apply"
           \/ req[r].at = "apply" /\ at = "config" /\ req[r].kind = "user"
    PROVE  /\ req' \in [Requests -> RequestType] /\ OneAtWork'
           /\ \A s \in Requests : Working(s)' => WorkOf(s)'
<1>1. WorkOf(r)
  BY DEF SettingsTypeOK
<1>2. WorkOf(r)'
  BY <1>1, StepMoves DEF WorkOf
<1>. QED
  BY <1>2, StepMoves, MoveType

\* A request takes up its work: that of a mail section, and that of an address.
LEMMA StartType ==
    ASSUME SettingsTypeOK, NEW r \in Requests, NEW v \in Nat \cup Addresses, NEW pw \in BOOLEAN,
           LoopFree,
           \/ /\ req[r].kind = "mail" /\ v \in Nat
              /\ req' = [req EXCEPT ![r].v = v, ![r].pw = pw,
                                    ![r].at = IF pw THEN "secret" ELSE "env"]
           \/ /\ req[r].kind \in {"notify", "user"} /\ v \in Addresses
              /\ req' = [req EXCEPT ![r].v = v, ![r].at = "env"]
    PROVE  /\ req' \in [Requests -> RequestType] /\ OneAtWork'
           /\ \A s \in Requests : Working(s)' => WorkOf(s)'
<1>0. req \in [Requests -> RequestType] /\ req[r] \in RequestType
  BY DEF SettingsTypeOK
<1>1. "env" \in Places /\ "secret" \in Places
  BY DEF Places
<1>2. CASE /\ req[r].kind = "mail" /\ v \in Nat
           /\ req' = [req EXCEPT ![r].v = v, ![r].pw = pw, ![r].at = IF pw THEN "secret" ELSE "env"]
  <2>1. PICK at \in {"env", "secret"} : req' = [req EXCEPT ![r].v = v, ![r].pw = pw, ![r].at = at]
    BY <1>2
  <2> DEFINE new == [req[r] EXCEPT !.v = v, !.pw = pw, !.at = at]
  <2>2. /\ req' = [req EXCEPT ![r] = new] /\ new \in RequestType
        /\ req'[r].at = at /\ req'[r].kind = req[r].kind /\ req'[r].v = v
    <3>1. at \in Places
      BY <1>1
    <3>. QED
      BY <1>0, <2>1, <3>1 DEF RequestType
  <2>3. WorkOf(r)'
    BY <1>2, <2>1, <2>2 DEF WorkOf
  <2>. HIDE DEF new
  <2>. QED
    BY <2>2, <2>3, MoveType
<1>3. CASE /\ req[r].kind \in {"notify", "user"} /\ v \in Addresses
           /\ req' = [req EXCEPT ![r].v = v, ![r].at = "env"]
  <2> DEFINE new == [req[r] EXCEPT !.v = v, !.at = "env"]
  <2>2. /\ req' = [req EXCEPT ![r] = new] /\ new \in RequestType
        /\ req'[r].at = "env" /\ req'[r].kind = req[r].kind /\ req'[r].v = v
    BY <1>0, <1>1, <1>3 DEF RequestType
  <2>3. WorkOf(r)'
    BY <1>3, <2>2 DEF WorkOf
  <2>. HIDE DEF new
  <2>. QED
    BY <2>2, <2>3, MoveType
<1>. QED
  BY <1>2, <1>3

-----------------------------------------------------------------------------
(* What is saved *)

LEMMA EditType ==
    ASSUME NEW c \in Configs, NEW n \in Nat, NEW m \in Nat, NEW a \in Addresses
    PROVE  /\ [c EXCEPT !.plain = n] \in Configs
           /\ [c EXCEPT !.mail = n] \in Configs
           /\ [c EXCEPT !.to = a] \in Configs
           /\ [c EXCEPT !.plain = n, !.contract = m] \in Configs
           /\ \A h \in Seq(Entries) : /\ [c EXCEPT !.history = h] \in Configs
                                      /\ [c EXCEPT !.history = h, !.contract = m] \in Configs
BY DEF Configs

\* config.json after each kind of save, and the same of what was asked.
LEMMA SaveType ==
    ASSUME SettingsTypeOK, NEW r \in Requests, saves' = saves + 1
    PROVE  /\ saves' \in Nat /\ This \in Nat
           /\ SavePlain(r) \/ SaveAccount(r) \/ UpdateArchived(r) \/ SaveMail(r) \/ SaveNotify(r)
                 => config' \in Configs /\ asked' \in Configs
<1>1. This \in Nat /\ saves' \in Nat /\ config \in Configs /\ asked \in Configs
  BY DEF This, SettingsTypeOK
<1>2. CASE SavePlain(r)
  BY <1>1, <1>2, EditType DEF SavePlain, Save, Loaded
<1>3. CASE SaveAccount(r)
  <2>1. PICK p \in Pages : \E k \in {form[p], This, 0} :
           Save([Loaded(r) EXCEPT !.plain = This, !.contract = k], [asked EXCEPT !.plain = This, !.contract = k])
    BY <1>3 DEF SaveAccount
  <2>2. PICK k \in {form[p], This, 0} :
           Save([Loaded(r) EXCEPT !.plain = This, !.contract = k], [asked EXCEPT !.plain = This, !.contract = k])
    BY <2>1
  <2>3. k \in Nat
    BY <1>1 DEF SettingsTypeOK
  <2>4. \A c \in Configs : [c EXCEPT !.plain = This, !.contract = k] \in Configs
    BY <1>1, <2>3, EditType
  <2>. QED
    BY <1>1, <2>2, <2>4 DEF Save, Loaded
<1>4. CASE UpdateArchived(r)
  <2>1. PICK i \in DOMAIN config.history :
           Save([Loaded(r) EXCEPT !.history[i].rev = This], [asked EXCEPT !.history[i].rev = This])
    BY <1>4 DEF UpdateArchived, Loaded
  <2>2. ASSUME NEW c \in Configs PROVE [c EXCEPT !.history[i].rev = This] \in Configs
    <3>1. c.history \in Seq(Entries)
      BY DEF Configs
    <3>2. [c.history EXCEPT ![i].rev = This] \in Seq(Entries)
      <4>1. CASE i \in 1 .. Len(c.history)
        <5>1. c.history[i] \in Entries
          BY <3>1, <4>1
        <5>2. [c.history[i] EXCEPT !.rev = This] \in Entries
          BY <1>1, <5>1 DEF Entries
        <5>. QED
          BY <3>1, <4>1, <5>2, ExceptSeq
      <4>2. CASE i \notin 1 .. Len(c.history)
        <5>1. Len(c.history) \in Nat /\ c.history \in [1 .. Len(c.history) -> Entries]
          BY <3>1
        <5>2. [c.history EXCEPT ![i].rev = This] \in [1 .. Len(c.history) -> Entries]
          BY <4>2, <5>1
        <5>. QED
          BY <5>1, <5>2, SeqDef
      <4>. QED
        BY <4>1, <4>2
    <3>. QED
      BY <3>2 DEF Configs
  <2>. QED
    BY <1>1, <2>1, <2>2 DEF Save, Loaded
<1>5. CASE SaveMail(r)
  BY <1>1, <1>5, EditType DEF SaveMail, Save, Loaded
<1>6. CASE SaveNotify(r)
  <2>1. PICK a \in Addresses : Save([Loaded(r) EXCEPT !.to = a], [asked EXCEPT !.to = a])
    BY <1>6 DEF SaveNotify
  <2>2. \A c \in Configs : [c EXCEPT !.to = a] \in Configs
    BY EditType
  <2>. QED
    BY <1>1, <2>1, <2>2 DEF Save, Loaded
<1>. QED
  BY <1>1, <1>2, <1>3, <1>4, <1>5, <1>6

LEMMA InitType == Init => SettingsTypeOK
<1> SUFFICES ASSUME Init PROVE SettingsTypeOK
  OBVIOUS
<1>1. FirstConfig \in Configs
  BY DEF FirstConfig, Configs
<1>2. file \in Envs
  BY DEF Init, Envs
<1>3. req \in [Requests -> RequestType] /\ \A r \in Requests : ~Working(r)
  BY IdleType DEF Init, Working
<1>4. letter \in Letters
  BY DEF Init, NoLetter, Letters
<1>. QED
  BY <1>1, <1>2, <1>3, <1>4 DEF Init, SettingsTypeOK, OneAtWork

LEMMA HandleType ==
    ASSUME SettingsTypeOK, NEW r \in Requests, Handle(r)
    PROVE  SettingsTypeOK'
<1>0. /\ config \in Configs /\ config.to \in Addresses /\ 0 \in Nat
      /\ req \in [Requests -> RequestType] /\ req[r] \in RequestType
      /\ form \in [Pages -> Nat] /\ saves \in Nat
  BY DEF SettingsTypeOK, Configs
<1>1. CASE Arrive(r)
  <2>1. PICK k \in Kinds : req' = [req EXCEPT ![r].kind = k, ![r].at = "json", ![r].seen = config]
    BY <1>1 DEF Arrive
  <2> DEFINE new == [req[r] EXCEPT !.kind = k, !.at = "json", !.seen = config]
  <2>2. req' = [req EXCEPT ![r] = new] /\ new \in RequestType /\ req'[r].at = "json"
    BY <1>0, <2>1 DEF RequestType, Places
  <2>. HIDE DEF new
  <2>. QED
    BY <1>1, <2>2, MoveType DEF Arrive, SettingsTypeOK, Working
<1>2. CASE Refuse(r)
  BY <1>2, DoneType DEF Refuse, SettingsTypeOK
<1>3. CASE SavePlain(r)
  BY <1>3, DoneType, SaveType DEF SavePlain, Accept, This, SettingsTypeOK
<1>4. CASE SaveAccount(r)
  <2>1. form' \in [Pages -> Nat]
    BY <1>0, <1>4 DEF SaveAccount, This
  <2>2. revived' \in BOOLEAN
    BY <1>4 DEF SaveAccount, SettingsTypeOK
  <2>. QED
    BY <1>4, <2>1, <2>2, DoneType, SaveType DEF SaveAccount, Accept, This, SettingsTypeOK
<1>5. CASE UpdateArchived(r)
  BY <1>5, DoneType, SaveType DEF UpdateArchived, Accept, This, SettingsTypeOK
<1>6. CASE SaveMail(r)
  <2>1. /\ req' \in [Requests -> RequestType] /\ OneAtWork'
        /\ \A s \in Requests : Working(s)' => WorkOf(s)'
    <3>1. PICK pw \in BOOLEAN : req' = [req EXCEPT ![r].v = This, ![r].pw = pw,
                                                  ![r].at = IF pw THEN "secret" ELSE "env"]
      BY <1>6 DEF SaveMail
    <3>2. req[r].kind = "mail" /\ This \in Nat /\ LoopFree
      BY <1>0, <1>6 DEF SaveMail, Ready, This
    <3>. QED
      BY <3>1, <3>2, StartType
  <2>. QED
    BY <1>6, <2>1, SaveType DEF SaveMail, Accept, This, SettingsTypeOK
<1>7. CASE StoreSecret(r)
  <2>1. WorkOf(r) /\ req[r].at = "secret" /\ Working(r)
    BY <1>7 DEF StoreSecret, SettingsTypeOK, Working
  <2>2. secret' \in Nat /\ amid' \in BOOLEAN
    BY <1>7, <2>1 DEF StoreSecret, WorkOf, SettingsTypeOK
  <2>3. /\ req' \in [Requests -> RequestType] /\ OneAtWork'
        /\ \A s \in Requests : Working(s)' => WorkOf(s)'
    BY <1>7, <2>1, DoneType, StepType, "env" \in {"env"} DEF StoreSecret, Places
  <2>. QED
    BY <1>7, <2>2, <2>3 DEF StoreSecret, SettingsTypeOK
<1>8. CASE SaveNotify(r)
  <2>1. /\ req' \in [Requests -> RequestType] /\ OneAtWork'
        /\ \A s \in Requests : Working(s)' => WorkOf(s)'
    BY <1>0, <1>8, StartType DEF SaveNotify, Ready
  <2>. QED
    BY <1>8, <2>1, SaveType DEF SaveNotify, Accept, This, SettingsTypeOK
<1>9. CASE UserUnchanged(r)
  BY <1>0, <1>9, DoneType DEF UserUnchanged, SettingsTypeOK
<1>10. CASE ChangeUser(r)
  <2>1. /\ req' \in [Requests -> RequestType] /\ OneAtWork'
        /\ \A s \in Requests : Working(s)' => WorkOf(s)'
    BY <1>0, <1>10, StartType DEF ChangeUser, Ready
  <2>. QED
    BY <1>10, <2>1, SaveType DEF ChangeUser, Accept, This, SettingsTypeOK
<1>11. CASE SaveUser(r)
  <2>1. req[r].v \in Addresses
    BY <1>11 DEF SaveUser, SettingsTypeOK, Working, WorkOf
  <2>2. config' \in Configs /\ asked' \in Configs /\ told' \in Addresses
    <3>1. CASE UNCHANGED <<config, told, asked>>
      BY <3>1 DEF SettingsTypeOK
    <3>2. CASE /\ LET Edited(c) == [c EXCEPT !.to = req[r].v]
                  IN  Save(Edited(Loaded(r)), Edited(asked))
               /\ told' = req[r].v
      BY <2>1, <3>2, EditType DEF Save, Loaded, SettingsTypeOK
    <3>. QED
      BY <1>11, <3>1, <3>2 DEF SaveUser
  <2>. QED
    BY <1>11, <2>2, DoneType DEF SaveUser, SettingsTypeOK
<1>12. CASE WriteEnv(r)
  <2>1. WorkOf(r) /\ req[r].at = "env" /\ Working(r)
    BY <1>12 DEF WriteEnv, SettingsTypeOK, Working
  <2>2. file' \in Envs
    BY <1>12, <2>1 DEF WriteEnv, Put, WorkOf, SettingsTypeOK, Envs
  <2>3. /\ req' \in [Requests -> RequestType] /\ OneAtWork'
        /\ \A s \in Requests : Working(s)' => WorkOf(s)'
    BY <1>12, <2>1, DoneType, StepType DEF WriteEnv, Places
  <2>. QED
    BY <1>12, <2>2, <2>3 DEF WriteEnv, SettingsTypeOK
<1>13. CASE ApplyEnv(r)
  <2>1. WorkOf(r) /\ req[r].at = "apply" /\ Working(r)
    BY <1>13 DEF ApplyEnv, SettingsTypeOK, Working
  <2>2. env' \in Envs
    BY <1>13, <2>1 DEF ApplyEnv, Applied, Put, WorkOf, SettingsTypeOK, Envs
  <2>3. /\ req' \in [Requests -> RequestType] /\ OneAtWork'
        /\ \A s \in Requests : Working(s)' => WorkOf(s)'
    BY <1>13, <2>1, DoneType, StepType DEF ApplyEnv, Places
  <2>4. told' \in Addresses
    BY <1>13, <2>1 DEF ApplyEnv, WorkOf, SettingsTypeOK
  <2>. QED
    BY <1>13, <2>2, <2>3, <2>4 DEF ApplyEnv, SettingsTypeOK
<1>. QED
  BY <1>1, <1>2, <1>3, <1>4, <1>5, <1>6, <1>7, <1>8, <1>9, <1>10, <1>11, <1>12, <1>13 DEF Handle

LEMMA NextType ==
    ASSUME SettingsTypeOK, [Next]_vars
    PROVE  SettingsTypeOK'
<1>1. ASSUME NEW p \in Pages, LoadPage(p) PROVE SettingsTypeOK'
  <2>1. form' \in [Pages -> Nat]
    BY <1>1 DEF LoadPage, SettingsTypeOK, Configs
  <2>. QED
    BY <1>1, <2>1 DEF LoadPage, SettingsTypeOK, OneAtWork, Working, WorkOf
<1>2. CASE EndContract
  <2> DEFINE Ended(c) == [c EXCEPT !.history = Append(@, [contract |-> c.contract, rev |-> 0]),
                                   !.contract = Cleared(@)]
  <2>1. ASSUME NEW c \in Configs PROVE Ended(c) \in Configs
    <3>1. c.history \in Seq(Entries) /\ [contract |-> c.contract, rev |-> 0] \in Entries
      BY DEF Configs, Entries
    <3>2. Append(c.history, [contract |-> c.contract, rev |-> 0]) \in Seq(Entries)
      BY <3>1
    <3>. QED
      BY <3>2, EditType DEF Cleared, Configs
  <2>2. config' = Ended(config) /\ asked' = Ended(asked)
    BY <1>2 DEF EndContract, Save
  <2>. HIDE DEF Ended
  <2>3. config' \in Configs /\ asked' \in Configs
    BY <2>1, <2>2 DEF SettingsTypeOK
  <2>4. form' \in [Pages -> Nat]
    BY <1>2, <2>3 DEF EndContract, SettingsTypeOK, Configs
  <2>. QED
    BY <1>2, <2>3, <2>4 DEF EndContract, SettingsTypeOK, OneAtWork, Working, WorkOf
<1>3. CASE RestartDashboard
  <2>1. /\ req' \in [Requests -> RequestType] /\ \A r \in Requests : ~Working(r)'
        /\ letter' \in Letters
    BY <1>3, IdleType DEF RestartDashboard, Working, NoLetter, Letters
  <2>. QED
    BY <1>3, <2>1 DEF RestartDashboard, SettingsTypeOK, OneAtWork
<1>4. CASE RestartScheduler
  BY <1>4 DEF RestartScheduler, SettingsTypeOK, OneAtWork, Working, WorkOf
<1>5. CASE UNCHANGED vars
  BY <1>5 DEF vars, SettingsTypeOK, OneAtWork, Working, WorkOf
<1>6. CASE ReadServer \/ ReadPassword
  <2>1. letter' \in Letters
    BY <1>6 DEF ReadServer, ReadPassword, NoLetter, Letters, SettingsTypeOK, Envs
  <2>2. amid' \in BOOLEAN
    BY <1>6, Zenon DEF ReadServer, ReadPassword, Handover
  <2>. QED
    BY <1>6, <2>1, <2>2 DEF ReadServer, ReadPassword, SettingsTypeOK, OneAtWork, Working, WorkOf
<1>. QED
  BY <1>1, <1>2, <1>3, <1>4, <1>5, <1>6, HandleType DEF Next

-----------------------------------------------------------------------------
(* The steps apart from the writes of a request at work *)

Writes(r) ==
    \/ SaveMail(r) \/ SaveNotify(r) \/ ChangeUser(r)
    \/ StoreSecret(r) \/ WriteEnv(r) \/ ApplyEnv(r) \/ SaveUser(r)

\* Whoever is at work stays where it is, unless the dashboard restarts.
LEMMA RestMoves ==
    ASSUME SettingsTypeOK, [Next]_vars, ~\E r \in Requests : Writes(r)
    PROVE  /\ UNCHANGED <<file, secret>> /\ config'.to = config.to
           /\ sched' = sched \/ sched' = file
           /\ saves' \in {saves, saves + 1}
           /\ \/ RestartDashboard
              \/ /\ UNCHANGED <<env, half>>
                 /\ \A r \in Requests : Working(r)' => Working(r)
                 /\ \A r \in Requests : Working(r) => req'[r] = req[r]
                 /\ told' = told \/ (LoopFree /\ told' = config.to)
<1> DEFINE Quiet == /\ UNCHANGED <<env, file, sched, secret, half>>
                    /\ saves' \in {saves, saves + 1} /\ config'.to = config.to
                    /\ \A s \in Requests : Working(s)' => Working(s)
                    /\ \A s \in Requests : Working(s) => req'[s] = req[s]
                    /\ told' = told \/ (LoopFree /\ told' = config.to)
<1>1. ASSUME NEW r \in Requests, Arrive(r) PROVE Quiet
  <2>1. /\ ~Working(r) /\ ~Working(r)' /\ \A s \in Requests \ {r} : req'[s] = req[s]
    BY <1>1 DEF Arrive, Idle, SettingsTypeOK, RequestType, Working
  <2>. QED
    BY <1>1, <2>1 DEF Arrive, Working
<1>2. ASSUME NEW r \in Requests,
             Refuse(r) \/ SavePlain(r) \/ SaveAccount(r) \/ UpdateArchived(r) \/ UserUnchanged(r)
      PROVE  Quiet
  <2>1. ~Working(r) /\ ~Working(r)' /\ \A s \in Requests \ {r} : req'[s] = req[s]
    BY <1>2, DoneType
       DEF Refuse, SavePlain, SaveAccount, UpdateArchived, UserUnchanged, Ready, Working
  <2>2. config'.to = config.to
    BY <1>2 DEF Refuse, SavePlain, SaveAccount, UpdateArchived, UserUnchanged, Save, Loaded,
                SettingsTypeOK, Configs
  <2>3. /\ UNCHANGED <<env, file, sched, secret, half>> /\ saves' \in {saves, saves + 1}
        /\ told' = told \/ (LoopFree /\ told' = config.to)
    BY <1>2 DEF Refuse, SavePlain, SaveAccount, UpdateArchived, UserUnchanged, Accept, This, Ready
  <2>. QED
    BY <2>1, <2>2, <2>3 DEF Working
<1>3. CASE EndContract
  <2>1. config'.to = config.to
    BY <1>3 DEF EndContract, Save, SettingsTypeOK, Configs
  <2>2. UNCHANGED <<env, file, sched, secret, half, told, req, saves>>
    BY <1>3 DEF EndContract
  <2>3. Quiet
    BY <2>1, <2>2 DEF Working
  <2>. QED
    BY <2>3
<1>4. CASE RestartDashboard
  BY <1>4 DEF RestartDashboard
<1>5. CASE \/ RestartScheduler \/ ReadServer \/ ReadPassword
         \/ UNCHANGED vars \/ \E p \in Pages : LoadPage(p)
  BY <1>5 DEF RestartScheduler, ReadServer, ReadPassword, vars, LoadPage, Working
<1>6. ASSUME NEW r \in Requests, Handle(r) PROVE Quiet
  BY <1>1, <1>2, <1>6 DEF Handle, Writes
<1>. QED
  BY <1>3, <1>4, <1>5, <1>6 DEF Next

\* With one request beyond its body the others are not, before and after its step.
LEMMA AloneAtWork ==
    ASSUME SettingsTypeOK, NEW r \in Requests, Working(r) \/ LoopFree,
           \A s \in Requests \ {r} : req'[s] = req[s]
    PROVE  \A s \in Requests \ {r} : ~Working(s) /\ ~Working(s)'
BY DEF SettingsTypeOK, OneAtWork, Working, LoopFree

\* How each write moves its request.
LEMMA SaveMailMoves ==
    ASSUME SettingsTypeOK, NEW r \in Requests, SaveMail(r)
    PROVE  /\ LoopFree /\ req'[r].kind = "mail" /\ req'[r].v = This
           /\ \/ req'[r].pw = TRUE /\ req'[r].at = "secret"
              \/ req'[r].pw = FALSE /\ req'[r].at = "env"
           /\ \A s \in Requests \ {r} : ~Working(s) /\ ~Working(s)'
<1>0. req \in [Requests -> RequestType] /\ req[r] \in RequestType
  BY DEF SettingsTypeOK
<1>1. PICK pw \in BOOLEAN : req' = [req EXCEPT ![r].v = This, ![r].pw = pw,
                                              ![r].at = IF pw THEN "secret" ELSE "env"]
  BY DEF SaveMail
<1>2. LoopFree /\ req[r].kind = "mail"
  BY DEF SaveMail, Ready
<1>3. /\ req'[r].kind = "mail" /\ req'[r].v = This /\ req'[r].pw = pw
      /\ req'[r].at = IF pw THEN "secret" ELSE "env"
      /\ \A s \in Requests \ {r} : req'[s] = req[s]
  BY <1>0, <1>1, <1>2 DEF RequestType
<1>. QED
  BY <1>1, <1>2, <1>3, AloneAtWork

LEMMA AddressMoves ==
    ASSUME SettingsTypeOK, NEW r \in Requests, SaveNotify(r) \/ ChangeUser(r)
    PROVE  /\ LoopFree /\ req'[r].kind = req[r].kind /\ req'[r].at = "env"
           /\ SaveNotify(r) => req[r].kind = "notify" /\ config'.to = req'[r].v
           /\ ChangeUser(r) => req[r].kind = "user"
           /\ \A s \in Requests \ {r} : ~Working(s) /\ ~Working(s)'
<1>0. req \in [Requests -> RequestType] /\ req[r] \in RequestType /\ config \in Configs
  BY DEF SettingsTypeOK
<1>1. LoopFree /\ req[r].kind \in {"notify", "user"}
  BY DEF SaveNotify, ChangeUser, Ready
<1>2. PICK a \in Addresses :
         /\ req' = [req EXCEPT ![r].v = a, ![r].at = "env"]
         /\ SaveNotify(r) => Save([Loaded(r) EXCEPT !.to = a], [asked EXCEPT !.to = a])
  <2>1. CASE SaveNotify(r)
    BY <2>1 DEF SaveNotify
  <2>2. CASE ~SaveNotify(r)
    BY <2>2 DEF ChangeUser
  <2>. QED
    BY <2>1, <2>2
<1>3. /\ req'[r].kind = req[r].kind /\ req'[r].at = "env" /\ req'[r].v = a
      /\ \A s \in Requests \ {r} : req'[s] = req[s]
  BY <1>0, <1>2 DEF RequestType
<1>4. SaveNotify(r) => req[r].kind = "notify" /\ config'.to = a
  BY <1>0, <1>2 DEF SaveNotify, Ready, Save, Loaded, Configs
<1>5. ChangeUser(r) => req[r].kind = "user"
  BY DEF ChangeUser, Ready
<1>. QED
  BY <1>1, <1>3, <1>4, <1>5, AloneAtWork

\* The later writes: the request goes on with the next one, or it ends.
Onward(r, at) ==
    /\ req'[r].at = at /\ req'[r].kind = req[r].kind
    /\ req'[r].v = req[r].v /\ req'[r].pw = req[r].pw

LEMMA LaterMoves ==
    ASSUME SettingsTypeOK, NEW r \in Requests,
           StoreSecret(r) \/ WriteEnv(r) \/ ApplyEnv(r) \/ SaveUser(r)
    PROVE  /\ Working(r) /\ WorkOf(r)
           /\ \A s \in Requests \ {r} : ~Working(s) /\ ~Working(s)'
           /\ StoreSecret(r) => \/ Onward(r, "env") /\ secret' = req[r].v /\ half' = half
                                \/ ~Working(r)' /\ secret' = req[r].v /\ half' = half \cup {"mail"}
                                \/ ~Working(r)' /\ secret' = secret /\ half' = half
           /\ WriteEnv(r) => \/ Onward(r, "apply") /\ file' = Put(file, r) /\ half' = half
                             \/ ~Working(r)' /\ file' = file /\ half' = half \cup Unwritten(r)
           /\ ApplyEnv(r) => \/ Onward(r, "config") /\ req[r].kind = "user"
                             \/ ~Working(r)' /\ req[r].kind # "user"
           /\ SaveUser(r) => ~Working(r)'
<1>0. "env" \in Places /\ "apply" \in Places /\ "config" \in Places
  BY DEF Places
<1>1. Working(r) /\ WorkOf(r)
  BY DEF StoreSecret, WriteEnv, ApplyEnv, SaveUser, Working, SettingsTypeOK
<1>2. Done(r) => ~Working(r)' /\ \A s \in Requests \ {r} : req'[s] = req[s]
  BY DoneType
<1>3. \A at \in Places : Step(r, at) => Onward(r, at) /\ \A s \in Requests \ {r} : req'[s] = req[s]
  BY StepMoves DEF Onward
<1>4. \/ Done(r)
      \/ \E at \in Places : Step(r, at)
  BY <1>0 DEF StoreSecret, WriteEnv, ApplyEnv, SaveUser
<1>5. \A s \in Requests \ {r} : ~Working(s) /\ ~Working(s)'
  BY <1>1, <1>2, <1>3, <1>4, AloneAtWork
<1>6. StoreSecret(r) => \/ Onward(r, "env") /\ secret' = req[r].v /\ half' = half
                        \/ ~Working(r)' /\ secret' = req[r].v /\ half' = half \cup {"mail"}
                        \/ ~Working(r)' /\ secret' = secret /\ half' = half
  BY <1>0, <1>2, <1>3 DEF StoreSecret
<1>7. WriteEnv(r) => \/ Onward(r, "apply") /\ file' = Put(file, r) /\ half' = half
                     \/ ~Working(r)' /\ file' = file /\ half' = half \cup Unwritten(r)
  BY <1>0, <1>2, <1>3 DEF WriteEnv
<1>8. ApplyEnv(r) => \/ Onward(r, "config") /\ req[r].kind = "user"
                     \/ ~Working(r)' /\ req[r].kind # "user"
  BY <1>0, <1>2, <1>3 DEF ApplyEnv
<1>9. SaveUser(r) => ~Working(r)'
  BY <1>2 DEF SaveUser
<1>. QED
  BY <1>1, <1>5, <1>6, <1>7, <1>8, <1>9

-----------------------------------------------------------------------------
(* The address of the notifications *)

\* What the handler at work has written of the address.
Written(r) ==
    /\ req[r].kind = "notify" /\ req[r].at = "env" => config.to = req[r].v
    /\ req[r].kind = "notify" /\ req[r].at = "apply" => config.to = req[r].v /\ file.to = req[r].v
    /\ req[r].kind = "user" /\ req[r].at = "apply" => file.to = req[r].v
    /\ req[r].kind = "user" /\ req[r].at = "config" => file.to = req[r].v /\ env.to = req[r].v

\* One that has not begun to write it.
Untouched(r) == req[r].kind = "mail" \/ (req[r].kind = "user" /\ req[r].at = "env")

OneAddress == told = config.to /\ told = env.to /\ told = file.to

ToInv ==
    /\ \A r \in Requests : Working(r) => Written(r)
    /\ (\A r \in Requests : Working(r) => Untouched(r)) /\ "to" \notin half => OneAddress

LEMMA ToStep ==
    ASSUME SettingsTypeOK, ToInv, [Next]_vars
    PROVE  ToInv'
<1>0. config \in Configs /\ file \in Envs /\ env \in Envs
  BY DEF SettingsTypeOK
<1>1. CASE ~\E r \in Requests : Writes(r)
  <2>1. CASE RestartDashboard
    <3>1. /\ \A r \in Requests : ~Working(r)'
          /\ env' = file /\ UNCHANGED <<config, file, told>>
      BY <2>1 DEF RestartDashboard, Idle, Working
    <3>2. \A r \in Requests : Cut(r) \subseteq half'
      BY <2>1 DEF RestartDashboard
    <3>3. ASSUME "to" \notin half' PROVE \A r \in Requests : Working(r) => Untouched(r)
      <4> SUFFICES ASSUME NEW r \in Requests, Working(r) PROVE Untouched(r)
        OBVIOUS
      <4>1. WorkOf(r) /\ "to" \notin Cut(r)
        BY <3>2, <3>3 DEF SettingsTypeOK
      <4>. QED
        BY <4>1 DEF WorkOf, Cut, Unwritten, Untouched
    <3>4. "to" \notin half' => "to" \notin half
      BY <2>1 DEF RestartDashboard
    <3>. QED
      BY <3>1, <3>3, <3>4 DEF ToInv, OneAddress
  <2>2. CASE ~RestartDashboard
    <3>1. /\ UNCHANGED <<file, env, half>> /\ config'.to = config.to
          /\ \A r \in Requests : Working(r)' => Working(r)
          /\ \A r \in Requests : Working(r) => req'[r] = req[r]
          /\ told' = told \/ (LoopFree /\ told' = config.to)
      BY <1>1, <2>2, RestMoves
    <3>2. \A r \in Requests : Working(r)' => Written(r)'
      BY <3>1 DEF ToInv, Written
    <3>3. \A r \in Requests : Working(r) /\ Untouched(r)' => Untouched(r)
      BY <3>1 DEF Untouched
    <3>4. LoopFree => \A r \in Requests : ~Working(r)
      BY DEF LoopFree, Working
    <3>5. \A r \in Requests : Working(r) => Working(r)'
      BY <3>1 DEF Working
    <3>. QED
      BY <3>1, <3>2, <3>3, <3>4, <3>5 DEF ToInv, OneAddress
  <2>. QED
    BY <2>1, <2>2
<1>2. ASSUME NEW r \in Requests, SaveMail(r) PROVE ToInv'
  <2>1. /\ LoopFree /\ req'[r].kind = "mail" /\ Untouched(r)' /\ Written(r)'
        /\ \A s \in Requests \ {r} : ~Working(s)'
    BY <1>2, SaveMailMoves DEF Untouched, Written
  <2>2. UNCHANGED <<file, env, told, half>> /\ config'.to = config.to
    BY <1>0, <1>2 DEF SaveMail, Save, Loaded, Configs
  <2>. QED
    BY <2>1, <2>2 DEF ToInv, LoopFree, Working, OneAddress
<1>3. ASSUME NEW r \in Requests, SaveNotify(r) PROVE ToInv'
  BY <1>3, AddressMoves DEF ToInv, Written, Untouched, Working
<1>4. ASSUME NEW r \in Requests, ChangeUser(r) PROVE ToInv'
  <2>1. /\ LoopFree /\ Untouched(r)' /\ Written(r)'
        /\ \A s \in Requests \ {r} : ~Working(s)'
    BY <1>4, AddressMoves DEF Untouched, Written
  <2>2. UNCHANGED <<config, file, env, told, half>>
    BY <1>4 DEF ChangeUser
  <2>. QED
    BY <2>1, <2>2 DEF ToInv, LoopFree, Working, OneAddress
<1>5. ASSUME NEW r \in Requests, StoreSecret(r) PROVE ToInv'
  <2>1. /\ req[r].kind = "mail" /\ Working(r) /\ \A s \in Requests \ {r} : ~Working(s) /\ ~Working(s)'
        /\ Working(r)' => Untouched(r)' /\ Written(r)'
    BY <1>5, LaterMoves DEF StoreSecret, WorkOf, Onward, Untouched, Written
  <2>2. UNCHANGED <<config, file, env, told>> /\ ("to" \notin half' => "to" \notin half)
    BY <1>5 DEF StoreSecret
  <2>. QED
    BY <2>1, <2>2 DEF ToInv, Untouched, OneAddress
<1>6. ASSUME NEW r \in Requests, WriteEnv(r) PROVE ToInv'
  <2>1. /\ Working(r) /\ WorkOf(r) /\ \A s \in Requests \ {r} : ~Working(s) /\ ~Working(s)'
        /\ req[r].at = "env" /\ UNCHANGED <<config, env, told>>
        /\ \/ Onward(r, "apply") /\ file' = Put(file, r) /\ half' = half
           \/ ~Working(r)' /\ file' = file /\ half' = half \cup Unwritten(r)
    BY <1>6, LaterMoves DEF WriteEnv
  <2>2. CASE req[r].kind = "mail"
    <3>1. file'.to = file.to /\ Unwritten(r) \subseteq {"mail"}
      BY <1>0, <2>1, <2>2 DEF Put, Envs, Unwritten
    <3>2. Untouched(r) /\ (Working(r)' => Untouched(r)' /\ Written(r)')
      BY <2>1, <2>2 DEF Onward, Untouched, Written
    <3>. QED
      BY <2>1, <3>1, <3>2 DEF ToInv, OneAddress
  <2>3. CASE req[r].kind = "notify"
    <3>1. CASE ~Working(r)'
      BY <2>1, <2>3, <3>1 DEF ToInv, Unwritten, Onward, Working
    <3>2. CASE Onward(r, "apply") /\ file' = Put(file, r)
      <4>1. file'.to = req[r].v /\ config.to = req[r].v
        BY <1>0, <2>1, <2>3, <3>2 DEF Put, Envs, ToInv, Written
      <4>2. Written(r)' /\ Working(r)' /\ ~Untouched(r)'
        BY <2>1, <2>3, <3>2, <4>1 DEF Written, Onward, Working, Untouched
      <4>. QED
        BY <2>1, <4>2 DEF ToInv
    <3>. QED
      BY <2>1, <3>1, <3>2
  <2>4. CASE req[r].kind = "user"
    <3>1. Untouched(r) /\ Unwritten(r) = {}
      BY <2>1, <2>4 DEF Untouched, Unwritten
    <3>2. CASE ~Working(r)' /\ file' = file /\ half' = half \cup Unwritten(r)
      BY <2>1, <3>1, <3>2 DEF ToInv, OneAddress
    <3>3. CASE Onward(r, "apply") /\ file' = Put(file, r)
      <4>1. file'.to = req[r].v
        BY <1>0, <2>1, <2>4, <3>3 DEF Put, Envs
      <4>2. Written(r)' /\ Working(r)' /\ ~Untouched(r)'
        BY <2>1, <2>4, <3>3, <4>1 DEF Written, Onward, Working, Untouched
      <4>. QED
        BY <2>1, <4>2 DEF ToInv
    <3>. QED
      BY <2>1, <3>2, <3>3
  <2>. QED
    BY <2>1, <2>2, <2>3, <2>4 DEF WorkOf
<1>7. ASSUME NEW r \in Requests, ApplyEnv(r) PROVE ToInv'
  <2>1. /\ Working(r) /\ WorkOf(r) /\ \A s \in Requests \ {r} : ~Working(s) /\ ~Working(s)'
        /\ req[r].at = "apply" /\ UNCHANGED <<config, file>> /\ env' = Put(env, r)
        /\ \/ Onward(r, "config") /\ req[r].kind = "user"
           \/ ~Working(r)' /\ req[r].kind # "user"
    BY <1>7, LaterMoves DEF ApplyEnv, Applied
  <2>2. CASE req[r].kind = "mail"
    <3>1. /\ env'.to = env.to /\ told' = told /\ half' = half \ {"mail"} /\ Untouched(r)
      BY <1>0, <1>7, <2>1, <2>2 DEF ApplyEnv, Put, Envs, Untouched
    <3>. QED
      BY <2>1, <2>2, <3>1 DEF ToInv, OneAddress
  <2>3. CASE req[r].kind = "notify"
    <3>1. env'.to = req[r].v /\ config.to = req[r].v /\ file.to = req[r].v /\ told' = req[r].v
      BY <1>0, <1>7, <2>1, <2>3 DEF ApplyEnv, Put, Envs, ToInv, Written
    <3>. QED
      BY <2>1, <2>3, <3>1 DEF ToInv, OneAddress
  <2>4. CASE req[r].kind = "user"
    <3>1. env'.to = req[r].v /\ file.to = req[r].v
      BY <1>0, <2>1, <2>4 DEF Put, Envs, ToInv, Written
    <3>2. Written(r)' /\ Working(r)' /\ ~Untouched(r)'
      BY <2>1, <2>4, <3>1 DEF Written, Onward, Working, Untouched
    <3>. QED
      BY <2>1, <3>2 DEF ToInv
  <2>. QED
    BY <2>1, <2>2, <2>3, <2>4 DEF WorkOf
<1>8. ASSUME NEW r \in Requests, SaveUser(r) PROVE ToInv'
  <2>1. /\ Working(r) /\ ~Working(r)' /\ req[r].kind = "user" /\ UNCHANGED <<file, env>>
        /\ \A s \in Requests \ {r} : ~Working(s) /\ ~Working(s)'
        /\ file.to = req[r].v /\ env.to = req[r].v
    BY <1>8, LaterMoves DEF SaveUser, WorkOf, ToInv, Written
  <2>2. \/ config'.to = req[r].v /\ told' = req[r].v
        \/ "to" \in half'
    BY <1>0, <1>8 DEF SaveUser, Save, Loaded, Configs
  <2>. QED
    BY <2>1, <2>2 DEF ToInv, OneAddress
<1>. QED
  BY <1>1, <1>2, <1>3, <1>4, <1>5, <1>6, <1>7, <1>8 DEF Writes

\* The address the dashboard last confirmed is the one in config.json, in .env and in
\* use, unless a save of it stopped half way: update_notification_email writes
\* config.json first, the account page last.
THEOREM ToldHoldsAlways == Spec => []ToldHolds
<1>1. Init => SettingsTypeOK /\ ToInv
  <2>1. Init => ToInv
    BY DEF Init, FirstConfig, Idle, ToInv, Working, OneAddress
  <2>. QED
    BY <2>1, InitType
<1>2. (SettingsTypeOK /\ ToInv) /\ [Next]_vars => (SettingsTypeOK /\ ToInv)'
  BY NextType, ToStep
<1>3. ToInv => ToldHolds
  BY DEF ToInv, ToldHolds, LoopFree, Working, OneAddress
<1>. QED
  BY <1>1, <1>2, <1>3, PTL DEF Spec

-----------------------------------------------------------------------------
(* The SMTP password and the server it is for *)

\* How far the save of an email section is.
MailAt(r) ==
    /\ req[r].v \in Nat /\ secret <= req[r].v /\ req[r].v <= saves
    /\ req[r].at = "secret" => req[r].pw
    /\ req[r].at = "apply" => file.smtp = req[r].v

OneServer == secret <= env.smtp /\ secret <= file.smtp

PasswordInv ==
    /\ secret <= saves
    /\ \A r \in Requests : Working(r) /\ req[r].kind = "mail" => MailAt(r)
    /\ (\A r \in Requests : Working(r) => ~Ahead(r)) /\ "mail" \notin half => OneServer

LEMMA CalmServer ==
    ASSUME PasswordInv, ~Handover
    PROVE  OneServer
BY DEF PasswordInv, Handover

LEMMA PasswordStep ==
    ASSUME SettingsTypeOK, PasswordInv, [Next]_vars
    PROVE  PasswordInv'
<1>0. file \in Envs /\ env \in Envs /\ saves \in Nat /\ secret \in Nat
  BY DEF SettingsTypeOK
<1>1. CASE ~\E r \in Requests : Writes(r)
  <2>0. UNCHANGED <<file, secret>> /\ saves' \in {saves, saves + 1}
    BY <1>1, RestMoves
  <2>1. CASE RestartDashboard
    <3>1. /\ \A r \in Requests : ~Working(r)'
          /\ env' = file /\ saves' = saves
      BY <2>1 DEF RestartDashboard, Idle, Working
    <3>2. "mail" \notin half' => "mail" \notin half /\ \A r \in Requests : "mail" \notin Cut(r)
      BY <2>1 DEF RestartDashboard
    <3>3. ASSUME "mail" \notin half' PROVE secret <= file.smtp
      <4>1. CASE \A r \in Requests : Working(r) => ~Ahead(r)
        BY <3>2, <3>3, <4>1 DEF PasswordInv, OneServer
      <4>2. ASSUME NEW r \in Requests, Working(r), Ahead(r) PROVE secret <= file.smtp
        <5>1. req[r].kind = "mail" /\ req[r].at = "apply"
          BY <3>2, <3>3, <4>2 DEF Ahead, Cut, Unwritten
        <5>. QED
          BY <4>2, <5>1 DEF PasswordInv, MailAt
      <4>. QED
        BY <4>1, <4>2
    <3>. QED
      BY <2>0, <3>1, <3>3 DEF PasswordInv, OneServer
  <2>2. CASE ~RestartDashboard
    <3>1. /\ UNCHANGED <<env, half>>
          /\ \A r \in Requests : Working(r)' => Working(r)
          /\ \A r \in Requests : Working(r) => req'[r] = req[r]
      BY <1>1, <2>2, RestMoves
    <3>2. ASSUME NEW r \in Requests, Working(r)', req'[r].kind = "mail" PROVE MailAt(r)'
      <4>1. req'[r] = req[r] /\ MailAt(r)
        BY <3>1, <3>2 DEF PasswordInv
      <4>. QED
        BY <1>0, <2>0, <4>1 DEF MailAt
    <3>3. \A r \in Requests : Working(r) => Working(r)'
      BY <3>1 DEF Working
    <3>4. \A r \in Requests : Working(r) /\ Ahead(r) => Ahead(r)'
      BY <3>1 DEF Ahead
    <3>5. secret' <= saves'
      BY <1>0, <2>0 DEF PasswordInv
    <3>. QED
      BY <2>0, <3>1, <3>2, <3>3, <3>4, <3>5 DEF PasswordInv, OneServer
  <2>. QED
    BY <2>1, <2>2
<1>2. ASSUME NEW r \in Requests, SaveMail(r) PROVE PasswordInv'
  <2>1. /\ LoopFree /\ req'[r].kind = "mail" /\ req'[r].v = saves + 1 /\ saves' = saves + 1
        /\ \/ req'[r].pw = TRUE /\ req'[r].at = "secret"
           \/ req'[r].pw = FALSE /\ req'[r].at = "env"
        /\ \A s \in Requests \ {r} : ~Working(s)'
    BY <1>2, SaveMailMoves DEF SaveMail, Accept, This
  <2>2. UNCHANGED <<file, env, secret, half>>
    BY <1>2 DEF SaveMail
  <2>3. MailAt(r)' /\ ~Ahead(r)' /\ secret' <= saves'
    BY <1>0, <2>1, <2>2 DEF PasswordInv, MailAt, Ahead
  <2>. QED
    BY <2>1, <2>2, <2>3 DEF PasswordInv, LoopFree, Working, OneServer
<1>3. ASSUME NEW r \in Requests, SaveNotify(r) \/ ChangeUser(r) PROVE PasswordInv'
  <2>1. /\ LoopFree /\ req'[r].kind # "mail" /\ \A s \in Requests \ {r} : ~Working(s)'
    BY <1>3, AddressMoves
  <2>2. UNCHANGED <<file, env, secret, half>> /\ saves' = saves + 1
    BY <1>3 DEF SaveNotify, ChangeUser, Accept, This
  <2>3. secret' <= saves'
    BY <1>0, <2>2 DEF PasswordInv
  <2>. QED
    BY <2>1, <2>2, <2>3 DEF PasswordInv, LoopFree, Working, OneServer, Ahead
<1>4. ASSUME NEW r \in Requests, StoreSecret(r) PROVE PasswordInv'
  <2>1. /\ req[r].kind = "mail" /\ req[r].at = "secret" /\ Working(r)
        /\ \A s \in Requests \ {r} : ~Working(s) /\ ~Working(s)'
    BY <1>4, LaterMoves DEF StoreSecret, WorkOf
  <2>2. /\ UNCHANGED <<file, env, saves>>
        /\ \/ Onward(r, "env") /\ secret' = req[r].v
           \/ ~Working(r)' /\ secret' = req[r].v /\ half' = half \cup {"mail"}
           \/ ~Working(r)' /\ secret' = secret /\ half' = half
    BY <1>4, LaterMoves DEF StoreSecret
  <2>3. MailAt(r) /\ req[r].pw /\ ~Ahead(r)
    BY <2>1 DEF PasswordInv, MailAt, Ahead
  <2>4. CASE ~Working(r)' /\ secret' = secret /\ half' = half
    BY <2>1, <2>2, <2>3, <2>4 DEF PasswordInv, OneServer
  <2>6. CASE ~Working(r)' /\ secret' = req[r].v /\ half' = half \cup {"mail"}
    <3>1. secret' <= saves'
      BY <2>2, <2>3, <2>6 DEF MailAt
    <3>. QED
      BY <2>1, <2>6, <3>1 DEF PasswordInv
  <2>5. CASE Onward(r, "env") /\ secret' = req[r].v
    <3>1. MailAt(r)' /\ Ahead(r)' /\ Working(r)' /\ secret' <= saves'
      BY <2>1, <2>2, <2>3, <2>5 DEF MailAt, Ahead, Onward, Working
    <3>. QED
      BY <2>1, <3>1 DEF PasswordInv
  <2>. QED
    BY <2>2, <2>4, <2>5, <2>6
<1>5. ASSUME NEW r \in Requests, WriteEnv(r) PROVE PasswordInv'
  <2>1. /\ Working(r) /\ WorkOf(r) /\ \A s \in Requests \ {r} : ~Working(s) /\ ~Working(s)'
        /\ req[r].at = "env" /\ UNCHANGED <<env, secret, saves>>
        /\ \/ Onward(r, "apply") /\ file' = Put(file, r) /\ half' = half
           \/ ~Working(r)' /\ file' = file /\ half' = half \cup Unwritten(r)
    BY <1>5, LaterMoves DEF WriteEnv
  <2>2. CASE req[r].kind = "mail"
    <3>1. MailAt(r)
      BY <2>1, <2>2 DEF PasswordInv
    <3>2. CASE ~Working(r)' /\ file' = file /\ half' = half \cup Unwritten(r)
      <4>1. "mail" \notin half' => "mail" \notin half /\ ~Ahead(r)
        BY <2>1, <2>2, <3>2 DEF Unwritten, Ahead
      <4>. QED
        BY <2>1, <3>2, <4>1 DEF PasswordInv, OneServer
    <3>3. CASE Onward(r, "apply") /\ file' = Put(file, r)
      <4>1. file'.smtp = req[r].v
        BY <1>0, <2>2, <3>3 DEF Put, Envs
      <4>2. MailAt(r)' /\ Working(r)' /\ (Ahead(r) => Ahead(r)')
        BY <2>1, <2>2, <3>1, <3>3, <4>1 DEF MailAt, Ahead, Onward, Working
      <4>3. secret <= file'.smtp
        BY <3>1, <4>1 DEF MailAt
      <4>. QED
        BY <2>1, <4>2, <4>3 DEF PasswordInv, OneServer
    <3>. QED
      BY <2>1, <3>2, <3>3
  <2>3. CASE req[r].kind # "mail"
    <3>1. file'.smtp = file.smtp /\ ~Ahead(r) /\ ~(Ahead(r)') /\ (Working(r)' => req'[r].kind # "mail")
      BY <1>0, <2>1, <2>3 DEF Put, Envs, Ahead, Onward, Working
    <3>2. "mail" \notin half' => "mail" \notin half
      BY <2>1
    <3>. QED
      BY <2>1, <3>1, <3>2 DEF PasswordInv, OneServer
  <2>. QED
    BY <2>2, <2>3
<1>6. ASSUME NEW r \in Requests, ApplyEnv(r) PROVE PasswordInv'
  <2>1. /\ Working(r) /\ WorkOf(r) /\ \A s \in Requests \ {r} : ~Working(s) /\ ~Working(s)'
        /\ req[r].at = "apply" /\ UNCHANGED <<file, secret, saves>> /\ env' = Put(env, r)
        /\ \/ Onward(r, "config") /\ req[r].kind = "user"
           \/ ~Working(r)' /\ req[r].kind # "user"
    BY <1>6, LaterMoves DEF ApplyEnv, Applied
  <2>2. CASE req[r].kind = "mail"
    <3>1. MailAt(r) /\ env'.smtp = req[r].v
      BY <1>0, <2>1, <2>2 DEF PasswordInv, Put, Envs
    <3>2. secret' <= env'.smtp /\ secret' <= file'.smtp /\ ~Working(r)'
      BY <2>1, <2>2, <3>1 DEF MailAt
    <3>. QED
      BY <2>1, <3>2 DEF PasswordInv, OneServer
  <2>3. CASE req[r].kind # "mail"
    <3>1. env'.smtp = env.smtp /\ ~Ahead(r) /\ (Working(r)' => req'[r].kind # "mail")
      BY <1>0, <2>1, <2>3 DEF Put, Envs, Ahead, Onward
    <3>2. "mail" \notin half' => "mail" \notin half
      BY <1>6, <2>3 DEF ApplyEnv
    <3>. QED
      BY <2>1, <3>1, <3>2 DEF PasswordInv, OneServer
  <2>. QED
    BY <2>2, <2>3
<1>7. ASSUME NEW r \in Requests, SaveUser(r) PROVE PasswordInv'
  <2>1. /\ Working(r) /\ ~Working(r)' /\ req[r].kind = "user" /\ UNCHANGED <<file, env, secret, saves>>
        /\ \A s \in Requests \ {r} : ~Working(s) /\ ~Working(s)'
    BY <1>7, LaterMoves DEF SaveUser, WorkOf
  <2>2. "mail" \notin half' => "mail" \notin half
    BY <1>7 DEF SaveUser
  <2>. QED
    BY <2>1, <2>2 DEF PasswordInv, OneServer, Ahead
<1>. QED
  BY <1>1, <1>2, <1>3, <1>4, <1>5, <1>6, <1>7 DEF Writes

\* Where a password stored after the mail read its server would leave it.
LetterInv == letter.at = "server" /\ secret > letter.smtp => amid

LEMMA LetterStep ==
    ASSUME SettingsTypeOK, PasswordInv, LetterInv, [Next]_vars
    PROVE  LetterInv'
<1>1. CASE ReadServer
  <2>1. secret \in Nat /\ env.smtp \in Nat
    BY DEF SettingsTypeOK, Envs
  <2>2. letter'.smtp = env.smtp /\ secret' = secret /\ amid' = Handover
    BY <1>1 DEF ReadServer
  <2>3. ~Handover => secret <= env.smtp
    BY CalmServer DEF OneServer
  <2>. QED
    BY <2>1, <2>2, <2>3 DEF LetterInv
<1>2. CASE ReadPassword \/ RestartDashboard
  BY <1>2 DEF ReadPassword, RestartDashboard, NoLetter, LetterInv
<1>3. ASSUME NEW r \in Requests, StoreSecret(r) PROVE LetterInv'
  BY <1>3 DEF StoreSecret, LetterInv
<1>4. CASE UNCHANGED <<letter, amid, secret>>
  BY <1>4 DEF LetterInv
<1>5. ASSUME NEW r \in Requests, Handle(r) PROVE LetterInv'
  <2>1. CASE StoreSecret(r)
    BY <1>3, <2>1
  <2>2. CASE Arrive(r) \/ Refuse(r) \/ UserUnchanged(r) \/ ChangeUser(r)
    BY <1>4, <2>2 DEF Arrive, Refuse, UserUnchanged, ChangeUser, post
  <2>3. CASE SavePlain(r) \/ SaveAccount(r) \/ UpdateArchived(r) \/ SaveMail(r)
    BY <1>4, <2>3 DEF SavePlain, SaveAccount, UpdateArchived, SaveMail, post
  <2>4. CASE SaveNotify(r) \/ SaveUser(r) \/ WriteEnv(r) \/ ApplyEnv(r)
    BY <1>4, <2>4 DEF SaveNotify, SaveUser, WriteEnv, ApplyEnv, post
  <2>. QED
    BY <1>5, <2>1, <2>2, <2>3, <2>4 DEF Handle
<1>6. CASE EndContract \/ RestartScheduler \/ \E p \in Pages : LoadPage(p)
  BY <1>4, <1>6 DEF EndContract, RestartScheduler, LoadPage, post
<1>7. CASE UNCHANGED vars
  BY <1>4, <1>7 DEF vars
<1>. QED
  BY <1>1, <1>2, <1>5, <1>6, <1>7 DEF Next

\* A mail joins a new SMTP password with the earlier server only by a save of the email
\* section that was under way while its settings were read, or had stopped in between;
\* the scheduler does so until its restart also.
THEOREM PasswordNotAheadHolds == Spec => []PasswordNotAhead
<1>1. Init => SettingsTypeOK /\ PasswordInv /\ LetterInv
  <2>1. Init => PasswordInv /\ LetterInv
    BY DEF Init, Idle, NoLetter, PasswordInv, LetterInv, Working, OneServer
  <2>. QED
    BY <2>1, InitType
<1>2. (SettingsTypeOK /\ PasswordInv /\ LetterInv) /\ [Next]_vars
         => (SettingsTypeOK /\ PasswordInv /\ LetterInv)'
  BY NextType, PasswordStep, LetterStep
<1>3. SettingsTypeOK /\ PasswordInv /\ LetterInv => PasswordNotAhead
  <2>1. SettingsTypeOK => secret \in Nat /\ env.smtp \in Nat /\ file.smtp \in Nat /\ sched.smtp \in Nat
    BY DEF SettingsTypeOK, Envs
  <2>2. PasswordInv /\ ~Handover => secret <= env.smtp /\ secret <= file.smtp
    BY CalmServer DEF OneServer
  <2>. QED
    BY <2>1, <2>2 DEF PasswordNotAhead, LetterInv
<1>. QED
  BY <1>1, <1>2, <1>3, PTL DEF Spec

-----------------------------------------------------------------------------
(* The configuration as a whole *)

\* Requests that overlap do not lose an edit: a handler loads config.json after the body
\* of its request has come, and saves it without another handler in between.
THEOREM NoEditLostHolds == Spec => []NoEditLost
<1>1. Init => NoEditLost
  BY DEF Init, NoEditLost
<1>2. NoEditLost /\ [Next]_vars => NoEditLost'
  <2> SUFFICES ASSUME config = asked, [Next]_vars PROVE config' = asked'
    BY DEF NoEditLost
  <2>1. ASSUME NEW r \in Requests, Handle(r) PROVE config' = asked'
    <3>1. CASE SavePlain(r)
      BY <3>1 DEF SavePlain, Save, Loaded
    <3>2. CASE SaveAccount(r)
      BY <3>2 DEF SaveAccount, Save, Loaded
    <3>3. CASE UpdateArchived(r)
      BY <3>3 DEF UpdateArchived, Save, Loaded
    <3>4. CASE SaveMail(r)
      BY <3>4 DEF SaveMail, Save, Loaded
    <3>5. CASE SaveNotify(r)
      BY <3>5 DEF SaveNotify, Save, Loaded
    <3>6. CASE SaveUser(r)
      BY <3>6 DEF SaveUser, Save, Loaded
    <3>7. CASE \/ Arrive(r) \/ Refuse(r) \/ StoreSecret(r) \/ UserUnchanged(r)
               \/ ChangeUser(r) \/ WriteEnv(r) \/ ApplyEnv(r)
      BY <3>7 DEF Arrive, Refuse, StoreSecret, UserUnchanged, ChangeUser, WriteEnv, ApplyEnv
    <3>. QED
      BY <2>1, <3>1, <3>2, <3>3, <3>4, <3>5, <3>6, <3>7 DEF Handle
  <2>2. CASE EndContract
    BY <2>2 DEF EndContract, Save
  <2>3. CASE \/ \E p \in Pages : LoadPage(p)
             \/ RestartDashboard \/ RestartScheduler \/ ReadServer \/ ReadPassword \/ UNCHANGED vars
    BY <2>3 DEF LoadPage, RestartDashboard, RestartScheduler, ReadServer, ReadPassword, vars
  <2>. QED
    BY <2>1, <2>2, <2>3 DEF Next
<1>. QED
  BY <1>1, <1>2, PTL DEF Spec

-----------------------------------------------------------------------------
(* Contracts *)

\* How a step changes the current contract and the archive.
LEMMA ContractMoves ==
    ASSUME SettingsTypeOK, [Next]_vars
    PROVE  \/ config'.contract = config.contract /\ config'.history = config.history /\ revived' = revived
           \/ /\ config'.history = config.history
              /\ revived' = (revived \/ (config'.contract # 0 /\ Archived(config'.contract)))
           \/ /\ config'.contract = config.contract /\ revived' = revived
              /\ \E i \in DOMAIN config.history :
                    config'.history = [config.history EXCEPT ![i].rev = This]
           \/ /\ config.contract # 0 /\ config'.contract = 0 /\ revived' = revived
              /\ config'.history = Append(config.history, [contract |-> config.contract, rev |-> 0])
<1>0. config \in Configs
  BY DEF SettingsTypeOK
<1>1. ASSUME NEW r \in Requests, SaveAccount(r)
      PROVE  /\ config'.history = config.history
             /\ revived' = (revived \/ (config'.contract # 0 /\ Archived(config'.contract)))
  <2>1. PICK p \in Pages : \E k \in {form[p], This, 0} :
           /\ Save([Loaded(r) EXCEPT !.plain = This, !.contract = k], [asked EXCEPT !.plain = This, !.contract = k])
           /\ revived' = (revived \/ (k # 0 /\ Archived(k)))
    BY <1>1 DEF SaveAccount
  <2>2. PICK k \in {form[p], This, 0} :
           /\ Save([Loaded(r) EXCEPT !.plain = This, !.contract = k], [asked EXCEPT !.plain = This, !.contract = k])
           /\ revived' = (revived \/ (k # 0 /\ Archived(k)))
    BY <2>1
  <2>3. config' = [config EXCEPT !.plain = This, !.contract = k]
    BY <2>2 DEF Save, Loaded
  <2>4. config'.contract = k /\ config'.history = config.history
    BY <1>0, <2>3 DEF Configs
  <2>. QED
    BY <2>2, <2>4
<1>2. ASSUME NEW r \in Requests, UpdateArchived(r)
      PROVE  /\ config'.contract = config.contract /\ revived' = revived
             /\ \E i \in DOMAIN config.history :
                   config'.history = [config.history EXCEPT ![i].rev = This]
  BY <1>0, <1>2 DEF UpdateArchived, Save, Loaded, Configs
<1>3. ASSUME EndContract
      PROVE  /\ config.contract # 0 /\ config'.contract = 0 /\ revived' = revived
             /\ config'.history = Append(config.history, [contract |-> config.contract, rev |-> 0])
  BY <1>0, <1>3 DEF EndContract, Save, Cleared, Configs
<1>4. ASSUME NEW r \in Requests, Handle(r), ~SaveAccount(r), ~UpdateArchived(r)
      PROVE  /\ config'.contract = config.contract /\ config'.history = config.history
             /\ revived' = revived
  <2>1. CASE SavePlain(r)
    BY <1>0, <2>1 DEF SavePlain, Save, Loaded, Configs
  <2>2. CASE SaveMail(r)
    BY <1>0, <2>2 DEF SaveMail, Save, Loaded, Configs
  <2>3. CASE SaveNotify(r)
    BY <1>0, <2>3 DEF SaveNotify, Save, Loaded, Configs
  <2>4. CASE SaveUser(r)
    BY <1>0, <2>4 DEF SaveUser, Save, Loaded, Configs
  <2>5. CASE \/ Arrive(r) \/ Refuse(r) \/ StoreSecret(r) \/ UserUnchanged(r)
             \/ ChangeUser(r) \/ WriteEnv(r) \/ ApplyEnv(r)
    BY <2>5 DEF Arrive, Refuse, StoreSecret, UserUnchanged, ChangeUser, WriteEnv, ApplyEnv
  <2>. QED
    BY <1>4, <2>1, <2>2, <2>3, <2>4, <2>5 DEF Handle
<1>5. CASE \/ \E p \in Pages : LoadPage(p)
           \/ RestartDashboard \/ RestartScheduler \/ ReadServer \/ ReadPassword \/ UNCHANGED vars
  BY <1>5 DEF LoadPage, RestartDashboard, RestartScheduler, ReadServer, ReadPassword, vars
<1>. QED
  BY <1>1, <1>2, <1>3, <1>4, <1>5 DEF Next

LEMMA EndedStep ==
    ASSUME SettingsTypeOK, EndedStaysEnded, [Next]_vars
    PROVE  EndedStaysEnded'
<1> DEFINE old == config.history
           new == config'.history
<1> SUFFICES ASSUME ~revived'
             PROVE  /\ config'.contract # 0 => ~\E i \in DOMAIN new : new[i].contract = config'.contract
                    /\ \A i, j \in DOMAIN new : new[i].contract = new[j].contract => i = j
  BY DEF EndedStaysEnded, Archived
<1>1. old \in Seq(Entries) /\ revived \in BOOLEAN /\ config.contract \in Nat
  BY DEF SettingsTypeOK, Configs
<1>2. ~revived
  BY <1>1, ContractMoves
<1>3. /\ config.contract # 0 => ~\E i \in DOMAIN old : old[i].contract = config.contract
      /\ \A i, j \in DOMAIN old : old[i].contract = old[j].contract => i = j
  BY <1>2 DEF EndedStaysEnded, Archived
<1>4. CASE config'.contract = config.contract /\ new = old
  BY <1>3, <1>4
<1>5. CASE /\ new = old
           /\ revived' = (revived \/ (config'.contract # 0 /\ Archived(config'.contract)))
  BY <1>3, <1>5 DEF Archived
<1>6. CASE /\ config'.contract = config.contract
           /\ \E i \in DOMAIN old : new = [old EXCEPT ![i].rev = This]
  <2>1. PICK k \in DOMAIN old : new = [old EXCEPT ![k].rev = This]
    BY <1>6
  <2>2. \A i \in DOMAIN old : old[i] \in Entries
    BY <1>1
  <2>3. DOMAIN new = DOMAIN old
    BY <2>1
  <2>4. \A i \in DOMAIN new : new[i].contract = old[i].contract
    BY <2>1, <2>2, <2>3 DEF Entries
  <2>. QED
    BY <1>3, <1>6, <2>3, <2>4
<1>7. CASE /\ config.contract # 0 /\ config'.contract = 0
           /\ new = Append(old, [contract |-> config.contract, rev |-> 0])
  <2>1. /\ Len(new) = Len(old) + 1 /\ DOMAIN new = 1 .. Len(new) /\ DOMAIN old = 1 .. Len(old)
        /\ Len(old) \in Nat
        /\ new[Len(old) + 1].contract = config.contract
        /\ \A i \in 1 .. Len(old) : new[i] = old[i]
    BY <1>1, <1>7, AppendProperties DEF Entries
  <2>2. \A i \in 1 .. Len(old) : new[i].contract # config.contract
    BY <1>3, <1>7, <2>1
  <2>3. \A i \in DOMAIN new : i \in 1 .. Len(old) \/ i = Len(old) + 1
    BY <2>1
  <2>. QED
    BY <1>3, <1>7, <2>1, <2>2, <2>3
<1>. QED
  BY <1>4, <1>5, <1>6, <1>7, <1>2, ContractMoves

\* A contract ended by end_current_contract is archived once, and is the current one
\* again only by a save of a page that still showed it.
THEOREM EndedStaysEndedHolds == Spec => []EndedStaysEnded
<1>1. Init => SettingsTypeOK /\ EndedStaysEnded
  <2>1. Init => EndedStaysEnded
    BY DEF Init, FirstConfig, EndedStaysEnded
  <2>. QED
    BY <2>1, InitType
<1>2. (SettingsTypeOK /\ EndedStaysEnded) /\ [Next]_vars => (SettingsTypeOK /\ EndedStaysEnded)'
  BY NextType, EndedStep
<1>. QED
  BY <1>1, <1>2, PTL DEF Spec

=============================================================================
