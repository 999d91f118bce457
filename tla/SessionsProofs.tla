---------------------------- MODULE SessionsProofs ----------------------------
(***************************************************************************)
(* The properties of Sessions for any number of requests at a time, of     *)
(* changes, links and failures.                                            *)
(***************************************************************************)
EXTENDS Sessions, TLAPS

USE CountsAssumption

-----------------------------------------------------------------------------
(* Types *)

LEMMA IdleType == Idle \in Requests /\ NoChange \in Creds
<1>1. NoChange \in Creds
  BY DEF NoChange, Creds
<1>. QED
  BY <1>1 DEF Idle, Requests, Kinds, Places

LEMMA MergedType ==
    ASSUME NEW old \in Creds, NEW set \in Creds
    PROVE  Merged(old, set) \in Creds
BY DEF Merged, Creds

\* What the steps of one request make of it.
LEMMA RequestType ==
    ASSUME TypeOK, NEW w \in Workers
    PROVE  /\ [req EXCEPT ![w] = Idle] \in [Workers -> Requests]
           /\ \A a \in Places :
                 /\ [req EXCEPT ![w].at = a] \in [Workers -> Requests]
                 /\ \A k \in Kinds : [req EXCEPT ![w].kind = k, ![w].at = a] \in [Workers -> Requests]
                 /\ \A c \in Creds : [req EXCEPT ![w].at = a, ![w].cred = c] \in [Workers -> Requests]
                 /\ \A c \in Creds, n \in BOOLEAN :
                       [req EXCEPT ![w].at = a, ![w].set = c, ![w].note = n] \in [Workers -> Requests]
                 /\ \A k \in Kinds, c, d \in Creds :
                       [req EXCEPT ![w].kind = k, ![w].at = a, ![w].set = c, ![w].cred = d]
                         \in [Workers -> Requests]
<1>1. req \in [Workers -> Requests] /\ req[w] \in Requests
  BY DEF TypeOK
<1>. HIDE DEF TypeOK
<1>2. [req EXCEPT ![w] = Idle] \in [Workers -> Requests]
  BY <1>1, IdleType
<1>3. ASSUME NEW a \in Places
      PROVE  [req EXCEPT ![w].at = a] \in [Workers -> Requests]
  BY <1>1 DEF Requests
<1>4. ASSUME NEW a \in Places, NEW k \in Kinds
      PROVE  [req EXCEPT ![w].kind = k, ![w].at = a] \in [Workers -> Requests]
  BY <1>1 DEF Requests
<1>5. ASSUME NEW a \in Places, NEW c \in Creds
      PROVE  [req EXCEPT ![w].at = a, ![w].cred = c] \in [Workers -> Requests]
  BY <1>1 DEF Requests
<1>6. ASSUME NEW a \in Places, NEW c \in Creds, NEW n \in BOOLEAN
      PROVE  [req EXCEPT ![w].at = a, ![w].set = c, ![w].note = n] \in [Workers -> Requests]
  BY <1>1 DEF Requests
<1>7. ASSUME NEW a \in Places, NEW k \in Kinds, NEW c \in Creds, NEW d \in Creds
      PROVE  [req EXCEPT ![w].kind = k, ![w].at = a, ![w].set = c, ![w].cred = d]
               \in [Workers -> Requests]
  BY <1>1 DEF Requests
<1>. QED
  BY <1>2, <1>3, <1>4, <1>5, <1>6, <1>7, Zenon

LEMMA InitType == Init => TypeOK
<1> SUFFICES ASSUME Init PROVE TypeOK
  OBVIOUS
<1>1. file \in Creds /\ env \in Creds
  BY DEF Init, NoChange, Creds
<1>2. store \in Stores
  BY DEF Init, Stores
<1>3. cookie \in [cred : Creds, sv : Nat, late : BOOLEAN]
  BY IdleType DEF Init, NoCookie
<1>4. req \in [Workers -> Requests]
  BY IdleType DEF Init
<1>5. version \in Nat /\ newest \in Nat /\ slipped \in BOOLEAN /\ apart \in BOOLEAN
  BY DEF Init
<1>6. made \in [creds : Nat, links : 0 .. MaxLinks]
  BY DEF Init
<1>7. uses \in [1 .. MaxLinks -> Nat]
  BY DEF Init
<1>. QED
  BY <1>1, <1>2, <1>3, <1>4, <1>5, <1>6, <1>7 DEF TypeOK

\* What the store becomes.
LEMMA StoreType ==
    ASSUME TypeOK
    PROVE  /\ CheckBlock => store' \in Stores
           /\ Counted => store' \in Stores
           /\ [store EXCEPT !.tries = 0, !.block = "none"] \in Stores
           /\ [store EXCEPT !.version = @ + 1] \in Stores
           /\ \A l \in 1 .. MaxLinks : /\ [store EXCEPT !.links = @ \cup {l}] \in Stores
                                       /\ [store EXCEPT !.links = @ \ {l}] \in Stores
<1>1. store \in Stores
  BY DEF TypeOK
<1>2. CheckBlock => store' \in Stores
  BY <1>1 DEF CheckBlock, Stores
<1>0. 0 \in 0 .. MaxTries - 1
  OBVIOUS
<1>3. [store EXCEPT !.tries = 0, !.block = "none"] \in Stores
  BY <1>0, <1>1 DEF Stores
<1>4. WithFailure(store) \in Stores
  <2>1. CASE store.tries + 1 >= MaxTries
    <3>1. [store EXCEPT !.tries = 0, !.block = "on"] \in Stores
      BY <1>0, <1>1 DEF Stores
    <3>. QED
      BY <2>1, <3>1 DEF WithFailure
  <2>2. CASE ~(store.tries + 1 >= MaxTries)
    <3>1. store.tries + 1 \in 0 .. MaxTries - 1
      BY <1>1, <2>2 DEF Stores
    <3>2. [store EXCEPT !.tries = @ + 1, !.block = "none"] \in Stores
      BY <1>1, <3>1 DEF Stores
    <3>. QED
      BY <2>2, <3>2 DEF WithFailure
  <2>. QED
    BY <2>1, <2>2
<1>5. [store EXCEPT !.version = @ + 1] \in Stores
  BY <1>1 DEF Stores
<1>6. ASSUME NEW l \in 1 .. MaxLinks
      PROVE  /\ [store EXCEPT !.links = @ \cup {l}] \in Stores
             /\ [store EXCEPT !.links = @ \ {l}] \in Stores
  BY <1>1 DEF Stores
<1>. QED
  BY <1>1, <1>2, <1>3, <1>4, <1>5, <1>6 DEF Counted

LEMMA SignInType ==
    ASSUME TypeOK, NEW w \in Workers, SignIn(w)
    PROVE  TypeOK'
<1>0. {"login"} \subseteq Kinds /\ {"verify", "count", "clear", "issue"} \subseteq Places
  BY DEF Kinds, Places
<1>1. CASE LoginArrives(w)
  <2>1. req' \in [Workers -> Requests] /\ store' \in Stores
    BY <1>0, <1>1, RequestType, StoreType, IdleType DEF LoginArrives
  <2>. QED
    BY <1>1, <2>1 DEF LoginArrives, TypeOK, history
<1>2. CASE VerifyLogin(w)
  <2>1. env \in Creds
    BY DEF TypeOK
  <2>2. req' \in [Workers -> Requests]
    <3>1. CASE Step(w, "count")
      BY <1>0, <3>1, RequestType DEF Step
    <3>2. CASE req' = [req EXCEPT ![w].at = "clear", ![w].cred = env]
      BY <1>0, <2>1, <3>2, RequestType
    <3>. QED
      BY <1>2, <3>1, <3>2 DEF VerifyLogin
  <2>. QED
    BY <1>2, <2>2 DEF VerifyLogin, TypeOK, history
<1>3. CASE CountFailure(w)
  BY <1>3, StoreType, IdleType DEF CountFailure, Done, TypeOK, history
<1>4. CASE ClearFailures(w)
  <2>1. req' \in [Workers -> Requests] /\ store' \in Stores
    BY <1>0, <1>4, RequestType, StoreType, IdleType DEF ClearFailures, Step
  <2>. QED
    BY <1>4, <2>1 DEF ClearFailures, TypeOK, history
<1>5. CASE IssueCookie(w)
  <2>1. req[w].cred \in Creds /\ version \in Nat /\ newest \in Nat
    BY DEF TypeOK, Requests
  <2>2. ASSUME NEW b \in BOOLEAN
        PROVE  [cred |-> req[w].cred, sv |-> version, late |-> b]
                 \in [cred : Creds, sv : Nat, late : BOOLEAN]
    BY <2>1
  <2>3. (req[w].cred # env /\ ~Unannounced) \in BOOLEAN
    OBVIOUS
  <2>4. cookie' \in [cred : Creds, sv : Nat, late : BOOLEAN]
    <3>1. CASE cookie' = cookie
      BY <3>1 DEF TypeOK
    <3>2. CASE cookie' # cookie
      BY <1>5, <2>2, <2>3, <3>2 DEF IssueCookie
    <3>. QED
      BY <3>1, <3>2
  <2>5. newest' \in Nat
    BY <1>5, <2>1 DEF IssueCookie
  <2>. QED
    BY <1>5, <2>4, <2>5, IdleType DEF IssueCookie, Done, TypeOK, history
<1>. QED
  BY <1>1, <1>2, <1>3, <1>4, <1>5 DEF SignIn

LEMMA FreshType ==
    ASSUME TypeOK, made.creds < MaxChanges
    PROVE  /\ Fresh \in Nat /\ [made EXCEPT !.creds = Fresh] \in [creds : Nat, links : 0 .. MaxLinks]
           /\ Fresh \in 1 .. MaxChanges
           /\ NewEmail \in Creds /\ NewPassword \in Creds
           /\ [email |-> Fresh, pw |-> Fresh] \in Creds
<1>1. made \in [creds : Nat, links : 0 .. MaxLinks]
  BY DEF TypeOK
<1>2. Fresh \in Nat /\ Fresh \in 1 .. MaxChanges
  BY <1>1 DEF Fresh
<1>. QED
  BY <1>1, <1>2 DEF NewEmail, NewPassword, Creds

LEMMA AccountType ==
    ASSUME TypeOK, NEW w \in Workers, Account(w)
    PROVE  TypeOK'
<1>1. CASE RegisterArrives(w)
  <2>1. req' \in [Workers -> Requests]
    <3>1. "register" \in Kinds /\ "write" \in Places
      BY DEF Kinds, Places
    <3>2. made.creds < MaxChanges
      BY <1>1 DEF RegisterArrives
    <3>. QED
      BY <1>1, <3>1, <3>2, FreshType, RequestType DEF RegisterArrives
  <2>. QED
    BY <1>1, <2>1, FreshType DEF RegisterArrives, TypeOK, history
<1>2. CASE ForgotArrives(w)
  <2>1. "forgot" \in Kinds /\ "ask" \in Places
    BY DEF Kinds, Places
  <2>2. req' \in [Workers -> Requests] /\ store' \in Stores
    BY <1>2, <2>1, RequestType, StoreType, IdleType DEF ForgotArrives
  <2>. QED
    BY <1>2, <2>2 DEF ForgotArrives, TypeOK, history
<1>3. CASE ForgotMistaken(w)
  BY <1>3, StoreType, IdleType DEF ForgotMistaken, Done, TypeOK, history
<1>4. CASE StoreLink(w)
  <2>1. made.links + 1 \in 1 .. MaxLinks
    BY <1>4 DEF StoreLink, TypeOK
  <2>2. store' \in Stores
    BY <1>4, <2>1, StoreType DEF StoreLink, TypeOK
  <2>3. made' \in [creds : Nat, links : 0 .. MaxLinks]
    BY <1>4, <2>1 DEF StoreLink, TypeOK
  <2>. QED
    BY <1>4, <2>2, <2>3, IdleType DEF StoreLink, Done, TypeOK, history
<1>5. CASE ResetArrives(w)
  <2>1. PICK l \in store.links :
            /\ store' = Spent(l)
            /\ req' = [req EXCEPT ![w] = [Idle EXCEPT !.kind = "reset", !.at = "write",
                                     !.link = l, !.set = [email |-> 0, pw |-> Fresh]]]
    BY <1>5 DEF ResetArrives
  <2>2. l \in 1 .. MaxLinks
    BY DEF TypeOK, Stores
  <2>3. [email |-> 0, pw |-> Fresh] \in Creds
    BY <1>5, FreshType DEF ResetArrives, NewPassword
  <2>4. [Idle EXCEPT !.kind = "reset", !.at = "write", !.link = l,
                     !.set = [email |-> 0, pw |-> Fresh]] \in Requests
    <3>1. "reset" \in Kinds /\ "write" \in Places /\ l \in 0 .. MaxLinks
      BY <2>2 DEF Kinds, Places
    <3>. QED
      BY <2>3, <3>1, IdleType DEF Requests
  <2>5. store' \in Stores
    BY <2>1, <2>2, StoreType DEF Spent
  <2>. QED
    BY <1>5, <2>1, <2>4, <2>5, FreshType DEF ResetArrives, TypeOK, history
<1>6. CASE SettingsArrive(w)
  <2>1. {"password", "account", "email"} \subseteq Kinds /\ "json" \in Places
    BY DEF Kinds, Places
  <2>2. req' \in [Workers -> Requests]
    <3>1. PICK k \in Kinds : req' = [req EXCEPT ![w].kind = k, ![w].at = "json"]
      BY <1>6, <2>1 DEF SettingsArrive
    <3>. QED
      BY <2>1, <3>1, RequestType
  <2>. QED
    BY <1>6, <2>2 DEF SettingsArrive, TypeOK, history
<1>7. CASE SettingsRefused(w)
  BY <1>7, IdleType DEF SettingsRefused, Done, TypeOK, history
<1>8. CASE SettingsAccepted(w)
  <2>1. PICK s \in Requested(req[w].kind), n \in BOOLEAN :
            req' = [req EXCEPT ![w].at = "write", ![w].set = s, ![w].note = n]
    BY <1>8 DEF SettingsAccepted
  <2>2. s \in Creds
    BY <1>8, FreshType DEF SettingsAccepted, Requested
  <2>3. req' \in [Workers -> Requests]
    <3>1. "write" \in Places
      BY DEF Places
    <3>. QED
      BY <2>1, <2>2, <3>1, RequestType, IdleType
  <2>. QED
    BY <1>8, <2>3, FreshType DEF SettingsAccepted, TypeOK, history
<1>. QED
  BY <1>1, <1>2, <1>3, <1>4, <1>5, <1>6, <1>7, <1>8 DEF Account

LEMMA ChangeType ==
    ASSUME TypeOK, NEW w \in Workers, Change(w)
    PROVE  TypeOK'
<1>0. req[w] \in Requests /\ req[w].set \in Creds /\ req[w].link \in 0 .. MaxLinks
  BY DEF TypeOK, Requests
<1>1. CASE WriteEnvFile(w)
  <2>1. file' \in Creds
    BY <1>0, <1>1, MergedType DEF WriteEnvFile, TypeOK
  <2>2. apart' \in BOOLEAN
    BY <1>1 DEF WriteEnvFile, TypeOK
  <2>. QED
    <3>1. req' \in [Workers -> Requests]
      BY <1>1, RequestType, IdleType DEF WriteEnvFile, Step, Places
    <3>. QED
      BY <1>1, <2>1, <2>2, <3>1 DEF WriteEnvFile, TypeOK
<1>2. CASE WriteFails(w)
  BY <1>2, IdleType DEF WriteFails, Done, TypeOK, history
<1>3. CASE ApplyRuntimeEnv(w)
  <2>1. env' \in Creds
    BY <1>0, <1>3, MergedType DEF ApplyRuntimeEnv, TypeOK
  <2>2. slipped' \in BOOLEAN
    BY <1>3 DEF ApplyRuntimeEnv, TypeOK
  <2>3. uses' \in [1 .. MaxLinks -> Nat]
    BY <1>0, <1>3 DEF ApplyRuntimeEnv, TypeOK
  <2>4. AfterApply(req[w]) \in Places
    BY DEF AfterApply, Places
  <2>. QED
    <3>1. req' \in [Workers -> Requests]
      BY <1>3, <2>4, RequestType, IdleType DEF ApplyRuntimeEnv, Step
    <3>. QED
      BY <1>3, <2>1, <2>2, <2>3, <3>1 DEF ApplyRuntimeEnv, TypeOK
<1>4. CASE SaveConfig(w)
  <2>1. req' \in [Workers -> Requests]
    <3>1. "bump" \in Places
      BY DEF Places
    <3>2. CASE Step(w, "bump")
      BY <3>1, <3>2, RequestType DEF Step
    <3>3. CASE Done(w)
      BY <3>3, RequestType DEF Done
    <3>. QED
      BY <1>4, <3>2, <3>3 DEF SaveConfig
  <2>. QED
    BY <1>4, <2>1 DEF SaveConfig, TypeOK
<1>5. CASE Rotate(w)
  <2>1. version' \in Nat /\ store' \in Stores
    BY <1>5, StoreType DEF Rotate, TypeOK, Stores
  <2>. QED
    BY <1>5, <2>1, IdleType DEF Rotate, Done, TypeOK
<1>6. CASE RotateRaises(w)
  BY <1>6, IdleType DEF RotateRaises, Done, TypeOK
<1>. QED
  BY <1>1, <1>2, <1>3, <1>4, <1>5, <1>6 DEF Change

LEMMA RestType ==
    ASSUME TypeOK, Logout \/ TimePasses \/ LinkExpires \/ Restart \/ UNCHANGED vars
    PROVE  TypeOK'
<1>1. CASE Logout
  BY <1>1, IdleType DEF Logout, NoCookie, TypeOK, history
<1>2. CASE TimePasses
  <2>1. store' \in Stores
    <3>1. store \in Stores /\ store.tries \in 0 .. MaxTries - 1
      BY DEF TypeOK, Stores
    <3> DEFINE n == IF store.tries > 0 THEN store.tries - 1 ELSE 0
               b == CASE store.block = "on" -> "last"
                      [] store.block \in {"last", "past"} -> "past"
                      [] OTHER -> "none"
    <3>2. n \in 0 .. MaxTries - 1
      BY <3>1
    <3>3. b \in {"none", "on", "last", "past"}
      OBVIOUS
    <3>4. store' = [store EXCEPT !.tries = n, !.block = b]
      BY <1>2 DEF TimePasses
    <3>. HIDE DEF n, b
    <3>. QED
      BY <3>1, <3>2, <3>3, <3>4 DEF Stores
  <2>. QED
    BY <1>2, <2>1 DEF TimePasses, TypeOK, history
<1>3. CASE LinkExpires
  <2>1. store' \in Stores
    BY <1>3, StoreType DEF LinkExpires, TypeOK, Stores
  <2>. QED
    BY <1>3, <2>1 DEF LinkExpires, TypeOK, history
<1>4. CASE Restart
  <2>1. version' \in Nat
    BY <1>4 DEF Restart, VersionAtStart, TypeOK, Stores
  <2>2. slipped' \in BOOLEAN
    BY <1>4 DEF Restart, TypeOK
  <2>. QED
    BY <1>4, <2>1, <2>2, IdleType DEF Restart, TypeOK
<1>5. CASE UNCHANGED vars
  BY <1>5 DEF vars, TypeOK
<1>. QED
  BY <1>1, <1>2, <1>3, <1>4, <1>5

LEMMA StepType ==
    ASSUME TypeOK, [Next]_vars
    PROVE  TypeOK'
BY SignInType, AccountType, ChangeType, RestType DEF Next

\* The state stays in its types: the failures of an address within their limit, the
\* credentials and links among those that were made.
THEOREM TypeCorrect == Spec => []TypeOK
BY InitType, StepType, PTL DEF Spec

-----------------------------------------------------------------------------
(* How a step moves its request *)

\* What each step leaves of the request it does not finish, and of the others.
LEMMA Moved ==
    ASSUME TypeOK, NEW w \in Workers
    PROVE  /\ \A a : Step(w, a) =>
                 /\ \A v \in Workers \ {w} : req'[v] = req[v]
                 /\ req'[w].at = a /\ req'[w].kind = req[w].kind /\ req'[w].cred = req[w].cred
                 /\ req'[w].set = req[w].set /\ req'[w].link = req[w].link
           /\ Done(w) => (\A v \in Workers \ {w} : req'[v] = req[v]) /\ req'[w] = Idle
<1>1. req \in [Workers -> Requests] /\ req[w] \in Requests
  BY DEF TypeOK
<1>. HIDE DEF TypeOK
<1>2. ASSUME NEW a, Step(w, a)
      PROVE  /\ \A v \in Workers \ {w} : req'[v] = req[v]
             /\ req'[w].at = a /\ req'[w].kind = req[w].kind /\ req'[w].cred = req[w].cred
             /\ req'[w].set = req[w].set /\ req'[w].link = req[w].link
  BY <1>1, <1>2 DEF Step, Requests
<1>3. ASSUME Done(w)
      PROVE  (\A v \in Workers \ {w} : req'[v] = req[v]) /\ req'[w] = Idle
  BY <1>1, <1>3 DEF Done
<1>. QED
  BY <1>2, <1>3, Zenon

\* A sign-in touches neither credentials nor links, and only its end issues a cookie.
LEMMA SignInMoves ==
    ASSUME TypeOK, NEW w \in Workers, SignIn(w)
    PROVE  /\ \A v \in Workers \ {w} : req'[v] = req[v]
           /\ req[w].at \in {"idle", "verify", "count", "clear", "issue"}
           /\ req'[w].at \in {"idle", "verify", "count", "clear", "issue"}
           /\ req'[w].link # 0 => req'[w].link = req[w].link /\ req[w].at \in {"idle", "verify", "clear"}
           /\ req'[w].at \in {"verify", "clear", "issue"} =>
                 ~SetupMode \/ req[w].at \in {"verify", "clear"}
           /\ IssueCookie(w) \/ UNCHANGED <<cookie, newest>>
           /\ UNCHANGED <<file, env, version, made, slipped, apart, uses>>
           /\ store'.version = store.version /\ store'.links = store.links
<1>0. /\ store \in Stores /\ Idle.at = "idle" /\ Idle.link = 0
      /\ req \in [Workers -> Requests] /\ req[w] \in Requests
  BY DEF TypeOK, Idle
<1>1. CASE LoginArrives(w)
  <2>1. /\ \A v \in Workers \ {w} : req'[v] = req[v]
        /\ req'[w].at = "verify" /\ req'[w].link = req[w].link
    BY <1>0, <1>1 DEF LoginArrives, Requests
  <2>. QED
    BY <1>0, <1>1, <2>1 DEF LoginArrives, CheckBlock, Stores, history
<1>2. CASE VerifyLogin(w)
  <2>1. /\ \A v \in Workers \ {w} : req'[v] = req[v]
        /\ req'[w].at \in {"clear", "count"} /\ req'[w].link = req[w].link
    BY <1>0, <1>2 DEF VerifyLogin, Step, Requests
  <2>. QED
    BY <1>0, <1>2, <2>1 DEF VerifyLogin, At, history
<1>3. CASE CountFailure(w)
  <2>1. store'.version = store.version /\ store'.links = store.links
    BY <1>0, <1>3 DEF CountFailure, Counted, WithFailure, Stores
  <2>. QED
    BY <1>0, <1>3, <2>1, Moved DEF CountFailure, At, history
<1>4. CASE ClearFailures(w)
  BY <1>0, <1>4, Moved DEF ClearFailures, At, Stores, history
<1>5. CASE IssueCookie(w)
  BY <1>0, <1>5, Moved DEF IssueCookie, history
<1>. QED
  BY <1>1, <1>2, <1>3, <1>4, <1>5 DEF SignIn

\* The requests about the account up to their first write.
LEMMA AccountMoves ==
    ASSUME TypeOK, NEW w \in Workers, Account(w)
    PROVE  /\ \A v \in Workers \ {w} : req'[v] = req[v]
           /\ req[w].at \in {"idle", "ask", "json"} /\ req'[w].at \in {"idle", "ask", "json", "write"}
           /\ req'[w].kind = "register" /\ req'[w].at = "write" => req'[w].set.pw # 0
           /\ req'[w].link # 0 => \/ req'[w].link = req[w].link
                                  \/ ResetArrives(w) /\ req'[w].at = "write"
           /\ UNCHANGED <<file, env, version, cookie, newest, slipped, apart, uses>>
           /\ store'.version = store.version
           /\ StoreLink(w) \/ ResetArrives(w) \/ (store'.links = store.links /\ made'.links = made.links)
<1>0. /\ store \in Stores /\ Idle.at = "idle" /\ Idle.link = 0
      /\ made \in [creds : Nat, links : 0 .. MaxLinks]
      /\ req \in [Workers -> Requests] /\ req[w] \in Requests
  BY DEF TypeOK, Idle
<1>1. CASE RegisterArrives(w)
  <2>1. Fresh # 0 /\ made'.links = made.links
    BY <1>0, <1>1 DEF RegisterArrives, Fresh
  <2>2. /\ \A v \in Workers \ {w} : req'[v] = req[v]
        /\ req'[w].at = "write" /\ req'[w].link = req[w].link
        /\ req'[w].set = [email |-> Fresh, pw |-> Fresh]
    BY <1>0, <1>1 DEF RegisterArrives, Requests
  <2>. QED
    BY <1>0, <1>1, <2>1, <2>2 DEF RegisterArrives, history
<1>2. CASE ForgotArrives(w)
  <2>1. /\ \A v \in Workers \ {w} : req'[v] = req[v]
        /\ req'[w].at = "ask" /\ req'[w].link = req[w].link
    BY <1>0, <1>2 DEF ForgotArrives, Requests
  <2>. QED
    BY <1>0, <1>2, <2>1 DEF ForgotArrives, CheckBlock, Stores, history
<1>3. CASE ForgotMistaken(w)
  <2>1. store'.version = store.version /\ store'.links = store.links
    BY <1>0, <1>3 DEF ForgotMistaken, Counted, WithFailure, Stores
  <2>. QED
    BY <1>0, <1>3, <2>1, Moved DEF ForgotMistaken, At, history
<1>4. CASE StoreLink(w)
  <2>1. store'.version = store.version
    BY <1>0, <1>4 DEF StoreLink, Stores
  <2>. QED
    BY <1>0, <1>4, <2>1, Moved DEF StoreLink, At, history
<1>5. CASE ResetArrives(w)
  <2>1. PICK l \in store.links :
            /\ store' = Spent(l)
            /\ req' = [req EXCEPT ![w] = [Idle EXCEPT !.kind = "reset", !.at = "write",
                                     !.link = l, !.set = [email |-> 0, pw |-> Fresh]]]
    BY <1>5 DEF ResetArrives
  <2>2. (\A v \in Workers \ {w} : req'[v] = req[v]) /\ req'[w].at = "write" /\ req'[w].kind = "reset"
    BY <2>1 DEF TypeOK, Idle
  <2>3. store'.version = store.version
    BY <1>0, <2>1 DEF Spent, Stores
  <2>. QED
    BY <1>0, <1>5, <2>2, <2>3 DEF ResetArrives, history
<1>6. CASE SettingsArrive(w)
  <2>1. /\ \A v \in Workers \ {w} : req'[v] = req[v]
        /\ req'[w].at = "json" /\ req'[w].link = req[w].link
    BY <1>0, <1>6 DEF SettingsArrive, Requests
  <2>. QED
    BY <1>0, <1>6, <2>1 DEF SettingsArrive, history
<1>7. CASE SettingsRefused(w)
  BY <1>0, <1>7, Moved DEF SettingsRefused, history
<1>8. CASE SettingsAccepted(w)
  <2>1. req[w].kind # "register" /\ made'.links = made.links
    BY <1>0, <1>8 DEF SettingsAccepted, Requested
  <2>2. /\ \A v \in Workers \ {w} : req'[v] = req[v]
        /\ req'[w].at = "write" /\ req'[w].link = req[w].link /\ req'[w].kind = req[w].kind
    BY <1>0, <1>8 DEF SettingsAccepted, Requests
  <2>. QED
    BY <1>0, <1>8, <2>1, <2>2 DEF SettingsAccepted, history
<1>. QED
  BY <1>1, <1>2, <1>3, <1>4, <1>5, <1>6, <1>7, <1>8 DEF Account

-----------------------------------------------------------------------------
(* Versions *)

VersionsOrdered == version <= store.version /\ cookie.sv <= version

\* No step lowers the version or gives the browser a session of a later one.
LEMMA VersionStep ==
    ASSUME TypeOK, VersionsOrdered, [Next]_vars
    PROVE  VersionsOrdered' /\ version <= version'
<1>0. /\ version \in Nat /\ store \in Stores /\ store.version \in Nat
      /\ cookie \in [cred : Creds, sv : Nat, late : BOOLEAN] /\ cookie.sv \in Nat
  BY DEF TypeOK, Stores
<1>1. ASSUME NEW w \in Workers, SignIn(w) PROVE VersionsOrdered' /\ version <= version'
  <2>1. cookie'.sv = version \/ cookie' = cookie
    BY <1>1, SignInMoves DEF IssueCookie
  <2>. QED
    BY <1>0, <1>1, <2>1, SignInMoves DEF VersionsOrdered
<1>2. ASSUME NEW w \in Workers, Account(w) PROVE VersionsOrdered' /\ version <= version'
  BY <1>0, <1>2, AccountMoves DEF VersionsOrdered
<1>3. ASSUME NEW w \in Workers, Change(w) PROVE VersionsOrdered' /\ version <= version'
  <2>1. CASE Rotate(w)
    <3>1. store'.version = store.version + 1
      BY <1>0, <2>1 DEF Rotate, Stores
    <3>. QED
      BY <1>0, <2>1, <3>1 DEF Rotate, VersionsOrdered
  <2>2. CASE ~Rotate(w)
    BY <1>0, <1>3, <2>2
       DEF Change, WriteEnvFile, WriteFails, ApplyRuntimeEnv, SaveConfig, RotateRaises, VersionsOrdered
  <2>. QED
    BY <2>1, <2>2
<1>4. CASE Restart
  BY <1>0, <1>4 DEF Restart, VersionAtStart, VersionsOrdered
<1>5. CASE Logout \/ TimePasses \/ LinkExpires \/ UNCHANGED vars
  <2>1. version' = version /\ store'.version = store.version /\ cookie'.sv \in {0, cookie.sv}
    <3>1. CASE Logout \/ UNCHANGED vars
      BY <3>1 DEF Logout, NoCookie, vars
    <3>2. CASE TimePasses
      BY <1>0, <3>2 DEF TimePasses, Stores
    <3>3. CASE LinkExpires
      BY <1>0, <3>3 DEF LinkExpires, Stores
    <3>. QED
      BY <1>5, <3>1, <3>2, <3>3
  <2>. QED
    BY <1>0, <2>1 DEF VersionsOrdered
<1>. QED
  BY <1>1, <1>2, <1>3, <1>4, <1>5 DEF Next

LEMMA InitVersions == Init => VersionsOrdered
BY DEF Init, VersionsOrdered, NoCookie

\* A refused session stays refused over any number of rotations, restarts and failures.
THEOREM RefusedForGoodHolds == Spec => RefusedForGood
<1>1. ASSUME TypeOK, VersionsOrdered, [Next]_vars
      PROVE  ~Accepted(cookie) /\ cookie' = cookie => ~Accepted(cookie)'
  <2>1. /\ version \in Nat /\ version' \in Nat /\ cookie.sv \in Nat /\ version <= version'
    BY <1>1, StepType, VersionStep DEF TypeOK
  <2>. QED
    BY <2>1 DEF Accepted
<1>. QED
  BY <1>1, InitType, StepType, InitVersions, VersionStep, PTL DEF Spec, RefusedForGood

\* No late failure cuts a block short, however many requests fail at once.
THEOREM BlockHoldsAlways == Spec => BlockHolds
<1>1. ASSUME TypeOK, [Next]_vars, store.block = "on"
      PROVE  \/ store'.block \in {"on", "last"}
             \/ \E w \in Workers : req[w].at = "clear" /\ req'[w].at = "issue"
  <2>0. store \in Stores
    BY <1>1 DEF TypeOK
  <2>1. ASSUME NEW w \in Workers, SignIn(w) \/ Account(w) \/ Change(w), ~ClearFailures(w)
        PROVE  store'.block = "on"
    <3>1. CASE CheckBlock \/ Counted \/ store' = store
      BY <1>1, <2>0, <3>1 DEF CheckBlock, Counted, Stores
    <3>2. CASE StoreLink(w) \/ ResetArrives(w) \/ Rotate(w)
      BY <1>1, <2>0, <3>2 DEF StoreLink, ResetArrives, Spent, Rotate, Stores
    <3>. QED
      BY <2>1, <3>1, <3>2
         DEF SignIn, Account, Change, LoginArrives, VerifyLogin, CountFailure, IssueCookie,
             RegisterArrives, ForgotArrives, ForgotMistaken, SettingsArrive, SettingsRefused,
             SettingsAccepted, WriteEnvFile, WriteFails, ApplyRuntimeEnv, SaveConfig,
             RotateRaises, history
  <2>2. ASSUME NEW w \in Workers, ClearFailures(w)
        PROVE  req[w].at = "clear" /\ req'[w].at = "issue"
    BY <1>1, <2>2, Moved DEF ClearFailures, At
  <2>3. CASE Logout \/ Restart \/ UNCHANGED vars
    BY <1>1, <2>3 DEF Logout, Restart, vars
  <2>4. CASE TimePasses \/ LinkExpires
    BY <1>1, <2>0, <2>4 DEF TimePasses, LinkExpires, Stores
  <2>. QED
    BY <1>1, <2>1, <2>2, <2>3, <2>4 DEF Next
<1>. QED
  BY <1>1, InitType, StepType, PTL DEF Spec, BlockHolds

-----------------------------------------------------------------------------
(* File and environment *)

Applying(w) == req[w].at = "apply"

\* Of what is not yet in the environment, the file holds what one request sets.
FileAhead ==
    /\ \A w \in Workers : Applying(w) =>
          /\ req[w].set.email # 0 => file.email = req[w].set.email
          /\ req[w].set.pw # 0 => file.pw = req[w].set.pw
    /\ \A v, w \in Workers :
          v # w /\ Applying(v) /\ Applying(w) => ~Overlap(req[v].set, req[w].set)
    /\ (\A w \in Workers : Applying(w) => req[w].set.email = 0) => file.email = env.email
    /\ (\A w \in Workers : Applying(w) => req[w].set.pw = 0) => file.pw = env.pw

FileInv == ~apart => FileAhead

\* A step that neither writes the file nor applies it.
LEMMA FileFrame ==
    ASSUME FileInv, UNCHANGED <<file, env, apart>>,
           \A w \in Workers : req'[w] = req[w] \/ (~Applying(w) /\ ~Applying(w)')
    PROVE  FileInv'
BY DEF FileInv, FileAhead, Applying

LEMMA WriteKeepsFile ==
    ASSUME TypeOK, FileInv, NEW w \in Workers, WriteEnvFile(w)
    PROVE  FileInv'
<1> SUFFICES ASSUME ~apart' PROVE FileAhead'
  BY DEF FileInv
<1>1. /\ ~apart /\ ~Applying(w) /\ env' = env
      /\ \A v \in Workers \ {w} : Applying(v) => ~Overlap(req[v].set, req[w].set)
  BY DEF WriteEnvFile, Applying
<1>2. /\ \A v \in Workers \ {w} : req'[v] = req[v]
      /\ req'[w].at = "apply" /\ req'[w].set = req[w].set
  BY Moved DEF WriteEnvFile
<1>3. /\ file'.email = IF req[w].set.email = 0 THEN file.email ELSE req[w].set.email
      /\ file'.pw = IF req[w].set.pw = 0 THEN file.pw ELSE req[w].set.pw
  BY DEF WriteEnvFile, Merged
<1>4. FileAhead
  BY <1>1 DEF FileInv
<1>5. ASSUME NEW v \in Workers, Applying(v)'
      PROVE  /\ req'[v].set.email # 0 => file'.email = req'[v].set.email
             /\ req'[v].set.pw # 0 => file'.pw = req'[v].set.pw
  BY <1>1, <1>2, <1>3, <1>4, <1>5 DEF FileAhead, Overlap, Applying
<1>6. ASSUME NEW u \in Workers, NEW v \in Workers, u # v, Applying(u)', Applying(v)'
      PROVE  ~Overlap(req'[u].set, req'[v].set)
  BY <1>1, <1>2, <1>4, <1>6 DEF FileAhead, Overlap, Applying
<1>7. (\A v \in Workers : Applying(v)' => req'[v].set.email = 0) => file'.email = env'.email
  BY <1>1, <1>2, <1>3, <1>4 DEF FileAhead, Applying
<1>8. (\A v \in Workers : Applying(v)' => req'[v].set.pw = 0) => file'.pw = env'.pw
  BY <1>1, <1>2, <1>3, <1>4 DEF FileAhead, Applying
<1>. QED
  BY <1>5, <1>6, <1>7, <1>8 DEF FileAhead

LEMMA ApplyKeepsFile ==
    ASSUME TypeOK, FileInv, NEW w \in Workers, ApplyRuntimeEnv(w)
    PROVE  FileInv'
<1> SUFFICES ASSUME ~apart' PROVE FileAhead'
  BY DEF FileInv
<1>1. ~apart /\ Applying(w) /\ file' = file /\ FileAhead
  BY DEF ApplyRuntimeEnv, Applying, FileInv
<1>2. (\A v \in Workers \ {w} : req'[v] = req[v]) /\ ~Applying(w)'
  BY Moved DEF ApplyRuntimeEnv, AfterApply, Applying
<1>3. /\ env'.email = IF req[w].set.email = 0 THEN env.email ELSE req[w].set.email
      /\ env'.pw = IF req[w].set.pw = 0 THEN env.pw ELSE req[w].set.pw
  BY DEF ApplyRuntimeEnv, Merged
<1>4. /\ \A v \in Workers : Applying(v)' => v # w /\ Applying(v) /\ req'[v].set = req[v].set
      /\ \A v \in Workers \ {w} : Applying(v) => Applying(v)'
  BY <1>2 DEF Applying
<1>5. (\A v \in Workers : Applying(v)' => req'[v].set.email = 0) => file'.email = env'.email
  BY <1>1, <1>3, <1>4 DEF FileAhead
<1>6. (\A v \in Workers : Applying(v)' => req'[v].set.pw = 0) => file'.pw = env'.pw
  BY <1>1, <1>3, <1>4 DEF FileAhead
<1>. QED
  BY <1>1, <1>4, <1>5, <1>6 DEF FileAhead

LEMMA FileStep ==
    ASSUME TypeOK, FileInv, [Next]_vars
    PROVE  FileInv'
<1>1. ASSUME NEW w \in Workers, SignIn(w) PROVE FileInv'
  BY <1>1, SignInMoves, FileFrame DEF Applying
<1>2. ASSUME NEW w \in Workers, Account(w) PROVE FileInv'
  BY <1>2, AccountMoves, FileFrame DEF Applying
<1>3. ASSUME NEW w \in Workers, Change(w) PROVE FileInv'
  <2>1. CASE WriteFails(w) \/ SaveConfig(w) \/ Rotate(w) \/ RotateRaises(w)
    <3>1. UNCHANGED <<file, env, apart>> /\ ~Applying(w)
      BY <2>1 DEF WriteFails, SaveConfig, Rotate, RotateRaises, history, Applying
    <3>2. (\A v \in Workers \ {w} : req'[v] = req[v]) /\ ~Applying(w)'
      BY <2>1, Moved DEF WriteFails, SaveConfig, Rotate, RotateRaises, Applying, Idle
    <3>. QED
      BY <3>1, <3>2, FileFrame
  <2>. QED
    BY <1>3, <2>1, WriteKeepsFile, ApplyKeepsFile DEF Change
<1>4. CASE Restart
  BY <1>4 DEF Restart, FileInv, FileAhead, Applying, Idle
<1>5. CASE Logout \/ TimePasses \/ LinkExpires \/ UNCHANGED vars
  BY <1>5, FileFrame DEF Logout, TimePasses, LinkExpires, vars, history
<1>. QED
  BY <1>1, <1>2, <1>3, <1>4, <1>5 DEF Next

LEMMA InitFile == Init => FileInv
BY DEF Init, FileInv, FileAhead, Applying, Idle

\* .env and the environment agree while no change is between them, for any number of
\* requests, unless two changes of the same key have crossed.
THEOREM FileMatchesEnvironmentHolds == Spec => []FileMatchesEnvironment
<1>1. ASSUME TypeOK, FileInv PROVE FileMatchesEnvironment
  <2> SUFFICES ASSUME \A w \in Workers : ~Applying(w), ~apart PROVE file = env
    BY DEF FileMatchesEnvironment, Applying
  <2>1. file.email = env.email /\ file.pw = env.pw
    BY <1>1 DEF FileInv, FileAhead
  <2>. QED
    BY <1>1, <2>1 DEF TypeOK, Creds
<1>. QED
  BY <1>1, InitType, StepType, InitFile, FileStep, PTL DEF Spec

-----------------------------------------------------------------------------
(* Reset links *)

Holds(w, l) == req[w].link = l /\ req[w].at \in {"write", "apply"}

\* A link is with the store, then with one request, then used, in this order.
LinkInv ==
    /\ \A w \in Workers :
          req[w].link # 0 => req[w].at \in {"write", "apply", "issue", "save", "bump"}
    /\ \A l \in 1 .. MaxLinks :
          /\ uses[l] \in {0, 1}
          /\ l > made.links => l \notin store.links /\ uses[l] = 0 /\ \A w \in Workers : ~Holds(w, l)
          /\ l \in store.links => uses[l] = 0 /\ \A w \in Workers : ~Holds(w, l)
          /\ \A w \in Workers : Holds(w, l) => uses[l] = 0
          /\ \A v, w \in Workers : Holds(v, l) /\ Holds(w, l) => v = w

\* A step that hands out no link and uses none.
LEMMA LinkFrame ==
    ASSUME LinkInv, UNCHANGED uses, made'.links = made.links, store'.links \subseteq store.links,
           \A w \in Workers :
              /\ req'[w].link # 0 => req'[w].at \in {"write", "apply", "issue", "save", "bump"}
              /\ \A l \in 1 .. MaxLinks : Holds(w, l)' => Holds(w, l)
    PROVE  LinkInv'
BY DEF LinkInv

LEMMA AccountKeepsLinks ==
    ASSUME TypeOK, LinkInv, NEW w \in Workers, Account(w)
    PROVE  LinkInv'
<1>0. /\ store \in Stores /\ store.links \subseteq 1 .. MaxLinks
      /\ made \in [creds : Nat, links : 0 .. MaxLinks] /\ made.links \in 0 .. MaxLinks
  BY DEF TypeOK, Stores
<1>1. req[w].link = 0
  BY AccountMoves DEF LinkInv
<1>2. \A v \in Workers \ {w} : req'[v] = req[v] /\ \A l \in 1 .. MaxLinks : Holds(v, l)' <=> Holds(v, l)
  BY AccountMoves DEF Holds
<1>3. UNCHANGED uses
  BY AccountMoves
<1>4. CASE StoreLink(w)
  <2>1. req'[w] = Idle /\ Idle.link = 0
    BY <1>4, Moved DEF StoreLink, Idle
  <2>2. CASE UNCHANGED <<store, made>>
    BY <1>2, <1>3, <2>1, <2>2, LinkFrame DEF LinkInv, Holds
  <2>3. CASE ~UNCHANGED <<store, made>>
    <3>1. store'.links = store.links \cup {made.links + 1} /\ made'.links = made.links + 1
      BY <1>0, <1>4, <2>3 DEF StoreLink, Stores
    <3>2. \A v \in Workers, l \in 1 .. MaxLinks : Holds(v, l)' => Holds(v, l)
      BY <1>2, <2>1 DEF Holds
    <3>3. \A v \in Workers :
             req'[v].link # 0 => req'[v].at \in {"write", "apply", "issue", "save", "bump"}
      BY <1>2, <2>1 DEF LinkInv
    <3>4. ASSUME NEW l \in 1 .. MaxLinks
          PROVE  /\ l > made'.links => l > made.links /\ l \notin store'.links
                 /\ l \in store'.links => l \in store.links \/ l > made.links
      <4>1. l > made.links + 1 => l > made.links /\ l # made.links + 1
        BY <1>0
      <4>2. l = made.links + 1 => l > made.links
        BY <1>0
      <4>3. l > made.links => l \notin store.links
        BY DEF LinkInv
      <4>. QED
        BY <3>1, <4>1, <4>2, <4>3
    <3>. QED
      BY <1>3, <3>2, <3>3, <3>4 DEF LinkInv
  <2>. QED
    BY <2>2, <2>3
<1>5. CASE ResetArrives(w)
  <2>1. PICK l \in store.links :
            /\ store' = Spent(l)
            /\ req' = [req EXCEPT ![w] = [Idle EXCEPT !.kind = "reset", !.at = "write",
                                     !.link = l, !.set = [email |-> 0, pw |-> Fresh]]]
    BY <1>5 DEF ResetArrives
  <2>2. req'[w].link = l /\ req'[w].at = "write"
    BY <2>1 DEF TypeOK, Idle
  <2>3. store'.links = store.links \ {l} /\ made'.links = made.links /\ l \in 1 .. MaxLinks
    BY <1>0, <1>5, <2>1 DEF Spent, Stores, ResetArrives
  <2>4. /\ \A k \in 1 .. MaxLinks : Holds(w, k)' => k = l
        /\ uses[l] = 0 /\ ~(l > made.links) /\ \A v \in Workers : ~Holds(v, l)
    BY <2>2, <2>3 DEF LinkInv, Holds
  <2>5. \A v \in Workers :
           req'[v].link # 0 => req'[v].at \in {"write", "apply", "issue", "save", "bump"}
    BY <1>2, <2>2 DEF LinkInv
  <2>. QED
    BY <1>2, <1>3, <2>3, <2>4, <2>5 DEF LinkInv
<1>6. CASE ~StoreLink(w) /\ ~ResetArrives(w)
  <2>1. req'[w].link = 0
    BY <1>1, <1>6, AccountMoves
  <2>2. store'.links = store.links /\ made'.links = made.links
    BY <1>6, AccountMoves
  <2>. QED
    BY <1>2, <1>3, <2>1, <2>2, LinkFrame DEF LinkInv, Holds
<1>. QED
  BY <1>4, <1>5, <1>6

LEMMA ApplyKeepsLinks ==
    ASSUME TypeOK, LinkInv, NEW w \in Workers, ApplyRuntimeEnv(w)
    PROVE  LinkInv'
<1>1. /\ \A v \in Workers \ {w} : req'[v] = req[v]
      /\ req'[w].at \in {"issue", "save", "bump"} /\ req'[w].link = req[w].link
      /\ UNCHANGED <<store, made>> /\ req[w].at = "apply" /\ req[w].link \in 0 .. MaxLinks
  BY Moved DEF ApplyRuntimeEnv, AfterApply, TypeOK, Requests
<1>2. \A l \in 1 .. MaxLinks : ~Holds(w, l)' /\ \A v \in Workers \ {w} : Holds(v, l)' <=> Holds(v, l)
  BY <1>1 DEF Holds
<1>3. \A v \in Workers :
         req'[v].link # 0 => req'[v].at \in {"write", "apply", "issue", "save", "bump"}
  BY <1>1 DEF LinkInv
<1>4. CASE req[w].link = 0
  <2>1. uses' = uses
    BY <1>4 DEF ApplyRuntimeEnv
  <2>. QED
    BY <1>1, <1>2, <1>3, <2>1 DEF LinkInv
<1>5. CASE req[w].link # 0
  <2> DEFINE l == req[w].link
  <2>1. l \in 1 .. MaxLinks /\ Holds(w, l)
    BY <1>1, <1>5 DEF Holds
  <2>2. uses[l] = 0 /\ uses' = [uses EXCEPT ![l] = uses[l] + 1]
    BY <1>5, <2>1 DEF ApplyRuntimeEnv, LinkInv
  <2>3. uses'[l] = 1 /\ \A k \in 1 .. MaxLinks : k # l => uses'[k] = uses[k]
    BY <2>1, <2>2 DEF TypeOK
  <2>. HIDE DEF l
  <2>4. /\ \A v \in Workers \ {w} : ~Holds(v, l)
        /\ ~(l > made.links) /\ l \notin store.links
    BY <2>1 DEF LinkInv
  <2>. QED
    BY <1>1, <1>2, <1>3, <2>1, <2>3, <2>4 DEF LinkInv
<1>. QED
  BY <1>4, <1>5

LEMMA LinkStep ==
    ASSUME TypeOK, LinkInv, [Next]_vars
    PROVE  LinkInv'
<1>0. Idle.link = 0 /\ store \in Stores
  BY DEF Idle, TypeOK
<1>1. ASSUME NEW w \in Workers, SignIn(w) PROVE LinkInv'
  <2>1. req'[w].link = 0
    BY <1>1, SignInMoves DEF LinkInv
  <2>. QED
    BY <1>1, <2>1, SignInMoves, LinkFrame DEF LinkInv, Holds
<1>2. ASSUME NEW w \in Workers, Change(w) PROVE LinkInv'
  <2>1. CASE ApplyRuntimeEnv(w)
    BY <2>1, ApplyKeepsLinks
  <2>2. CASE ~ApplyRuntimeEnv(w)
    <3>1. store'.links = store.links /\ UNCHANGED <<uses, made>>
      BY <1>0, <1>2, <2>2
         DEF Change, WriteEnvFile, WriteFails, SaveConfig, Rotate, RotateRaises, Stores, history
    <3>2. /\ \A v \in Workers \ {w} : req'[v] = req[v]
          /\ \/ req'[w] = Idle
             \/ req'[w].link = req[w].link /\ req[w].at = "write" /\ req'[w].at = "apply"
             \/ req'[w].link = req[w].link /\ req[w].at = "save" /\ req'[w].at = "bump"
      BY <1>2, <2>2, Moved DEF Change, WriteEnvFile, WriteFails, SaveConfig, Rotate, RotateRaises
    <3>. QED
      BY <1>0, <3>1, <3>2, LinkFrame DEF LinkInv, Holds
  <2>. QED
    BY <2>1, <2>2
<1>3. CASE Restart
  <2>1. \A w \in Workers : req'[w] = Idle
    BY <1>3 DEF Restart
  <2>. QED
    BY <1>0, <1>3, <2>1, LinkFrame DEF Restart, Holds
<1>4. CASE Logout \/ TimePasses \/ LinkExpires \/ UNCHANGED vars
  <2>1. UNCHANGED <<uses, made, req>>
    BY <1>4 DEF Logout, TimePasses, LinkExpires, vars, history
  <2>2. store'.links \subseteq store.links
    <3>1. CASE Logout \/ UNCHANGED vars
      BY <3>1 DEF Logout, vars
    <3>2. CASE TimePasses
      BY <1>0, <3>2 DEF TimePasses, Stores
    <3>3. CASE LinkExpires
      BY <1>0, <3>3 DEF LinkExpires, Stores
    <3>. QED
      BY <1>4, <3>1, <3>2, <3>3
  <2>. QED
    BY <2>1, <2>2, LinkFrame DEF LinkInv, Holds
<1>. QED
  BY <1>1, <1>2, <1>3, <1>4, AccountKeepsLinks DEF Next

LEMMA InitLinks == Init => LinkInv
BY DEF Init, LinkInv, Holds, Idle

\* A reset link changes the password at most once, for any number of requests that have
\* it, restarts and failures.
THEOREM LinkChangesOnceHolds == Spec => []LinkChangesOnce
<1>1. LinkInv => LinkChangesOnce
  BY DEF LinkInv, LinkChangesOnce
<1>. QED
  BY <1>1, InitType, StepType, InitLinks, LinkStep, PTL DEF Spec

-----------------------------------------------------------------------------
(* Sessions and credentials *)

\* Before there is an account there is no session and nobody signing in.
SetupInv ==
    /\ env.pw # 0 => file.pw # 0
    /\ SetupMode => /\ cookie.sv = 0
                    /\ \A w \in Workers : req[w].at \notin {"verify", "clear", "issue"}
    /\ \A w \in Workers :
          /\ req[w].kind = "register" /\ req[w].at \in {"write", "apply"} => req[w].set.pw # 0
          /\ Applying(w) /\ req[w].set.pw # 0 => file.pw # 0

LEMMA SetupStep ==
    ASSUME TypeOK, SetupInv, [Next]_vars
    PROVE  SetupInv'
<1>0. Idle.at = "idle" /\ \A v \in Workers : req[v] \in Requests
  BY DEF Idle, TypeOK
<1>1. ASSUME NEW w \in Workers, SignIn(w) PROVE SetupInv'
  <2>1. UNCHANGED cookie \/ ~SetupMode
    BY <1>1, SignInMoves DEF IssueCookie, SetupInv
  <2>. QED
    BY <1>1, <2>1, SignInMoves DEF SetupInv, SetupMode, Applying
<1>2. ASSUME NEW w \in Workers, Account(w) PROVE SetupInv'
  BY <1>2, AccountMoves DEF SetupInv, SetupMode, Applying
<1>3. ASSUME NEW w \in Workers, Change(w) PROVE SetupInv'
  <2>1. CASE WriteEnvFile(w)
    <3>1. file.pw # 0 => file'.pw # 0
      BY <2>1 DEF WriteEnvFile, Merged
    <3>3. req[w].set.pw # 0 => file'.pw # 0
      BY <2>1 DEF WriteEnvFile, Merged
    <3>2. /\ \A v \in Workers \ {w} : req'[v] = req[v]
          /\ req'[w].at = "apply" /\ req'[w].kind = req[w].kind /\ req'[w].set = req[w].set
          /\ req[w].at = "write" /\ UNCHANGED <<env, cookie>>
      BY <2>1, Moved DEF WriteEnvFile
    <3>. QED
      BY <3>1, <3>2, <3>3 DEF SetupInv, SetupMode, Applying
  <2>2. CASE ApplyRuntimeEnv(w)
    <3>1. env'.pw = IF req[w].set.pw = 0 THEN env.pw ELSE req[w].set.pw
      BY <2>2 DEF ApplyRuntimeEnv, Merged
    <3>2. /\ \A v \in Workers \ {w} : req'[v] = req[v]
          /\ req'[w].at = AfterApply(req[w]) /\ req[w].at = "apply" /\ UNCHANGED <<file, cookie>>
      BY <2>2, Moved DEF ApplyRuntimeEnv
    <3>3. req'[w].at \in {"issue", "save", "bump"} /\ (req'[w].at = "issue" => env'.pw # 0)
      BY <3>1, <3>2 DEF AfterApply, SetupInv
    <3>4. env'.pw # 0 => file'.pw # 0
      BY <3>1, <3>2 DEF SetupInv, Applying
    <3>. QED
      BY <3>1, <3>2, <3>3, <3>4 DEF SetupInv, SetupMode, Applying
  <2>3. CASE WriteFails(w) \/ SaveConfig(w) \/ Rotate(w) \/ RotateRaises(w)
    <3>1. /\ \A v \in Workers \ {w} : req'[v] = req[v]
          /\ req'[w].at \in {"idle", "bump"} /\ UNCHANGED <<file, env, cookie>>
      BY <1>0, <2>3, Moved DEF WriteFails, SaveConfig, Rotate, RotateRaises, history
    <3>. QED
      BY <3>1 DEF SetupInv, SetupMode, Applying
  <2>. QED
    BY <1>3, <2>1, <2>2, <2>3 DEF Change
<1>4. CASE Restart
  BY <1>0, <1>4 DEF Restart, SetupInv, SetupMode, Applying
<1>5. CASE Logout \/ TimePasses \/ LinkExpires \/ UNCHANGED vars
  BY <1>5 DEF Logout, TimePasses, LinkExpires, vars, history, NoCookie, SetupInv, SetupMode, Applying
<1>. QED
  BY <1>1, <1>2, <1>3, <1>4, <1>5 DEF Next

LEMMA InitSetup == Init => SetupInv
BY DEF Init, SetupInv, SetupMode, NoChange, NoCookie, Idle, Applying

\* A step that leaves the environment and what is to be announced, and gives the browser no
\* session that counts.
LEMMA OldFrame ==
    ASSUME OldSessionsEnd, UNCHANGED env, Unannounced => Unannounced', slipped => slipped',
           Accepted(cookie)' => Accepted(cookie) /\ cookie' = cookie
    PROVE  OldSessionsEnd'
BY DEF OldSessionsEnd

LEMMA OldStep ==
    ASSUME TypeOK, VersionsOrdered, SetupInv, OldSessionsEnd, [Next]_vars
    PROVE  OldSessionsEnd'
<1>0. /\ Idle.at = "idle" /\ version \in Nat /\ version' \in Nat /\ version <= version'
      /\ cookie.sv \in Nat
  BY StepType, VersionStep DEF Idle, TypeOK
<1>1. cookie' = cookie => (Accepted(cookie)' => Accepted(cookie) /\ cookie' = cookie)
  BY <1>0 DEF Accepted
<1>2. ASSUME NEW w \in Workers, SignIn(w) PROVE OldSessionsEnd'
  <2>1. /\ \A v \in Workers \ {w} : req'[v] = req[v]
        /\ req[w].at \notin {"save", "bump"} /\ UNCHANGED <<env, version, slipped>>
    BY <1>2, SignInMoves
  <2>2. Unannounced => Unannounced'
    BY <2>1 DEF Unannounced
  <2>3. CASE cookie' = cookie
    BY <1>1, <2>1, <2>2, <2>3, OldFrame
  <2>4. CASE cookie' # cookie
    <3>1. IssueCookie(w)
      BY <1>2, <2>4, SignInMoves
    <3> DEFINE late == req[w].cred # env /\ ~Unannounced
    <3>3. cookie' = [cred |-> req[w].cred, sv |-> version, late |-> late]
      BY <2>4, <3>1 DEF IssueCookie
    <3>4. late => cookie'.late
      <4>1. ASSUME late PROVE cookie'.late = TRUE
        <5>1. late = TRUE
          BY <4>1
        <5>. HIDE DEF late
        <5>. QED
          BY <3>3, <5>1
      <4>. QED
        BY <4>1
    <3>2. cookie'.cred = req[w].cred /\ (req[w].cred # env /\ ~Unannounced => cookie'.late)
      BY <3>3, <3>4
    <3>. QED
      BY <2>1, <2>2, <3>2 DEF OldSessionsEnd
  <2>. QED
    BY <2>3, <2>4
<1>3. ASSUME NEW w \in Workers, Account(w) PROVE OldSessionsEnd'
  <2>1. Unannounced => Unannounced'
    BY <1>3, AccountMoves DEF Unannounced
  <2>. QED
    BY <1>1, <1>3, <2>1, AccountMoves, OldFrame
<1>4. ASSUME NEW w \in Workers, Change(w) PROVE OldSessionsEnd'
  <2>1. CASE WriteEnvFile(w) \/ WriteFails(w)
    <3>1. /\ \A v \in Workers \ {w} : req'[v] = req[v]
          /\ req[w].at = "write" /\ UNCHANGED <<env, cookie, slipped>>
      BY <2>1, Moved DEF WriteEnvFile, WriteFails, history
    <3>2. Unannounced => Unannounced'
      BY <3>1 DEF Unannounced
    <3>. QED
      BY <1>1, <3>1, <3>2, OldFrame
  <2>2. CASE ApplyRuntimeEnv(w)
    <3>1. req'[w].at = AfterApply(req[w]) /\ cookie' = cookie /\ version' = version
      BY <2>2, Moved DEF ApplyRuntimeEnv
    <3>2. req'[w].at \in {"save", "bump"} => Unannounced'
      BY DEF Unannounced
    <3>3. req'[w].at \notin {"save", "bump"} => req[w].kind = "register"
      BY <3>1 DEF AfterApply
    <3>4. req[w].kind = "register" => slipped' \/ cookie.sv = 0
      BY <2>2 DEF ApplyRuntimeEnv, SetupInv
    <3>. QED
      BY <3>1, <3>2, <3>3, <3>4 DEF OldSessionsEnd, Accepted
  <2>3. CASE SaveConfig(w)
    <3>1. UNCHANGED <<env, cookie>> /\ (slipped' \/ Unannounced')
      BY <2>3, Moved DEF SaveConfig, Unannounced
    <3>. QED
      BY <3>1 DEF OldSessionsEnd
  <2>4. CASE Rotate(w)
    <3>1. version' = store.version + 1 /\ cookie' = cookie /\ store.version \in Nat
      BY <2>4 DEF Rotate, TypeOK, Stores
    <3>2. ~Accepted(cookie)'
      BY <1>0, <3>1 DEF VersionsOrdered, Accepted
    <3>. QED
      BY <3>2 DEF OldSessionsEnd
  <2>5. CASE RotateRaises(w)
    BY <2>5 DEF RotateRaises, OldSessionsEnd
  <2>. QED
    BY <1>4, <2>1, <2>2, <2>3, <2>4, <2>5 DEF Change
<1>5. CASE Restart
  <2>1. cookie' = cookie /\ (slipped' \/ (UNCHANGED env /\ ~Unannounced /\ ~slipped))
    BY <1>5 DEF Restart
  <2>. QED
    BY <1>1, <2>1 DEF OldSessionsEnd
<1>6. CASE Logout \/ TimePasses \/ LinkExpires \/ UNCHANGED vars
  <2>1. UNCHANGED <<env, req, slipped>> /\ (cookie' = cookie \/ cookie'.sv = 0)
    BY <1>6 DEF Logout, TimePasses, LinkExpires, vars, history, NoCookie
  <2>2. Unannounced => Unannounced'
    BY <2>1 DEF Unannounced
  <2>. QED
    BY <1>1, <2>1, <2>2, OldFrame DEF Accepted
<1>. QED
  BY <1>2, <1>3, <1>4, <1>5, <1>6 DEF Next

LEMMA InitOld == Init => OldSessionsEnd
BY DEF Init, OldSessionsEnd, Accepted, NoCookie

\* Sessions of replaced credentials end, but for what the property names, for any number of
\* requests, changes, failures and restarts.
THEOREM OldSessionsEndHolds == Spec => []OldSessionsEnd
BY InitType, StepType, InitVersions, VersionStep, InitSetup, SetupStep, InitOld, OldStep, PTL
   DEF Spec

==============================================================================
