------------------------------- MODULE Login -------------------------------
(***************************************************************************)
(* From the login button to the service: the configuration window gets a   *)
(* token, polls the cloud for the user who logs in with a browser,         *)
(* registers this computer's screen and tells the service, over its RPC    *)
(* connection, which screen that is.  CloudClient and main.qml run in the  *)
(* thread of the window, WampClient in a thread of its own.                *)
(*                                                                         *)
(* External: the cloud's answers and their order, the browser, the         *)
(* service's end of the RPC connection, the user.                          *)
(***************************************************************************)
EXTENDS Integers, Sequences, FiniteSets

CONSTANTS
  MaxClicks,   \* bound: clicks on the button
  MaxDenied,   \* bound: answers that refuse the token, and logouts by the service
  MaxRuns,     \* bound: restarts of the window
  MaxSwitches  \* bound: registrations asked for

ASSUME LoginAssumption ==
  MaxClicks \in Nat /\ MaxDenied \in Nat /\ MaxRuns \in Nat /\ MaxSwitches \in Nat

VARIABLES
  app,        \* AppConfig: token, user, and screen, 0 for none
  saved,      \* the same, in the settings file
  page,       \* "activation" or "config"
  elapsed,    \* m_elapsedTimer runs
  poll,       \* polls for the user: asked, and waiting to ask again
  identify,   \* requests for a token under way
  switch,     \* registrations: asked, screens asked with; answered, screens given
  given,      \* screen ids the cloud has given this computer, 1..given
  wamp,       \* the RPC connection: "connecting", "up" or "down"
  hook,       \* the update on connecting: "none", "checked", found not up, or "set"
  auth,       \* synergy.auth.update calls under way
  told,       \* the screen the service was told last
  past,       \* history: failed, a poll for the user ended without one; deaf, a
              \* click was skipped with no poll; late, the connection came up between
              \* the check and the hook; joined, this run of the window registered
  loginUsed   \* how much of each bound is used

loginVars == <<app, saved, page, elapsed, poll, identify, switch, given, wamp, hook, auth,
               told, past, loginUsed>>

NoConfig == [token |-> FALSE, user |-> FALSE, screen |-> 0]

LoginTypeOK ==
  /\ {app, saved} \subseteq [token : BOOLEAN, user : BOOLEAN, screen : 0..MaxSwitches]
  /\ page \in {"activation", "config"} /\ elapsed \in BOOLEAN
  /\ poll \in [asked : Nat, waiting : Nat] /\ identify \in Nat
  /\ given \in 0..MaxSwitches /\ told \in 0..MaxSwitches
  /\ wamp \in {"connecting", "up", "down"} /\ hook \in {"none", "checked", "set"}
  /\ auth \in Seq(0..MaxSwitches)

LoginInit ==
  /\ app = NoConfig /\ saved = NoConfig /\ page = "activation" /\ elapsed = FALSE
  /\ poll = [asked |-> 0, waiting |-> 0] /\ identify = 1
  /\ switch = [asked |-> <<>>, answered |-> <<>>] /\ given = 0
  /\ wamp = "connecting" /\ hook = "none" /\ auth = <<>> /\ told = 0
  /\ past = [failed |-> FALSE, deaf |-> FALSE, late |-> FALSE, joined |-> FALSE]
  /\ loginUsed = [clicks |-> 0, denied |-> 0, runs |-> 0, switches |-> 0]

Spend(what) == loginUsed' = [loginUsed EXCEPT ![what] = @ + 1]

-----------------------------------------------------------------------------
(* Login *)

\* invalidAuth: clearAuth saves; the activation page, once it is shown, asks for a token.
InvalidAuth(token) ==
  /\ app' = [app EXCEPT !.token = FALSE, !.user = FALSE]
  /\ saved' = app'
  /\ page' = "activation"
  /\ identify' = token + (IF page = "config" THEN 1 ELSE 0)

TokenAnswered ==
  /\ identify > 0 /\ identify' = identify - 1
  /\ app' = [app EXCEPT !.token = TRUE]
  /\ UNCHANGED <<saved, page, elapsed, poll, switch, given, wamp, hook, auth, told, past, loginUsed>>

TokenFails ==
  /\ identify > 0 /\ identify' = identify - 1
  /\ UNCHANGED <<app, saved, page, elapsed, poll, switch, given, wamp, hook, auth, told, past,
                 loginUsed>>

\* The button without a token: getUserToken.
ClickForToken ==
  /\ page = "activation" /\ ~app.token /\ loginUsed.clicks < MaxClicks
  /\ Spend("clicks") /\ identify' = identify + 1
  /\ UNCHANGED <<app, saved, page, elapsed, poll, switch, given, wamp, hook, auth, told, past>>

\* The button with one: getUserId(true).  m_elapsedTimer repeats, so that it has time
\* left whenever it runs; a click then starts it anew, and no poll.
ClickLogin ==
  /\ page = "activation" /\ app.token /\ loginUsed.clicks < MaxClicks
  /\ Spend("clicks")
  /\ elapsed' = TRUE
  /\ poll' = IF elapsed THEN poll ELSE [poll EXCEPT !.asked = @ + 1]
  /\ past' = [past EXCEPT !.deaf = @ \/ (elapsed /\ poll.asked + poll.waiting = 0)]
  /\ UNCHANGED <<app, saved, page, identify, switch, given, wamp, hook, auth, told>>

\* ConfigurationPage is made: switchProfile, with the screen's id if there is one.
SwitchProfile(screen) ==
  switch' = [switch EXCEPT !.asked = Append(@, screen)] /\ Spend("switches")

LoggedInTimerOn ==
  /\ poll.asked > 0 /\ loginUsed.switches < MaxSwitches
  /\ poll' = [poll EXCEPT !.asked = @ - 1]
  /\ app' = [app EXCEPT !.token = TRUE, !.user = TRUE] /\ saved' = app'
  /\ UNCHANGED elapsed
  /\ page' = "config" /\ SwitchProfile(app.screen)
  /\ UNCHANGED <<identify, given, wamp, hook, auth, told, past>>
\* onGetUserIdFinished with a user: loginOk saves and shows the next page; the timer stops.
LoggedIn ==
  /\ poll.asked > 0 /\ loginUsed.switches < MaxSwitches
  /\ poll' = [poll EXCEPT !.asked = @ - 1]
  /\ app' = [app EXCEPT !.token = TRUE, !.user = TRUE] /\ saved' = app'
  /\ elapsed' = FALSE
  /\ page' = "config" /\ SwitchProfile(app.screen)
  /\ UNCHANGED <<identify, given, wamp, hook, auth, told, past>>

\* ... without: the user is set to none, and asked for again in half a second.
NotYetLoggedIn ==
  /\ poll.asked > 0
  /\ poll' = [poll EXCEPT !.asked = @ - 1, !.waiting = @ + 1]
  /\ app' = [app EXCEPT !.token = TRUE, !.user = FALSE]
  /\ UNCHANGED <<saved, page, elapsed, identify, switch, given, wamp, hook, auth, told, past,
                 loginUsed>>

PollFails ==
  /\ poll.asked > 0 /\ poll' = [poll EXCEPT !.asked = @ - 1]
  /\ past' = [past EXCEPT !.failed = TRUE]
  /\ UNCHANGED <<app, saved, page, elapsed, identify, switch, given, wamp, hook, auth, told,
                 loginUsed>>

PollDenied ==
  /\ poll.asked > 0 /\ poll' = [poll EXCEPT !.asked = @ - 1]
  /\ loginUsed.denied < MaxDenied /\ Spend("denied")
  /\ InvalidAuth(identify)
  /\ past' = [past EXCEPT !.failed = TRUE]
  /\ UNCHANGED <<elapsed, switch, given, wamp, hook, auth, told>>

\* onRetryGetUserId: an end of the timer at this moment, or its stop, ends the poll.
OnRetryGetUserId ==
  /\ poll.waiting > 0 /\ elapsed
  /\ poll' = [poll EXCEPT !.waiting = @ - 1, !.asked = @ + 1]
  /\ UNCHANGED <<app, saved, page, elapsed, identify, switch, given, wamp, hook, auth, told, past,
                 loginUsed>>

LoginFail ==
  /\ poll.waiting > 0 /\ poll' = [poll EXCEPT !.waiting = @ - 1]
  /\ past' = [past EXCEPT !.failed = @ \/ elapsed]
  /\ UNCHANGED <<app, saved, page, elapsed, identify, switch, given, wamp, hook, auth, told,
                 loginUsed>>

\* The service publishes synergy.auth.logout.
AuthLogout ==
  /\ wamp = "up" /\ loginUsed.denied < MaxDenied /\ Spend("denied")
  /\ InvalidAuth(identify)
  /\ UNCHANGED <<elapsed, poll, switch, given, wamp, hook, auth, told, past>>

-----------------------------------------------------------------------------
(* Registration *)

Taken(s, i) == [j \in 1..(Len(s) - 1) |-> IF j < i THEN s[j] ELSE s[j + 1]]

\* The cloud has a screen, or makes one, and answers.
CloudSwitches(i) ==
  LET screen == IF switch.asked[i] = 0 THEN given + 1 ELSE switch.asked[i] IN
  /\ given' = IF switch.asked[i] = 0 THEN screen ELSE given
  /\ switch' = [asked |-> Taken(switch.asked, i), answered |-> Append(switch.answered, screen)]
  /\ UNCHANGED <<app, saved, page, elapsed, poll, identify, wamp, hook, auth, told, past, loginUsed>>

\* It fails, or the answer is no use: nothing is done.
SwitchFails(i) ==
  /\ switch' = [switch EXCEPT !.asked = Taken(@, i)]
  /\ UNCHANGED <<app, saved, page, elapsed, poll, identify, given, wamp, hook, auth, told, past,
                 loginUsed>>

OnSwitchProfileFinishedNoHook(i) ==
  /\ app' = [app EXCEPT !.screen = switch.answered[i]]
  /\ switch' = [switch EXCEPT !.answered = Taken(@, i)]
  /\ auth' = IF wamp = "up" THEN Append(auth, app'.screen) ELSE auth
  /\ past' = [past EXCEPT !.joined = TRUE]
  /\ UNCHANGED <<saved, page, elapsed, poll, identify, given, wamp, hook, told, loginUsed>>
\* profileUpdated: the service is told if the connection is up when it is looked at.  A
\* connection that failed in a call still counts as up, and what is called on it is lost.
OnSwitchProfileFinished(i) ==
  /\ hook # "checked"
  /\ app' = [app EXCEPT !.screen = switch.answered[i]]
  /\ switch' = [switch EXCEPT !.answered = Taken(@, i)]
  /\ IF wamp = "up"
     THEN auth' = Append(auth, app'.screen) /\ UNCHANGED hook
     ELSE /\ hook' \in {"checked"} \cup (IF wamp = "down" THEN {hook} ELSE {})
          /\ UNCHANGED auth
  /\ past' = [past EXCEPT !.joined = TRUE]
  /\ UNCHANGED <<saved, page, elapsed, poll, identify, given, wamp, told, loginUsed>>

\* The window's thread goes on to connect the update to the signal.
SetHook ==
  /\ hook = "checked" /\ hook' = "set"
  /\ past' = [past EXCEPT !.late = @ \/ wamp # "connecting"]
  /\ UNCHANGED <<app, saved, page, elapsed, poll, identify, switch, given, wamp, auth, told,
                 loginUsed>>

-----------------------------------------------------------------------------
(* WampClient and the service *)

\* m_connected is set and the signal raised, in the thread of the RPC client.
Connected ==
  /\ wamp = "connecting" /\ wamp' = "up"
  /\ auth' = IF hook = "set" THEN Append(auth, app.screen) ELSE auth
  /\ UNCHANGED <<app, saved, page, elapsed, poll, identify, switch, given, hook, told, past,
                 loginUsed>>

\* A connect, a call or the keep-alive fails: disconnected, which is for good.
Disconnected ==
  /\ wamp # "down" /\ wamp' = "down" /\ auth' = <<>>
  /\ UNCHANGED <<app, saved, page, elapsed, poll, identify, switch, given, hook, told, past,
                 loginUsed>>

AuthUpdate ==
  /\ auth # <<>> /\ told' = Head(auth) /\ auth' = Tail(auth)
  /\ UNCHANGED <<app, saved, page, elapsed, poll, identify, switch, given, wamp, hook, past,
                 loginUsed>>

\* The window starts again: asked for by the error view, or after a crash, which
\* leaves the settings as they were saved last.
RestartApp ==
  /\ loginUsed.runs < MaxRuns
  /\ \E config \in {app, saved} :
       /\ app' = config /\ saved' = config
       /\ IF config.token /\ config.user
          THEN /\ loginUsed.switches < MaxSwitches
               /\ page' = "config" /\ identify' = 0
               /\ switch' = [asked |-> Append(switch.asked, config.screen), answered |-> <<>>]
               /\ loginUsed' = [loginUsed EXCEPT !.runs = @ + 1, !.switches = @ + 1]
          ELSE /\ page' = "activation" /\ identify' = 1
               /\ switch' = [switch EXCEPT !.answered = <<>>] /\ Spend("runs")
  /\ elapsed' = FALSE /\ poll' = [asked |-> 0, waiting |-> 0]
  /\ wamp' = "connecting" /\ hook' = "none" /\ auth' = <<>>
  /\ past' = [failed |-> FALSE, deaf |-> FALSE, late |-> FALSE, joined |-> FALSE]
  /\ UNCHANGED <<given, told>>

LoginNext ==
  \/ TokenAnswered \/ TokenFails \/ ClickForToken \/ ClickLogin
  \/ LoggedIn \/ NotYetLoggedIn \/ PollFails \/ PollDenied \/ OnRetryGetUserId \/ LoginFail
  \/ AuthLogout \/ SetHook \/ Connected \/ Disconnected \/ AuthUpdate \/ RestartApp
  \/ \E i \in DOMAIN switch.asked : CloudSwitches(i) \/ SwitchFails(i)
  \/ \E i \in DOMAIN switch.answered : OnSwitchProfileFinished(i)

LoginSpec == LoginInit /\ [][LoginNext]_loginVars

-----------------------------------------------------------------------------
(* Properties *)

\* The service comes to know the screen this computer was registered under, whichever
\* of the registration and the RPC connection is there first, and however answers
\* cross; unless the connection came up, or failed, between the look at it and the hook.
ServiceTold ==
  /\ wamp = "up" /\ auth = <<>> /\ hook # "checked" /\ past.joined
  /\ switch = [asked |-> <<>>, answered |-> <<>>]
  => told = app.screen \/ past.late

\* getUserId: "we only need to restart the time and skip creating a new poll as the
\* last one probably is not finished yet": a click without a poll under way starts one.
EveryClickHeard == ~past.deaf
=============================================================================
