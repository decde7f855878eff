------------------------------- MODULE LoginForm -------------------------------
(***************************************************************************)
(* The two forms of the login page and the animated switch between them.   *)
(* A switch starts a timer that shows the other form and then, two frames  *)
(* later, brings it to the centre; nothing keeps a visitor from switching  *)
(* again while one is under way. Which forms exist is known only when the  *)
(* server's configuration arrives.                                         *)
(***************************************************************************)
EXTENDS Naturals, Sequences

CONSTANT MaxSwitches  \* bound: switches asked for
ASSUME MaxSwitches \in Nat

VARIABLES
  view, pos,
  timers,    \* the targets of the switches whose timeout has not fired, oldest first
  frames,    \* how many switches wait for their animation frames
  config,    \* what is shown: SSO, password login, registration
  requested, \* the form the visitor asked for last
  switches

formVars == <<view, pos, timers, frames, config, requested, switches>>

(* Until the answer comes, and when it does not, passwords and             *)
(* registration are taken to be allowed.                                   *)
Config == [sso : BOOLEAN, password : BOOLEAN, registration : BOOLEAN]
DefaultConfig == [sso |-> FALSE, password |-> TRUE, registration |-> TRUE]

FormInit ==
  /\ view = "login" /\ pos = "center" /\ timers = <<>> /\ frames = 0
  /\ config = DefaultConfig /\ requested = "login" /\ switches = 0

ConfigArrives ==
  /\ config' \in Config
  /\ UNCHANGED <<view, pos, timers, frames, requested, switches>>

LoginShown == view = "login" /\ config.password
RegisterShown == view = "register" /\ config.registration

SwitchTo(to) ==
  /\ switches < MaxSwitches
  /\ pos' = IF to = "register" THEN "exit-left" ELSE "exit-right"
  /\ timers' = Append(timers, to)
  /\ requested' = to
  /\ switches' = switches + 1
  /\ UNCHANGED <<view, frames, config>>

RegisterLink == LoginShown /\ config.registration /\ SwitchTo("register")
SignInLink == RegisterShown /\ config.password /\ SwitchTo("login")

(* Mutant: the timeout shows the form that is not shown.                   *)
TimeoutToggles ==
  /\ timers # <<>>
  /\ view' = IF view = "login" THEN "register" ELSE "login"
  /\ pos' = "enter-from-right"
  /\ timers' = Tail(timers)
  /\ frames' = frames + 1
  /\ UNCHANGED <<config, requested, switches>>

(* Timeouts of the same delay fire in the order they were set.             *)
TimeoutFires ==
  /\ timers # <<>>
  /\ view' = Head(timers)
  /\ pos' = IF Head(timers) = "register" THEN "enter-from-right" ELSE "enter-from-left"
  /\ timers' = Tail(timers)
  /\ frames' = frames + 1
  /\ UNCHANGED <<config, requested, switches>>

SettleAfterDoubleRAF ==
  /\ frames > 0
  /\ pos' = "center"
  /\ frames' = frames - 1
  /\ UNCHANGED <<view, timers, config, requested, switches>>

FormNext ==
  \/ ConfigArrives \/ RegisterLink \/ SignInLink \/ TimeoutFires \/ SettleAfterDoubleRAF

FormSpec == FormInit /\ [][FormNext]_formVars

(* However many switches overlap, once their timers and frames have run    *)
(* the form asked for last is shown, and it is on the screen.              *)
LastSwitchWins ==
  (timers = <<>> /\ frames = 0) => (view = requested /\ pos = "center")
=============================================================================
