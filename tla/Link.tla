-------------------------------- MODULE Link --------------------------------
(***************************************************************************)
(* What the Homebrew session client promises voice_task: a link to the     *)
(* master that comes up and goes down, each coming up announced by exactly *)
(* one NetworkReset on the bounded control channel.  Ptt's Connect,        *)
(* Disconnect and OnNetworkReset are these three steps.                    *)
(***************************************************************************)
EXTENDS Naturals

CONSTANT ControlCap  \* capacity of the control channel

VARIABLES
  up,     \* the link carries packets
  resets  \* NetworkReset events voice_task has not taken yet

vars == <<up, resets>>

Init == up = FALSE /\ resets = 0

Connect ==
  /\ ~up /\ resets < ControlCap
  /\ up' = TRUE
  /\ resets' = resets + 1

Disconnect == up /\ up' = FALSE /\ UNCHANGED resets

Take == resets > 0 /\ resets' = resets - 1 /\ UNCHANGED up

Next == Connect \/ Disconnect \/ Take

Spec == Init /\ [][Next]_vars
=============================================================================
