-------------------------- MODULE MCDiscordBridge --------------------------
(***************************************************************************)
(* A bridge client small enough for TLC: three frames, room for two, and a *)
(* retry budget of two of the shortest pauses.                             *)
(*                                                                         *)
(* A fault permits steps and forces none, so a behaviour with fewer faults *)
(* is one with more.  The four sets below are the largest each property    *)
(* admits: none for EverySendSettles, one pair for the properties that     *)
(* need the link to outlive its frame, the other for PauseHasOwner, and    *)
(* all of them for the rest.                                               *)
(***************************************************************************)
EXTENDS DiscordBridgeClient

MCPauses == {1, 2}

Link == {"DropWhilePaused", "SilentBot"}
Pause == {"Coalesced", "EarlyRateLimit"}

MCInit == Init /\ faults \in {{}, Link, Pause, Link \cup Pause}

MCSpec == MCInit /\ [][Next]_vars

MCFairSpec == MCSpec /\ Fairness
=============================================================================
