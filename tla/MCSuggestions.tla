--------------------------- MODULE MCSuggestions ---------------------------
(***************************************************************************)
(* Three suggestions, a store of two records and a queue of two frames.    *)
(* The faults come in the two pairs the properties tell apart: those that  *)
(* take the connection away from the frame in flight and those that upset  *)
(* the pause.                                                              *)
(***************************************************************************)
EXTENDS SuggestionsService

MCPauses == {1}

MCInit ==
    /\ ServiceInit
    /\ faults \in {{"DropWhilePaused", "SilentBot"}, {"Coalesced", "EarlyRateLimit"}}

MCSpec == MCInit /\ [][ServiceNext]_serviceVars
\* The bot falls silent, nothing else.
MCSilentSpec == ServiceInit /\ faults = {"SilentBot"} /\ [][ServiceNext]_serviceVars
=============================================================================
