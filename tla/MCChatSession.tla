--------------------------- MODULE MCChatSession ---------------------------
(* A TLC instance of ChatSession: how much may happen.                     *)
EXTENDS ChatSession

CONSTANTS Syncs, Texts, Notices, Faults

Limits == ("sync" :> Syncs) @@ ("text" :> Texts) @@ ("notice" :> Notices)
          @@ ("fault" :> Faults)

TargetSymmetry == Permutations(Targets)
=============================================================================
