----------------------------- MODULE MCPolicyRuns -----------------------------
(***************************************************************************)
(* PolicyRuns for model checking.                                     *)
(***************************************************************************)
EXTENDS PolicyRuns

MCTracks == <<6, 5>>
MCStarts == {-1}
MCResiduals == {-1, 1}
=============================================================================
