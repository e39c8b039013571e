------------------------------ MODULE MCRosNodes ------------------------------
(***************************************************************************)
(* The two nodes that judge messages by their age, for model checking.     *)
(* They share no state, and to either a message of the other is one of     *)
(* those it may receive at any time; so no behaviour of one is lost if the *)
(* other stands still, and which of the two moves is chosen at the start.  *)
(***************************************************************************)
EXTENDS LinearMpcNode, VelocityArbiter

VARIABLE moving

nodesVars == <<nodeVars, arbiterVars, moving>>

MCCoreSpeeds == {0, 1}

\* A source that is heard asks to move: only the arbiter answers with zero.
MCOneSpeed == {1}

NodesInit == Init /\ ArbiterInit /\ moving \in {"linear_mpc_node", "velocity_arbiter"}

MpcNodeMoves == moving = "linear_mpc_node" /\ UNCHANGED <<arbiterVars, moving>>

ArbiterMoves == moving = "velocity_arbiter" /\ UNCHANGED <<nodeVars, moving>>

NodesNext == (MpcNodeMoves /\ Next) \/ (ArbiterMoves /\ ArbiterNext)

\* The fairness of FairSpec and of FairArbiterSpec, for the one that moves.
NodesSpec ==
    /\ NodesInit /\ [][NodesNext]_nodesVars
    /\ WF_nodesVars(MpcNodeMoves /\ Elapse)
    /\ WF_nodesVars(MpcNodeMoves /\ FreshOdometry)
    /\ WF_nodesVars(ArbiterMoves /\ Tick)
    /\ WF_nodesVars(ArbiterMoves /\ ArbiterElapse)
=============================================================================
