-------------------------- MODULE ReacquireProtocol --------------------------
(***************************************************************************)
(* What the controller core promises about its place on the path, without  *)
(* saying how: the arc it steers by creeps forward by a bounded amount,    *)
(* never backwards; it may jump only where a new anchor is taken, after a  *)
(* new reference or at the end of a SEEKING episode; an episode ends; and  *)
(* a projection that was lost stays lost until there is a new reference.   *)
(* MpcCore implements it.                                                  *)
(***************************************************************************)
EXTENDS Integers

CONSTANT MaxAdvance   \* how far one cycle may move the arc forward, a natural

VARIABLES
    phase,  \* the trust placed in the arc
    arc     \* the arc steered by

protocol == <<phase, arc>>

Init == phase = "unanchored" /\ arc = 0

NewReference == phase' = "unanchored" /\ arc' = 0

Anchor ==
    /\ phase = "unanchored"
    /\ phase' = "tracking"
    /\ arc' \in Nat

\* A cycle against the anchor; it may also close the probation window.
Creep ==
    /\ phase \in {"tracking", "probation"}
    /\ phase' \in {phase, "tracking"}
    /\ arc' \in Nat
    /\ arc <= arc' /\ arc' <= arc + MaxAdvance

LoseTrust ==
    /\ phase \in {"tracking", "probation"}
    /\ phase' = "seeking"
    /\ UNCHANGED arc

Commit ==
    /\ phase = "seeking"
    /\ phase' = "probation"
    /\ arc' \in Nat

GiveUp ==
    /\ phase = "seeking"
    /\ phase' = "lost"
    /\ UNCHANGED arc

Next == NewReference \/ Anchor \/ Creep \/ LoseTrust \/ Commit \/ GiveUp

\* Steps that only a decision of the environment can bring about need no
\* fairness; an episode must end.
SeekingEnds == phase = "seeking" ~> phase # "seeking"

SafeSpec == Init /\ [][Next]_protocol

Spec == SafeSpec /\ SeekingEnds
=============================================================================
