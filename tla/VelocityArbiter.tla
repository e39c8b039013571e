--------------------------- MODULE VelocityArbiter ---------------------------
(***************************************************************************)
(* velocity_arbiter: the single writer of /cmd_vel.  It keeps the last     *)
(* message of each source and forwards, on a timer, that of the highest    *)
(* priority among the fresh ones, or zero.  Freshness is judged by the     *)
(* message's own stamp against the arbiter's clock.                        *)
(*                                                                         *)
(* A stamp is kept as its age on that clock, so that time passes by making *)
(* everything older; ages stop at ArbiterAgeCap, beyond which nothing      *)
(* tells them apart.  The clock may once be set back (a simulation that is *)
(* restarted) by MaxSetBack, after which messages stamped before may still *)
(* arrive.                                                                 *)
(***************************************************************************)
EXTENDS Integers

CONSTANTS
    SourceTimeout,  \* source_timeout_s
    MaxTransport,   \* bound: how old a message may be when it arrives
    MaxSetBack,     \* bound: how far the clock is set back
    Speeds          \* speeds the sources ask for

ASSUME ArbiterAssumption ==
    /\ SourceTimeout \in Nat
    /\ MaxTransport \in Nat
    /\ MaxSetBack \in Nat
    /\ Speeds \subseteq Int

VARIABLES
    last,     \* last[s]: speed and age of the message kept
    have,     \* have[s]: it has not been demoted
    output,   \* what was published last
    jumped,   \* the clock has been set back
    silence   \* history: time since the last message of s arrived

arbiterVars == <<last, have, output, jumped, silence>>

Sources == {"cmd_vel_stop", "cmd_vel_mpc", "cmd_vel_nav"}

Priority == [cmd_vel_stop |-> 3, cmd_vel_mpc |-> 2, cmd_vel_nav |-> 1, none |-> -1]

ArbiterAgeCap == SourceTimeout + MaxTransport + MaxSetBack + 1

ArbiterOlder(age) == IF age < ArbiterAgeCap THEN age + 1 ELSE ArbiterAgeCap

Stopped == [source |-> "none", v |-> 0]

ArbiterInit ==
    /\ last = [s \in Sources |-> [v |-> 0, age |-> ArbiterAgeCap]]
    /\ have = [s \in Sources |-> FALSE]
    /\ output = Stopped
    /\ jumped = FALSE
    /\ silence = [s \in Sources |-> ArbiterAgeCap]

\* The subscription of a source: the message is kept, whatever its stamp.
Receive(s, v, age) ==
    /\ last' = [last EXCEPT ![s] = [v |-> v, age |-> age]]
    /\ have' = [have EXCEPT ![s] = TRUE]
    /\ silence' = [silence EXCEPT ![s] = 0]
    /\ UNCHANGED <<output, jumped>>

\* Mutant of Fresh: a source is never demoted.
FreshOnceHeard == {s \in Sources : have[s]}

\* Mutant of Fresh: a message exactly as old as the timeout is dropped.
FreshStrictly == {s \in Sources : have[s] /\ last[s].age < SourceTimeout}

Fresh == {s \in Sources : have[s] /\ last[s].age <= SourceTimeout}

\* What a tick leaves of have: stale sources are demoted.
Remaining(fresh) == [s \in Sources |-> s \in fresh]

Select(fresh) ==
    IF fresh = {} THEN Stopped
    ELSE LET best == CHOOSE s \in fresh :
                         \A t \in fresh : Priority[t] <= Priority[s]
         IN  [source |-> best, v |-> last[best].v]

\* The 20 ms timer.
Tick ==
    /\ have' = Remaining(Fresh)
    /\ output' = Select(Fresh)
    /\ UNCHANGED <<last, jumped, silence>>

ArbiterElapse ==
    /\ last' = [s \in Sources |-> [last[s] EXCEPT !.age = ArbiterOlder(@)]]
    /\ silence' = [s \in Sources |-> ArbiterOlder(silence[s])]
    /\ UNCHANGED <<have, output, jumped>>

ArbiterClockSetBack ==
    /\ ~jumped
    /\ jumped' = TRUE
    /\ last' = [s \in Sources |-> [last[s] EXCEPT !.age = @ - MaxSetBack]]
    /\ UNCHANGED <<have, output, silence>>

ArbiterNext ==
    \/ Tick \/ ArbiterElapse \/ ArbiterClockSetBack
    \/ \E s \in Sources, v \in Speeds, delay \in 0..MaxTransport :
          \/ Receive(s, v, delay)
          \/ jumped /\ Receive(s, v, delay - MaxSetBack)

ArbiterSpec == ArbiterInit /\ [][ArbiterNext]_arbiterVars

\* The timer keeps firing, and time passes.
FairArbiterSpec == ArbiterSpec /\ WF_arbiterVars(Tick) /\ WF_arbiterVars(ArbiterElapse)

-----------------------------------------------------------------------------

\* Type invariant.
ArbiterTypeOK ==
    /\ last \in [Sources -> [v : Int, age : Int]]
    /\ have \in [Sources -> BOOLEAN]
    /\ output \in [source : Sources \cup {"none"}, v : Int]
    /\ jumped \in BOOLEAN
    /\ silence \in [Sources -> 0..ArbiterAgeCap]

\* A source that was heard recently enough is still held: demotion is decided
\* by stamps and ticks, and never loses a source whose last message arrived
\* less than the timeout, less the transport delay, ago.
RecentIsHeld ==
    \A s \in Sources : silence[s] + MaxTransport <= SourceTimeout
                            => have[s] /\ last[s].age <= silence[s] + MaxTransport

\* Until the clock is set back, a message is at least as old as its arrival.
StampsAreTrue == ~jumped => \A s \in Sources : last[s].age >= silence[s]

\* What keeps freshness by stamp in step with the time since arrival.
ArbiterInv == ArbiterTypeOK /\ RecentIsHeld /\ StampsAreTrue

\* An active stop wins, and so does any source over those below it: a tick
\* never passes over a source heard within the timeout less the transport
\* delay, whatever was demoted before and even if the clock was set back.
RecentMessageIsHeard ==
    [][Tick => \A s \in Sources : silence[s] + MaxTransport <= SourceTimeout
                    => Priority[output'.source] >= Priority[s]]_arbiterVars

\* A source that has been silent for longer than the timeout is not forwarded,
\* as long as nobody set the clock back.
SilentSourceIsDropped ==
    [][Tick /\ ~jumped => \A s \in Sources : silence[s] > SourceTimeout
                    => output'.source # s]_arbiterVars

\* When every source has fallen silent the robot is stopped in the end, also
\* if the clock was set back in between.
SilenceStops ==
    (\A s \in Sources : silence[s] > SourceTimeout)
        ~> (output = Stopped \/ \E s \in Sources : silence[s] <= SourceTimeout)
=============================================================================
