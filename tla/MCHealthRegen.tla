---------------------------- MODULE MCHealthRegen ----------------------------
(***************************************************************************)
(* Small instances of HealthRegen: the outside changes a bounded number of *)
(* times, the jobs run for ever.                                           *)
(***************************************************************************)
EXTENDS HealthRegen

CONSTANTS
    a, b, d,        \* servers
    p1, p2,         \* pools
    Flapping,       \* the servers whose backends change
    MaxFlaps,       \* bound on changes of the backends
    MaxDisturb,     \* bound on checks, switches, restarts from outside, a second
                    \* pool, and commits that raise
    MaxReverts,     \* bound on reverts and these together
    MaxEvents       \* bound on all of these together

VARIABLES flaps, disturbed, reverts

Happens == flaps + disturbed + reverts < MaxEvents

MCVars == <<vars, flaps, disturbed, reverts>>

OnePool == [s \in Servers |-> p1]
TwoPools == [s \in Servers |-> IF s = d THEN p2 ELSE p1]

MCInit == Init /\ flaps = 0 /\ disturbed = 0 /\ reverts = 0

MCFlap ==
    /\ Happens /\ flaps < MaxFlaps
    /\ flaps' = flaps + 1
    /\ \E s \in Flapping : Flap(s)
    /\ UNCHANGED <<disturbed, reverts>>

MCDisturb ==
    /\ Happens /\ disturbed < MaxDisturb /\ disturbed + reverts < MaxReverts
    /\ disturbed' = disturbed + 1
    /\ \/ \E s \in Servers : BeginOne(s) \/ SetServer(s)
       \/ \E p \in Pools \ {p1} : CreatePool(p)
       \/ \E c \in Checkers : CommitFails(c)
       \/ Crash
    /\ UNCHANGED <<flaps, reverts>>

MCRevert ==
    /\ Happens /\ disturbed + reverts < MaxReverts
    /\ reverts' = reverts + 1
    /\ Revert(p1)
    /\ UNCHANGED <<flaps, disturbed>>

Quiet == UNCHANGED <<flaps, disturbed, reverts>>

MCCreatePool == CreatePool(p1) /\ Quiet

HealthWorks == (BeginRun \/ TakeNothing \/ Check(Health) \/ Regenerate(Health)) /\ Quiet
ApiWorks == (Check(Api) \/ \E p \in Pools : Rerender(p)) /\ Quiet
RegenWorks == Regenerate(Regen) /\ Quiet
TimePasses == DebounceElapses /\ Quiet

MCNext ==
    \/ MCCreatePool \/ MCFlap \/ MCDisturb \/ MCRevert
    \/ HealthWorks \/ ApiWorks \/ RegenWorks \/ TimePasses

MCSpec == MCInit /\ [][MCNext]_MCVars

\* The scheduler starts both jobs again and again, and what they call returns.
MCFairSpec ==
    /\ MCSpec
    /\ WF_MCVars(HealthWorks) /\ WF_MCVars(ApiWorks)
    /\ WF_MCVars(RegenWorks) /\ WF_MCVars(TimePasses)
=============================================================================
