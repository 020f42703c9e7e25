----------------------------- MODULE MCSiteConfig -----------------------------
(***************************************************************************)
(* Small instances of SiteConfig for TLC: each thread runs a bounded       *)
(* number of handlers.                                                     *)
(***************************************************************************)
EXTENDS SiteConfig, TLC

CONSTANTS
    plain,          \* what the parser gives back of any site
    FirstSites,     \* where the event loop's handlers take place: names are
                    \* interchangeable, one will do where it runs one handler
    MaxByApi,       \* bound on the handlers the event loop runs
    MaxByJob        \* bound on the regenerations of each job

CONSTANT LoadsAtOnce    \* nginx loads before anything else happens, where no
                        \* property looks at what it serves

CONSTANT FirstInodes    \* the inodes a new lock file takes if one is free: they are
                        \* interchangeable too

VARIABLE started    \* handlers each thread has begun

MCReparse == [c \in Cfgs |-> plain]

MCVars == <<vars, started>>

MCInit ==
    /\ Init
    /\ \A t \in Threads : target[t] \in FirstSites  \* no matter for who is idle
    \* what is unlinked beside these, nginx neither tests nor serves
    /\ \A s \in Slugs \ FirstSites : Exists(s) => s \in enabled
    /\ started = [t \in Threads |-> 0]

Budget(t) == IF t = Api THEN MaxByApi ELSE MaxByJob

StartOf(t) == pc[t] = "idle" /\ pc'[t] # "idle"

MCStart ==
    /\ Start
    /\ \E t \in Threads :
         /\ StartOf(t)
         /\ started[t] < Budget(t)
         /\ t = Api => op'[Api].slug \in FirstSites
         /\ started' = [started EXCEPT ![t] = @ + 1]

MCCrash == Crash /\ UNCHANGED started

MCLoad == Load /\ UNCHANGED started

\* A new lock file gets the first inode that is free.
TakesFirst ==
    \A s \in Slugs, i \in FirstInodes :
        lockFile[s] = NoInode /\ Free(i) => lockFile'[s] \in FirstInodes \cup {NoInode}

MCStep(t) == Work(t) /\ TakesFirst /\ UNCHANGED started
MCWork == \E t \in Threads : MCStep(t)

MCNext ==
    \/ MCLoad
    \/ (LoadsAtOnce => master # "signalled") /\ (MCStart \/ MCCrash \/ MCWork)

MCSpec == MCInit /\ [][MCNext]_MCVars

MCFairSpec == MCSpec /\ \A t \in Threads : WF_MCVars(MCStep(t))

\* Names, job threads and the inodes of lock files are interchangeable.
Symmetry == Permutations(Slugs) \cup Permutations(Inodes) \cup Permutations(Jobs)
=============================================================================
