------------------------------- MODULE FileLock -------------------------------
(***************************************************************************)
(* The advisory lock of services/file_lock.py: a context manager that      *)
(* opens "<path>.lock", takes flock(LOCK_EX) on the descriptor, yields,    *)
(* then unlocks and unlinks the lock file.                                 *)
(*                                                                         *)
(* flock excludes per inode, not per name.  Because the holder removes the *)
(* name after it unlocks, a thread that already opened the old file and a  *)
(* thread that creates a new one lock different inodes, so the model keeps *)
(* the name (lockFile), the open descriptors (fd) and the inode owners     *)
(* apart.                                                                  *)
(***************************************************************************)
EXTENDS Naturals, FiniteSets

CONSTANTS
    Threads,    \* threads of the one backend process that use the lock
    Paths,      \* config files, each with its own lock file name
    Inodes,     \* identities the file system may give a lock file
    NoInode,    \* "the name does not exist" / "no descriptor open"
    NoThread    \* "nobody holds this inode's flock"

ASSUME LockConstants == NoInode \notin Inodes /\ NoThread \notin Threads

VARIABLES
    lockFile,   \* the inode the name "<path>.lock" refers to
    fd,         \* the inode of the descriptor a thread has open
    owner,      \* the thread holding the inode's exclusive flock
    stage,      \* where in the context manager a thread is
    target      \* the path of that use of the lock

lockVars == <<lockFile, fd, owner, stage, target>>

Stage == {"out", "opened", "inside", "unlocked"}

LockTypeOK ==
    /\ lockFile \in [Paths -> Inodes \cup {NoInode}]
    /\ fd \in [Threads -> Inodes \cup {NoInode}]
    /\ owner \in [Inodes -> Threads \cup {NoThread}]
    /\ stage \in [Threads -> Stage]
    /\ target \in [Threads -> Paths]

LockInit ==
    /\ lockFile = [p \in Paths |-> NoInode]
    /\ fd = [t \in Threads |-> NoInode]
    /\ owner = [i \in Inodes |-> NoThread]
    /\ stage = [t \in Threads |-> "out"]
    /\ \E p \in Paths : target = [t \in Threads |-> p]

\* An inode number can be used again once no name and no descriptor refers to it.
Free(i) ==
    /\ \A p \in Paths : lockFile[p] # i
    /\ \A t \in Threads : fd[t] # i

\* open(lock_path, "w"): open the file the name refers to, or create one.
Open(t, p) ==
    /\ stage[t] = "out"
    /\ \E i \in Inodes :
         /\ IF lockFile[p] = NoInode THEN Free(i) ELSE lockFile[p] = i
         /\ lockFile' = [lockFile EXCEPT ![p] = i]
         /\ fd' = [fd EXCEPT ![t] = i]
    /\ stage' = [stage EXCEPT ![t] = "opened"]
    /\ target' = [target EXCEPT ![t] = p]
    /\ UNCHANGED owner

\* Mutant: LOCK_SH, which other holders do not keep out.
AcquireShared(t) ==
    /\ stage[t] = "opened"
    /\ owner' = [owner EXCEPT ![fd[t]] = t]
    /\ stage' = [stage EXCEPT ![t] = "inside"]
    /\ UNCHANGED <<lockFile, fd, target>>

\* flock(LOCK_EX) returns: the body of the with statement runs.
Acquire(t) ==
    /\ stage[t] = "opened"
    /\ owner[fd[t]] = NoThread
    /\ owner' = [owner EXCEPT ![fd[t]] = t]
    /\ stage' = [stage EXCEPT ![t] = "inside"]
    /\ UNCHANGED <<lockFile, fd, target>>

\* flock(LOCK_UN), in the finally clause.
Unlock(t) ==
    /\ stage[t] = "inside"
    /\ owner' = [owner EXCEPT ![fd[t]] = NoThread]
    /\ stage' = [stage EXCEPT ![t] = "unlocked"]
    /\ UNCHANGED <<lockFile, fd, target>>

\* lock_path.unlink(missing_ok=True): removes whatever file now has the name;
\* leaving the outer with closes the descriptor.
Unlink(t) ==
    /\ stage[t] = "unlocked"
    /\ lockFile' = [lockFile EXCEPT ![target[t]] = NoInode]
    /\ fd' = [fd EXCEPT ![t] = NoInode]
    /\ stage' = [stage EXCEPT ![t] = "out"]
    /\ UNCHANGED <<owner, target>>

\* Mutant: a lock that outlives its process, as a file with a pid would.
CrashLeavesLock ==
    /\ \E t \in Threads : stage[t] # "out"
    /\ fd' = [t \in Threads |-> NoInode]
    /\ stage' = [t \in Threads |-> "out"]
    /\ UNCHANGED <<lockFile, owner, target>>

\* The process dies: the kernel closes every descriptor and drops its flock,
\* the lock files stay on disk.
LockCrash ==
    /\ \E t \in Threads : stage[t] # "out"
    /\ fd' = [t \in Threads |-> NoInode]
    /\ owner' = [i \in Inodes |-> NoThread]
    /\ stage' = [t \in Threads |-> "out"]
    /\ UNCHANGED <<lockFile, target>>

LockStep(t) == (\E p \in Paths : Open(t, p)) \/ Acquire(t) \/ Unlock(t) \/ Unlink(t)

LockNext == LockCrash \/ \E t \in Threads : LockStep(t)

\* The kernel grants a free flock to a waiter, and a body that runs ends: every
\* blocking call in it (nginx -t, nginx -s reload, file writes) returns.
LockFairness ==
    \A t \in Threads :
        WF_lockVars(Acquire(t)) /\ WF_lockVars(Unlock(t)) /\ WF_lockVars(Unlink(t))

LockSpec == LockInit /\ [][LockNext]_lockVars

LockFairSpec == LockSpec /\ LockFairness

-----------------------------------------------------------------------------

Holders(p) == {t \in Threads : stage[t] = "inside" /\ target[t] = p}
Waiters(i) == {t \in Threads : stage[t] = "opened" /\ fd[t] = i}

\* The flock of an inode and the threads that run under it agree: a thread is
\* inside only with an open descriptor it owns, and an owner is inside.  So two
\* threads that are inside the section of one path at once hold different lock
\* files (file_lock.py:14-20).
HoldersOwnTheirInode ==
    /\ \A t \in Threads : stage[t] = "inside" => fd[t] \in Inodes /\ owner[fd[t]] = t
    /\ \A i \in Inodes : owner[i] # NoThread => stage[owner[i]] = "inside" /\ fd[owner[i]] = i

\* What breaks mutual exclusion is only the name going away: two threads inside
\* the section of one path never both hold the file that has the name now, so
\* all but one of them run under a lock file that was unlinked.
OneHolderOfTheNamedFile ==
    \A p \in Paths : \A t, u \in Holders(p) :
        fd[t] = lockFile[p] /\ fd[u] = lockFile[p] => t = u

\* A thread that has opened the lock file gets the lock, or the process dies:
\* an unlinked inode gets no new waiters, so its waiters are served in the end.
NoStarvation == \A t \in Threads : stage[t] = "opened" ~> stage[t] # "opened"
=============================================================================
