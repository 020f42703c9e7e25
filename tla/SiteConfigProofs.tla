-------------------------- MODULE SiteConfigProofs --------------------------
(***************************************************************************)
(* Theorems about the lock of a file, for any threads, paths and inodes,   *)
(* and about the handlers that change sites under it, for any sites,       *)
(* settings and number of jobs.                                            *)
(***************************************************************************)
EXTENDS SiteConfig, TLAPS

-----------------------------------------------------------------------------
(* The lock alone, for any number of threads, paths and inodes *)

\* A thread that is past open() has a descriptor.
HasDescriptor == \A t \in Threads : stage[t] # "out" => fd[t] \in Inodes

\* HoldersOwnTheirInode is not inductive alone: Acquire gives the inode of the
\* descriptor to the thread, which HasDescriptor makes a real one.
LockInv == LockTypeOK /\ HasDescriptor /\ HoldersOwnTheirInode

LEMMA InitLockInv == LockInit => LockInv
  BY LockConstants
  DEF LockInit, LockInv, LockTypeOK, HasDescriptor, HoldersOwnTheirInode, Stage

LEMMA NextLockInv == LockInv /\ [LockNext]_lockVars => LockInv'
<1> SUFFICES ASSUME LockInv, [LockNext]_lockVars PROVE LockInv'
  OBVIOUS
<1> USE LockConstants DEF LockInv, LockTypeOK, HasDescriptor, HoldersOwnTheirInode, Stage
<1>1. ASSUME NEW t \in Threads, NEW p \in Paths, Open(t, p) PROVE LockInv'
  <2>1. PICK i \in Inodes : /\ lockFile' = [lockFile EXCEPT ![p] = i]
                            /\ fd' = [fd EXCEPT ![t] = i]
    BY <1>1 DEF Open
  <2>2. /\ stage[t] = "out"
        /\ stage' = [stage EXCEPT ![t] = "opened"]
        /\ target' = [target EXCEPT ![t] = p]
        /\ owner' = owner
    BY <1>1 DEF Open
  <2>3. LockTypeOK' /\ HasDescriptor'
    BY <2>1, <2>2
  <2>4. HoldersOwnTheirInode'
    BY <2>1, <2>2
  <2> QED
    BY <2>3, <2>4
<1>2. ASSUME NEW t \in Threads, Acquire(t) PROVE LockInv'
  <2>1. fd[t] \in Inodes
    BY <1>2 DEF Acquire
  <2>2. LockTypeOK' /\ HasDescriptor'
    BY <1>2, <2>1 DEF Acquire
  <2>3. HoldersOwnTheirInode'
    BY <1>2, <2>1 DEF Acquire
  <2> QED
    BY <2>2, <2>3
<1>3. ASSUME NEW t \in Threads, Unlock(t) PROVE LockInv'
  BY <1>3 DEF Unlock
<1>4. ASSUME NEW t \in Threads, Unlink(t) PROVE LockInv'
  BY <1>4 DEF Unlink
<1>5. CASE LockCrash
  BY <1>5 DEF LockCrash
<1>6. CASE UNCHANGED lockVars
  BY <1>6 DEF lockVars
<1> QED
  BY <1>1, <1>2, <1>3, <1>4, <1>5, <1>6 DEF LockNext, LockStep

\* Every reachable state keeps the lock's invariant.
THEOREM LockInvHolds == LockSpec => []LockInv
  BY InitLockInv, NextLockInv, PTL DEF LockSpec

\* The state is always well formed: in particular no step of the context
\* manager or of a crash leaves a descriptor or an owner that does not exist.
THEOREM LockStateIsTyped == LockSpec => []LockTypeOK
<1>1. LockInv => LockTypeOK
  BY DEF LockInv
<1> QED
  BY <1>1, LockInvHolds, PTL

\* For any number of threads: whoever runs inside the context manager owns the
\* flock of the file it opened, and nobody else owns one (file_lock.py:14-20).
THEOREM HoldersOwn == LockSpec => []HoldersOwnTheirInode
<1>1. LockInv => HoldersOwnTheirInode
  BY DEF LockInv
<1> QED
  BY <1>1, LockInvHolds, PTL

\* For any number of threads: at most one holder of a path holds the file that
\* still has the lock's name; the others lock files that were unlinked.
THEOREM OneNamedHolder == LockSpec => []OneHolderOfTheNamedFile
<1>1. LockInv => OneHolderOfTheNamedFile
  BY DEF LockInv, HoldersOwnTheirInode, OneHolderOfTheNamedFile, Holders
<1> QED
  BY <1>1, LockInvHolds, PTL

-----------------------------------------------------------------------------
(* Types of the handlers *)

\* TypeOK without the lock's part: what the lock's steps need to be given.
SiteTypeOK ==
    /\ avail \in [Slugs -> File]
    /\ enabled \subseteq Slugs
    /\ htpasswd \subseteq Slugs
    /\ live \in [Slugs -> File]
    /\ master \in {"loaded", "signalled", "refused"}
    /\ recorded \in [Slugs -> File]
    /\ notes \subseteq Slugs
    /\ pc \in [Threads -> Pcs]
    /\ op \in [Threads -> Ops]
    /\ out \in [Threads -> Outs]
    /\ alone \in [Threads -> BOOLEAN]

-----------------------------------------------------------------------------
(* Records *)

LEMMA BackupOp ==
  ASSUME NEW o \in Ops, NEW f \in File
  PROVE  [o EXCEPT !.backup = f] \in Ops
  BY DEF Ops

LEMMA ReturnedOp == ASSUME NEW o \in Ops PROVE Returned(o) \in Ops
  BY DEF Ops, Returned, File

LEMMA NoOpType == ASSUME NEW s \in Slugs PROVE NoOp(s) \in Ops
  BY DEF NoOp, Ops, Kinds, File

LEMMA LocalsType ==
  ASSUME SiteTypeOK, NEW kind \in Kinds, NEW s \in Slugs, NEW to \in Slugs,
         NEW new \in File, NEW creds \in BOOLEAN, NEW en \in BOOLEAN
  PROVE  Locals(kind, s, to, new, creds, en) \in Ops
  BY DEF Locals, Ops, SiteTypeOK, File

LEMMA RerenderedType ==
  ASSUME NEW s \in Slugs
  PROVE  Rerendered(s) \subseteq Contents
  BY DEF Rerendered

-----------------------------------------------------------------------------
(* Parts of the actions *)

LEMMA GotoType ==
  ASSUME SiteTypeOK, NEW t \in Threads, NEW step \in Pcs, Goto(t, step)
  PROVE  pc' \in [Threads -> Pcs] /\ op' \in [Threads -> Ops]
  BY ReturnedOp DEF SiteTypeOK, Goto

LEMMA ResultType ==
  ASSUME SiteTypeOK, NEW t \in Threads, NEW r \in Outs, Result(t, r)
  PROVE  out' \in [Threads -> Outs]
  BY DEF SiteTypeOK, Result

LEMMA TruncateType ==
  ASSUME SiteTypeOK, NEW t \in Threads, Truncate(t)
  PROVE  /\ avail' \in [Slugs -> File]
         /\ pc' \in [Threads -> Pcs] /\ op' \in [Threads -> Ops]
<1>1. op[t].slug \in Slugs
  BY DEF SiteTypeOK, Ops
<1>2. \A torn \in Torn : torn \in File
  BY DEF File, Texts
<1>3. avail' \in [Slugs -> File]
  BY <1>1, <1>2 DEF SiteTypeOK, Truncate
<1>4. "copy" \in Pcs /\ Goto(t, "copy")
  BY DEF Truncate, Pcs
<1> QED
  BY <1>3, <1>4, GotoType

LEMMA ViewType == ASSUME SiteTypeOK PROVE View \in [Slugs -> File]
  BY DEF SiteTypeOK, View, File

LEMMA BeginType ==
  ASSUME SiteTypeOK, NEW t \in Threads, NEW o \in Ops, NEW first \in Pcs, Begin(t, o, first)
  PROVE  SiteTypeOK'
<1>1. alone' \in [Threads -> BOOLEAN]
  BY DEF SiteTypeOK, Begin
<1> QED
  BY <1>1 DEF SiteTypeOK, Begin, disk, book, nginx, Outs

LEMMA StartType == ASSUME SiteTypeOK, Start PROVE SiteTypeOK'
<1>0. Api \in Threads /\ Jobs \subseteq Threads
  BY SiteConstants DEF Jobs
<1>a. {"backup", "lock", "write"} \subseteq Pcs
  BY DEF Pcs
<1>b. /\ \A c \in Contents : c \in File /\ c.auth \in BOOLEAN
      /\ \A c \in Texts : c \in File
  BY SiteConstants DEF File, Texts, Contents
<1>c. NoFile \in File
  BY DEF File
<1>d. /\ {"create", "update", "rename", "delete", "setEnabled"} \subseteq Kinds
      /\ {"regen", "revert", "revertToNone", "rewrite"} \subseteq Kinds
  BY DEF Kinds
<1>e. avail \in [Slugs -> File] /\ \A s \in Slugs : (s \in enabled) \in BOOLEAN
  BY DEF SiteTypeOK
<1>1. CASE BeginCreate
  BY <1>1, <1>0, <1>a, <1>b, <1>d, BeginType, LocalsType DEF BeginCreate
<1>2. CASE BeginUpdate
  BY <1>2, <1>0, <1>a, <1>b, <1>d, BeginType, LocalsType DEF BeginUpdate
<1>3. CASE BeginRename
  BY <1>3, <1>0, <1>a, <1>b, <1>d, BeginType, LocalsType DEF BeginRename
<1>4. CASE BeginDelete
  BY <1>4, <1>0, <1>a, <1>c, <1>d, BeginType, LocalsType DEF BeginDelete
<1>5. CASE BeginSetEnabled
  BY <1>5, <1>0, <1>a, <1>e, <1>d, BeginType, LocalsType DEF BeginSetEnabled
<1>6. CASE BeginRevert
  BY <1>6, <1>0, <1>a, <1>b, <1>d, BeginType, LocalsType DEF BeginRevert
<1>7. CASE BeginRevertToNone
  BY <1>7, <1>0, <1>a, <1>c, <1>d, BeginType, LocalsType DEF BeginRevertToNone
<1>8. CASE BeginRewrite
  BY <1>8, <1>0, <1>a, <1>b, <1>e, <1>d, BeginType, LocalsType, RerenderedType DEF BeginRewrite
<1>9. ASSUME NEW t \in Jobs, BeginRegen(t) PROVE SiteTypeOK'
  BY <1>9, <1>0, <1>a, <1>b, <1>e, <1>d, BeginType, LocalsType, RerenderedType DEF BeginRegen
<1> QED
  BY <1>1, <1>2, <1>3, <1>4, <1>5, <1>6, <1>7, <1>8, <1>9 DEF Start

LEMMA WorkType == ASSUME SiteTypeOK, NEW t \in Threads, Work(t) PROVE SiteTypeOK'
<1>0. op[t] \in Ops /\ op[t].slug \in Slugs /\ op[t].to \in Slugs
      /\ op[t].new \in File /\ op[t].saved \in File /\ op[t].backup \in File
  BY DEF SiteTypeOK, Ops
<1>a. NoFile \in File
  BY DEF File
<1> USE DEF disk, book, nginx
<1>1. CASE Backup(t)
  BY <1>1, <1>0, BackupOp DEF Backup, SiteTypeOK, Pcs
<1>2. CASE LockOpen(t)
  BY <1>2 DEF LockOpen, SiteTypeOK
<1>3. CASE LockAcquire(t)
  <2>1. FirstWrite(op[t].kind) \in Pcs
    BY DEF FirstWrite, Pcs
  <2> QED
    BY <1>3, <2>1, GotoType DEF LockAcquire, SiteTypeOK
<1>4. CASE SyncAuth(t)
  <2>1. htpasswd' \subseteq Slugs
    BY <1>4, <1>0 DEF SyncAuth, SiteTypeOK
  <2> QED
    BY <1>4, <2>1, GotoType DEF SyncAuth, SiteTypeOK, Pcs
<1>5. CASE WriteFile(t)
  BY <1>5, <1>0, GotoType DEF WriteFile, SiteTypeOK, Pcs
<1>6. CASE WriteRaises(t)
  <2>1. \E step \in Pcs : Goto(t, step)
    BY <1>6 DEF WriteRaises, Pcs
  <2> QED
    BY <1>6, <2>1, GotoType, ResultType DEF WriteRaises, SiteTypeOK, Outs
<1>7. CASE LinkSite(t)
  <2>1. \E step \in Pcs : Goto(t, step)
    BY <1>7 DEF LinkSite, Pcs
  <2>2. out' \in [Threads -> Outs]
    BY <1>7, ResultType DEF LinkSite, SiteTypeOK, Outs
  <2>3. enabled' \subseteq Slugs
    BY <1>7, <1>0 DEF LinkSite, SiteTypeOK
  <2> QED
    BY <1>7, <2>1, <2>2, <2>3, GotoType DEF LinkSite, SiteTypeOK
<1>8. CASE DropOld(t)
  BY <1>8, <1>0, <1>a, GotoType DEF DropOld, SiteTypeOK, Pcs
<1>9. CASE Test(t)
  <2>1. \E step \in Pcs : Goto(t, step)
    BY <1>9 DEF Test, Pcs
  <2>2. out' \in [Threads -> Outs]
    BY <1>9, ResultType DEF Test, SiteTypeOK, Outs
  <2> QED
    BY <1>9, <2>1, <2>2, GotoType DEF Test, SiteTypeOK
<1>10. CASE Restore(t)
  <2>1. CASE Truncate(t)
    BY <1>10, <2>1, TruncateType DEF Restore, SiteTypeOK
  <2>2. CASE Goto(t, "unlock") /\ avail' = [avail EXCEPT ![op[t].slug] = NoFile]
    BY <1>10, <1>0, <1>a, <2>2, GotoType DEF Restore, SiteTypeOK, Pcs
  <2> QED
    BY <1>10, <2>1, <2>2 DEF Restore
<1>11. CASE UndoNew(t)
  BY <1>11, <1>0, <1>a, GotoType DEF UndoNew, SiteTypeOK, Pcs
<1>12. CASE UndoOld(t)
  BY <1>12, TruncateType DEF UndoOld, SiteTypeOK
<1>13. CASE Release(t)
  BY <1>13, GotoType DEF Release, SiteTypeOK, Pcs
<1>14. CASE UnlinkLock(t)
  <2>1. \E step \in Pcs : Goto(t, step)
    BY <1>14 DEF UnlinkLock, Pcs
  <2> QED
    BY <1>14, <2>1, GotoType DEF UnlinkLock, SiteTypeOK
<1>15. CASE RestoreDeleted(t)
  BY <1>15, TruncateType DEF RestoreDeleted, SiteTypeOK
<1>16. CASE ReloadTest(t)
  <2>1. \E step \in Pcs : Goto(t, step)
    BY <1>16 DEF ReloadTest, ReloadFailed, Pcs
  <2>2. out' \in [Threads -> Outs] /\ live' = live /\ master' = master
    BY <1>16, ResultType DEF ReloadTest, ReloadFailed, SiteTypeOK, Outs
  <2> QED
    BY <1>16, <2>1, <2>2, GotoType DEF ReloadTest, SiteTypeOK
<1>17. CASE ReloadSignal(t)
  <2>1. \E step \in Pcs : Goto(t, step)
    BY <1>17 DEF ReloadSignal, Reloaded, ReloadFailed, Pcs
  <2>2. out' \in [Threads -> Outs]
    BY <1>17, ResultType DEF ReloadSignal, Reloaded, ReloadFailed, SiteTypeOK, Outs
  <2>3. live' = live /\ master' \in {master, "signalled"}
    BY <1>17 DEF ReloadSignal, ReloadFailed
  <2> QED
    BY <1>17, <2>1, <2>2, <2>3, GotoType DEF ReloadSignal, SiteTypeOK
<1>18. CASE Record(t)
  <2>1. notes' \subseteq Slugs /\ recorded' \in [Slugs -> File]
    BY <1>18, <1>0 DEF Record, SiteTypeOK
  <2>2. out' \in [Threads -> Outs]
    BY <1>18, ResultType DEF Record, Outs
  <2> QED
    BY <1>18, <2>1, <2>2, GotoType DEF Record, SiteTypeOK, Pcs
<1>19. CASE CopyBack(t)
  <2>1. \E step \in Pcs : Goto(t, step)
    BY <1>19 DEF CopyBack, Pcs
  <2>2. enabled' \subseteq Slugs
    BY <1>19, <1>0 DEF CopyBack, SiteTypeOK
  <2>3. Source(t) \in File
    BY <1>0 DEF Source
  <2> QED
    BY <1>19, <1>0, <2>1, <2>2, <2>3, GotoType DEF CopyBack, SiteTypeOK
<1> QED
  BY <1>1, <1>2, <1>3, <1>4, <1>5, <1>6, <1>7, <1>8, <1>9, <1>10, <1>11, <1>12,
     <1>13, <1>14, <1>15, <1>16, <1>17, <1>18, <1>19 DEF Work

LEMMA CrashType == ASSUME SiteTypeOK, Crash PROVE SiteTypeOK'
<1>1. \A t \in Threads : Returned(op[t]) \in Ops
  BY ReturnedOp DEF SiteTypeOK
<1> QED
  BY <1>1 DEF Crash, SiteTypeOK, disk, book, nginx, Pcs, Outs

LEMMA InitType == Init => SiteTypeOK
<1> SUFFICES ASSUME Init PROVE SiteTypeOK
  OBVIOUS
<1>1. avail \in [Slugs -> Contents \cup {NoFile}] /\ Contents \cup {NoFile} \subseteq File
  BY DEF Init, File, Texts
<1>2. avail \in [Slugs -> File]
  BY <1>1
<1>3. View \in [Slugs -> File]
  BY <1>2 DEF View, File
<1> QED
  BY <1>2, <1>3, NoOpType DEF Init, SiteTypeOK, Pcs, Outs

LEMMA LoadType == ASSUME SiteTypeOK, Load PROVE SiteTypeOK'
  BY ViewType DEF Load, SiteTypeOK, disk

LEMMA NextType == SiteTypeOK /\ [Next]_vars => SiteTypeOK'
  BY StartType, WorkType, CrashType, LoadType DEF Next, vars, disk, book, nginx, SiteTypeOK

\* Every variable of the handlers stays in its range, whatever the lock does.
THEOREM SiteTypeHolds == Spec => []SiteTypeOK
  BY InitType, NextType, PTL DEF Spec

-----------------------------------------------------------------------------
(* The lock inside the handlers *)

LEMMA HandlersLockInit == Init => LockInit
  BY DEF Init

LEMMA StartBegins ==
  ASSUME Start
  PROVE  \E t, o, first : Begin(t, o, first)
<1>1. CASE BeginCreate \/ BeginUpdate \/ BeginRename
  BY <1>1 DEF BeginCreate, BeginUpdate, BeginRename
<1>2. CASE BeginDelete \/ BeginSetEnabled \/ BeginRevert \/ BeginRevertToNone \/ BeginRewrite
  BY <1>2 DEF BeginDelete, BeginSetEnabled, BeginRevert, BeginRevertToNone, BeginRewrite
<1>3. ASSUME NEW t \in Jobs, BeginRegen(t) PROVE \E u, o, first : Begin(u, o, first)
  BY <1>3 DEF BeginRegen
<1> QED
  BY <1>1, <1>2, <1>3 DEF Start

LEMMA HandlersLockStep == SiteTypeOK /\ [Next]_vars => [LockNext]_lockVars
<1> SUFFICES ASSUME SiteTypeOK, [Next]_vars, lockVars' # lockVars PROVE LockNext
  OBVIOUS
<1>1. CASE Start
  BY <1>1, StartBegins DEF Begin
<1>2. CASE Crash
  BY <1>2 DEF Crash, LockNext
<1>3. ASSUME NEW t \in Threads, Work(t) PROVE LockNext
  <2>1. op[t].slug \in Slugs
    BY DEF SiteTypeOK, Ops
  <2>2. Open(t, op[t].slug) \/ Acquire(t) \/ Unlock(t) \/ Unlink(t)
    BY <1>3 DEF Work, Backup, LockOpen, LockAcquire, SyncAuth, WriteFile, WriteRaises,
                LinkSite, DropOld, Test, Restore, UndoNew, UndoOld, CopyBack, Release, UnlinkLock,
                RestoreDeleted, ReloadTest, ReloadSignal, Record
  <2> QED
    BY <2>1, <2>2 DEF LockNext, LockStep, Slugs
<1>4. CASE Load
  BY <1>4 DEF Load
<1> QED
  BY <1>1, <1>2, <1>3, <1>4 DEF Next, vars

\* The handlers use the lock as FileLock says: every behaviour of the handlers
\* is one of the lock, for the same threads and one path for each site
\* (apply_change and update_proxy's rename enter file_lock and leave it).
THEOREM HandlersUseLock == Spec => LockSpec
<1>1. SiteTypeOK /\ [Next]_vars => [LockNext]_lockVars
  BY HandlersLockStep
<1> QED
  BY <1>1, HandlersLockInit, SiteTypeHolds, PTL DEF Spec, LockSpec

\* So what was proved of the lock holds inside the handlers: its variables stay
\* in their range and whoever is inside owns the lock file it opened ...
THEOREM HandlersLockInv == Spec => []LockInv
  BY HandlersUseLock, LockInvHolds, PTL

\* ... and at most one handler inside the section of a site holds the file that
\* still has the lock's name, although every handler unlinks it.
THEOREM HandlersNamedHolder == Spec => []OneHolderOfTheNamedFile
  BY HandlersUseLock, OneNamedHolder, PTL

-----------------------------------------------------------------------------
(* Rollback *)

\* An uncontended handler shares no site with a handler that runs.
Apart == \A t, u \in Threads :
    alone[t] /\ u # t /\ pc[u] # "idle" => Footprint(op[u]) \cap Footprint(op[t]) = {}

\* Steps at which nothing has failed yet.
Unfailed == {"backup", "lock", "sync", "write", "link", "drop", "test",
             "reload", "signal", "record"}

\* Which handlers come to which step, and with what.
ShapeOf(t) ==
    /\ op[t].kind # "rename" => op[t].to = op[t].slug
    /\ pc[t] # "idle" /\ op[t].kind \in RestoresFiles \ {"delete"} => op[t].new # NoFile
    /\ pc[t] \in Unfailed => out[t] = "running"
    /\ pc[t] = "restore" => op[t].kind # "rename" /\ out[t] = "validation"
    /\ pc[t] = "restoreDeleted" => op[t].kind = "delete" /\ out[t] = "validation"
    /\ pc[t] \in {"undoNew", "undoOld"} => op[t].kind = "rename" /\ out[t] # "running"
    /\ pc[t] = "copy" => out[t] # "running"
    /\ pc[t] = "drop" => op[t].kind \in {"rename", "delete", "revertToNone"}

\* How far an uncontended handler has changed, or restored, its files: nothing
\* is written up to "write"; the backup is the text the handler found, until it
\* has been copied back; a file
\* that is missing before the restoration was missing at the start; and what
\* leaves by a failure has been restored, but for a delete, which does it last.
FilesOf(t) ==
    /\ pc[t] \in {"backup", "lock", "sync", "write"} => FilesAsBefore(t)
    /\ op[t].kind # "rename" /\ pc[t] \in {"lock", "sync", "write", "link", "drop", "test", "restore",
                                               "unlock", "unlink", "restoreDeleted", "copy"}
         => op[t].backup = op[t].saved
    /\ op[t].kind \notin {"rename", "delete"} /\ pc[t] \in {"link", "test", "restore"}
         => (avail[op[t].slug] = NoFile => op[t].saved = NoFile)
    /\ pc[t] \in {"undoOld", "copy"} /\ op[t].to # op[t].slug => avail[op[t].to] = NoFile
    /\ pc[t] \in {"unlock", "unlink"} /\ out[t] \in {"validation", "error"}
         => FilesAsBefore(t) \/ (op[t].kind = "delete" /\ out[t] = "validation")
    /\ pc[t] = "idle" /\ out[t] \in {"validation", "error"} => FilesAsBefore(t)
    /\ op[t].kind = "rename" /\ pc[t] \in {"unlock", "unlink", "idle"}
         /\ out[t] \in {"validation", "error", "reload"} => FilesAsBefore(t) /\ LinksAsBefore(t)

RollbackInv ==
    /\ SiteTypeOK
    /\ Apart
    /\ \A t \in Threads : ShapeOf(t)
    /\ \A t \in Threads : alone[t] /\ op[t].kind \in RestoresFiles => FilesOf(t)

\* What no step of a handler changes: its name, its sites, what it found, and
\* everything of the others; and it writes to its own sites only.
Frame(t) ==
    /\ pc[t] # "idle"
    /\ alone' = alone
    /\ \A u \in Threads \ {t} : pc'[u] = pc[u] /\ op'[u] = op[u] /\ out'[u] = out[u]
    /\ op'[t].kind = op[t].kind /\ op'[t].slug = op[t].slug /\ op'[t].to = op[t].to
    /\ op'[t].saved = op[t].saved /\ op'[t].wasEn = op[t].wasEn /\ op'[t].wasPw = op[t].wasPw
    /\ \A s \in Slugs \ Footprint(op[t]) : avail'[s] = avail[s] /\ (s \in enabled' <=> s \in enabled)

LEMMA ReturnedKeeps ==
  ASSUME NEW o \in Ops
  PROVE  /\ Returned(o).kind = o.kind /\ Returned(o).slug = o.slug /\ Returned(o).to = o.to
         /\ Returned(o).saved = o.saved /\ Returned(o).wasEn = o.wasEn /\ Returned(o).wasPw = o.wasPw
  BY DEF Ops, Returned

LEMMA BackupKeeps ==
  ASSUME NEW o \in Ops, NEW f \in File
  PROVE  LET b == [o EXCEPT !.backup = f] IN
         /\ b.kind = o.kind /\ b.slug = o.slug /\ b.to = o.to /\ b.new = o.new
         /\ b.saved = o.saved /\ b.wasEn = o.wasEn /\ b.wasPw = o.wasPw /\ b.backup = f
         /\ b.creds = o.creds
  BY DEF Ops

\* What Goto does to the thread and leaves alone.
LEMMA GotoKeeps ==
  ASSUME SiteTypeOK, NEW t \in Threads, NEW step, Goto(t, step)
  PROVE  /\ pc' = [pc EXCEPT ![t] = step]
         /\ \A u \in Threads \ {t} : pc'[u] = pc[u] /\ op'[u] = op[u]
         /\ op'[t].kind = op[t].kind /\ op'[t].slug = op[t].slug /\ op'[t].to = op[t].to
         /\ op'[t].saved = op[t].saved /\ op'[t].wasEn = op[t].wasEn /\ op'[t].wasPw = op[t].wasPw
         /\ step # "idle" => op' = op
<1>1. op[t] \in Ops
  BY DEF SiteTypeOK
<1>2. \A u \in Threads \ {t} : pc'[u] = pc[u] /\ op'[u] = op[u]
  BY DEF SiteTypeOK, Goto
<1>3. op'[t] = op[t] \/ op'[t] = Returned(op[t])
  BY DEF SiteTypeOK, Goto
<1> QED
  BY <1>1, <1>2, <1>3, ReturnedKeeps DEF Goto

LEMMA ResultKeeps ==
  ASSUME SiteTypeOK, NEW t \in Threads, NEW r, Result(t, r)
  PROVE  out'[t] = r /\ \A u \in Threads \ {t} : out'[u] = out[u]
  BY DEF SiteTypeOK, Result

LEMMA WorkFrame == ASSUME SiteTypeOK, NEW t \in Threads, Work(t) PROVE Frame(t)
<1>0. op[t] \in Ops /\ op[t].slug \in Slugs /\ op[t].to \in Slugs
  BY DEF SiteTypeOK, Ops
<1>a. avail \in [Slugs -> File] /\ op \in [Threads -> Ops] /\ pc \in [Threads -> Pcs]
  BY DEF SiteTypeOK
<1> USE GotoKeeps, ResultKeeps DEF Frame, disk, book, nginx, Footprint
<1>1. CASE Backup(t)
  <2>1. avail[op[t].slug] \in File
    BY <1>0, <1>a
  <2>2. op'[t] = [op[t] EXCEPT !.backup = avail[op[t].slug]]
    BY <1>1, <1>a DEF Backup
  <2>3. \A u \in Threads \ {t} : pc'[u] = pc[u] /\ op'[u] = op[u]
    BY <1>1, <1>a DEF Backup
  <2> QED
    BY <1>1, <1>0, <2>1, <2>2, <2>3, BackupKeeps DEF Backup
<1>2. CASE LockOpen(t)
  BY <1>2 DEF LockOpen
<1>3. CASE LockAcquire(t)
  BY <1>3 DEF LockAcquire
<1>4. CASE SyncAuth(t)
  BY <1>4 DEF SyncAuth
<1>5. CASE WriteFile(t)
  BY <1>5, <1>0, <1>a DEF WriteFile
<1>6. CASE WriteRaises(t)
  BY <1>6 DEF WriteRaises
<1>7. CASE LinkSite(t)
  BY <1>7 DEF LinkSite
<1>8. CASE DropOld(t)
  BY <1>8, <1>0, <1>a DEF DropOld
<1>9. CASE Test(t)
  BY <1>9 DEF Test
<1>10. CASE Restore(t)
  BY <1>10, <1>0, <1>a DEF Restore, Truncate
<1>11. CASE UndoNew(t)
  BY <1>11, <1>0, <1>a DEF UndoNew
<1>12. CASE UndoOld(t)
  BY <1>12, <1>0, <1>a DEF UndoOld, Truncate
<1>13. CASE Release(t)
  BY <1>13 DEF Release
<1>14. CASE UnlinkLock(t)
  BY <1>14 DEF UnlinkLock
<1>15. CASE RestoreDeleted(t)
  BY <1>15, <1>0, <1>a DEF RestoreDeleted, Truncate
<1>16. CASE ReloadTest(t)
  BY <1>16 DEF ReloadTest, ReloadFailed
<1>17. CASE ReloadSignal(t)
  BY <1>17 DEF ReloadSignal, Reloaded, ReloadFailed
<1>18. CASE Record(t)
  BY <1>18 DEF Record
<1>19. CASE CopyBack(t)
  BY <1>19, <1>0, <1>a DEF CopyBack
<1> QED
  BY <1>1, <1>2, <1>3, <1>4, <1>5, <1>6, <1>7, <1>8, <1>9, <1>10, <1>11, <1>12,
     <1>13, <1>14, <1>15, <1>16, <1>17, <1>18, <1>19 DEF Work

\* A step of t keeps what is known about every other thread.
LEMMA OthersKept ==
  ASSUME RollbackInv, NEW t \in Threads, Frame(t), NEW u \in Threads, u # t
  PROVE  /\ ShapeOf(u)'
         /\ (alone[u] /\ op[u].kind \in RestoresFiles => FilesOf(u))'
<1>1. pc'[u] = pc[u] /\ op'[u] = op[u] /\ out'[u] = out[u] /\ alone'[u] = alone[u]
  BY DEF Frame
<1>2. ShapeOf(u)'
  BY <1>1 DEF RollbackInv, ShapeOf
<1>3. ASSUME alone[u] PROVE /\ FilesAsBefore(u)' <=> FilesAsBefore(u)
                            /\ LinksAsBefore(u)' <=> LinksAsBefore(u)
                            /\ avail'[op[u].slug] = avail[op[u].slug]
                            /\ avail'[op[u].to] = avail[op[u].to]
  <2>1. Footprint(op[u]) \cap Footprint(op[t]) = {}
    BY <1>3 DEF RollbackInv, Apart, Frame
  <2>2. op[u].slug \in Slugs /\ op[u].to \in Slugs
    BY DEF RollbackInv, SiteTypeOK, Ops
  <2>3. op[u].slug \notin Footprint(op[t]) /\ op[u].to \notin Footprint(op[t])
    BY <2>1 DEF Footprint
  <2> QED
    BY <1>1, <2>2, <2>3 DEF Frame, FilesAsBefore, LinksAsBefore
<1> QED
  BY <1>1, <1>2, <1>3 DEF RollbackInv, FilesOf

\* What is known of the stepping thread's locals and files before the step.
LEMMA OwnState ==
  ASSUME RollbackInv, NEW t \in Threads
  PROVE  /\ SiteTypeOK /\ ShapeOf(t)
         /\ alone[t] /\ op[t].kind \in RestoresFiles => FilesOf(t)
         /\ op[t] \in Ops /\ op[t].slug \in Slugs /\ op[t].to \in Slugs
         /\ avail \in [Slugs -> File] /\ pc \in [Threads -> Pcs] /\ op \in [Threads -> Ops]
         /\ out \in [Threads -> Outs]
  BY DEF RollbackInv, SiteTypeOK, Ops

LEMMA OwnKept ==
  ASSUME RollbackInv, NEW t \in Threads, Work(t)
  PROVE  /\ ShapeOf(t)'
         /\ (alone[t] /\ op[t].kind \in RestoresFiles => FilesOf(t))'
<1> USE OwnState, GotoKeeps, ResultKeeps
<1> USE DEF disk, book, nginx, Unfailed, RestoresFiles
<1>0. alone' = alone /\ op'[t].kind = op[t].kind /\ op'[t].slug = op[t].slug
      /\ op'[t].to = op[t].to /\ op'[t].saved = op[t].saved /\ op'[t].wasEn = op[t].wasEn
  BY WorkFrame DEF Frame
<1>1. CASE Backup(t)
  <2>1. avail[op[t].slug] \in File
    OBVIOUS
  <2>2. op'[t] = [op[t] EXCEPT !.backup = avail[op[t].slug]]
    BY <1>1 DEF Backup
  <2>3. op'[t].backup = avail[op[t].slug] /\ op'[t].new = op[t].new
    BY <2>1, <2>2, BackupKeeps
  <2>4. pc[t] = "backup" /\ pc'[t] = "lock" /\ out' = out /\ avail' = avail /\ enabled' = enabled
    BY <1>1 DEF Backup
  <2> QED
    BY <1>0, <2>3, <2>4 DEF ShapeOf, FilesOf, FilesAsBefore, LinksAsBefore
<1>2. CASE LockOpen(t)
  BY <1>2, <1>0 DEF LockOpen, ShapeOf, FilesOf, FilesAsBefore, LinksAsBefore
<1>3. CASE LockAcquire(t)
  BY <1>3, <1>0 DEF LockAcquire, FirstWrite, ShapeOf, FilesOf, FilesAsBefore, LinksAsBefore
<1>4. CASE SyncAuth(t)
  BY <1>4, <1>0 DEF SyncAuth, ShapeOf, FilesOf, FilesAsBefore, LinksAsBefore
<1>5. CASE WriteFile(t)
  BY <1>5, <1>0 DEF WriteFile, ShapeOf, FilesOf, FilesAsBefore, LinksAsBefore
<1>6. CASE WriteRaises(t)
  BY <1>6, <1>0 DEF WriteRaises, ShapeOf, FilesOf, FilesAsBefore, LinksAsBefore
<1>7. CASE LinkSite(t)
  BY <1>7, <1>0 DEF LinkSite, Removes, ShapeOf, FilesOf, FilesAsBefore, LinksAsBefore
<1>8. CASE DropOld(t)
  BY <1>8, <1>0 DEF DropOld, ShapeOf, FilesOf, FilesAsBefore, LinksAsBefore
<1>9. CASE Test(t)
  BY <1>9, <1>0 DEF Test, ShapeOf, FilesOf, FilesAsBefore, LinksAsBefore
<1>10. CASE Restore(t)
  <2>1. op[t].kind # "rename" /\ op[t].to = op[t].slug /\ op[t].kind \in Kinds
        /\ pc[t] = "restore" /\ out[t] = "validation" /\ out' = out /\ enabled' = enabled
    BY <1>10 DEF Restore, ShapeOf, Ops
  <2>2. CASE Truncate(t)
    <3>1. pc'[t] = "copy" /\ op' = op
      BY <2>2 DEF Truncate
    <3>2. alone[t] /\ op[t].kind \in RestoresFiles => op[t].backup = op[t].saved
      BY <2>1 DEF FilesOf
    <3> QED
      BY <1>0, <2>1, <3>1, <3>2 DEF ShapeOf, FilesOf
  <2>3. CASE ~Truncate(t)
    <3>1. /\ pc'[t] = "unlock" /\ op' = op /\ avail' = [avail EXCEPT ![op[t].slug] = NoFile]
          /\ avail[op[t].slug] = NoFile \/ op[t].backup = NoFile
      BY <1>10, <2>3 DEF Restore
    <3>2. ASSUME alone[t], op[t].kind \in RestoresFiles
          PROVE  /\ op[t].backup = op[t].saved
                 /\ op[t].kind # "delete" => avail'[op[t].slug] = op[t].saved
      <4>1. op[t].backup = op[t].saved
        BY <2>1, <3>2 DEF FilesOf
      <4>2. op[t].kind # "delete" => (avail[op[t].slug] = NoFile => op[t].saved = NoFile)
        BY <2>1, <3>2 DEF FilesOf
      <4> QED
        BY <3>1, <4>1, <4>2
    <3>3. ShapeOf(t)'
      BY <1>0, <2>1, <3>1 DEF ShapeOf
    <3>4. ASSUME alone[t], op[t].kind \in RestoresFiles PROVE FilesOf(t)'
      BY <2>1, <3>1, <3>2, <3>4 DEF FilesOf, FilesAsBefore
    <3> QED
      BY <1>0, <3>3, <3>4
  <2> QED
    BY <2>2, <2>3
<1>11. CASE UndoNew(t)
  BY <1>11, <1>0 DEF UndoNew, ShapeOf, FilesOf, FilesAsBefore, LinksAsBefore
<1>12. CASE UndoOld(t)
  <2>1. pc[t] = "undoOld" /\ pc'[t] = "copy" /\ op' = op /\ out' = out /\ enabled' = enabled
        /\ \A s \in Slugs : s # op[t].slug => avail'[s] = avail[s]
    BY <1>12 DEF UndoOld, Truncate
  <2>2. op[t].kind = "rename" /\ out[t] # "running"
    BY <2>1 DEF ShapeOf
  <2> QED
    BY <1>0, <2>1, <2>2 DEF ShapeOf, FilesOf
<1>13. CASE Release(t)
  BY <1>13, <1>0 DEF Release, ShapeOf, FilesOf, FilesAsBefore, LinksAsBefore
<1>14. CASE UnlinkLock(t)
  BY <1>14, <1>0 DEF UnlinkLock, ShapeOf, FilesOf, FilesAsBefore, LinksAsBefore
<1>15. CASE RestoreDeleted(t)
  <2>1. pc[t] = "restoreDeleted" /\ pc'[t] = "copy" /\ op' = op /\ out' = out /\ enabled' = enabled
    BY <1>15 DEF RestoreDeleted, Truncate
  <2>2. op[t].kind = "delete" /\ out[t] = "validation" /\ op[t].to = op[t].slug
    BY <2>1 DEF ShapeOf
  <2> QED
    BY <1>0, <2>1, <2>2 DEF ShapeOf, FilesOf
<1>16. CASE ReloadTest(t)
  BY <1>16, <1>0 DEF ReloadTest, ReloadFailed, ShapeOf, FilesOf, FilesAsBefore, LinksAsBefore
<1>17. CASE ReloadSignal(t)
  BY <1>17, <1>0 DEF ReloadSignal, Reloaded, ReloadFailed, ShapeOf, FilesOf, FilesAsBefore, LinksAsBefore
<1>18. CASE Record(t)
  BY <1>18, <1>0 DEF Record, ShapeOf, FilesOf, FilesAsBefore, LinksAsBefore
<1>19. CASE CopyBack(t)
  <2>1. /\ pc[t] = "copy" /\ pc'[t] \in {"unlock", "idle"} /\ out' = out /\ out[t] # "running"
        /\ avail'[op[t].slug] = Source(t)
        /\ \A s \in Slugs : s # op[t].slug => avail'[s] = avail[s]
        /\ pc'[t] = "unlock" => op' = op
    BY <1>19 DEF CopyBack, ShapeOf
  <2>2. op[t].wasEn \in BOOLEAN
    BY DEF Ops
  <2>3. op[t].kind = "rename" => ((op[t].slug \in enabled') <=> op[t].wasEn)
    BY <1>19, <2>2 DEF CopyBack
  <2>4. op[t].kind = "rename" => (op[t].to # op[t].slug => op[t].to \notin enabled')
    BY <1>19 DEF CopyBack
  <2>5. op[t].kind = "rename" => LinksAsBefore(t)'
    BY <2>2, <2>3, <2>4, <1>0 DEF LinksAsBefore
  <2>6. ASSUME alone[t], op[t].kind \in RestoresFiles PROVE Source(t) = op[t].saved
    BY <2>1, <2>6 DEF Source, FilesOf
  <2>7. ASSUME alone[t], op[t].kind \in RestoresFiles PROVE FilesAsBefore(t)'
    BY <1>0, <2>1, <2>6, <2>7 DEF FilesOf, FilesAsBefore
  <2>8. ShapeOf(t)'
    BY <1>0, <2>1 DEF ShapeOf
  <2>9. ASSUME alone[t], op[t].kind \in RestoresFiles, op[t].kind # "rename", pc'[t] = "unlock"
        PROVE  op'[t].backup = op'[t].saved
    BY <2>1, <2>9 DEF FilesOf
  <2> QED
    BY <1>0, <2>1, <2>5, <2>7, <2>8, <2>9 DEF FilesOf
<1> QED
  BY <1>1, <1>2, <1>3, <1>4, <1>5, <1>6, <1>7, <1>8, <1>9, <1>10, <1>11, <1>12,
     <1>13, <1>14, <1>15, <1>16, <1>17, <1>18, <1>19 DEF Work

LEMMA ApartKept == ASSUME RollbackInv, NEW t \in Threads, Frame(t) PROVE Apart'
<1>1. \A u \in Threads : op'[u].slug = op[u].slug /\ op'[u].to = op[u].to
                         /\ (pc[u] = "idle" => pc'[u] = "idle")
  BY DEF Frame
<1>2. \A u \in Threads : Footprint(op[u])' = Footprint(op[u])
  BY <1>1 DEF Footprint
<1> QED
  BY <1>1, <1>2 DEF RollbackInv, Apart, Frame

LEMMA WorkKeeps == ASSUME RollbackInv, NEW t \in Threads, Work(t) PROVE RollbackInv'
<1>1. Frame(t) /\ SiteTypeOK'
  BY WorkFrame, WorkType DEF RollbackInv
<1> QED
  BY <1>1, ApartKept, OthersKept, OwnKept DEF RollbackInv

\* Handlers that write a text (switching a site on or off finds it there).
Writes == {"create", "update", "rename", "regen", "revert", "rewrite", "setEnabled"}

\* The locals a handler begins with: what it found on the disk.
Found(o, first) ==
    /\ o.saved = avail[o.slug] /\ (o.wasEn <=> o.slug \in enabled) /\ (o.wasPw <=> o.slug \in htpasswd)
    /\ o.to = o.slug \/ (o.kind = "rename" /\ avail[o.to] = NoFile /\ first = "lock")
    /\ o.kind = "rename" => o.to # o.slug
    /\ o.kind \in Writes => o.new # NoFile
    /\ o.kind \in {"delete", "revertToNone"} => o.new = NoFile
    /\ o.kind = "setEnabled" => o.new = o.saved
    /\ o.kind # "none"
    /\ first = "backup" \/ (first = "lock" /\ o.kind = "rename")
                        \/ (first = "write" /\ o.kind = "rewrite")
    /\ o.kind = "rewrite" => first = "write"

LEMMA LocalsFind ==
  ASSUME NEW kind, NEW s, NEW to, NEW new, NEW creds, NEW en
  PROVE  LET o == Locals(kind, s, to, new, creds, en) IN
         /\ o.kind = kind /\ o.slug = s /\ o.to = to /\ o.new = new
         /\ o.saved = avail[s] /\ (o.wasEn <=> s \in enabled) /\ (o.wasPw <=> s \in htpasswd)
  BY DEF Locals

\* Some thread begins a handler that found what is there.
Begins == \E t \in Threads : \E o \in Ops : \E first \in Pcs : Begin(t, o, first) /\ Found(o, first)

LEMMA BeginFinds ==
  ASSUME SiteTypeOK, NEW kind \in Kinds, NEW s \in Slugs, NEW to \in Slugs,
         NEW new \in File, NEW creds \in BOOLEAN, NEW en \in BOOLEAN,
         NEW t \in Threads, NEW first \in Pcs,
         Begin(t, Locals(kind, s, to, new, creds, en), first),
         to = s \/ (kind = "rename" /\ avail[to] = NoFile /\ first = "lock"),
         kind = "rename" => to # s,
         kind \in Writes => new # NoFile,
         kind \in {"delete", "revertToNone"} => new = NoFile,
         kind = "setEnabled" => new = avail[s],
         kind # "none",
         first = "backup" \/ (first = "lock" /\ kind = "rename")
                          \/ (first = "write" /\ kind = "rewrite"),
         kind = "rewrite" => first = "write"
  PROVE  Begins
<1> DEFINE o == Locals(kind, s, to, new, creds, en)
<1>1. o \in Ops
  BY LocalsType
<1>2. /\ o.kind = kind /\ o.slug = s /\ o.to = to /\ o.new = new
      /\ o.saved = avail[s] /\ (o.wasEn <=> s \in enabled) /\ (o.wasPw <=> s \in htpasswd)
  BY LocalsFind
<1>3. Begin(t, o, first)
  OBVIOUS
<1> HIDE DEF o
<1>4. Found(o, first)
  BY <1>2 DEF Found
<1> QED
  BY <1>1, <1>3, <1>4 DEF Begins

LEMMA StartFinds == ASSUME SiteTypeOK, Start PROVE Begins
<1>0. Api \in Threads /\ Jobs \subseteq Threads
  BY SiteConstants DEF Jobs
<1>a. {"backup", "lock", "write"} \subseteq Pcs
  BY DEF Pcs
<1>b. /\ \A c \in Contents : c \in File /\ c.auth \in BOOLEAN /\ c # NoFile
      /\ \A c \in Texts : c \in File /\ c # NoFile
  BY SiteConstants, NoFileIsNoText DEF File, Texts, Contents
<1>c. NoFile \in File
  BY DEF File
<1>d. /\ {"create", "update", "rename", "delete", "setEnabled"} \subseteq Kinds
      /\ {"regen", "revert", "revertToNone", "rewrite"} \subseteq Kinds
  BY DEF Kinds
<1>e. avail \in [Slugs -> File] /\ \A s \in Slugs : (s \in enabled) \in BOOLEAN
  BY DEF SiteTypeOK
<1> USE DEF Writes
<1>1. CASE BeginCreate
  BY <1>1, <1>0, <1>a, <1>b, <1>d, BeginFinds DEF BeginCreate
<1>2. CASE BeginUpdate
  BY <1>2, <1>0, <1>a, <1>b, <1>d, BeginFinds DEF BeginUpdate
<1>3. CASE BeginRename
  BY <1>3, <1>0, <1>a, <1>b, <1>d, BeginFinds DEF BeginRename
<1>4. CASE BeginDelete
  <2>1. PICK s \in Slugs : Begin(Api, Locals("delete", s, s, NoFile, FALSE, FALSE), "backup")
    BY <1>4 DEF BeginDelete
  <2> QED
    BY <2>1, <1>0, <1>a, <1>c, <1>d, BeginFinds
<1>5. CASE BeginSetEnabled
  <2>1. PICK s \in Slugs, en \in BOOLEAN :
          avail[s] # NoFile /\ Begin(Api, Locals("setEnabled", s, s, avail[s], FALSE, en), "backup")
    BY <1>5 DEF BeginSetEnabled
  <2> DEFINE new == avail[s]
  <2>2. new \in File /\ new # NoFile /\ new = avail[s]
    BY <2>1, <1>e
  <2>3. Begin(Api, Locals("setEnabled", s, s, new, FALSE, en), "backup")
    BY <2>1
  <2>4. "setEnabled" \in Kinds /\ "setEnabled" \in Writes /\ Api \in Threads /\ "backup" \in Pcs
    BY <1>0, <1>a, <1>d
  <2> HIDE DEF new, Writes
  <2> QED
    BY <2>2, <2>3, <2>4, BeginFinds, ZenonT(60)
<1>6. CASE BeginRevert
  BY <1>6, <1>0, <1>a, <1>b, <1>d, BeginFinds DEF BeginRevert
<1>7. CASE BeginRevertToNone
  BY <1>7, <1>0, <1>a, <1>c, <1>d, BeginFinds DEF BeginRevertToNone
<1>8. CASE BeginRewrite
  <2>1. PICK s \in Slugs : \E c \in Rerendered(s) :
          Begin(Api, Locals("rewrite", s, s, c, FALSE, s \in enabled), "write")
    BY <1>8 DEF BeginRewrite
  <2> DEFINE en == s \in enabled
  <2>2. PICK new \in Rerendered(s) : Begin(Api, Locals("rewrite", s, s, new, FALSE, en), "write")
    BY <2>1
  <2>3. new \in File /\ new # NoFile /\ en \in BOOLEAN
    BY <1>b, RerenderedType
  <2> HIDE DEF en
  <2> QED
    BY <2>2, <2>3, <1>0, <1>a, <1>d, BeginFinds
<1>9. ASSUME NEW j \in Jobs, BeginRegen(j) PROVE Begins
  <2>1. PICK s \in Slugs : \E c \in Rerendered(s) :
          Begin(j, Locals("regen", s, s, c, FALSE, s \in enabled), "backup")
    BY <1>9 DEF BeginRegen
  <2> DEFINE en == s \in enabled
  <2>2. PICK new \in Rerendered(s) : Begin(j, Locals("regen", s, s, new, FALSE, en), "backup")
    BY <2>1
  <2>3. new \in File /\ new # NoFile /\ en \in BOOLEAN
    BY <1>b, RerenderedType
  <2>4. j \in Threads
    BY <1>0
  <2> HIDE DEF en
  <2> QED
    BY <2>2, <2>3, <2>4, <1>a, <1>d, BeginFinds
<1> QED
  BY <1>1, <1>2, <1>3, <1>4, <1>5, <1>6, <1>7, <1>8, <1>9 DEF Start

LEMMA StartKeeps == ASSUME RollbackInv, Start PROVE RollbackInv'
<1>0. SiteTypeOK /\ SiteTypeOK'
  BY StartType DEF RollbackInv
<1>1. PICK t \in Threads, o \in Ops, first \in Pcs : Begin(t, o, first) /\ Found(o, first)
  BY <1>0, StartFinds DEF Begins
<1>2. /\ pc[t] = "idle" /\ pc'[t] = first /\ op'[t] = o /\ out'[t] = "running"
      /\ \A u \in Threads \ {t} : pc'[u] = pc[u] /\ op'[u] = op[u] /\ out'[u] = out[u]
      /\ avail' = avail /\ enabled' = enabled
  BY <1>0, <1>1 DEF Begin, SiteTypeOK, disk
<1>3. /\ alone'[t] => \A v \in Threads \ {t} :
                          pc[v] = "idle" \/ Footprint(op[v]) \cap Footprint(o) = {}
      /\ \A u \in Threads \ {t} : alone'[u] => alone[u] /\ Footprint(op[u]) \cap Footprint(o) = {}
  BY <1>1 DEF Begin
<1>4. \A u \in Threads \ {t} : Footprint(op[u])' = Footprint(op[u])
  BY <1>2 DEF Footprint
<1>5. Footprint(op[t])' = Footprint(o)
  BY <1>2 DEF Footprint
<1>6. Apart'
  BY <1>2, <1>3, <1>4, <1>5 DEF RollbackInv, Apart
<1>7. ShapeOf(t)' /\ (op[t].kind \in RestoresFiles => FilesOf(t))'
  <2>1. Found(o, first) /\ o.slug \in Slugs /\ first # "idle"
    BY <1>1 DEF Found, Ops
  <2>2. ShapeOf(t)'
    BY <2>1, <1>2 DEF Found, Writes, ShapeOf, Unfailed, RestoresFiles
  <2>3. FilesAsBefore(t)'
    BY <2>1, <1>2 DEF Found, FilesAsBefore
  <2> QED
    BY <2>1, <2>2, <2>3, <1>2 DEF Found, FilesOf, RestoresFiles
<1>8. ASSUME NEW u \in Threads, u # t
      PROVE  /\ ShapeOf(u)'
             /\ (alone[u] /\ op[u].kind \in RestoresFiles => FilesOf(u))'
  BY <1>2, <1>3, <1>8 DEF RollbackInv, ShapeOf, FilesOf, FilesAsBefore, LinksAsBefore
<1> QED
  BY <1>0, <1>6, <1>7, <1>8 DEF RollbackInv

LEMMA CrashKeeps == ASSUME RollbackInv, Crash PROVE RollbackInv'
<1>0. SiteTypeOK'
  BY CrashType DEF RollbackInv
<1>1. ASSUME NEW t \in Threads
      PROVE  /\ pc'[t] = "idle" /\ out'[t] = (IF pc[t] = "idle" THEN out[t] ELSE "crashed")
             /\ op'[t].kind = op[t].kind /\ op'[t].slug = op[t].slug /\ op'[t].to = op[t].to
             /\ op'[t].saved = op[t].saved /\ op'[t].wasEn = op[t].wasEn
             /\ alone' = alone /\ avail' = avail /\ enabled' = enabled
  <2>1. op[t] \in Ops /\ op'[t] = Returned(op[t])
    BY DEF RollbackInv, SiteTypeOK, Crash
  <2> QED
    BY <2>1, ReturnedKeeps DEF Crash, disk
<1>2. Apart'
  BY <1>1 DEF Apart
<1>3. ASSUME NEW t \in Threads
      PROVE  ShapeOf(t)' /\ (alone[t] /\ op[t].kind \in RestoresFiles => FilesOf(t))'
  BY <1>1 DEF RollbackInv, ShapeOf, FilesOf, FilesAsBefore, LinksAsBefore, Unfailed
<1> QED
  BY <1>0, <1>2, <1>3 DEF RollbackInv

LEMMA LoadKeeps == ASSUME RollbackInv, Load PROVE RollbackInv'
<1>0. SiteTypeOK'
  BY LoadType DEF RollbackInv
<1>1. UNCHANGED <<avail, enabled, pc, op, out, alone>>
  BY DEF Load, disk
<1> QED
  BY <1>0, <1>1 DEF RollbackInv, Apart, Footprint, ShapeOf, FilesOf, FilesAsBefore, LinksAsBefore

LEMMA RollbackInit == Init => RollbackInv
<1> SUFFICES ASSUME Init PROVE RollbackInv
  OBVIOUS
<1>1. \A t \in Threads : pc[t] = "idle" /\ ~alone[t] /\ op[t].kind = "none" /\ op[t].to = op[t].slug
  BY DEF Init, NoOp
<1> QED
  BY <1>1, InitType DEF RollbackInv, Apart, ShapeOf, Unfailed, RestoresFiles

LEMMA RollbackStep == RollbackInv /\ [Next]_vars => RollbackInv'
<1> SUFFICES ASSUME RollbackInv, [Next]_vars PROVE RollbackInv'
  OBVIOUS
<1>1. CASE UNCHANGED vars
  <2>1. avail' = avail /\ enabled' = enabled /\ htpasswd' = htpasswd /\ live' = live
        /\ master' = master /\ recorded' = recorded /\ notes' = notes /\ pc' = pc /\ op' = op
        /\ out' = out /\ alone' = alone
    BY <1>1 DEF vars, disk, book, nginx
  <2> QED
    BY <2>1 DEF RollbackInv, SiteTypeOK, Apart, Footprint, ShapeOf, FilesOf, FilesAsBefore, LinksAsBefore
<1> QED
  BY <1>1, StartKeeps, CrashKeeps, LoadKeeps, WorkKeeps DEF Next

\* The inductive invariant of the rollback.
THEOREM RollbackInvHolds == Spec => []RollbackInv
  BY RollbackInit, RollbackStep, PTL DEF Spec

\* A handler that failed nginx -t or its rendering, and met no other thread on
\* its sites, left their files (and a failed rename their links) as they were.
THEOREM RollbackHolds == Spec => []RollbackWhenUncontended
<1>1. RollbackInv => RollbackWhenUncontended
  BY DEF RollbackInv, FilesOf, RollbackWhenUncontended
<1> QED
  BY <1>1, RollbackInvHolds, PTL

\* Every variable of the handlers and of the lock stays in its range.
THEOREM SitesTypeOK == Spec => []TypeOK
<1>1. SiteTypeOK /\ LockInv => TypeOK
  BY DEF SiteTypeOK, TypeOK, LockInv
<1> QED
  BY <1>1, SiteTypeHolds, HandlersLockInv, PTL

-----------------------------------------------------------------------------
(* What a handler that met nobody has done *)

Removals == {"rename", "delete", "revertToNone"}

AfterDrop == {"test", "unlock", "unlink", "reload", "signal", "record"}
AfterWrite == {"link", "drop"} \cup AfterDrop

\* Which handlers come to which step, and with what; see ShapeOf.
LocalsOf(t) ==
    /\ op[t].kind = "rename" <=> op[t].to # op[t].slug
    /\ pc[t] # "idle" =>
          /\ out[t] # "ok"
          /\ op[t].kind \in Writes => op[t].new # NoFile
          /\ op[t].kind \in {"delete", "revertToNone"} => op[t].new = NoFile
          /\ op[t].kind = "setEnabled" => op[t].new = op[t].saved
    /\ pc[t] = "record" => op[t].kind \in Bookkept
    /\ pc[t] = "signal" => op[t].kind # "rewrite"
    /\ op[t].kind = "rewrite" => pc[t] \in {"idle", "write", "link"}

\* The text a handler writes is in place from its write on, and the name it
\* takes away is gone from there on.
TextOf(t) ==
    /\ pc[t] \in {"backup", "lock", "sync", "write"} => avail[op[t].slug] = op[t].saved
    /\ out[t] = "running" /\ pc[t] \in AfterWrite /\ op[t].kind \in Writes => avail[op[t].to] = op[t].new
    /\ out[t] = "running" /\ pc[t] \in AfterDrop /\ op[t].kind \in Removals => avail[op[t].slug] = NoFile

\* SiteSurvives for one handler.
Survives(t) ==
    (pc[t] \notin {"idle", "undoOld", "copy"} /\ op[t].kind \in KeepsSite
       /\ op[t].saved \in Contents /\ op[t].new \in Contents) =>
        \E s \in Footprint(op[t]) : avail[s] \in Contents

\* From the signal on, what nginx serves is what the disk says once it has loaded.
Served(t) ==
    pc[t] = "record" \/ (pc[t] = "idle" /\ out[t] = "ok" /\ op[t].kind # "rewrite") =>
        master # "loaded" \/ \A s \in Footprint(op[t]) : live[s] = View[s]

\* BookkeepingMatchesDisk for one handler.
Booked(t) ==
    pc[t] = "idle" /\ out[t] = "ok" =>
        /\ op[t].kind \in Bookkept => recorded[op[t].to] = avail[op[t].to]
        /\ op[t].kind \in {"create", "update", "rename", "delete"} =>
             \A s \in Footprint(op[t]) : s \in notes <=> avail[s] # NoFile

\* A password file is where it was until _sync_htpasswd, then under the name to.
Passwords(t) ==
    op[t].kind \in {"update", "rename"} =>
        /\ pc[t] \in {"backup", "lock", "sync"} => (op[t].wasPw <=> op[t].slug \in htpasswd)
        /\ pc[t] # "idle" /\ op[t].wasPw /\ op[t].new.auth => op[t].slug \in htpasswd \/ op[t].to \in htpasswd
        /\ out[t] = "running" /\ pc[t] \in {"write"} \cup AfterWrite =>
              /\ op[t].wasPw /\ op[t].new.auth => op[t].to \in htpasswd
              /\ op[t].to # op[t].slug => op[t].slug \notin htpasswd
        /\ out[t] = "ok" =>
              /\ op[t].wasPw /\ avail[op[t].to].auth => op[t].to \in htpasswd
              /\ op[t].to # op[t].slug => op[t].slug \notin htpasswd

DoneOf(t) == TextOf(t) /\ Survives(t) /\ Served(t) /\ Booked(t) /\ Passwords(t)

OutcomeInv ==
    /\ RollbackInv
    /\ \A t \in Threads : LocalsOf(t)
    /\ \A t \in Threads : alone[t] => DoneOf(t)

\* What a step of a handler may do to the book and to the password files: it
\* touches those of its own sites, and may signal nginx.
BookFrame(t) ==
    /\ \A s \in Slugs \ Footprint(op[t]) :
         /\ s \in htpasswd' <=> s \in htpasswd
         /\ s \in notes' <=> s \in notes
         /\ recorded'[s] = recorded[s]
    /\ live' = live /\ master' \in {master, "signalled"}

LEMMA WorkBookFrame == ASSUME SiteTypeOK, NEW t \in Threads, Work(t) PROVE BookFrame(t)
<1>0. op[t].slug \in Slugs /\ op[t].to \in Slugs /\ recorded \in [Slugs -> File]
  BY DEF SiteTypeOK, Ops
<1> USE DEF BookFrame, disk, book, nginx, Footprint
<1>1. CASE Backup(t) \/ LockOpen(t) \/ LockAcquire(t)
  BY <1>1 DEF Backup, LockOpen, LockAcquire
<1>2. CASE SyncAuth(t)
  <2>1. /\ htpasswd' \subseteq htpasswd \cup {op[t].to}
        /\ htpasswd \subseteq htpasswd' \cup {op[t].slug, op[t].to}
    BY <1>2 DEF SyncAuth
  <2> QED
    BY <1>2, <2>1 DEF SyncAuth
<1>3. CASE WriteFile(t) \/ WriteRaises(t) \/ LinkSite(t) \/ DropOld(t) \/ Test(t)
  BY <1>3 DEF WriteFile, WriteRaises, LinkSite, DropOld, Test
<1>4. CASE Restore(t) \/ UndoNew(t) \/ UndoOld(t) \/ CopyBack(t) \/ Release(t) \/ UnlinkLock(t) \/ RestoreDeleted(t)
  BY <1>4 DEF Restore, Truncate, UndoNew, UndoOld, CopyBack, Release, UnlinkLock, RestoreDeleted
<1>5. CASE ReloadTest(t) \/ ReloadSignal(t)
  BY <1>5 DEF ReloadTest, ReloadSignal, Reloaded, ReloadFailed
<1>6. CASE Record(t)
  <2>1. /\ notes' \subseteq notes \cup {op[t].to}
        /\ notes \subseteq notes' \cup {op[t].slug}
        /\ \A s \in Slugs : s # op[t].to => recorded'[s] = recorded[s]
    BY <1>6, <1>0 DEF Record
  <2> QED
    BY <1>6, <2>1 DEF Record
<1> QED
  BY <1>1, <1>2, <1>3, <1>4, <1>5, <1>6 DEF Work

\* A step of t keeps what every other handler that met nobody has done.
LEMMA OthersDone ==
  ASSUME OutcomeInv, NEW t \in Threads, Frame(t), BookFrame(t), NEW u \in Threads, u # t
  PROVE  LocalsOf(u)' /\ (alone[u] => DoneOf(u))'
<1>1. pc'[u] = pc[u] /\ op'[u] = op[u] /\ out'[u] = out[u] /\ alone'[u] = alone[u]
  BY DEF Frame
<1>2. LocalsOf(u)'
  BY <1>1 DEF OutcomeInv, LocalsOf
<1>3. ASSUME alone[u] PROVE DoneOf(u)'
  <2>1. op[u].slug \in Slugs /\ op[u].to \in Slugs /\ Footprint(op[u])' = Footprint(op[u])
    BY <1>1 DEF OutcomeInv, RollbackInv, SiteTypeOK, Ops, Footprint
  <2>2. \A s \in Footprint(op[u]) : s \in Slugs /\ s \notin Footprint(op[t])
    BY <1>3, <2>1 DEF OutcomeInv, RollbackInv, Apart, Frame, Footprint
  <2>3. \A s \in Footprint(op[u]) :
          /\ avail'[s] = avail[s] /\ (s \in enabled' <=> s \in enabled)
          /\ (s \in htpasswd' <=> s \in htpasswd) /\ (s \in notes' <=> s \in notes)
          /\ recorded'[s] = recorded[s]
    BY <2>2 DEF Frame, BookFrame
  <2>4. op[u].slug \in Footprint(op[u]) /\ op[u].to \in Footprint(op[u])
    BY DEF Footprint
  <2>5. DoneOf(u)
    BY <1>3 DEF OutcomeInv
  <2>6. TextOf(u)'
    BY <1>1, <2>3, <2>4, <2>5 DEF DoneOf, TextOf
  <2>7. Survives(u)'
    BY <1>1, <2>1, <2>3, <2>5 DEF DoneOf, Survives
  <2>8. Served(u)'
    <3>1. \A s \in Footprint(op[u]) : View[s]' = View[s]
      BY <2>2, <2>3 DEF View
    <3>2. live' = live /\ (master # "loaded" => master' # "loaded")
      BY DEF BookFrame
    <3> QED
      BY <1>1, <2>1, <2>5, <3>1, <3>2 DEF DoneOf, Served
  <2>9. Booked(u)'
    BY <1>1, <2>1, <2>3, <2>4, <2>5 DEF DoneOf, Booked
  <2>10. Passwords(u)'
    BY <1>1, <2>3, <2>4, <2>5 DEF DoneOf, Passwords
  <2> QED
    BY <2>6, <2>7, <2>8, <2>9, <2>10 DEF DoneOf
<1> QED
  BY <1>1, <1>2, <1>3

\* What is known of the stepping thread before the step.
LEMMA OwnOutcome ==
  ASSUME OutcomeInv, NEW t \in Threads
  PROVE  /\ SiteTypeOK /\ ShapeOf(t) /\ LocalsOf(t)
         /\ alone[t] /\ op[t].kind \in RestoresFiles => FilesOf(t)
         /\ alone[t] => DoneOf(t)
         /\ op[t] \in Ops /\ op[t].slug \in Slugs /\ op[t].to \in Slugs /\ op[t].kind \in Kinds
         /\ avail \in [Slugs -> File] /\ pc \in [Threads -> Pcs] /\ op \in [Threads -> Ops]
         /\ out \in [Threads -> Outs] /\ recorded \in [Slugs -> File]
  BY DEF OutcomeInv, RollbackInv, SiteTypeOK, Ops

LEMMA OwnLocalsKept == ASSUME OutcomeInv, NEW t \in Threads, Work(t) PROVE LocalsOf(t)'
<1> USE OwnOutcome, GotoKeeps, ResultKeeps
<1> USE DEF disk, book, nginx, LocalsOf, Writes, Bookkept
<1>0. /\ op'[t].kind = op[t].kind /\ op'[t].slug = op[t].slug
      /\ op'[t].to = op[t].to /\ op'[t].saved = op[t].saved
  BY WorkFrame DEF Frame
<1>1. CASE Backup(t)
  <2>1. op'[t] = [op[t] EXCEPT !.backup = avail[op[t].slug]] /\ avail[op[t].slug] \in File
    BY <1>1 DEF Backup
  <2>2. op'[t].new = op[t].new
    BY <2>1, BackupKeeps
  <2> QED
    BY <1>0, <1>1, <2>2 DEF Backup
<1>2. CASE LockOpen(t) \/ LockAcquire(t) \/ SyncAuth(t) \/ WriteFile(t)
  BY <1>0, <1>2 DEF LockOpen, LockAcquire, FirstWrite, SyncAuth, WriteFile
<1>3. CASE WriteRaises(t)
  BY <1>0, <1>3 DEF WriteRaises
<1>4. CASE LinkSite(t) \/ DropOld(t) \/ Test(t)
  BY <1>0, <1>4 DEF LinkSite, Removes, DropOld, Test
<1>5. CASE Restore(t) \/ UndoNew(t) \/ UndoOld(t) \/ CopyBack(t)
  BY <1>0, <1>5 DEF Restore, Truncate, UndoNew, UndoOld, CopyBack
<1>6. CASE Release(t) \/ UnlinkLock(t) \/ RestoreDeleted(t)
  BY <1>0, <1>6 DEF Release, UnlinkLock, RestoreDeleted, Truncate
<1>7. CASE ReloadTest(t) \/ ReloadSignal(t) \/ Record(t)
  BY <1>0, <1>7 DEF ReloadTest, ReloadSignal, Reloaded, ReloadFailed, Record
<1> QED
  BY <1>1, <1>2, <1>3, <1>4, <1>5, <1>6, <1>7 DEF Work

\* What Goto and Result leave for the parts below.
LEMMA OwnFrame ==
  ASSUME OutcomeInv, NEW t \in Threads, Work(t)
  PROVE  /\ alone' = alone /\ Footprint(op[t])' = Footprint(op[t])
         /\ op'[t].kind = op[t].kind /\ op'[t].slug = op[t].slug /\ op'[t].to = op[t].to
         /\ op'[t].saved = op[t].saved /\ op'[t].wasPw = op[t].wasPw
  BY WorkFrame, OwnOutcome DEF Frame, Footprint

LEMMA GotoText ==
  ASSUME SiteTypeOK, NEW t \in Threads, NEW step, Goto(t, step)
  PROVE  op'[t].new = IF step = "idle" THEN NoFile ELSE op[t].new
<1>1. op[t] \in Ops
  BY DEF SiteTypeOK
<1>2. op'[t] = IF step = "idle" THEN Returned(op[t]) ELSE op[t]
  BY DEF SiteTypeOK, Goto
<1> QED
  BY <1>1, <1>2 DEF Returned, Ops

\* A handler keeps the text it is to write until it ends.
LEMMA StepText ==
  ASSUME OutcomeInv, NEW t \in Threads, Work(t)
  PROVE  op'[t].new = IF pc'[t] = "idle" THEN NoFile ELSE op[t].new
<1> USE OwnOutcome, GotoKeeps, GotoText
<1>1. CASE Backup(t)
  <2>1. op'[t] = [op[t] EXCEPT !.backup = avail[op[t].slug]] /\ avail[op[t].slug] \in File
    BY <1>1 DEF Backup
  <2>2. op'[t].new = op[t].new
    BY <2>1, BackupKeeps
  <2> QED
    BY <1>1, <2>2 DEF Backup
<1>2. CASE LockOpen(t) \/ LockAcquire(t) \/ SyncAuth(t) \/ WriteFile(t)
  BY <1>2, WorkFrame DEF LockOpen, LockAcquire, FirstWrite, SyncAuth, WriteFile, Frame
<1>3. CASE WriteRaises(t)
  BY <1>3 DEF WriteRaises
<1>4. CASE LinkSite(t) \/ DropOld(t) \/ Test(t)
  BY <1>4 DEF LinkSite, DropOld, Test
<1>5. CASE Restore(t) \/ UndoNew(t) \/ UndoOld(t) \/ CopyBack(t)
  BY <1>5 DEF Restore, Truncate, UndoNew, UndoOld, CopyBack
<1>6. CASE Release(t) \/ UnlinkLock(t) \/ RestoreDeleted(t)
  BY <1>6 DEF Release, UnlinkLock, RestoreDeleted, Truncate
<1>7. CASE ReloadTest(t) \/ ReloadSignal(t) \/ Record(t)
  BY <1>7 DEF ReloadTest, ReloadSignal, Reloaded, ReloadFailed, Record
<1> QED
  BY <1>1, <1>2, <1>3, <1>4, <1>5, <1>6, <1>7 DEF Work

LEMMA OwnTextKept ==
  ASSUME OutcomeInv, NEW t \in Threads, Work(t), alone[t]
  PROVE  TextOf(t)'
<1> USE OwnOutcome, OwnFrame, GotoKeeps, ResultKeeps
<1> USE DEF disk, book, nginx, LocalsOf, ShapeOf, Unfailed, DoneOf, TextOf, AfterWrite, AfterDrop, Writes, Removals
<1>1. CASE Backup(t)
  <2>1. op'[t] = [op[t] EXCEPT !.backup = avail[op[t].slug]] /\ avail[op[t].slug] \in File
    BY <1>1 DEF Backup
  <2>2. op'[t].new = op[t].new
    BY <2>1, BackupKeeps
  <2> QED
    BY <1>1, <2>2 DEF Backup
<1>2. CASE LockOpen(t) \/ LockAcquire(t) \/ SyncAuth(t)
  BY <1>2 DEF LockOpen, LockAcquire, FirstWrite, SyncAuth
<1>3. CASE WriteFile(t) \/ WriteRaises(t)
  BY <1>3 DEF WriteFile, WriteRaises
<1>4. CASE LinkSite(t)
  BY <1>4 DEF LinkSite, Removes
<1>5. CASE DropOld(t)
  BY <1>5 DEF DropOld
<1>6. CASE Test(t)
  BY <1>6 DEF Test
<1>7. CASE Restore(t) \/ UndoNew(t) \/ UndoOld(t) \/ CopyBack(t)
  BY <1>7 DEF Restore, Truncate, UndoNew, UndoOld, CopyBack
<1>8. CASE Release(t) \/ UnlinkLock(t) \/ RestoreDeleted(t)
  BY <1>8 DEF Release, UnlinkLock, RestoreDeleted, Truncate
<1>9. CASE ReloadTest(t) \/ ReloadSignal(t) \/ Record(t)
  BY <1>9 DEF ReloadTest, ReloadSignal, Reloaded, ReloadFailed, Record
<1> QED
  BY <1>1, <1>2, <1>3, <1>4, <1>5, <1>6, <1>7, <1>8, <1>9 DEF Work

LEMMA OwnSurvives ==
  ASSUME OutcomeInv, NEW t \in Threads, Work(t), alone[t]
  PROVE  Survives(t)'
<1> SUFFICES ASSUME pc'[t] \notin {"idle", "undoOld", "copy"}, op[t].kind \in KeepsSite,
                    op[t].saved \in Contents, op[t].new \in Contents
             PROVE  \E s \in Footprint(op[t]) : avail'[s] \in Contents
  BY OwnFrame, StepText DEF Survives
<1> USE OwnOutcome, OwnFrame, GotoKeeps, ResultKeeps
<1> USE DEF disk, book, nginx, LocalsOf, KeepsSite, Footprint
<1>a. NoFile \notin Contents
  BY NoFileIsNoText DEF Texts
<1>0. pc[t] \notin {"idle", "undoOld", "copy"} => \E s \in Footprint(op[t]) : avail[s] \in Contents
  BY DEF DoneOf, Survives
<1>1. CASE UNCHANGED avail /\ pc[t] \notin {"idle", "undoOld", "copy"}
  BY <1>0, <1>1
<1>2. CASE WriteFile(t)
  BY <1>2 DEF WriteFile
<1>3. CASE DropOld(t)
  <2>1. op[t].kind = "rename" /\ avail[op[t].to] = op[t].new /\ op[t].to # op[t].slug
    BY <1>3 DEF DropOld, ShapeOf, Unfailed, DoneOf, TextOf, AfterWrite, Writes
  <2> QED
    BY <1>3, <2>1 DEF DropOld
<1>4. CASE Restore(t)
  <2>1. op[t].to = op[t].slug /\ op[t].kind \in RestoresFiles /\ op[t].kind # "rename" /\ pc[t] = "restore"
    BY <1>4 DEF Restore, ShapeOf, RestoresFiles
  <2>2. avail[op[t].slug] # NoFile /\ op[t].backup = op[t].saved
    BY <1>0, <1>a, <2>1 DEF FilesOf
  <2>3. Truncate(t)
    BY <1>4, <1>a, <2>2 DEF Restore
  <2> QED
    BY <2>3 DEF Truncate
<1>5. CASE UndoNew(t)
  BY <1>5 DEF UndoNew
<1>6. CASE UndoOld(t)
  BY <1>6 DEF UndoOld, Truncate
<1>7. CASE RestoreDeleted(t)
  BY <1>7 DEF RestoreDeleted, Truncate
<1>8. CASE Backup(t) \/ LockOpen(t) \/ LockAcquire(t) \/ SyncAuth(t) \/ WriteRaises(t) \/ LinkSite(t) \/ Test(t)
  BY <1>1, <1>8 DEF Backup, LockOpen, LockAcquire, SyncAuth, WriteRaises, LinkSite, Test
<1>9. CASE Release(t) \/ UnlinkLock(t) \/ ReloadTest(t) \/ ReloadSignal(t) \/ Record(t)
  BY <1>1, <1>9 DEF Release, UnlinkLock, ReloadTest, ReloadSignal, Record
<1>10. CASE CopyBack(t)
  <2>1. pc[t] = "copy" /\ avail'[op[t].slug] = Source(t)
    BY <1>10 DEF CopyBack
  <2>2. op[t].kind \in RestoresFiles
    BY <2>1 DEF RestoresFiles
  <2>3. Source(t) = op[t].saved
    BY <2>1, <2>2 DEF Source, FilesOf
  <2> QED
    BY <2>1, <2>3
<1> QED
  BY <1>2, <1>3, <1>4, <1>5, <1>6, <1>7, <1>8, <1>9, <1>10 DEF Work

LEMMA OwnServed ==
  ASSUME OutcomeInv, NEW t \in Threads, Work(t), alone[t]
  PROVE  Served(t)'
<1> USE OwnOutcome, OwnFrame, GotoKeeps, ResultKeeps
<1> USE DEF disk, book, nginx, LocalsOf, ShapeOf, Unfailed
<1>1. CASE ReloadSignal(t)
  <2>1. CASE master' = "signalled"
    BY <2>1 DEF Served
  <2>2. CASE ReloadFailed(t)
    BY <1>1, <2>2 DEF ReloadFailed, Served
  <2> QED
    BY <1>1, <2>1, <2>2 DEF ReloadSignal
<1>2. CASE Record(t)
  <2>1. View' = View /\ live' = live /\ master' = master
    BY <1>2 DEF Record, View
  <2> QED
    BY <1>2, <2>1 DEF Record, DoneOf, Served
<1>3. CASE Backup(t) \/ LockOpen(t) \/ LockAcquire(t) \/ SyncAuth(t) \/ WriteFile(t) \/ WriteRaises(t)
  BY <1>3 DEF Backup, LockOpen, LockAcquire, FirstWrite, SyncAuth, WriteFile, WriteRaises, Served
<1>4. CASE LinkSite(t) \/ DropOld(t) \/ Test(t)
  BY <1>4 DEF LinkSite, Removes, DropOld, Test, Served
<1>5. CASE Restore(t) \/ UndoNew(t) \/ UndoOld(t) \/ CopyBack(t)
  BY <1>5 DEF Restore, Truncate, UndoNew, UndoOld, CopyBack, Served
<1>6. CASE Release(t) \/ UnlinkLock(t) \/ RestoreDeleted(t) \/ ReloadTest(t)
  BY <1>6 DEF Release, UnlinkLock, RestoreDeleted, Truncate, ReloadTest, ReloadFailed, Served
<1> QED
  BY <1>1, <1>2, <1>3, <1>4, <1>5, <1>6 DEF Work

LEMMA OwnBooked ==
  ASSUME OutcomeInv, NEW t \in Threads, Work(t), alone[t]
  PROVE  Booked(t)'
<1> USE OwnOutcome, OwnFrame, GotoKeeps, ResultKeeps
<1> USE DEF disk, book, nginx, LocalsOf, ShapeOf, Unfailed
<1>1. CASE Record(t)
  <2>1. /\ op[t].kind \in Writes => avail[op[t].to] = op[t].new /\ op[t].new # NoFile
        /\ op[t].kind \in Removals => avail[op[t].slug] = NoFile
        /\ op[t].kind \in {"delete", "revertToNone"} => op[t].new = NoFile
        /\ op[t].kind \in Bookkept
    BY <1>1 DEF Record, DoneOf, TextOf, AfterWrite, AfterDrop
  <2>2. avail' = avail
    BY <1>1 DEF Record
  <2>3. recorded'[op[t].to] = avail[op[t].to]
    BY <1>1, <2>1 DEF Record, Bookkept, Writes, Removals
  <2>4. ASSUME op[t].kind \in {"create", "update", "rename", "delete"}
        PROVE  \A s \in Footprint(op[t]) : s \in notes' <=> avail[s] # NoFile
    BY <1>1, <2>1, <2>4 DEF Record, Footprint, Writes, Removals
  <2> QED
    BY <2>2, <2>3, <2>4 DEF Booked
<1>2. CASE ReloadSignal(t)
  BY <1>2 DEF ReloadSignal, Reloaded, ReloadFailed, Bookkept, Booked
<1>3. CASE Backup(t) \/ LockOpen(t) \/ LockAcquire(t) \/ SyncAuth(t) \/ WriteFile(t) \/ WriteRaises(t)
  BY <1>3 DEF Backup, LockOpen, LockAcquire, FirstWrite, SyncAuth, WriteFile, WriteRaises, Booked
<1>4. CASE LinkSite(t) \/ DropOld(t) \/ Test(t)
  BY <1>4 DEF LinkSite, Removes, DropOld, Test, Booked, Bookkept
<1>5. CASE Restore(t) \/ UndoNew(t) \/ UndoOld(t) \/ CopyBack(t)
  BY <1>5 DEF Restore, Truncate, UndoNew, UndoOld, CopyBack, Booked
<1>6. CASE Release(t) \/ UnlinkLock(t) \/ RestoreDeleted(t) \/ ReloadTest(t)
  BY <1>6 DEF Release, UnlinkLock, RestoreDeleted, Truncate, ReloadTest, ReloadFailed, Booked
<1> QED
  BY <1>1, <1>2, <1>3, <1>4, <1>5, <1>6 DEF Work

LEMMA OwnPasswords ==
  ASSUME OutcomeInv, NEW t \in Threads, Work(t), alone[t]
  PROVE  Passwords(t)'
<1> SUFFICES ASSUME op[t].kind \in {"update", "rename"} PROVE Passwords(t)'
  BY OwnFrame DEF Passwords
<1> USE OwnOutcome, OwnFrame, GotoKeeps, ResultKeeps
<1> USE DEF disk, book, nginx, LocalsOf, ShapeOf, Unfailed, DoneOf, Passwords, AfterWrite, AfterDrop
<1>1. CASE Backup(t)
  <2>1. op'[t] = [op[t] EXCEPT !.backup = avail[op[t].slug]] /\ avail[op[t].slug] \in File
    BY <1>1 DEF Backup
  <2>2. op'[t].new = op[t].new
    BY <2>1, BackupKeeps
  <2> QED
    BY <1>1, <2>2 DEF Backup
<1>2. CASE LockOpen(t) \/ LockAcquire(t)
  BY <1>2 DEF LockOpen, LockAcquire, FirstWrite
<1>3. CASE SyncAuth(t)
  BY <1>3 DEF SyncAuth
<1>4. CASE WriteFile(t) \/ WriteRaises(t)
  BY <1>4 DEF WriteFile, WriteRaises
<1>5. CASE LinkSite(t) \/ DropOld(t) \/ Test(t)
  BY <1>5 DEF LinkSite, Removes, DropOld, Test
<1>6. CASE Restore(t) \/ UndoNew(t) \/ UndoOld(t) \/ CopyBack(t)
  BY <1>6 DEF Restore, Truncate, UndoNew, UndoOld, CopyBack
<1>7. CASE Release(t) \/ UnlinkLock(t) \/ RestoreDeleted(t)
  BY <1>7 DEF Release, UnlinkLock, RestoreDeleted, Truncate
<1>8. CASE ReloadTest(t)
  BY <1>8 DEF ReloadTest, ReloadFailed
<1>9. CASE ReloadSignal(t)
  BY <1>9 DEF ReloadSignal, Reloaded, ReloadFailed, Bookkept
<1>10. CASE Record(t)
  <2>1. avail[op[t].to] = op[t].new /\ avail' = avail /\ htpasswd' = htpasswd
    BY <1>10 DEF Record, TextOf, Writes
  <2> QED
    BY <1>10, <2>1 DEF Record
<1> QED
  BY <1>1, <1>2, <1>3, <1>4, <1>5, <1>6, <1>7, <1>8, <1>9, <1>10 DEF Work

LEMMA StartOutcome == ASSUME OutcomeInv, Start PROVE OutcomeInv'
<1>0. SiteTypeOK /\ RollbackInv'
  BY StartKeeps DEF OutcomeInv, RollbackInv
<1>1. PICK t \in Threads, o \in Ops, first \in Pcs : Begin(t, o, first) /\ Found(o, first)
  BY <1>0, StartFinds DEF Begins
<1>2. /\ pc[t] = "idle" /\ pc'[t] = first /\ op'[t] = o /\ out'[t] = "running"
      /\ \A u \in Threads \ {t} : pc'[u] = pc[u] /\ op'[u] = op[u] /\ out'[u] = out[u]
      /\ UNCHANGED <<avail, enabled, htpasswd, live, master, recorded, notes>>
  BY <1>0, <1>1 DEF Begin, SiteTypeOK, disk, book, nginx
<1>3. \A u \in Threads \ {t} : alone'[u] => alone[u]
  BY <1>1 DEF Begin
<1>4. LocalsOf(t)' /\ DoneOf(t)'
  <2>1. Found(o, first) /\ o.slug \in Slugs /\ o.kind \in Kinds /\ first \in {"backup", "lock", "write"}
    BY <1>1 DEF Found, Ops
  <2>2. LocalsOf(t)'
    BY <2>1, <1>2 DEF Found, LocalsOf, Writes
  <2>3. TextOf(t)'
    BY <2>1, <1>2 DEF Found, TextOf, AfterWrite, AfterDrop
  <2>4. Survives(t)'
    BY <2>1, <1>2 DEF Found, Survives, Footprint
  <2>5. Served(t)' /\ Booked(t)'
    BY <2>1, <1>2 DEF Served, Booked
  <2>6. Passwords(t)'
    BY <2>1, <1>2 DEF Found, Passwords, AfterWrite, AfterDrop
  <2> QED
    BY <2>2, <2>3, <2>4, <2>5, <2>6 DEF DoneOf
<1>5. ASSUME NEW u \in Threads, u # t
      PROVE  LocalsOf(u)' /\ (alone[u] => DoneOf(u))'
  <2>1. pc'[u] = pc[u] /\ op'[u] = op[u] /\ out'[u] = out[u]
    BY <1>2, <1>5
  <2>2. LocalsOf(u)'
    BY <2>1 DEF OutcomeInv, LocalsOf
  <2>3. ASSUME alone'[u] PROVE DoneOf(u)'
    <3>1. DoneOf(u)
      BY <1>3, <1>5, <2>3 DEF OutcomeInv
    <3>2. View' = View /\ Footprint(op[u])' = Footprint(op[u])
      BY <1>2, <2>1 DEF View, Footprint
    <3> QED
      BY <1>2, <2>1, <3>1, <3>2 DEF DoneOf, TextOf, Survives, Served, Booked, Passwords
  <2> QED
    BY <2>2, <2>3
<1> QED
  BY <1>0, <1>4, <1>5 DEF OutcomeInv

LEMMA WorkOutcome == ASSUME OutcomeInv, NEW t \in Threads, Work(t) PROVE OutcomeInv'
<1>1. RollbackInv /\ SiteTypeOK
  BY DEF OutcomeInv, RollbackInv
<1>2. RollbackInv' /\ Frame(t) /\ BookFrame(t) /\ alone' = alone
  BY <1>1, WorkKeeps, WorkFrame, WorkBookFrame DEF Frame
<1>3. LocalsOf(t)' /\ (alone[t] => DoneOf(t)')
  BY OwnLocalsKept, OwnTextKept, OwnSurvives, OwnServed, OwnBooked, OwnPasswords DEF DoneOf
<1> QED
  BY <1>2, <1>3, OthersDone DEF OutcomeInv

LEMMA CrashOutcome == ASSUME OutcomeInv, Crash PROVE OutcomeInv'
<1>0. RollbackInv'
  BY CrashKeeps DEF OutcomeInv
<1>1. ASSUME NEW t \in Threads
      PROVE  /\ pc'[t] = "idle" /\ out'[t] = (IF pc[t] = "idle" THEN out[t] ELSE "crashed")
             /\ op'[t].kind = op[t].kind /\ op'[t].slug = op[t].slug /\ op'[t].to = op[t].to
             /\ op'[t].saved = op[t].saved /\ op'[t].wasPw = op[t].wasPw
             /\ UNCHANGED <<alone, avail, enabled, htpasswd, live, master, recorded, notes>>
  <2>1. op[t] \in Ops /\ op'[t] = Returned(op[t])
    BY DEF OutcomeInv, RollbackInv, SiteTypeOK, Crash
  <2> QED
    BY <2>1, ReturnedKeeps DEF Crash, disk, book, nginx
<1>2. ASSUME NEW t \in Threads PROVE LocalsOf(t)' /\ (alone[t] => DoneOf(t))'
  <2>1. View' = View /\ Footprint(op[t])' = Footprint(op[t])
    BY <1>1 DEF View, Footprint
  <2>2. LocalsOf(t)'
    BY <1>1 DEF OutcomeInv, LocalsOf
  <2>3. ASSUME alone[t] PROVE DoneOf(t)'
    BY <1>1, <2>1, <2>3
    DEF OutcomeInv, DoneOf, TextOf, Survives, Served, Booked, Passwords, AfterWrite, AfterDrop
  <2> QED
    BY <1>1, <2>2, <2>3
<1> QED
  BY <1>0, <1>2 DEF OutcomeInv

LEMMA LoadOutcome == ASSUME OutcomeInv, Load PROVE OutcomeInv'
<1>0. RollbackInv'
  BY LoadKeeps DEF OutcomeInv
<1>1. UNCHANGED <<avail, enabled, htpasswd, recorded, notes, pc, op, out, alone>>
  BY DEF Load, disk
<1>2. View' = View /\ \A t \in Threads : Footprint(op[t])' = Footprint(op[t])
  BY <1>1 DEF View, Footprint
<1>3. ASSUME NEW t \in Threads PROVE LocalsOf(t)' /\ (alone[t] => DoneOf(t))'
  <2>1. LocalsOf(t)'
    BY <1>1 DEF OutcomeInv, LocalsOf
  <2>2. Served(t)'
    BY <1>2 DEF Load, Served
  <2>3. ASSUME alone[t] PROVE DoneOf(t)'
    BY <1>1, <1>2, <2>2, <2>3 DEF OutcomeInv, DoneOf, TextOf, Survives, Booked, Passwords
  <2> QED
    BY <1>1, <2>1, <2>3
<1> QED
  BY <1>0, <1>3 DEF OutcomeInv

LEMMA OutcomeInit == Init => OutcomeInv
<1> SUFFICES ASSUME Init PROVE OutcomeInv
  OBVIOUS
<1>1. \A t \in Threads : pc[t] = "idle" /\ ~alone[t] /\ op[t].kind = "none" /\ op[t].to = op[t].slug
  BY DEF Init, NoOp
<1> QED
  BY <1>1, RollbackInit DEF OutcomeInv, LocalsOf

LEMMA OutcomeStep == OutcomeInv /\ [Next]_vars => OutcomeInv'
<1> SUFFICES ASSUME OutcomeInv, [Next]_vars PROVE OutcomeInv'
  OBVIOUS
<1>1. CASE UNCHANGED vars
  <2>1. RollbackInv'
    BY <1>1, RollbackStep DEF OutcomeInv
  <2>2. UNCHANGED <<avail, enabled, htpasswd, live, master, recorded, notes, pc, op, out, alone>>
    BY <1>1 DEF vars, disk, book, nginx
  <2>3. View' = View
    BY <2>2 DEF View
  <2> QED
    BY <2>1, <2>2, <2>3
    DEF OutcomeInv, LocalsOf, DoneOf, TextOf, Survives, Served, Booked, Passwords, Footprint
<1> QED
  BY <1>1, StartOutcome, WorkOutcome, CrashOutcome, LoadOutcome DEF Next

\* What a handler that met nobody has done at each of its steps.
THEOREM OutcomeInvHolds == Spec => []OutcomeInv
  BY OutcomeInit, OutcomeStep, PTL DEF Spec

\* A handler that reported success is what nginx serves once it has loaded what
\* it was signalled to, whatever handlers of other sites did in between; while the
\* load is pending, or after it was refused, nginx may serve an older state
\* (NginxWriter.apply_change, then NginxOps.reload).
THEOREM SuccessIsLive == Spec => []CommittedIsLive
<1>1. OutcomeInv => CommittedIsLive
  BY DEF OutcomeInv, DoneOf, Served, CommittedIsLive
<1> QED
  BY <1>1, OutcomeInvHolds, PTL

\* After a success history row, metadata file and disk agree (the end of every
\* handler of ProxyService, and ConfigVersionService.rollback).
THEOREM BookkeepingFollowsDisk == Spec => []BookkeepingMatchesDisk
<1>1. OutcomeInv => BookkeepingMatchesDisk
  BY DEF OutcomeInv, DoneOf, Booked, BookkeepingMatchesDisk
<1> QED
  BY <1>1, OutcomeInvHolds, PTL

\* A save or rename that keeps authentication has the password file under the
\* old or the new name at each of its steps; one that ended well leaves it under
\* the site's name, and none under the old one (ProxyService._sync_htpasswd).
THEOREM PasswordsAreKept == Spec => []PasswordsFollowSite
<1>1. OutcomeInv => PasswordsFollowSite
  BY DEF OutcomeInv, DoneOf, Passwords, PasswordsFollowSite
<1> QED
  BY <1>1, OutcomeInvHolds, PTL

\* A whole text of the site is on the disk under its old or its new name at every
\* step, but for the halves of a rename's rollback and the moment in which a
\* backup is copied back in place (update_proxy, restore_backup).
THEOREM SiteAlwaysSurvives == Spec => []SiteSurvives
<1>1. OutcomeInv => SiteSurvives
  BY DEF OutcomeInv, DoneOf, Survives, SiteSurvives
<1> QED
  BY <1>1, OutcomeInvHolds, PTL

-----------------------------------------------------------------------------
(* The abstract store *)


\* How thread t's handler found its site s, and what it is to make of it.
Was(t, s) == IF s = op[t].slug THEN op[t].saved ELSE NoFile
Goal(t, s) == IF s = op[t].to THEN op[t].new ELSE NoFile

\* What a handler that met nobody has made of its sites: up to the step that
\* decides it each is old or new, or torn while the old text is copied back; from
\* there on each is new.
Between(t) ==
    pc[t] # "idle" =>
        /\ pc[t] = "copy" => op[t].kind # "revertToNone"
        /\ \A s \in Footprint(op[t]) :
             \/ avail[s] = Goal(t, s)
             \/ ~Decided(t) /\ avail[s] = Was(t, s)
             \/ pc[t] = "copy" /\ s = op[t].slug /\ avail[s] \in Torn

\* With which answer so far a handler is at a step that can end it.
Standing(t) ==
    /\ pc[t] # "idle" => op[t].kind # "none"
    /\ op[t].kind = "revertToNone" => pc[t] \notin {"sync", "write"} /\ out[t] # "error"
    /\ pc[t] \in {"unlock", "unlink"} =>
         \/ out[t] \in {"running", "validation", "error"}
         \/ op[t].kind = "rename" /\ out[t] = "reload"
    /\ pc[t] \in {"undoNew", "undoOld"} => out[t] \in {"validation", "error", "reload"}
    /\ pc[t] = "copy" =>
         \/ out[t] \in {"validation", "error"}
         \/ op[t].kind = "rename" /\ out[t] = "reload"

StoreInv ==
    /\ OutcomeInv
    /\ \A t \in Threads : Standing(t)
    /\ \A t \in Threads : alone[t] => Between(t)

LEMMA OwnStanding ==
  ASSUME StoreInv, NEW t \in Threads, Work(t)
  PROVE  Standing(t)'
<1>0. OutcomeInv /\ Standing(t)
  BY DEF StoreInv
<1> USE <1>0, OwnOutcome, OwnFrame, GotoKeeps, ResultKeeps
<1> USE DEF disk, book, nginx, LocalsOf, ShapeOf, Unfailed, Standing
<1>1. CASE Backup(t) \/ LockOpen(t) \/ LockAcquire(t) \/ SyncAuth(t)
  BY <1>1 DEF Backup, LockOpen, LockAcquire, FirstWrite, SyncAuth
<1>2. CASE WriteFile(t) \/ WriteRaises(t) \/ LinkSite(t) \/ DropOld(t)
  BY <1>2 DEF WriteFile, WriteRaises, LinkSite, DropOld, Removes
<1>3. CASE Test(t) \/ Restore(t) \/ UndoNew(t) \/ UndoOld(t) \/ CopyBack(t)
  BY <1>3 DEF Test, Restore, Truncate, UndoNew, UndoOld, CopyBack
<1>4. CASE Release(t) \/ UnlinkLock(t) \/ RestoreDeleted(t)
  BY <1>4 DEF Release, UnlinkLock, RestoreDeleted, Truncate
<1>5. CASE ReloadTest(t) \/ ReloadSignal(t) \/ Record(t)
  BY <1>5 DEF ReloadTest, ReloadSignal, Reloaded, ReloadFailed, Record
<1> QED
  BY <1>1, <1>2, <1>3, <1>4, <1>5 DEF Work

LEMMA OwnBetween ==
  ASSUME StoreInv, NEW t \in Threads, Work(t), alone[t]
  PROVE  Between(t)'
<1>0. OutcomeInv /\ Standing(t) /\ Between(t)
  BY DEF StoreInv
<1>a. OutcomeInv' /\ pc[t] # "idle"
  BY <1>0, WorkOutcome, WorkFrame, OwnOutcome DEF Frame
<1>n. pc'[t] = "copy" => op[t].kind # "revertToNone"
  <2> USE <1>0, OwnOutcome, OwnFrame, GotoKeeps
  <2> SUFFICES ASSUME pc'[t] = "copy", op[t].kind = "revertToNone" PROVE FALSE
    OBVIOUS
  <2>1. Restore(t) \/ UndoOld(t) \/ RestoreDeleted(t)
    BY DEF Work, Backup, LockOpen, LockAcquire, FirstWrite, SyncAuth, WriteFile, WriteRaises, LinkSite, DropOld,
           Test, UndoNew, Release, UnlinkLock, CopyBack, ReloadTest, ReloadSignal, Reloaded, ReloadFailed, Record
  <2>2. pc[t] = "restore" /\ Restore(t)
    BY <2>1 DEF Restore, UndoOld, RestoreDeleted, ShapeOf
  <2>3. op[t].to = op[t].slug /\ op[t].new = NoFile /\ Decided(t)
    BY <2>2 DEF ShapeOf, LocalsOf, Decided
  <2>4. avail[op[t].slug] = NoFile
    BY <2>2, <2>3 DEF Between, Goal, Footprint
  <2>5. Goto(t, "unlock")
    BY <2>2, <2>4 DEF Restore
  <2> QED
    BY <2>5 DEF Goto
<1> SUFFICES ASSUME pc'[t] # "idle", NEW s \in Footprint(op[t])
             PROVE  \/ avail'[s] = Goal(t, s)'
                    \/ ~Decided(t)' /\ avail'[s] = Was(t, s)'
                    \/ pc'[t] = "copy" /\ s = op[t].slug /\ avail'[s] \in Torn
  BY <1>0, <1>n, OwnFrame DEF Between
<1>b. s \in Slugs
  BY <1>0, OwnOutcome DEF Footprint
<1>c. pc[t] # "copy" => avail[s] = Goal(t, s) \/ (~Decided(t) /\ avail[s] = Was(t, s))
  BY <1>0, <1>a DEF Between
<1> USE <1>0, OwnOutcome, OwnFrame, GotoKeeps, ResultKeeps
<1> USE DEF disk, book, nginx, LocalsOf, ShapeOf, Unfailed, Standing
<1>1. CASE Backup(t)
  <2>1. op'[t] = [op[t] EXCEPT !.backup = avail[op[t].slug]] /\ avail[op[t].slug] \in File
    BY <1>1 DEF Backup
  <2>2. op'[t].new = op[t].new
    BY <2>1, BackupKeeps
  <2> QED
    BY <1>1, <1>c, <2>2 DEF Backup, Was, Goal, Decided
<1>2. CASE LockOpen(t) \/ LockAcquire(t) \/ SyncAuth(t) \/ WriteRaises(t) \/ LinkSite(t)
  BY <1>2, <1>c DEF LockOpen, LockAcquire, FirstWrite, SyncAuth, WriteRaises, LinkSite, Removes, Was, Goal, Decided
<1>3. CASE WriteFile(t)
  BY <1>3, <1>b, <1>c DEF WriteFile, Was, Goal, Decided, Footprint
<1>4. CASE DropOld(t)
  BY <1>4, <1>b, <1>c DEF DropOld, Was, Goal, Decided, Footprint
<1>5. CASE Test(t)
  <2>1. avail' = avail /\ op' = op /\ pc[t] = "test"
    BY <1>5 DEF Test
  <2>2. s = op[t].slug \/ s = op[t].to
    BY DEF Footprint
  <2>3. CASE TestOk
    <3>1. pc'[t] = "unlock" /\ out'[t] = "running" /\ out[t] = "running"
      BY <1>5, <2>3 DEF Test
    <3>2. /\ op[t].kind \in Writes => avail[op[t].to] = op[t].new
          /\ op[t].kind \in Removals => avail[op[t].slug] = NoFile
      BY <2>1, <3>1 DEF DoneOf, TextOf, AfterWrite, AfterDrop
    <3>3. CASE op[t].kind = "rename"
      BY <1>c, <2>1, <3>1, <3>3 DEF Decided, Was, Goal
    <3>4. CASE op[t].kind # "rename"
      <4>1. s = op[t].to /\ op[t].kind \in Writes \cup Removals
        BY <2>1, <2>2, <3>4 DEF Writes, Removals, Kinds
      <4> QED
        BY <2>1, <3>2, <3>4, <4>1 DEF Goal, Removals
    <3> QED
      BY <3>3, <3>4
  <2>4. CASE ~TestOk
    BY <1>5, <1>c, <2>1, <2>4 DEF Test, Decided, Was, Goal
  <2> QED
    BY <2>3, <2>4
<1>6. CASE Restore(t)
  <2>1. /\ pc[t] = "restore" /\ op' = op /\ out' = out /\ out[t] = "validation"
        /\ s = op[t].slug /\ s = op[t].to
    BY <1>6, <1>b DEF Restore, Truncate, Footprint
  <2>2. CASE Truncate(t)
    BY <1>b, <2>1, <2>2 DEF Truncate
  <2>3. CASE ~Truncate(t)
    <3>1. /\ pc'[t] = "unlock" /\ avail'[s] = NoFile
          /\ avail[s] = NoFile \/ op[t].backup = NoFile
      BY <1>6, <1>b, <2>1, <2>3 DEF Restore
    <3>2. CASE op[t].kind = "revertToNone"
      BY <2>1, <3>1, <3>2 DEF Goal
    <3>3. CASE op[t].kind # "revertToNone"
      <4>1. op[t].kind \in RestoresFiles /\ op[t].kind # "rename"
        BY <2>1, <3>3 DEF RestoresFiles, Kinds
      <4>2. op[t].backup = op[t].saved
        BY <2>1, <4>1 DEF FilesOf
      <4> QED
        BY <1>c, <2>1, <3>1, <3>3, <4>1, <4>2 DEF Was, Goal, Decided
    <3> QED
      BY <3>2, <3>3
  <2> QED
    BY <2>2, <2>3
<1>7. CASE UndoNew(t)
  BY <1>7, <1>b, <1>c DEF UndoNew, Was, Goal, Decided, Footprint
<1>8. CASE Release(t) \/ UnlinkLock(t)
  BY <1>8, <1>c DEF Release, UnlinkLock, Was, Goal, Decided
<1>12. CASE UndoOld(t) \/ RestoreDeleted(t)
  <2>1. Truncate(t) /\ pc'[t] = "copy" /\ op' = op /\ out' = out /\ pc[t] \in {"undoOld", "restoreDeleted"}
    BY <1>12 DEF UndoOld, RestoreDeleted, Truncate
  <2>2. CASE s = op[t].slug
    BY <1>b, <2>1, <2>2 DEF Truncate
  <2>3. CASE s # op[t].slug
    BY <1>b, <1>c, <2>1, <2>3 DEF Truncate, Was, Goal, Decided
  <2> QED
    BY <2>2, <2>3
<1>13. CASE CopyBack(t)
  <2>1. pc[t] = "copy" /\ pc'[t] = "unlock" /\ op' = op /\ out' = out
        /\ avail'[op[t].slug] = Source(t) /\ (s # op[t].slug => avail'[s] = avail[s])
    BY <1>13, <1>b DEF CopyBack
  <2>2. op[t].kind \in RestoresFiles
    BY <1>0, <1>a, <2>1 DEF Between, Kinds, RestoresFiles
  <2>3. Source(t) = op[t].saved
    BY <2>1, <2>2 DEF Source, FilesOf
  <2>4. out[t] # "running" /\ op[t].kind \notin {"rewrite", "revertToNone"}
    BY <2>1, <2>2 DEF RestoresFiles
  <2>5. ~Decided(t)'
    BY <2>1, <2>4 DEF Decided
  <2>6. CASE s = op[t].slug
    BY <2>1, <2>3, <2>5, <2>6 DEF Was
  <2>7. CASE s # op[t].slug
    <3>1. avail[s] = NoFile
      BY <2>1, <2>2, <2>7 DEF FilesOf, Footprint
    <3> QED
      BY <2>1, <2>5, <2>7, <3>1 DEF Was
  <2> QED
    BY <2>6, <2>7
<1>9. CASE ReloadTest(t)
  BY <1>9, <1>c DEF ReloadTest, ReloadFailed, Was, Goal, Decided
<1>10. CASE ReloadSignal(t)
  BY <1>10, <1>c DEF ReloadSignal, Reloaded, ReloadFailed, DoneOf, TextOf, AfterWrite, AfterDrop, Writes, Removals, Was, Goal, Decided, Footprint
<1>11. CASE Record(t)
  BY <1>11 DEF Record
<1> QED
  BY <1>1, <1>2, <1>3, <1>4, <1>5, <1>6, <1>7, <1>8, <1>9, <1>10, <1>11, <1>12, <1>13 DEF Work

LEMMA OthersBetween ==
  ASSUME StoreInv, NEW t \in Threads, Frame(t), NEW u \in Threads, u # t
  PROVE  Standing(u)' /\ (alone[u] => Between(u))'
<1>1. pc'[u] = pc[u] /\ op'[u] = op[u] /\ out'[u] = out[u] /\ alone'[u] = alone[u]
  BY DEF Frame
<1>2. Standing(u)'
  BY <1>1 DEF StoreInv, Standing
<1>3. ASSUME alone[u], pc[u] # "idle" PROVE Between(u)'
  <2>1. \A s \in Footprint(op[u]) : s \in Slugs /\ s \notin Footprint(op[t])
    <3>1. Footprint(op[u]) \cap Footprint(op[t]) = {}
      BY <1>3 DEF StoreInv, OutcomeInv, RollbackInv, Apart, Frame
    <3>2. op[u].slug \in Slugs /\ op[u].to \in Slugs
      BY OwnOutcome DEF StoreInv
    <3> QED
      BY <3>1, <3>2 DEF Footprint
  <2>2. \A s \in Footprint(op[u]) : avail'[s] = avail[s]
    BY <2>1 DEF Frame
  <2> QED
    BY <1>1, <1>3, <2>2 DEF StoreInv, Between, Footprint, Decided, Was, Goal
<1> QED
  BY <1>1, <1>2, <1>3 DEF Between

LEMMA StartBetween == ASSUME StoreInv, Start PROVE StoreInv'
<1>0. SiteTypeOK /\ OutcomeInv'
  BY StartOutcome DEF StoreInv, OutcomeInv, RollbackInv
<1>1. PICK t \in Threads, o \in Ops, first \in Pcs : Begin(t, o, first) /\ Found(o, first)
  BY <1>0, StartFinds DEF Begins
<1>2. /\ pc[t] = "idle" /\ pc'[t] = first /\ op'[t] = o /\ out'[t] = "running"
      /\ \A u \in Threads \ {t} : pc'[u] = pc[u] /\ op'[u] = op[u] /\ out'[u] = out[u]
      /\ avail' = avail
  BY <1>0, <1>1 DEF Begin, SiteTypeOK, disk
<1>3. \A u \in Threads \ {t} : alone'[u] => alone[u]
  BY <1>1 DEF Begin
<1>4. Standing(t)' /\ Between(t)'
  <2>1. Found(o, first) /\ first \in {"backup", "lock", "write"}
    BY <1>1 DEF Found
  <2> QED
    BY <2>1, <1>2 DEF Found, Standing, Between, Decided, Was, Goal, Footprint
<1>5. ASSUME NEW u \in Threads, u # t PROVE Standing(u)' /\ (alone[u] => Between(u))'
  BY <1>2, <1>3, <1>5 DEF StoreInv, Standing, Between, Decided, Was, Goal, Footprint
<1> QED
  BY <1>0, <1>4, <1>5 DEF StoreInv

LEMMA CrashBetween == ASSUME StoreInv, Crash PROVE StoreInv'
<1>1. OutcomeInv' /\ \A t \in Threads : pc'[t] = "idle" /\ out'[t] = (IF pc[t] = "idle" THEN out[t] ELSE "crashed")
  BY CrashOutcome DEF StoreInv, Crash
<1>2. \A t \in Threads : op'[t].kind = op[t].kind
  BY ReturnedKeeps, OwnOutcome DEF StoreInv, Crash
<1> QED
  BY <1>1, <1>2 DEF StoreInv, Standing, Between

LEMMA StoreInit == Init => StoreInv
<1> SUFFICES ASSUME Init PROVE StoreInv
  OBVIOUS
<1>1. \A t \in Threads : pc[t] = "idle" /\ op[t].kind = "none"
  BY DEF Init, NoOp
<1> QED
  BY <1>1, OutcomeInit DEF StoreInv, Standing, Between

LEMMA StoreStep == StoreInv /\ [Next]_vars => StoreInv'
<1> SUFFICES ASSUME StoreInv, [Next]_vars PROVE StoreInv'
  OBVIOUS
<1>1. CASE UNCHANGED vars
  <2>1. OutcomeInv'
    BY <1>1, OutcomeStep DEF StoreInv
  <2>2. UNCHANGED <<avail, pc, op, out, alone>>
    BY <1>1 DEF vars, disk
  <2> QED
    BY <2>1, <2>2 DEF StoreInv, Standing, Between, Decided, Was, Goal, Footprint
<1>2. ASSUME NEW t \in Threads, Work(t) PROVE StoreInv'
  <2>1. OutcomeInv' /\ Frame(t) /\ alone' = alone
    BY <1>2, WorkOutcome, WorkFrame, OwnOutcome DEF StoreInv, Frame
  <2> QED
    BY <1>2, <2>1, OwnStanding, OwnBetween, OthersBetween DEF StoreInv
<1>3. CASE Load
  <2>1. OutcomeInv'
    BY <1>3, LoadOutcome DEF StoreInv
  <2>2. UNCHANGED <<avail, pc, op, out, alone>>
    BY <1>3 DEF Load, disk
  <2> QED
    BY <2>1, <2>2 DEF StoreInv, Standing, Between, Decided, Was, Goal, Footprint
<1> QED
  BY <1>1, <1>2, <1>3, StartBetween, CrashBetween DEF Next

\* What is on the disk before a handler's decision is old or new, or torn in the
\* moment in which the old text is copied back, and new after it.
THEOREM StoreInvHolds == Spec => []StoreInv
  BY StoreInit, StoreStep, PTL DEF Spec

-----------------------------------------------------------------------------
(* The steps of the handlers are steps of the store *)

\* What the store reads: the handlers that have not decided hide their sites.
StoredFacts ==
    /\ \A t \in Undecided, s \in Slugs : s \in Footprint(op[t]) => Stored[s] = Was(t, s)
    /\ \A s \in Slugs : (\A t \in Undecided : s \notin Footprint(op[t])) => Stored[s] = avail[s]
    /\ Stored \in [Slugs -> File]

LEMMA StoredRead == StoreInv => StoredFacts
<1> SUFFICES ASSUME StoreInv PROVE StoredFacts
  OBVIOUS
<1>0. OutcomeInv /\ Apart
  BY DEF StoreInv, OutcomeInv, RollbackInv
<1>1. \A t, u \in Undecided : Footprint(op[t]) \cap Footprint(op[u]) # {} => t = u
  BY <1>0 DEF Apart, Undecided
<1>2. ASSUME NEW t \in Undecided, NEW s \in Slugs, s \in Footprint(op[t])
      PROVE  Stored[s] = Was(t, s) /\ Stored[s] \in File
  <2>1. t \in Threads
    BY DEF Undecided
  <2>2. op[t].saved \in File
    BY <1>0, <2>1, OwnOutcome DEF Ops
  <2>3. \A u \in Undecided : s \in Footprint(op[u]) => u = t
    BY <1>1, <1>2
  <2>4. CASE s = op[t].slug
    <3>1. t = CHOOSE u \in Undecided : s = op[u].slug
      BY <2>3, <2>4 DEF Footprint
    <3> QED
      BY <2>2, <2>4, <3>1 DEF Stored, Was
  <2>5. CASE s # op[t].slug /\ s = op[t].to
    <3>1. ~\E u \in Undecided : s = op[u].slug
      BY <2>3, <2>5 DEF Footprint
    <3> QED
      BY <2>5, <3>1 DEF Stored, Was, File
  <2> QED
    BY <1>2, <2>4, <2>5 DEF Footprint
<1>3. ASSUME NEW s \in Slugs, \A t \in Undecided : s \notin Footprint(op[t])
      PROVE  Stored[s] = avail[s] /\ Stored[s] \in File
  <2>1. ~\E u \in Undecided : s = op[u].slug \/ s = op[u].to
    BY <1>3 DEF Footprint
  <2> QED
    BY <1>0, <2>1 DEF Stored, OutcomeInv, RollbackInv, SiteTypeOK
<1>4. DOMAIN Stored = Slugs /\ Stored = [s \in Slugs |-> Stored[s]]
  BY DEF Stored
<1>5. \A s \in Slugs : Stored[s] \in File
  BY <1>2, <1>3
<1>6. Stored \in [Slugs -> File]
  BY <1>4, <1>5
<1> QED
  BY <1>2, <1>3, <1>6 DEF StoredFacts

LEMMA StoredReadNext == StoreInv' => StoredFacts'
  BY StoredRead, PTL

\* What a step of t leaves of the others' places in the store.
LEMMA OthersInStore ==
  ASSUME StoreInv, StoreInv', NEW t \in Threads, Frame(t)
  PROVE  /\ \A u \in Threads \ {t} : Phase'[u] = Phase[u] /\ Task'[u] = Task[u] /\ Reply'[u] = Reply[u]
         /\ \A u \in Threads \ {t} : u \in Undecided' <=> u \in Undecided
         /\ \A s \in Slugs \ Footprint(op[t]) : Stored'[s] = Stored[s]
<1>1. ASSUME NEW u \in Threads \ {t}
      PROVE  /\ pc'[u] = pc[u] /\ op'[u] = op[u] /\ out'[u] = out[u] /\ alone'[u] = alone[u]
             /\ Decided(u)' <=> Decided(u)
  BY DEF Frame, Decided
<1>2. \A u \in Threads \ {t} : Phase'[u] = Phase[u] /\ Task'[u] = Task[u] /\ Reply'[u] = Reply[u]
  BY <1>1 DEF Phase, Task, Reply
<1>3. \A u \in Threads \ {t} : u \in Undecided' <=> u \in Undecided
  BY <1>1 DEF Undecided
<1>4. ASSUME NEW s \in Slugs \ Footprint(op[t]) PROVE Stored'[s] = Stored[s]
  <2>0. StoredFacts /\ StoredFacts' /\ Footprint(op[t])' = Footprint(op[t])
    BY StoredRead, StoredReadNext DEF Frame, Footprint
  <2>1. \A u \in Undecided' \cup Undecided : u \in Threads
    BY DEF Undecided
  <2>2. CASE \E u \in Undecided : s \in Footprint(op[u])
    <3>1. PICK u \in Undecided : s \in Footprint(op[u])
      BY <2>2
    <3>2. u \in Undecided' /\ op'[u] = op[u]
      BY <1>1, <1>3, <1>4, <2>1, <3>1
    <3>3. Stored'[s] = Was(u, s)' /\ Stored[s] = Was(u, s)
      BY <2>0, <3>1, <3>2 DEF StoredFacts, Footprint
    <3> QED
      BY <3>2, <3>3 DEF Was
  <2>3. CASE ~\E u \in Undecided : s \in Footprint(op[u])
    <3>1. \A u \in Undecided' : s \notin Footprint(op[u])'
      BY <1>1, <1>3, <1>4, <2>0, <2>1, <2>3 DEF Footprint
    <3>2. Stored'[s] = avail'[s] /\ Stored[s] = avail[s]
      BY <2>0, <2>3, <3>1 DEF StoredFacts
    <3> QED
      BY <3>2 DEF Frame
  <2> QED
    BY <2>2, <2>3
<1> QED
  BY <1>2, <1>3, <1>4

\* Each thread's place in the store, as its locals say.
InStore ==
    \A t \in Threads :
         /\ Task[t] = [from |-> op[t].slug, to |-> op[t].to, text |-> op[t].new,
                       undone |-> op[t].kind # "revertToNone"]
         /\ Task[t] \in Store!Tasks
         /\ Store!Sites(Task[t]) = Footprint(op[t])
         /\ \A s \in Slugs : s \in Footprint(op[t]) => Store!After(Task[t], s) = Goal(t, s)
         /\ pc[t] = "idle" => Phase[t] = "idle" /\ Reply[t] = out[t]
         /\ pc[t] # "idle" => Reply[t] = "none"
         /\ pc[t] # "idle" /\ ~alone[t] => Phase[t] = "shared"
         /\ pc[t] # "idle" /\ alone[t] /\ Decided(t) => Phase[t] = "done"
         /\ pc[t] # "idle" /\ alone[t] /\ ~Decided(t) =>
              /\ Phase[t] = IF out[t] = "running" THEN "trying" ELSE "undoing"
              /\ t \in Undecided
         /\ pc[t] = "idle" \/ ~alone[t] \/ Decided(t) => t \notin Undecided

LEMMA AllInStore == StoreInv => InStore
<1> SUFFICES ASSUME StoreInv, NEW t \in Threads
             PROVE  /\ Task[t] = [from |-> op[t].slug, to |-> op[t].to, text |-> op[t].new,
                                  undone |-> op[t].kind # "revertToNone"]
                    /\ Task[t] \in Store!Tasks
                    /\ Store!Sites(Task[t]) = Footprint(op[t])
                    /\ \A s \in Slugs : s \in Footprint(op[t]) => Store!After(Task[t], s) = Goal(t, s)
  BY DEF InStore, Phase, Reply, Undecided
<1>1. Task[t] = [from |-> op[t].slug, to |-> op[t].to, text |-> op[t].new,
                 undone |-> op[t].kind # "revertToNone"]
  BY DEF Task
<1>2. op[t] \in Ops
  BY OwnOutcome DEF StoreInv
<1>3. Task[t] \in Store!Tasks
  BY <1>1, <1>2 DEF Store!Tasks, Store!Held, Ops, File
<1>4. Store!Sites(Task[t]) = Footprint(op[t])
  BY <1>1 DEF Store!Sites, Footprint
<1>5. \A s \in Slugs : s \in Footprint(op[t]) => Store!After(Task[t], s) = Goal(t, s)
  BY <1>1 DEF Store!After, Goal
<1> QED
  BY <1>1, <1>3, <1>4, <1>5

LEMMA AllInStoreNext == StoreInv' => InStore'
  BY AllInStore, PTL


\* A handler that copies a text back has not decided.
CopyUndecided(t) == Decided(t) => pc[t] # "copy"

LEMMA CopiesUndecided ==
  ASSUME NEW t \in Threads, Between(t)
  PROVE  CopyUndecided(t)
  BY DEF CopyUndecided, Between, Decided

LEMMA CopiesUndecidedNext ==
  ASSUME NEW t \in Threads, Between(t)'
  PROVE  CopyUndecided(t)'
  BY DEF CopyUndecided, Between, Decided

\* How a handler ends that met nobody: undecided, it says that it failed; or
\* decided, and it says so or says what failed afterwards.
EndsAs(t) ==
    /\ out'[t] \in Store!Replies
    /\ alone[t] /\ ~Decided(t) =>
         /\ out'[t] \in {"validation", "error"} \/ (op[t].kind = "rename" /\ out'[t] = "reload")
         /\ op[t].kind # "revertToNone"
         /\ op[t].kind = "rewrite" => avail' = avail /\ avail[op[t].slug] = op[t].saved
    /\ alone[t] /\ Decided(t) =>
         /\ avail' = avail
         /\ \/ out'[t] = "ok"
            \/ op[t].kind # "rename" /\ out'[t] = "reload"
            \/ op[t].kind = "revertToNone" /\ out'[t] = "validation"

LEMMA OwnEnd ==
  ASSUME StoreInv, NEW t \in Threads, Work(t), pc'[t] = "idle"
  PROVE  EndsAs(t)
<1>0. OutcomeInv /\ Standing(t) /\ (alone[t] => CopyUndecided(t))
  BY CopiesUndecided DEF StoreInv
<1> USE <1>0, OwnOutcome, GotoKeeps, ResultKeeps
<1> USE DEF disk, book, nginx, LocalsOf, ShapeOf, Unfailed, Standing, EndsAs, Decided, Store!Replies
<1>1. CASE Backup(t) \/ LockOpen(t) \/ LockAcquire(t) \/ SyncAuth(t) \/ WriteFile(t)
  BY <1>1, WorkFrame DEF Backup, LockOpen, LockAcquire, FirstWrite, SyncAuth, WriteFile, Frame
<1>2. CASE WriteRaises(t)
  BY <1>2 DEF WriteRaises, DoneOf, TextOf
<1>3. CASE LinkSite(t)
  BY <1>3 DEF LinkSite
<1>4. CASE DropOld(t) \/ Test(t) \/ Restore(t) \/ UndoNew(t) \/ UndoOld(t)
  BY <1>4 DEF DropOld, Test, Restore, Truncate, UndoNew, UndoOld
<1>5. CASE CopyBack(t)
  BY <1>5 DEF CopyBack, CopyUndecided
<1>6. CASE Release(t)
  BY <1>6 DEF Release
<1>7. CASE UnlinkLock(t)
  BY <1>7 DEF UnlinkLock
<1>8. CASE RestoreDeleted(t)
  BY <1>8 DEF RestoreDeleted, Truncate
<1>9. CASE ReloadTest(t)
  BY <1>9 DEF ReloadTest, ReloadFailed
<1>10. CASE ReloadSignal(t)
  BY <1>10 DEF ReloadSignal, Reloaded, ReloadFailed, Bookkept
<1>11. CASE Record(t)
  BY <1>11 DEF Record
<1> QED
  BY <1>1, <1>2, <1>3, <1>4, <1>5, <1>6, <1>7, <1>8, <1>9, <1>10, <1>11 DEF Work

\* A decision is not taken back.
LEMMA OwnDecision ==
  ASSUME StoreInv, NEW t \in Threads, Work(t), pc'[t] # "idle", Decided(t)
  PROVE  Decided(t)'
<1>0. OutcomeInv /\ Standing(t)
  BY DEF StoreInv
<1> USE <1>0, OwnOutcome, OwnFrame, GotoKeeps, ResultKeeps
<1> USE DEF disk, book, nginx, LocalsOf, ShapeOf, Unfailed, Standing, Decided
<1>1. CASE Backup(t) \/ LockOpen(t) \/ LockAcquire(t) \/ SyncAuth(t) \/ WriteFile(t)
  BY <1>1 DEF Backup, LockOpen, LockAcquire, FirstWrite, SyncAuth, WriteFile
<1>2. CASE WriteRaises(t) \/ LinkSite(t) \/ DropOld(t) \/ Test(t)
  BY <1>2 DEF WriteRaises, LinkSite, DropOld, Test
<1>3. CASE Restore(t) \/ UndoNew(t) \/ UndoOld(t) \/ CopyBack(t)
  BY <1>3 DEF Restore, Truncate, UndoNew, UndoOld, CopyBack
<1>4. CASE Release(t) \/ UnlinkLock(t) \/ RestoreDeleted(t)
  BY <1>4 DEF Release, UnlinkLock, RestoreDeleted, Truncate
<1>5. CASE ReloadTest(t) \/ ReloadSignal(t) \/ Record(t)
  BY <1>5 DEF ReloadTest, ReloadSignal, Reloaded, ReloadFailed, Record
<1> QED
  BY <1>1, <1>2, <1>3, <1>4, <1>5 DEF Work

\* What failed stays failed, and is not decided any more.
LEMMA FailedStays ==
  ASSUME StoreInv, NEW t \in Threads, Work(t), pc'[t] # "idle", out'[t] = "running"
  PROVE  out[t] = "running"
<1>0. OutcomeInv
  BY DEF StoreInv
<1> USE <1>0, OwnOutcome, GotoKeeps, ResultKeeps
<1>1. CASE Backup(t) \/ LockOpen(t) \/ LockAcquire(t) \/ SyncAuth(t) \/ WriteFile(t)
  BY <1>1 DEF Backup, LockOpen, LockAcquire, SyncAuth, WriteFile
<1>2. CASE WriteRaises(t) \/ LinkSite(t) \/ DropOld(t) \/ Test(t)
  BY <1>2 DEF WriteRaises, LinkSite, DropOld, Test
<1>3. CASE Restore(t) \/ UndoNew(t) \/ UndoOld(t) \/ CopyBack(t)
  BY <1>3 DEF Restore, UndoNew, UndoOld, CopyBack
<1>4. CASE Release(t) \/ UnlinkLock(t) \/ RestoreDeleted(t)
  BY <1>4 DEF Release, UnlinkLock, RestoreDeleted
<1>5. CASE ReloadTest(t) \/ ReloadSignal(t) \/ Record(t)
  BY <1>5 DEF ReloadTest, ReloadSignal, Reloaded, ReloadFailed, Record
<1> QED
  BY <1>1, <1>2, <1>3, <1>4, <1>5 DEF Work

LEMMA DecidesRunning ==
  ASSUME StoreInv, StoreInv', NEW t \in Threads, Work(t), pc'[t] # "idle", ~Decided(t), Decided(t)'
  PROVE  out[t] = "running"
<1>0. OutcomeInv /\ OutcomeInv' /\ ShapeOf(t) /\ ShapeOf(t)' /\ pc[t] # "idle" /\ op'[t].kind = op[t].kind
  BY WorkFrame, OwnOutcome DEF StoreInv, OutcomeInv, RollbackInv, Frame
<1>1. CASE op[t].kind = "revertToNone"
  <2>1. pc[t] \in {"backup", "lock", "link", "drop"}
    BY <1>0, <1>1 DEF Decided
  <2> QED
    BY <1>0, <2>1 DEF ShapeOf, Unfailed
<1>2. CASE op[t].kind # "revertToNone"
  <2>1. out'[t] = "running"
    BY <1>0, <1>2 DEF Decided, ShapeOf, Unfailed
  <2> QED
    BY <2>1, FailedStays
<1> QED
  BY <1>1, <1>2

\* An undecided handler that ends has left its sites as it found them.
LEMMA UndecidedEnd ==
  ASSUME StoreInv, NEW t \in Threads, Work(t), pc'[t] = "idle", alone[t], ~Decided(t)
  PROVE  \A s \in Footprint(op[t]) : avail'[s] = Was(t, s)
<1>0. OutcomeInv /\ OutcomeInv' /\ EndsAs(t) /\ op[t].kind # "none" /\ op[t].kind \in Kinds /\ alone'[t]
  BY OwnEnd, WorkOutcome, WorkFrame, OwnOutcome DEF StoreInv, Standing, Frame
<1>1. op'[t].kind = op[t].kind /\ op'[t].slug = op[t].slug /\ op'[t].to = op[t].to /\ op'[t].saved = op[t].saved
  BY <1>0, OwnFrame
<1>2. CASE op[t].kind = "rewrite"
  BY <1>0, <1>2, OwnOutcome DEF EndsAs, LocalsOf, Footprint, Was
<1>3. CASE op[t].kind # "rewrite"
  <2>1. op[t].kind \in RestoresFiles
    BY <1>0, <1>3 DEF EndsAs, Kinds, RestoresFiles
  <2>2. FilesOf(t)'
    BY <1>0, <1>1, <2>1 DEF OutcomeInv, RollbackInv
  <2>3. FilesAsBefore(t)'
    BY <1>0, <1>1, <2>2 DEF EndsAs, FilesOf
  <2> QED
    BY <1>1, <2>3 DEF FilesAsBefore, Footprint, Was
<1> QED
  BY <1>2, <1>3

LEMMA ExceptIs ==
  ASSUME NEW S, NEW f, NEW g, f = [x \in S |-> f[x]], g = [x \in S |-> g[x]],
         NEW t \in S, \A u \in S \ {t} : g[u] = f[u]
  PROVE  g = [f EXCEPT ![t] = g[t]]
<1> DEFINE h == [f EXCEPT ![t] = g[t]]
<1>1. DOMAIN f = S /\ DOMAIN g = S
  OBVIOUS
<1>2. h = [x \in S |-> IF x = t THEN g[t] ELSE f[x]]
  BY <1>1
<1>3. \A x \in S : g[x] = IF x = t THEN g[t] ELSE f[x]
  OBVIOUS
<1> QED
  BY <1>1, <1>2, <1>3

StoreFunctions ==
    /\ Phase = [t \in Threads |-> Phase[t]]
    /\ Task = [t \in Threads |-> Task[t]]
    /\ Reply = [t \in Threads |-> Reply[t]]

LEMMA AreFunctions == StoreFunctions
  BY DEF StoreFunctions, Phase, Task, Reply

LEMMA AreFunctionsNext == StoreFunctions'
  BY AreFunctions, PTL

\* A step of one handler, in the store.
LEMMA WorkInStore ==
  ASSUME StoreInv, StoreInv', NEW t \in Threads, Work(t)
  PROVE  UNCHANGED Store!storeVars \/ Store!Commit(t) \/ Store!Undo(t) \/ Store!GiveUp(t) \/ Store!Finish(t) \/ Store!Clash(t)
<1>0. /\ StoredFacts /\ StoredFacts' /\ InStore /\ InStore' /\ StoreFunctions /\ StoreFunctions'
      /\ Frame(t) /\ OutcomeInv /\ op[t].slug \in Slugs /\ op[t].to \in Slugs
  BY StoredRead, StoredReadNext, AllInStore, AllInStoreNext, AreFunctions, AreFunctionsNext,
     WorkFrame, OwnOutcome DEF StoreInv
<1>1. /\ \A u \in Threads \ {t} : Phase'[u] = Phase[u] /\ Task'[u] = Task[u] /\ Reply'[u] = Reply[u]
      /\ \A s \in Slugs \ Footprint(op[t]) : Stored'[s] = Stored[s]
      /\ \A u \in Threads \ {t} : u \in Undecided' <=> u \in Undecided
  BY <1>0, OthersInStore
<1>2. /\ Phase' = [Phase EXCEPT ![t] = Phase'[t]] /\ Task' = [Task EXCEPT ![t] = Task'[t]]
      /\ Reply' = [Reply EXCEPT ![t] = Reply'[t]]
  BY <1>0, <1>1, ExceptIs DEF StoreFunctions
<1>3. /\ pc[t] # "idle" /\ alone'[t] = alone[t] /\ Footprint(op[t])' = Footprint(op[t])
      /\ op'[t].kind = op[t].kind /\ op'[t].slug = op[t].slug /\ op'[t].to = op[t].to
      /\ op'[t].saved = op[t].saved
      /\ op'[t].new = IF pc'[t] = "idle" THEN NoFile ELSE op[t].new
  BY <1>0, StepText DEF Frame, Footprint
<1>4. Task'[t] = IF pc'[t] = "idle" THEN [Task[t] EXCEPT !.text = NoFile] ELSE Task[t]
  <2>1. /\ Task[t] = [from |-> op[t].slug, to |-> op[t].to, text |-> op[t].new,
                      undone |-> op[t].kind # "revertToNone"]
        /\ Task'[t] = [from |-> op'[t].slug, to |-> op'[t].to, text |-> op'[t].new,
                       undone |-> op'[t].kind # "revertToNone"]
    BY <1>0 DEF InStore
  <2> QED
    BY <1>3, <2>1
<1>5. ASSUME pc'[t] = "idle" PROVE Store!Answer(t, out'[t])
  BY <1>0, <1>2, <1>4, <1>5 DEF InStore, Store!Answer
<1>6. ASSUME pc'[t] # "idle" PROVE Task' = Task /\ Reply' = Reply
  BY <1>0, <1>2, <1>3, <1>4, <1>6 DEF InStore, StoreFunctions
<1>7. Footprint(op[t]) = Store!Sites(Task[t])
  BY <1>0 DEF InStore
<1>8. \A s \in Footprint(op[t]) : s \in Slugs
  BY <1>0 DEF Footprint
<1>a. ASSUME alone[t], t \notin Undecided, NEW s \in Footprint(op[t]) PROVE Stored[s] = avail[s]
  <2>1. \A u \in Undecided : s \notin Footprint(op[u])
    BY <1>0, <1>3, <1>a DEF Undecided, OutcomeInv, RollbackInv, Apart
  <2> QED
    BY <1>0, <1>8, <1>a, <2>1 DEF StoredFacts
<1>b. ASSUME alone[t], t \notin Undecided', NEW s \in Footprint(op[t]) PROVE Stored'[s] = avail'[s]
  <2>1. \A u \in Undecided' : u \in Threads \ {t} /\ u \in Undecided /\ op'[u] = op[u]
    BY <1>0, <1>1, <1>b DEF Undecided, Frame
  <2>2. \A u \in Undecided' : s \notin Footprint(op[u])'
    BY <1>0, <1>3, <1>b, <2>1 DEF Undecided, OutcomeInv, RollbackInv, Apart, Footprint
  <2> QED
    BY <1>0, <1>8, <1>b, <2>2 DEF StoredFacts
<1>c. Stored \in [Slugs -> File] /\ Stored' \in [Slugs -> File]
  BY <1>0 DEF StoredFacts
<1>d. (\A s \in Footprint(op[t]) : Stored'[s] = Stored[s]) => Stored' = Stored
  BY <1>1, <1>c
<1>e. alone[t] => Between(t) /\ Between(t)'
  BY <1>3 DEF StoreInv
<1>f. /\ Task[t].from = op[t].slug /\ Task[t].to = op[t].to
      /\ op[t].kind = "revertToNone" => ~Task[t].undone
  <2>1. Task[t] = [from |-> op[t].slug, to |-> op[t].to, text |-> op[t].new,
                   undone |-> op[t].kind # "revertToNone"]
    BY <1>0 DEF InStore
  <2>2. Task[t].from = op[t].slug /\ Task[t].to = op[t].to
    BY <2>1
  <2>3. Task[t].undone = (op[t].kind # "revertToNone")
    BY DEF Task
  <2> QED
    BY <2>2, <2>3
<1>g. op[t].kind = "rename" <=> op[t].to # op[t].slug
  BY <1>0 DEF OutcomeInv, LocalsOf
<1>h. \A s \in Footprint(op[t]) : Store!After(Task[t], s) = Goal(t, s)
  BY <1>0, <1>8 DEF InStore
<1>k. /\ alone[t] /\ Decided(t) => pc[t] # "copy"
      /\ alone[t] /\ pc'[t] # "idle" /\ Decided(t)' => pc'[t] # "copy"
  <2>1. alone[t] => CopyUndecided(t) /\ CopyUndecided(t)'
    BY <1>e, CopiesUndecided, CopiesUndecidedNext
  <2> QED
    BY <2>1 DEF CopyUndecided
<1>9. CASE ~alone[t]
  <2>1. Phase[t] = "shared"
    BY <1>0, <1>3, <1>9 DEF InStore
  <2>2. \A s \in Slugs \ Store!Sites(Task[t]) : Stored'[s] = Stored[s]
    BY <1>1, <1>7
  <2>3. CASE pc'[t] = "idle"
    <3>1. out'[t] \in Store!Replies
      BY <2>3, OwnEnd DEF EndsAs
    <3> QED
      BY <1>5, <2>1, <2>2, <2>3, <3>1 DEF Store!Clash
  <2>4. CASE pc'[t] # "idle"
    <3>1. Phase'[t] = Phase[t]
      BY <1>0, <1>3, <1>9, <2>1, <2>4 DEF InStore
    <3> QED
      BY <1>0, <1>2, <1>6, <2>1, <2>2, <2>4, <3>1 DEF Store!Clash, StoreFunctions
  <2> QED
    BY <2>3, <2>4
<1>10. CASE alone[t] /\ ~Decided(t)
  <2>1. t \in Undecided /\ Phase[t] = IF out[t] = "running" THEN "trying" ELSE "undoing"
    BY <1>0, <1>3, <1>10 DEF InStore
  <2>2. \A s \in Footprint(op[t]) : Stored[s] = Was(t, s)
    BY <1>0, <1>8, <2>1 DEF StoredFacts
  <2>3. CASE pc'[t] = "idle"
    <3>1. \A s \in Footprint(op[t]) : avail'[s] = Was(t, s)
      BY <1>10, <2>3, UndecidedEnd
    <3>2. t \notin Undecided'
      BY <1>0, <2>3 DEF InStore
    <3>3. \A s \in Footprint(op[t]) : Stored'[s] = Stored[s]
      BY <1>10, <1>b, <2>2, <3>1, <3>2
    <3>4. out'[t] \in {"validation", "error"} \/ (out'[t] = "reload" /\ Task[t].from # Task[t].to)
      BY <1>10, <1>f, <1>g, <2>3, OwnEnd DEF EndsAs
    <3> QED
      BY <1>5, <1>d, <2>1, <2>3, <3>3, <3>4 DEF Store!GiveUp
  <2>4. CASE pc'[t] # "idle" /\ ~Decided(t)'
    <3>1. t \in Undecided' /\ Phase'[t] = IF out'[t] = "running" THEN "trying" ELSE "undoing"
      BY <1>0, <1>3, <1>10, <2>4 DEF InStore
    <3>2. \A s \in Footprint(op[t]) : Stored'[s] = Was(t, s)'
      BY <1>0, <1>3, <1>8, <3>1 DEF StoredFacts
    <3>3. \A s \in Footprint(op[t]) : Stored'[s] = Stored[s]
      BY <1>3, <2>2, <3>2 DEF Was
    <3>4. CASE Phase'[t] = Phase[t]
      <4>1. Phase' = Phase
        BY <1>0, <1>2, <3>4 DEF StoreFunctions
      <4> QED
        BY <1>6, <1>d, <2>4, <3>3, <4>1 DEF Store!storeVars
    <3>5. CASE Phase'[t] # Phase[t]
      <4>1. Phase[t] = "trying" /\ Phase'[t] = "undoing"
        BY <2>1, <2>4, <3>1, <3>5, FailedStays
      <4> QED
        BY <1>2, <1>6, <1>d, <2>4, <3>3, <4>1 DEF Store!Undo
    <3> QED
      BY <3>4, <3>5
  <2>5. CASE pc'[t] # "idle" /\ Decided(t)'
    <3>1. Phase'[t] = "done" /\ t \notin Undecided'
      BY <1>0, <1>3, <1>10, <2>5 DEF InStore
    <3>2. \A s \in Footprint(op[t]) : avail'[s] = Goal(t, s)
      BY <1>0, <1>3, <1>10, <1>e, <1>k, <2>5 DEF Between, Goal
    <3>5. Phase[t] = "trying"
      BY <2>1, <2>5, <1>10, DecidesRunning
    <3>3. \A s \in Footprint(op[t]) : Stored'[s] = Store!After(Task[t], s)
      BY <1>10, <1>b, <1>h, <3>1, <3>2
    <3>4. Stored' = [s \in Slugs |-> IF s \in Store!Sites(Task[t]) THEN Store!After(Task[t], s) ELSE Stored[s]]
      BY <1>1, <1>7, <1>c, <3>3
    <3> QED
      BY <1>2, <1>6, <2>5, <3>1, <3>4, <3>5 DEF Store!Commit
  <2> QED
    BY <2>3, <2>4, <2>5
<1>11. CASE alone[t] /\ Decided(t)
  <2>1. Phase[t] = "done" /\ t \notin Undecided
    BY <1>0, <1>3, <1>11 DEF InStore
  <2>2. CASE pc'[t] = "idle"
    <3>1. t \notin Undecided' /\ EndsAs(t)
      BY <1>0, <2>2, OwnEnd DEF InStore
    <3>2. avail' = avail
      BY <1>11, <3>1 DEF EndsAs
    <3>3. \A s \in Footprint(op[t]) : Stored'[s] = Stored[s]
      BY <1>11, <1>a, <1>b, <2>1, <3>1, <3>2
    <3>4. \/ out'[t] = "ok"
          \/ Task[t].from = Task[t].to /\ out'[t] = "reload"
          \/ ~Task[t].undone /\ out'[t] = "validation"
      BY <1>11, <1>f, <1>g, <3>1 DEF EndsAs
    <3> QED
      BY <1>5, <1>d, <2>1, <2>2, <3>3, <3>4 DEF Store!Finish
  <2>3. CASE pc'[t] # "idle"
    <3>1. Decided(t)'
      BY <1>11, <2>3, OwnDecision
    <3>2. Phase'[t] = "done" /\ t \notin Undecided'
      BY <1>0, <1>3, <1>11, <2>3, <3>1 DEF InStore
    <3>3. \A s \in Footprint(op[t]) : avail'[s] = avail[s]
      BY <1>0, <1>3, <1>11, <1>e, <1>k, <2>3, <3>1 DEF Between, Goal
    <3>4. \A s \in Footprint(op[t]) : Stored'[s] = Stored[s]
      BY <1>11, <1>a, <1>b, <2>1, <3>2, <3>3
    <3>5. Phase' = Phase
      BY <1>0, <1>2, <2>1, <3>2 DEF StoreFunctions
    <3> QED
      BY <1>6, <1>d, <2>3, <3>4, <3>5 DEF Store!storeVars
  <2> QED
    BY <2>2, <2>3
<1> QED
  BY <1>9, <1>10, <1>11

\* A crash, and a handler that meets others, may show what was half done.
TornBy(u, s) ==
    \/ s \in Store!Sites(Task[u]) /\ Stored'[s] = Store!After(Task[u], s)
    \/ s = Task[u].from /\ Phase[u] = "undoing" /\ Stored'[s] \in Torn

LEMMA TornSites ==
  ASSUME StoreInv, StoreInv', avail' = avail, NEW s \in Slugs,
         \A t \in Undecided' : s \in Footprint(op[t])' =>
            t \in Undecided /\ op'[t].slug = op[t].slug /\ op'[t].saved = op[t].saved,
         \A t \in Undecided : t \in Undecided' => Footprint(op[t])' = Footprint(op[t])
  PROVE  Stored'[s] = Stored[s]
         \/ \E u \in Undecided \ Undecided' : TornBy(u, s)
<1>0. StoredFacts /\ StoredFacts' /\ InStore
  BY StoredRead, StoredReadNext, AllInStore
<1>1. \A t \in Undecided : t \in Threads /\ alone[t] /\ pc[t] # "idle" /\ ~Decided(t)
  BY DEF Undecided
<1>2. CASE \E t \in Undecided' : s \in Footprint(op[t])'
  <2>1. PICK t \in Undecided' : s \in Footprint(op[t])'
    BY <1>2
  <2>2. t \in Undecided /\ s \in Footprint(op[t])
    BY <2>1
  <2>3. Stored'[s] = Was(t, s)' /\ Stored[s] = Was(t, s)
    BY <1>0, <2>1, <2>2 DEF StoredFacts
  <2> QED
    BY <2>1, <2>3 DEF Was
<1>3. CASE ~\E t \in Undecided' : s \in Footprint(op[t])'
  <2>1. Stored'[s] = avail[s]
    BY <1>0, <1>3 DEF StoredFacts
  <2>2. CASE \E u \in Undecided : s \in Footprint(op[u])
    <3>1. PICK u \in Undecided : s \in Footprint(op[u])
      BY <2>2
    <3>2. Stored[s] = Was(u, s) /\ u \notin Undecided'
      BY <1>0, <1>3, <3>1 DEF StoredFacts
    <3>3. \/ avail[s] = Goal(u, s) \/ avail[s] = Was(u, s)
          \/ pc[u] = "copy" /\ s = op[u].slug /\ avail[s] \in Torn
      BY <1>1, <3>1 DEF StoreInv, Between
    <3>5. pc[u] = "copy" => Phase[u] = "undoing" /\ Task[u].from = op[u].slug
      <4>1. pc[u] = "copy" => out[u] # "running"
        BY <1>1, OwnOutcome DEF StoreInv, ShapeOf
      <4>2. Task[u].from = op[u].slug
        BY <1>1 DEF Task
      <4> QED
        BY <1>0, <1>1, <4>1, <4>2 DEF InStore
    <3>4. s \in Store!Sites(Task[u]) /\ Store!After(Task[u], s) = Goal(u, s)
      BY <1>0, <1>1, <3>1 DEF InStore
    <3> QED
      BY <2>1, <3>1, <3>2, <3>3, <3>4, <3>5 DEF TornBy
  <2>3. CASE ~\E u \in Undecided : s \in Footprint(op[u])
    BY <1>0, <2>1, <2>3 DEF StoredFacts
  <2> QED
    BY <2>2, <2>3
<1> QED
  BY <1>2, <1>3

LEMMA CrashInStore ==
  ASSUME StoreInv, StoreInv', Crash
  PROVE  Store!Crash
<1>0. /\ InStore /\ InStore' /\ StoreFunctions /\ StoreFunctions' /\ OutcomeInv
      /\ op \in [Threads -> Ops]
  BY AllInStore, AllInStoreNext, AreFunctions, AreFunctionsNext DEF StoreInv, OutcomeInv, RollbackInv, SiteTypeOK
<1>1. ASSUME NEW t \in Threads
      PROVE  /\ pc'[t] = "idle" /\ out'[t] = (IF pc[t] = "idle" THEN out[t] ELSE "crashed")
             /\ op'[t] = Returned(op[t]) /\ op[t] \in Ops
  BY <1>0 DEF Crash
<1>2. avail' = avail
  BY DEF Crash, disk
<1>3. Undecided' = {}
  BY <1>1 DEF Undecided
<1>4. Phase' = [t \in Threads |-> "idle"]
  BY <1>0, <1>1 DEF InStore, StoreFunctions
<1>5. ASSUME NEW t \in Threads PROVE Task'[t] = [Task[t] EXCEPT !.text = NoFile]
  <2>1. /\ op'[t].kind = op[t].kind /\ op'[t].slug = op[t].slug /\ op'[t].to = op[t].to
        /\ op'[t].new = NoFile
    <3>1. op'[t].new = NoFile
      BY <1>1 DEF Returned, Ops
    <3> QED
      BY <1>1, <3>1, ReturnedKeeps
  <2>2. /\ Task[t] = [from |-> op[t].slug, to |-> op[t].to, text |-> op[t].new,
                      undone |-> op[t].kind # "revertToNone"]
        /\ Task'[t] = [from |-> op'[t].slug, to |-> op'[t].to, text |-> op'[t].new,
                       undone |-> op'[t].kind # "revertToNone"]
    BY <1>0 DEF InStore
  <2> QED
    BY <2>1, <2>2
<1>6. Task' = [t \in Threads |-> [Task[t] EXCEPT !.text = NoFile]]
  BY <1>0, <1>5 DEF StoreFunctions
<1>7. ASSUME NEW t \in Threads PROVE Reply'[t] = IF Phase[t] = "idle" THEN Reply[t] ELSE "crashed"
  <2>1. CASE pc[t] = "idle"
    BY <1>0, <1>1, <2>1 DEF InStore
  <2>2. CASE pc[t] # "idle"
    <3>1. Phase[t] \in {"shared", "done", "trying", "undoing"}
      BY <1>0, <2>2 DEF InStore
    <3> QED
      BY <1>0, <1>1, <2>2, <3>1 DEF InStore
  <2> QED
    BY <2>1, <2>2
<1>8. Reply' = [t \in Threads |-> IF Phase[t] = "idle" THEN Reply[t] ELSE "crashed"]
  BY <1>0, <1>7 DEF StoreFunctions
<1>9. Undecided \subseteq Store!Unmade
  BY <1>0 DEF InStore, Store!Unmade, Undecided
<1>10. Store!MayTear(Store!Unmade)
  <2>1. \A s \in Slugs : Stored'[s] = Stored[s] \/ \E u \in Undecided : TornBy(u, s)
    BY <1>2, <1>3, TornSites
  <2> QED
    BY <1>9, <2>1 DEF Store!MayTear, TornBy
<1> QED
  BY <1>4, <1>6, <1>8, <1>10 DEF Store!Crash

LEMMA StartInStore ==
  ASSUME StoreInv, StoreInv', Start
  PROVE  \E t \in Threads : \E k \in Store!Tasks : Store!Begin(t, k)
<1>0. /\ InStore /\ InStore' /\ StoreFunctions /\ StoreFunctions' /\ OutcomeInv /\ SiteTypeOK
      /\ StoredFacts /\ StoredFacts'
  BY AllInStore, AllInStoreNext, AreFunctions, AreFunctionsNext, StoredRead, StoredReadNext
  DEF StoreInv, OutcomeInv, RollbackInv
<1>1. PICK t \in Threads, o \in Ops, first \in Pcs : Begin(t, o, first) /\ Found(o, first)
  BY <1>0, StartFinds DEF Begins
<1>2. /\ pc[t] = "idle" /\ pc'[t] = first /\ op'[t] = o /\ first \in {"backup", "lock", "write"}
      /\ out'[t] = "running"
      /\ \A u \in Threads \ {t} : pc'[u] = pc[u] /\ op'[u] = op[u] /\ out'[u] = out[u]
      /\ avail' = avail
  BY <1>0, <1>1 DEF Begin, SiteTypeOK, disk, Found
<1> DEFINE k == Task'[t]
           met == Store!Met(k)
<1>3. k \in Store!Tasks /\ Store!Sites(k) = Footprint(o)
  BY <1>0, <1>2 DEF InStore, Footprint
<1>4. ASSUME NEW u \in Threads \ {t}
      PROVE  /\ Decided(u)' <=> Decided(u)
             /\ Task'[u] = Task[u] /\ Reply'[u] = Reply[u] /\ Footprint(op[u])' = Footprint(op[u])
  BY <1>2 DEF Decided, Task, Reply, Footprint
<1>5. ~Decided(t)'
  BY <1>1, <1>2 DEF Found, Decided
<1>6. \A u \in Threads : u \in met <=> pc[u] # "idle" /\ Footprint(op[u]) \cap Footprint(o) # {}
  <2>1. \A u \in Threads : Phase[u] # "idle" <=> pc[u] # "idle"
    BY <1>0 DEF InStore
  <2> QED
    BY <1>0, <1>3, <2>1 DEF Store!Met, InStore
<1>7. /\ alone'[t] <=> met = {}
      /\ \A u \in Threads \ {t} : alone'[u] <=> alone[u] /\ Footprint(op[u]) \cap Footprint(o) = {}
  <2>1. met \subseteq Threads /\ t \notin met
    BY <1>2, <1>6 DEF Store!Met
  <2>2. alone'[t] <=> \A v \in Threads \ {t} : pc[v] = "idle" \/ Footprint(op[v]) \cap Footprint(o) = {}
    BY <1>1 DEF Begin
  <2>3. \A u \in Threads \ {t} : alone'[u] <=> alone[u] /\ Footprint(op[u]) \cap Footprint(o) = {}
    BY <1>1 DEF Begin
  <2> QED
    BY <1>6, <2>1, <2>2, <2>3
<1>8. Phase'[t] = IF met = {} THEN "trying" ELSE "shared"
  BY <1>0, <1>2, <1>5, <1>7 DEF InStore
<1>9. ASSUME NEW u \in Threads \ {t} PROVE Phase'[u] = IF u \in met THEN "shared" ELSE Phase[u]
  <2>a. /\ Phase[u] = IF pc[u] = "idle" THEN "idle" ELSE IF ~alone[u] THEN "shared"
                      ELSE IF Decided(u) THEN "done"
                      ELSE IF out[u] = "running" THEN "trying" ELSE "undoing"
        /\ Phase'[u] = IF pc'[u] = "idle" THEN "idle" ELSE IF ~alone'[u] THEN "shared"
                       ELSE IF Decided(u)' THEN "done"
                       ELSE IF out'[u] = "running" THEN "trying" ELSE "undoing"
    BY DEF Phase
  <2>1. CASE pc[u] = "idle"
    BY <1>2, <1>6, <2>1, <2>a
  <2>2. CASE pc[u] # "idle" /\ u \in met
    BY <1>2, <1>6, <1>7, <2>2, <2>a
  <2>3. CASE pc[u] # "idle" /\ u \notin met
    <3>1. alone'[u] <=> alone[u]
      BY <1>6, <1>7, <2>3
    <3> QED
      BY <1>2, <1>4, <2>3, <2>a, <3>1
  <2> QED
    BY <2>1, <2>2, <2>3
<1>10. Phase' = [u \in Threads |->
          IF u = t THEN IF met = {} THEN "trying" ELSE "shared"
          ELSE IF u \in met THEN "shared" ELSE Phase[u]]
  BY <1>0, <1>8, <1>9 DEF StoreFunctions
<1>11. Task' = [Task EXCEPT ![t] = k] /\ Reply' = [Reply EXCEPT ![t] = "none"]
  <2>1. Reply'[t] = "none"
    BY <1>0, <1>2 DEF InStore
  <2>2. Task' = [Task EXCEPT ![t] = Task'[t]] /\ Reply' = [Reply EXCEPT ![t] = Reply'[t]]
    BY <1>0, <1>4, ExceptIs DEF StoreFunctions
  <2> QED
    BY <2>1, <2>2
<1>12. ASSUME NEW u \in Undecided PROVE u \in Threads \ {t} /\ (u \in Undecided' \/ u \in met \cap Store!Unmade)
  <2>1. u \in Threads /\ pc[u] # "idle" /\ alone[u] /\ ~Decided(u) /\ Phase[u] \in {"trying", "undoing"}
    BY <1>0, <1>12 DEF Undecided, InStore
  <2>2. u # t
    BY <1>2, <2>1
  <2> QED
    BY <1>2, <1>4, <1>6, <1>7, <2>1, <2>2 DEF Undecided, Store!Unmade
<1>13. ASSUME NEW u \in Undecided', u # t PROVE u \in Undecided /\ op'[u] = op[u]
  BY <1>2, <1>4, <1>7, <1>13 DEF Undecided
<1>14. ASSUME NEW s \in Slugs
       PROVE  Stored'[s] = Stored[s] \/ \E u \in met \cap Store!Unmade : TornBy(u, s)
  <2>1. CASE t \in Undecided' /\ s \in Footprint(o)
    <3>1. s \in Footprint(op[t])' /\ alone'[t]
      BY <1>2, <2>1 DEF Footprint, Undecided
    <3>2. Stored'[s] = Was(t, s)'
      BY <1>0, <2>1, <3>1 DEF StoredFacts
    <3>3. Was(t, s)' = avail[s]
      BY <1>1, <1>2, <2>1 DEF Found, Was, Footprint
    <3>4. \A u \in Undecided : s \notin Footprint(op[u])
      BY <1>6, <1>7, <1>12, <2>1, <3>1 DEF Undecided
    <3> QED
      BY <1>0, <3>2, <3>3, <3>4 DEF StoredFacts
  <2>2. CASE ~(t \in Undecided' /\ s \in Footprint(o))
    <3>1. \A u \in Undecided' : s \in Footprint(op[u])' =>
            u \in Undecided /\ op'[u].slug = op[u].slug /\ op'[u].saved = op[u].saved
      BY <1>2, <1>13, <2>2 DEF Footprint
    <3>2. \A u \in Undecided : u \in Undecided' => Footprint(op[u])' = Footprint(op[u])
      BY <1>4, <1>12
    <3> QED
      BY <1>2, <1>12, <3>1, <3>2, TornSites
  <2> QED
    BY <2>1, <2>2
<1>15. Store!MayTear(met \cap Store!Unmade)
  BY <1>14 DEF Store!MayTear, TornBy
<1>16. Phase[t] = "idle"
  BY <1>0, <1>2 DEF InStore
<1>17. Store!Begin(t, k)
  BY <1>10, <1>11, <1>15, <1>16 DEF Store!Begin
<1> QED
  BY <1>3, <1>17

LEMMA InitInStore == Init => Store!Init
<1> SUFFICES ASSUME Init PROVE Store!Init
  OBVIOUS
<1>0. StoreInv
  BY StoreInit
<1>1. StoredFacts /\ InStore /\ StoreFunctions
  BY <1>0, StoredRead, AllInStore, AreFunctions
<1>2. \A t \in Threads : pc[t] = "idle" /\ out[t] = "none" /\ op[t].new = NoFile
  BY DEF Init, NoOp
<1>3. Stored \in [Slugs -> Store!Held]
  BY <1>1 DEF StoredFacts, Store!Held, File
<1>4. Phase = [t \in Threads |-> "idle"] /\ Reply = [t \in Threads |-> "none"]
  BY <1>1, <1>2 DEF InStore, StoreFunctions
<1>5. \A t \in Threads : Task[t] \in {k \in Store!Tasks : k.text = NoFile}
  <2> SUFFICES ASSUME NEW t \in Threads PROVE Task[t] \in Store!Tasks /\ Task[t].text = NoFile
    OBVIOUS
  <2>1. Task[t].text = op[t].new
    BY DEF Task
  <2> QED
    BY <1>1, <1>2, <2>1 DEF InStore
<1>6. Task \in [Threads -> {k \in Store!Tasks : k.text = NoFile}]
  BY <1>1, <1>5 DEF StoreFunctions
<1> QED
  BY <1>3, <1>4, <1>6 DEF Store!Init

LEMMA StepInStore ==
  StoreInv /\ StoreInv' /\ [Next]_vars =>
    [Store!Next]_Store!storeVars
<1> SUFFICES ASSUME StoreInv, StoreInv', [Next]_vars
             PROVE  [Store!Next]_Store!storeVars
  OBVIOUS
<1>1. Stored' \in [Slugs -> Store!Held]
  BY StoredReadNext DEF StoredFacts, Store!Held, File
<1>2. CASE UNCHANGED vars
  <2>1. UNCHANGED <<avail, pc, op, out, alone>>
    BY <1>2 DEF vars, disk
  <2> QED
    BY <2>1 DEF Store!storeVars, Stored, Phase, Task, Reply, Undecided, Decided
<1>3. CASE Start
  BY <1>1, <1>3, StartInStore DEF Store!Next
<1>4. CASE Crash
  BY <1>1, <1>4, CrashInStore DEF Store!Next
<1>5. ASSUME NEW t \in Threads, Work(t)
      PROVE  [Store!Next]_Store!storeVars
  BY <1>1, <1>5, WorkInStore DEF Store!Next
<1>6. CASE Load
  <2>1. UNCHANGED <<avail, pc, op, out, alone>>
    BY <1>6 DEF Load, disk
  <2> QED
    BY <2>1 DEF Store!storeVars, Stored, Phase, Task, Reply, Undecided, Decided
<1> QED
  BY <1>2, <1>3, <1>4, <1>5, <1>6 DEF Next

\* The handlers, their files, tests, restorations and reloads implement a
\* store whose sites change at one moment or not at all, as the answer says; a
\* crash alone may leave a text torn that was being put back.
THEOREM HandlersImplementStore == Spec => ChangesAreAtomic
<1>1. StoreInv /\ StoreInv' /\ [Next]_vars =>
        [Store!Next]_Store!storeVars
  BY StepInStore
<1>2. Init => Store!Init
  BY InitInStore
<1> QED
  BY <1>1, <1>2, StoreInvHolds, PTL DEF Spec, ChangesAreAtomic, Store!Spec

=============================================================================
