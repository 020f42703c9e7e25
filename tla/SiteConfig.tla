------------------------------ MODULE SiteConfig ------------------------------
(***************************************************************************)
(* How the backend changes the nginx configuration of a site: the files of *)
(* sites-available, the links of sites-enabled, the htpasswd files, the    *)
(* configuration nginx has loaded, and the history row of each change.     *)
(* nginx itself is outside: a reload only signals its master process,      *)
(* which loads the files later, or refuses them.                           *)
(*                                                                         *)
(* One event-loop thread (Api) runs the HTTP handlers one at a time; the   *)
(* scheduler's jobs (Jobs) re-render sites at the same moments.  Every     *)
(* handler goes through NginxWriter.apply_change -- backup, lock, write,   *)
(* nginx -t, restore or keep -- and then NginxOps.reload, except renames   *)
(* (own transaction in update_proxy) and the security pages' rewrite of    *)
(* sites (no transaction at all).                                          *)
(***************************************************************************)
EXTENDS FileLock

CONSTANTS
    Api,            \* the event-loop thread
    Cfgs,           \* what an administrator can ask a site to be
    AuthModes,      \* basic authentication off and on (a bound may leave one)
    Reparse,        \* [Cfgs -> Cfgs]: what parsing a rendered file gives back
    NoFile          \* "the file does not exist"

\* The other threads are the scheduler's, which run process_pending.
Jobs == Threads \ {Api}

\* Proxy names: each has one file in sites-available.
Slugs == Paths

ASSUME SiteConstants ==
    /\ Api \in Threads
    /\ AuthModes \subseteq BOOLEAN
    /\ Reparse \in [Cfgs -> Cfgs]
    /\ \A c \in Cfgs : Reparse[Reparse[c]] = Reparse[c]

\* The text of a site file: the settings it renders, whether it names an
\* htpasswd file, and whether nginx -t accepts it.  Acceptance depends on what
\* the render found (certificate, live servers of the pool), so it is an input.
Contents == [cfg : Cfgs, auth : AuthModes, ok : BOOLEAN]

\* What a copy into a file leaves there before it is done: an empty file, which
\* nginx -t accepts, or the beginning of a text, which it does not.
Torn == [ok : BOOLEAN]

Texts == Contents \cup Torn

ASSUME NoFileIsNoText == NoFile \notin Texts
ASSUME TornIsNoContent == Torn \cap Contents = {}

VARIABLES
    avail,      \* sites-available: slug -> text, or NoFile
    enabled,    \* slugs with an entry in sites-enabled
    htpasswd,   \* slugs with an htpasswd file
    live,       \* what the running nginx serves for each slug
    master,     \* nginx's master process: it has loaded what it was signalled to,
                \* has yet to, or has refused it
    recorded,   \* new_config of the latest config_versions row of the slug
    notes,      \* slugs with a metadata file
    pc, op,     \* per thread: next step of the handler, and its locals
    out,        \* how the thread's latest handler ended
    alone       \* history: no other thread touched that handler's slugs

disk == <<avail, enabled, htpasswd>>
nginx == <<live, master>>
book == <<nginx, recorded, notes>>
vars == <<disk, book, pc, op, out, alone, lockVars>>

File == Texts \cup {NoFile}

Kinds == {"none", "create", "update", "rename", "delete", "setEnabled",
          "regen", "revert", "revertToNone", "rewrite"}

\* slug: the site; to: its name afterwards; new: text to write; creds: the
\* payload carries basic-auth credentials; en: link it; saved, wasEn: text and
\* link when the handler began (old_config, the rename's and the delete's own
\* backup, was_enabled); wasPw: there was a password file then (history only);
\* backup: the copy apply_change takes.
Ops == [kind : Kinds, slug : Slugs, to : Slugs, new : File, creds : BOOLEAN,
        en : BOOLEAN, saved : File, wasEn : BOOLEAN, wasPw : BOOLEAN, backup : File]

Pcs == {"idle", "backup", "lock", "sync", "write", "link", "drop", "test",
        "restore", "undoNew", "undoOld", "copy", "unlock", "unlink", "restoreDeleted",
        "reload", "signal", "record"}

Outs == {"none", "running", "ok", "validation", "reload", "error", "crashed"}

TypeOK ==
    /\ avail \in [Slugs -> File]
    /\ enabled \subseteq Slugs
    /\ htpasswd \subseteq Slugs
    /\ live \in [Slugs -> File]
    /\ master \in {"loaded", "signalled", "refused"}
    /\ recorded \in [Slugs -> File]
    /\ notes \subseteq Slugs
    /\ pc \in [Threads -> Pcs]
    /\ op \in [Threads -> Ops]
    /\ out \in [Threads -> Outs]
    /\ alone \in [Threads -> BOOLEAN]
    /\ LockTypeOK

NoOp(s) ==
    [kind |-> "none", slug |-> s, to |-> s, new |-> NoFile, creds |-> FALSE,
     en |-> FALSE, saved |-> NoFile, wasEn |-> FALSE,
     wasPw |-> FALSE, backup |-> NoFile]

-----------------------------------------------------------------------------
(* nginx *)

\* nginx -t reads every entry of sites-enabled: a link to a missing file or to
\* a text it rejects fails the test of the whole server.
TestOk == \A s \in enabled : avail[s] # NoFile /\ avail[s].ok

\* What a successful load makes nginx serve.
View == [s \in Slugs |-> IF s \in enabled THEN avail[s] ELSE NoFile]

-----------------------------------------------------------------------------

Exists(s) == avail[s] # NoFile

\* The backend starts on a server whose sites, if any, were saved and loaded.
Init ==
    /\ avail \in [Slugs -> Contents \cup {NoFile}]
    /\ enabled \in SUBSET Slugs
    /\ TestOk
    /\ live = View
    /\ master = "loaded"
    /\ recorded = avail
    /\ notes = {s \in Slugs : Exists(s)}
    /\ htpasswd = {s \in Slugs : Exists(s) /\ avail[s].auth}
    /\ pc = [t \in Threads |-> "idle"]
    /\ \E s \in Slugs : op = [t \in Threads |-> NoOp(s)] /\ target = [t \in Threads |-> s]
    /\ out = [t \in Threads |-> "none"]
    /\ alone = [t \in Threads |-> FALSE]
    /\ LockInit

-----------------------------------------------------------------------------
(* Handlers begin *)

Footprint(o) == {o.slug, o.to}

\* Start handler o on thread t at step first, and note who shares its sites.
Begin(t, o, first) ==
    /\ pc[t] = "idle"
    /\ pc' = [pc EXCEPT ![t] = first]
    /\ op' = [op EXCEPT ![t] = o]
    /\ out' = [out EXCEPT ![t] = "running"]
    /\ alone' = [u \in Threads |->
         LET apart == Footprint(op[u]) \cap Footprint(o) = {} IN
         IF u = t THEN \A v \in Threads \ {t} :
                          pc[v] = "idle" \/ Footprint(op[v]) \cap Footprint(o) = {}
                  ELSE alone[u] /\ apart]
    /\ UNCHANGED <<disk, book, lockVars>>

\* The locals every handler starts with; NoFile in backup is "not taken yet".
Locals(kind, s, to, new, creds, en) ==
    [kind |-> kind, slug |-> s, to |-> to, new |-> new, creds |-> creds, en |-> en,
     saved |-> avail[s], wasEn |-> s \in enabled,
     wasPw |-> s \in htpasswd, backup |-> NoFile]

\* create_proxy: refused when the file exists; basic auth needs credentials.
BeginCreate == \E s \in Slugs, c \in Contents, en \in BOOLEAN :
    /\ avail[s] = NoFile
    /\ Begin(Api, Locals("create", s, s, c, c.auth, en), "backup")

\* update_proxy under the same name.
BeginUpdate == \E s \in Slugs, c \in Contents, creds, en \in BOOLEAN :
    /\ avail[s] # NoFile
    /\ creds => c.auth
    /\ Begin(Api, Locals("update", s, s, c, creds, en), "backup")

\* update_proxy under another name: refused when the new name has a file; it
\* takes its one backup here, before the lock.
BeginRename == \E s, to \in Slugs, c \in Contents, creds, en \in BOOLEAN :
    /\ to # s
    /\ avail[s] # NoFile /\ avail[to] = NoFile
    /\ creds => c.auth
    /\ Begin(Api, Locals("rename", s, to, c, creds, en), "lock")

BeginDelete == \E s \in Slugs :
    /\ avail[s] # NoFile
    /\ Begin(Api, Locals("delete", s, s, NoFile, FALSE, FALSE), "backup")

BeginSetEnabled == \E s \in Slugs, en \in BOOLEAN :
    /\ avail[s] # NoFile
    /\ Begin(Api, Locals("setEnabled", s, s, avail[s], FALSE, en), "backup")

\* ConfigVersionService.rollback to a version whose old_config is a text: the
\* table may hold any text a file had before, of this run or an earlier one, a
\* torn one too.  It always links the site.
BeginRevert == \E s \in Slugs, c \in Texts :
    Begin(Api, Locals("revert", s, s, c, FALSE, TRUE), "backup")

\* The same, for a version that created the site (old_config is None).
BeginRevertToNone == \E s \in Slugs :
    /\ avail[s] # NoFile
    /\ Begin(Api, Locals("revertToNone", s, s, NoFile, FALSE, FALSE), "backup")

\* The texts a re-render of the site's own file may produce: what the parser
\* recovers of it, accepted or not; nothing of an empty file, and of a beginning
\* whatever its whole blocks say.
Rerendered(s) ==
    {c \in Contents : IF avail[s] \in Contents
                      THEN c.cfg = Reparse[avail[s].cfg] /\ c.auth = avail[s].auth
                      ELSE ~avail[s].ok}

\* regen_proxy, on a scheduler thread: it parses the file and looks up its link
\* here, and writes what it found only once it holds the lock.
BeginRegen(t) == \E s \in Slugs :
    /\ avail[s] # NoFile
    /\ \E c \in Rerendered(s) :
         Begin(t, Locals("regen", s, s, c, FALSE, s \in enabled), "backup")

\* _regen_proxies of the security pages: the same, without apply_change.
BeginRewrite == \E s \in Slugs :
    /\ avail[s] # NoFile
    /\ \E c \in Rerendered(s) :
         Begin(Api, Locals("rewrite", s, s, c, FALSE, s \in enabled), "write")

-----------------------------------------------------------------------------
(* Steps of a handler *)

\* What outlives a handler: the locals that only its own steps read are gone.
Returned(o) == [o EXCEPT !.new = NoFile, !.creds = FALSE, !.en = FALSE, !.backup = NoFile]

Goto(t, step) ==
    /\ pc' = [pc EXCEPT ![t] = step]
    /\ op' = IF step = "idle" THEN [op EXCEPT ![t] = Returned(@)] ELSE op

Result(t, result) == out' = [out EXCEPT ![t] = result]

\* Mutant: the file's name is kept as the backup, not a copy of its text.
BackupNamesFile(t) ==
    /\ pc[t] = "backup"
    /\ op' = [op EXCEPT ![t].backup = op[t].slug]
    /\ pc' = [pc EXCEPT ![t] = "lock"]
    /\ UNCHANGED <<disk, book, out, alone, lockVars>>

\* apply_change: the backup is copied before the lock is asked for.
Backup(t) ==
    /\ pc[t] = "backup"
    /\ op' = [op EXCEPT ![t].backup = avail[op[t].slug]]
    /\ pc' = [pc EXCEPT ![t] = "lock"]
    /\ UNCHANGED <<disk, book, out, alone, lockVars>>

LockOpen(t) ==
    /\ pc[t] = "lock"
    /\ Open(t, op[t].slug)
    /\ UNCHANGED <<disk, book, pc, op, out, alone>>

\* Mutant: a rename takes the old name away before it writes the new one.
DropFirst(kind) ==
    CASE kind \in {"create", "update"} -> "sync"
      [] kind = "rename" -> "drop"
      [] kind \in {"regen", "revert"} -> "write"
      [] OTHER -> "link"

\* The first step of the kind's write_fn.
FirstWrite(kind) ==
    CASE kind \in {"create", "update", "rename"} -> "sync"
      [] kind \in {"regen", "revert"} -> "write"
      [] OTHER -> "link"

LockAcquire(t) ==
    /\ pc[t] = "lock"
    /\ Acquire(t)
    /\ Goto(t, FirstWrite(op[t].kind))
    /\ UNCHANGED <<disk, book, out, alone>>

\* Mutant: a rename forgets the password file of the old name.
SyncAuthForgetsOld(t) ==
    /\ pc[t] = "sync"
    /\ htpasswd' = IF op[t].creds THEN htpasswd \cup {op[t].to}
                   ELSE IF op[t].new.auth \/ op[t].kind = "create" THEN htpasswd
                   ELSE htpasswd \ {op[t].to}
    /\ Goto(t, "write")
    /\ UNCHANGED <<avail, enabled, book, out, alone, lockVars>>

\* write_htpasswd (create) and _sync_htpasswd (update, rename): credentials
\* write the file of the new name, a rename without them moves the old file,
\* and switching authentication off removes both.
SyncAuth(t) ==
    /\ pc[t] = "sync"
    /\ LET o == op[t] IN
       htpasswd' =
         IF o.creds THEN (htpasswd \ {o.slug}) \cup {o.to}
         ELSE IF o.kind = "create" THEN htpasswd
         ELSE IF ~o.new.auth THEN htpasswd \ {o.slug, o.to}
         ELSE IF o.slug \in htpasswd THEN (htpasswd \ {o.slug}) \cup {o.to}
         ELSE htpasswd
    /\ Goto(t, "write")
    /\ UNCHANGED <<avail, enabled, book, out, alone, lockVars>>

\* Mutant: the file is truncated and written in place, not replaced.
WriteInPlace(t) ==
    /\ pc[t] = "write"
    /\ IF avail[op[t].to] \in Contents \ {op[t].new}
       THEN avail' = [avail EXCEPT ![op[t].to] = [ok |-> TRUE]] /\ UNCHANGED <<pc, op>>
       ELSE avail' = [avail EXCEPT ![op[t].to] = op[t].new] /\ Goto(t, "link")
    /\ UNCHANGED <<enabled, htpasswd, book, out, alone, lockVars>>

\* atomic_write: the rendered text replaces the file in one os.replace.
WriteFile(t) ==
    /\ pc[t] = "write"
    /\ avail' = [avail EXCEPT ![op[t].to] = op[t].new]
    /\ Goto(t, "link")
    /\ UNCHANGED <<enabled, htpasswd, book, out, alone, lockVars>>

\* htpasswd fails, or rendering raises (a pool with no enabled server or mixed
\* protocols): the exception leaves apply_change through the lock's finally,
\* update_proxy's rename catches it and rolls back, _regen_proxies has nothing
\* to release.
WriteRaises(t) ==
    /\ \/ pc[t] = "sync" /\ op[t].creds
       \/ pc[t] = "write" /\ op[t].kind # "revert"
    /\ Goto(t, CASE op[t].kind = "rename" -> "undoNew"
                  [] op[t].kind = "rewrite" -> "idle"
                  [] OTHER -> "unlock")
    /\ Result(t, "error")
    /\ UNCHANGED <<disk, book, alone, lockVars>>

Removes(o) == o.kind \in {"delete", "revertToNone"}

\* enable_site / disable_site.
LinkSite(t) ==
    /\ pc[t] = "link"
    /\ enabled' = IF op[t].en THEN enabled \cup {op[t].to} ELSE enabled \ {op[t].to}
    /\ IF op[t].kind = "rewrite" THEN Goto(t, "idle") /\ Result(t, "ok")
       ELSE /\ Goto(t, IF Removes(op[t]) \/ op[t].kind = "rename" THEN "drop" ELSE "test")
            /\ UNCHANGED out
    /\ UNCHANGED <<avail, htpasswd, book, alone, lockVars>>

\* The old name goes away: path.unlink of a delete, and disable_site then
\* unlink of the old name of a rename.
DropOld(t) ==
    /\ pc[t] = "drop"
    /\ enabled' = enabled \ (IF op[t].kind = "rename" THEN {op[t].slug} ELSE {})
    /\ avail' = [avail EXCEPT ![op[t].slug] = NoFile]
    /\ Goto(t, "test")
    /\ UNCHANGED <<htpasswd, book, out, alone, lockVars>>

\* nginx -t under the lock.
Test(t) ==
    /\ pc[t] = "test"
    /\ IF TestOk
       THEN Goto(t, "unlock") /\ UNCHANGED out
       ELSE /\ Goto(t, IF op[t].kind = "rename" THEN "undoNew" ELSE "restore")
            /\ Result(t, "validation")
    /\ UNCHANGED <<disk, book, alone, lockVars>>

\* restore_backup is shutil.copy2: it opens the file for writing, so that what
\* was there is gone before the backup's text is in it.
Truncate(t) ==
    /\ \E torn \in Torn : avail' = [avail EXCEPT ![op[t].slug] = torn]
    /\ Goto(t, "copy")

\* Mutant: the branch that removes a file without a backup is missing.
RestoreKeepsNewFile(t) ==
    /\ pc[t] = "restore"
    /\ IF avail[op[t].slug] # NoFile /\ op[t].backup # NoFile THEN Truncate(t)
       ELSE Goto(t, "unlock") /\ UNCHANGED avail
    /\ UNCHANGED <<enabled, htpasswd, book, out, alone, lockVars>>

\* apply_change after a failed test: only the file, and only if it is there; one
\* that was not there before is unlinked.
Restore(t) ==
    /\ pc[t] = "restore"
    /\ IF avail[op[t].slug] # NoFile /\ op[t].backup # NoFile THEN Truncate(t)
       ELSE Goto(t, "unlock") /\ avail' = [avail EXCEPT ![op[t].slug] = NoFile]
    /\ UNCHANGED <<enabled, htpasswd, book, out, alone, lockVars>>

\* rollback() of a rename, first part: the new file is unlinked.
UndoNew(t) ==
    /\ pc[t] = "undoNew"
    /\ avail' = [avail EXCEPT ![op[t].to] = NoFile]
    /\ Goto(t, "undoOld")
    /\ UNCHANGED <<enabled, htpasswd, book, out, alone, lockVars>>

\* ... second part: its backup is copied to the old name.  It runs under the
\* lock after a failed write or test, without it after a failed reload.
UndoOld(t) ==
    /\ pc[t] = "undoOld"
    /\ Truncate(t)
    /\ UNCHANGED <<enabled, htpasswd, book, out, alone, lockVars>>

\* The backup that is copied: apply_change's, or the rename's and the delete's own.
Source(t) == IF op[t].kind = "rename" \/ stage[t] # "inside" THEN op[t].saved ELSE op[t].backup

\* The copy is done; a rename then puts both links back.
CopyBack(t) ==
    /\ pc[t] = "copy"
    /\ avail' = [avail EXCEPT ![op[t].slug] = Source(t)]
    /\ enabled' = IF op[t].kind = "rename"
                  THEN (enabled \ {op[t].slug, op[t].to}) \cup (IF op[t].wasEn THEN {op[t].slug} ELSE {})
                  ELSE enabled
    /\ Goto(t, IF stage[t] = "inside" THEN "unlock" ELSE "idle")
    /\ UNCHANGED <<htpasswd, book, out, alone, lockVars>>

Release(t) ==
    /\ pc[t] = "unlock"
    /\ Unlock(t)
    /\ Goto(t, "unlink")
    /\ UNCHANGED <<disk, book, out, alone>>

\* The context manager ends; what was tested is reloaded, delete_proxy puts the
\* file of a failed delete back itself, every other failure returns.
UnlinkLock(t) ==
    /\ pc[t] = "unlink"
    /\ Unlink(t)
    /\ Goto(t, CASE out[t] = "running" -> "reload"
                  [] op[t].kind = "delete" /\ out[t] = "validation" -> "restoreDeleted"
                  [] OTHER -> "idle")
    /\ UNCHANGED <<disk, book, out, alone>>

\* delete_proxy copies its own backup back after a failed test.
RestoreDeleted(t) ==
    /\ pc[t] = "restoreDeleted"
    /\ Truncate(t)
    /\ UNCHANGED <<enabled, htpasswd, book, out, alone, lockVars>>

\* A reload that fails ends the handler; a rename rolls back first.
ReloadFailed(t) ==
    /\ Goto(t, IF op[t].kind = "rename" THEN "undoNew" ELSE "idle")
    /\ Result(t, "reload")
    /\ UNCHANGED nginx

\* NginxOps.reload: nginx -t once more ...
ReloadTest(t) ==
    /\ pc[t] = "reload"
    /\ IF TestOk THEN Goto(t, "signal") /\ UNCHANGED <<out, nginx>> ELSE ReloadFailed(t)
    /\ UNCHANGED <<disk, recorded, notes, alone, lockVars>>

Bookkept == {"create", "update", "rename", "delete", "revert", "revertToNone"}

\* After the reload a handler does its bookkeeping, or is done.
Reloaded(t) ==
    IF op[t].kind \in Bookkept THEN Goto(t, "record") /\ UNCHANGED out
    ELSE Goto(t, "idle") /\ Result(t, "ok")

\* Mutant: switching a site on or off, or re-rendering it, is not loaded.
SignalOnlySaves(t) ==
    /\ pc[t] = "signal"
    /\ \/ /\ TestOk
          /\ master' = IF op[t].kind \in Bookkept THEN "signalled" ELSE master
          /\ UNCHANGED live
          /\ Reloaded(t)
       \/ ReloadFailed(t)
    /\ UNCHANGED <<disk, recorded, notes, alone, lockVars>>

\* ... then nginx -s reload or systemctl, which reads the files again, may fail
\* for reasons of its own, and leaves the master process a signal.
ReloadSignal(t) ==
    /\ pc[t] = "signal"
    /\ \/ /\ TestOk
          /\ master' = "signalled"
          /\ UNCHANGED live
          /\ Reloaded(t)
       \/ ReloadFailed(t)
    /\ UNCHANGED <<disk, recorded, notes, alone, lockVars>>

\* nginx's master process gets to the signals it has: it loads the files as they
\* are now, or keeps what it has when they do not pass.  Nobody is told.
Load ==
    /\ master = "signalled"
    /\ IF TestOk THEN master' = "loaded" /\ live' = View
       ELSE master' = "refused" /\ UNCHANGED live
    /\ UNCHANGED <<disk, recorded, notes, pc, op, out, alone, lockVars>>

\* Mutant: the metadata of a renamed site stays under its old name.
RecordLeavesNotes(t) ==
    /\ pc[t] = "record"
    /\ notes' = IF op[t].kind = "delete" THEN notes \ {op[t].slug} ELSE notes \cup {op[t].slug}
    /\ recorded' = [recorded EXCEPT ![op[t].to] =
                       IF op[t].kind \in {"create", "update", "rename"} THEN avail[op[t].to] ELSE op[t].new]
    /\ Goto(t, "idle")
    /\ Result(t, "ok")
    /\ UNCHANGED <<disk, nginx, alone, lockVars>>

\* After the reload: the metadata file follows the site (the version rollback
\* leaves it), and a history row is committed.  A save records the file as it
\* reads now, a version rollback the text it wrote.
Record(t) ==
    /\ pc[t] = "record"
    /\ LET o == op[t] IN
       /\ notes' = CASE o.kind = "delete" -> notes \ {o.slug}
                     [] o.kind \in {"create", "update", "rename"} -> (notes \ {o.slug}) \cup {o.to}
                     [] OTHER -> notes
       /\ recorded' = [recorded EXCEPT ![o.to] =
                          IF o.kind \in {"create", "update", "rename"} THEN avail[o.to] ELSE o.new]
    /\ Goto(t, "idle")
    /\ Result(t, "ok")
    /\ UNCHANGED <<disk, nginx, alone, lockVars>>

\* Mutant: the lock is the file, so a crash leaves it taken.
CrashKeepsLock ==
    /\ \E t \in Threads : pc[t] # "idle"
    /\ pc' = [t \in Threads |-> "idle"]
    /\ out' = [t \in Threads |-> IF pc[t] = "idle" THEN out[t] ELSE "crashed"]
    /\ op' = [t \in Threads |-> Returned(op[t])]
    /\ fd' = [t \in Threads |-> NoInode]
    /\ stage' = [t \in Threads |-> "out"]
    /\ UNCHANGED <<disk, book, alone, lockFile, owner, target>>

\* The backend process dies: the threads are gone, nginx and the disk stay.
Crash ==
    /\ \E t \in Threads : pc[t] # "idle"
    /\ pc' = [t \in Threads |-> "idle"]
    /\ out' = [t \in Threads |-> IF pc[t] = "idle" THEN out[t] ELSE "crashed"]
    /\ IF \E t \in Threads : stage[t] # "out" THEN LockCrash ELSE UNCHANGED lockVars
    /\ op' = [t \in Threads |-> Returned(op[t])]
    /\ UNCHANGED <<disk, book, alone>>

Start ==
    \/ BeginCreate \/ BeginUpdate \/ BeginRename \/ BeginDelete \/ BeginSetEnabled
    \/ BeginRevert \/ BeginRevertToNone \/ BeginRewrite
    \/ \E t \in Jobs : BeginRegen(t)

Work(t) ==
    \/ Backup(t) \/ LockOpen(t) \/ LockAcquire(t)
    \/ SyncAuth(t) \/ WriteFile(t) \/ WriteRaises(t) \/ LinkSite(t) \/ DropOld(t)
    \/ Test(t) \/ Restore(t) \/ UndoNew(t) \/ UndoOld(t) \/ CopyBack(t)
    \/ Release(t) \/ UnlinkLock(t) \/ RestoreDeleted(t)
    \/ ReloadTest(t) \/ ReloadSignal(t) \/ Record(t)

Next == Start \/ Crash \/ Load \/ \E t \in Threads : Work(t)

Spec == Init /\ [][Next]_vars

\* A thread that is inside a handler keeps running: the calls it makes return,
\* and a flock that is free is granted.  Nobody has to start a handler.
FairSpec == Spec /\ \A t \in Threads : WF_vars(Work(t))

-----------------------------------------------------------------------------
(* Properties *)

\* Handlers whose failed validation is meant to leave the site as it was.
RestoresFiles == {"create", "update", "rename", "delete", "regen", "revert", "setEnabled"}

\* The text of op[t]'s sites is what it was when the handler began.
FilesAsBefore(t) ==
    /\ avail[op[t].slug] = op[t].saved
    /\ op[t].to # op[t].slug => avail[op[t].to] = NoFile

LinksAsBefore(t) ==
    /\ (op[t].slug \in enabled) = op[t].wasEn
    /\ op[t].to # op[t].slug => op[t].to \notin enabled

\* A handler that failed nginx -t, or could not render, and met no other thread
\* on its sites left their files exactly as it found them; a rename also when
\* the reload failed, and with its links (apply_change 378-382, update_proxy's
\* rollback, delete_proxy 427-429).
RollbackWhenUncontended == \A t \in Threads :
    (pc[t] = "idle" /\ alone[t] /\ op[t].kind \in RestoresFiles) =>
        /\ out[t] \in {"validation", "error"} => FilesAsBefore(t)
        /\ op[t].kind = "rename" /\ out[t] \in {"validation", "error", "reload"} =>
             FilesAsBefore(t) /\ LinksAsBefore(t)

\* A handler that reported success and met no other thread is what nginx serves
\* once it has loaded what it was signalled to: no success without a signal
\* after its files were final.  Until then, and after a load that was refused for
\* what another handler had on disk at that moment, nginx may serve an older
\* state of the site although the answer was success (nginx_ops.py:75-107).
CommittedIsLive == \A t \in Threads :
    (pc[t] = "idle" /\ out[t] = "ok" /\ alone[t] /\ op[t].kind # "rewrite") =>
        master # "loaded" \/ \A s \in Footprint(op[t]) : live[s] = View[s]

\* ... and its history row and metadata file agree with the disk.
BookkeepingMatchesDisk == \A t \in Threads :
    (pc[t] = "idle" /\ out[t] = "ok" /\ alone[t]) =>
        /\ op[t].kind \in Bookkept => recorded[op[t].to] = avail[op[t].to]
        /\ op[t].kind \in {"create", "update", "rename", "delete"} =>
             \A s \in Footprint(op[t]) : s \in notes <=> avail[s] # NoFile

\* Passwords follow the site: a save or a rename that keeps authentication has
\* the password file there was under the old or the new name at every step, so
\* neither a failed nginx -t nor a crash loses it; after one that ended well it
\* is under the site's name, and a rename leaves none under the old one.
PasswordsFollowSite == \A t \in Threads :
    (alone[t] /\ op[t].kind \in {"update", "rename"}) =>
        /\ pc[t] # "idle" /\ op[t].wasPw /\ op[t].new.auth => {op[t].slug, op[t].to} \cap htpasswd # {}
        /\ pc[t] = "idle" /\ out[t] = "ok" =>
             /\ op[t].wasPw /\ avail[op[t].to].auth => op[t].to \in htpasswd
             /\ op[t].to # op[t].slug => op[t].slug \notin htpasswd

\* Handlers that may not lose the site.
KeepsSite == {"update", "rename", "setEnabled", "regen", "revert", "rewrite"}

\* At every moment of a handler that found a whole text and was to write one, a
\* whole text is in sites-available under the old or the new name, so a crash
\* neither loses nor tears it -- but in the two moments where a restoration is
\* exposed: between the halves of a rename's rollback, and while the backup is
\* copied into the file in place (nginx_writer.py:153-156).
SiteSurvives == \A t \in Threads :
    (pc[t] \notin {"idle", "undoOld", "copy"} /\ alone[t] /\ op[t].kind \in KeepsSite
       /\ op[t].saved \in Contents /\ op[t].new \in Contents) =>
        \E s \in Footprint(op[t]) : avail[s] \in Contents

\* Every handler ends: no wait for a lock lasts for ever, whatever lock files a
\* crash left behind.
HandlersEnd == \A t \in Threads : pc[t] # "idle" ~> pc[t] = "idle"

-----------------------------------------------------------------------------
(* The store the handlers implement *)

\* The step of a handler from which on its change stays: the reload of a rename,
\* which undoes everything else, the write of the handlers that undo nothing,
\* nginx -t of the others.
Decided(t) ==
    CASE op[t].kind = "rename" -> pc[t] = "record"
      [] op[t].kind = "rewrite" -> pc[t] = "link"
      [] op[t].kind = "revertToNone" -> pc[t] \notin {"idle", "backup", "lock", "link", "drop"}
      [] OTHER -> out[t] = "running" /\ pc[t] \in {"unlock", "unlink", "reload", "signal", "record"}

\* Handlers whose sites are read as they were when the handler began.
Undecided == {t \in Threads : pc[t] # "idle" /\ alone[t] /\ ~Decided(t)}

Stored == [s \in Slugs |->
    IF \E t \in Undecided : s = op[t].slug
    THEN op[CHOOSE t \in Undecided : s = op[t].slug].saved
    ELSE IF \E t \in Undecided : s = op[t].to THEN NoFile
    ELSE avail[s]]

Phase == [t \in Threads |->
    IF pc[t] = "idle" THEN "idle" ELSE IF ~alone[t] THEN "shared"
    ELSE IF Decided(t) THEN "done" ELSE IF out[t] = "running" THEN "trying" ELSE "undoing"]

Task == [t \in Threads |->
    [from |-> op[t].slug, to |-> op[t].to, text |-> op[t].new, undone |-> op[t].kind # "revertToNone"]]

Reply == [t \in Threads |-> IF pc[t] = "idle" THEN out[t] ELSE "none"]

Store == INSTANCE SiteStore WITH
    store <- Stored, phase <- Phase, task <- Task, reply <- Reply

\* Seen from outside, a handler that meets no other one on its sites changes
\* their texts at one moment or not at all, as its answer says, and writes to
\* no other site; only a crash may leave one torn or a rename half done.
ChangesAreAtomic == Store!Spec

=============================================================================
