------------------------------ MODULE SiteStore ------------------------------
(***************************************************************************)
(* What the backend promises of the texts in sites-available: each handler *)
(* changes the text of its sites at one moment or not at all, and the      *)
(* answer it gives says which.  Two things end the promise.  A handler     *)
(* that meets another one on its sites may write anything to them, but to  *)
(* no other site; and a crash may leave a rename half done, each of its    *)
(* two names as it was before or as it was to be, or the text a handler    *)
(* was taking back torn.                                                   *)
(*                                                                         *)
(* SiteConfig is the detailed specification: files, links, locks, tests,   *)
(* restorations and reloads.                                               *)
(***************************************************************************)
CONSTANTS
    Threads,    \* threads that run handlers
    Slugs,      \* names of sites
    Texts,      \* what the file of a site may read
    Torn,       \* those of them that a copy leaves before it is done
    NoFile      \* "the file does not exist"

VARIABLES
    store,      \* slug -> text, or NoFile
    phase,      \* per thread: no handler; trying; undoing what it tried; its
                \* change is done; or it has met another handler on its sites
    task,       \* per thread: the text to store under which name, from which one
    reply       \* per thread: the latest answer

storeVars == <<store, phase, task, reply>>

Held == Texts \cup {NoFile}

\* undone: a failed nginx -t takes the change back.
Tasks == [from : Slugs, to : Slugs, text : Held, undone : BOOLEAN]

Sites(k) == {k.from, k.to}

\* What task k makes of its site s; a text of NoFile removes it.
After(k, s) == IF s = k.to THEN k.text ELSE NoFile

Init ==
    /\ store \in [Slugs -> Held]
    /\ phase = [t \in Threads |-> "idle"]
    /\ task \in [Threads -> {k \in Tasks : k.text = NoFile}]
    /\ reply = [t \in Threads |-> "none"]

\* Handlers whose change is not made, although they may have begun on it.
Unmade == {u \in Threads : phase[u] \in {"trying", "undoing"}}

\* Each site is as it was, or as one of these handlers was going to leave it, or
\* torn by one that was putting the text back.
MayTear(handlers) ==
    \A s \in Slugs :
        \/ store'[s] = store[s]
        \/ \E u \in handlers : s \in Sites(task[u]) /\ store'[s] = After(task[u], s)
        \/ \E u \in handlers : s = task[u].from /\ phase[u] = "undoing" /\ store'[s] \in Torn

\* Handlers that run on a site of task k.
Met(k) == {u \in Threads : phase[u] # "idle" /\ Sites(task[u]) \cap Sites(k) # {}}

Begin(t, k) ==
    /\ phase[t] = "idle"
    /\ task' = [task EXCEPT ![t] = k]
    /\ phase' = [u \in Threads |->
          IF u = t THEN IF Met(k) = {} THEN "trying" ELSE "shared"
          ELSE IF u \in Met(k) THEN "shared" ELSE phase[u]]
    /\ reply' = [reply EXCEPT ![t] = "none"]
    /\ MayTear(Met(k) \cap Unmade)

\* The change is made, of both names of a rename at once.
Commit(t) ==
    /\ phase[t] = "trying"
    /\ phase' = [phase EXCEPT ![t] = "done"]
    /\ store' = [s \in Slugs |-> IF s \in Sites(task[t]) THEN After(task[t], s) ELSE store[s]]
    /\ UNCHANGED <<task, reply>>

\* The change failed; from now on it will not be made.
Undo(t) ==
    /\ phase[t] = "trying"
    /\ phase' = [phase EXCEPT ![t] = "undoing"]
    /\ UNCHANGED <<store, task, reply>>

Answer(t, r) ==
    /\ phase' = [phase EXCEPT ![t] = "idle"]
    /\ task' = [task EXCEPT ![t].text = NoFile]
    /\ reply' = [reply EXCEPT ![t] = r]

\* The handler failed and has changed nothing; a failed reload alone takes no
\* change back, but for a rename's.
GiveUp(t) ==
    /\ phase[t] \in {"trying", "undoing"}
    /\ \/ \E r \in {"validation", "error"} : Answer(t, r)
       \/ task[t].from # task[t].to /\ Answer(t, "reload")
    /\ UNCHANGED store

\* The handler has made its change and says so, or says what failed after it.
Finish(t) ==
    /\ phase[t] = "done"
    /\ \/ Answer(t, "ok")
       \/ task[t].from = task[t].to /\ Answer(t, "reload")
       \/ ~task[t].undone /\ Answer(t, "validation")
    /\ UNCHANGED store

Replies == {"ok", "validation", "reload", "error"}

\* A handler that met another one: its own sites only.
Clash(t) ==
    /\ phase[t] = "shared"
    /\ \A s \in Slugs \ Sites(task[t]) : store'[s] = store[s]
    /\ UNCHANGED <<phase, task, reply>> \/ \E r \in Replies : Answer(t, r)

Crash ==
    /\ phase' = [t \in Threads |-> "idle"]
    /\ task' = [t \in Threads |-> [task[t] EXCEPT !.text = NoFile]]
    /\ reply' = [t \in Threads |-> IF phase[t] = "idle" THEN reply[t] ELSE "crashed"]
    /\ MayTear(Unmade)

Next ==
    /\ store' \in [Slugs -> Held]
    /\ \/ Crash
       \/ \E t \in Threads :
            \/ \E k \in Tasks : Begin(t, k)
            \/ Commit(t) \/ Undo(t) \/ GiveUp(t) \/ Finish(t) \/ Clash(t)

Spec == Init /\ [][Next]_storeVars
=============================================================================
