-------------------------------- MODULE Sync --------------------------------
(***************************************************************************)
(* `tac sync` renders the harnesses' files from the tree and records them  *)
(* in generated.lock; `tac check` says what differs from a fresh render    *)
(* (sync.py).  Inputs are read once for the render and once more for the   *)
(* lock's hashes, files are written in place one by one, the lock last, and *)
(* nothing keeps an editor or a merge away meanwhile.  What a template     *)
(* renders to is data: a file's text is named by the tree it was rendered   *)
(* from.                                                                   *)
(***************************************************************************)
EXTENDS Naturals, FiniteSets, Functions

CONSTANTS
  Paths,      \* ALLOWED, per role
  Owned,      \* those below OWNED_DIRS
  Trees,      \* states of .agents/, the templates, the policy, the guard
  Rendered,   \* per tree: the paths its plan renders (enforced harnesses, roles)
  Absent, Foreign,        \* no file; a text no render gives
  Missing, Unreadable,    \* no lock; one with conflict markers, or cut short
  MaxEdits, MaxKills

SyncAssumption ==
  /\ Owned \subseteq Paths
  /\ Rendered \in [Trees -> SUBSET Paths]
  /\ {Absent, Foreign} \cap Trees = {}
  /\ {MaxEdits, MaxKills} \subseteq Nat

VARIABLES
  tree, disk, lock,
  run,        \* the sync under way: what it rendered, what is left to do
  edits, kills,
  stray,      \* history: files put there by hand, or whose lock line was lost
  quiet       \* history: nothing but the sync wrote since it began

vars == <<tree, disk, lock, run, edits, kills, stray, quiet>>

Texts == Trees \cup {Foreign}
Locks == [inputs : Trees, outputs : UNION {[s -> Texts] : s \in SUBSET Paths}]
Readable(l) == l \notin {Missing, Unreadable}

LockAssumption == {Missing, Unreadable} \cap Locks = {}

\* lock_data, of outputs rendered from one state of the inputs and hashes of another
LockOf(rendered, hashed) ==
  [inputs |-> hashed, outputs |-> [p \in Rendered[rendered] |-> rendered]]

\* locked_outputs: a lock that cannot be read lists nothing.
Listed(l) == IF Readable(l) THEN DOMAIN l.outputs ELSE {}

Idle == [pc |-> "off", rendered |-> Absent, hashed |-> Absent, todo |-> {}, removes |-> {}]

TypeOK ==
  /\ tree \in Trees /\ disk \in [Paths -> Texts \cup {Absent}]
  /\ lock \in Locks \cup {Missing, Unreadable}
  /\ run \in [pc : {"off", "hash", "list", "remove", "write"},
             rendered : Trees \cup {Absent}, hashed : Trees \cup {Absent},
             todo : SUBSET Paths, removes : SUBSET Paths]
  /\ run.pc # "off" => run.rendered \in Trees
  /\ run.pc \in {"list", "remove", "write"} => run.hashed \in Trees
  /\ edits \in 0..MaxEdits /\ kills \in 0..MaxKills
  /\ stray \subseteq Paths /\ quiet \in BOOLEAN

\* A checkout as its last sync left it.
Init ==
  /\ tree \in Trees
  /\ disk = [p \in Paths |-> IF p \in Rendered[tree] THEN tree ELSE Absent]
  /\ lock = LockOf(tree, tree)
  /\ run = Idle
  /\ edits = 0 /\ kills = 0 /\ stray = {} /\ quiet = FALSE

(***************************************************************************)
(* tac sync                                                                *)
(***************************************************************************)
Others == <<edits, kills>>

\* load_config and every template, in memory.
Render ==
  /\ run.pc = "off"
  /\ run' = [Idle EXCEPT !.pc = "hash", !.rendered = tree]
  /\ quiet' = TRUE
  /\ UNCHANGED <<tree, disk, lock, stray, Others>>

Hash ==
  /\ run.pc = "hash"
  /\ run' = [run EXCEPT !.pc = "list", !.hashed = tree]
  /\ UNCHANGED <<tree, disk, lock, stray, quiet, Others>>

ListOld ==
  /\ run.pc = "list"
  /\ run' = [run EXCEPT !.pc = "remove", !.todo = Rendered[run.rendered],
                        !.removes = Listed(lock) \ Rendered[run.rendered]]
  /\ UNCHANGED <<tree, disk, lock, stray, quiet, Others>>

Remove(p) ==
  /\ run.pc = "remove" /\ p \in run.removes
  /\ disk' = [disk EXCEPT ![p] = Absent]
  /\ run' = [run EXCEPT !.removes = @ \ {p}]
  /\ stray' = stray \ {p}
  /\ UNCHANGED <<tree, lock, quiet, Others>>

\* Mutant: a file whose lock line already is the render's is taken as written.
WriteByLock(p) ==
  /\ run.pc \in {"remove", "write"} /\ run.removes = {} /\ p \in run.todo
  /\ disk' = [disk EXCEPT ![p] =
       IF p \in Listed(lock) /\ lock.outputs[p] = run.rendered THEN @ ELSE run.rendered]
  /\ run' = [run EXCEPT !.pc = "write", !.todo = @ \ {p}]
  /\ UNCHANGED <<tree, lock, stray, quiet, Others>>

\* _write: the text, unless the file holds it.
Write(p) ==
  /\ run.pc \in {"remove", "write"} /\ run.removes = {} /\ p \in run.todo
  /\ disk' = [disk EXCEPT ![p] = run.rendered]
  /\ run' = [run EXCEPT !.pc = "write", !.todo = @ \ {p}]
  /\ UNCHANGED <<tree, lock, stray, quiet, Others>>

\* Mutant: the lock is written first, the files after it.
WriteLockEarly ==
  /\ \/ run.pc = "remove" /\ lock # LockOf(run.rendered, run.hashed)
     \/ run.pc = "write" /\ run.todo = {}
  /\ lock' = LockOf(run.rendered, run.hashed)
  /\ run' = IF run.removes = {} /\ run.todo = {} THEN Idle ELSE run
  /\ UNCHANGED <<tree, disk, stray, quiet, Others>>

\* The lock comes last, and sync is done.
WriteLock ==
  /\ run.pc \in {"remove", "write"} /\ run.removes = {} /\ run.todo = {}
  /\ lock' = LockOf(run.rendered, run.hashed)
  /\ run' = Idle
  /\ stray' = stray \ Rendered[run.rendered]
  /\ UNCHANGED <<tree, disk, quiet, Others>>

\* A file this sync wrote that no lock lists is one no later sync removes.
Unlisted(p) == p \in Rendered[run.rendered] \ run.todo /\ p \notin Listed(lock)

\* Killed between two writes, or in the middle of one.
Kill ==
  /\ run.pc # "off" /\ kills < MaxKills
  /\ kills' = kills + 1 /\ run' = Idle
  /\ LET torn == IF run.pc \in {"remove", "write"} /\ run.removes = {} THEN run.todo ELSE {} IN
     \/ /\ UNCHANGED <<disk, lock>>
        /\ stray' = stray \cup {p \in Paths : run.pc = "write" /\ Unlisted(p)}
     \/ \E p \in torn :
          /\ disk' = [disk EXCEPT ![p] = Foreign] /\ UNCHANGED lock
          /\ stray' = stray \cup
               {q \in Paths : Unlisted(q) \/ (q = p /\ q \notin Listed(lock))}
     \/ /\ run.pc # "hash" /\ run.pc # "list" /\ run.removes = {} /\ run.todo = {}
        /\ lock' = Unreadable /\ UNCHANGED disk
        /\ stray' = stray \cup Listed(lock) \cup Rendered[run.rendered]
  /\ UNCHANGED <<tree, edits, quiet>>

(***************************************************************************)
(* tac check                                                               *)
(***************************************************************************)
\* Files no template renders, where every file is generated.
Unexpected == {p \in Owned : disk[p] # Absent /\ p \notin Rendered[tree]}

\* check_tree finds nothing: the sections it recomputes, each output byte for byte
\* against the render, the folders that are generated whole, what is listed
\* still, and then the lock's own text.
Clean ==
  /\ Readable(lock)
  /\ lock.inputs = tree
  /\ \A p \in Rendered[tree] : disk[p] = tree
  /\ Unexpected = {}
  /\ \A p \in Listed(lock) \ Rendered[tree] : disk[p] = Absent
  /\ lock = LockOf(tree, tree)

(***************************************************************************)
(* Editors, merges and agents                                              *)
(***************************************************************************)
Edit == edits < MaxEdits /\ edits' = edits + 1 /\ quiet' = FALSE

EditInputs(t) ==
  /\ Edit /\ tree' = t /\ t # tree
  /\ UNCHANGED <<disk, lock, run, kills, stray>>

\* A generated file edited, removed, or put where there was none.
EditOutput(p, text) ==
  /\ Edit /\ disk[p] # text
  /\ disk' = [disk EXCEPT ![p] = text]
  /\ stray' = IF text = Absent THEN stray ELSE stray \cup {p}
  /\ UNCHANGED <<tree, lock, run, kills>>

\* A merge conflict in the lock, a lock that was deleted, or one line of it
\* rewritten to what the file holds, or taken out.
EditLock ==
  /\ Edit
  /\ \/ lock' \in {Missing, Unreadable} \ {lock}
        /\ stray' = stray \cup {p \in Listed(lock) : disk[p] # Absent}
     \/ \E p \in Listed(lock) :
          /\ lock.outputs[p] # disk[p] /\ disk[p] # Absent
          /\ lock' = [lock EXCEPT !.outputs[p] = disk[p]] /\ UNCHANGED stray
     \/ \E p \in Listed(lock) :
          /\ lock' = [lock EXCEPT !.outputs = Restrict(@, Listed(lock) \ {p})]
          /\ stray' = stray \cup {p}
  /\ UNCHANGED <<tree, disk, run, kills>>

Sync ==
  \/ Render \/ Hash \/ ListOld \/ WriteLock
  \/ \E p \in Paths : Remove(p) \/ Write(p)

Next ==
  \/ Sync \/ Kill
  \/ \E t \in Trees : EditInputs(t)
  \/ \E p \in Paths, text \in {Absent, Foreign} : EditOutput(p, text)
  \/ EditLock

Spec == Init /\ [][Next]_vars

(***************************************************************************)
(* Properties                                                              *)
(***************************************************************************)
\* Between syncs, a tree that `tac check` passes holds what a sync of it would
\* write and no other generated file, whatever was edited, merged or killed
\* before; but for one put there by hand or whose lock line was lost, outside
\* the folders that are generated whole.
CleanIsRendered ==
  run = Idle /\ Clean => \A p \in Paths :
    IF p \in Rendered[tree] THEN disk[p] = tree
    ELSE disk[p] # Absent => p \in stray \ Owned

\* A sync nobody wrote beside leaves what check passes, whatever it found: edited
\* files, a lost, forged or conflicted lock, what a killed sync left.  A file
\* that no lock lists it leaves to check to name.
SyncRepairs ==
  [][WriteLock /\ quiet => Clean' \/ Unexpected' \cap stray # {}]_vars
=============================================================================
