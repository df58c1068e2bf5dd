------------------------------- MODULE Runner -------------------------------
(***************************************************************************)
(* What the owner's commands do to the runner's two singletons: the one    *)
(* signing key of a controller store, in a file or in the login keychain,  *)
(* and the one socket it is asked at (runner.py, runner_cli.py,            *)
(* keychain.py).  `tac runner init`, `keychain import` and `serve` run in  *)
(* any number, are killed at any step, and the keychain may fail, with or  *)
(* without having done what it was asked.                                  *)
(***************************************************************************)
EXTENDS Naturals, FiniteSets

CONSTANTS
  Procs, Keys,
  NoProc, NoKey,
  Dead,         \* the socket of a process that is gone
  MaxCommands

VARIABLES
  file,      \* signing-key.pem: none, torn or whole; its key; who is writing it
  chain,     \* the keychain's item
  lock,      \* who holds runner.lock
  sock,      \* whose socket runner.sock is
  at, key,   \* per process: the step of its command, and the key it holds
  made,      \* keys generated
  handed,    \* keys an init printed, or a server signs with
  commands,
  mixed      \* history: an init and an import have overlapped

vars == <<file, chain, lock, sock, at, key, made, handed, commands, mixed>>

NoPem == [is |-> "none", key |-> NoKey, by |-> NoProc]
Torn(p) == [is |-> "torn", key |-> NoKey, by |-> p]
Whole(k) == [is |-> "whole", key |-> k, by |-> NoProc]

Initing == {"init", "create", "write", "readBack"}
Importing == {"import", "take", "takeChain", "put", "check", "token", "drop"}
Serving == {"serve", "loadFile", "lock", "unlink", "bind", "serving", "closing", "closed"}

TypeOK ==
  /\ file \in [is : {"none", "torn", "whole"}, key : Keys \cup {NoKey},
               by : Procs \cup {NoProc}]
  /\ chain \in Keys \cup {NoKey}
  /\ lock \in Procs \cup {NoProc} /\ sock \in Procs \cup {NoProc, Dead}
  /\ at \in [Procs -> {"off"} \cup Initing \cup Importing \cup Serving]
  /\ key \in [Procs -> Keys \cup {NoKey}]
  /\ made \subseteq Keys /\ handed \subseteq Keys
  /\ commands \in Nat /\ mixed \in BOOLEAN

Init ==
  /\ file = NoPem /\ chain = NoKey
  /\ lock = NoProc /\ sock = NoProc
  /\ at = [p \in Procs |-> "off"] /\ key = [p \in Procs |-> NoKey]
  /\ made = {} /\ handed = {} /\ commands = 0 /\ mixed = FALSE

socket == <<lock, sock>>
counts == <<commands, mixed>>

Step(p, from, to) == at[p] = from /\ at' = [at EXCEPT ![p] = to]
Take(p, k) == key' = [key EXCEPT ![p] = k]

Start(p, cmd) ==
  /\ Step(p, "off", cmd) /\ Take(p, NoKey)
  /\ commands < MaxCommands /\ commands' = commands + 1
  /\ mixed' = (mixed \/ \E q \in Procs \ {p} :
                 \/ cmd = "init" /\ at[q] \in Importing
                 \/ cmd = "import" /\ at[q] \in Initing)
  /\ UNCHANGED <<file, chain, socket, made, handed>>

\* A command is refused: the keychain, the token or the file is not to be had.
Refused(p, from) == Step(p, from, "off") /\ UNCHANGED <<key, handed>>

-----------------------------------------------------------------------------
(* tac runner init: create_key *)

\* keychain_key: an existing key is returned.
LookFirst(p) ==
  /\ \/ Refused(p, "init")
     \/ chain # NoKey /\ Step(p, "init", "off") /\ handed' = handed \cup {chain} /\ UNCHANGED key
     \/ chain = NoKey /\ Step(p, "init", "create") /\ UNCHANGED <<key, handed>>
  /\ UNCHANGED <<file, chain, socket, made, counts>>

\* O_EXCL: one of two makes the file; the key is generated before.
Create(p) ==
  /\ \E k \in Keys \ made : made' = made \cup {k} /\ Take(p, k)
  /\ IF file = NoPem THEN Step(p, "create", "write") /\ file' = Torn(p)
                      ELSE Step(p, "create", "readBack") /\ UNCHANGED file
  /\ UNCHANGED <<chain, socket, handed, counts>>

\* The pem goes into the file it opened, whether or not that is still there.
WriteKey(p) ==
  /\ Step(p, "write", "off") /\ handed' = handed \cup {key[p]}
  /\ file' = IF file = Torn(p) THEN Whole(key[p]) ELSE file
  /\ UNCHANGED <<chain, socket, key, made, counts>>

\* file_key
ReadBack(p) ==
  /\ \/ Refused(p, "readBack")
     \/ /\ file.is = "whole" /\ Step(p, "readBack", "off")
        /\ handed' = handed \cup {file.key} /\ UNCHANGED key
  /\ UNCHANGED <<file, chain, socket, made, counts>>

-----------------------------------------------------------------------------
(* tac runner keychain import *)

LookForFile(p) ==
  /\ Step(p, "import", IF file # NoPem THEN "take" ELSE "takeChain")
  /\ UNCHANGED <<file, chain, socket, key, made, handed, counts>>

TakeFile(p) ==
  /\ \/ Refused(p, "take")
     \/ file.is = "whole" /\ Step(p, "take", "put") /\ Take(p, file.key) /\ UNCHANGED handed
  /\ UNCHANGED <<file, chain, socket, made, counts>>

TakeChain(p) ==
  /\ \/ Refused(p, "takeChain")
     \/ chain # NoKey /\ Step(p, "takeChain", "put") /\ Take(p, chain) /\ UNCHANGED handed
  /\ UNCHANGED <<file, chain, socket, made, counts>>

\* Keychain.write: whatever `security` says, the item is written or is not.
Put(p) ==
  /\ Step(p, "put", "check") \/ Step(p, "put", "off")
  /\ chain' \in {chain, key[p]}
  /\ UNCHANGED <<file, socket, key, made, handed, counts>>

\* Mutant: what security says is believed.
IsThereAlways(p) == TRUE
\* The item is read back.
IsThere(p) == chain = key[p]

Check(p) ==
  /\ \/ Refused(p, "check")
     \/ IsThere(p) /\ Step(p, "check", "token") /\ UNCHANGED <<key, handed>>
  /\ UNCHANGED <<file, chain, socket, made, counts>>

\* The tac-bot token, stored and read back as well.
StoreToken(p) ==
  /\ \/ Refused(p, "token")
     \/ Step(p, "token", "drop") /\ UNCHANGED <<key, handed>>
  /\ UNCHANGED <<file, chain, socket, made, counts>>

DropFile(p) ==
  /\ Step(p, "drop", "off") /\ file' = NoPem
  /\ UNCHANGED <<chain, socket, key, made, handed, counts>>

-----------------------------------------------------------------------------
(* tac runner serve *)

\* load_key: the keychain's first, else the file's.
LoadChain(p) ==
  /\ \/ Refused(p, "serve")
     \/ chain # NoKey /\ Step(p, "serve", "lock") /\ Take(p, chain) /\ UNCHANGED handed
     \/ chain = NoKey /\ Step(p, "serve", "loadFile") /\ UNCHANGED <<key, handed>>
  /\ UNCHANGED <<file, chain, socket, made, counts>>
LoadFile(p) ==
  /\ \/ Refused(p, "loadFile")
     \/ file.is = "whole" /\ Step(p, "loadFile", "lock") /\ Take(p, file.key) /\ UNCHANGED handed
  /\ UNCHANGED <<file, chain, socket, made, counts>>

Store == <<file, chain, key, made, counts>>

\* bind: LOCK_NB, then the path is cleared and bound.
Lock(p) ==
  /\ IF lock = NoProc THEN Step(p, "lock", "unlink") /\ lock' = p
                      ELSE Step(p, "lock", "off") /\ UNCHANGED lock
  /\ UNCHANGED <<Store, sock, handed>>
Unlink(p) ==
  Step(p, "unlink", "bind") /\ sock' = NoProc /\ UNCHANGED <<Store, lock, handed>>
Bind(p) ==
  /\ \/ /\ sock = NoProc /\ Step(p, "bind", "serving") /\ sock' = p
        /\ handed' = handed \cup {key[p]} /\ UNCHANGED lock
     \/ Step(p, "bind", "off") /\ lock' = NoProc /\ UNCHANGED <<sock, handed>>
  /\ UNCHANGED Store

Stop(p) == Step(p, "serving", "closing") /\ UNCHANGED <<Store, socket, handed>>

\* Mutant: the lock is let go before the path is removed.
CloseLockFirst(p) ==
  \/ Step(p, "closing", "closed") /\ lock' = NoProc /\ UNCHANGED sock
  \/ Step(p, "closed", "off") /\ sock' = NoProc /\ UNCHANGED lock
\* server_close: the path is removed, then the lock let go.
Close(p) ==
  \/ Step(p, "closing", "closed") /\ sock' = NoProc /\ UNCHANGED lock
  \/ Step(p, "closed", "off") /\ lock' = NoProc /\ UNCHANGED sock

Closes(p) == Close(p) /\ UNCHANGED <<Store, handed>>

\* The kernel closes what it had open; its files stay as they are.
Kill(p) ==
  /\ at[p] # "off" /\ at' = [at EXCEPT ![p] = "off"]
  /\ lock' = IF lock = p THEN NoProc ELSE lock
  /\ sock' = IF sock = p THEN Dead ELSE sock
  /\ UNCHANGED <<Store, handed>>

Next == \E p \in Procs :
  \/ Start(p, "init") \/ LookFirst(p) \/ Create(p) \/ WriteKey(p) \/ ReadBack(p)
  \/ Start(p, "import") \/ LookForFile(p) \/ TakeFile(p) \/ TakeChain(p) \/ Put(p)
  \/ Check(p) \/ StoreToken(p) \/ DropFile(p)
  \/ Start(p, "serve") \/ LoadChain(p) \/ LoadFile(p) \/ Lock(p) \/ Unlink(p) \/ Bind(p)
  \/ Stop(p) \/ Closes(p) \/ Kill(p)

Spec == Init /\ [][Next]_vars

-----------------------------------------------------------------------------
\* runner.py, create_key: "an existing key is never replaced".  Over any number of
\* commands, kills and failures of the keychain, every key that was printed to be
\* trusted or that signed is the same one, and it is still in the keychain or in a
\* whole file.  Only where an init and an import overlap can it be otherwise.
OneKey ==
  ~mixed => \A k \in handed :
    handed = {k} /\ (chain = k \/ file = Whole(k))

\* runner.py, bind and server_close: the runner that serves is the one the path
\* leads to, whoever starts, closes or is killed around it.
SocketIsTheServers ==
  \A p \in Procs : at[p] = "serving" => sock = p
=============================================================================
