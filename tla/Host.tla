-------------------------------- MODULE Host --------------------------------
(***************************************************************************)
(* What a host has one of, composed: the seats of Leases, the checkout     *)
(* that Gates judges, the key and the socket of Runner, the settings on    *)
(* GitHub, the checkout that Proof proves things of, the tree that Sync    *)
(* renders.  They share no state, so a behaviour is one of one of the six  *)
(* (part), the others at rest.                                             *)
(***************************************************************************)
EXTENDS Leases, Sequences

CONSTANTS
  Askers,                              \* who gates, and who proves
  Trees, NoTree, Passes, MaxChanges,   \* Gates
  Commands, Keys, NoKey, Dead, MaxCommands,              \* Runner
  Ids, NoRuleset, Branches, MaxEdits, MaxRuns,           \* GitHub
  Revisions, NoRevision,               \* Proof
  Claimed, Maps, Answers, Sound,       \* its Claims, Entries, Says and Ledger
  MaxShifts, MaxProofs,
  Paths, Owned, Rendered, Absent, Foreign, Missing, Unreadable,   \* Sync
  Sources,                             \* its Trees
  MaxTouches, MaxKills

VARIABLES
  part,
  tree, head, gate, orphans, receipts, changed,
  keyFile, chain, serveLock, sock, at, key, made, handed, commands, mixed,
  rulesets, default, call, edits, runs, gateHeld, gateFailed,
  work, commit, prove, junit, proved, shifts, begun,
  source, disk, generated, run, touches, kills, stray, quiet

G == INSTANCE Gates
R == INSTANCE Runner WITH
  Procs <- Commands, file <- keyFile, lock <- serveLock
S == INSTANCE GitHub
P == INSTANCE Proof WITH
  Provers <- Askers, Trees <- Revisions, NoTree <- NoRevision, Claims <- Claimed,
  Entries <- Maps, Says <- Answers, Ledger <- Sound, head <- commit
Y == INSTANCE Sync WITH
  Trees <- Sources, MaxEdits <- MaxTouches,
  tree <- source, lock <- generated, edits <- touches

ASSUME RenderAssumption == Y!SyncAssumption /\ Y!LockAssumption

checkout == <<tree, head, gate, orphans, receipts, changed>>
runner == <<keyFile, chain, serveLock, sock, at, key, made, handed, commands, mixed>>
settings == <<rulesets, default, call, edits, runs, gateHeld, gateFailed>>
proofs == <<work, commit, prove, junit, proved, shifts, begun>>
rendering == <<source, disk, generated, run, touches, kills, stray, quiet>>
allVars == <<vars, checkout, runner, settings, proofs, rendering, part>>

HostInit ==
  /\ part \in {"seats", "gates", "runner", "github", "proof", "sync"}
  /\ Init /\ G!Init /\ R!Init /\ S!Init /\ P!Init /\ Y!Init
  /\ part # "gates" => tree = CHOOSE t \in Trees : TRUE
  /\ part # "proof"  => work = CHOOSE r \in Revisions : TRUE
  /\ part # "sync"   => source = CHOOSE s \in Sources : TRUE
  /\ part # "github" => S!There = {} /\ default = CHOOSE b \in Branches : TRUE

Seats     == part = "seats"  /\ Next   /\ UNCHANGED <<checkout, runner, settings, proofs, rendering, part>>
Judging   == part = "gates"  /\ G!Next /\ UNCHANGED <<vars, runner, settings, proofs, rendering, part>>
KeyAndSocket == part = "runner" /\ R!Next /\ UNCHANGED <<vars, checkout, settings, proofs, rendering, part>>
Settings  == part = "github" /\ S!Next /\ UNCHANGED <<vars, checkout, runner, proofs, rendering, part>>
Proving   == part = "proof"  /\ P!Next /\ UNCHANGED <<vars, checkout, runner, settings, rendering, part>>
Syncing   == part = "sync"   /\ Y!Next /\ UNCHANGED <<vars, checkout, runner, settings, proofs, part>>
HostNext == Seats \/ Judging \/ KeyAndSocket \/ Settings \/ Proving \/ Syncing
HostSpec == HostInit /\ [][HostNext]_allVars

\* Gates: a receipt says of its revision what the recipe answered on it, unless the
\* checkout went there and back.
ReceiptIsOfItsRevision == G!ReceiptIsOfItsRevision
\* Runner: one key for ever, unless an init and an import overlap.
OneKey == R!OneKey
\* Runner: the socket is the serving runner's.
SocketIsTheServers == R!SocketIsTheServers
\* GitHub: what a report says of the rulesets was true while they were read, unless
\* more than one setting changed meanwhile.
ReportIsTrue == S!ReportIsTrue
\* Proof: a proof that succeeds was given by the revision it names, unless the checkout
\* changed or another proof of its kind overlapped.
ProofIsOfItsRevision == P!ProofIsOfItsRevision
\* Sync: a tree that check passes is what a sync of it would write, and holds no other
\* generated file but for those named in Sync.
CleanIsRendered == Y!CleanIsRendered
\* Sync: a sync nobody wrote beside leaves what check passes, whatever it found.
SyncRepairs == Y!SyncRepairs
=============================================================================
