------------------------------ MODULE Dispatch ------------------------------
(***************************************************************************)
(* How an agent comes to start another one.  A run loop (run.py, dispatch) *)
(* issues a single-use token for a stage and starts a session; when the    *)
(* session calls a spawn tool its client asks the guard (hook.py), which   *)
(* reads the token from the session's dispatch record and has the runner's *)
(* server spend it (runner.py, consume_token).  Each hook event is a       *)
(* process of its own, the server answers each request in a thread, and    *)
(* the records lie in the worker store, where every session can write.     *)
(* A token stands for its hash; a digest for the sha256 of the prompt or   *)
(* of the Workflow script; a stage for a run and a stage of it.            *)
(***************************************************************************)
EXTENDS Naturals, Sequences, FiniteSets

CONSTANTS
  Loops,      \* `tac run` processes
  Stages,     \* agent stages of the runs
  Sessions,   \* session ids
  Chats,      \* sessions the owner started: no run loop dispatched them
  Tokens, Calls, Prompts,
  Scripts,    \* [Stages -> Seq(digests)]: the workflows of a stage
  Allows,     \* [Sessions -> SUBSET Tools]: the spawn tools the profile, the
              \* charter and models.toml leave to the session's role
  NoStage, NoSession, NoToken, NoRecord, NoBinding,
  MaxEdits    \* bound on records written by a session instead of the loop

Tools == {"agent", "workflow"}
Listed(st) == {Scripts[st][i] : i \in 1..Len(Scripts[st])}
Digests == Prompts \cup UNION {Listed(st) : st \in Stages}
Bindings == [stage : Stages, digest : Digests, tool : Tools, session : Sessions]
Records == [stage : Stages, token : Tokens]

ASSUME DispatchAssumption ==
  /\ Chats \subseteq Sessions
  /\ \A st \in Stages : Scripts[st] \in Seq(Listed(st))
  /\ Allows \in [Sessions -> SUBSET Tools]
  /\ NoStage \notin Stages /\ NoSession \notin Sessions /\ NoToken \notin Tokens
  /\ NoRecord \notin Records /\ NoBinding \notin Bindings
  /\ MaxEdits \in Nat

VARIABLES
  place,    \* per token: where its file is, tokens/ ("live") or tokens/used
  bound,    \* per token: what its file says it was issued for
  spent,    \* per token: tokens/used/<hash>.spent.json
  marker,   \* controller store: the stage a session was dispatched for
  record,   \* worker store: the dispatch record of a session
  running,  \* sessions the loops started that still run
  journal,  \* journal/workflows.jsonl: the allowed Workflow calls
  loop,     \* per run loop: its step and the dispatch it is at
  call,     \* per spawn call: the step of its guard and what it knows
  req,      \* per spawn call: its request at the runner's server
  edits

vars == <<place, bound, spent, marker, record, running, journal, loop, call,
          req, edits>>
store == <<place, bound, spent, marker>>

IdleLoop == [pc |-> "idle", stage |-> NoStage, session |-> NoSession,
             token |-> NoToken]
NoCall == [pc |-> "none", session |-> NoSession, tool |-> "agent",
           digest |-> NoBinding, stage |-> NoStage, token |-> NoToken]

TypeOK ==
  /\ place \in [Tokens -> {"none", "live", "used"}]
  /\ bound \in [Tokens -> Bindings \cup {NoBinding}]
  /\ spent \in [Tokens -> {"none", "allowed", "burned"}]
  /\ marker \in [Sessions -> Stages \cup {NoStage}]
  /\ record \in [Sessions -> Records \cup {NoRecord}]
  /\ running \subseteq Sessions
  /\ journal \subseteq
       [session : Sessions, stage : Stages, digest : Digests, token : Tokens]
  /\ loop \in [Loops -> [pc : {"idle", "issued", "recorded", "marked", "waiting"},
                         stage : Stages \cup {NoStage},
                         session : Sessions \cup {NoSession},
                         token : Tokens \cup {NoToken}]]
  /\ call \in [Calls -> [pc : {"none", "look", "match", "read", "wait", "name",
                               "allowed", "refused"},
                         session : Sessions \cup {NoSession}, tool : Tools,
                         digest : Digests \cup {NoBinding},
                         stage : Stages \cup {NoStage},
                         token : Tokens \cup {NoToken}]]
  /\ req \in [Calls -> {"none", "sent", "renamed", "granted", "denied", "lost"}]
  /\ edits \in 0..MaxEdits

Init ==
  /\ place = [t \in Tokens |-> "none"]
  /\ bound = [t \in Tokens |-> NoBinding]
  /\ spent = [t \in Tokens |-> "none"]
  /\ marker = [s \in Sessions |-> NoStage]
  /\ record = [s \in Sessions |-> NoRecord]
  /\ running = {} /\ journal = {}
  /\ loop = [l \in Loops |-> IdleLoop]
  /\ call = [c \in Calls |-> NoCall]
  /\ req = [c \in Calls |-> "none"]
  /\ edits = 0

(***************************************************************************)
(* The run loop: token, record, marker, start.                             *)
(***************************************************************************)
Issued == {t \in Tokens : place[t] # "none"}
Fresh(s) == s \notin Chats /\ \A t \in Issued : bound[t].session # s

\* What the session's spawns will have to hash to: the stage's first workflow,
\* else the prompt rendered for it.
Authorised(st) == IF Scripts[st] # <<>> THEN {Scripts[st][1]} ELSE Prompts
ToolOf(st) == IF Scripts[st] # <<>> THEN "workflow" ELSE "agent"

Issue(l, st, s, t, d) ==
  /\ loop[l].pc = "idle" /\ Fresh(s) /\ place[t] = "none"
  /\ d \in Authorised(st)
  /\ place' = [place EXCEPT ![t] = "live"]
  /\ bound' = [bound EXCEPT ![t] = [stage |-> st, digest |-> d,
                                    tool |-> ToolOf(st), session |-> s]]
  /\ loop' = [loop EXCEPT ![l] = [pc |-> "issued", stage |-> st,
                                  session |-> s, token |-> t]]
  /\ UNCHANGED <<spent, marker, record, running, journal, call, req, edits>>

WriteRecord(l) ==
  /\ loop[l].pc = "issued"
  /\ record' = [record EXCEPT ![loop[l].session] =
                  [stage |-> loop[l].stage, token |-> loop[l].token]]
  /\ loop' = [loop EXCEPT ![l].pc = "recorded"]
  /\ UNCHANGED <<store, running, journal, call, req, edits>>

Mark(l) ==
  /\ loop[l].pc = "recorded"
  /\ marker' = [marker EXCEPT ![loop[l].session] = loop[l].stage]
  /\ loop' = [loop EXCEPT ![l].pc = "marked"]
  /\ UNCHANGED <<place, bound, spent, record, running, journal, call, req, edits>>

Start(l) ==
  /\ loop[l].pc = "marked"
  /\ running' = running \cup {loop[l].session}
  /\ loop' = [loop EXCEPT ![l].pc = "waiting"]
  /\ UNCHANGED <<store, record, journal, call, req, edits>>

\* The session ends or its wall time is over; the dispatch receipt is issued.
End(l) ==
  /\ loop[l].pc = "waiting"
  /\ running' = running \ {loop[l].session}
  /\ loop' = [loop EXCEPT ![l] = IdleLoop]
  /\ UNCHANGED <<store, record, journal, call, req, edits>>

\* The plan is refused (drift, no client), or the loop is killed: the token
\* stays live, and a session that was started runs on.
Abandon(l) ==
  /\ loop[l].pc # "idle"
  /\ loop' = [loop EXCEPT ![l] = IdleLoop]
  /\ UNCHANGED <<store, record, running, journal, call, req, edits>>

(***************************************************************************)
(* A spawn call and its guard.                                             *)
(***************************************************************************)
Refuse(c) == call' = [call EXCEPT ![c].pc = "refused"]

CallTool(c, s, tool, d) ==
  /\ call[c].pc = "none"
  /\ s \in running \cup Chats
  /\ d \in IF tool = "agent" THEN Prompts ELSE Digests \ Prompts
  /\ call' = [call EXCEPT ![c] =
       [pc |-> IF tool \notin Allows[s] THEN "refused"
               ELSE IF tool = "agent" THEN "look" ELSE "match",
        session |-> s, tool |-> tool, digest |-> d, stage |-> NoStage,
        token |-> NoToken]]
  /\ UNCHANGED <<store, record, running, journal, loop, req, edits>>

\* Mutant: the record alone says who was dispatched.
DispatchedByRecord(s) == record[s] # NoRecord

Dispatched(s) == marker[s] # NoStage \/ record[s] # NoRecord

\* A session nobody dispatched is exempt; any other needs a token.
Look(c) ==
  /\ call[c].pc = "look"
  /\ call' = [call EXCEPT ![c].pc =
                IF Dispatched(call[c].session) THEN "read" ELSE "allowed"]
  /\ UNCHANGED <<store, record, running, journal, loop, req, edits>>

Registering(d) == {st \in Stages : d \in Listed(st)}

Match(c) ==
  /\ call[c].pc = "match"
  /\ call' = [call EXCEPT ![c].pc =
                IF Registering(call[c].digest) = {} THEN "refused" ELSE "read"]
  /\ UNCHANGED <<store, record, running, journal, loop, req, edits>>

\* The record counts if it is there and names the stage of the marker, when
\* there is a marker.
Valid(s) ==
  record[s] # NoRecord /\ marker[s] \in {NoStage, record[s].stage}

Read(c) ==
  LET s == call[c].session IN
  /\ call[c].pc = "read"
  /\ IF Valid(s)
     THEN /\ call' = [call EXCEPT ![c].pc = "wait", ![c].stage = record[s].stage,
                                  ![c].token = record[s].token]
          /\ req' = [req EXCEPT ![c] = "sent"]
     ELSE Refuse(c) /\ UNCHANGED req
  /\ UNCHANGED <<store, record, running, journal, loop, edits>>

\* Mutant: the token is looked for and not moved.
RenameNot(c) ==
  /\ req[c] = "sent"
  /\ req' = [req EXCEPT ![c] = IF place[call[c].token] = "live" THEN "renamed" ELSE "denied"]
  /\ UNCHANGED <<store, record, running, journal, loop, call, edits>>

\* The server: the rename decides, the binding is judged afterwards.
Rename(c) ==
  LET t == call[c].token IN
  /\ req[c] = "sent"
  /\ IF place[t] = "live"
     THEN place' = [place EXCEPT ![t] = "used"] /\ req' = [req EXCEPT ![c] = "renamed"]
     ELSE req' = [req EXCEPT ![c] = "denied"] /\ UNCHANGED place
  /\ UNCHANGED <<bound, spent, marker, record, running, journal, loop, call, edits>>

\* Mutant: the session is no part of the binding.
FitsAnySession(c) == bound[call[c].token] =
  [stage |-> call[c].stage, digest |-> call[c].digest,
   tool |-> call[c].tool, session |-> bound[call[c].token].session]

Fits(c) == bound[call[c].token] =
  [stage |-> call[c].stage, digest |-> call[c].digest,
   tool |-> call[c].tool, session |-> call[c].session]

Judge(c) ==
  /\ req[c] = "renamed"
  /\ spent' = [spent EXCEPT ![call[c].token] = IF Fits(c) THEN "allowed" ELSE "burned"]
  /\ req' = [req EXCEPT ![c] = IF Fits(c) THEN "granted" ELSE "denied"]
  /\ UNCHANGED <<place, bound, marker, record, running, journal, loop, call, edits>>

\* The server is killed or restarted: its threads and connections are gone.
ServerDies ==
  /\ \E c \in Calls : call[c].pc = "wait" /\ req[c] \in {"sent", "renamed", "granted"}
  /\ req' = [c \in Calls |-> IF call[c].pc = "wait" \/ req[c] \in {"sent", "renamed"}
                             THEN "lost" ELSE req[c]]
  /\ UNCHANGED <<store, record, running, journal, loop, call, edits>>

Hear(c) ==
  /\ call[c].pc = "wait"
  /\ \/ /\ req[c] = "granted"
        /\ call' = [call EXCEPT ![c].pc = IF call[c].tool = "agent" THEN "allowed" ELSE "name"]
     \/ req[c] \in {"denied", "lost"} /\ Refuse(c)
  /\ UNCHANGED <<store, record, running, journal, loop, req, edits>>

\* No server, or no answer within the guard's timeout; the server's thread goes on.
GiveUp(c) ==
  /\ call[c].pc = "wait" /\ Refuse(c)
  /\ UNCHANGED <<store, record, running, journal, loop, req, edits>>

\* A Workflow call is recorded under the stage its record names by now, else
\* under the first that registers the script; what cannot be recorded is refused.
NamedStages(c) ==
  LET s == call[c].session IN
  IF Valid(s) THEN {record[s].stage} \cap Registering(call[c].digest)
  ELSE Registering(call[c].digest)

RecordCall(c) ==
  /\ call[c].pc = "name"
  /\ \/ \E st \in NamedStages(c) :
          /\ journal' = journal \cup {[session |-> call[c].session, stage |-> st,
                                       digest |-> call[c].digest, token |-> call[c].token]}
          /\ call' = [call EXCEPT ![c].pc = "allowed"]
     \/ Refuse(c) /\ UNCHANGED journal
  /\ UNCHANGED <<store, record, running, loop, req, edits>>

\* A session writes in the worker store: a record is removed, or another
\* session's is copied over it, under its own or another stage.
EditRecord(s) ==
  /\ edits < MaxEdits /\ running # {}
  /\ \/ record' = [record EXCEPT ![s] = NoRecord]
     \/ \E r \in Sessions, st \in Stages :
          /\ record[r] # NoRecord
          /\ record' = [record EXCEPT ![s] = [stage |-> st, token |-> record[r].token]]
  /\ edits' = edits + 1
  /\ UNCHANGED <<store, running, journal, loop, call, req>>

Next ==
  \/ \E l \in Loops : \/ WriteRecord(l) \/ Mark(l) \/ Start(l) \/ End(l) \/ Abandon(l)
                      \/ \E st \in Stages, s \in Sessions, t \in Tokens, d \in Digests :
                           Issue(l, st, s, t, d)
  \/ \E c \in Calls : \/ Look(c) \/ Match(c) \/ Read(c) \/ Rename(c) \/ Judge(c)
                      \/ Hear(c) \/ GiveUp(c) \/ RecordCall(c)
                      \/ \E s \in Sessions, tool \in Tools, d \in Digests :
                           CallTool(c, s, tool, d)
  \/ ServerDies
  \/ \E s \in Sessions : EditRecord(s)

Spec == Init /\ [][Next]_vars

(***************************************************************************)
(* Properties                                                              *)
(***************************************************************************)
Allowed(c) == call[c].pc = "allowed"

\* A token starts one agent at most: of two guards that present it, in any
\* interleaving of the server's threads, over kills and timeouts, one wins.
OneSpawnPerToken ==
  \A c, d \in Calls :
    Allowed(c) /\ Allowed(d) /\ call[c].token = call[d].token /\ call[c].token # NoToken
      => c = d

\* What starts is what the loop dispatched: the very prompt or script, with
\* the tool, in the session and for the stage the token was issued for,
\* whatever the record of the session said at the time.
SpawnAsDispatched ==
  \A c \in Calls : Allowed(c) /\ call[c].token # NoToken =>
    /\ bound[call[c].token] = [stage |-> marker[call[c].session], digest |-> call[c].digest,
                               tool |-> call[c].tool, session |-> call[c].session]
    /\ place[call[c].token] = "used"

\* A session the runner started never passes for the owner's own chat, not
\* even when its record is gone: the marker is there before it runs.
OnlyChatsAreExempt ==
  \A c \in Calls : Allowed(c) /\ call[c].token = NoToken =>
    call[c].tool = "agent" /\ call[c].session \in Chats

\* An allowed spawn left its evidence first: the token's spent file says so,
\* and a Workflow call is in the journal under a stage that registers it.
EvidenceFirst ==
  \A c \in Calls : Allowed(c) /\ call[c].token # NoToken =>
    /\ spent[call[c].token] = "allowed"
    /\ call[c].tool = "workflow" =>
         \E e \in journal : /\ e.session = call[c].session /\ e.token = call[c].token
                            /\ e.digest = call[c].digest
                            /\ e.stage \in Registering(e.digest)

\* Whatever a guard let through is what was dispatched and is on record, or is an
\* agent of the owner's own chat.
SpawnIsAccounted == SpawnAsDispatched /\ EvidenceFirst /\ OnlyChatsAreExempt
=============================================================================
