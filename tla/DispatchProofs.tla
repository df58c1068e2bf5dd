--------------------------- MODULE DispatchProofs ---------------------------
(* Theorems of Dispatch, for any number of run loops, sessions, tokens and
   calls, over kills, timeouts and edited records. *)
EXTENDS Dispatch, TLAPS

(***************************************************************************)
(* What an issued token says never changes, and its session is its own.    *)
(***************************************************************************)
TokensOK ==
  /\ \A t \in Issued : bound[t] \in Bindings /\ bound[t].session \notin Chats
  /\ \A t, u \in Issued : bound[t].session = bound[u].session => t = u

\* A marker names the stage of the session's token, and stands before the
\* session runs.
MarkersOK ==
  /\ \A s \in Sessions : marker[s] # NoStage =>
       \E t \in Issued : bound[t].session = s /\ bound[t].stage = marker[s]
  /\ \A s \in running : marker[s] # NoStage

LoopsOK ==
  \A l \in Loops : loop[l].pc # "idle" =>
    /\ loop[l].token \in Issued
    /\ bound[loop[l].token].session = loop[l].session
    /\ bound[loop[l].token].stage = loop[l].stage
    /\ loop[l].pc \in {"marked", "waiting"} => marker[loop[l].session] # NoStage

RecordsOK == \A s \in Sessions : record[s] # NoRecord => record[s].token \in Issued

\* A call comes from a chat or from a session that has its marker.
CallersOK ==
  \A c \in Calls : call[c].pc # "none" =>
    /\ call[c].session \in Sessions
    /\ call[c].session \in Chats \/ marker[call[c].session] # NoStage

\* What a guard holds at each of its steps.
GuardsOK ==
  \A c \in Calls :
    /\ call[c].pc \in {"none", "look", "match", "read"} =>
         call[c].token = NoToken /\ req[c] = "none"
    /\ call[c].pc = "look" => call[c].tool = "agent"
    /\ call[c].pc \in {"wait", "name"} => call[c].token \in Issued
    /\ call[c].pc = "name" => call[c].tool = "workflow" /\ req[c] = "granted"
    /\ req[c] # "none" => call[c].token \in Issued
    /\ Allowed(c) /\ call[c].token = NoToken =>
         call[c].tool = "agent" /\ call[c].session \in Chats
    /\ Allowed(c) /\ call[c].token # NoToken =>
         /\ req[c] = "granted"
         /\ call[c].tool = "workflow" =>
              \E e \in journal : /\ e.session = call[c].session /\ e.token = call[c].token
                                 /\ e.digest = call[c].digest
                                 /\ e.stage \in Registering(e.digest)

\* The rename has one winner, and what the server granted fits.
Won(c) == req[c] \in {"renamed", "granted"}
WinnersOK ==
  /\ \A c \in Calls : Won(c) => place[call[c].token] = "used"
  /\ \A c, d \in Calls : Won(c) /\ Won(d) /\ call[c].token = call[d].token => c = d
  /\ \A c \in Calls : req[c] = "granted" => Fits(c) /\ spent[call[c].token] = "allowed"

IInv == /\ TypeOK /\ TokensOK /\ MarkersOK /\ LoopsOK /\ RecordsOK
        /\ CallersOK /\ GuardsOK /\ WinnersOK

USE DispatchAssumption DEF Tools

(***************************************************************************)
(* One lemma per action: the conjuncts it can disturb, then the others.    *)
(***************************************************************************)
LEMMA LoopHolds ==
  ASSUME IInv, NEW l \in Loops, loop[l].pc # "idle"
  PROVE  loop[l].token \in Issued /\ loop[l].stage \in Stages /\ loop[l].session \in Sessions
BY DEF IInv, TypeOK, LoopsOK, TokensOK, Bindings, Issued

LEMMA GuardMoves ==
  ASSUME TypeOK, NEW c \in Calls, NEW w \in {"read", "allowed"},
         call' = [call EXCEPT ![c].pc = w]
  PROVE  call' \in [Calls -> [pc : {"none", "look", "match", "read", "wait", "name",
                                   "allowed", "refused"},
                             session : Sessions \cup {NoSession}, tool : Tools,
                             digest : Digests \cup {NoBinding},
                             stage : Stages \cup {NoStage},
                             token : Tokens \cup {NoToken}]]
BY DEF TypeOK

\* A fresh token for a fresh session disturbs no other.
LEMMA IssueStep ==
  ASSUME NEW l \in Loops, NEW st \in Stages, NEW s \in Sessions, NEW t \in Tokens, NEW d \in Digests, IInv, Issue(l, st, s, t, d)
  PROVE  IInv'
<1> USE DEF IInv, Issue, Fresh, Authorised, ToolOf, Digests, store
<1>1. TypeOK'
  BY DEF TypeOK, Bindings
<1>2. TokensOK'
  BY DEF TypeOK, TokensOK, Issued, Bindings
<1>3. MarkersOK'
  BY DEF TypeOK, MarkersOK, Issued, TokensOK, Bindings
<1>4. LoopsOK'
  BY DEF TypeOK, LoopsOK, TokensOK, Bindings, Issued
<1>5. RecordsOK'
  BY DEF TypeOK, RecordsOK, Issued, Records
<1>6. GuardsOK'
  BY DEF TypeOK, GuardsOK, Issued, RecordsOK, CallersOK, Allowed, Registering, Records
<1>7. WinnersOK'
  BY DEF TypeOK, WinnersOK, Won, Fits, GuardsOK, Issued, Bindings
<1>8. (CallersOK)'
  BY DEF CallersOK
<1> QED BY <1>1, <1>2, <1>3, <1>4, <1>5, <1>6, <1>7, <1>8

LEMMA WriteRecordStep ==
  ASSUME NEW l \in Loops, IInv, WriteRecord(l)
  PROVE  IInv'
<1> USE DEF IInv, WriteRecord, Records, store
<1>1. TypeOK'
  <2>1. [stage |-> loop[l].stage, token |-> loop[l].token] \in Records
    BY LoopHolds DEF Issued
  <2>2. record' \in [Sessions -> Records \cup {NoRecord}]
    BY <2>1 DEF TypeOK
  <2>3. loop' = [loop EXCEPT ![l].pc = "recorded"]
    OBVIOUS
  <2> QED BY <2>2, <2>3 DEF TypeOK
<1>2. LoopsOK'
  BY LoopHolds DEF TypeOK, LoopsOK, TokensOK, Bindings, Issued
<1>3. RecordsOK'
  BY LoopHolds DEF TypeOK, RecordsOK, Issued
<1>4. (TokensOK /\ MarkersOK /\ CallersOK /\ GuardsOK /\ WinnersOK)'
  BY DEF TokensOK, MarkersOK, CallersOK, GuardsOK, WinnersOK, Issued, Allowed, Registering, Won, Fits
<1> QED BY <1>1, <1>2, <1>3, <1>4

LEMMA MarkStep ==
  ASSUME NEW l \in Loops, IInv, Mark(l)
  PROVE  IInv'
<1> USE DEF IInv, Mark, store
<1>1. TypeOK'
  BY LoopHolds DEF TypeOK
<1>2. MarkersOK'
  BY LoopHolds DEF TypeOK, MarkersOK, Issued, TokensOK, Bindings, LoopsOK
<1>3. LoopsOK'
  BY LoopHolds DEF TypeOK, LoopsOK, TokensOK, Bindings, Issued
<1>4. CallersOK'
  BY LoopHolds DEF TypeOK, CallersOK, MarkersOK
<1>5. (TokensOK /\ RecordsOK /\ GuardsOK /\ WinnersOK)'
  BY DEF TokensOK, RecordsOK, GuardsOK, WinnersOK, Issued, Allowed, Registering, Won, Fits
<1> QED BY <1>1, <1>2, <1>3, <1>4, <1>5

LEMMA StartStep ==
  ASSUME NEW l \in Loops, IInv, Start(l)
  PROVE  IInv'
<1> USE DEF IInv, Start, store
<1>1. TypeOK'
  BY LoopHolds DEF TypeOK
<1>2. MarkersOK'
  BY LoopHolds DEF TypeOK, MarkersOK, Issued, TokensOK, Bindings, LoopsOK
<1>3. LoopsOK'
  BY LoopHolds DEF TypeOK, LoopsOK, TokensOK, Bindings, Issued
<1>4. (TokensOK /\ RecordsOK /\ CallersOK /\ GuardsOK /\ WinnersOK)'
  BY DEF TokensOK, RecordsOK, CallersOK, GuardsOK, WinnersOK, Issued, Allowed, Registering, Won, Fits
<1> QED BY <1>1, <1>2, <1>3, <1>4

LEMMA EndStep ==
  ASSUME NEW l \in Loops, IInv, End(l)
  PROVE  IInv'
<1> USE DEF IInv, End, IdleLoop, store
<1>1. TypeOK'
  BY LoopHolds DEF TypeOK
<1>2. MarkersOK'
  BY LoopHolds DEF TypeOK, MarkersOK, Issued, TokensOK, Bindings
<1>3. LoopsOK'
  BY LoopHolds DEF TypeOK, LoopsOK, TokensOK, Bindings, Issued
<1>4. (TokensOK /\ RecordsOK /\ CallersOK /\ GuardsOK /\ WinnersOK)'
  BY DEF TokensOK, RecordsOK, CallersOK, GuardsOK, WinnersOK, Issued, Allowed, Registering, Won, Fits
<1> QED BY <1>1, <1>2, <1>3, <1>4

LEMMA AbandonStep ==
  ASSUME NEW l \in Loops, IInv, Abandon(l)
  PROVE  IInv'
<1> USE DEF IInv, Abandon, IdleLoop, store
<1>1. TypeOK'
  BY DEF TypeOK
<1>2. LoopsOK'
  BY DEF TypeOK, LoopsOK, TokensOK, Bindings, Issued
<1>3. (TokensOK /\ MarkersOK /\ RecordsOK /\ CallersOK /\ GuardsOK /\ WinnersOK)'
  BY DEF TokensOK, MarkersOK, RecordsOK, CallersOK, GuardsOK, WinnersOK, Issued, Allowed, Registering, Won, Fits
<1> QED BY <1>1, <1>2, <1>3

LEMMA CallToolStep ==
  ASSUME NEW c \in Calls, NEW s \in Sessions, NEW tool \in Tools, NEW d \in Digests, IInv, CallTool(c, s, tool, d)
  PROVE  IInv'
<1> USE DEF IInv, CallTool, store
<1>1. TypeOK'
  BY DEF TypeOK
<1>2. CallersOK'
  BY DEF TypeOK, CallersOK, MarkersOK
<1>3. GuardsOK'
  BY DEF TypeOK, GuardsOK, Issued, RecordsOK, CallersOK, Allowed, Registering, Records
<1>4. WinnersOK'
  BY DEF TypeOK, WinnersOK, Won, Fits, GuardsOK, Issued, Bindings
<1>5. (TokensOK /\ MarkersOK /\ LoopsOK /\ RecordsOK)'
  BY DEF TokensOK, MarkersOK, LoopsOK, RecordsOK, Issued
<1> QED BY <1>1, <1>2, <1>3, <1>4, <1>5

LEMMA LookStep ==
  ASSUME NEW c \in Calls, IInv, Look(c)
  PROVE  IInv'
<1> USE DEF IInv, Look, Dispatched, store
<1>1. TypeOK'
  <2>1. \E w \in {"read", "allowed"} : call' = [call EXCEPT ![c].pc = w]
    OBVIOUS
  <2> QED BY <2>1, GuardMoves DEF TypeOK
<1>2. CallersOK'
  BY DEF TypeOK, CallersOK, MarkersOK
<1>3. GuardsOK'
  BY DEF TypeOK, GuardsOK, Issued, RecordsOK, CallersOK, Allowed, Registering, Records
<1>4. WinnersOK'
  BY DEF TypeOK, WinnersOK, Won, Fits, GuardsOK, Issued, Bindings
<1>5. (TokensOK /\ MarkersOK /\ LoopsOK /\ RecordsOK)'
  BY DEF TokensOK, MarkersOK, LoopsOK, RecordsOK, Issued
<1> QED BY <1>1, <1>2, <1>3, <1>4, <1>5

LEMMA MatchStep ==
  ASSUME NEW c \in Calls, IInv, Match(c)
  PROVE  IInv'
<1> USE DEF IInv, Match, Registering, store
<1>1. TypeOK'
  BY SMTT(20) DEF TypeOK
<1>2. CallersOK'
  BY DEF TypeOK, CallersOK, MarkersOK
<1>3. GuardsOK'
  BY DEF TypeOK, GuardsOK, Issued, RecordsOK, CallersOK, Allowed, Records
<1>4. WinnersOK'
  BY DEF TypeOK, WinnersOK, Won, Fits, GuardsOK, Issued, Bindings
<1>5. (TokensOK /\ MarkersOK /\ LoopsOK /\ RecordsOK)'
  BY DEF TokensOK, MarkersOK, LoopsOK, RecordsOK, Issued
<1> QED BY <1>1, <1>2, <1>3, <1>4, <1>5

LEMMA ReadStep ==
  ASSUME NEW c \in Calls, IInv, Read(c)
  PROVE  IInv'
<1> USE DEF IInv, Read, Valid, Refuse, Records, store
<1>1. TypeOK'
  <2>1. CASE Valid(call[c].session)
    <3>1. record[call[c].session] \in Records
      BY <2>1 DEF TypeOK, CallersOK
    <3>2. /\ record[call[c].session].stage \in Stages
          /\ record[call[c].session].token \in Tokens
      BY <3>1
    <3>3. /\ call' = [call EXCEPT ![c].pc = "wait",
                        ![c].stage = record[call[c].session].stage,
                        ![c].token = record[call[c].session].token]
          /\ req' = [req EXCEPT ![c] = "sent"]
      BY <2>1
    <3>4. req' \in [Calls -> {"none", "sent", "renamed", "granted", "denied", "lost"}]
      BY <3>3 DEF TypeOK
    <3>5. call' \in [Calls -> [pc : {"none", "look", "match", "read", "wait", "name",
                                    "allowed", "refused"},
                              session : Sessions \cup {NoSession}, tool : Tools,
                              digest : Digests \cup {NoBinding},
                              stage : Stages \cup {NoStage},
                              token : Tokens \cup {NoToken}]]
      BY <3>2, <3>3, SMTT(20) DEF TypeOK
    <3> QED BY <3>4, <3>5 DEF TypeOK
  <2>2. CASE ~Valid(call[c].session)
    BY <2>2, SMTT(20) DEF TypeOK
  <2> QED BY <2>1, <2>2
<1>2. CallersOK'
  BY SMTT(20) DEF TypeOK, CallersOK, MarkersOK
<1>3. GuardsOK'
  BY SMTT(20) DEF TypeOK, GuardsOK, Issued, RecordsOK, CallersOK, Allowed, Registering
<1>4. WinnersOK'
  <2>1. req[c] = "none" /\ ~Won(c) /\ ~Won(c)'
    BY DEF GuardsOK, TypeOK, Won
  <2>2. \A d \in Calls : d # c => call'[d] = call[d] /\ req'[d] = req[d]
    BY DEF TypeOK
  <2>3. \A d \in Calls : (Won(d)' <=> Won(d)) /\ (req'[d] = "granted" <=> req[d] = "granted")
    BY <2>1, <2>2 DEF Won
  <2>4. \A d \in Calls : Won(d) => d # c
    BY <2>1
  <2>5. \A d \in Calls : d # c => (Fits(d)' <=> Fits(d))
    BY <2>2 DEF Fits
  <2> QED BY <2>1, <2>2, <2>3, <2>4, <2>5 DEF WinnersOK, Won
<1>5. (TokensOK /\ MarkersOK /\ LoopsOK /\ RecordsOK)'
  BY DEF TokensOK, MarkersOK, LoopsOK, RecordsOK, Issued
<1> QED BY <1>1, <1>2, <1>3, <1>4, <1>5

\* Of two requests for one token the second finds it used.
LEMMA RenameStep ==
  ASSUME NEW c \in Calls, IInv, Rename(c)
  PROVE  IInv'
<1> USE DEF IInv, Rename, store
<1>1. TypeOK'
  BY ZenonT(25) DEF TypeOK
<1>2. TokensOK'
  BY DEF TypeOK, TokensOK, Issued, Bindings
<1>3. MarkersOK'
  BY DEF TypeOK, MarkersOK, Issued, TokensOK, Bindings
<1>4. LoopsOK'
  BY DEF TypeOK, LoopsOK, TokensOK, Bindings, Issued
<1>5. RecordsOK'
  BY DEF TypeOK, RecordsOK, Issued, Records
<1>6. GuardsOK'
  BY DEF TypeOK, GuardsOK, Issued, RecordsOK, CallersOK, Allowed, Registering, Records
<1>7. WinnersOK'
  BY SMTT(20) DEF TypeOK, WinnersOK, Won, Fits, GuardsOK, Issued, Bindings
<1>8. (CallersOK)'
  BY DEF CallersOK
<1> QED BY <1>1, <1>2, <1>3, <1>4, <1>5, <1>6, <1>7, <1>8

\* What is granted fits; no other request holds the token.
LEMMA JudgeStep ==
  ASSUME NEW c \in Calls, IInv, Judge(c)
  PROVE  IInv'
<1> USE DEF IInv, Judge, Fits, store
<1>1. TypeOK'
  BY DEF TypeOK
<1>2. GuardsOK'
  BY DEF TypeOK, GuardsOK, Issued, RecordsOK, CallersOK, Allowed, Registering, Records
<1>3. WinnersOK'
  BY DEF TypeOK, WinnersOK, Won, GuardsOK, Issued, Bindings
<1>4. (TokensOK /\ MarkersOK /\ LoopsOK /\ RecordsOK /\ CallersOK)'
  BY DEF TokensOK, MarkersOK, LoopsOK, RecordsOK, CallersOK, Issued
<1> QED BY <1>1, <1>2, <1>3, <1>4

\* A step that moves a call on leaves the rest of what the guard holds.
LEMMA PcOnly ==
  ASSUME DOMAIN call = Calls, NEW c \in Calls, NEW pc,
         call' = [call EXCEPT ![c].pc = pc]
  PROVE  \A d \in Calls : /\ call'[d].token = call[d].token /\ call'[d].stage = call[d].stage
                          /\ call'[d].digest = call[d].digest /\ call'[d].tool = call[d].tool
                          /\ call'[d].session = call[d].session
<1> SUFFICES ASSUME NEW d \in Calls
    PROVE  /\ call'[d].token = call[d].token /\ call'[d].stage = call[d].stage
           /\ call'[d].digest = call[d].digest /\ call'[d].tool = call[d].tool
           /\ call'[d].session = call[d].session
  OBVIOUS
<1>1. CASE d # c
  BY <1>1
<1>2. CASE d = c
  BY <1>2
<1> QED BY <1>1, <1>2

LEMMA HearStep ==
  ASSUME NEW c \in Calls, IInv, Hear(c)
  PROVE  IInv'
<1> USE DEF IInv, Hear, Refuse, store
<1>1. TypeOK'
  BY SMTT(20) DEF TypeOK
<1>2. CallersOK'
  BY DEF TypeOK, CallersOK, MarkersOK
<1>3. GuardsOK'
  <2>1. CASE req[c] = "granted"
    <3>1. call'[c].token = call[c].token /\ call'[c].tool = call[c].tool
      BY <2>1 DEF TypeOK
    <3>2. call'[c].pc = IF call[c].tool = "agent" THEN "allowed" ELSE "name"
      BY <2>1 DEF TypeOK
    <3>3. call[c].token \in Tokens /\ call[c].token # NoToken /\ call[c].token \in Issued
      BY DEF GuardsOK, Issued
    <3>4. \A d \in Calls : d # c => call'[d] = call[d]
      BY <2>1 DEF TypeOK
    <3> QED BY <2>1, <3>1, <3>2, <3>3, <3>4 DEF TypeOK, GuardsOK, Allowed, Issued, Registering
  <2>2. CASE req[c] # "granted"
    BY <2>2 DEF TypeOK, GuardsOK, Issued, Allowed, Registering
  <2> QED BY <2>1, <2>2
<1>4. WinnersOK'
  <2>1. \A d \in Calls : /\ call'[d].token = call[d].token /\ call'[d].stage = call[d].stage
                          /\ call'[d].digest = call[d].digest /\ call'[d].tool = call[d].tool
                          /\ call'[d].session = call[d].session
    <3>1. PICK pc : call' = [call EXCEPT ![c].pc = pc]
      OBVIOUS
    <3> QED BY <3>1, PcOnly DEF TypeOK
  <2> QED BY <2>1 DEF WinnersOK, Won, Fits
<1>5. (TokensOK /\ MarkersOK /\ LoopsOK /\ RecordsOK)'
  BY DEF TokensOK, MarkersOK, LoopsOK, RecordsOK, Issued
<1> QED BY <1>1, <1>2, <1>3, <1>4, <1>5

LEMMA GiveUpStep ==
  ASSUME NEW c \in Calls, IInv, GiveUp(c)
  PROVE  IInv'
<1> USE DEF IInv, GiveUp, Refuse, store
<1>1. TypeOK'
  BY DEF TypeOK
<1>2. CallersOK'
  BY DEF TypeOK, CallersOK, MarkersOK
<1>3. GuardsOK'
  BY DEF TypeOK, GuardsOK, Issued, RecordsOK, CallersOK, Allowed, Registering, Records
<1>4. WinnersOK'
  BY DEF TypeOK, WinnersOK, Won, Fits, GuardsOK, Issued, Bindings
<1>5. (TokensOK /\ MarkersOK /\ LoopsOK /\ RecordsOK)'
  BY DEF TokensOK, MarkersOK, LoopsOK, RecordsOK, Issued
<1> QED BY <1>1, <1>2, <1>3, <1>4, <1>5

LEMMA RecordCallStep ==
  ASSUME NEW c \in Calls, IInv, RecordCall(c)
  PROVE  IInv'
<1> USE DEF IInv, RecordCall, Refuse, NamedStages, Valid, store
<1>1. TypeOK'
  <2>1. call[c].token \in Tokens /\ call[c].session \in Sessions
    BY DEF GuardsOK, CallersOK, Issued
  <2>2. CASE Refuse(c) /\ UNCHANGED journal
    BY <2>2, SMTT(20) DEF TypeOK
  <2>3. ASSUME NEW st \in NamedStages(c),
               journal' = journal \cup {[session |-> call[c].session, stage |-> st,
                                          digest |-> call[c].digest, token |-> call[c].token]},
               call' = [call EXCEPT ![c].pc = "allowed"]
        PROVE  TypeOK'
    <3>1. st \in Stages /\ call[c].digest \in Digests
      BY DEF TypeOK, Registering, Digests, Records
    <3> QED BY <2>1, <2>3, <3>1, SMTT(20) DEF TypeOK
  <2> QED BY <2>2, <2>3
<1>2. CallersOK'
  BY SMTT(20) DEF TypeOK, CallersOK, MarkersOK
<1>3. GuardsOK'
  <2>1. call[c].tool = "workflow" /\ req[c] = "granted" /\ call[c].token \in Issued
    BY DEF GuardsOK
  <2>2. \A d \in Calls : d # c => call'[d] = call[d]
    BY DEF TypeOK
  <2>3. journal \subseteq journal'
    OBVIOUS
  <2>4. \A d \in Calls : d # c =>
          (Allowed(d)' <=> Allowed(d)) /\ call'[d] = call[d]
    BY <2>2 DEF Allowed
  <2>5. CASE Refuse(c) /\ UNCHANGED journal
    <3>1. call'[c].pc = "refused" /\ ~Allowed(c)' /\ call'[c].token = call[c].token
      BY <2>5 DEF TypeOK, Allowed
    <3> QED BY <2>1, <2>4, <2>5, <3>1 DEF GuardsOK, Issued, Registering
  <2>6. ASSUME NEW st \in NamedStages(c),
               journal' = journal \cup {[session |-> call[c].session, stage |-> st,
                                          digest |-> call[c].digest, token |-> call[c].token]},
               call' = [call EXCEPT ![c].pc = "allowed"]
        PROVE  GuardsOK'
    <3>1. st \in Registering(call[c].digest)
      OBVIOUS
    <3>2. /\ call'[c].pc = "allowed" /\ call'[c].token = call[c].token
          /\ call'[c].tool = call[c].tool /\ call'[c].session = call[c].session
          /\ call'[c].digest = call[c].digest
      BY <2>6 DEF TypeOK
    <3>3. \E e \in journal' : /\ e.session = call[c].session /\ e.token = call[c].token
                               /\ e.digest = call[c].digest
                               /\ e.stage \in Registering(e.digest)
      <4> DEFINE e == [session |-> call[c].session, stage |-> st,
                       digest |-> call[c].digest, token |-> call[c].token]
      <4>1. e \in journal'
        BY <2>6
      <4>2. e.stage \in Registering(e.digest)
        BY <3>1
      <4> QED BY <4>1, <4>2
    <3>4. call[c].token # NoToken
      BY <2>1 DEF Issued
    <3> QED BY <2>1, <2>3, <2>4, <3>2, <3>3, <3>4 DEF GuardsOK, Allowed, Issued, Registering
  <2> QED BY <2>5, <2>6
<1>4. WinnersOK'
  <2>1. \A d \in Calls : /\ call'[d].token = call[d].token /\ call'[d].stage = call[d].stage
                          /\ call'[d].digest = call[d].digest /\ call'[d].tool = call[d].tool
                          /\ call'[d].session = call[d].session
    <3>1. PICK pc : call' = [call EXCEPT ![c].pc = pc]
      OBVIOUS
    <3> QED BY <3>1, PcOnly DEF TypeOK
  <2> QED BY <2>1 DEF WinnersOK, Won, Fits
<1>5. (TokensOK /\ MarkersOK /\ LoopsOK /\ RecordsOK)'
  BY DEF TokensOK, MarkersOK, LoopsOK, RecordsOK, Issued
<1> QED BY <1>1, <1>2, <1>3, <1>4, <1>5

LEMMA ServerDiesStep ==
  ASSUME IInv, ServerDies
  PROVE  IInv'
<1> USE DEF IInv, ServerDies, store
<1>1. TypeOK'
  BY DEF TypeOK
<1>2. GuardsOK'
  BY DEF TypeOK, GuardsOK, Issued, RecordsOK, CallersOK, Allowed, Registering, Records
<1>3. WinnersOK'
  BY DEF TypeOK, WinnersOK, Won, Fits, GuardsOK, Issued, Bindings
<1>4. (TokensOK /\ MarkersOK /\ LoopsOK /\ RecordsOK /\ CallersOK)'
  BY DEF TokensOK, MarkersOK, LoopsOK, RecordsOK, CallersOK, Issued
<1> QED BY <1>1, <1>2, <1>3, <1>4

LEMMA EditRecordStep ==
  ASSUME NEW s \in Sessions, IInv, EditRecord(s)
  PROVE  IInv'
<1> USE DEF IInv, EditRecord, Records, store
<1>1. TypeOK'
  BY DEF TypeOK
<1>2. RecordsOK'
  BY DEF TypeOK, RecordsOK, Issued
<1>3. (TokensOK /\ MarkersOK /\ LoopsOK /\ CallersOK /\ GuardsOK /\ WinnersOK)'
  BY DEF TokensOK, MarkersOK, LoopsOK, CallersOK, GuardsOK, WinnersOK, Issued, Allowed, Registering, Won, Fits
<1> QED BY <1>1, <1>2, <1>3

(***************************************************************************)
(* The invariant and what follows from it.                                 *)
(***************************************************************************)
LEMMA InitInv == Init => IInv
BY DEF Init, IInv, TypeOK, TokensOK, MarkersOK, LoopsOK, RecordsOK, CallersOK,
       GuardsOK, WinnersOK, Won, Allowed, Issued, IdleLoop, NoCall

LEMMA NextInv == IInv /\ [Next]_vars => IInv'
<1> SUFFICES ASSUME IInv, [Next]_vars PROVE IInv'
  OBVIOUS
<1>1. CASE UNCHANGED vars
  BY <1>1 DEF vars, IInv, TypeOK, TokensOK, MarkersOK, LoopsOK, RecordsOK, CallersOK,
              GuardsOK, WinnersOK, Won, Allowed, Issued, Fits, Registering
<1>2. ASSUME NEW l \in Loops,
             \/ WriteRecord(l) \/ Mark(l) \/ Start(l) \/ End(l) \/ Abandon(l)
             \/ \E st \in Stages, s \in Sessions, t \in Tokens, d \in Digests :
                  Issue(l, st, s, t, d)
      PROVE  IInv'
  BY <1>2, WriteRecordStep, MarkStep, StartStep, EndStep, AbandonStep, IssueStep
<1>3. ASSUME NEW c \in Calls,
             \/ Look(c) \/ Match(c) \/ Read(c) \/ Rename(c) \/ Judge(c)
             \/ Hear(c) \/ GiveUp(c) \/ RecordCall(c)
             \/ \E s \in Sessions, tool \in Tools, d \in Digests : CallTool(c, s, tool, d)
      PROVE  IInv'
  BY <1>3, LookStep, MatchStep, ReadStep, RenameStep, JudgeStep, HearStep, GiveUpStep,
     RecordCallStep, CallToolStep
<1> QED BY <1>1, <1>2, <1>3, ServerDiesStep, EditRecordStep DEF Next

THEOREM Invariance == Spec => []IInv
BY InitInv, NextInv, PTL DEF Spec

\* The state of the token store, the records and the guards keeps its types.
THEOREM TypeCorrect == Spec => []TypeOK
<1>1. IInv => TypeOK
  BY DEF IInv
<1> QED BY <1>1, Invariance, PTL

\* hook.py and runner.py: a token lets one spawn through at most.
THEOREM OneSpawn == Spec => []OneSpawnPerToken
<1>1. IInv => OneSpawnPerToken
  BY DEF IInv, OneSpawnPerToken, GuardsOK, WinnersOK, Won
<1> QED BY <1>1, Invariance, PTL

\* runner.py, consume_token: what starts is what the run loop dispatched.
LEMMA SpawnBound == Spec => []SpawnAsDispatched
<1>1. ASSUME IInv PROVE SpawnAsDispatched
  <2> SUFFICES ASSUME NEW c \in Calls, Allowed(c), call[c].token # NoToken
               PROVE  /\ bound[call[c].token] =
                           [stage |-> marker[call[c].session], digest |-> call[c].digest,
                            tool |-> call[c].tool, session |-> call[c].session]
                      /\ place[call[c].token] = "used"
    BY DEF SpawnAsDispatched
  <2>1. Fits(c) /\ place[call[c].token] = "used" /\ call[c].token \in Issued
    BY <1>1 DEF IInv, GuardsOK, WinnersOK, Won
  <2>2. bound[call[c].token].session = call[c].session
    BY <2>1 DEF Fits
  <2>3. call[c].session \in Sessions /\ marker[call[c].session] # NoStage
    BY <1>1, <2>1, <2>2 DEF IInv, CallersOK, TokensOK, Allowed
  <2>4. PICK t \in Issued : /\ bound[t].session = call[c].session
                            /\ bound[t].stage = marker[call[c].session]
    BY <1>1, <2>3 DEF IInv, MarkersOK
  <2>5. t = call[c].token
    BY <1>1, <2>1, <2>2, <2>4 DEF IInv, TokensOK
  <2> QED BY <2>1, <2>4, <2>5 DEF Fits
<1> QED BY <1>1, Invariance, PTL

\* hook.py, _dispatched: no session of the run loop passes for the owner's chat.
THEOREM ExemptionIsTheOwners == Spec => []OnlyChatsAreExempt
<1>1. IInv => OnlyChatsAreExempt
  BY DEF IInv, OnlyChatsAreExempt, GuardsOK
<1> QED BY <1>1, Invariance, PTL

\* hook.py, _check_workflow: the evidence of a spawn is there before it is allowed.
LEMMA EvidenceComesFirst == Spec => []EvidenceFirst
<1>1. IInv => EvidenceFirst
  BY DEF IInv, EvidenceFirst, GuardsOK, WinnersOK
<1> QED BY <1>1, Invariance, PTL

\* runner.py, consume_token, and hook.py: an allowed spawn is the one its token was
\* issued for, and left its evidence before it started.
THEOREM SpawnAccounted == Spec => []SpawnIsAccounted
<1>1. SpawnAsDispatched /\ EvidenceFirst /\ OnlyChatsAreExempt => SpawnIsAccounted
  BY DEF SpawnIsAccounted
<1> QED BY <1>1, SpawnBound, EvidenceComesFirst, ExemptionIsTheOwners, PTL
=====
