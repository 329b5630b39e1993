-------------------------- MODULE ChatStreamsProofs --------------------------
(***************************************************************************)
(* Safety of the streaming chat turns for any sessions, turns and rounds   *)
(* of questions.  The inductive invariant ties both maps to the turns:     *)
(* an entry of active_streams is that of a turn sent to this session, and  *)
(* an open question is held by a relay of this session that still runs.    *)
(***************************************************************************)
EXTENDS ChatStreams, TLAPS

\* An entry is registered by a turn that was sent to this session.
EntryOfSession ==
    \A s \in Sessions, t \in Turns :
        active[s] = t => turn[t].send = "sent" /\ turn[t].session = s

\* Only a turn that is sent has a relay or an end that was shown.
NothingBeforeSend ==
    \A t \in Turns : turn[t].send # "sent" =>
        turn[t].relay = "none" /\ turn[t].shown = "nothing"

\* A turn that was admitted has a session.
AdmittedHasSession ==
    \A t \in Turns : turn[t].send # "new" => turn[t].session \in Sessions

\* The MCP bridge is no relay.
BridgeHasNoRelay ==
    \A t \in Turns : turn[t].client = "mcp" => turn[t].relay \in {"none", "off"}

\* An open question is one of this session, and its relay has not returned.
QuestionHasRelay ==
    \A s \in Sessions : pending[s] # None =>
        /\ turn[pending[s][1]].session = s
        /\ turn[pending[s][1]].relay \in {"on", "finalizing", "closing"}

IInv ==
    /\ TypeOK
    /\ EntryOfSession
    /\ NothingBeforeSend
    /\ AdmittedHasSession
    /\ BridgeHasNoRelay
    /\ QuestionHasRelay
    /\ SendableAfterEnd
-----------------------------------------------------------------------------
(* Lemmas about the helpers.                                               *)

\* A turn that becomes a well-formed record leaves all turns well-formed.
LEMMA BecomesType ==
    ASSUME turn \in [Turns -> TurnState], NEW t \in Turns, NEW r \in TurnState,
           Becomes(t, r)
    PROVE  /\ turn' \in [Turns -> TurnState]
           /\ turn'[t] = r
           /\ \A u \in Turns : u # t => turn'[u] = turn[u]
  BY DEF Becomes

\* What the steps make of a turn is well-formed.
LEMMA Updates ==
    ASSUME NEW r \in TurnState
    PROVE  /\ [r EXCEPT !.send = "sent", !.agent = "model"] \in TurnState
           /\ [r EXCEPT !.send = "failed"] \in TurnState
           /\ [r EXCEPT !.relay = "on"] \in TurnState
           /\ [r EXCEPT !.agent = "model"] \in TurnState
           /\ [r EXCEPT !.relay = "closing", !.heard = FALSE, !.shown = "cancelled"] \in TurnState
           /\ [r EXCEPT !.relay = "closing", !.shown = "done"] \in TurnState
           /\ [r EXCEPT !.relay = "off"] \in TurnState
           /\ [r EXCEPT !.agent = "tools", !.asked = TRUE] \in TurnState
           /\ [r EXCEPT !.token = TRUE] \in TurnState
           /\ [r EXCEPT !.heard = TRUE] \in TurnState
  <1>1. [r EXCEPT !.send = "sent", !.agent = "model"] \in TurnState
    BY DEF TurnState, Kinds
  <1>2. [r EXCEPT !.send = "failed"] \in TurnState
    BY DEF TurnState, Kinds
  <1>3. [r EXCEPT !.relay = "on"] \in TurnState
    BY DEF TurnState, Kinds
  <1>4. [r EXCEPT !.agent = "model"] \in TurnState
    BY DEF TurnState, Kinds
  <1>5. [r EXCEPT !.relay = "closing", !.heard = FALSE, !.shown = "cancelled"] \in TurnState
    BY ZenonT(30) DEF TurnState, Kinds
  <1>6. [r EXCEPT !.relay = "closing", !.shown = "done"] \in TurnState
    BY DEF TurnState, Kinds
  <1>7. [r EXCEPT !.relay = "off"] \in TurnState
    BY DEF TurnState, Kinds
  <1>8. [r EXCEPT !.agent = "tools", !.asked = TRUE] \in TurnState
    BY DEF TurnState, Kinds
  <1>9. [r EXCEPT !.token = TRUE] \in TurnState
    BY DEF TurnState, Kinds
  <1>10. [r EXCEPT !.heard = TRUE] \in TurnState
    BY DEF TurnState, Kinds
  <1> QED
    BY <1>1, <1>2, <1>3, <1>4, <1>5, <1>6, <1>7, <1>8, <1>9, <1>10

\* So is a turn that took an event from its channel, or is shown its end.
LEMMA ChannelUpdates ==
    ASSUME NEW r \in TurnState, r.own # <<>>
    PROVE  /\ [r EXCEPT !.own = Tail(@)] \in TurnState
           /\ [r EXCEPT !.relay = "finalizing", !.own = Tail(@)] \in TurnState
           /\ [r EXCEPT !.relay = "closing", !.own = Tail(@), !.shown = Head(r.own)] \in TurnState
           /\ [r EXCEPT !.own = Tail(@), !.relay = "off", !.shown = Head(r.own)] \in TurnState
  <1>1. Tail(r.own) \in Seq(Kinds) /\ Head(r.own) \in Kinds
    BY DEF TurnState
  <1>2. [r EXCEPT !.own = Tail(@)] \in TurnState
    BY <1>1 DEF TurnState
  <1>3. [r EXCEPT !.relay = "finalizing", !.own = Tail(@)] \in TurnState
    BY <1>1 DEF TurnState
  <1>4. [r EXCEPT !.relay = "closing", !.own = Tail(@), !.shown = Head(r.own)] \in TurnState
    BY <1>1 DEF TurnState
  <1>5. [r EXCEPT !.own = Tail(@), !.relay = "off", !.shown = Head(r.own)] \in TurnState
    BY <1>1 DEF TurnState
  <1> QED
    BY <1>2, <1>3, <1>4, <1>5

\* Removing the entry of a turn leaves the other entries as they are.
LEMMA ReleasedFact ==
    ASSUME active \in [Sessions -> Turns \cup {None}], NEW t \in Turns
    PROVE  /\ Released(t) \in [Sessions -> Turns \cup {None}]
           /\ \A s \in Sessions : /\ Released(t)[s] # t
                                  /\ active[s] # t => Released(t)[s] = active[s]
                                  /\ active[s] = t => Released(t)[s] = None
  BY ChatAssumption DEF Released

\* Resolving questions keeps the states of questions well-formed.
LEMMA ResolvedType ==
    ASSUME question \in [Questions -> QuestionStates],
           NEW qs, NEW state \in QuestionStates
    PROVE  Resolved(qs, state) \in [Questions -> QuestionStates]
  BY DEF Resolved
-----------------------------------------------------------------------------
\* Every variable keeps its type in every step.
LEMMA TypeStep == TypeOK /\ [Next]_vars => TypeOK'
  <1> SUFFICES ASSUME TypeOK, [Next]_vars PROVE TypeOK'
    OBVIOUS
  <1>t. /\ active \in [Sessions -> Turns \cup {None}]
        /\ pending \in [Sessions -> Questions \cup {None}]
        /\ turn \in [Turns -> TurnState]
        /\ question \in [Questions -> QuestionStates]
    BY DEF TypeOK
  <1>1. ASSUME NEW t \in Turns, Register(t) PROVE TypeOK'
    <2>1. /\ [turn[t] EXCEPT !.send = "sent", !.agent = "model"] \in TurnState
          /\ [turn[t] EXCEPT !.send = "failed"] \in TurnState
      BY Updates, <1>t
    <2>2. turn' \in [Turns -> TurnState]
      BY <2>1, <1>1, <1>t DEF Register, Becomes
    <2>3. active' \in [Sessions -> Turns \cup {None}]
      BY <1>1, <1>t DEF Register
    <2> QED
      BY <2>2, <2>3, <1>1, <1>t DEF Register, TypeOK
  <1>2. ASSUME NEW t \in Turns, StartRelay(t) PROVE TypeOK'
    <2>1. [turn[t] EXCEPT !.relay = "on"] \in TurnState
      BY Updates, <1>t
    <2> QED
      BY <2>1, <1>2, <1>t DEF StartRelay, Becomes, TypeOK
  <1>3. ASSUME NEW t \in Turns, SeeCancel(t) PROVE TypeOK'
    <2>1. PICK hearers \in SUBSET {u \in Turns : turn[u].relay = "on"} :
            turn' = [u \in Turns |->
              LET r == IF u \in hearers THEN [turn[u] EXCEPT !.heard = TRUE] ELSE turn[u] IN
              IF u = t
                THEN [r EXCEPT !.agent = "stopped", !.own = Append(@, "cancelled")]
                ELSE r]
      BY <1>3 DEF SeeCancel
    <2>2. ASSUME NEW r \in TurnState
          PROVE  /\ [r EXCEPT !.heard = TRUE] \in TurnState
                 /\ [r EXCEPT !.agent = "stopped", !.own = Append(@, "cancelled")] \in TurnState
      <3>1. Append(r.own, "cancelled") \in Seq(Kinds)
        BY DEF TurnState, Kinds
      <3>2. [r EXCEPT !.agent = "stopped", !.own = Append(@, "cancelled")] \in TurnState
        BY <3>1 DEF TurnState
      <3> QED
        BY <3>2, Updates
    <2>3. turn' \in [Turns -> TurnState]
      BY <2>1, <2>2, <1>t
    <2> QED
      BY <2>3, <1>3, <1>t DEF SeeCancel, TypeOK
  <1>4. ASSUME NEW t \in Turns, NEW kind \in Kinds, Finish(t, kind) PROVE TypeOK'
    <2>1. Append(turn[t].own, kind) \in Seq(Kinds)
      BY <1>t DEF TurnState
    <2>2. [turn[t] EXCEPT !.agent = "ended", !.own = Append(@, kind)] \in TurnState
      BY <2>1, <1>t, ZenonT(60) DEF TurnState
    <2> QED
      BY <2>2, <1>4, <1>t DEF Finish, Becomes, TypeOK
  <1>5. ASSUME NEW t \in Turns, ToolsReturn(t) PROVE TypeOK'
    <2>1. [turn[t] EXCEPT !.agent = "model"] \in TurnState
      BY Updates, <1>t
    <2> QED
      BY <2>1, <1>5, <1>t DEF ToolsReturn, Becomes, TypeOK
  <1>6. ASSUME NEW t \in Turns, NEW n \in 1..MaxAsks, Expire(<<t, n>>) PROVE TypeOK'
    BY <1>6, <1>t DEF Expire, TypeOK, QuestionStates
  <1>7. ASSUME NEW t \in Turns, NEW n \in 1..MaxAsks, TakeQuestion(<<t, n>>) PROVE TypeOK'
    <2>1. <<t, n>> \in Questions
      BY DEF Questions
    <2>2. Resolved({pending[turn[t].session]}, "dropped") \in [Questions -> QuestionStates]
      BY ResolvedType, <1>t DEF QuestionStates
    <2> QED
      BY <2>1, <2>2, <1>7, <1>t DEF TakeQuestion, TypeOK, QuestionStates
  <1>8. ASSUME NEW t \in Turns, TakeEnd(t) PROVE TypeOK'
    <2>2. ASSUME turn[t].own # <<>>
          PROVE  /\ [turn[t] EXCEPT !.relay = "finalizing", !.own = Tail(@)] \in TurnState
                 /\ [turn[t] EXCEPT !.relay = "closing", !.own = Tail(@),
                                     !.shown = Head(turn[t].own)] \in TurnState
      BY <2>2, ChannelUpdates, <1>t
    <2>3. [turn[t] EXCEPT !.relay = "closing", !.heard = FALSE, !.shown = "cancelled"]
            \in TurnState
      BY Updates, <1>t
    <2>4. turn' \in [Turns -> TurnState]
      BY <2>2, <2>3, <1>8, <1>t DEF TakeEnd, Becomes
    <2> QED
      BY <2>4, ReleasedFact, <1>8, <1>t DEF TakeEnd, TypeOK
  <1>9. ASSUME NEW t \in Turns, ShowDone(t) PROVE TypeOK'
    <2>1. [turn[t] EXCEPT !.relay = "closing", !.shown = "done"] \in TurnState
      BY Updates, <1>t
    <2> QED
      BY <2>1, ReleasedFact, <1>9, <1>t DEF ShowDone, Becomes, TypeOK
  <1>10. ASSUME NEW t \in Turns, DropGuard(t) PROVE TypeOK'
    <2>1. question' \in [Questions -> QuestionStates]
      BY ResolvedType, <1>10, <1>t DEF DropGuard, QuestionStates
    <2>2. [turn[t] EXCEPT !.relay = "off"] \in TurnState
      BY Updates, <1>t
    <2>3. turn' \in [Turns -> TurnState]
      BY <2>2, <1>10, <1>t DEF DropGuard, Becomes
    <2>4. pending' \in [Sessions -> Questions \cup {None}]
      BY <1>10, <1>t DEF DropGuard
    <2> QED
      BY <2>1, <2>3, <2>4, ReleasedFact, <1>10, <1>t DEF DropGuard, TypeOK
  <1>11. ASSUME NEW t \in Turns, Collect(t) PROVE TypeOK'
    <2>2. ASSUME turn[t].own # <<>>
          PROVE  /\ [turn[t] EXCEPT !.own = Tail(@)] \in TurnState
                 /\ [turn[t] EXCEPT !.own = Tail(@), !.relay = "off",
                                     !.shown = Head(turn[t].own)] \in TurnState
      BY <2>2, ChannelUpdates, <1>t
    <2>3. turn' \in [Turns -> TurnState]
      BY <2>2, <1>11, <1>t DEF Collect, Becomes
    <2>4. question' \in [Questions -> QuestionStates]
      BY <1>11, <1>t DEF Collect, QuestionStates
    <2> QED
      BY <2>3, <2>4, <1>11, <1>t DEF Collect, TypeOK
  <1>12. ASSUME NEW t \in Turns, NEW n \in 1..MaxAsks, Ask(t, n) PROVE TypeOK'
    <2>1. question' \in [Questions -> QuestionStates]
      BY <1>12, <1>t DEF Ask, QuestionStates
    <2>2. [turn[t] EXCEPT !.agent = "tools", !.asked = TRUE] \in TurnState
      BY Updates, <1>t
    <2> QED
      BY <2>1, <2>2, <1>12, <1>t DEF Ask, Becomes, TypeOK
  <1>13. ASSUME NEW t \in Turns, NEW s \in Sessions, NEW client \in {"desktop", "mcp"},
                Admit(t, s, client)
         PROVE  TypeOK'
    <2>1. ASSUME NEW r \in TurnState
          PROVE  [r EXCEPT !.send = "admitted", !.session = s, !.client = client] \in TurnState
      BY DEF TurnState
    <2> QED
      BY <2>1, <1>13, <1>t DEF Admit, Becomes, TypeOK
  <1>14. ASSUME NEW s \in Sessions, NEW state \in {"answered", "dropped"}, Cancel(s, state)
         PROVE  TypeOK'
    <2>1. question' \in [Questions -> QuestionStates]
      BY ResolvedType, <1>14, <1>t DEF Cancel, QuestionStates
    <2>2. ASSUME NEW t \in Turns PROVE [turn[t] EXCEPT !.token = TRUE] \in TurnState
      BY Updates, <1>t
    <2>3. turn' \in [Turns -> TurnState]
      BY <2>2, <1>14, <1>t DEF Cancel
    <2>4. /\ active' \in [Sessions -> Turns \cup {None}]
          /\ pending' \in [Sessions -> Questions \cup {None}]
      BY <1>14, <1>t DEF Cancel
    <2> QED
      BY <2>1, <2>3, <2>4 DEF TypeOK
  <1>15. ASSUME NEW s \in Sessions, NEW q \in Questions, Respond(s, q) PROVE TypeOK'
    <2>1. question' \in [Questions -> QuestionStates]
      BY ResolvedType, <1>15, <1>t DEF Respond, QuestionStates
    <2>2. pending' \in [Sessions -> Questions \cup {None}]
      BY <1>15, <1>t DEF Respond
    <2> QED
      BY <2>1, <2>2, <1>15, <1>t DEF Respond, TypeOK
  <1>16. CASE UNCHANGED vars
    BY <1>16, <1>t DEF vars, TypeOK
  <1> QED
    BY <1>1, <1>2, <1>3, <1>4, <1>5, <1>6, <1>7, <1>8, <1>9, <1>10, <1>11, <1>12, <1>13,
       <1>14, <1>15, <1>16 DEF Next, System
-----------------------------------------------------------------------------
\* What the invariant reads of a turn stays as it is.
Alike(r, x) ==
    /\ x.session = r.session /\ x.client = r.client /\ x.send = r.send
    /\ x.relay = r.relay /\ x.shown = r.shown

\* The steps that leave all of that alone.
Inner(t) ==
    \/ SeeCancel(t) \/ (\E kind \in Kinds : Finish(t, kind)) \/ ToolsReturn(t)
    \/ \E n \in 1..MaxAsks : Expire(<<t, n>>) \/ Ask(t, n)

LEMMA InnerFields ==
    ASSUME NEW r \in TurnState, NEW kind \in Kinds
    PROVE  /\ Alike(r, [r EXCEPT !.agent = "ended", !.own = Append(@, kind)])
           /\ Alike(r, [r EXCEPT !.agent = "stopped", !.own = Append(@, "cancelled")])
           /\ Alike(r, [r EXCEPT !.heard = TRUE])
           /\ Alike(r, [r EXCEPT !.agent = "model"])
           /\ Alike(r, [r EXCEPT !.agent = "tools", !.asked = TRUE])
           /\ Alike(r, [r EXCEPT !.token = TRUE])
           /\ Alike(r, [r EXCEPT !.own = Tail(@)])
  <1>1. Alike(r, [r EXCEPT !.agent = "ended", !.own = Append(@, kind)])
    BY DEF Alike, TurnState
  <1>2. Alike(r, [r EXCEPT !.agent = "stopped", !.own = Append(@, "cancelled")])
    BY DEF Alike, TurnState
  <1>3. Alike(r, [r EXCEPT !.heard = TRUE])
    BY DEF Alike, TurnState
  <1>4. Alike(r, [r EXCEPT !.agent = "model"])
    BY DEF Alike, TurnState
  <1>5. Alike(r, [r EXCEPT !.agent = "tools", !.asked = TRUE])
    BY DEF Alike, TurnState
  <1>6. Alike(r, [r EXCEPT !.token = TRUE])
    BY DEF Alike, TurnState
  <1>7. Alike(r, [r EXCEPT !.own = Tail(@)])
    BY DEF Alike, TurnState
  <1> QED
    BY <1>1, <1>2, <1>3, <1>4, <1>5, <1>6, <1>7

\* The fields the other steps change, and those they keep.
LEMMA OuterFields ==
    ASSUME NEW r \in TurnState, NEW k
    PROVE  /\ LET x == [r EXCEPT !.send = "sent", !.agent = "model"] IN
                /\ x.session = r.session /\ x.client = r.client /\ x.send = "sent"
                /\ x.relay = r.relay /\ x.shown = r.shown
           /\ LET x == [r EXCEPT !.send = "failed"] IN
                /\ x.session = r.session /\ x.client = r.client /\ x.send = "failed"
                /\ x.relay = r.relay /\ x.shown = r.shown
           /\ LET x == [r EXCEPT !.relay = "on"] IN
                /\ x.session = r.session /\ x.client = r.client /\ x.send = r.send
                /\ x.relay = "on" /\ x.shown = r.shown
           /\ LET x == [r EXCEPT !.relay = "finalizing", !.own = Tail(@)] IN
                /\ x.session = r.session /\ x.client = r.client /\ x.send = r.send
                /\ x.relay = "finalizing" /\ x.shown = r.shown
           /\ LET x == [r EXCEPT !.relay = "closing", !.own = Tail(@), !.shown = k] IN
                /\ x.session = r.session /\ x.client = r.client /\ x.send = r.send
                /\ x.relay = "closing"
           /\ LET x == [r EXCEPT !.relay = "closing", !.heard = FALSE, !.shown = k] IN
                /\ x.session = r.session /\ x.client = r.client /\ x.send = r.send
                /\ x.relay = "closing"
           /\ LET x == [r EXCEPT !.relay = "closing", !.shown = k] IN
                /\ x.session = r.session /\ x.client = r.client /\ x.send = r.send
                /\ x.relay = "closing"
           /\ LET x == [r EXCEPT !.relay = "off"] IN
                /\ x.session = r.session /\ x.client = r.client /\ x.send = r.send
                /\ x.relay = "off" /\ x.shown = r.shown
           /\ LET x == [r EXCEPT !.own = Tail(@), !.relay = "off", !.shown = k] IN
                /\ x.session = r.session /\ x.client = r.client /\ x.send = r.send
                /\ x.relay = "off"
  BY DEF TurnState

LEMMA AdmitFields ==
    ASSUME NEW r \in TurnState, NEW s, NEW client
    PROVE  LET x == [r EXCEPT !.send = "admitted", !.session = s, !.client = client] IN
             /\ x.session = s /\ x.client = client /\ x.send = "admitted"
             /\ x.relay = r.relay /\ x.shown = r.shown
  BY DEF TurnState

\* A step after which the turns are alike and the maps hold no more than
\* before keeps the invariant.
LEMMA AlikeStep ==
    ASSUME IInv, TypeOK',
           \A u \in Turns : Alike(turn[u], turn'[u]),
           \A s \in Sessions : active'[s] \in {active[s], None},
           \A s \in Sessions : pending'[s] \in {pending[s], None}
    PROVE  IInv'
  <1>1. \A s \in Sessions : pending[s] # None => pending[s][1] \in Turns
    BY DEF IInv, TypeOK, Questions
  <1>2. EntryOfSession'
    BY ChatAssumption DEF IInv, EntryOfSession, Alike
  <1>3. NothingBeforeSend' /\ AdmittedHasSession' /\ BridgeHasNoRelay'
    BY DEF IInv, NothingBeforeSend, AdmittedHasSession, BridgeHasNoRelay, Alike
  <1>4. QuestionHasRelay'
    BY <1>1 DEF IInv, QuestionHasRelay, Alike
  <1>5. SendableAfterEnd'
    <2> SUFFICES ASSUME NEW t \in Turns, turn[t].shown # "nothing", turn[t].client = "desktop"
                 PROVE  active'[turn[t].session] # t
      BY DEF SendableAfterEnd, Alike
    <2>1. turn[t].session \in Sessions
      BY DEF IInv, NothingBeforeSend, AdmittedHasSession
    <2>2. active[turn[t].session] # t
      BY DEF IInv, SendableAfterEnd
    <2> QED
      BY <2>1, <2>2, ChatAssumption
  <1> QED
    BY <1>2, <1>3, <1>4, <1>5 DEF IInv

\* When one turn changes, an invariant about each turn is about this one.
LEMMA OneTurn ==
    ASSUME TypeOK, NEW t \in Turns, NEW r, Becomes(t, r)
    PROVE  turn'[t] = r /\ \A u \in Turns : u # t => turn'[u] = turn[u]
  BY DEF Becomes, TypeOK

\* The invariant holds initially.
LEMMA InitInv == Init => IInv
  <1> SUFFICES ASSUME Init PROVE IInv
    OBVIOUS
  <1>1. TypeOK
    <2>1. turn \in [Turns -> TurnState]
      BY DEF Init, TurnState, Kinds
    <2> QED
      BY <2>1 DEF Init, TypeOK, QuestionStates
  <1>2. EntryOfSession /\ QuestionHasRelay /\ SendableAfterEnd
    BY ChatAssumption DEF Init, EntryOfSession, QuestionHasRelay, SendableAfterEnd
  <1>3. NothingBeforeSend /\ AdmittedHasSession /\ BridgeHasNoRelay
    BY DEF Init, NothingBeforeSend, AdmittedHasSession, BridgeHasNoRelay
  <1> QED
    BY <1>1, <1>2, <1>3 DEF IInv

\* The steps inside the agent leave everything the invariant reads alone.
LEMMA InnerStep ==
    ASSUME IInv, TypeOK', NEW t \in Turns, Inner(t)
    PROVE  IInv'
  <1>t. turn \in [Turns -> TurnState]
    BY DEF IInv, TypeOK
  <1>a. \A u \in Turns : Alike(turn[u], turn[u])
    BY DEF Alike
  <1>c. "cancelled" \in Kinds
    BY DEF Kinds
  <1>1. CASE SeeCancel(t)
    <2>1. PICK hearers \in SUBSET {u \in Turns : turn[u].relay = "on"} :
            turn' = [u \in Turns |->
              LET r == IF u \in hearers THEN [turn[u] EXCEPT !.heard = TRUE] ELSE turn[u] IN
              IF u = t
                THEN [r EXCEPT !.agent = "stopped", !.own = Append(@, "cancelled")]
                ELSE r]
      BY <1>1 DEF SeeCancel
    <2>2. ASSUME NEW u \in Turns PROVE Alike(turn[u], turn'[u])
      <3> DEFINE r == IF u \in hearers THEN [turn[u] EXCEPT !.heard = TRUE] ELSE turn[u]
      <3>1. r \in TurnState /\ Alike(turn[u], r)
        BY Updates, InnerFields, <1>t, <1>a, <1>c
      <3>2. Alike(r, [r EXCEPT !.agent = "stopped", !.own = Append(@, "cancelled")])
        BY <3>1, InnerFields, <1>c
      <3>3. turn'[u] \in {r, [r EXCEPT !.agent = "stopped", !.own = Append(@, "cancelled")]}
        BY <2>1
      <3> HIDE DEF r
      <3> QED
        BY <3>1, <3>2, <3>3 DEF Alike
    <2> QED
      BY <2>2, AlikeStep, <1>1 DEF SeeCancel
  <1>2. ASSUME NEW kind \in Kinds, Finish(t, kind) PROVE IInv'
    <2>1. \A u \in Turns : Alike(turn[u], turn'[u])
      BY <1>2, <1>t, <1>a, InnerFields DEF Finish, Becomes
    <2> QED
      BY <2>1, AlikeStep, <1>2 DEF Finish
  <1>3. CASE ToolsReturn(t)
    <2>1. \A u \in Turns : Alike(turn[u], turn'[u])
      BY <1>3, <1>t, <1>a, <1>c, InnerFields DEF ToolsReturn, Becomes
    <2> QED
      BY <2>1, AlikeStep, <1>3 DEF ToolsReturn
  <1>4. ASSUME NEW n \in 1..MaxAsks, Expire(<<t, n>>) PROVE IInv'
    BY <1>4, <1>a, AlikeStep DEF Expire
  <1>5. ASSUME NEW n \in 1..MaxAsks, Ask(t, n) PROVE IInv'
    <2>1. \A u \in Turns : Alike(turn[u], turn'[u])
      BY <1>5, <1>t, <1>a, <1>c, InnerFields DEF Ask, Becomes
    <2> QED
      BY <2>1, AlikeStep, <1>5 DEF Ask
  <1> QED
    BY <1>1, <1>2, <1>3, <1>4, <1>5 DEF Inner

\* A relay that ends: its entry goes, the question may stay until the guard
\* drops.
LEMMA ClosingStep ==
    ASSUME IInv, TypeOK', NEW t \in Turns, NEW r \in TurnState, Becomes(t, r),
           turn[t].relay \in {"on", "finalizing"}, r.relay = "closing",
           r.session = turn[t].session, r.client = turn[t].client, r.send = turn[t].send,
           active' = Released(t), pending' = pending
    PROVE  IInv'
  <1>1. turn'[t] = r /\ \A u \in Turns : u # t => turn'[u] = turn[u]
    BY OneTurn DEF IInv
  <1>2. \A s \in Sessions : active'[s] # t /\ active'[s] \in {active[s], None}
    BY ReleasedFact DEF IInv, TypeOK
  <1>3. turn[t].send = "sent" /\ turn[t].client # "mcp"
    BY DEF IInv, NothingBeforeSend, BridgeHasNoRelay
  <1>4. \A s \in Sessions : pending[s] # None => pending[s][1] \in Turns
    BY DEF IInv, TypeOK, Questions
  <1>5. EntryOfSession'
    BY <1>1, <1>2, ChatAssumption DEF IInv, EntryOfSession
  <1>6. NothingBeforeSend' /\ AdmittedHasSession' /\ BridgeHasNoRelay'
    BY <1>1, <1>3 DEF IInv, NothingBeforeSend, AdmittedHasSession, BridgeHasNoRelay
  <1>7. QuestionHasRelay'
    BY <1>1, <1>4 DEF IInv, QuestionHasRelay
  <1>8. SendableAfterEnd'
    <2> SUFFICES ASSUME NEW u \in Turns, turn'[u].shown # "nothing",
                        turn'[u].client = "desktop"
                 PROVE  active'[turn'[u].session] # u
      BY DEF SendableAfterEnd
    <2>1. CASE u = t
      BY <2>1, <1>1, <1>2, <1>3 DEF IInv, AdmittedHasSession
    <2>2. CASE u # t
      <3>1. turn[u].session \in Sessions
        BY <2>2, <1>1 DEF IInv, NothingBeforeSend, AdmittedHasSession
      <3> QED
        BY <3>1, <2>2, <1>1, <1>2, ChatAssumption DEF IInv, SendableAfterEnd
    <2> QED
      BY <2>1, <2>2
  <1> QED
    BY <1>5, <1>6, <1>7, <1>8 DEF IInv

\* The steps of chat_send keep the invariant.
LEMMA SendStep ==
    ASSUME IInv, TypeOK', NEW t \in Turns,
           \/ Register(t) \/ StartRelay(t)
           \/ \E s \in Sessions, client \in {"desktop", "mcp"} : Admit(t, s, client)
    PROVE  IInv'
  <1>t. turn \in [Turns -> TurnState]
    BY DEF IInv, TypeOK
  <1>q. \A s \in Sessions : pending[s] # None => pending[s][1] \in Turns
    BY DEF IInv, TypeOK, Questions
  <1>1. CASE Register(t)
    <2>1. /\ \A u \in Turns : u # t => turn'[u] = turn[u]
          /\ turn'[t].session = turn[t].session /\ turn'[t].client = turn[t].client
          /\ turn'[t].relay = turn[t].relay /\ turn'[t].shown = turn[t].shown
          /\ turn'[t].send \in {"sent", "failed"}
          /\ turn'[t].send = "failed" => active' = active
          /\ turn'[t].send = "sent" => active' = [active EXCEPT ![turn[t].session] = t]
      <3> DEFINE sent == [turn[t] EXCEPT !.send = "sent", !.agent = "model"]
                 failed == [turn[t] EXCEPT !.send = "failed"]
      <3>1. /\ sent.session = turn[t].session /\ sent.client = turn[t].client
            /\ sent.relay = turn[t].relay /\ sent.shown = turn[t].shown /\ sent.send = "sent"
        BY <1>t, OuterFields
      <3>2. /\ failed.session = turn[t].session /\ failed.client = turn[t].client
            /\ failed.relay = turn[t].relay /\ failed.shown = turn[t].shown
            /\ failed.send = "failed"
        BY <1>t, OuterFields
      <3>3. \/ Becomes(t, sent) /\ active' = [active EXCEPT ![turn[t].session] = t]
            \/ Becomes(t, failed) /\ active' = active
        BY <1>1 DEF Register
      <3> HIDE DEF sent, failed
      <3> QED
        BY <3>1, <3>2, <3>3, OneTurn DEF IInv
    <2>2. /\ turn[t].send = "admitted" /\ pending' = pending
          /\ turn[t].relay = "none" /\ turn[t].shown = "nothing"
          /\ turn[t].session \in Sessions
      BY <1>1 DEF Register, IInv, NothingBeforeSend, AdmittedHasSession
    <2>3. \A s \in Sessions : active[s] # t
      BY <2>2 DEF IInv, EntryOfSession
    <2>4. \A s \in Sessions : \/ active'[s] = active[s]
                              \/ /\ active'[s] = t /\ s = turn[t].session
                                 /\ turn'[t].send = "sent"
      BY <2>1, <2>2 DEF IInv, TypeOK
    <2>5. EntryOfSession'
      BY <2>1, <2>3, <2>4 DEF IInv, EntryOfSession
    <2>6. NothingBeforeSend' /\ AdmittedHasSession' /\ BridgeHasNoRelay'
      BY <2>1, <2>2 DEF IInv, NothingBeforeSend, AdmittedHasSession, BridgeHasNoRelay
    <2>7. QuestionHasRelay'
      BY <2>1, <2>2, <1>q DEF IInv, QuestionHasRelay
    <2>8. SendableAfterEnd'
      <3> SUFFICES ASSUME NEW u \in Turns, turn'[u].shown # "nothing",
                          turn'[u].client = "desktop"
                   PROVE  active'[turn'[u].session] # u
        BY DEF SendableAfterEnd
      <3>1. u # t
        BY <2>1, <2>2
      <3>2. turn[u].session \in Sessions /\ active[turn[u].session] # u
        BY <3>1, <2>1
           DEF IInv, NothingBeforeSend, AdmittedHasSession, SendableAfterEnd
      <3> QED
        BY <3>1, <3>2, <2>1, <2>4
    <2> QED
      BY <2>5, <2>6, <2>7, <2>8 DEF IInv
  <1>2. CASE StartRelay(t)
    <2>1. /\ \A u \in Turns : u # t => turn'[u] = turn[u]
          /\ turn'[t].session = turn[t].session /\ turn'[t].client = turn[t].client
          /\ turn'[t].send = turn[t].send /\ turn'[t].shown = turn[t].shown
          /\ turn'[t].relay = "on"
      BY <1>2, <1>t, OuterFields DEF StartRelay, Becomes
    <2>2. /\ turn[t].send = "sent" /\ turn[t].client = "desktop" /\ turn[t].relay = "none"
          /\ active' = active /\ pending' = pending
      BY <1>2 DEF StartRelay
    <2>3. EntryOfSession' /\ SendableAfterEnd'
      BY <2>1, <2>2 DEF IInv, EntryOfSession, SendableAfterEnd
    <2>4. NothingBeforeSend' /\ AdmittedHasSession' /\ BridgeHasNoRelay'
      BY <2>1, <2>2 DEF IInv, NothingBeforeSend, AdmittedHasSession, BridgeHasNoRelay
    <2>5. QuestionHasRelay'
      BY <2>1, <2>2, <1>q DEF IInv, QuestionHasRelay
    <2> QED
      BY <2>3, <2>4, <2>5 DEF IInv
  <1>3. ASSUME NEW s \in Sessions, NEW client \in {"desktop", "mcp"}, Admit(t, s, client)
        PROVE  IInv'
    <2> DEFINE r == [turn[t] EXCEPT !.send = "admitted", !.session = s, !.client = client]
    <2>a. r.session = s /\ r.client = client /\ r.send = "admitted"
          /\ r.relay = turn[t].relay /\ r.shown = turn[t].shown
      BY <1>t, AdmitFields
    <2>b. Becomes(t, r)
      BY <1>3 DEF Admit
    <2> HIDE DEF r
    <2>1. /\ \A u \in Turns : u # t => turn'[u] = turn[u]
          /\ turn'[t].session = s /\ turn'[t].client = client
          /\ turn'[t].send = "admitted" /\ turn'[t].shown = turn[t].shown
          /\ turn'[t].relay = turn[t].relay
      BY <2>a, <2>b, OneTurn DEF IInv
    <2>2. /\ turn[t].send = "new" /\ active' = active /\ pending' = pending
          /\ turn[t].relay = "none" /\ turn[t].shown = "nothing"
      BY <1>3 DEF Admit, IInv, NothingBeforeSend
    <2>3. EntryOfSession'
      BY <2>1, <2>2 DEF IInv, EntryOfSession
    <2>4. NothingBeforeSend' /\ AdmittedHasSession' /\ BridgeHasNoRelay'
      BY <2>1, <2>2 DEF IInv, NothingBeforeSend, AdmittedHasSession, BridgeHasNoRelay
    <2>5. QuestionHasRelay'
      BY <2>1, <2>2, <1>q DEF IInv, QuestionHasRelay
    <2>6. SendableAfterEnd'
      BY <2>1, <2>2 DEF IInv, SendableAfterEnd
    <2> QED
      BY <2>3, <2>4, <2>5, <2>6 DEF IInv
  <1> QED
    BY <1>1, <1>2, <1>3

\* So do those of the relay and of the bridge.
LEMMA RelayStep ==
    ASSUME IInv, TypeOK', NEW t \in Turns,
           \/ \E n \in 1..MaxAsks : TakeQuestion(<<t, n>>)
           \/ TakeEnd(t) \/ ShowDone(t) \/ DropGuard(t) \/ Collect(t)
    PROVE  IInv'
  <1>t. turn \in [Turns -> TurnState]
    BY DEF IInv, TypeOK
  <1>a. \A u \in Turns : Alike(turn[u], turn[u])
    BY DEF Alike
  <1>q. \A s \in Sessions : pending[s] # None => pending[s][1] \in Turns
    BY DEF IInv, TypeOK, Questions
  <1>1. ASSUME NEW n \in 1..MaxAsks, TakeQuestion(<<t, n>>) PROVE IInv'
    <2>1. /\ turn' = turn /\ active' = active /\ turn[t].relay = "on"
          /\ \A s \in Sessions : \/ pending'[s] = pending[s]
                                 \/ pending'[s] = <<t, n>> /\ s = turn[t].session
      BY <1>1 DEF TakeQuestion, IInv, TypeOK
    <2>2. EntryOfSession' /\ SendableAfterEnd'
      BY <2>1 DEF IInv, EntryOfSession, SendableAfterEnd
    <2>3. NothingBeforeSend' /\ AdmittedHasSession' /\ BridgeHasNoRelay'
      BY <2>1 DEF IInv, NothingBeforeSend, AdmittedHasSession, BridgeHasNoRelay
    <2>4. QuestionHasRelay'
      BY <2>1 DEF IInv, QuestionHasRelay
    <2> QED
      BY <2>2, <2>3, <2>4 DEF IInv
  <1>2. CASE TakeEnd(t)
    <2> DEFINE fin == [turn[t] EXCEPT !.relay = "finalizing", !.own = Tail(@)]
               own == [turn[t] EXCEPT !.relay = "closing", !.own = Tail(@),
                                      !.shown = Head(turn[t].own)]
               bus == [turn[t] EXCEPT !.relay = "closing", !.heard = FALSE,
                                      !.shown = "cancelled"]
    <2>0. turn[t] \in TurnState
      BY <1>t
    <2>1. turn[t].relay = "on" /\ pending' = pending
      BY <1>2 DEF TakeEnd
    <2>2. CASE Becomes(t, fin) /\ active' = active
      <3>1. /\ \A u \in Turns : u # t => turn'[u] = turn[u]
            /\ turn'[t].session = turn[t].session /\ turn'[t].client = turn[t].client
            /\ turn'[t].send = turn[t].send /\ turn'[t].shown = turn[t].shown
            /\ turn'[t].relay = "finalizing"
        BY <2>2, <1>t, OuterFields DEF Becomes
      <3>2. EntryOfSession' /\ SendableAfterEnd'
        BY <3>1, <2>2 DEF IInv, EntryOfSession, SendableAfterEnd
      <3>3. NothingBeforeSend' /\ AdmittedHasSession' /\ BridgeHasNoRelay'
        BY <3>1, <2>1 DEF IInv, NothingBeforeSend, AdmittedHasSession, BridgeHasNoRelay
      <3>4. QuestionHasRelay'
        BY <3>1, <2>1, <1>q DEF IInv, QuestionHasRelay
      <3> QED
        BY <3>2, <3>3, <3>4 DEF IInv
    <2>3. CASE turn[t].own # <<>> /\ Becomes(t, own) /\ active' = Released(t)
      <3>1. /\ own.relay = "closing" /\ own.session = turn[t].session
            /\ own.client = turn[t].client /\ own.send = turn[t].send
        BY <2>0 DEF TurnState
      <3>2. own \in TurnState
        BY <2>0, <2>3, ChannelUpdates
      <3> HIDE DEF own
      <3> QED
        BY <3>1, <3>2, <2>1, <2>3, ClosingStep
    <2>4. CASE Becomes(t, bus) /\ active' = Released(t)
      <3>1. /\ bus.relay = "closing" /\ bus.session = turn[t].session
            /\ bus.client = turn[t].client /\ bus.send = turn[t].send
        BY <2>0 DEF TurnState
      <3>2. bus \in TurnState
        BY <2>0, Updates
      <3> HIDE DEF bus
      <3> QED
        BY <3>1, <3>2, <2>1, <2>4, ClosingStep
    <2> QED
      BY <2>2, <2>3, <2>4, <1>2 DEF TakeEnd
  <1>3. CASE ShowDone(t)
    <2> DEFINE r == [turn[t] EXCEPT !.relay = "closing", !.shown = "done"]
    <2>0. turn[t] \in TurnState
      BY <1>t
    <2>1. /\ r.relay = "closing" /\ r.session = turn[t].session
          /\ r.client = turn[t].client /\ r.send = turn[t].send
      BY <2>0 DEF TurnState
    <2>3. r \in TurnState
      BY <2>0, Updates
    <2>2. /\ turn[t].relay = "finalizing" /\ Becomes(t, r) /\ active' = Released(t)
          /\ pending' = pending
      BY <1>3 DEF ShowDone
    <2> HIDE DEF r
    <2> QED
      BY <2>1, <2>2, <2>3, ClosingStep
  <1>4. CASE DropGuard(t)
    <2>1. /\ \A u \in Turns : u # t => turn'[u] = turn[u]
          /\ turn'[t].session = turn[t].session /\ turn'[t].client = turn[t].client
          /\ turn'[t].send = turn[t].send /\ turn'[t].shown = turn[t].shown
          /\ turn'[t].relay = "off"
      BY <1>4, <1>t, OuterFields DEF DropGuard, Becomes
    <2>2. /\ turn[t].relay = "closing"
          /\ \A s \in Sessions : pending'[s] = IF s = turn[t].session THEN None ELSE pending[s]
          /\ \A s \in Sessions : active'[s] # t /\ active'[s] \in {active[s], None}
      BY <1>4, ReleasedFact DEF DropGuard, IInv, TypeOK
    <2>3. EntryOfSession'
      BY <2>1, <2>2, ChatAssumption DEF IInv, EntryOfSession
    <2>4. NothingBeforeSend' /\ AdmittedHasSession' /\ BridgeHasNoRelay'
      BY <2>1, <2>2 DEF IInv, NothingBeforeSend, AdmittedHasSession, BridgeHasNoRelay
    <2>5. QuestionHasRelay'
      BY <2>1, <2>2, <1>q DEF IInv, QuestionHasRelay
    <2>6. SendableAfterEnd'
      <3> SUFFICES ASSUME NEW u \in Turns, turn'[u].shown # "nothing",
                          turn'[u].client = "desktop"
                   PROVE  active'[turn'[u].session] # u
        BY DEF SendableAfterEnd
      <3>1. turn[u].session \in Sessions /\ active[turn[u].session] # u
            /\ turn'[u].session = turn[u].session
        BY <2>1 DEF IInv, NothingBeforeSend, AdmittedHasSession, SendableAfterEnd
      <3> QED
        BY <3>1, <2>2, ChatAssumption
    <2> QED
      BY <2>3, <2>4, <2>5, <2>6 DEF IInv
  <1>5. CASE Collect(t)
    <2>1. /\ turn[t].client = "mcp" /\ turn[t].send = "sent" /\ turn[t].relay = "none"
          /\ active' = active /\ pending' = pending
      BY <1>5 DEF Collect
    <2>2. /\ \A u \in Turns : u # t => turn'[u] = turn[u]
          /\ turn'[t].session = turn[t].session /\ turn'[t].client = turn[t].client
          /\ turn'[t].send = turn[t].send
          /\ turn'[t].relay \in {"none", "off"}
      <3> DEFINE skip == [turn[t] EXCEPT !.own = Tail(@)]
                 end == [turn[t] EXCEPT !.own = Tail(@), !.relay = "off",
                                        !.shown = Head(turn[t].own)]
      <3>0. turn[t] \in TurnState
        BY <1>t
      <3>1. /\ skip.session = turn[t].session /\ skip.client = turn[t].client
            /\ skip.send = turn[t].send /\ skip.relay = turn[t].relay
        BY <3>0 DEF TurnState
      <3>2. /\ end.session = turn[t].session /\ end.client = turn[t].client
            /\ end.send = turn[t].send /\ end.relay = "off"
        BY <3>0 DEF TurnState
      <3>3. turn' = turn \/ Becomes(t, skip) \/ Becomes(t, end)
        BY <1>5 DEF Collect
      <3> HIDE DEF skip, end
      <3> QED
        BY <2>1, <3>1, <3>2, <3>3, OneTurn DEF IInv
    <2>3. EntryOfSession' /\ SendableAfterEnd'
      BY <2>1, <2>2 DEF IInv, EntryOfSession, SendableAfterEnd
    <2>4. NothingBeforeSend' /\ AdmittedHasSession' /\ BridgeHasNoRelay'
      BY <2>1, <2>2 DEF IInv, NothingBeforeSend, AdmittedHasSession, BridgeHasNoRelay
    <2>5. QuestionHasRelay'
      BY <2>1, <2>2, <1>q DEF IInv, QuestionHasRelay
    <2> QED
      BY <2>3, <2>4, <2>5 DEF IInv
  <1> QED
    BY <1>1, <1>2, <1>3, <1>4, <1>5

\* And those of the user, which only empty the maps.
LEMMA UserStep ==
    ASSUME IInv, TypeOK', NEW s \in Sessions,
           \/ \E state \in {"answered", "dropped"} : Cancel(s, state)
           \/ \E q \in Questions : Respond(s, q)
    PROVE  IInv'
  <1>t. turn \in [Turns -> TurnState]
    BY DEF IInv, TypeOK
  <1>a. \A u \in Turns : Alike(turn[u], turn[u])
    BY DEF Alike
  <1>c. "cancelled" \in Kinds
    BY DEF Kinds
  <1>1. ASSUME NEW state \in {"answered", "dropped"}, Cancel(s, state) PROVE IInv'
    <2>1. \A u \in Turns : Alike(turn[u], turn'[u])
      BY <1>1, <1>t, <1>a, <1>c, InnerFields DEF Cancel
    <2>2. \A r \in Sessions : active'[r] \in {active[r], None} /\ pending'[r] \in {pending[r], None}
      BY <1>1 DEF Cancel, IInv, TypeOK
    <2> QED
      BY <2>1, <2>2, AlikeStep
  <1>2. ASSUME NEW q \in Questions, Respond(s, q) PROVE IInv'
    <2>1. /\ turn' = turn /\ active' = active
          /\ \A r \in Sessions : pending'[r] \in {pending[r], None}
      BY <1>2 DEF Respond, IInv, TypeOK
    <2> QED
      BY <2>1, <1>a, AlikeStep
  <1> QED
    BY <1>1, <1>2
-----------------------------------------------------------------------------
\* Every step keeps the invariant.
LEMMA NextInv == IInv /\ [Next]_vars => IInv'
  <1> SUFFICES ASSUME IInv, [Next]_vars PROVE IInv'
    OBVIOUS
  <1>1. TypeOK'
    BY TypeStep DEF IInv
  <1>2. ASSUME NEW t \in Turns, System(t) PROVE IInv'
    BY <1>1, <1>2, SendStep, InnerStep, RelayStep DEF System, Inner
  <1>3. ASSUME NEW t \in Turns, NEW n \in 1..MaxAsks, Ask(t, n) PROVE IInv'
    BY <1>1, <1>3, InnerStep DEF Inner
  <1>4. ASSUME NEW t \in Turns, NEW s \in Sessions, NEW client \in {"desktop", "mcp"},
               Admit(t, s, client)
        PROVE  IInv'
    BY <1>1, <1>4, SendStep
  <1>5. ASSUME NEW s \in Sessions, NEW state \in {"answered", "dropped"}, Cancel(s, state)
        PROVE  IInv'
    BY <1>1, <1>5, UserStep
  <1>6. ASSUME NEW s \in Sessions, NEW q \in Questions, Respond(s, q) PROVE IInv'
    BY <1>1, <1>6, UserStep
  <1>7. CASE UNCHANGED vars
    BY <1>7 DEF vars, IInv, TypeOK, EntryOfSession, NothingBeforeSend, AdmittedHasSession,
                BridgeHasNoRelay, QuestionHasRelay, SendableAfterEnd
  <1> QED
    BY <1>2, <1>3, <1>4, <1>5, <1>6, <1>7 DEF Next

\* The strengthened invariant is one of the specification.
THEOREM StreamsInv == Spec => []IInv
  <1>1. Init => IInv
    BY InitInv
  <1>2. IInv /\ [Next]_vars => IInv'
    BY NextInv
  <1> QED
    BY <1>1, <1>2, PTL DEF Spec

\* Every variable always has its type.
THEOREM TypeCorrect == Spec => []TypeOK
  <1>1. IInv => TypeOK
    BY DEF IInv
  <1> QED
    BY <1>1, StreamsInv, PTL

\* Whoever is told that a turn has ended can send to the session again.
THEOREM SendableCorrect == Spec => []SendableAfterEnd
  <1>1. IInv => SendableAfterEnd
    BY DEF IInv
  <1> QED
    BY <1>1, StreamsInv, PTL

\* No question outlives the relay that showed it.
THEOREM QuestionCorrect == Spec => []NoQuestionWithoutRelay
  <1>1. IInv => NoQuestionWithoutRelay
    BY DEF IInv, QuestionHasRelay, NoQuestionWithoutRelay
  <1> QED
    BY <1>1, StreamsInv, PTL

\* No step of another turn removes the entry of a stream.
THEOREM EntryCorrect == Spec => EntryGoesWithItsOwn
  <1> DEFINE Kept == \A s \in Sessions : \A t \in Turns :
                       active[s] = t /\ active'[s] = None =>
                         turn'[t].token \/ turn[t].relay # turn'[t].relay
  <1>1. IInv /\ [Next]_vars => [Kept]_vars
    <2> SUFFICES ASSUME IInv, [Next]_vars, NEW s \in Sessions, NEW t \in Turns,
                        active[s] = t, active'[s] = None, ~UNCHANGED vars
                 PROVE  turn'[t].token \/ turn[t].relay # turn'[t].relay
      OBVIOUS
    <2>t. turn \in [Turns -> TurnState] /\ active \in [Sessions -> Turns \cup {None}]
      BY DEF IInv, TypeOK
    <2>n. active' # active
      BY ChatAssumption
    <2>1. ASSUME NEW u \in Turns, Register(u) PROVE FALSE
      BY <2>1, <2>t, ChatAssumption DEF Register
    <2>2. ASSUME NEW u \in Turns, active' = Released(u) PROVE u = t
      BY <2>2, <2>t, ReleasedFact, ChatAssumption
    <2>3. CASE TakeEnd(t)
      <3>1. /\ [turn[t] EXCEPT !.relay = "closing", !.own = Tail(@),
                                !.shown = Head(turn[t].own)].relay = "closing"
            /\ [turn[t] EXCEPT !.relay = "closing", !.heard = FALSE,
                                !.shown = "cancelled"].relay = "closing"
        BY <2>t DEF TurnState
      <3> QED
        BY <3>1, <2>3, <2>n, <2>t DEF TakeEnd, Becomes
    <2>4. CASE ShowDone(t)
      <3>1. [turn[t] EXCEPT !.relay = "closing", !.shown = "done"].relay = "closing"
        BY <2>t DEF TurnState
      <3> QED
        BY <3>1, <2>4, <2>t DEF ShowDone, Becomes
    <2>5. CASE DropGuard(t)
      <3>1. [turn[t] EXCEPT !.relay = "off"].relay = "off"
        BY <2>t DEF TurnState
      <3> QED
        BY <3>1, <2>5, <2>t DEF DropGuard, Becomes
    <2>6. ASSUME NEW r \in Sessions, NEW state \in {"answered", "dropped"}, Cancel(r, state)
          PROVE  turn'[t].token
      <3>1. r = s
        BY <2>6, <2>t, ChatAssumption DEF Cancel
      <3>2. [turn[t] EXCEPT !.token = TRUE].token = TRUE
        BY <2>t DEF TurnState
      <3> QED
        BY <3>1, <3>2, <2>6, <2>t, ChatAssumption DEF Cancel
    <2>7. ASSUME NEW u \in Turns, System(u)
          PROVE  Register(u) \/ TakeEnd(u) \/ ShowDone(u) \/ DropGuard(u)
      BY <2>7, <2>n DEF System, StartRelay, SeeCancel, Finish, ToolsReturn, Expire,
                        TakeQuestion, Collect
    <2>8. ASSUME NEW u \in Turns, TakeEnd(u) \/ ShowDone(u) \/ DropGuard(u)
          PROVE  u = t
      BY <2>8, <2>2, <2>n DEF TakeEnd, ShowDone, DropGuard
    <2>9. ASSUME NEW u \in Turns, System(u)
          PROVE  turn'[t].token \/ turn[t].relay # turn'[t].relay
      BY <2>9, <2>7, <2>8, <2>1, <2>3, <2>4, <2>5
    <2>10. CASE \/ \E u \in Turns, n \in 1..MaxAsks : Ask(u, n)
                \/ \E u \in Turns, r \in Sessions, client \in {"desktop", "mcp"} :
                     Admit(u, r, client)
                \/ \E r \in Sessions, q \in Questions : Respond(r, q)
      BY <2>10, <2>n DEF Ask, Admit, Respond
    <2> QED
      BY <2>6, <2>9, <2>10 DEF Next
  <1> QED
    BY <1>1, StreamsInv, PTL DEF Spec, EntryGoesWithItsOwn
=============================================================================
