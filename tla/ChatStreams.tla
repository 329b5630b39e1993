----------------------------- MODULE ChatStreams -----------------------------
(***************************************************************************)
(* Streaming chat turns of the desktop: chat_send registers a stream, the  *)
(* agent's task works on the turn, a relay shows its events, and the user  *)
(* may answer a question, cancel, reset or send again at any moment.       *)
(*                                                                         *)
(* Shared by all of them are active_streams and pending_interactions, both *)
(* maps by session, and the domain bus: fan_out_event publishes what it    *)
(* sends on the turn's own channel a second time there, and every relay    *)
(* merges both.  Of the events only those that end a relay matter here.    *)
(* They are Done and Error, sent once on the turn's own channel, and       *)
(* Cancelled, which the bus carries to every relay.                        *)
(***************************************************************************)
EXTENDS Naturals, Sequences, FiniteSets

CONSTANTS
    Sessions,  \* session keys
    Turns,     \* calls of chat_send; a turn is also its guard_id
    MaxAsks,   \* bound: questions one round of tools asks at a time
    None

ASSUME ChatAssumption == MaxAsks \in Nat \ {0} /\ None \notin Turns

VARIABLES
    active,   \* [Sessions -> Turns or None]: active_streams
    pending,  \* [Sessions -> Questions or None]: pending_interactions
    turn,     \* [Turns -> TurnState]
    question  \* [Questions -> QuestionStates]: the oneshot of an ask_user

vars == <<active, pending, turn, question>>

Questions == Turns \X (1..MaxAsks)

\* "queued" in the interaction channel, "open" in pending_interactions; the
\* tool that asked gets the answer, sees its sender dropped or times out.
QuestionStates == {"unasked", "queued", "open", "answered", "dropped", "expired"}

Kinds == {"done", "error", "cancelled"}

(* send   how far chat_send is, and by which client                        *)
(* agent  the agent's task: in the model's stream, in its tools, after a   *)
(*        cancellation it saw, or ended                                    *)
(* asked  has the turn had its round of questions?                         *)
(* token  is its CancellationToken cancelled?                              *)
(* own    the last events on the turn's own channel                        *)
(* heard  is there a Cancelled from the bus in the merged channel?         *)
(* relay  the relay: "closing" is after the loop, the guard yet to drop    *)
(* shown  what the user was told of the end of the turn                    *)
TurnState ==
    [session : Sessions \cup {None}, client : {"desktop", "mcp"},
     send : {"new", "admitted", "sent", "failed"},
     agent : {"none", "model", "tools", "stopped", "ended"}, asked : BOOLEAN,
     token : BOOLEAN, own : Seq(Kinds), heard : BOOLEAN,
     relay : {"none", "on", "finalizing", "closing", "off"},
     shown : Kinds \cup {"nothing"}]

\* The types of all variables.
TypeOK ==
    /\ active \in [Sessions -> Turns \cup {None}]
    /\ pending \in [Sessions -> Questions \cup {None}]
    /\ turn \in [Turns -> TurnState]
    /\ question \in [Questions -> QuestionStates]

Init ==
    /\ active = [s \in Sessions |-> None]
    /\ pending = [s \in Sessions |-> None]
    /\ turn = [t \in Turns |->
                [session |-> None, client |-> "desktop", send |-> "new", agent |-> "none",
                 asked |-> FALSE, token |-> FALSE, own |-> <<>>, heard |-> FALSE,
                 relay |-> "none", shown |-> "nothing"]]
    /\ question = [q \in Questions |-> "unasked"]

\* The turn becomes r.
Becomes(t, r) == turn' = [turn EXCEPT ![t] = r]

\* Mutant: the entry is removed whoever's it is.
ReleasedUnguarded(t) == [active EXCEPT ![turn[t].session] = None]

\* The entry of the turn, if it is still its own, is removed.
Released(t) == [s \in Sessions |-> IF active[s] = t THEN None ELSE active[s]]
-----------------------------------------------------------------------------
(* chat_send.                                                              *)

\* AppCore::chat_send looks for an active stream, then awaits.
Admit(t, s, client) ==
    /\ turn[t].send = "new"
    /\ \A u \in Turns : active[s] = u => turn[u].token
    /\ Becomes(t, [turn[t] EXCEPT !.send = "admitted", !.session = s, !.client = client])
    /\ UNCHANGED <<active, pending, question>>

\* process_direct_streaming has spawned the agent's task, or an earlier await
\* has failed.  The stream is registered, over any other.
Register(t) ==
    /\ turn[t].send = "admitted"
    /\ \/ /\ active' = [active EXCEPT ![turn[t].session] = t]
          /\ Becomes(t, [turn[t] EXCEPT !.send = "sent", !.agent = "model"])
       \/ /\ Becomes(t, [turn[t] EXCEPT !.send = "failed"])
          /\ UNCHANGED active
    /\ UNCHANGED <<pending, question>>

\* The desktop spawns the relay.
StartRelay(t) ==
    /\ turn[t].send = "sent" /\ turn[t].client = "desktop" /\ turn[t].relay = "none"
    /\ Becomes(t, [turn[t] EXCEPT !.relay = "on"])
    /\ UNCHANGED <<active, pending, question>>
-----------------------------------------------------------------------------
(* The agent's task.                                                       *)

\* The model's stream sees the cancellation: Cancelled on the own channel
\* and on the bus, where a relay that lags may miss it.
SeeCancel(t) ==
    /\ turn[t].agent = "model" /\ turn[t].token
    /\ \E hearers \in SUBSET {u \in Turns : turn[u].relay = "on"} :
         turn' = [u \in Turns |->
             LET r == IF u \in hearers THEN [turn[u] EXCEPT !.heard = TRUE] ELSE turn[u] IN
             IF u = t
               THEN [r EXCEPT !.agent = "stopped", !.own = Append(@, "cancelled")]
               ELSE r]
    /\ UNCHANGED <<active, pending, question>>

\* Mutant: a turn whose answer could not be saved ends without an event.
FinishSilently(t, kind) ==
    /\ \/ turn[t].agent = "model" /\ kind \in {"done", "error"}
       \/ turn[t].agent = "stopped" /\ kind = "done"
    /\ Becomes(t, [turn[t] EXCEPT !.agent = "ended",
                                  !.own = IF kind = "error" THEN @ ELSE Append(@, kind)])
    /\ UNCHANGED <<active, pending, question>>

\* Done after the answer, or after what there was of it, is saved; Error.
Finish(t, kind) ==
    /\ \/ turn[t].agent = "model" /\ kind \in {"done", "error"}
       \/ turn[t].agent = "stopped" /\ kind = "done"
    /\ Becomes(t, [turn[t] EXCEPT !.agent = "ended", !.own = Append(@, kind)])
    /\ UNCHANGED <<active, pending, question>>

\* A round of tools asks the user up to MaxAsks questions side by side.
\* Without a receiver the tools fail at once.
Ask(t, n) ==
    /\ turn[t].agent = "model" /\ ~turn[t].asked /\ turn[t].relay # "off"
    /\ question' = [q \in Questions |->
                     IF q[1] = t /\ q[2] <= n THEN "queued" ELSE question[q]]
    /\ Becomes(t, [turn[t] EXCEPT !.agent = "tools", !.asked = TRUE])
    /\ UNCHANGED <<active, pending>>

\* The tool's timeout drops its receiver; the sender stays where it is.
Expire(q) ==
    /\ turn[q[1]].agent = "tools" /\ question[q] \in {"queued", "open"}
    /\ question' = [question EXCEPT ![q] = "expired"]
    /\ UNCHANGED <<active, pending, turn>>

\* All tools of the round have returned.
ToolsReturn(t) ==
    /\ turn[t].agent = "tools"
    /\ \A n \in 1..MaxAsks : question[<<t, n>>] \notin {"queued", "open"}
    /\ Becomes(t, [turn[t] EXCEPT !.agent = "model"])
    /\ UNCHANGED <<active, pending, question>>
-----------------------------------------------------------------------------
(* The relay.                                                              *)

\* A question whose tool still waits gets this state.
Resolved(qs, state) ==
    [q \in Questions |-> IF q \in qs /\ question[q] \in {"queued", "open"}
                         THEN state ELSE question[q]]

\* Mutant: the map remembers who asks instead of the question.
TakeQuestionOfTurn(q) ==
    LET t == q[1]
        s == turn[t].session
    IN
    /\ turn[t].relay = "on" /\ question[q] = "queued"
    /\ pending' = [pending EXCEPT ![s] = t]
    /\ question' = [Resolved({pending[s]}, "dropped") EXCEPT ![q] = "open"]
    /\ UNCHANGED <<active, turn>>

\* The question is shown and put into the map, over any other.
TakeQuestion(q) ==
    LET t == q[1]
        s == turn[t].session
    IN
    /\ turn[t].relay = "on" /\ question[q] = "queued"
    /\ \A n \in 1..(q[2] - 1) : question[<<t, n>>] # "queued"
    /\ pending' = [pending EXCEPT ![s] = q]
    /\ question' = [Resolved({pending[s]}, "dropped") EXCEPT ![q] = "open"]
    /\ UNCHANGED <<active, turn>>

\* The first event that ends the relay, from its own channel or from the
\* bus.  Done is finalized before anything is shown; for the others the
\* entry goes, then the user is told.
TakeEnd(t) ==
    /\ turn[t].relay = "on"
    /\ \A q \in Questions : q[1] = t => question[q] # "queued"
    /\ \/ /\ turn[t].own # <<>> /\ Head(turn[t].own) = "done"
          /\ Becomes(t, [turn[t] EXCEPT !.relay = "finalizing", !.own = Tail(@)])
          /\ UNCHANGED active
       \/ /\ turn[t].own # <<>> /\ Head(turn[t].own) # "done"
          /\ active' = Released(t)
          /\ Becomes(t, [turn[t] EXCEPT !.relay = "closing", !.own = Tail(@),
                                        !.shown = Head(turn[t].own)])
       \/ /\ turn[t].heard
          /\ active' = Released(t)
          /\ Becomes(t, [turn[t] EXCEPT !.relay = "closing", !.heard = FALSE,
                                        !.shown = "cancelled"])
    /\ UNCHANGED <<pending, question>>

\* Mutant: Done is shown and only the guard removes the entry.
ShowDoneFirst(t) ==
    /\ turn[t].relay = "finalizing"
    /\ Becomes(t, [turn[t] EXCEPT !.relay = "closing", !.shown = "done"])
    /\ UNCHANGED <<active, pending, question>>

\* finalize_done has stored the metadata: the entry goes, then Done is shown.
ShowDone(t) ==
    /\ turn[t].relay = "finalizing"
    /\ active' = Released(t)
    /\ Becomes(t, [turn[t] EXCEPT !.relay = "closing", !.shown = "done"])
    /\ UNCHANGED <<pending, question>>

\* Mutant: the guard only removes the stream.
DropGuardOfStream(t) ==
    /\ turn[t].relay = "closing"
    /\ active' = Released(t)
    /\ Becomes(t, [turn[t] EXCEPT !.relay = "off"])
    /\ question' = Resolved({q \in Questions : q[1] = t /\ question[q] = "queued"}, "dropped")
    /\ UNCHANGED pending

\* auto_detect_context is over and the relay returns: the guard drops, and
\* with the receiver what is still in the interaction channel.
DropGuard(t) ==
    LET s == turn[t].session IN
    /\ turn[t].relay = "closing"
    /\ active' = Released(t)
    /\ pending' = [pending EXCEPT ![s] = None]
    /\ question' = Resolved({pending[s]} \cup {q \in Questions : q[1] = t /\ question[q] = "queued"},
                            "dropped")
    /\ Becomes(t, [turn[t] EXCEPT !.relay = "off"])

\* The MCP bridge reads the turn's own channel instead of a relay, declines
\* every question, ignores Cancelled, and touches neither map.
Collect(t) ==
    /\ turn[t].send = "sent" /\ turn[t].client = "mcp" /\ turn[t].relay = "none"
    /\ \/ \E q \in Questions :
            /\ q[1] = t /\ question[q] = "queued"
            /\ \A n \in 1..(q[2] - 1) : question[<<t, n>>] # "queued"
            /\ question' = [question EXCEPT ![q] = "answered"]
            /\ UNCHANGED turn
       \/ /\ turn[t].own # <<>> /\ Head(turn[t].own) = "cancelled"
          /\ Becomes(t, [turn[t] EXCEPT !.own = Tail(@)])
          /\ UNCHANGED question
       \/ /\ turn[t].own # <<>> /\ Head(turn[t].own) # "cancelled"
          /\ Becomes(t, [turn[t] EXCEPT !.own = Tail(@), !.relay = "off",
                                        !.shown = Head(turn[t].own)])
          /\ UNCHANGED question
    /\ UNCHANGED <<active, pending>>
-----------------------------------------------------------------------------
(* The user.                                                               *)

\* chat_cancel and chat_delete_thread answer the open question with
\* Cancelled, chat_force_reset drops it.
Cancel(s, state) ==
    /\ active[s] # None \/ pending[s] # None
    /\ state \in {"answered", "dropped"}
    /\ active' = [active EXCEPT ![s] = None]
    /\ turn' = IF active[s] = None THEN turn ELSE [turn EXCEPT ![active[s]].token = TRUE]
    /\ question' = Resolved({pending[s]}, state)
    /\ pending' = [pending EXCEPT ![s] = None]

\* chat_respond_interaction with the id of a question once shown: the entry
\* is removed first, the ids are compared afterwards.
Respond(s, q) ==
    /\ pending[s] # None
    /\ turn[q[1]].session = s /\ question[q] \notin {"unasked", "queued"}
    /\ question' = Resolved({pending[s]}, IF pending[s] = q THEN "answered" ELSE "dropped")
    /\ pending' = [pending EXCEPT ![s] = None]
    /\ UNCHANGED <<active, turn>>

\* What the program does without the user.
System(t) ==
    \/ Register(t) \/ StartRelay(t)
    \/ SeeCancel(t) \/ (\E kind \in Kinds : Finish(t, kind)) \/ ToolsReturn(t)
    \/ (\E n \in 1..MaxAsks : Expire(<<t, n>>) \/ TakeQuestion(<<t, n>>))
    \/ TakeEnd(t) \/ ShowDone(t) \/ DropGuard(t) \/ Collect(t)

Next ==
    \/ \E t \in Turns : System(t)
    \/ \E t \in Turns, n \in 1..MaxAsks : Ask(t, n)
    \/ \E t \in Turns, s \in Sessions, client \in {"desktop", "mcp"} : Admit(t, s, client)
    \/ \E s \in Sessions, state \in {"answered", "dropped"} : Cancel(s, state)
    \/ \E s \in Sessions, q \in Questions : Respond(s, q)

\* The tasks of a turn run: the runtime polls them, the model's stream ends
\* and a tool that waits for the user has a timeout.
Fairness ==
    \A t \in Turns :
        /\ WF_vars(Register(t) \/ StartRelay(t))
        /\ WF_vars(SeeCancel(t) \/ (\E kind \in Kinds : Finish(t, kind)) \/ ToolsReturn(t))
        /\ \A n \in 1..MaxAsks : WF_vars(Expire(<<t, n>>))
        /\ WF_vars(\/ \E n \in 1..MaxAsks : TakeQuestion(<<t, n>>)
                   \/ TakeEnd(t) \/ ShowDone(t) \/ DropGuard(t) \/ Collect(t))

Spec == Init /\ [][Next]_vars

FairSpec == Spec /\ Fairness
-----------------------------------------------------------------------------
\* Once the user is told that a turn has ended, the session can be sent to
\* again: its entry is gone before the event is emitted.
SendableAfterEnd ==
    \A t \in Turns : turn[t].shown # "nothing" /\ turn[t].client = "desktop" =>
        active[turn[t].session] # t

\* The entry of a stream goes when the user cancels it, when its own relay
\* ends, or when a later send takes its place: never with another's relay.
EntryGoesWithItsOwn ==
    [][\A s \in Sessions : \A t \in Turns :
         active[s] = t /\ active'[s] = None =>
             turn'[t].token \/ turn[t].relay # turn'[t].relay]_vars

\* No question stays in pending_interactions when the relay that showed it
\* is gone, though the user may have cancelled before it was shown.
NoQuestionWithoutRelay ==
    \A s \in Sessions : pending[s] # None => turn[pending[s][1]].relay # "off"

\* Every turn the desktop has sent comes to an end the user is told of.
EveryTurnIsClosed ==
    \A t \in Turns : turn[t].send = "sent" /\ turn[t].client = "desktop"
                        ~> turn[t].shown # "nothing"

\* "Emitted when the user cancels mid-LLM-stream": a turn shown as cancelled
\* was cancelled.
ShownCancelledWasCancelled ==
    \A t \in Turns : turn[t].shown = "cancelled" => turn[t].token
=============================================================================
