---------------------------- MODULE Collaboration ----------------------------
(***************************************************************************)
(* Presence of users on one saved workflow: the editor's collaboration     *)
(* store (editor-ui/src/stores/collaboration.store.ts) in each user's tab  *)
(* and the server's CollaborationService                                  *)
(* (cli/src/collaboration/collaboration.service.ts).                      *)
(*                                                                         *)
(* A tab sends workflowOpened and workflowClosed over its push connection *)
(* (a FIFO channel up[u]).  The server starts handleUserMessage for every *)
(* message it receives without waiting for the previous one, so several  *)
(* handlers are in flight at once; each awaits the access check, the      *)
(* state update, the state read and the user lookup, and then sends the   *)
(* collaborator list it read to every user on it.  The tab's listener     *)
(* replaces its list with what arrives.  A push to one tab travels on one *)
(* WebSocket, in order, so it is applied when it is sent: the lists that  *)
(* overtake each other are those of handlers running side by side.        *)
(*                                                                         *)
(* CollaborationState and the push layer are not in this repository: the  *)
(* state is the set of collaborators of the workflow, and a push to a     *)
(* user reaches the tab while that tab is loaded.                         *)
(***************************************************************************)
EXTENDS Naturals, Sequences, FiniteSets, Bags, BagsExt

CONSTANTS
    Users,        \* the users, each with one browser tab
    MaxQueue,     \* bound: messages queued on one tab's push channel
    MaxHandlers   \* bound: server message handlers in flight

VARIABLES
    page,         \* page[u]: "gone", "loaded", or "prompt" (beforeunload ran
                  \* with unsaved changes, and the user may stay)
    listening,    \* listening[u]: pushStoreEventListenerRemovalFn is set
    heartbeat,    \* heartbeat[u]: heartbeatTimer holds an armed interval
    view,         \* view[u]: collaboratorsForWorkflows[workflowId] in u's tab
    up,           \* up[u]: messages from u's tab to the server, in order
    state,        \* the server's collaborators of the workflow
    handlers      \* bag of in-flight handleUserMessage calls

vars == <<page, listening, heartbeat, view, up, state, handlers>>

Msgs == {"workflowOpened", "workflowClosed"}
\* A handler past the read holds the non-empty list it read.
Handler ==
    [user: Users, type: Msgs, pc: {"mutate", "read"}, snap: {{}}] \cup
    [user: Users, type: Msgs, pc: {"users"}, snap: SUBSET Users \ {{}}]

TypeOK ==
    /\ page \in [Users -> {"gone", "loaded", "prompt"}]
    /\ listening \in [Users -> BOOLEAN]
    /\ heartbeat \in [Users -> BOOLEAN]
    /\ view \in [Users -> SUBSET Users]
    /\ up \in [Users -> Seq(Msgs)]
    /\ state \in SUBSET Users
    /\ IsABag(handlers) /\ BagToSet(handlers) \subseteq Handler
    /\ \A u \in Users : Len(up[u]) <= MaxQueue

Init ==
    /\ page = [u \in Users |-> "gone"]
    /\ listening = [u \in Users |-> FALSE]
    /\ heartbeat = [u \in Users |-> FALSE]
    /\ view = [u \in Users |-> {}]
    /\ up = [u \in Users |-> <<>>]
    /\ state = {}
    /\ handlers = EmptyBag

-----------------------------------------------------------------------------
(* The tab *)

\* pushStore.send: the message is queued on u's connection.
Send(u, m) == up' = [up EXCEPT ![u] = Append(@, m)]
CanSend(u) == Len(up[u]) < MaxQueue

\* A page with the workflow open loads and creates the store.
Load(u) ==
    /\ page[u] = "gone"
    /\ page' = [page EXCEPT ![u] = "loaded"]
    /\ UNCHANGED <<listening, heartbeat, view, up, state, handlers>>

\* Fault variant: initialize does not start the heartbeat.
initialize_noHeartbeat(u) ==
    /\ page[u] = "loaded" /\ ~listening[u] /\ CanSend(u)
    /\ listening' = [listening EXCEPT ![u] = TRUE]
    /\ Send(u, "workflowOpened")
    /\ UNCHANGED <<page, heartbeat, view, state, handlers>>

\* initialize (L63-77): returns at once when the listener is set; otherwise
\* registers it, sends workflowOpened and (re)starts the heartbeat.
initialize(u) ==
    /\ page[u] = "loaded" /\ ~listening[u] /\ CanSend(u)
    /\ listening' = [listening EXCEPT ![u] = TRUE]
    /\ Send(u, "workflowOpened")
    /\ heartbeat' = [heartbeat EXCEPT ![u] = TRUE]
    /\ UNCHANGED <<page, view, state, handlers>>

\* notifyWorkflowClosed (L112-118): sends workflowClosed and removes the
\* current user from the local list.
notifyWorkflowClosed(u) ==
    /\ Send(u, "workflowClosed")
    /\ view' = [view EXCEPT ![u] = @ \ {u}]

\* terminate (L79-90): on leaving the workflow view; removes the listener
\* if one is set, notifies, stops the heartbeat and clears the unload
\* timeout.  It runs whether or not initialize ran.
terminate(u) ==
    /\ page[u] = "loaded" /\ CanSend(u)
    /\ listening' = [listening EXCEPT ![u] = FALSE]
    /\ notifyWorkflowClosed(u)
    /\ heartbeat' = [heartbeat EXCEPT ![u] = FALSE]
    /\ UNCHANGED <<page, state, handlers>>

\* The heartbeat interval fires notifyWorkflowOpened (L49-55, L103-110).
Heartbeat(u) ==
    /\ page[u] = "loaded" /\ heartbeat[u] /\ CanSend(u)
    /\ Send(u, "workflowOpened")
    /\ UNCHANGED <<page, listening, heartbeat, view, state, handlers>>

\* The beforeunload handler (L30-37) notifies that the workflow is closed.
\* With unsaved changes the browser asks the user whether to leave, and
\* the handler arms a 5 s timeout, which is no state: its callback is
\* () => notifyWorkflowOpened, which returns the function without calling
\* it, so nothing is sent when it fires.
BeforeUnload(u) ==
    /\ page[u] = "loaded" /\ CanSend(u)
    /\ page' = [page EXCEPT ![u] = "prompt"]
    /\ notifyWorkflowClosed(u)
    /\ UNCHANGED <<listening, heartbeat, state, handlers>>

\* The user answers the unsaved-changes prompt by staying.
Stay(u) ==
    /\ page[u] = "prompt"
    /\ page' = [page EXCEPT ![u] = "loaded"]
    /\ UNCHANGED <<listening, heartbeat, view, up, state, handlers>>

\* The page unloads: its timers, store and connection go.  Messages it has
\* already sent are still delivered.
Gone(u) ==
    /\ page' = [page EXCEPT ![u] = "gone"]
    /\ listening' = [listening EXCEPT ![u] = FALSE]
    /\ heartbeat' = [heartbeat EXCEPT ![u] = FALSE]
    /\ view' = [view EXCEPT ![u] = {}]

\* The user leaves at the prompt.
Leave(u) ==
    /\ page[u] = "prompt"
    /\ Gone(u)
    /\ UNCHANGED <<up, state, handlers>>

\* Without unsaved changes the page unloads right after beforeunload.
Unload(u) ==
    /\ page[u] = "loaded" /\ CanSend(u)
    /\ Send(u, "workflowClosed")
    /\ Gone(u)
    /\ UNCHANGED <<state, handlers>>

-----------------------------------------------------------------------------
(* The server *)

\* Move one handler h to its next step.
Step(h, h2) == handlers' = BagAdd(BagRemove(handlers, h), h2)
Done(h) == handlers' = BagRemove(handlers, h)

\* push.on('message') (L29-45): each message starts handleUserMessage,
\* which is not awaited by the next.  Every user modelled may read the
\* workflow, so hasUserAccessToWorkflow (L104-117) lets the handler on; its
\* await is one more point where handlers overtake each other, which the
\* handlers waiting at "mutate" in any order already cover.
Receive(u) ==
    /\ up[u] # <<>> /\ BagCardinality(handlers) < MaxHandlers
    /\ up' = [up EXCEPT ![u] = Tail(@)]
    /\ handlers' = BagAdd(handlers, [user |-> u, type |-> Head(up[u]),
                                     pc |-> "mutate", snap |-> {}])
    /\ UNCHANGED <<page, listening, heartbeat, view, state>>

\* await state.addCollaborator / removeCollaborator (L64, L76).
Mutate(h) ==
    /\ h.pc = "mutate"
    /\ state' = IF h.type = "workflowOpened" THEN state \cup {h.user}
                ELSE state \ {h.user}
    /\ Step(h, [h EXCEPT !.pc = "read"])
    /\ UNCHANGED <<page, listening, heartbeat, view, up>>

\* Fault variant: a list with a single user is not sent (<= 1 for === 0).
Read_skipSingle(h) ==
    /\ h.pc = "read"
    /\ IF Cardinality(state) <= 1 THEN Done(h)
       ELSE Step(h, [h EXCEPT !.pc = "users", !.snap = state])
    /\ UNCHANGED <<page, listening, heartbeat, view, up, state>>

\* Fault variant: the empty-list check is dropped.
Read_noEmptyCheck(h) ==
    /\ h.pc = "read"
    /\ Step(h, [h EXCEPT !.pc = "users", !.snap = state])
    /\ UNCHANGED <<page, listening, heartbeat, view, up, state>>

\* sendWorkflowUsersChangedMessage reads the collaborators (L84-88) and
\* returns when there are none.
Read(h) ==
    /\ h.pc = "read"
    /\ IF state = {} THEN Done(h)
       ELSE Step(h, [h EXCEPT !.pc = "users", !.snap = state])
    /\ UNCHANGED <<page, listening, heartbeat, view, up, state>>

\* After awaiting the user lookup, push the list it read to every user on
\* it (L90-101).  The push listener of each tab (L68-73) replaces its list;
\* a tab without a listener ignores the event.
sendWorkflowUsersChangedMessage(h) ==
    /\ h.pc = "users"
    /\ view' = [v \in Users |-> IF v \in h.snap /\ listening[v] THEN h.snap ELSE view[v]]
    /\ Done(h)
    /\ UNCHANGED <<page, listening, heartbeat, up, state>>

-----------------------------------------------------------------------------
TabNext(u) ==
    \/ Load(u) \/ initialize(u) \/ terminate(u) \/ Heartbeat(u)
    \/ BeforeUnload(u) \/ Stay(u) \/ Leave(u) \/ Unload(u)

\* One awaited step of the in-flight handler h.
HandlerStep(h) ==
    /\ h \in BagToSet(handlers)
    /\ Mutate(h) \/ Read(h) \/ sendWorkflowUsersChangedMessage(h)

ServerNext ==
    \/ \E u \in Users : Receive(u)
    \/ \E h \in BagToSet(handlers) : HandlerStep(h)

Next == (\E u \in Users : TabNext(u)) \/ ServerNext

\* Timers, deliveries and the server's awaited calls all complete: the
\* event loops run every callback that stays ready.  The user's own
\* actions (load, leave, stay, navigate away) are not forced.  A heartbeat
\* and the receipt of a message are disabled only by the model's bounds
\* (MaxQueue, MaxHandlers), which other traffic can fill again and again;
\* the code has no such bound, so these two are strongly fair.
Fairness ==
    /\ \A u \in Users :
          /\ SF_vars(Heartbeat(u))
          /\ SF_vars(Receive(u))
    /\ \A h \in Handler : WF_vars(HandlerStep(h))

Spec == Init /\ [][Next]_vars /\ Fairness

-----------------------------------------------------------------------------
(* Properties *)

\* A tab with the workflow open.
Open(u) == page[u] = "loaded" /\ listening[u]

\* Every open tab's user is eventually listed as a collaborator on the
\* server, whatever closes and opens of the same user were reordered by
\* the concurrent handlers, and although nothing re-sends workflowOpened
\* when the user stays after beforeunload: the heartbeat repairs both.
PresenceRestored ==
    \A u \in Users : Open(u) ~> (u \in state \/ ~Open(u))

\* Every open tab eventually shows its own user in its collaborator list:
\* the server pushes each list it reads to the users on it, the tab's own
\* user included.
SeesItself ==
    \A u \in Users : Open(u) ~> (u \in view[u] \/ ~Open(u))

=============================================================================
