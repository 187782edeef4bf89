------------------------------ MODULE Frontend ------------------------------
(***************************************************************************)
(* The terminal user interface (ui.App) on its node, in process through    *)
(* DirectBackend or attached through GRPCBackend and the API server's      *)
(* event stream.  Bubble Tea applies messages one at a time to a value of  *)
(* type App (Update, a function of the value and the message) and runs     *)
(* every command it returns in a goroutine of its own, so commands finish  *)
(* and their messages arrive in any order: both are bags.                  *)
(***************************************************************************)
EXTENDS Chat, Bags

CONSTANTS
  Offers,                         \* incoming file offers: streams to the Receiver
  TransferIds, IdOf,              \* IdOf[f]: the transfer id that the sender of f chose
  Ready, Bootstrapping, Unknown,  \* Node.torState, and what a failed GetStatus leaves
  StreamWindow,                   \* events the gRPC stream holds under way
  Mixes                           \* what happens in a behaviour: see Init

Events ==
  [type : Types \ {"file_offer"}, of : Peers \cup {None}] \cup [type : {"file_offer"}, of : Offers]

\* None is no event and no channel, and every mix says how the interface is run.  Two
\* offers may have one transfer id.
ASSUME FrontendAssumption ==
  /\ "file_offer" \in Types
  /\ None \notin Events \cup Seq(Events) \cup Offers
  /\ IdOf \in [Offers -> TransferIds] /\ Offers \cap (Peers \cup TransferIds) = {}
  /\ \A m \in Mixes : "mode" \in DOMAIN m

VARIABLES
  mix,        \* the backend, and how often each thing from outside may still happen
  torState,   \* Node.torState
  pending,    \* Node.pendingReqs
  parked,     \* Receiver.pending: parked[i], the offer under transfer id i, or None
  handling,   \* handling[f]: handleIncoming of f, "none", "waiting", "decided" or "over"
  decision,   \* decision[f]: f's channel, of capacity 1, and behind its content the
              \* decisions of the calls that wait to send
  store,      \* contacts.Store
  wire, ch,   \* attached: events on the gRPC stream, GRPCBackend's channel
  stream,     \* attached: the Subscribe call, "none", "open" or "broken"
  app,        \* the App value
  cmds, msgs, \* commands that run, messages for Update
  running,    \* the program has neither quit nor panicked
  yes, granted,  \* history: how often the user said yes to a prompt that showed a peer, a
                 \* file or its transfer id, and how often it was accepted
  finished       \* history: file sends that completed

receiver == <<parked, handling, decision>>
node == <<torState, pending, receiver, store>>
vars == <<mix, node, bus, chat, wire, ch, stream, app, cmds, msgs, running, yes, granted, finished>>

Subjects == Peers \cup Offers \cup TransferIds
Counted(f, S) == [s \in DOMAIN f |-> f[s] + (IF s \in S THEN 1 ELSE 0)]
direct == mix.mode = "direct"

Cmd(op, arg) == [op |-> op, arg |-> arg]
Result(a, do) == [app |-> a, do |-> do]

NewApp ==
  [screen |-> "Splash", prev |-> "Splash", identityReady |-> FALSE, torReady |-> FALSE,
   contacts |-> <<>>, online |-> {}, cursor |-> 1, prompt |-> None, offer |-> None,
   chat |-> None, lines |-> <<>>, picker |-> None, items |-> <<>>, eventChan |-> FALSE]

\* A behaviour begins with App.Init, or later, when the contacts are on the screen
\* and the first event is waited for.
Init ==
  /\ mix \in Mixes
  /\ torState = mix.tor
  /\ pending = {} /\ store = mix.contacts
  /\ parked = [i \in TransferIds |-> None]
  /\ handling = [f \in Offers |-> "none"] /\ decision = [f \in Offers |-> <<>>]
  /\ ChatInit
  /\ wire = <<>> /\ ch = <<>> /\ stream = "none"
  /\ IF mix.cold
     THEN /\ BusInit
          /\ app = NewApp
          /\ cmds = SetToBag({Cmd(op, <<>>) : op \in {"loadIdentity", "loadStatus", "subscribe"}})
     ELSE /\ BusSubscribed
          /\ \E list \in SetToSeqs(store) :
               app = [NewApp EXCEPT !.screen = "Home", !.identityReady = TRUE, !.torReady = TRUE,
                                    !.contacts = list, !.eventChan = TRUE]
          /\ cmds = SetToBag({Cmd("wait", <<>>)})
  /\ msgs = EmptyBag
  /\ running = TRUE
  /\ yes = [s \in Subjects |-> 0]
  /\ granted = [s \in Subjects |-> 0]
  /\ finished = 0

-----------------------------------------------------------------------------
(* Update: what a message does to the App value, and the commands it       *)
(* returns.                                                                *)

AtSplash(a) == a.identityReady /\ a.torReady /\ a.screen = "Splash"
\* maybeTransition, with the commands its callers add when it says TRUE.
maybeTransition(a, do) ==
  IF AtSplash(a) THEN Result([a EXCEPT !.screen = "Home"], do \cup {Cmd("loadContacts", <<>>)})
  ELSE Result(a, do)

identityLoaded(a) == maybeTransition([a EXCEPT !.identityReady = TRUE], {})
statusLoaded(a, state) ==
  IF state = Ready THEN maybeTransition([a EXCEPT !.torReady = TRUE], {}) ELSE Result(a, {})

\* A finished decision returns to the screen the prompt had covered.
decisionDone(a) == Result([a EXCEPT !.screen = a.prev], {})
contactSaved(a) == Result([a EXCEPT !.screen = "Home"], {Cmd("loadContacts", <<>>)})
nodeScreenDone(a) == Result([a EXCEPT !.screen = "Home"], {})

AddMessage(a, mine) == [a EXCEPT !.lines = Append(@, [mine |-> mine, acked |-> ~mine])]
chatSend(a, arg) == Result(AddMessage(a, TRUE), {Cmd("sendChat", arg)})

MutChatSent(a, arg) ==
  LET waiting == {i \in DOMAIN a.lines : a.lines[i].mine /\ ~a.lines[i].acked}
  IN IF waiting = {} THEN Result(a, {})
     ELSE Result([a EXCEPT !.lines[CHOOSE i \in waiting : \A j \in waiting : j <= i].acked = TRUE], {})

\* A send that went through marks the last message that waits, whichever it was.
chatSent(a, arg) ==
  LET waiting == {i \in DOMAIN a.lines : a.lines[i].mine /\ ~a.lines[i].acked}
  IN IF arg = <<>> \/ waiting = {} THEN Result(a, {})
     ELSE Result([a EXCEPT !.lines[CHOOSE i \in waiting : \A j \in waiting : j <= i].acked = TRUE], {})

fileSelected(a, arg) ==
  Result([a EXCEPT !.screen = "Transfer", !.items = Append(@, [done |-> FALSE, failed |-> FALSE])],
         {Cmd("sendFile", arg)})
\* A failure goes to the first send that has neither ended nor failed, a success
\* to the first that has not ended.
fileSendDone(a, arg) ==
  LET ok == arg # <<>>
      open == {i \in DOMAIN a.items : ~a.items[i].done /\ (ok \/ ~a.items[i].failed)}
      i == CHOOSE i \in open : \A j \in open : i <= j
  IN IF open = {} THEN Result(a, {})
     ELSE Result(IF ok THEN [a EXCEPT !.items[i].done = TRUE] ELSE [a EXCEPT !.items[i].failed = TRUE], {})

NextEvent == Cmd("wait", <<>>)

\* What handleEvent can use of a payload: in process the Go value itself, through
\* the stream what JSON makes of it, a string or a map.
Usable(e) == direct \/ e.type \in {"tor_ready", "connection_request"}

MutTorReady(a) ==
  IF AtSplash([a EXCEPT !.torReady = TRUE])
  THEN Result([a EXCEPT !.torReady = TRUE, !.screen = "Home"],
              {Cmd("loadStatus", <<>>), Cmd("loadContacts", <<>>)})
  ELSE Result([a EXCEPT !.torReady = TRUE], {NextEvent, Cmd("loadStatus", <<>>)})

TorReady(a) == maybeTransition([a EXCEPT !.torReady = TRUE], {NextEvent, Cmd("loadStatus", <<>>)})
ConnectionReq(a, addr) ==
  Result([a EXCEPT !.prev = a.screen, !.screen = "ConnPrompt", !.prompt = addr], {NextEvent})
FileOffer(a, f) ==
  Result([a EXCEPT !.prev = a.screen, !.screen = "FileOffer", !.offer = f], {NextEvent})

\* Every case asks for the next event.
handleEvent(a, e) ==
  CASE e.type = "tor_ready" -> TorReady(a)
    [] e.type = "connection_request" -> ConnectionReq(a, e.of)
    [] e.type = "file_offer" /\ Usable(e) -> FileOffer(a, e.of)
    [] e.type = "chat_message" /\ Usable(e) /\ a.screen = "Chat" /\ a.chat = e.of ->
         Result(AddMessage(a, FALSE), {NextEvent})
    [] e.type = "peer_online" /\ Usable(e) /\ e.of \in ToSet(a.contacts) ->
         Result([a EXCEPT !.online = @ \cup {e.of}], {NextEvent})
    [] OTHER -> Result(a, {NextEvent})

\* The answer of a prompt carries the address, or the transfer id, that the prompt
\* showed when the key was pressed.
MutConnAccepted(a, arg) == Result(a, {Cmd("acceptConn", <<a.prompt>>)})
ConnAccepted(a, arg) == Result(a, {Cmd("acceptConn", arg)})

Update(a, m) ==
  CASE m.op = "identityLoaded" -> identityLoaded(a)
    [] m.op = "statusLoaded" -> statusLoaded(a, m.arg[1])
    [] m.op = "contactsLoaded" -> Result([a EXCEPT !.contacts = m.arg, !.online = {}], {})
    [] m.op \in {"connDecisionDone", "fileDecisionDone"} -> decisionDone(a)
    [] m.op = "AddContactSaved" -> Result(a, {Cmd("saveContact", m.arg)})
    [] m.op = "contactSaved" -> contactSaved(a)
    [] m.op = "AddNodeSaved" -> Result(a, {Cmd("saveNode", <<>>)})
    [] m.op = "nodeSaved" -> Result(a, {Cmd("tick", <<>>)})
    [] m.op = "nodeScreenDone" -> nodeScreenDone(a)
    [] m.op = "ConnAccepted" -> ConnAccepted(a, m.arg)
    [] m.op = "ConnRejected" -> Result(a, {Cmd("rejectConn", m.arg)})
    [] m.op = "ChatSend" -> chatSend(a, m.arg)
    [] m.op = "chatSent" -> chatSent(a, m.arg)
    [] m.op = "FileSelected" -> fileSelected(a, m.arg)
    [] m.op = "fileSendDone" -> fileSendDone(a, m.arg)
    [] m.op = "FileAccepted" -> Result(a, {Cmd("acceptFile", m.arg)})
    [] m.op = "FileRejected" -> Result(a, {Cmd("rejectFile", m.arg)})
    [] m.op = "eventChan" -> Result([a EXCEPT !.eventChan = TRUE], {NextEvent})
    [] m.op = "event" -> handleEvent(a, m.arg[1])
    [] OTHER -> Result(a, {})      \* errors shown on a form, a cancel, debug information

-----------------------------------------------------------------------------
(* Keys, per screen.  x is what was typed or the identifier of the message *)
(* that is sent.                                                           *)

Show(a, screen, do) == Result([a EXCEPT !.screen = screen], do)
Emit(a, op, arg) == Result(a, {Cmd(op, arg)})
Selected(a) == a.contacts[a.cursor]

NewChat(a, addr) == Result([a EXCEPT !.screen = "Chat", !.chat = addr, !.lines = <<>>], {})
HomeUpdate(a, k) ==
  IF k = "down" /\ a.cursor < Len(a.contacts) THEN Result([a EXCEPT !.cursor = @ + 1], {})
  ELSE Result(a, {})

HomeKey(a, k) ==
  CASE k = "a" -> Show(a, "AddContact", {})
    [] k = "n" -> Show(a, "AddNode", {})
    [] k = "d" -> Show(a, "Debug", {Cmd("loadDebugInfo", <<>>)})
    [] k = "s" -> Show(a, "Settings", {})
    [] k = "t" -> Show(a, "Transfer", {})
    [] k = "f" /\ a.contacts # <<>> ->
         Result([a EXCEPT !.screen = "FilePicker", !.picker = Selected(a)], {})
    [] k = "enter" /\ a.contacts # <<>> -> NewChat(a, Selected(a))
    [] OTHER -> HomeUpdate(a, k)

ConnPromptUpdate(a, k) ==
  CASE k = "y" -> Emit(a, "ConnAccepted", <<a.prompt>>)
    [] k = "n" -> Emit(a, "ConnRejected", <<a.prompt>>)
    [] OTHER -> Result(a, {})
FileOfferUpdate(a, k) ==
  CASE k = "y" -> Emit(a, "FileAccepted", <<IdOf[a.offer]>>)
    [] k = "n" -> Emit(a, "FileRejected", <<IdOf[a.offer]>>)
    [] OTHER -> Result(a, {})

\* Forms; what is typed passes the form's check, or the key does nothing.
AddContactUpdate(a, k, addr) ==
  IF k = "enter" THEN Emit(a, "AddContactSaved", <<addr>>) ELSE Result(a, {})
AddNodeUpdate(a, k) == IF k = "enter" THEN Emit(a, "AddNodeSaved", <<>>) ELSE Result(a, {})
ChatUpdate(a, k, n) == IF k = "enter" THEN Emit(a, "ChatSend", <<a.chat, n>>) ELSE Result(a, {})
FilePickerUpdate(a, k) ==
  IF k = "enter" THEN Emit(a, "FileSelected", <<a.picker>>) ELSE Result(a, {})

\* Cancelling is possible for a transfer that has not ended; the App ignores it.
TransferUpdate(a, k) ==
  IF k = "c" /\ \E i \in DOMAIN a.items : ~a.items[i].done /\ ~a.items[i].failed
  THEN Emit(a, "TransferCancel", <<>>) ELSE Result(a, {})

handleKey(a, k, x) ==
  CASE a.screen \notin {"Home", "Splash", "ConnPrompt", "FileOffer"} /\ k = "esc" ->
         Show(a, "Home", {})
    [] a.screen = "Home" -> HomeKey(a, k)
    [] a.screen = "ConnPrompt" -> ConnPromptUpdate(a, k)
    [] a.screen = "FileOffer" -> FileOfferUpdate(a, k)
    [] a.screen = "AddContact" -> AddContactUpdate(a, k, x)
    [] a.screen = "AddNode" -> AddNodeUpdate(a, k)
    [] a.screen = "Chat" -> ChatUpdate(a, k, x)
    [] a.screen = "FilePicker" -> FilePickerUpdate(a, k)
    [] a.screen = "Transfer" -> TransferUpdate(a, k)
    [] OTHER -> Result(a, {})

\* Home indexes its list with a cursor that a shorter list has left behind.
OutOfRange(a, k) ==
  a.screen = "Home" /\ k \in {"f", "enter"} /\ a.contacts # <<>> /\ a.cursor > Len(a.contacts)

-----------------------------------------------------------------------------
(* The program: keys and messages.                                         *)

outside == <<node, bus, chat, wire, ch, stream>>
history == <<yes, granted, finished>>
Spend(what) == mix[what] > 0 /\ mix' = [mix EXCEPT ![what] = @ - 1]
Becomes(r) == app' = r.app /\ cmds' = cmds (+) SetToBag(r.do)

Fresh(n) == exchange[n].sender = "idle"
         /\ \A c \in BagToSet(cmds) \cup BagToSet(msgs) :
              c.op \in {"ChatSend", "sendChat"} => c.arg[2] # n

\* A key is pressed; a "y" at a prompt is the user's consent to what it shows.
Press ==
  /\ running /\ Spend("presses")
  /\ \E k \in mix.keys, x \in Peers \cup Sends :
       /\ IF app.screen = "Chat" /\ k = "enter" THEN x \in Sends /\ Fresh(x)
          ELSE IF app.screen = "AddContact" /\ k = "enter" THEN x \in Peers
          ELSE x = CHOOSE a \in Peers : TRUE
       /\ ~OutOfRange(app, k)
       /\ Becomes(handleKey(app, k, x))
       /\ yes' = CASE app.screen = "ConnPrompt" /\ k = "y" -> Counted(yes, {app.prompt})
                   [] app.screen = "FileOffer" /\ k = "y" -> Counted(yes, {app.offer, IdOf[app.offer]})
                   [] OTHER -> yes
  /\ UNCHANGED <<outside, msgs, running, granted, finished>>

\* The program ends: a quit key, or the panic of an index out of range.
Quit ==
  /\ running /\ Spend("quits") /\ running' = FALSE
  /\ UNCHANGED <<outside, app, cmds, msgs, history>>
Panic ==
  /\ running /\ \E k \in mix.keys : OutOfRange(app, k)
  /\ Spend("presses") /\ running' = FALSE
  /\ UNCHANGED <<outside, app, cmds, msgs, history>>

Handled(m) ==
  inflight' = IF m.op = "event" /\ inflight[m.arg[1].type] # <<>>
              THEN [inflight EXCEPT ![m.arg[1].type] = Tail(@)] ELSE inflight

UpdateApp ==
  /\ running
  /\ \E m \in BagToSet(msgs) :
       /\ Becomes(Update(app, m))
       /\ msgs' = msgs (-) SetToBag({m})
       /\ Handled(m)
  /\ UNCHANGED <<mix, node, subs, held, merged, gone, chat, wire, ch, stream, running, history>>

-----------------------------------------------------------------------------
(* The backend: DirectBackend asks the node, GRPCBackend the API server,   *)
(* which asks the node; a call over a broken connection is an error.       *)

Reachable == direct \/ stream # "broken"
OverGrpc(answers, error) == IF Reachable THEN answers ELSE error

ServerGetStatus == torState
GRPCGetStatus == OverGrpc(ServerGetStatus, Unknown)
GetStatus == IF direct THEN torState ELSE GRPCGetStatus

\* Store.List walks a map, so the order is any.
List == SetToSeqs(store)
ServerListContacts == List
GRPCListContacts == OverGrpc(ServerListContacts, {<<>>})
ListContacts == IF direct THEN List ELSE GRPCListContacts

\* The contact is there even when the save, whose outcome is saved, failed.
ServerAddContact(a, saved) == store' = store \cup {a}
GRPCAddContact(a, saved) == IF Reachable THEN ServerAddContact(a, saved) ELSE ~saved /\ store' = store
AddContact(a, saved) == IF direct THEN store' = store \cup {a} ELSE GRPCAddContact(a, saved)

\* Node.AcceptConnection and RejectConnection: the entry goes, and the answer to
\* a request that is not there is an error.
NodeDecides(a, accepted) ==
  /\ pending' = pending \ {a}
  /\ granted' = IF accepted /\ a \in pending THEN Counted(granted, {a}) ELSE granted
ServerDecides(a, accepted) == NodeDecides(a, accepted)
GRPCDecides(a, accepted) ==
  IF Reachable THEN ServerDecides(a, accepted) ELSE UNCHANGED <<pending, granted>>
Decides(a, accepted) == IF direct THEN NodeDecides(a, accepted) ELSE GRPCDecides(a, accepted)

\* AcceptFile and RejectFile of the Receiver, through the functions the daemon set on the
\* node: the decision goes to the offer that is under the id by now, which stays there.
Finds(i) == Reachable /\ parked[i] # None
NodeDecidesFile(i, d) == decision' = [decision EXCEPT ![parked[i]] = Append(@, d)]
DecidesFile(i, d) == IF Finds(i) THEN NodeDecidesFile(i, d) ELSE decision' = decision
\* The call waits while an earlier decision is in the channel.
Blocks(i) == Finds(i) /\ decision[parked[i]] # <<>>

\* Outcomes of a call that takes its time: over gRPC it may end with the connection.
GRPCOutcome(ok) == ok => Reachable
SendFileOutcome(ok) == direct \/ GRPCOutcome(ok)

-----------------------------------------------------------------------------
(* Commands.                                                               *)

\* Command c has run; ms are the messages it returned, one or none.
Returns(c, ms) ==
  /\ BagIn(c, cmds)
  /\ cmds' = cmds (-) SetToBag({c})
  /\ msgs' = msgs (+) SetToBag(ms)
  /\ UNCHANGED <<mix, app, running, yes>>

loadIdentity(c) == c.op = "loadIdentity" /\ Returns(c, {Cmd("identityLoaded", <<>>)})
loadStatus(c) == c.op = "loadStatus" /\ Returns(c, {Cmd("statusLoaded", <<GetStatus>>)})
loadContacts(c) ==
  c.op = "loadContacts" /\ \E list \in ListContacts : Returns(c, {Cmd("contactsLoaded", list)})
loadDebugInfo(c) == c.op = "loadDebugInfo" /\ Returns(c, {Cmd("debugLoaded", <<>>)})
\* The two seconds the success of AddNode stays on the screen.
tick(c) == c.op = "tick" /\ Returns(c, {Cmd("nodeScreenDone", <<>>)})
\* A message of a screen to the App is a command too.
emit(c) ==
  /\ c.op \in {"ConnAccepted", "ConnRejected", "FileAccepted", "FileRejected", "AddContactSaved",
               "AddNodeSaved", "ChatSend", "FileSelected", "TransferCancel"}
  /\ Returns(c, {c})
Query(c) ==
  /\ loadIdentity(c) \/ loadStatus(c) \/ loadContacts(c) \/ loadDebugInfo(c) \/ tick(c) \/ emit(c)
  /\ UNCHANGED <<outside, granted, finished>>

\* acceptConn and rejectConn; the App does not look at the error.
Decide(c) ==
  /\ c.op \in {"acceptConn", "rejectConn"}
  /\ Decides(c.arg[1], c.op = "acceptConn")
  /\ Returns(c, {Cmd("connDecisionDone", <<>>)})
  /\ UNCHANGED <<torState, receiver, store, bus, chat, wire, ch, stream, finished>>

FileDecisionDone == Cmd("fileDecisionDone", <<>>)
DecideFile(c) ==
  /\ c.op \in {"acceptFile", "rejectFile"}
  /\ DecidesFile(c.arg[1], IF c.op = "acceptFile" THEN "yes" ELSE "no")
  /\ Returns(c, IF Blocks(c.arg[1]) THEN {} ELSE {FileDecisionDone})
  /\ UNCHANGED <<torState, pending, parked, handling, store, bus, chat, wire, ch, stream, granted, finished>>

saveContact(c) ==
  /\ c.op = "saveContact"
  /\ \E saved \in BOOLEAN :
       /\ AddContact(c.arg[1], saved)
       /\ Returns(c, {Cmd(IF saved THEN "contactSaved" ELSE "contactSaveErr", <<>>)})
  /\ UNCHANGED <<torState, pending, receiver, bus, chat, wire, ch, stream, granted, finished>>

saveNode(c) ==
  /\ c.op = "saveNode"
  /\ \E ok \in BOOLEAN :
       /\ direct \/ GRPCOutcome(ok)
       /\ Returns(c, {Cmd(IF ok THEN "nodeSaved" ELSE "nodeSaveErr", <<>>)})
  /\ UNCHANGED <<outside, granted, finished>>

\* sendFile waits for the end of the transfer.
sendFile(c) ==
  /\ c.op = "sendFile"
  /\ \E ok \in BOOLEAN :
       /\ SendFileOutcome(ok)
       /\ finished' = finished + (IF ok THEN 1 ELSE 0)
       /\ Returns(c, {Cmd("fileSendDone", IF ok THEN c.arg ELSE <<>>)})
  /\ UNCHANGED <<outside, granted>>

\* sendChatMessage starts the exchange and returns when the exchange has ended.
sendChatMessage(c) ==
  /\ c.op = "sendChat" /\ BagIn(c, cmds)
  /\ \E ok \in BOOLEAN : (direct \/ GRPCOutcome(ok)) /\ SendMessage(c.arg[2], c.arg[1], ok)
  /\ UNCHANGED <<mix, node, bus, wire, ch, stream, app, cmds, msgs, running, history>>
SendReturns(c) ==
  /\ c.op = "sendChat" /\ exchange[c.arg[2]].sender \in {"ok", "failed"}
  /\ LET ok == exchange[c.arg[2]].sender = "ok" /\ Reachable
     IN Returns(c, {Cmd("chatSent", IF ok THEN c.arg ELSE <<>>)})
  /\ UNCHANGED <<outside, granted, finished>>
Exchange ==
  /\ \E n \in Sends :
       WriteText(n) \/ PeerIngests(n) \/ PeerReturns(n) \/ ReadAck(n) \/ AckTimeout(n)
  /\ UNCHANGED <<mix, node, bus, wire, ch, stream, app, cmds, msgs, running, history>>

\* In process Subscribe returns once every type is subscribed; attached it returns
\* as soon as the stream exists, before the server has subscribed anything.
subscribeEvents(c) ==
  /\ c.op = "subscribe"
  /\ IF direct THEN Unsubscribed = {} /\ stream' = stream
     ELSE stream' = IF stream = "none" THEN "open" ELSE stream
  /\ Returns(c, {Cmd("eventChan", <<>>)})
  /\ UNCHANGED <<node, bus, chat, wire, ch, granted, finished>>
SubscribeAll ==
  /\ direct \/ stream = "open"
  /\ \E t \in Types : Subscribe(t)
  /\ UNCHANGED <<mix, node, chat, wire, ch, stream, app, cmds, msgs, running, history>>

\* waitForEvent reads the channel; a closed one ends the chain without a message.
waitForEvent(c) ==
  /\ c.op = "wait"
  /\ \/ /\ direct /\ merged # <<>>
        /\ merged' = Tail(merged) /\ ch' = ch
        /\ Returns(c, {Cmd("event", <<Head(merged)>>)})
     \/ /\ ~direct /\ ch # <<>>
        /\ ch' = Tail(ch) /\ merged' = merged
        /\ Returns(c, {Cmd("event", <<Head(ch)>>)})
     \/ /\ ~direct /\ ch = <<>> /\ stream = "broken"
        /\ Returns(c, {}) /\ UNCHANGED <<merged, ch>>
  /\ UNCHANGED <<node, subs, held, gone, inflight, chat, wire, stream, granted, finished>>

RunCmd(c) ==
  \/ Query(c) \/ Decide(c) \/ DecideFile(c) \/ saveContact(c) \/ saveNode(c) \/ sendFile(c)
  \/ sendChatMessage(c) \/ SendReturns(c) \/ subscribeEvents(c) \/ waitForEvent(c)
RunSomeCmd == running /\ \E c \in BagToSet(cmds) : RunCmd(c)

-----------------------------------------------------------------------------
(* Events on their way: the bus, and attached the stream.                  *)

program == <<app, cmds, msgs, running, history>>

ForwardEvent ==
  /\ \E t \in Types : TakeEvent(t) \/ PutEvent(t)
  /\ UNCHANGED <<mix, node, chat, wire, ch, stream, program>>

\* A FileOffer carries its decision channel, which JSON cannot encode.
Marshals(e) == e.type # "file_offer"
\* forwardToStream sends, and passes over what it cannot marshal.
SendToStream ==
  /\ stream = "open" /\ merged # <<>>
  /\ LET e == Head(merged)
     IN /\ Marshals(e) => Len(wire) < StreamWindow
        /\ wire' = IF Marshals(e) THEN Append(wire, e) ELSE wire
        /\ inflight' = IF Marshals(e) THEN inflight ELSE [inflight EXCEPT ![e.type] = Tail(@)]
  /\ merged' = Tail(merged)
  /\ UNCHANGED <<mix, node, subs, held, gone, chat, ch, stream, program>>

\* The receiving goroutine skips types it has no name for.
RecvFromStream ==
  /\ stream = "open" /\ wire # <<>>
  /\ LET e == Head(wire)
         named == e.type # "peer_online"
     IN /\ named => Len(ch) < SubscriberBuffer
        /\ ch' = IF named THEN Append(ch, e) ELSE ch
        /\ inflight' = IF named THEN inflight ELSE [inflight EXCEPT ![e.type] = Tail(@)]
  /\ wire' = Tail(wire)
  /\ UNCHANGED <<mix, node, subs, held, merged, gone, chat, stream, program>>

BreakStream ==
  /\ ~direct /\ Spend("breaks") /\ stream' = "broken"
  /\ Unsubscribe
  /\ wire' = <<>>
  /\ UNCHANGED <<node, chat, ch, program>>

-----------------------------------------------------------------------------
(* What happens at the node.                                               *)

TorBecomesReady ==
  /\ torState = Bootstrapping /\ torState' = Ready
  /\ Publish(Event("tor_ready", None))
  /\ UNCHANGED <<mix, pending, receiver, store, chat, wire, ch, stream, program>>

\* handleConnectionRequest: a later request of a peer replaces its earlier one.
ConnectionRequest ==
  /\ torState = Ready /\ Spend("requests")
  /\ \E a \in Peers : pending' = pending \cup {a} /\ Publish(Event("connection_request", a))
  /\ UNCHANGED <<torState, receiver, store, chat, wire, ch, stream, program>>

\* handleIncoming of the Receiver: an offer takes the place of one with its transfer id.
OfferArrives ==
  /\ \E f \in Offers :
       /\ f \in mix.files
       /\ handling[f] = "none" /\ handling' = [handling EXCEPT ![f] = "waiting"]
       /\ parked' = [parked EXCEPT ![IdOf[f]] = f]
       /\ Publish(Event("file_offer", f))
  /\ UNCHANGED <<mix, torState, pending, decision, store, chat, wire, ch, stream, program>>
\* It takes the first decision, which lets the next call send its own, or stops waiting.
OfferDecided(f) ==
  /\ handling[f] = "waiting" /\ decision[f] # <<>>
  /\ handling' = [handling EXCEPT ![f] = "decided"]
  /\ decision' = [decision EXCEPT ![f] = Tail(@)]
  /\ granted' = IF Head(decision[f]) = "yes" THEN Counted(granted, {f, IdOf[f]}) ELSE granted
  /\ msgs' = msgs (+) SetToBag(IF Len(decision[f]) > 1 THEN {FileDecisionDone} ELSE {})
  /\ UNCHANGED <<mix, torState, pending, parked, store, bus, chat, wire, ch, stream, app, cmds, running,
                 yes, finished>>
OfferTimeout(f) ==
  /\ handling[f] = "waiting" /\ handling' = [handling EXCEPT ![f] = "decided"]
  /\ UNCHANGED <<mix, torState, pending, parked, decision, store, bus, chat, wire, ch, stream, program>>
\* Then it removes whatever is under its transfer id.
OfferForgotten(f) ==
  /\ handling[f] = "decided" /\ handling' = [handling EXCEPT ![f] = "over"]
  /\ parked' = [parked EXCEPT ![IdOf[f]] = None]
  /\ UNCHANGED <<mix, torState, pending, decision, store, bus, chat, wire, ch, stream, program>>
OfferHandled == \E f \in Offers : OfferDecided(f) \/ OfferForgotten(f)
OfferExpires == \E f \in Offers : OfferTimeout(f)

MessageArrives ==
  /\ Spend("incoming")
  /\ \E a \in Peers : Ingest(a)
  /\ UNCHANGED <<node, wire, ch, stream, program>>
PeerOnline ==
  /\ Spend("online")
  /\ \E a \in Peers : Publish(Event("peer_online", a))
  /\ UNCHANGED <<node, chat, wire, ch, stream, program>>

\* Another client of the API removes a contact.
RemoveContact ==
  /\ Spend("removals")
  /\ \E a \in store : store' = store \ {a}
  /\ UNCHANGED <<torState, pending, receiver, bus, chat, wire, ch, stream, program>>

System ==
  \/ UpdateApp \/ RunSomeCmd \/ Exchange
  \/ SubscribeAll \/ ForwardEvent \/ SendToStream \/ RecvFromStream \/ OfferHandled
Environment ==
  \/ Press \/ Quit \/ Panic \/ BreakStream \/ TorBecomesReady \/ ConnectionRequest
  \/ OfferArrives \/ OfferExpires \/ MessageArrives \/ PeerOnline \/ RemoveContact
Next == System \/ Environment

Spec == Init /\ [][Next]_vars
\* Goroutines run on and timers fire; of users and peers nothing is assumed.  A
\* behaviour has finitely many events from outside, so the system comes to rest.
FairSpec == Spec /\ WF_vars(System)

-----------------------------------------------------------------------------
(* Properties                                                              *)

\* The events of type t in s, in their order.
Of(t, s) ==
  LET of[i \in 0..Len(s)] ==
        IF i = 0 THEN <<>>
        ELSE IF s[i].type = t THEN Append(of[i - 1], s[i]) ELSE of[i - 1]
  IN of[Len(s)]
Reading(t) == {m \in BagToSet(msgs) : m.op = "event" /\ m.arg[1].type = t}
Path(t) ==
  (IF Reading(t) = {} THEN <<>> ELSE (CHOOSE m \in Reading(t) : TRUE).arg)
    \o Of(t, ch) \o Of(t, wire) \o Of(t, merged)
    \o (IF held[t] = None THEN <<>> ELSE <<held[t]>>)
    \o (IF subs[t] = None THEN <<>> ELSE subs[t])

\* An event that Publish has put into a subscriber's channel reaches handleEvent
\* once, after the earlier events of its type: no forwarder, full channel, stream
\* or second reader loses, repeats or overtakes one, the types the stream passes
\* over for every client aside.
EventsConserved == ~gone => \A t \in Types : inflight[t] = Path(t)

\* A connection request that was accepted by the bus comes up as a prompt, whatever
\* screen is shown and whatever else arrives, unless the stream breaks or the user
\* quits: handling an event always leads to the next one being read.
RequestReachesUser ==
  \A a \in Peers :
    Event("connection_request", a) \in ToSet(inflight["connection_request"])
      ~> (app.screen = "ConnPrompt" /\ app.prompt = a) \/ gone \/ ~running

\* A peer is accepted at most as often as the user said yes to a prompt that showed it,
\* though prompts replace each other while answers are under way.  Files are accepted
\* under a transfer id at most as often as the user said yes to one that was shown with
\* that id, and no other way: which of the files the sender gave this id the answer
\* reaches is the sender's doing, but a file with an id of its own was shown itself.
ConsentBacksGrant ==
  /\ \A s \in Peers \cup TransferIds : granted[s] <= yes[s]
  /\ \A f \in Offers : granted[f] > 0 => \E g \in Offers : IdOf[g] = IdOf[f] /\ yes[g] > 0

Ticks == Quantify(DOMAIN app.lines, LAMBDA i : app.lines[i].mine /\ app.lines[i].acked)
Done == Quantify(DOMAIN app.items, LAMBDA i : app.items[i].done)

\* The user never sees more messages ticked than sends were acknowledged, nor more
\* transfers complete than completed, though results are matched by position.
TicksBacked ==
  /\ Ticks <= Quantify(Sends, LAMBDA n : exchange[n].sender = "ok")
  /\ Done <= finished

\* What the sender's history records as sent, the peer has recorded, once, also when
\* ACKs are lost or late, or name another message.
HistoryBacked ==
  \A a \in Peers :
    /\ (ToSet(convos[a]) \ {0}) \subseteq ToSet(ingested[a])
    /\ IsInjective(ingested[a])

\* A file offer that was accepted by the bus comes up as a prompt, in process and
\* attached alike.
OfferReachesUser ==
  \A f \in Offers :
    Event("file_offer", f) \in ToSet(inflight["file_offer"])
      ~> (app.screen = "FileOffer" /\ app.offer = f) \/ gone \/ ~running
=============================================================================
