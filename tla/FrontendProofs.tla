--------------------------- MODULE FrontendProofs ---------------------------
(***************************************************************************)
(* The interface for any number of peers, offers, messages and keys.       *)
(*                                                                         *)
(* History.  A message is acknowledged by its own number only after the    *)
(* peer recorded it, and its stream carries it once.                       *)
(*                                                                         *)
(* Events.  The event channel is held by one command or message at a time, *)
(* so no two events race for Update; an event is in one of the stations    *)
(* subscriber channel, forwarder, merged channel, stream, backend channel  *)
(* or message, and each step moves the first of one to the end of the next.*)
(*                                                                         *)
(* Ticks.  The number of a message has one carrier at a time, the command  *)
(* that sends it or the message that reports it, and so has the end of a   *)
(* transfer: what is ticked is counted by what was told, and what was told *)
(* by what was acknowledged.                                               *)
(*                                                                         *)
(* Consent.  An answer travels as a command, a message and a command again *)
(* before it reaches the node, where a yes to a file waits in the channel  *)
(* of the offer that is under the transfer id by then; several may be      *)
(* under way at once.  The consents given are those granted, those of every*)
(* copy under way and those in the channels, and an answer to a file is    *)
(* under an id that a prompt showed.                                       *)
(***************************************************************************)
EXTENDS Frontend, FiniteSetTheorems, SequenceTheorems, WellFoundedInduction, TLAPS

\* What carries a consent between the key and the node.
Consents == {"ConnAccepted", "acceptConn", "FileAccepted", "acceptFile"}

\* How many copies of x the bag B holds.
Copies(x, B) == IF x \in BagToSet(B) THEN B[x] ELSE 0

BagsOK ==
  /\ IsABag(cmds) /\ IsABag(msgs)
  /\ \A c \in BagToSet(cmds) \cup BagToSet(msgs) : c.op \in Consents => c = Cmd(c.op, <<c.arg[1]>>)
  /\ yes \in [Subjects -> Nat] /\ granted \in [Subjects -> Nat]

\* Any address may be tried: where to is not a peer, nothing is recorded.
ExchangesOK ==
  /\ exchange \in [Sends -> [to : {exchange[n].to : n \in Sends},
                             sender : {"idle", "open", "wait", "ok", "failed"},
                             peer : {"idle", "text", "done"}, ack : Sends \cup {0, None}]]
  /\ convos \in [Peers -> Seq(Sends \cup {0})]
  /\ ingested \in [Peers -> Seq(Sends)]

\* A message reaches the peer once, after the send has begun, and is named by an
\* acknowledgement only when the peer has recorded it.
ExchangeInv ==
  \A n \in Sends :
    /\ exchange[n].sender \in {"idle", "open"} => exchange[n].peer = "idle"
    /\ exchange[n].peer \in {"idle", "text"} =>
         /\ exchange[n].ack = None
         /\ \A a \in Peers : n \notin ToSet(ingested[a])
    /\ exchange[n].ack = n /\ n \notin {0, None} /\ exchange[n].to \in Peers
         => n \in ToSet(ingested[exchange[n].to])

HistoryInv == ExchangesOK /\ ExchangeInv /\ HistoryBacked

\* What has the event channel: the command that subscribes and then its message, the
\* command that waits and then the message with the event.
ReadingCmds == {c \in BagToSet(cmds) : c.op \in {"subscribe", "wait"}}
ReadingMsgs == {m \in BagToSet(msgs) : m.op \in {"eventChan", "event"}}

\* There is one reader at most, so no two events are on their way to Update at once.
ReaderInv ==
  /\ \A c, d \in ReadingCmds : c = d /\ Copies(c, cmds) = 1
  /\ \A m, n \in ReadingMsgs : m = n /\ Copies(m, msgs) = 1
  /\ ReadingCmds = {} \/ ReadingMsgs = {}
  /\ \A m \in ReadingMsgs : m.op = "event" => \E e \in Events : m = Cmd("event", <<e>>)

\* Every channel holds events, the ones of a type its own, and in process there is
\* no stream that a reader of the merged channel could overtake.
ChannelsOK ==
  /\ "mode" \in DOMAIN mix
  /\ direct => stream # "open" /\ wire = <<>> /\ ch = <<>>
  /\ gone => stream = "broken"
  /\ merged \in Seq(Events) /\ wire \in Seq(Events) /\ ch \in Seq(Events)
  /\ held \in [Types -> Events \cup {None}]
  /\ subs \in [Types -> Seq(Events) \cup {None}]
  /\ inflight \in [Types -> Seq(Events)]
  /\ \A t \in Types : /\ held[t] # None => held[t].type = t
                      /\ subs[t] # None => \A i \in 1..Len(subs[t]) : subs[t][i].type = t

\* What the stream passes over has nothing of its type ahead of it.
PassedOver ==
  ~direct =>
    /\ Of("file_offer", wire) = <<>>
    /\ \A t \in {"file_offer", "peer_online"} : Of(t, ch) = <<>> /\ Reading(t) = {}

EventInv == ReaderInv /\ ChannelsOK /\ PassedOver /\ EventsConserved

\* The number of a message is carried by the command that sends it, in its two steps,
\* and by the message that says it went through.
SendOps == {"ChatSend", "sendChat", "chatSent"}
Present == BagToSet(cmds) \cup BagToSet(msgs)
UnderWay(x) == Copies(x, cmds) + Copies(x, msgs)
Sending(x) == x.op \in SendOps /\ x.arg # <<>>
Carriers(n) == {x \in Present : Sending(x) /\ x.arg[2] = n}

\* A number is carried by one thing at a time, and a tick only when its send is acknowledged.
CarrierInv ==
  /\ \A x \in Present : Sending(x) => x.arg[2] \in Sends
  /\ \A n \in Sends : \A x, y \in Carriers(n) : x = y /\ UnderWay(x) = 1
  /\ \A n \in Sends : \A x \in Carriers(n) : x.op = "chatSent" => exchange[n].sender = "ok"

Lines == [mine : BOOLEAN, acked : BOOLEAN]
Items == [done : BOOLEAN, failed : BOOLEAN]
IsApp(a) == {"lines", "items"} \subseteq DOMAIN a /\ a.lines \in Seq(Lines) /\ a.items \in Seq(Items)

Ticked(a) == {i \in DOMAIN a.lines : a.lines[i].mine /\ a.lines[i].acked}
Ended(a) == {i \in DOMAIN a.items : a.items[i].done}
Acknowledged == {n \in Sends : exchange[n].sender = "ok"}
\* The acknowledged sends whose tick has been drawn or will never be.
Told == {n \in Acknowledged : Carriers(n) = {}}
\* The copies of the messages that report a completed transfer.
Success(m) == m.op = "fileSendDone" /\ m.arg # <<>>
Reports(B) == UNION {{m} \X (1..Copies(m, B)) : m \in {m \in BagToSet(B) : Success(m)}}

TickInv ==
  /\ IsApp(app) /\ CarrierInv
  /\ IsFiniteSet(Acknowledged)
  /\ Cardinality(Ticked(app)) <= Cardinality(Told)
  /\ finished \in Nat /\ IsFiniteSet(Reports(msgs))
  /\ Cardinality(Ended(app)) + Cardinality(Reports(msgs)) <= finished

\* Answers under way to peer s, or under transfer id s, and those in the channels of offers
\* that still wait.
ConnUnderWay(s) ==
  Copies(Cmd("ConnAccepted", <<s>>), cmds) + Copies(Cmd("ConnAccepted", <<s>>), msgs)
    + Copies(Cmd("acceptConn", <<s>>), cmds)
FileUnderWay(s) ==
  Copies(Cmd("FileAccepted", <<s>>), cmds) + Copies(Cmd("FileAccepted", <<s>>), msgs)
    + Copies(Cmd("acceptFile", <<s>>), cmds)
Answered(s) ==
  {f \in Offers : IdOf[f] = s /\ handling[f] = "waiting" /\ decision[f] # <<>> /\ Head(decision[f]) = "yes"}

Spent(s) == granted[s] + ConnUnderWay(s) + FileUnderWay(s)
ConsentInv ==
  \A s \in Peers \cup TransferIds :
    IsFiniteSet(Answered(s)) /\ Spent(s) + Cardinality(Answered(s)) <= yes[s]

\* An offer with transfer id i was shown when the user said yes.
Shown(i) == \E g \in Offers : IdOf[g] = i /\ yes[g] > 0

\* The prompt for a file, on the screen or under another prompt, shows an offer.
Prompted(a) ==
  /\ {"screen", "prev", "offer"} \subseteq DOMAIN a
  /\ "FileOffer" \in {a.screen, a.prev} => a.offer \in Offers

\* What is under an id has that id, and only what has been there gets decisions.
NodeOK ==
  /\ pending \subseteq Peers
  /\ parked \in [TransferIds -> Offers \cup {None}]
  /\ handling \in [Offers -> {"none", "waiting", "decided", "over"}]
  /\ decision \in [Offers -> Seq({"yes", "no"})]
  /\ \A i \in TransferIds : parked[i] # None => IdOf[parked[i]] = i /\ handling[parked[i]] # "none"
  /\ \A f \in Offers : handling[f] = "none" => decision[f] = <<>>

FileCalls == {"FileAccepted", "acceptFile", "FileRejected", "rejectFile"}
Backed(c) ==
  /\ c.op \in FileCalls => c.arg[1] \in TransferIds
  /\ c.op \in {"FileAccepted", "acceptFile"} => Shown(c.arg[1])
\* Every yes to a file, from the key to the Receiver, is under an id that was shown.
ShownInv ==
  /\ Prompted(app) /\ NodeOK
  /\ \A c \in Present : Backed(c)
  /\ \A f \in Offers : "yes" \in ToSet(decision[f]) => Shown(IdOf[f])
  /\ \A f \in Offers : granted[f] > 0 => Shown(IdOf[f])

FrontendInv == BagsOK /\ HistoryInv

-----------------------------------------------------------------------------
(* Bags, element by element.                                               *)

\* A bag holds a natural number of copies of everything.
LEMMA CopiesNat ==
  ASSUME NEW B, IsABag(B), NEW x
  PROVE  Copies(x, B) \in Nat
BY DEF IsABag, Copies, BagToSet

\* Adding a set of elements adds one copy of each.
LEMMA AddCopies ==
  ASSUME NEW B, IsABag(B), NEW S
  PROVE  /\ IsABag(B (+) SetToBag(S))
         /\ BagToSet(B (+) SetToBag(S)) = BagToSet(B) \cup S
         /\ \A x : Copies(x, B (+) SetToBag(S)) = Copies(x, B) + (IF x \in S THEN 1 ELSE 0)
<1> DEFINE D == B (+) SetToBag(S)
<1>1. D = [e \in DOMAIN B \cup S |-> (IF e \in DOMAIN B THEN B[e] ELSE 0) + (IF e \in S THEN 1 ELSE 0)]
  BY DEF (+), SetToBag
<1>2. \A e \in DOMAIN B : B[e] \in Nat /\ B[e] > 0
  BY DEF IsABag
<1> HIDE DEF D
<1>3. \A e \in DOMAIN B \cup S : D[e] \in {n \in Nat : n > 0}
  BY <1>1, <1>2
<1>4. QED
  BY <1>1, <1>2, <1>3 DEF IsABag, BagToSet, Copies, D

\* Taking out an element takes out one copy of it and of nothing else.
LEMMA TakeCopy ==
  ASSUME NEW B, IsABag(B), NEW c \in BagToSet(B)
  PROVE  /\ IsABag(B (-) SetToBag({c}))
         /\ BagToSet(B (-) SetToBag({c})) \subseteq BagToSet(B)
         /\ \A x : Copies(x, B (-) SetToBag({c})) = Copies(x, B) - (IF x = c THEN 1 ELSE 0)
<1> DEFINE E == [e \in DOMAIN B |-> IF e = c THEN B[e] - 1 ELSE B[e]]
           D == B (-) SetToBag({c})
<1>1. D = [e \in {d \in DOMAIN E : E[d] > 0} |-> E[e]]
  BY DEF (-), SetToBag
<1>2. \A e \in DOMAIN B : B[e] \in Nat /\ B[e] > 0
  BY DEF IsABag
<1>3. DOMAIN E = DOMAIN B /\ \A e \in DOMAIN B : E[e] \in Nat /\ E[e] = IF e = c THEN B[e] - 1 ELSE B[e]
  BY <1>2
<1> HIDE DEF D, E
<1>4. DOMAIN D = {d \in DOMAIN B : E[d] > 0} /\ \A d \in DOMAIN D : D[d] = E[d]
  BY <1>1, <1>3
<1>5. IsABag(D)
  <2>1. D \in [DOMAIN D -> {n \in Nat : n > 0}]
    BY <1>1, <1>3, <1>4
  <2>2. QED
    BY <2>1 DEF IsABag
<1>6. ASSUME NEW x
      PROVE  Copies(x, D) = Copies(x, B) - (IF x = c THEN 1 ELSE 0)
  <2>1. CASE x \in DOMAIN B /\ x = c
    BY <2>1, <1>2, <1>3, <1>4 DEF Copies, BagToSet
  <2>2. CASE x \in DOMAIN B /\ x # c
    BY <2>2, <1>2, <1>3, <1>4 DEF Copies, BagToSet
  <2>3. CASE x \notin DOMAIN B
    BY <2>3, <1>4 DEF Copies, BagToSet
  <2>4. QED
    BY <2>1, <2>2, <2>3
<1>7. QED
  BY <1>4, <1>5, <1>6 DEF BagToSet, D

-----------------------------------------------------------------------------
(* What Update and a key add to the commands.                              *)

\* Only the message of an accepted prompt leads to a call that accepts, for the
\* subject the message carries.
LEMMA UpdateConsents ==
  ASSUME NEW a, NEW m, NEW c \in Update(a, m).do, c.op \in Consents
  PROVE  \/ m.op = "ConnAccepted" /\ Update(a, m).do = {Cmd("acceptConn", m.arg)}
         \/ m.op = "FileAccepted" /\ Update(a, m).do = {Cmd("acceptFile", m.arg)}
<1>1. \A b, do : maybeTransition(b, do).do \subseteq do \cup {Cmd("loadContacts", <<>>)}
  BY DEF maybeTransition, Result
<1>2. \A e : \A d \in handleEvent(a, e).do : d.op \notin Consents
  BY <1>1 DEF handleEvent, TorReady, ConnectionReq, FileOffer, Result, NextEvent, Cmd, Consents
<1>3. \A d \in identityLoaded(a).do : d.op \notin Consents
  BY <1>1 DEF identityLoaded, Cmd, Consents
<1>4. \A s : \A d \in statusLoaded(a, s).do : d.op \notin Consents
  BY <1>1 DEF statusLoaded, Result, Cmd, Consents
<1>5. \A d \in chatSend(a, m.arg).do \cup chatSent(a, m.arg).do \cup fileSelected(a, m.arg).do
                \cup fileSendDone(a, m.arg).do : d.op \notin Consents
  BY DEF chatSend, chatSent, fileSelected, fileSendDone, Result, Cmd, Consents
<1>6. \A d \in decisionDone(a).do \cup contactSaved(a).do \cup nodeScreenDone(a).do : d.op \notin Consents
  BY DEF decisionDone, contactSaved, nodeScreenDone, Result, Cmd, Consents
<1>7. QED
  BY <1>2, <1>3, <1>4, <1>5, <1>6 DEF Update, ConnAccepted, Result, NextEvent, Cmd, Consents

\* Only a "y" at a prompt emits an accepting message, for what the prompt shows.
LEMMA KeyConsents ==
  ASSUME NEW a, NEW k, NEW x, NEW c \in handleKey(a, k, x).do, c.op \in Consents
  PROVE  \/ /\ a.screen = "ConnPrompt" /\ k = "y"
            /\ handleKey(a, k, x).do = {Cmd("ConnAccepted", <<a.prompt>>)}
         \/ /\ a.screen = "FileOffer" /\ k = "y"
            /\ handleKey(a, k, x).do = {Cmd("FileAccepted", <<IdOf[a.offer]>>)}
<1>1. \A d \in HomeKey(a, k).do : d.op \notin Consents
  BY DEF HomeKey, Show, NewChat, HomeUpdate, Result, Cmd, Consents
<1>2. \A d \in AddContactUpdate(a, k, x).do \cup AddNodeUpdate(a, k).do \cup ChatUpdate(a, k, x).do
                \cup FilePickerUpdate(a, k).do \cup TransferUpdate(a, k).do : d.op \notin Consents
  BY DEF AddContactUpdate, AddNodeUpdate, ChatUpdate, FilePickerUpdate, TransferUpdate, Emit, Result,
         Cmd, Consents
<1>3. QED
  BY <1>1, <1>2 DEF handleKey, ConnPromptUpdate, FileOfferUpdate, Show, Emit, Result, Cmd, Consents

-----------------------------------------------------------------------------
(* The bags of commands and messages in every step.                        *)

\* Counting a set of subjects up, each once; what is no subject changes nothing.
LEMMA CountUp ==
  ASSUME NEW S, NEW f \in [S -> Nat], NEW P
  PROVE  /\ Counted(f, P) \in [S -> Nat]
         /\ \A s \in S : Counted(f, P)[s] = f[s] + (IF s \in P THEN 1 ELSE 0)
BY DEF Counted

\* A command is known by its operation and its argument.
LEMMA CmdFields ==
  /\ \A op, arg : Cmd(op, arg).op = op /\ Cmd(op, arg).arg = arg
  /\ \A op, x : Cmd(op, <<x>>).arg[1] = x
  /\ \A op1, op2, x, y : Cmd(op1, <<x>>) = Cmd(op2, <<y>>) => op1 = op2 /\ x = y
BY DEF Cmd

\* What key k does to the program, with x typed, and how it counts as a yes.
Pressed(k, x) ==
  /\ app' = handleKey(app, k, x).app /\ cmds' = cmds (+) SetToBag(handleKey(app, k, x).do)
  /\ \A s \in Subjects : yes[s] <= yes'[s]
  /\ app.screen = "ConnPrompt" /\ k = "y" =>
       \A s \in Subjects : yes'[s] = yes[s] + (IF s = app.prompt THEN 1 ELSE 0)
  /\ app.screen = "FileOffer" /\ k = "y" =>
       \A s \in Subjects : yes'[s] = yes[s] + (IF s \in {app.offer, IdOf[app.offer]} THEN 1 ELSE 0)

\* A "y" counts for what the prompt shows.
LEMMA PressYes ==
  ASSUME yes \in [Subjects -> Nat], Press
  PROVE  /\ yes' \in [Subjects -> Nat] /\ msgs' = msgs /\ granted' = granted
         /\ \E k, x : Pressed(k, x)
<1>1. PICK k \in mix.keys, x \in Peers \cup Sends :
        /\ Becomes(handleKey(app, k, x))
        /\ yes' = CASE app.screen = "ConnPrompt" /\ k = "y" -> Counted(yes, {app.prompt})
                    [] app.screen = "FileOffer" /\ k = "y" -> Counted(yes, {app.offer, IdOf[app.offer]})
                    [] OTHER -> yes
  BY DEF Press
<1>2. /\ app' = handleKey(app, k, x).app /\ cmds' = cmds (+) SetToBag(handleKey(app, k, x).do)
      /\ msgs' = msgs /\ granted' = granted
  BY <1>1 DEF Press, Becomes
<1>3. \A P : /\ Counted(yes, P) \in [Subjects -> Nat]
             /\ \A s \in Subjects : Counted(yes, P)[s] = yes[s] + (IF s \in P THEN 1 ELSE 0)
  BY CountUp
<1>4. yes' \in [Subjects -> Nat] /\ Pressed(k, x)
  <2>1. CASE app.screen = "ConnPrompt" /\ k = "y"
    <3>1. yes' = Counted(yes, {app.prompt}) /\ app.screen # "FileOffer"
      BY <1>1, <2>1
    <3> QED
      BY <1>2, <1>3, <2>1, <3>1 DEF Pressed
  <2>2. CASE app.screen = "FileOffer" /\ k = "y"
    <3>1. yes' = Counted(yes, {app.offer, IdOf[app.offer]}) /\ app.screen # "ConnPrompt"
      BY <1>1, <2>2
    <3> QED
      BY <1>2, <1>3, <2>2, <3>1 DEF Pressed
  <2>3. CASE ~(app.screen = "ConnPrompt" /\ k = "y") /\ ~(app.screen = "FileOffer" /\ k = "y")
    <3>1. yes' = yes
      BY <1>1, <2>3
    <3> QED
      BY <1>2, <2>3, <3>1 DEF Pressed
  <2> QED
    BY <2>1, <2>2, <2>3
<1> QED
  BY <1>2, <1>4

\* A key adds what its screen emits.
LEMMA PressBags ==
  ASSUME BagsOK, Press
  PROVE  BagsOK'
<1>1. yes' \in [Subjects -> Nat] /\ msgs' = msgs /\ granted' = granted /\ \E k, x : Pressed(k, x)
  BY PressYes DEF BagsOK
<1>2. PICK k, x : cmds' = cmds (+) SetToBag(handleKey(app, k, x).do)
  BY <1>1 DEF Pressed
<1> DEFINE do == handleKey(app, k, x).do
<1>3. IsABag(cmds') /\ BagToSet(cmds') = BagToSet(cmds) \cup do
  BY <1>2, AddCopies DEF BagsOK
<1>4. \A c \in do : c.op \in Consents =>
        \/ app.screen = "ConnPrompt" /\ k = "y" /\ do = {Cmd("ConnAccepted", <<app.prompt>>)}
        \/ app.screen = "FileOffer" /\ k = "y" /\ do = {Cmd("FileAccepted", <<IdOf[app.offer]>>)}
  BY KeyConsents
<1> HIDE DEF do
<1> QED
  BY <1>1, <1>3, <1>4, CmdFields DEF BagsOK

\* Update takes its message out and adds the commands it returns.
LEMMA UpdateBags ==
  ASSUME BagsOK, UpdateApp
  PROVE  BagsOK'
<1>1. PICK m \in BagToSet(msgs) : Becomes(Update(app, m)) /\ msgs' = msgs (-) SetToBag({m})
  BY DEF UpdateApp
<1> DEFINE do == Update(app, m).do
<1>2. cmds' = cmds (+) SetToBag(do) /\ granted' = granted /\ yes' = yes
  BY <1>1 DEF UpdateApp, Becomes, history
<1>3. IsABag(cmds') /\ BagToSet(cmds') = BagToSet(cmds) \cup do
  BY <1>2, AddCopies DEF BagsOK
<1>4. IsABag(msgs') /\ BagToSet(msgs') \subseteq BagToSet(msgs)
  BY <1>1, TakeCopy DEF BagsOK
<1>5. \A c \in do : c.op \in Consents =>
        \/ m.op = "ConnAccepted" /\ do = {Cmd("acceptConn", m.arg)}
        \/ m.op = "FileAccepted" /\ do = {Cmd("acceptFile", m.arg)}
  BY UpdateConsents
<1>6. m.op \in Consents => m = Cmd(m.op, <<m.arg[1]>>) /\ m.arg = <<m.arg[1]>>
  BY <1>1, CmdFields DEF BagsOK
<1> HIDE DEF do
<1> QED
  BY <1>2, <1>3, <1>4, <1>5, <1>6, CmdFields DEF BagsOK, Consents

\* A command that ends is taken out once and its message is put in.
LEMMA ReturnsCopies ==
  ASSUME BagsOK, NEW c, NEW ms, Returns(c, ms)
  PROVE  /\ c \in BagToSet(cmds) /\ yes' = yes
         /\ IsABag(cmds') /\ BagToSet(cmds') \subseteq BagToSet(cmds)
         /\ IsABag(msgs') /\ BagToSet(msgs') = BagToSet(msgs) \cup ms
         /\ \A e : /\ Copies(e, cmds') = Copies(e, cmds) - (IF e = c THEN 1 ELSE 0)
                  /\ Copies(e, msgs') = Copies(e, msgs) + (IF e \in ms THEN 1 ELSE 0)
                  /\ Copies(e, cmds) \in Nat /\ Copies(e, msgs) \in Nat
                  /\ Copies(e, cmds') \in Nat /\ Copies(e, msgs') \in Nat
<1>1. c \in BagToSet(cmds) /\ yes' = yes
  BY DEF Returns, BagIn
<1>2. /\ IsABag(cmds') /\ BagToSet(cmds') \subseteq BagToSet(cmds)
      /\ \A e : Copies(e, cmds') = Copies(e, cmds) - (IF e = c THEN 1 ELSE 0)
  BY <1>1, TakeCopy DEF Returns, BagsOK
<1>3. /\ IsABag(msgs') /\ BagToSet(msgs') = BagToSet(msgs) \cup ms
      /\ \A e : Copies(e, msgs') = Copies(e, msgs) + (IF e \in ms THEN 1 ELSE 0)
  BY AddCopies DEF Returns, BagsOK
<1>4. QED
  BY <1>1, <1>2, <1>3, CopiesNat DEF BagsOK

\* What an answer travels in, yes or no.
Answers == Consents \cup FileCalls

\* c has nothing to do with an answer, and ends with a message that has not either.
Ordinary(c) ==
  /\ handling' = handling /\ decision' = decision /\ parked' = parked /\ pending' = pending
  /\ granted' = granted
  /\ \/ UNCHANGED <<cmds, msgs, yes, app>>
     \/ app' = app /\ \E ms : Returns(c, ms) /\ \A m \in ms : m.op \notin Answers

\* Only the screens' own messages and the decisions carry answers.
LEMMA OrdinaryCommands ==
  ASSUME NEW c, RunCmd(c)
  PROVE  Ordinary(c) \/ (emit(c) /\ Query(c)) \/ Decide(c) \/ DecideFile(c)
<1> DEFINE Plain == \E ms : Returns(c, ms) /\ \A m \in ms : m.op \notin Answers
           Still == /\ handling' = handling /\ decision' = decision /\ parked' = parked /\ pending' = pending
                    /\ granted' = granted
<1>0. Still /\ Plain => Ordinary(c)
  BY DEF Ordinary, Returns
<1>1. CASE Query(c) /\ ~emit(c)
  <2>1. Still
    BY <1>1 DEF Query, outside, node, receiver
  <2>2. Plain
    <3>1. CASE loadIdentity(c)
      BY <3>1, CmdFields DEF loadIdentity, Answers, Consents, FileCalls
    <3>2. CASE loadStatus(c)
      BY <3>2, CmdFields DEF loadStatus, Answers, Consents, FileCalls
    <3>3. CASE loadContacts(c)
      BY <3>3, CmdFields DEF loadContacts, Answers, Consents, FileCalls
    <3>4. CASE loadDebugInfo(c) \/ tick(c)
      BY <3>4, CmdFields DEF loadDebugInfo, tick, Answers, Consents, FileCalls
    <3> QED
      BY <1>1, <3>1, <3>2, <3>3, <3>4 DEF Query
  <2> QED
    BY <1>0, <2>1, <2>2
<1>2. CASE saveContact(c)
  <2>1. Still
    BY <1>2 DEF saveContact, receiver
  <2>2. Plain
    BY <1>2, CmdFields DEF saveContact, Answers, Consents, FileCalls
  <2> QED
    BY <1>0, <2>1, <2>2
<1>3. CASE saveNode(c)
  <2>1. Still
    BY <1>3 DEF saveNode, outside, node, receiver
  <2>2. Plain
    BY <1>3, CmdFields DEF saveNode, Answers, Consents, FileCalls
  <2> QED
    BY <1>0, <2>1, <2>2
<1>4. CASE sendFile(c)
  <2>1. Still
    BY <1>4 DEF sendFile, outside, node, receiver
  <2>2. Plain
    BY <1>4, CmdFields DEF sendFile, Answers, Consents, FileCalls
  <2> QED
    BY <1>0, <2>1, <2>2
<1>5. CASE sendChatMessage(c)
  <2>1. Still /\ UNCHANGED <<cmds, msgs, yes, app>>
    BY <1>5 DEF sendChatMessage, history, node, receiver
  <2> QED
    BY <2>1 DEF Ordinary
<1>6. CASE SendReturns(c)
  <2>1. Still
    BY <1>6 DEF SendReturns, outside, node, receiver
  <2>2. Plain
    BY <1>6, CmdFields DEF SendReturns, Answers, Consents, FileCalls
  <2> QED
    BY <1>0, <2>1, <2>2
<1>7. CASE subscribeEvents(c)
  <2>1. Still
    BY <1>7 DEF subscribeEvents, node, receiver
  <2>2. Plain
    BY <1>7, CmdFields DEF subscribeEvents, Answers, Consents, FileCalls
  <2> QED
    BY <1>0, <2>1, <2>2
<1>8. CASE waitForEvent(c)
  <2>1. Still
    BY <1>8 DEF waitForEvent, node, receiver
  <2>2. Plain
    BY <1>8, CmdFields DEF waitForEvent, Answers, Consents, FileCalls
  <2> QED
    BY <1>0, <2>1, <2>2
<1> HIDE DEF Still, Plain
<1> QED
  BY <1>1, <1>2, <1>3, <1>4, <1>5, <1>6, <1>7, <1>8 DEF RunCmd

\* A decision ends, or waits, without a message that is an answer.
LEMMA DecisionReturns ==
  ASSUME NEW c, Decide(c) \/ DecideFile(c)
  PROVE  \E ms : Returns(c, ms) /\ \A m \in ms : m.op \notin Answers
<1>1. CASE Decide(c)
  BY <1>1, CmdFields DEF Decide, Answers, Consents, FileCalls
<1>2. CASE DecideFile(c)
  BY <1>2, CmdFields DEF DecideFile, FileDecisionDone, Answers, Consents, FileCalls
<1> QED
  BY <1>1, <1>2

\* A command that ends keeps the bags.
LEMMA CommandBags ==
  ASSUME BagsOK, NEW c, RunCmd(c)
  PROVE  BagsOK'
<1>1. CASE Ordinary(c)
  <2>1. CASE UNCHANGED <<cmds, msgs, yes>>
    BY <1>1, <2>1 DEF BagsOK, Ordinary
  <2>2. CASE \E ms : Returns(c, ms) /\ \A m \in ms : m.op \notin Answers
    BY <1>1, <2>2, ReturnsCopies DEF BagsOK, Ordinary, Answers
  <2> QED
    BY <1>1, <2>1, <2>2 DEF Ordinary
<1>2. CASE emit(c) /\ Query(c)
  BY <1>2, ReturnsCopies DEF emit, Query, BagsOK
<1>3. CASE Decide(c)
  <2>1. granted' \in [Subjects -> Nat]
    BY <1>3, CountUp DEF BagsOK, Decide, Decides, GRPCDecides, ServerDecides, NodeDecides
  <2> QED
    BY <1>3, <2>1, DecisionReturns, ReturnsCopies DEF BagsOK, Answers
<1>4. CASE DecideFile(c)
  <2>1. granted' = granted
    BY <1>4 DEF DecideFile
  <2> QED
    BY <1>4, <2>1, DecisionReturns, ReturnsCopies DEF BagsOK, Answers
<1> QED
  BY <1>1, <1>2, <1>3, <1>4, OrdinaryCommands

\* A decision that is taken may add the message of the call it lets through.
LEMMA DecidedBags ==
  ASSUME BagsOK, NEW f, OfferDecided(f)
  PROVE  /\ BagsOK' /\ cmds' = cmds /\ yes' = yes
         /\ \A e : e.op \in Answers => Copies(e, msgs') = Copies(e, msgs)
         /\ \A m \in BagToSet(msgs') : m.op \in Answers => m \in BagToSet(msgs)
<1>1. cmds' = cmds /\ yes' = yes
  BY DEF OfferDecided
<1>2. PICK ms : msgs' = msgs (+) SetToBag(ms) /\ \A m \in ms : m.op \notin Answers
  BY CmdFields DEF OfferDecided, FileDecisionDone, Answers, Consents, FileCalls
<1>3. /\ IsABag(msgs') /\ BagToSet(msgs') = BagToSet(msgs) \cup ms
      /\ \A e : Copies(e, msgs') = Copies(e, msgs) + (IF e \in ms THEN 1 ELSE 0) /\ Copies(e, msgs) \in Nat
  BY <1>2, AddCopies, CopiesNat DEF BagsOK
<1>4. granted' \in [Subjects -> Nat]
  <2>1. granted' = granted \/ granted' = Counted(granted, {f, IdOf[f]})
    BY DEF OfferDecided
  <2>2. granted \in [Subjects -> Nat]
    BY DEF BagsOK
  <2>3. Counted(granted, {f, IdOf[f]}) \in [Subjects -> Nat]
    BY <2>2, CountUp
  <2> QED
    BY <2>1, <2>2, <2>3
<1> QED
  BY <1>1, <1>2, <1>3, <1>4 DEF BagsOK, Answers

\* Keys, Update, commands and decisions change the bags; nothing else touches them.
LEMMA BagsStep ==
  ASSUME BagsOK, [Next]_vars
  PROVE  BagsOK'
<1>1. CASE Press
  BY <1>1, PressBags
<1>2. CASE UpdateApp
  BY <1>2, UpdateBags
<1>3. CASE RunSomeCmd
  BY <1>3, CommandBags DEF RunSomeCmd
<1>4. CASE UNCHANGED <<cmds, msgs, yes, granted>>
  BY <1>4 DEF BagsOK
<1>5. CASE Exchange \/ SubscribeAll \/ ForwardEvent \/ SendToStream \/ RecvFromStream
  BY <1>4, <1>5 DEF Exchange, SubscribeAll, ForwardEvent, SendToStream, RecvFromStream, program, history
<1>6. CASE Quit \/ Panic \/ BreakStream \/ TorBecomesReady \/ ConnectionRequest \/ OfferArrives
  BY <1>4, <1>6 DEF Quit, Panic, BreakStream, TorBecomesReady, ConnectionRequest, OfferArrives,
                    program, history
<1>7. CASE OfferExpires \/ MessageArrives \/ PeerOnline \/ RemoveContact
  BY <1>4, <1>7 DEF OfferExpires, OfferTimeout, MessageArrives, PeerOnline, RemoveContact, program, history
<1>8. CASE OfferHandled
  BY <1>4, <1>8, DecidedBags DEF OfferHandled, OfferForgotten, program, history
<1>9. CASE UNCHANGED vars
  BY <1>4, <1>9 DEF vars
<1> QED
  BY <1>1, <1>2, <1>3, <1>5, <1>6, <1>7, <1>8, <1>9 DEF Next, System, Environment

-----------------------------------------------------------------------------
(* History                                                                 *)

\* A bounded history holds nothing but what it held and what is appended.
LEMMA AppendedFrom ==
  ASSUME NEW S, NEW h \in Seq(S), NEW m \in S
  PROVE  /\ AppendTo(h, m) \in Seq(S)
         /\ ToSet(AppendTo(h, m)) \subseteq ToSet(h) \cup {m}
<1> DEFINE msg == Append(h, m)
<1>1. msg \in Seq(S) /\ Len(msg) = Len(h) + 1 /\ Len(h) \in Nat
      /\ \A i \in 1 .. Len(msg) : msg[i] = IF i <= Len(h) THEN h[i] ELSE m
  OBVIOUS
<1>2. DOMAIN h = 1 .. Len(h) /\ DOMAIN msg = 1 .. Len(msg)
  OBVIOUS
<1> HIDE DEF msg
<1>3. CASE Len(msg) > MaxMessagesPerPeer
  <2> DEFINE from == Len(msg) - MaxMessagesPerPeer + 1
             cut == SubSeq(msg, from, Len(msg))
  <2>1. MaxMessagesPerPeer \in Nat /\ from \in Nat /\ from >= 1 /\ Len(msg) \in Nat
    BY <1>1, <1>3, ChatAssumption
  <2>2. Len(msg) - from + 1 = MaxMessagesPerPeer
    BY <2>1
  <2> HIDE DEF from
  <2>3. cut \in Seq(S)
    BY <1>1, <1>2, <2>1
  <2>4. DOMAIN cut = 1 .. MaxMessagesPerPeer
    BY <1>1, <2>1, <2>2
  <2>5. \A i \in 1 .. MaxMessagesPerPeer : cut[i] = msg[from + i - 1] /\ from + i - 1 \in 1 .. Len(msg)
    BY <1>1, <2>1, <2>2
  <2>6. AppendTo(h, m) = cut
    BY <1>3 DEF AppendTo, msg, from
  <2> HIDE DEF cut
  <2>7. QED
    BY <1>1, <1>2, <2>3, <2>4, <2>5, <2>6 DEF ToSet
<1>4. CASE ~(Len(msg) > MaxMessagesPerPeer)
  <2>1. AppendTo(h, m) = msg
    BY <1>4 DEF AppendTo, msg
  <2>2. QED
    BY <1>1, <1>2, <2>1 DEF ToSet
<1>5. QED
  BY <1>3, <1>4

\* Recording a message that is new keeps every message recorded once.
LEMMA FreshAppend ==
  ASSUME NEW S, NEW h \in Seq(S), IsInjective(h), NEW m \in S, m \notin ToSet(h)
  PROVE  ToSet(Append(h, m)) = ToSet(h) \cup {m} /\ IsInjective(Append(h, m))
<1> DEFINE g == Append(h, m)
<1>1. /\ DOMAIN h = 1 .. Len(h) /\ DOMAIN g = 1 .. (Len(h) + 1) /\ Len(h) \in Nat
      /\ g[Len(h) + 1] = m /\ \A i \in 1 .. Len(h) : g[i] = h[i]
  OBVIOUS
<1>2. \A i \in 1 .. Len(h) : h[i] # m
  BY <1>1 DEF ToSet
<1> HIDE DEF g
<1>3. IsInjective(g)
  BY <1>1, <1>2 DEF IsInjective
<1>4. ToSet(g) = ToSet(h) \cup {m}
  BY <1>1 DEF ToSet
<1>5. QED
  BY <1>3, <1>4 DEF g

\* SendMessage begins an exchange that has not been used.
LEMMA SendHistory ==
  ASSUME HistoryInv, NEW n, NEW a, NEW ok, SendMessage(n, a, ok)
  PROVE  HistoryInv'
<1>1. UNCHANGED <<convos, ingested>> /\ exchange[n].sender = "idle"
  BY DEF SendMessage
<1>2. CASE n \in Sends
  <2>1. ExchangesOK'
    BY <1>1, <1>2 DEF SendMessage, HistoryInv, ExchangesOK
  <2>2. \A m \in Sends : /\ m # n => exchange'[m] = exchange[m]
                         /\ exchange'[m].peer = exchange[m].peer /\ exchange'[m].ack = exchange[m].ack
    BY <1>2 DEF SendMessage, HistoryInv, ExchangesOK
  <2>3. exchange[n].peer = "idle" /\ exchange[n].ack = None
    BY <1>1, <1>2 DEF HistoryInv, ExchangeInv
  <2>4. ExchangeInv'
    BY <1>1, <1>2, <2>2, <2>3 DEF HistoryInv, ExchangeInv
  <2>5. QED
    BY <1>1, <2>1, <2>4 DEF HistoryInv, HistoryBacked
<1>3. CASE n \notin Sends
  <2>1. exchange' = exchange
    BY <1>3 DEF SendMessage, HistoryInv, ExchangesOK
  <2>2. QED
    BY <1>1, <2>1 DEF HistoryInv, ExchangesOK, ExchangeInv, HistoryBacked
<1>4. QED
  BY <1>2, <1>3

\* Writing, failing and giving up record nothing at either end.
LEMMA StreamHistory ==
  ASSUME HistoryInv, NEW n \in Sends, WriteText(n) \/ PeerReturns(n) \/ AckTimeout(n)
  PROVE  HistoryInv'
<1>1. UNCHANGED <<convos, ingested>>
  BY DEF WriteText, PeerReturns, AckTimeout
<1>2. ExchangesOK'
  <2>1. CASE WriteText(n)
    <3>1. CASE exchange' = [exchange EXCEPT ![n].sender = "wait", ![n].peer = "text"]
      BY <1>1, <3>1, ZenonT(60) DEF HistoryInv, ExchangesOK
    <3>2. CASE exchange' = [exchange EXCEPT ![n].sender = "failed"]
      BY <1>1, <3>2 DEF HistoryInv, ExchangesOK
    <3>3. QED
      BY <2>1, <3>1, <3>2 DEF WriteText
  <2>2. CASE PeerReturns(n)
    <3>1. PICK ack \in {0, None} : exchange' = [exchange EXCEPT ![n].peer = "done", ![n].ack = ack]
      BY <2>2 DEF PeerReturns
    <3>2. QED
      BY <1>1, <3>1, ZenonT(60) DEF HistoryInv, ExchangesOK
  <2>3. CASE AckTimeout(n)
    BY <1>1, <2>3 DEF AckTimeout, HistoryInv, ExchangesOK
  <2>4. QED
    BY <2>1, <2>2, <2>3
<1>3. \A m \in Sends : m # n => exchange'[m] = exchange[m]
  BY DEF WriteText, PeerReturns, AckTimeout, HistoryInv, ExchangesOK
<1>4. CASE WriteText(n)
  <2>1. /\ exchange'[n].to = exchange[n].to /\ exchange'[n].ack = exchange[n].ack
        /\ exchange'[n].sender \notin {"idle", "open"} /\ exchange'[n].peer \in {"text", exchange[n].peer}
        /\ exchange[n].sender = "open"
    BY <1>4 DEF WriteText, HistoryInv, ExchangesOK
  <2>2. ExchangeInv'
    BY <1>1, <1>3, <2>1 DEF HistoryInv, ExchangeInv
  <2>3. QED
    BY <1>1, <1>2, <2>2 DEF HistoryInv, HistoryBacked
<1>5. CASE PeerReturns(n)
  <2>1. /\ exchange'[n].to = exchange[n].to /\ exchange'[n].ack \in {0, None}
        /\ exchange'[n].sender = exchange[n].sender /\ exchange'[n].peer = "done"
        /\ exchange[n].peer = "text"
    BY <1>5 DEF PeerReturns, HistoryInv, ExchangesOK
  <2>2. ExchangeInv'
    BY <1>1, <1>3, <2>1 DEF HistoryInv, ExchangeInv
  <2>3. QED
    BY <1>1, <1>2, <2>2 DEF HistoryInv, HistoryBacked
<1>6. CASE AckTimeout(n)
  <2>1. /\ exchange'[n].to = exchange[n].to /\ exchange'[n].ack = exchange[n].ack
        /\ exchange'[n].sender = "failed" /\ exchange'[n].peer = exchange[n].peer
    BY <1>6 DEF AckTimeout, HistoryInv, ExchangesOK
  <2>2. ExchangeInv'
    BY <1>1, <1>3, <2>1 DEF HistoryInv, ExchangeInv
  <2>3. QED
    BY <1>1, <1>2, <2>2 DEF HistoryInv, HistoryBacked
<1>7. QED
  BY <1>4, <1>5, <1>6

\* The peer records the message, which it has not recorded before.
LEMMA IngestHistory ==
  ASSUME HistoryInv, NEW n \in Sends, PeerIngests(n)
  PROVE  HistoryInv'
<1>1. PICK ack \in {n, 0, None} : exchange' = [exchange EXCEPT ![n].peer = "done", ![n].ack = ack]
  BY DEF PeerIngests
<1>2. /\ convos' = convos /\ exchange[n].peer = "text"
      /\ ingested' = [ingested EXCEPT ![exchange[n].to] = Append(@, n)]
  BY DEF PeerIngests
<1>3. exchange' \in [Sends -> [to : {exchange'[m].to : m \in Sends},
                             sender : {"idle", "open", "wait", "ok", "failed"},
                             peer : {"idle", "text", "done"}, ack : Sends \cup {0, None}]]
  BY <1>1, ZenonT(60) DEF HistoryInv, ExchangesOK
<1>4. /\ \A m \in Sends : m # n => exchange'[m] = exchange[m]
      /\ exchange'[n].to = exchange[n].to /\ exchange'[n].ack \in {n, 0, None}
      /\ exchange'[n].sender = exchange[n].sender /\ exchange'[n].peer = "done"
  BY <1>1 DEF HistoryInv, ExchangesOK
<1>5. \A a \in Peers : n \notin ToSet(ingested[a])
  BY <1>2 DEF HistoryInv, ExchangeInv
<1>6. CASE exchange[n].to \in Peers
  <2> DEFINE t == exchange[n].to
  <2>1. /\ ingested' \in [Peers -> Seq(Sends)] /\ ingested'[t] = Append(ingested[t], n)
        /\ \A a \in Peers : a # t => ingested'[a] = ingested[a]
    BY <1>2, <1>6 DEF HistoryInv, ExchangesOK
  <2>2. ToSet(ingested'[t]) = ToSet(ingested[t]) \cup {n} /\ IsInjective(ingested'[t])
    <3> DEFINE h == ingested[t]
    <3>1. h \in Seq(Sends) /\ IsInjective(h) /\ n \notin ToSet(h)
      BY <1>5, <1>6 DEF HistoryInv, ExchangesOK, HistoryBacked
    <3>2. QED
      BY <2>1, <3>1, FreshAppend
  <2>3. ExchangesOK'
    BY <1>2, <1>3, <2>1 DEF HistoryInv, ExchangesOK
  <2>4. ExchangeInv'
    <3>1. \A a \in Peers : /\ ToSet(ingested[a]) \subseteq ToSet(ingested'[a])
                           /\ ToSet(ingested'[a]) \subseteq ToSet(ingested[a]) \cup {n}
      BY <2>1, <2>2
    <3>2. n \in ToSet(ingested'[t])
      BY <2>2
    <3>3. ASSUME NEW m \in Sends, m # n
          PROVE  /\ exchange[m].peer \in {"idle", "text"} => \A a \in Peers : m \notin ToSet(ingested'[a])
                 /\ exchange[m].ack = m /\ m \notin {0, None} /\ exchange[m].to \in Peers
                      => m \in ToSet(ingested'[exchange[m].to])
      BY <3>1, <3>3 DEF HistoryInv, ExchangeInv
    <3>4. exchange'[n].sender \notin {"idle", "open"}
      BY <1>2, <1>4 DEF HistoryInv, ExchangeInv
    <3>5. QED
      BY <1>4, <3>2, <3>3, <3>4 DEF HistoryInv, ExchangeInv
  <2>5. HistoryBacked'
    BY <1>2, <1>6, <2>1, <2>2 DEF HistoryInv, HistoryBacked
  <2>6. QED
    BY <2>3, <2>4, <2>5 DEF HistoryInv
<1>7. CASE exchange[n].to \notin Peers
  <2>1. ingested' = ingested
    BY <1>2, <1>7 DEF HistoryInv, ExchangesOK
  <2>2. ExchangesOK' /\ HistoryBacked'
    BY <1>2, <1>3, <2>1 DEF HistoryInv, ExchangesOK, HistoryBacked
  <2>3. ExchangeInv'
    BY <1>2, <1>4, <1>7, <2>1 DEF HistoryInv, ExchangeInv
  <2>4. QED
    BY <2>2, <2>3 DEF HistoryInv
<1>8. QED
  BY <1>6, <1>7

\* Only an acknowledgement that names the message enters the sender's history.
LEMMA AckHistory ==
  ASSUME HistoryInv, NEW n \in Sends, ReadAck(n)
  PROVE  HistoryInv'
<1>1. /\ exchange' = [exchange EXCEPT ![n].sender = IF exchange[n].ack = n THEN "ok" ELSE "failed"]
      /\ convos' = IF exchange[n].ack = n THEN [convos EXCEPT ![exchange[n].to] = AppendTo(@, n)] ELSE convos
      /\ ingested' = ingested /\ exchange[n].ack # None
  BY DEF ReadAck
<1>2. /\ \A m \in Sends : m # n => exchange'[m] = exchange[m]
      /\ exchange'[n].to = exchange[n].to /\ exchange'[n].ack = exchange[n].ack
      /\ exchange'[n].sender \in {"ok", "failed"} /\ exchange'[n].peer = exchange[n].peer
  BY <1>1 DEF HistoryInv, ExchangesOK
<1>3. ExchangeInv'
  BY <1>1, <1>2 DEF HistoryInv, ExchangeInv
<1>4. exchange' \in [Sends -> [to : {exchange'[m].to : m \in Sends},
                             sender : {"idle", "open", "wait", "ok", "failed"},
                             peer : {"idle", "text", "done"}, ack : Sends \cup {0, None}]]
  BY <1>1, ZenonT(60) DEF HistoryInv, ExchangesOK
<1>5. CASE exchange[n].ack = n /\ exchange[n].to \in Peers
  <2> DEFINE t == exchange[n].to
  <2>1. AppendTo(convos[t], n) \in Seq(Sends \cup {0}) /\ ToSet(AppendTo(convos[t], n)) \subseteq ToSet(convos[t]) \cup {n}
    <3>1. convos[t] \in Seq(Sends \cup {0})
      BY <1>5 DEF HistoryInv, ExchangesOK
    <3>2. QED
      BY <3>1, AppendedFrom
  <2>2. /\ convos' \in [Peers -> Seq(Sends \cup {0})] /\ convos'[t] = AppendTo(convos[t], n)
        /\ \A a \in Peers : a # t => convos'[a] = convos[a]
    BY <1>1, <1>5, <2>1 DEF HistoryInv, ExchangesOK
  <2>3. n = 0 \/ n \in ToSet(ingested[t])
    BY <1>1, <1>5 DEF HistoryInv, ExchangeInv
  <2>4. HistoryBacked'
    BY <1>1, <1>5, <2>1, <2>2, <2>3 DEF HistoryInv, HistoryBacked
  <2>5. QED
    BY <1>1, <1>3, <1>4, <2>2, <2>4 DEF HistoryInv, ExchangesOK
<1>6. CASE ~(exchange[n].ack = n /\ exchange[n].to \in Peers)
  <2>1. convos' = convos
    BY <1>1, <1>6 DEF HistoryInv, ExchangesOK
  <2>2. QED
    BY <1>1, <1>3, <1>4, <2>1 DEF HistoryInv, ExchangesOK, HistoryBacked
<1>7. QED
  BY <1>5, <1>6

\* A message of the peer enters the history without touching what was sent.
LEMMA IncomingHistory ==
  ASSUME HistoryInv, NEW a \in Peers, Ingest(a)
  PROVE  HistoryInv'
<1>1. convos' = [convos EXCEPT ![a] = AppendTo(@, 0)] /\ UNCHANGED <<exchange, ingested>>
  BY DEF Ingest
<1>2. AppendTo(convos[a], 0) \in Seq(Sends \cup {0}) /\ ToSet(AppendTo(convos[a], 0)) \subseteq ToSet(convos[a]) \cup {0}
  <2>1. convos[a] \in Seq(Sends \cup {0})
    BY DEF HistoryInv, ExchangesOK
  <2>2. QED
    BY <2>1, AppendedFrom
<1>3. /\ convos' \in [Peers -> Seq(Sends \cup {0})] /\ convos'[a] = AppendTo(convos[a], 0)
      /\ \A b \in Peers : b # a => convos'[b] = convos[b]
  BY <1>1, <1>2 DEF HistoryInv, ExchangesOK
<1>4. HistoryBacked'
  BY <1>1, <1>2, <1>3 DEF HistoryInv, HistoryBacked
<1>5. QED
  BY <1>1, <1>3, <1>4 DEF HistoryInv, ExchangesOK, ExchangeInv

\* Only the exchanges and incoming messages touch the histories.
LEMMA HistoryStep ==
  ASSUME HistoryInv, [Next]_vars
  PROVE  HistoryInv'
<1>1. CASE UNCHANGED chat
  BY <1>1 DEF chat, HistoryInv, ExchangesOK, ExchangeInv, HistoryBacked
<1>2. CASE Exchange
  BY <1>2, StreamHistory, IngestHistory, AckHistory DEF Exchange
<1>3. CASE RunSomeCmd
  <2>1. PICK c : RunCmd(c)
    BY <1>3 DEF RunSomeCmd
  <2>2. CASE sendChatMessage(c)
    <3>1. PICK ok \in BOOLEAN : SendMessage(c.arg[2], c.arg[1], ok)
      BY <2>2 DEF sendChatMessage
    <3>2. QED
      BY <3>1, SendHistory
  <2>3. CASE Query(c) \/ Decide(c) \/ DecideFile(c) \/ saveContact(c) \/ saveNode(c) \/ sendFile(c)
    <3>1. UNCHANGED chat
      BY <2>3 DEF Query, Decide, DecideFile, saveContact, saveNode, sendFile, outside
    <3>2. QED
      BY <1>1, <3>1
  <2>4. CASE SendReturns(c) \/ subscribeEvents(c) \/ waitForEvent(c)
    <3>1. UNCHANGED chat
      BY <2>4 DEF SendReturns, subscribeEvents, waitForEvent, outside
    <3>2. QED
      BY <1>1, <3>1
  <2>5. QED
    BY <2>1, <2>2, <2>3, <2>4 DEF RunCmd
<1>4. CASE MessageArrives
  BY <1>4, IncomingHistory DEF MessageArrives
<1>5. CASE UpdateApp \/ SubscribeAll \/ ForwardEvent \/ SendToStream \/ RecvFromStream \/ OfferHandled
  BY <1>1, <1>5 DEF UpdateApp, SubscribeAll, ForwardEvent, SendToStream, RecvFromStream, OfferHandled,
                    OfferDecided, OfferForgotten
<1>6. CASE Press \/ Quit \/ Panic \/ BreakStream \/ TorBecomesReady
  BY <1>1, <1>6 DEF Press, Quit, Panic, BreakStream, TorBecomesReady, outside
<1>7. CASE ConnectionRequest \/ OfferArrives \/ OfferExpires \/ PeerOnline \/ RemoveContact
  BY <1>1, <1>7 DEF ConnectionRequest, OfferArrives, OfferExpires, OfferTimeout, PeerOnline, RemoveContact
<1>8. CASE UNCHANGED vars
  BY <1>1, <1>8 DEF vars
<1>9. QED
  BY <1>2, <1>3, <1>4, <1>5, <1>6, <1>7, <1>8 DEF Next, System, Environment

-----------------------------------------------------------------------------

\* No key has been pressed and nothing has been sent.
LEMMA FrontendInit ==
  ASSUME Init
  PROVE  FrontendInv
<1> DEFINE start == {Cmd(op, <<>>) : op \in {"loadIdentity", "loadStatus", "subscribe"}}
<1>1. msgs = SetToBag({})
  BY DEF Init, EmptyBag
<1>2. PICK S : cmds = SetToBag(S) /\ \A c \in S : c.op \notin Consents
  <2>1. \A c \in start \cup {Cmd("wait", <<>>)} : c.op \notin Consents
    BY CmdFields DEF Consents
  <2>2. cmds = SetToBag(start) \/ cmds = SetToBag({Cmd("wait", <<>>)})
    BY DEF Init
  <2> HIDE DEF start
  <2>3. QED
    BY <2>1, <2>2
<1>3. \A T : IsABag(SetToBag(T)) /\ BagToSet(SetToBag(T)) = T
  BY DEF SetToBag, IsABag, BagToSet
<1>4. yes = [s \in Subjects |-> 0] /\ granted = [s \in Subjects |-> 0]
  BY DEF Init
<1>5. BagsOK
  BY <1>1, <1>2, <1>3, <1>4 DEF BagsOK
<1>7. /\ exchange = [n \in Sends |-> [to |-> None, sender |-> "idle", peer |-> "idle", ack |-> None]]
      /\ convos = [a \in Peers |-> <<>>] /\ ingested = [a \in Peers |-> <<>>]
  BY DEF Init, ChatInit
<1>8. ToSet(<<>>) = {} /\ IsInjective(<<>>)
  BY DEF ToSet, IsInjective
<1>9. ExchangesOK
  BY <1>7 DEF ExchangesOK
<1>10. ExchangeInv /\ HistoryBacked
  BY <1>7, <1>8 DEF ExchangeInv, HistoryBacked
<1>11. QED
  BY <1>5, <1>9, <1>10 DEF FrontendInv, HistoryInv

\* The bags of commands and messages and the two ends of every chat exchange stay
\* consistent, for every number of peers, offers and messages and every order in which
\* keys, commands, messages and streams take their steps.
THEOREM FrontendInvariant == Spec => []FrontendInv
<1>1. Init => FrontendInv
  BY FrontendInit
<1>2. FrontendInv /\ [Next]_vars => FrontendInv'
  BY BagsStep, HistoryStep DEF FrontendInv
<1>3. QED
  BY <1>1, <1>2, PTL DEF Spec

\* What chat.History records as sent, the peer's has recorded, once.
THEOREM HistoryTrue == Spec => []HistoryBacked
<1>1. FrontendInv => HistoryBacked
  BY DEF FrontendInv, HistoryInv
<1>2. QED
  BY <1>1, FrontendInvariant, PTL

-----------------------------------------------------------------------------
(* Induction.  A set of numbers stands for the property.                   *)

Below == {p \in Nat \X Nat : p[1] < p[2]}

\* The order of the natural numbers has no infinite descent.
LEMMA BelowWellFounded == IsWellFoundedOn(Below, Nat)
<1>1. Below = OpToRel(<, Nat)
  BY Zenon DEF Below, OpToRel
<1> QED
  BY <1>1, NatLessThanWellFounded, Zenon

\* A set of natural numbers that is not empty has a least element.
LEMMA Least ==
  ASSUME NEW T, T \subseteq Nat, T # {}
  PROVE  \E m \in T : \A k \in T : m <= k
<1>1. \E x \in T : \A y \in T : ~(<<y, x>> \in Below)
  BY WFMin, BelowWellFounded, Zenon
<1>2. PICK x \in T : \A y \in T : ~(<<y, x>> \in Below)
  BY <1>1
<1>3. ASSUME NEW y \in T PROVE x <= y
  <2>1. x \in Nat /\ y \in Nat
    OBVIOUS
  <2>2. y < x => <<y, x>> \in Below
    BY <2>1 DEF Below
  <2> QED
    BY <1>2, <2>1, <2>2
<1> QED
  BY <1>3

\* Induction up to N.
LEMMA UpTo ==
  ASSUME NEW N \in Nat, NEW T, 0 \in T, \A n \in 0..(N - 1) : n \in T => n + 1 \in T
  PROVE  \A n \in 0..N : n \in T
<1> DEFINE U == {n \in 0..N : n \notin T}
<1> SUFFICES ASSUME U # {} PROVE FALSE
  OBVIOUS
<1>1. U \subseteq Nat /\ U # {}
  OBVIOUS
<1>2. \E m \in U : \A k \in U : m <= k
  <2> HIDE DEF U
  <2> QED
    BY <1>1, Least, Zenon
<1>3. PICK m \in U : \A k \in U : m <= k
  BY <1>2
<1>4. m # 0 /\ m - 1 \in 0..(N - 1)
  BY <1>3
<1>5. m - 1 \in T
  BY <1>3, <1>4
<1> QED
  BY <1>3, <1>4, <1>5

Iterates(f, N, X, x0, step) ==
  f \in [0..N -> X] /\ f[0] = x0 /\ \A i \in 1..N : f[i] = step[i][f[i - 1]]

\* A step for every number up to N can be iterated N times.
LEMMA Iteration ==
  ASSUME NEW N \in Nat, NEW X, NEW x0 \in X, NEW step \in [1..N -> [X -> X]]
  PROVE  \E f : Iterates(f, N, X, x0, step)
<1> DEFINE P(n) == \E f \in [0..n -> X] :
                     f[0] = x0 /\ \A i \in 1..n : f[i] = step[i][f[i - 1]]
           T == {n \in 0..N : P(n)}
<1>1. 0 \in T
  <2> DEFINE f == [i \in 0..0 |-> x0]
  <2>1. f \in [0..0 -> X] /\ f[0] = x0
    OBVIOUS
  <2>2. \A i \in 1..0 : f[i] = step[i][f[i - 1]]
    OBVIOUS
  <2> HIDE DEF f
  <2>3. P(0)
    BY <2>1, <2>2
  <2> QED
    BY <2>3
<1>2. ASSUME NEW n \in 0..(N - 1), n \in T PROVE n + 1 \in T
  <2>1. PICK f \in [0..n -> X] : f[0] = x0 /\ \A i \in 1..n : f[i] = step[i][f[i - 1]]
    BY <1>2
  <2> DEFINE g == [i \in 0..(n + 1) |-> IF i = n + 1 THEN step[n + 1][f[n]] ELSE f[i]]
  <2>2. step[n + 1][f[n]] \in X
    OBVIOUS
  <2>3. g \in [0..(n + 1) -> X]
    BY <2>2
  <2>4. g[0] = x0
    BY <2>1
  <2>5. ASSUME NEW i \in 1..(n + 1) PROVE g[i] = step[i][g[i - 1]]
    BY <2>1
  <2>6. P(n + 1)
    BY <2>3, <2>4, <2>5
  <2> QED
    BY <2>6
<1>3. N \in T
  <2> HIDE DEF T
  <2>1. \A n \in 0..(N - 1) : n \in T => n + 1 \in T
    BY <1>2
  <2>2. \A n \in 0..N : n \in T
    BY <1>1, <2>1, UpTo, Zenon
  <2> QED
    BY <2>2
<1> QED
  BY <1>3 DEF Iterates
-----------------------------------------------------------------------------
(* The events of a type in a channel.                                      *)

OfRun(f, X, t, s) ==
  /\ f \in [0..Len(s) -> Seq(X)]
  /\ f[0] = <<>>
  /\ \A i \in 1..Len(s) : f[i] = IF s[i].type = t THEN Append(f[i - 1], s[i]) ELSE f[i - 1]
  /\ Of(t, s) = f[Len(s)]

\* Of goes through a channel event by event.
LEMMA OfSteps ==
  ASSUME NEW X, NEW t, NEW s \in Seq(X)
  PROVE  \E f : OfRun(f, X, t, s)
<1> DEFINE N == Len(s)
           Next1(f, i) == IF i = 0 THEN <<>>
                          ELSE IF s[i].type = t THEN Append(f[i - 1], s[i]) ELSE f[i - 1]
           Eq(f) == f = [i \in 0..Len(s) |-> Next1(f, i)]
           step == [i \in 1..N |-> [r \in Seq(X) |-> IF s[i].type = t THEN Append(r, s[i]) ELSE r]]
<1>1. N \in Nat
  OBVIOUS
<1>2. <<>> \in Seq(X)
  OBVIOUS
<1>3. step \in [1..N -> [Seq(X) -> Seq(X)]]
  OBVIOUS
<1>4. \E f : Iterates(f, N, Seq(X), <<>>, step)
  <2> HIDE DEF N, step
  <2> QED
    BY <1>1, <1>2, <1>3, Iteration
<1>5. PICK f \in [0..N -> Seq(X)] : f[0] = <<>> /\ \A i \in 1..N : f[i] = step[i][f[i - 1]]
  <2> HIDE DEF N, step
  <2> QED
    BY <1>4 DEF Iterates
<1>6. Eq(f)
  <2>1. ASSUME NEW i \in 0..N PROVE f[i] = Next1(f, i)
    <3>1. CASE i = 0
      BY <3>1, <1>5
    <3>2. CASE i # 0
      <4>1. i \in 1..N /\ f[i - 1] \in Seq(X)
        BY <3>2
      <4>2. step[i][f[i - 1]] = IF s[i].type = t THEN Append(f[i - 1], s[i]) ELSE f[i - 1]
        BY <4>1
      <4> QED
        BY <4>1, <4>2, <1>5, <3>2
    <3> QED
      BY <3>1, <3>2
  <2>2. DOMAIN f = 0..N /\ f = [i \in DOMAIN f |-> f[i]]
    OBVIOUS
  <2> HIDE DEF Next1
  <2> QED
    BY <2>1, <2>2, Zenon
<1> DEFINE F == CHOOSE g : Eq(g)
<1>7. Eq(F)
  <2> HIDE DEF Eq
  <2> QED
    BY <1>6
<1>8. Of(t, s) = F[N]
  BY DEF Of
<1> HIDE DEF F
<1>9. ASSUME NEW i \in 0..N PROVE F[i] = Next1(F, i)
  <2> HIDE DEF Next1
  <2> QED
    BY <1>7, Zenon
<1>10. DOMAIN F = 0..N /\ F[0] = <<>>
  <2>1. F[0] = Next1(F, 0)
    BY <1>1, <1>9
  <2> QED
    BY <1>7, <2>1
<1>11. ASSUME NEW i \in 1..N
       PROVE  F[i] = IF s[i].type = t THEN Append(F[i - 1], s[i]) ELSE F[i - 1]
  <2>1. F[i] = Next1(F, i)
    BY <1>9
  <2> QED
    BY <2>1
<1>12. \A n \in 0..N : F[n] \in Seq(X)
  <2> DEFINE T == {n \in 0..N : F[n] \in Seq(X)}
  <2>1. 0 \in T
    <3>1. F[0] \in Seq(X)
      BY <1>2, <1>10
    <3> QED
      BY <3>1
  <2>2. ASSUME NEW n \in 0..(N - 1), n \in T PROVE n + 1 \in T
    <3>1. F[n + 1] = IF s[n + 1].type = t THEN Append(F[n], s[n + 1]) ELSE F[n]
      BY <1>11
    <3>2. F[n] \in Seq(X) /\ s[n + 1] \in X
      BY <2>2
    <3>3. F[n + 1] \in Seq(X)
      BY <3>1, <3>2
    <3> QED
      BY <3>3
  <2>3. \A n \in 0..N : n \in T
    <3> HIDE DEF T, N
    <3> QED
      BY <1>1, <2>1, <2>2, UpTo
  <2> QED
    BY <2>3
<1>13. F \in [0..N -> Seq(X)]
  <2>1. F = [i \in DOMAIN F |-> F[i]]
    BY <1>7
  <2> QED
    BY <1>10, <1>12, <2>1
<1> QED
  BY <1>8, <1>10, <1>11, <1>13 DEF OfRun

\* Of yields a channel's content, nothing from an empty one.
LEMMA OfSeq ==
  ASSUME NEW X, NEW t, NEW s \in Seq(X)
  PROVE  Of(t, s) \in Seq(X) /\ (s = <<>> => Of(t, s) = <<>>)
<1>1. PICK f : OfRun(f, X, t, s)
  BY OfSteps
<1>2. Len(s) \in Nat /\ f \in [0..Len(s) -> Seq(X)] /\ f[0] = <<>> /\ Of(t, s) = f[Len(s)]
  BY <1>1 DEF OfRun
<1> QED
  BY <1>2

\* The event itself if it is of type t.
Only(t, e) == IF e.type = t THEN <<e>> ELSE <<>>

\* An event that comes in comes last.
LEMMA OfAppend ==
  ASSUME NEW X, NEW t, NEW s \in Seq(X), NEW e \in X
  PROVE  Of(t, Append(s, e)) = Of(t, s) \o Only(t, e)
<1> DEFINE N == Len(s)
           r == Append(s, e)
<1>1. N \in Nat /\ r \in Seq(X) /\ Len(r) = N + 1 /\ (\A i \in 1..N : r[i] = s[i]) /\ r[N + 1] = e
  OBVIOUS
<1>2. PICK f : OfRun(f, X, t, s)
  BY OfSteps
<1> HIDE DEF r
<1>3. PICK g : OfRun(g, X, t, r)
  BY <1>1, OfSteps
<1>4. /\ f \in [0..N -> Seq(X)] /\ f[0] = <<>> /\ Of(t, s) = f[N]
      /\ \A i \in 1..N : f[i] = IF s[i].type = t THEN Append(f[i - 1], s[i]) ELSE f[i - 1]
  BY <1>2 DEF OfRun
<1>5. /\ g \in [0..(N + 1) -> Seq(X)] /\ g[0] = <<>> /\ Of(t, r) = g[N + 1]
      /\ \A i \in 1..(N + 1) : g[i] = IF r[i].type = t THEN Append(g[i - 1], r[i]) ELSE g[i - 1]
  BY <1>1, <1>3 DEF OfRun
<1> HIDE DEF N
<1> DEFINE T == {n \in 0..N : f[n] = g[n]}
<1>6. 0 \in T
  BY <1>1, <1>4, <1>5
<1>7. ASSUME NEW n \in 0..(N - 1), n \in T PROVE n + 1 \in T
  <2>1. n + 1 \in 1..N /\ n + 1 \in 1..(N + 1) /\ (n + 1) - 1 = n /\ f[n] = g[n]
    BY <1>1, <1>7
  <2>2. f[n + 1] = IF s[n + 1].type = t THEN Append(f[n], s[n + 1]) ELSE f[n]
    BY <1>4, <2>1
  <2>3. g[n + 1] = IF r[n + 1].type = t THEN Append(g[n], r[n + 1]) ELSE g[n]
    BY <1>5, <2>1
  <2>4. r[n + 1] = s[n + 1]
    BY <1>1, <2>1
  <2>5. f[n + 1] = g[n + 1] /\ n + 1 \in 0..N
    BY <2>1, <2>2, <2>3, <2>4
  <2> QED
    BY <2>5
<1>8. N \in T
  <2> HIDE DEF T
  <2>1. \A n \in 0..N : n \in T
    BY <1>1, <1>6, <1>7, UpTo
  <2> QED
    BY <1>1, <2>1
<1>9. N + 1 \in 1..(N + 1) /\ (N + 1) - 1 = N
  BY <1>1
<1>10. g[N + 1] = IF e.type = t THEN Append(g[N], e) ELSE g[N]
  BY <1>1, <1>5, <1>9
<1>11. f[N] = g[N] /\ f[N] \in Seq(X)
  BY <1>1, <1>4, <1>8
<1>12. Append(f[N], e) = f[N] \o <<e>> /\ f[N] \o <<>> = f[N]
  BY <1>11, AppendIsConcat, ConcatEmptySeq
<1> QED
  BY <1>4, <1>5, <1>10, <1>11, <1>12 DEF Only, r

\* The event that goes out is the first.
LEMMA OfTail ==
  ASSUME NEW X, NEW t, NEW s \in Seq(X), s # <<>>
  PROVE  Of(t, s) = Only(t, Head(s)) \o Of(t, Tail(s))
<1> DEFINE N == Len(s) - 1
           r == Tail(s)
           h == Only(t, s[1])
<1>1. /\ N \in Nat /\ Len(s) = N + 1 /\ r \in Seq(X) /\ Len(r) = N
      /\ (\A i \in 1..N : r[i] = s[i + 1]) /\ Head(s) = s[1] /\ s[1] \in X
  OBVIOUS
<1> HIDE DEF r, N
<1>2. PICK f : OfRun(f, X, t, s)
  BY OfSteps
<1>3. PICK g : OfRun(g, X, t, r)
  BY <1>1, OfSteps
<1>4. /\ f \in [0..(N + 1) -> Seq(X)] /\ f[0] = <<>> /\ Of(t, s) = f[N + 1]
      /\ \A i \in 1..(N + 1) : f[i] = IF s[i].type = t THEN Append(f[i - 1], s[i]) ELSE f[i - 1]
  BY <1>1, <1>2 DEF OfRun
<1>5. /\ g \in [0..N -> Seq(X)] /\ g[0] = <<>> /\ Of(t, r) = g[N]
      /\ \A i \in 1..N : g[i] = IF r[i].type = t THEN Append(g[i - 1], r[i]) ELSE g[i - 1]
  BY <1>1, <1>3 DEF OfRun
<1>6. h \in Seq(X)
  BY <1>1 DEF Only
<1> DEFINE T == {n \in 0..N : f[n + 1] = h \o g[n]}
<1>7. 0 \in T
  <2>1. 1 \in 1..(N + 1) /\ 1 - 1 = 0 /\ 0 + 1 = 1 /\ 0 \in 0..N
    BY <1>1
  <2>2. f[1] = IF s[1].type = t THEN Append(f[0], s[1]) ELSE f[0]
    BY <1>4, <2>1
  <2>3. f[1] = h
    BY <1>4, <2>2 DEF Only
  <2>4. h \o g[0] = h
    BY <1>5, <1>6, ConcatEmptySeq
  <2> QED
    BY <2>1, <2>3, <2>4
<1> HIDE DEF h
<1>8. ASSUME NEW n \in 0..(N - 1), n \in T PROVE n + 1 \in T
  <2> DEFINE m == n + 1
  <2>1. /\ m \in 1..N /\ m + 1 \in 1..(N + 1) /\ m - 1 = n /\ (m + 1) - 1 = m /\ m \in 0..N
        /\ n \in 0..N /\ m + 1 \in 1..Len(s)
    BY <1>1, <1>8
  <2>2. f[m] = h \o g[n]
    BY <1>8
  <2> HIDE DEF m
  <2>3. f[m + 1] = IF s[m + 1].type = t THEN Append(f[m], s[m + 1]) ELSE f[m]
    BY <1>4, <2>1
  <2>4. g[m] = IF s[m + 1].type = t THEN Append(g[n], s[m + 1]) ELSE g[n]
    BY <1>1, <1>5, <2>1
  <2>5. g[n] \in Seq(X) /\ s[m + 1] \in X
    BY <1>5, <2>1
  <2>6. Append(h \o g[n], s[m + 1]) = h \o Append(g[n], s[m + 1])
    <3> DEFINE a == g[n]
               x == s[m + 1]
    <3>1. a \in Seq(X) /\ x \in X /\ <<x>> \in Seq(X)
      BY <2>5
    <3> HIDE DEF a, x
    <3>2. h \o a \in Seq(X)
      BY <1>6, <3>1, ConcatProperties
    <3>3. Append(h \o a, x) = (h \o a) \o <<x>>
      BY <3>1, <3>2, AppendIsConcat
    <3>4. Append(a, x) = a \o <<x>>
      BY <3>1, AppendIsConcat
    <3>5. (h \o a) \o <<x>> = h \o (a \o <<x>>)
      BY <1>6, <3>1, ConcatAssociative
    <3>6. Append(h \o a, x) = h \o Append(a, x)
      BY <3>3, <3>4, <3>5, Zenon
    <3> QED
      BY <3>6 DEF a, x
  <2>7. f[m + 1] = h \o g[m]
    BY <2>2, <2>3, <2>4, <2>6
  <2> QED
    BY <2>1, <2>7 DEF m
<1>9. N \in T
  <2> HIDE DEF T
  <2>1. \A n \in 0..N : n \in T
    BY <1>1, <1>7, <1>8, UpTo
  <2> QED
    BY <1>1, <2>1
<1>10. f[N + 1] = h \o g[N]
  BY <1>9
<1> QED
  BY <1>1, <1>4, <1>5, <1>10, Zenon DEF h, r

-----------------------------------------------------------------------------
(* The way of an event: six stations, one after the other.                 *)

Chain(a, b, c, d, e, f) == a \o b \o c \o d \o e \o f

Associate(u, v, w) == (u \o v) \o w = u \o (v \o w)

\* Concatenation is associative.
LEMMA Association == \A X : \A u, v, w \in Seq(X) : Associate(u, v, w)
<1> SUFFICES ASSUME NEW X, NEW u \in Seq(X), NEW v \in Seq(X), NEW w \in Seq(X)
             PROVE  (u \o v) \o w = u \o (v \o w)
  BY DEF Associate
<1> QED
  BY ConcatAssociative

\* Moving what is first at a station to the end of the one before.
Shifts(p, q, x, r) == (p \o q) \o (x \o r) = (p \o (q \o x)) \o r

\* It leaves the way as it is.
LEMMA Shift ==
  ASSUME NEW X, NEW p \in Seq(X), NEW q \in Seq(X), NEW x \in Seq(X), NEW r \in Seq(X)
  PROVE  Shifts(p, q, x, r)
<1>1. p \o q \in Seq(X)
  BY ConcatProperties
<1>2. Associate(p \o q, x, r) /\ Associate(p, q, x)
  BY <1>1, Association
<1> QED
  BY <1>2, Zenon DEF Associate, Shifts

\* The moves between neighbours, and the one from the merged channel to the reader.
Moves(a, b, c, d, e, f, x) ==
  /\ Chain(a, b, c, d, e, x \o f) = Chain(a, b, c, d, e \o x, f)
  /\ Chain(a, b, c, d, x \o e, f) = Chain(a, b, c, d \o x, e, f)
  /\ Chain(a, b, c, x \o d, e, f) = Chain(a, b, c \o x, d, e, f)
  /\ Chain(a, b, x \o c, d, e, f) = Chain(a, b \o x, c, d, e, f)
  /\ Chain(<<>>, x \o b, c, d, e, f) = Chain(x, b, c, d, e, f)
  /\ Chain(<<>>, <<>>, <<>>, x \o d, e, f) = Chain(x, <<>>, <<>>, d, e, f)

\* They leave the way as it is.
LEMMA ChainMoves ==
  ASSUME NEW X, NEW a \in Seq(X), NEW b \in Seq(X), NEW c \in Seq(X), NEW d \in Seq(X),
         NEW e \in Seq(X), NEW f \in Seq(X), NEW x \in Seq(X)
  PROVE  Moves(a, b, c, d, e, f, x)
<1> DEFINE p == a \o b
           q == p \o c
           r == q \o d
<1>1. p \in Seq(X)
  BY ConcatProperties
<1> HIDE DEF p
<1>2. q \in Seq(X)
  BY <1>1, ConcatProperties
<1> HIDE DEF q
<1>3. r \in Seq(X)
  BY <1>2, ConcatProperties
<1> HIDE DEF r
<1>4. Shifts(r, e, x, f) /\ Shifts(q, d, x, e) /\ Shifts(p, c, x, d) /\ Shifts(a, b, x, c)
  BY <1>1, <1>2, <1>3, Shift
<1>5. <<>> \o (x \o b) = x \o b
  <2>1. x \o b \in Seq(X)
    BY ConcatProperties
  <2> QED
    BY <2>1, ConcatEmptySeq
<1>6. ((<<>> \o <<>>) \o <<>>) \o (x \o d) = ((x \o <<>>) \o <<>>) \o d
  <2>1. x \o d \in Seq(X) /\ <<>> \in Seq(X)
    BY ConcatProperties
  <2>2. <<>> \o <<>> = <<>> /\ x \o <<>> = x /\ <<>> \o (x \o d) = x \o d
    BY <2>1, ConcatEmptySeq
  <2> QED
    BY <2>2, Zenon
<1> QED
  BY <1>4, <1>5, <1>6, Zenon DEF Moves, Chain, Shifts, p, q, r

\* What comes in at the end of the way, and what goes out at its beginning.
Ends(a, b, c, d, e, f, x) ==
  /\ Chain(a, b, c, d, e, f \o x) = Chain(a, b, c, d, e, f) \o x
  /\ Chain(x, b, c, d, e, f) = x \o Chain(<<>>, b, c, d, e, f)

\* They leave the rest as it is.
LEMMA ChainEnds ==
  ASSUME NEW X, NEW a \in Seq(X), NEW b \in Seq(X), NEW c \in Seq(X), NEW d \in Seq(X),
         NEW e \in Seq(X), NEW f \in Seq(X), NEW x \in Seq(X)
  PROVE  Chain(a, b, c, d, e, f) \in Seq(X) /\ Ends(a, b, c, d, e, f, x)
<1>1. a \o b \in Seq(X) /\ (a \o b) \o c \in Seq(X) /\ ((a \o b) \o c) \o d \in Seq(X)
  BY ConcatProperties
<1>2. (((a \o b) \o c) \o d) \o e \in Seq(X)
  BY <1>1, ConcatProperties
<1>3. ((((a \o b) \o c) \o d) \o e) \o f \in Seq(X)
  BY <1>2, ConcatProperties
<1>4. Associate((((a \o b) \o c) \o d) \o e, f, x)
  BY <1>2, Association
<1>5. <<>> \o b = b
  BY ConcatEmptySeq
<1> DEFINE p == b \o c
           q == p \o d
           r == q \o e
<1>6. p \in Seq(X)
  BY ConcatProperties
<1> HIDE DEF p
<1>7. q \in Seq(X)
  BY <1>6, ConcatProperties
<1> HIDE DEF q
<1>8. r \in Seq(X)
  BY <1>7, ConcatProperties
<1> HIDE DEF r
<1>9. Associate(x, b, c) /\ Associate(x, p, d) /\ Associate(x, q, e) /\ Associate(x, r, f)
  BY <1>6, <1>7, <1>8, Association
<1> QED
  BY <1>3, <1>4, <1>5, <1>9, Zenon DEF Ends, Chain, Associate, p, q, r

\* Taking the first of a way that begins with it.
LEMMA TailOfFirst ==
  ASSUME NEW X, NEW x \in X, NEW s \in Seq(X)
  PROVE  <<x>> \o s # <<>> /\ Tail(<<x>> \o s) = s
<1> DEFINE q == <<x>> \o s
<1>1. <<x>> \in Seq(X) /\ Len(<<x>>) = 1 /\ Len(s) \in Nat
  OBVIOUS
<1>2. q \in Seq(X) /\ Len(q) = 1 + Len(s) /\ \A i \in 1..(1 + Len(s)) : q[i] = IF i <= 1 THEN <<x>>[i] ELSE s[i - 1]
  BY <1>1, ConcatProperties
<1> HIDE DEF q
<1>3. q # <<>>
  BY <1>1, <1>2
<1>4. Tail(q) \in Seq(X) /\ Len(Tail(q)) = Len(s) /\ \A i \in 1..Len(Tail(q)) : Tail(q)[i] = q[i + 1]
  BY <1>1, <1>2, <1>3, HeadTailProperties
<1>5. ASSUME NEW i \in 1..Len(Tail(q)) PROVE Tail(q)[i] = s[i]
  <2>1. i + 1 \in 1..(1 + Len(s)) /\ ~(i + 1 <= 1) /\ (i + 1) - 1 = i
    BY <1>1, <1>4
  <2> QED
    BY <1>2, <1>4, <2>1
<1>6. Tail(q) = s
  BY <1>4, <1>5, SeqEqual
<1> QED
  BY <1>3, <1>6 DEF q

\* A channel is its first event and the rest.
LEMMA HeadFirst ==
  ASSUME NEW X, NEW s \in Seq(X), s # <<>>
  PROVE  s = <<Head(s)>> \o Tail(s)
<1> DEFINE h == <<Head(s)>>
           r == Tail(s)
           q == h \o r
<1>1. /\ h \in Seq(X) /\ Len(h) = 1 /\ h[1] = s[1]
      /\ r \in Seq(X) /\ Len(r) = Len(s) - 1 /\ Len(s) \in Nat \ {0}
      /\ \A i \in 1..Len(r) : r[i] = s[i + 1]
  BY HeadTailProperties
<1> HIDE DEF h, r
<1>2. /\ q \in Seq(X) /\ Len(q) = Len(h) + Len(r)
      /\ \A i \in 1..(Len(h) + Len(r)) : q[i] = IF i <= Len(h) THEN h[i] ELSE r[i - Len(h)]
  BY <1>1, ConcatProperties
<1> HIDE DEF q
<1>3. Len(q) = Len(s)
  BY <1>1, <1>2
<1>4. ASSUME NEW i \in 1..Len(s) PROVE s[i] = q[i]
  <2>1. CASE i = 1
    BY <1>1, <1>2, <2>1
  <2>2. CASE i # 1
    <3>1. i - 1 \in 1..Len(r) /\ ~(i <= Len(h)) /\ i \in 1..(Len(h) + Len(r)) /\ (i - 1) + 1 = i
      BY <1>1, <2>2
    <3>2. q[i] = r[i - 1]
      BY <1>1, <1>2, <3>1
    <3> QED
      BY <1>1, <3>1, <3>2
  <2> QED
    BY <2>1, <2>2
<1>5. s = q
  BY <1>2, <1>3, <1>4, SeqEqual
<1> QED
  BY <1>5 DEF q, h, r

-----------------------------------------------------------------------------
(* The reader of the event channel.                                        *)

\* Something is in a bag if the bag has a copy of it.
LEMMA InBag ==
  ASSUME NEW B, IsABag(B), NEW x
  PROVE  x \in BagToSet(B) <=> Copies(x, B) > 0
BY DEF IsABag, BagToSet, Copies

\* What Update is about to handle of type t when B are the messages.
EventMsgs(t, B) == {m \in BagToSet(B) : m.op = "event" /\ m.arg[1].type = t}
Foremost(t, B) == IF EventMsgs(t, B) = {} THEN <<>> ELSE (CHOOSE m \in EventMsgs(t, B) : TRUE).arg

\* Without an event message nothing is there for any type.
LEMMA FrontEmpty ==
  ASSUME NEW B, \A m \in BagToSet(B) : m.op # "event"
  PROVE  \A t : EventMsgs(t, B) = {} /\ Foremost(t, B) = <<>>
<1>1. \A t : EventMsgs(t, B) = {}
  BY DEF EventMsgs
<1> QED
  BY <1>1 DEF Foremost

\* With one, the event is there for its type and nothing for the others.
LEMMA FrontOne ==
  ASSUME NEW B, NEW e, Cmd("event", <<e>>) \in BagToSet(B),
         \A m \in BagToSet(B) : m.op = "event" => m = Cmd("event", <<e>>)
  PROVE  \A t : Foremost(t, B) = Only(t, e) /\ (e.type # t => EventMsgs(t, B) = {})
<1> DEFINE m == Cmd("event", <<e>>)
<1>1. m.op = "event" /\ m.arg = <<e>> /\ m.arg[1] = e
  BY DEF Cmd
<1> HIDE DEF m
<1>2. m \in BagToSet(B) /\ \A n \in BagToSet(B) : n.op = "event" => n = m
  BY DEF m
<1>3. ASSUME NEW t PROVE EventMsgs(t, B) = IF e.type = t THEN {m} ELSE {}
  BY <1>1, <1>2 DEF EventMsgs
<1>4. (CHOOSE n \in {m} : TRUE) = m
  OBVIOUS
<1> QED
  BY <1>1, <1>3, <1>4 DEF Foremost, Only

\* There is no event message, or one.
LEMMA FrontCases ==
  ASSUME ReaderInv
  PROVE  \/ \A m \in BagToSet(msgs) : m.op # "event"
         \/ \E e \in Events : /\ Cmd("event", <<e>>) \in BagToSet(msgs)
                              /\ \A m \in BagToSet(msgs) : m.op = "event" => m = Cmd("event", <<e>>)
<1> SUFFICES ASSUME NEW n \in BagToSet(msgs), n.op = "event"
             PROVE  \E e \in Events : /\ n = Cmd("event", <<e>>)
                                      /\ \A m \in BagToSet(msgs) : m.op = "event" => m = n
  OBVIOUS
<1>1. n \in ReadingMsgs
  BY DEF ReadingMsgs
<1>2. \E e \in Events : n = Cmd("event", <<e>>)
  BY <1>1 DEF ReaderInv
<1>3. \A m \in BagToSet(msgs) : m.op = "event" => m = n
  BY <1>1 DEF ReaderInv, ReadingMsgs
<1> QED
  BY <1>2, <1>3

\* In each case what is there are events.
LEMMA FrontSeq ==
  ASSUME ReaderInv
  PROVE  \A t : Foremost(t, msgs) \in Seq(Events)
<1>1. CASE \A m \in BagToSet(msgs) : m.op # "event"
  <2>1. \A t : Foremost(t, msgs) = <<>>
    BY <1>1, FrontEmpty
  <2>2. <<>> \in Seq(Events)
    OBVIOUS
  <2> QED
    BY <2>1, <2>2, Zenon
<1>2. CASE \E e \in Events : /\ Cmd("event", <<e>>) \in BagToSet(msgs)
                             /\ \A m \in BagToSet(msgs) : m.op = "event" => m = Cmd("event", <<e>>)
  <2>1. PICK e \in Events : /\ Cmd("event", <<e>>) \in BagToSet(msgs)
                            /\ \A m \in BagToSet(msgs) : m.op = "event" => m = Cmd("event", <<e>>)
    BY <1>2
  <2>2. \A t : Foremost(t, msgs) = Only(t, e)
    BY <2>1, FrontOne
  <2>3. \A t : Only(t, e) \in Seq(Events)
    BY DEF Only
  <2> QED
    BY <2>2, <2>3
<1> QED
  BY <1>1, <1>2, FrontCases

\* Steps that neither subscribe nor wait nor bring an event.
LEMMA QuietReaders ==
  ASSUME BagsOK, BagsOK', ReaderInv,
         \A x : x.op \in {"subscribe", "wait"} => Copies(x, cmds') = Copies(x, cmds),
         \A x : x.op \in {"eventChan", "event"} => Copies(x, msgs') = Copies(x, msgs)
  PROVE  ReaderInv' /\ \A t : Reading(t)' = Reading(t)
<1>1. \A x : x.op \in {"subscribe", "wait"} => (x \in BagToSet(cmds') <=> x \in BagToSet(cmds))
  BY InBag DEF BagsOK
<1>2. \A x : x.op \in {"eventChan", "event"} => (x \in BagToSet(msgs') <=> x \in BagToSet(msgs))
  BY InBag DEF BagsOK
<1>3. ReadingCmds' = ReadingCmds /\ ReadingMsgs' = ReadingMsgs
  BY <1>1, <1>2 DEF ReadingCmds, ReadingMsgs
<1>4. \A c \in ReadingCmds : c.op \in {"subscribe", "wait"}
  BY DEF ReadingCmds
<1>5. \A m \in ReadingMsgs : m.op \in {"eventChan", "event"}
  BY DEF ReadingMsgs
<1>6. \A t : Reading(t)' = Reading(t)
  BY <1>3 DEF Reading, ReadingMsgs
<1> QED
  BY <1>3, <1>4, <1>5, <1>6 DEF ReaderInv

\* A command that reads ends in a message that reads, or in none.
LEMMA ReaderReturns ==
  ASSUME BagsOK, BagsOK', ReaderInv, NEW c, c.op \in {"subscribe", "wait"},
         NEW ms, NEW r, ms = {r} \/ ms = {}, Returns(c, ms),
         r.op \in {"eventChan", "event"}, r.op = "event" => \E e \in Events : r = Cmd("event", <<e>>)
  PROVE  ReaderInv' /\ ReadingMsgs = {} /\ ReadingMsgs' = ms
<1>1. /\ c \in BagToSet(cmds)
      /\ \A x : /\ Copies(x, cmds') = Copies(x, cmds) - (IF x = c THEN 1 ELSE 0)
                /\ Copies(x, msgs') = Copies(x, msgs) + (IF x \in ms THEN 1 ELSE 0)
                /\ Copies(x, cmds) \in Nat /\ Copies(x, msgs) \in Nat
  BY ReturnsCopies
<1>2. c \in ReadingCmds
  BY <1>1 DEF ReadingCmds
<1>3. ReadingMsgs = {} /\ Copies(c, cmds) = 1 /\ \A x \in BagToSet(cmds) : x.op \in {"subscribe", "wait"} => x = c
  BY <1>2 DEF ReaderInv, ReadingCmds
<1>4. \A x : x \in BagToSet(cmds') => x \in BagToSet(cmds) /\ x # c
  BY <1>1, <1>3, InBag DEF BagsOK
<1>5. ReadingCmds' = {}
  BY <1>3, <1>4 DEF ReadingCmds
<1>6. \A x : x.op \in {"eventChan", "event"} => Copies(x, msgs) = 0
  BY <1>1, <1>3, InBag DEF ReadingMsgs, BagsOK
<1>7. \A x : x.op \in {"eventChan", "event"} => Copies(x, msgs') = (IF x \in ms THEN 1 ELSE 0)
  BY <1>1, <1>6
<1>8. \A x : x.op \in {"eventChan", "event"} => (x \in BagToSet(msgs') <=> x \in ms)
  BY <1>7, InBag DEF BagsOK
<1>9. ReadingMsgs' = ms
  BY <1>8 DEF ReadingMsgs
<1> QED
  BY <1>3, <1>5, <1>7, <1>9 DEF ReaderInv

\* Update takes a message that reads and returns the command that waits, once.
LEMMA ReaderUpdates ==
  ASSUME BagsOK, BagsOK', ReaderInv, NEW m \in BagToSet(msgs), m.op \in {"eventChan", "event"},
         msgs' = msgs (-) SetToBag({m}), NEW do, cmds' = cmds (+) SetToBag(do),
         NextEvent \in do, \A c \in do : c.op \in {"subscribe", "wait"} => c = NextEvent
  PROVE  ReaderInv' /\ ReadingMsgs = {m} /\ ReadingMsgs' = {}
<1>1. \A x : /\ Copies(x, msgs') = Copies(x, msgs) - (IF x = m THEN 1 ELSE 0)
             /\ Copies(x, cmds') = Copies(x, cmds) + (IF x \in do THEN 1 ELSE 0)
             /\ Copies(x, cmds) \in Nat /\ Copies(x, msgs) \in Nat
  BY AddCopies, TakeCopy, CopiesNat DEF BagsOK
<1>2. m \in ReadingMsgs
  BY DEF ReadingMsgs
<1>3. ReadingMsgs = {m} /\ ReadingCmds = {} /\ Copies(m, msgs) = 1
  BY <1>2 DEF ReaderInv
<1>4. \A x : x \in BagToSet(msgs') => x \in BagToSet(msgs) /\ x # m
  BY <1>1, <1>3, InBag, SMTT(30) DEF BagsOK
<1>5. ReadingMsgs' = {}
  <2>1. \A n \in BagToSet(msgs) : n.op \in {"eventChan", "event"} => n = m
    BY <1>2 DEF ReaderInv, ReadingMsgs
  <2> QED
    BY <1>4, <2>1 DEF ReadingMsgs
<1>6. \A x : x.op \in {"subscribe", "wait"} => Copies(x, cmds) = 0
  BY <1>1, <1>3, InBag DEF ReadingCmds, BagsOK
<1>7. \A x : x.op \in {"subscribe", "wait"} => Copies(x, cmds') = (IF x = NextEvent THEN 1 ELSE 0)
  BY <1>1, <1>6
<1>8. \A x : x.op \in {"subscribe", "wait"} => (x \in BagToSet(cmds') => x = NextEvent)
  BY <1>7, InBag DEF BagsOK
<1>9. \A x \in ReadingCmds' : x = NextEvent /\ Copies(x, cmds') = 1
  BY <1>7, <1>8 DEF ReadingCmds
<1> QED
  BY <1>3, <1>5, <1>9 DEF ReaderInv

Reads == {"subscribe", "wait", "eventChan", "event"}

\* Update asks for the next event when it has the channel or has handled an event,
\* and at no other time.
LEMMA UpdateReads ==
  ASSUME NEW a, NEW m
  PROVE  /\ m.op \in {"eventChan", "event"} => NextEvent \in Update(a, m).do
         /\ \A c \in Update(a, m).do :
              c.op \in {"subscribe", "wait"} => c = NextEvent /\ m.op \in {"eventChan", "event"}
<1> DEFINE do == Update(a, m).do
           Quiet(S) == \A c \in S : c.op \notin {"subscribe", "wait"}
<1>1. ASSUME NEW b, NEW ds PROVE /\ ds \subseteq maybeTransition(b, ds).do
                                 /\ maybeTransition(b, ds).do \subseteq ds \cup {Cmd("loadContacts", <<>>)}
  BY DEF maybeTransition, Result
<1>2. ASSUME NEW e
      PROVE  /\ NextEvent \in handleEvent(a, e).do
             /\ \A c \in handleEvent(a, e).do : c.op \in {"subscribe", "wait"} => c = NextEvent
  <2>1. /\ NextEvent \in TorReady(a).do
        /\ \A c \in TorReady(a).do : c.op \in {"subscribe", "wait"} => c = NextEvent
    BY <1>1, CmdFields DEF TorReady
  <2>2. CASE handleEvent(a, e) = TorReady(a)
    BY <2>1, <2>2
  <2>3. CASE handleEvent(a, e).do = {NextEvent}
    BY <2>3
  <2> QED
    BY <2>2, <2>3 DEF handleEvent, ConnectionReq, FileOffer, Result
<1>3. Quiet(identityLoaded(a).do)
  BY <1>1, CmdFields DEF identityLoaded
<1>4. Quiet(statusLoaded(a, m.arg[1]).do)
  BY <1>1, CmdFields DEF statusLoaded, Result
<1>5. Quiet(chatSend(a, m.arg).do) /\ Quiet(chatSent(a, m.arg).do) /\ Quiet(fileSelected(a, m.arg).do)
      /\ Quiet(fileSendDone(a, m.arg).do)
  BY CmdFields DEF chatSend, chatSent, fileSelected, fileSendDone, Result
<1>6. Quiet(decisionDone(a).do) /\ Quiet(contactSaved(a).do) /\ Quiet(nodeScreenDone(a).do)
  BY CmdFields DEF decisionDone, contactSaved, nodeScreenDone, Result
<1>7. CASE m.op = "event"
  <2>1. Update(a, m) = handleEvent(a, m.arg[1])
    BY <1>7 DEF Update
  <2> QED
    BY <1>2, <1>7, <2>1
<1>8. CASE m.op = "eventChan"
  <2>1. do = {NextEvent}
    BY <1>8 DEF Update, Result
  <2> QED
    BY <1>8, <2>1
<1>9. CASE m.op \notin {"event", "eventChan"}
  <2>1. Quiet(do)
    <3>1. CASE m.op \in {"identityLoaded", "statusLoaded", "chatSent", "ChatSend", "FileSelected", "fileSendDone"}
      BY <1>3, <1>4, <1>5, <3>1 DEF Update
    <3>2. CASE m.op \in {"connDecisionDone", "fileDecisionDone", "contactSaved", "nodeScreenDone"}
      BY <1>6, <3>2 DEF Update
    <3>3. CASE m.op \in {"contactsLoaded", "AddContactSaved", "AddNodeSaved", "nodeSaved",
                         "ConnAccepted", "ConnRejected", "FileAccepted", "FileRejected"}
      BY <3>3, CmdFields DEF Update, ConnAccepted, Result
    <3>4. CASE m.op \notin {"identityLoaded", "statusLoaded", "chatSent", "ChatSend", "FileSelected",
                            "fileSendDone", "connDecisionDone", "fileDecisionDone", "contactSaved",
                            "nodeScreenDone", "contactsLoaded", "AddContactSaved", "AddNodeSaved",
                            "nodeSaved", "ConnAccepted", "ConnRejected", "FileAccepted", "FileRejected"}
      <4>1. do = {}
        BY <1>9, <3>4 DEF Update, Result
      <4> QED
        BY <4>1
    <3> QED
      BY <3>1, <3>2, <3>3, <3>4
  <2> QED
    BY <1>9, <2>1
<1> QED
  BY <1>7, <1>8, <1>9

\* No key reads the event channel.
LEMMA KeyReads ==
  ASSUME NEW a, NEW k, NEW x, NEW c \in handleKey(a, k, x).do
  PROVE  c.op \notin Reads
<1>1. \A d \in HomeKey(a, k).do : d.op \notin Reads
  BY DEF HomeKey, Show, NewChat, HomeUpdate, Result, Cmd, Reads
<1>2. \A d \in ConnPromptUpdate(a, k).do \cup FileOfferUpdate(a, k).do : d.op \notin Reads
  BY DEF ConnPromptUpdate, FileOfferUpdate, Emit, Result, Cmd, Reads
<1>3. \A d \in AddContactUpdate(a, k, x).do \cup AddNodeUpdate(a, k).do \cup ChatUpdate(a, k, x).do :
        d.op \notin Reads
  BY DEF AddContactUpdate, AddNodeUpdate, ChatUpdate, Emit, Result, Cmd, Reads
<1>4. \A d \in FilePickerUpdate(a, k).do \cup TransferUpdate(a, k).do : d.op \notin Reads
  BY DEF FilePickerUpdate, TransferUpdate, Emit, Result, Cmd, Reads
<1> QED
  BY <1>1, <1>2, <1>3, <1>4 DEF handleKey, Show, Result

\* What is spent is not the mode.
LEMMA SpendMode ==
  ASSUME "mode" \in DOMAIN mix, NEW what, what # "mode", Spend(what)
  PROVE  "mode" \in DOMAIN mix' /\ direct' = direct
BY DEF Spend, direct

-----------------------------------------------------------------------------
(* The way of the events.                                                  *)

\* What the forwarder of t holds, and what waits for it.
InHand(t) == IF held[t] = None THEN <<>> ELSE <<held[t]>>
Queued(t) == IF subs[t] = None THEN <<>> ELSE subs[t]

\* The path of a type has six stations, each a list of events.
LEMMA PathStations ==
  ASSUME ReaderInv, ChannelsOK, NEW t \in Types
  PROVE  /\ Path(t) = Chain(Foremost(t, msgs), Of(t, ch), Of(t, wire), Of(t, merged), InHand(t), Queued(t))
         /\ Foremost(t, msgs) \in Seq(Events) /\ Of(t, ch) \in Seq(Events) /\ Of(t, wire) \in Seq(Events)
         /\ Of(t, merged) \in Seq(Events) /\ InHand(t) \in Seq(Events) /\ Queued(t) \in Seq(Events)
<1>1. Reading(t) = EventMsgs(t, msgs)
  BY DEF Reading, EventMsgs
<1>2. Path(t) = Chain(Foremost(t, msgs), Of(t, ch), Of(t, wire), Of(t, merged), InHand(t), Queued(t))
  BY <1>1 DEF Path, Chain, Foremost, InHand, Queued
<1>3. Foremost(t, msgs) \in Seq(Events)
  BY FrontSeq
<1>4. Of(t, ch) \in Seq(Events) /\ Of(t, wire) \in Seq(Events) /\ Of(t, merged) \in Seq(Events)
  BY OfSeq DEF ChannelsOK
<1>5. InHand(t) \in Seq(Events) /\ Queued(t) \in Seq(Events)
  BY DEF InHand, Queued, ChannelsOK
<1> QED
  BY <1>2, <1>3, <1>4, <1>5

\* The same of the next state.
LEMMA NextPath ==
  ASSUME NEW t \in Types
  PROVE  Path(t)' = Chain(Foremost(t, msgs'), Of(t, ch'), Of(t, wire'), Of(t, merged'),
                          InHand(t)', Queued(t)')
<1>1. Reading(t)' = EventMsgs(t, msgs')
  BY DEF Reading, EventMsgs
<1> QED
  BY <1>1 DEF Path, Chain, Foremost, InHand, Queued

\* Steps that have nothing to do with events.
LEMMA OpenedEvents ==
  ASSUME EventInv, ReaderInv', \A t : Reading(t)' = Reading(t), UNCHANGED <<bus, wire, ch>>,
         stream' = stream \/ (~direct /\ stream # "broken"), direct' = direct, "mode" \in DOMAIN mix'
  PROVE  EventInv'
<1>1. UNCHANGED <<subs, held, merged, gone, inflight>>
  BY DEF bus
<1>2. \A t : Reading(t)' = Reading(t)
  OBVIOUS
<1>3. ChannelsOK'
  BY <1>1 DEF EventInv, ChannelsOK
<1>4. PassedOver'
  BY <1>2 DEF EventInv, PassedOver
<1>5. EventsConserved'
  <2>1. ASSUME NEW t \in Types PROVE Path(t)' = Path(t)
    <3>1. EventMsgs(t, msgs') = EventMsgs(t, msgs)
      BY <1>2 DEF Reading, EventMsgs
    <3>2. Foremost(t, msgs') = Foremost(t, msgs) /\ InHand(t)' = InHand(t) /\ Queued(t)' = Queued(t)
      BY <1>1, <3>1 DEF Foremost, InHand, Queued
    <3>3. Path(t) = Chain(Foremost(t, msgs), Of(t, ch), Of(t, wire), Of(t, merged), InHand(t), Queued(t))
      BY PathStations DEF EventInv
    <3>4. ch' = ch /\ wire' = wire
      OBVIOUS
    <3> QED
      BY <1>1, <3>2, <3>3, <3>4, NextPath, Zenon
  <2> QED
    BY <1>1, <2>1 DEF EventInv, EventsConserved
<1> QED
  BY <1>3, <1>4, <1>5 DEF EventInv

\* A step that leaves the stream alone too.
LEMMA QuietEvents ==
  ASSUME EventInv, ReaderInv', \A t : Reading(t)' = Reading(t), UNCHANGED <<bus, wire, ch, stream>>,
         direct' = direct, "mode" \in DOMAIN mix'
  PROVE  EventInv'
<1>1. UNCHANGED <<bus, wire, ch>>
  OBVIOUS
<1>2. stream' = stream \/ (~direct /\ stream # "broken")
  OBVIOUS
<1> QED
  BY <1>1, <1>2, OpenedEvents

\* Steps of the bus and of the stream leave the messages alone.
LEMMA SameMessages ==
  ASSUME ReaderInv, UNCHANGED <<cmds, msgs>>
  PROVE  ReaderInv' /\ \A t : Reading(t)' = Reading(t)
BY DEF ReaderInv, ReadingCmds, ReadingMsgs, Reading, Copies

\* What Publish accepts joins the end of its way; what it does not is not under way.
LEMMA PublishEvents ==
  ASSUME EventInv, NEW y, NEW x, y \in Types => Event(y, x) \in Events, Publish(Event(y, x)),
         UNCHANGED <<wire, ch, stream, cmds, msgs>>, direct' = direct, "mode" \in DOMAIN mix'
  PROVE  EventInv'
<1> DEFINE e == Event(y, x)
           s == subs[y]
           accepted == s # None /\ Len(s) < SubscriberBuffer
<1>1. e.type = y /\ (y \in Types => e \in Events)
  BY DEF Event
<1>2. ReaderInv' /\ \A t : Reading(t)' = Reading(t)
  BY SameMessages DEF EventInv
<1>3. /\ subs' = IF accepted THEN [subs EXCEPT ![y] = Append(@, e)] ELSE subs
      /\ inflight' = IF accepted /\ ~gone THEN [inflight EXCEPT ![y] = Append(@, e)] ELSE inflight
      /\ UNCHANGED <<held, merged, gone>>
  BY <1>1 DEF Publish
<1> HIDE DEF e
<1>4. subs \in [Types -> Seq(Events) \cup {None}] /\ inflight \in [Types -> Seq(Events)]
  BY DEF EventInv, ChannelsOK
<1>5. CASE ~accepted \/ y \notin Types
  <2>1. subs' = subs /\ inflight' = inflight
    BY <1>3, <1>4, <1>5
  <2>2. UNCHANGED <<bus, wire, ch, stream>>
    BY <1>3, <2>1 DEF bus
  <2> QED
    BY <1>2, <2>2, QuietEvents
<1>6. CASE accepted /\ y \in Types
  <2>1. s \in Seq(Events) /\ e \in Events
    BY <1>1, <1>4, <1>6
  <2>2. Append(s, e) \in Seq(Events) /\ Append(s, e) # None
    BY <2>1, FrontendAssumption
  <2>3. /\ subs' \in [Types -> Seq(Events) \cup {None}] /\ subs'[y] = Append(s, e)
        /\ \A t \in Types : t # y => subs'[t] = subs[t]
    BY <1>3, <1>4, <1>6, <2>2
  <2> HIDE DEF s
  <2>4. inflight' \in [Types -> Seq(Events)]
    BY <1>3, <1>4, <1>6, <2>1
  <2>5. ASSUME NEW t \in Types, subs'[t] # None, NEW i \in 1..Len(subs'[t])
        PROVE  subs'[t][i].type = t
    <3>1. CASE t # y
      BY <2>3, <2>5, <3>1 DEF EventInv, ChannelsOK
    <3>2. CASE t = y /\ i <= Len(s)
      <4>1. i \in 1..Len(s) /\ subs'[t][i] = s[i]
        BY <2>1, <2>3, <3>2
      <4>2. \A j \in 1..Len(s) : s[j].type = y
        BY <1>6 DEF EventInv, ChannelsOK, s
      <4> QED
        BY <3>2, <4>1, <4>2
    <3>3. CASE t = y /\ ~(i <= Len(s))
      <4>1. i = Len(s) + 1
        BY <2>1, <2>3, <3>3
      <4> QED
        BY <1>1, <2>1, <2>3, <3>3, <4>1
    <3> QED
      BY <3>1, <3>2, <3>3
  <2>6. ChannelsOK'
    BY <1>3, <2>3, <2>4, <2>5 DEF EventInv, ChannelsOK
  <2>7. PassedOver'
    BY <1>2 DEF EventInv, PassedOver
  <2>8. ASSUME NEW t \in Types, ~gone PROVE inflight'[t] = Path(t)'
    <3> DEFINE a == Foremost(t, msgs)
               b == Of(t, ch)
               c == Of(t, wire)
               d == Of(t, merged)
               h == InHand(t)
               f == Queued(t)
    <3>1. /\ Path(t) = Chain(a, b, c, d, h, f) /\ a \in Seq(Events) /\ b \in Seq(Events) /\ c \in Seq(Events)
          /\ d \in Seq(Events) /\ h \in Seq(Events) /\ f \in Seq(Events)
      BY PathStations DEF EventInv
    <3>2. InHand(t)' = h /\ ch' = ch /\ wire' = wire /\ merged' = merged /\ msgs' = msgs
      BY <1>3 DEF InHand
    <3>3. Path(t)' = Chain(a, b, c, d, h, Queued(t)')
      BY <3>2, NextPath, Zenon
    <3>4. inflight[t] = Path(t)
      BY <2>8 DEF EventInv, EventsConserved
    <3>5. CASE t # y
      <4>1. inflight'[t] = inflight[t] /\ Queued(t)' = f
        BY <1>3, <1>4, <2>3, <3>5 DEF Queued
      <4> QED
        BY <3>1, <3>3, <3>4, <4>1, Zenon
    <3>6. CASE t = y
      <4>1. f = s /\ Queued(t)' = Append(s, e)
        BY <1>6, <2>2, <2>3, <3>6 DEF Queued, s
      <4>2. Append(s, e) = f \o <<e>> /\ <<e>> \in Seq(Events)
        BY <2>1, <4>1, AppendIsConcat
      <4>3. inflight'[t] = Append(inflight[t], e) /\ inflight[t] \in Seq(Events)
        BY <1>3, <1>4, <1>6, <2>8, <3>6
      <4>4. Append(inflight[t], e) = inflight[t] \o <<e>>
        BY <2>1, <4>3, AppendIsConcat
      <4> HIDE DEF a, b, c, d, h, f
      <4>5. Chain(a, b, c, d, h, f \o <<e>>) = Chain(a, b, c, d, h, f) \o <<e>>
        <5> DEFINE z == <<e>>
        <5> HIDE DEF z
        <5>1. z \in Seq(Events)
          BY <4>2 DEF z
        <5>2. Ends(a, b, c, d, h, f, z)
          BY <3>1, <5>1, ChainEnds
        <5> QED
          BY <5>2, Zenon DEF Ends, z
      <4> QED
        BY <3>1, <3>3, <3>4, <4>1, <4>2, <4>3, <4>4, <4>5, Zenon
    <3> QED
      BY <3>5, <3>6
  <2>9. EventsConserved'
    BY <1>3, <2>8 DEF EventsConserved
  <2> QED
    BY <1>2, <2>6, <2>7, <2>9 DEF EventInv
<1> QED
  BY <1>5, <1>6

\* A subscription begins with an empty channel.
LEMMA SubscribeEvents ==
  ASSUME EventInv, NEW y \in Types, Subscribe(y), UNCHANGED <<mix, wire, ch, stream, cmds, msgs>>
  PROVE  EventInv'
<1>1. subs[y] = None /\ subs' = [subs EXCEPT ![y] = <<>>] /\ UNCHANGED <<held, merged, gone, inflight>>
  BY DEF Subscribe, Unsubscribed
<1>2. ReaderInv' /\ \A t : Reading(t)' = Reading(t)
  BY SameMessages DEF EventInv
<1>3. subs \in [Types -> Seq(Events) \cup {None}]
  BY DEF EventInv, ChannelsOK
<1>4. /\ subs' \in [Types -> Seq(Events) \cup {None}] /\ subs'[y] = <<>>
      /\ \A t \in Types : t # y => subs'[t] = subs[t]
  BY <1>1, <1>3
<1>5. direct' = direct /\ mix' = mix
  BY DEF direct
<1>6. ChannelsOK'
  BY <1>1, <1>4, <1>5 DEF EventInv, ChannelsOK
<1>7. PassedOver'
  BY <1>2, <1>5 DEF EventInv, PassedOver
<1>8. ASSUME NEW t \in Types PROVE Path(t)' = Path(t)
  <2>1. InHand(t)' = InHand(t) /\ ch' = ch /\ wire' = wire /\ merged' = merged /\ msgs' = msgs
    BY <1>1 DEF InHand
  <2>2. Queued(t)' = Queued(t)
    BY <1>1, <1>4 DEF Queued
  <2>3. Path(t) = Chain(Foremost(t, msgs), Of(t, ch), Of(t, wire), Of(t, merged), InHand(t), Queued(t))
    BY PathStations DEF EventInv
  <2> QED
    BY <2>1, <2>2, <2>3, NextPath, Zenon
<1>9. EventsConserved'
  BY <1>1, <1>8 DEF EventInv, EventsConserved
<1> QED
  BY <1>2, <1>6, <1>7, <1>9 DEF EventInv

\* The forwarder of a type takes what is first in its channel.
LEMMA TakeEvents ==
  ASSUME EventInv, NEW y \in Types, TakeEvent(y), UNCHANGED <<mix, wire, ch, stream, cmds, msgs>>
  PROVE  EventInv'
<1> DEFINE s == subs[y]
           e == Head(s)
<1>1. /\ held[y] = None /\ s \notin {None, <<>>} /\ held' = [held EXCEPT ![y] = e]
      /\ subs' = [subs EXCEPT ![y] = Tail(s)] /\ UNCHANGED <<merged, gone, inflight>>
  BY DEF TakeEvent
<1>2. ReaderInv' /\ \A t : Reading(t)' = Reading(t)
  BY SameMessages DEF EventInv
<1>3. /\ subs \in [Types -> Seq(Events) \cup {None}] /\ held \in [Types -> Events \cup {None}]
      /\ \A i \in 1..Len(s) : s[i].type = y
  BY <1>1 DEF EventInv, ChannelsOK
<1>4. s \in Seq(Events) /\ s # <<>>
  BY <1>1, <1>3
<1> HIDE DEF s
<1>5. /\ e \in Events /\ e = s[1] /\ Tail(s) \in Seq(Events) /\ Len(Tail(s)) = Len(s) - 1 /\ Len(s) \in Nat \ {0}
      /\ \A i \in 1..Len(Tail(s)) : Tail(s)[i] = s[i + 1]
  BY <1>4
<1>6. e.type = y /\ e # None /\ Tail(s) # None /\ \A i \in 1..Len(Tail(s)) : Tail(s)[i].type = y
  <2>1. e # None /\ Tail(s) # None
    BY <1>5, FrontendAssumption
  <2>2. 1 \in 1..Len(s) /\ \A i \in 1..Len(Tail(s)) : i + 1 \in 1..Len(s)
    BY <1>5
  <2>3. e.type = y
    BY <1>3, <1>5, <2>2
  <2>4. \A i \in 1..Len(Tail(s)) : Tail(s)[i].type = y
    <3> HIDE DEF e
    <3> QED
      BY <1>3, <1>5, <2>2
  <2> QED
    BY <2>1, <2>3, <2>4
<1>7. s = <<e>> \o Tail(s)
  BY <1>4, HeadFirst, Zenon
<1> HIDE DEF e
<1>8. /\ subs' \in [Types -> Seq(Events) \cup {None}] /\ subs'[y] = Tail(s)
      /\ held' \in [Types -> Events \cup {None}] /\ held'[y] = e
      /\ \A t \in Types : t # y => subs'[t] = subs[t] /\ held'[t] = held[t]
  BY <1>1, <1>3, <1>5
<1>9. direct' = direct /\ mix' = mix
  BY DEF direct
<1>10. ChannelsOK'
  <2>1. ASSUME NEW t \in Types
        PROVE  /\ held'[t] # None => held'[t].type = t
               /\ subs'[t] # None => \A i \in 1..Len(subs'[t]) : subs'[t][i].type = t
    <3>1. CASE t = y
      BY <1>6, <1>8, <3>1
    <3>2. CASE t # y
      BY <1>8, <3>2 DEF EventInv, ChannelsOK
    <3> QED
      BY <3>1, <3>2
  <2> QED
    BY <1>1, <1>8, <1>9, <2>1 DEF EventInv, ChannelsOK
<1>11. PassedOver'
  BY <1>2, <1>9 DEF EventInv, PassedOver
<1>12. ASSUME NEW t \in Types PROVE Path(t)' = Path(t)
  <2> DEFINE a == Foremost(t, msgs)
             b == Of(t, ch)
             c == Of(t, wire)
             d == Of(t, merged)
  <2>1. /\ Path(t) = Chain(a, b, c, d, InHand(t), Queued(t)) /\ a \in Seq(Events) /\ b \in Seq(Events)
        /\ c \in Seq(Events) /\ d \in Seq(Events)
    BY PathStations DEF EventInv
  <2>2. ch' = ch /\ wire' = wire /\ merged' = merged /\ msgs' = msgs
    BY <1>1
  <2>3. Path(t)' = Chain(a, b, c, d, InHand(t)', Queued(t)')
    BY <2>2, NextPath, Zenon
  <2>4. CASE t # y
    <3>1. InHand(t)' = InHand(t) /\ Queued(t)' = Queued(t)
      BY <1>8, <2>4 DEF InHand, Queued
    <3> QED
      BY <2>1, <2>3, <3>1, Zenon
  <2>5. CASE t = y
    <3> DEFINE z == <<e>>
               r == Tail(s)
    <3>1. InHand(t) = <<>> /\ Queued(t) = z \o r /\ InHand(t)' = z /\ Queued(t)' = r
      BY <1>1, <1>6, <1>7, <1>8, <2>5 DEF InHand, Queued, s
    <3>2. z \in Seq(Events) /\ r \in Seq(Events) /\ <<>> \in Seq(Events)
      BY <1>5
    <3> HIDE DEF a, b, c, d, z, r
    <3>3. Moves(a, b, c, d, <<>>, r, z)
      BY <2>1, <3>2, ChainMoves
    <3>4. <<>> \o z = z
      BY <3>2, ConcatEmptySeq
    <3> QED
      BY <2>1, <2>3, <3>1, <3>3, <3>4, Zenon DEF Moves
  <2> QED
    BY <2>4, <2>5
<1>13. EventsConserved'
  BY <1>1, <1>12 DEF EventInv, EventsConserved
<1> QED
  BY <1>2, <1>10, <1>11, <1>13 DEF EventInv

\* And delivers it behind everything the merged channel holds.
LEMMA PutEvents ==
  ASSUME EventInv, NEW y \in Types, PutEvent(y), UNCHANGED <<mix, wire, ch, stream, cmds, msgs>>
  PROVE  EventInv'
<1> DEFINE e == held[y]
<1>1. /\ e # None /\ merged' = Append(merged, e) /\ held' = [held EXCEPT ![y] = None]
      /\ UNCHANGED <<subs, gone, inflight>>
  BY DEF PutEvent
<1>2. ReaderInv' /\ \A t : Reading(t)' = Reading(t)
  BY SameMessages DEF EventInv
<1>3. held \in [Types -> Events \cup {None}] /\ merged \in Seq(Events) /\ e.type = y
  BY <1>1 DEF EventInv, ChannelsOK
<1>4. e \in Events
  BY <1>1, <1>3
<1> HIDE DEF e
<1>5. /\ held' \in [Types -> Events \cup {None}] /\ held'[y] = None
      /\ \A t \in Types : t # y => held'[t] = held[t]
  BY <1>1, <1>3
<1>6. merged' \in Seq(Events)
  BY <1>1, <1>3, <1>4
<1>7. direct' = direct /\ mix' = mix
  BY DEF direct
<1>8. ChannelsOK'
  BY <1>1, <1>5, <1>6, <1>7 DEF EventInv, ChannelsOK
<1>9. PassedOver'
  BY <1>2, <1>7 DEF EventInv, PassedOver
<1>10. ASSUME NEW t \in Types PROVE Path(t)' = Path(t)
  <2> DEFINE a == Foremost(t, msgs)
             b == Of(t, ch)
             c == Of(t, wire)
             d == Of(t, merged)
             f == Queued(t)
             x == Only(t, e)
  <2>1. /\ Path(t) = Chain(a, b, c, d, InHand(t), f) /\ a \in Seq(Events) /\ b \in Seq(Events)
        /\ c \in Seq(Events) /\ d \in Seq(Events) /\ f \in Seq(Events)
    BY PathStations DEF EventInv
  <2>2. ch' = ch /\ wire' = wire /\ msgs' = msgs /\ Queued(t)' = f
    BY <1>1 DEF Queued
  <2>3. Of(t, merged') = d \o x
    BY <1>1, <1>3, <1>4, OfAppend
  <2>4. Path(t)' = Chain(a, b, c, d \o x, InHand(t)', f)
    BY <2>2, <2>3, NextPath, Zenon
  <2>5. x \in Seq(Events) /\ <<>> \in Seq(Events)
    BY <1>4 DEF Only
  <2>6. CASE t # y
    <3>1. InHand(t)' = InHand(t) /\ x = <<>>
      BY <1>3, <1>5, <2>6 DEF InHand, Only
    <3>2. d \o x = d
      BY <2>1, <3>1, ConcatEmptySeq
    <3> QED
      BY <2>1, <2>4, <3>1, <3>2, Zenon
  <2>7. CASE t = y
    <3>1. InHand(t) = x /\ InHand(t)' = <<>>
      BY <1>1, <1>3, <1>5, <2>7 DEF InHand, Only, e
    <3> HIDE DEF a, b, c, d, f, x
    <3>2. Moves(a, b, c, d, <<>>, f, x)
      BY <2>1, <2>5, ChainMoves
    <3>3. x \o <<>> = x
      BY <2>5, ConcatEmptySeq
    <3> QED
      BY <2>1, <2>4, <3>1, <3>2, <3>3, Zenon DEF Moves
  <2> QED
    BY <2>6, <2>7
<1>11. EventsConserved'
  BY <1>1, <1>10 DEF EventInv, EventsConserved
<1> QED
  BY <1>2, <1>8, <1>9, <1>11 DEF EventInv

\* The server sends the first event of the merged channel, or passes over it: then it
\* is the first of its type that is under way.
LEMMA StreamEvents ==
  ASSUME EventInv, SendToStream
  PROVE  EventInv'
<1> DEFINE e == Head(merged)
           r == Tail(merged)
<1>1. /\ stream = "open" /\ merged # <<>> /\ merged' = r
      /\ UNCHANGED <<mix, subs, held, gone, ch, stream, cmds, msgs>>
      /\ wire' = IF Marshals(e) THEN Append(wire, e) ELSE wire
      /\ inflight' = IF Marshals(e) THEN inflight ELSE [inflight EXCEPT ![e.type] = Tail(@)]
  BY DEF SendToStream, program
<1>2. ReaderInv' /\ \A t : Reading(t)' = Reading(t)
  BY <1>1, SameMessages DEF EventInv
<1>3. /\ merged \in Seq(Events) /\ wire \in Seq(Events) /\ ch \in Seq(Events) /\ ~gone /\ ~direct
      /\ inflight \in [Types -> Seq(Events)]
  BY <1>1 DEF EventInv, ChannelsOK
<1>4. e \in Events /\ r \in Seq(Events)
  BY <1>1, <1>3
<1>5. \A t : Of(t, merged) = Only(t, e) \o Of(t, r)
  BY <1>1, <1>3, OfTail
<1> HIDE DEF e, r
<1>6. e.type \in Types /\ \A t : Only(t, e) \in Seq(Events)
  <2>1. e.type \in Types
    BY <1>4, FrontendAssumption DEF Events
  <2>2. <<e>> \in Seq(Events) /\ <<>> \in Seq(Events)
    BY <1>4
  <2> QED
    BY <2>1, <2>2 DEF Only
<1>7. direct' = direct /\ mix' = mix
  BY <1>1 DEF direct
<1>8. wire' \in Seq(Events) /\ \A t : Of(t, wire') = Of(t, wire) \o (IF Marshals(e) THEN Only(t, e) ELSE <<>>)
  <2>1. CASE Marshals(e)
    BY <1>1, <1>3, <1>4, <2>1, OfAppend
  <2>2. CASE ~Marshals(e)
    <3>1. \A t : Of(t, wire) \in Seq(Events)
      BY <1>3, OfSeq
    <3>2. \A t : Of(t, wire) \o <<>> = Of(t, wire)
      BY <3>1, ConcatEmptySeq
    <3> QED
      BY <1>1, <1>3, <2>2, <3>2
  <2> QED
    BY <2>1, <2>2
<1>9. PassedOver'
  <2>1. Of("file_offer", wire) = <<>>
    BY <1>3 DEF EventInv, PassedOver
  <2>2. (IF Marshals(e) THEN Only("file_offer", e) ELSE <<>>) = <<>>
    BY DEF Marshals, Only
  <2>3. <<>> \o <<>> = <<>>
    BY EmptySeq, ConcatEmptySeq
  <2>4. Of("file_offer", wire') = <<>>
    BY <1>8, <2>1, <2>2, <2>3, Zenon
  <2> QED
    BY <1>1, <1>2, <1>3, <2>4 DEF EventInv, PassedOver
<1>10. ASSUME NEW t \in Types
       PROVE  inflight'[t] = Path(t)' /\ inflight'[t] \in Seq(Events)
  <2> DEFINE a == Foremost(t, msgs)
             b == Of(t, ch)
             c == Of(t, wire)
             d == Of(t, r)
             h == InHand(t)
             f == Queued(t)
             x == Only(t, e)
  <2>1. /\ Path(t) = Chain(a, b, c, Of(t, merged), h, f) /\ a \in Seq(Events) /\ b \in Seq(Events)
        /\ c \in Seq(Events) /\ h \in Seq(Events) /\ f \in Seq(Events)
    BY PathStations DEF EventInv
  <2>2. d \in Seq(Events) /\ x \in Seq(Events) /\ <<>> \in Seq(Events)
    BY <1>4, <1>6, OfSeq
  <2>3. inflight[t] = Chain(a, b, c, x \o d, h, f)
    BY <1>3, <1>5, <2>1, Zenon DEF EventInv, EventsConserved
  <2>4. ch' = ch /\ msgs' = msgs /\ merged' = r /\ InHand(t)' = h /\ Queued(t)' = f
    BY <1>1 DEF InHand, Queued
  <2>5. Path(t)' = Chain(a, b, Of(t, wire'), d, h, f)
    BY <2>4, NextPath, Zenon
  <2>6. CASE Marshals(e)
    <3>1. Of(t, wire') = c \o x
      BY <1>8, <2>6
    <3>2. inflight'[t] = inflight[t] /\ inflight[t] \in Seq(Events)
      BY <1>1, <1>3, <2>6
    <3> HIDE DEF a, b, c, d, h, f, x
    <3>3. Moves(a, b, c, d, h, f, x)
      BY <2>1, <2>2, ChainMoves
    <3> QED
      BY <2>3, <2>5, <3>1, <3>2, <3>3, Zenon DEF Moves
  <2>7. CASE ~Marshals(e)
    <3>1. e.type = "file_offer" /\ wire' = wire
      BY <1>1, <2>7 DEF Marshals
    <3>2. CASE t # e.type
      <4>1. x = <<>> /\ inflight'[t] = inflight[t] /\ inflight[t] \in Seq(Events)
        BY <1>1, <1>3, <2>7, <3>2 DEF Only
      <4>2. x \o d = d
        BY <2>2, <4>1, ConcatEmptySeq
      <4> QED
        BY <2>3, <2>5, <3>1, <4>1, <4>2, Zenon
    <3>3. CASE t = e.type
      <4>1. x = <<e>> /\ inflight'[t] = Tail(inflight[t])
        BY <1>1, <1>3, <2>7, <3>3 DEF Only
      <4>2. b = <<>> /\ c = <<>> /\ Reading(t) = {}
        BY <1>3, <3>1, <3>3 DEF EventInv, PassedOver
      <4>3. a = <<>>
        BY <4>2 DEF Foremost, Reading, EventMsgs
      <4> DEFINE p == Chain(<<>>, <<>>, <<>>, d, h, f)
      <4> HIDE DEF a, b, c, d, h, f, x
      <4>4. Moves(<<>>, <<>>, <<>>, d, h, f, x) /\ p \in Seq(Events) /\ Ends(<<>>, <<>>, <<>>, d, h, f, x)
        BY <2>1, <2>2, ChainMoves, ChainEnds
      <4>5. inflight[t] = x \o p
        BY <2>3, <4>2, <4>3, <4>4, Zenon DEF Moves, Ends
      <4>6. Path(t)' = p
        BY <2>5, <3>1, <4>2, <4>3, Zenon DEF c
      <4> HIDE DEF p
      <4>7. Tail(<<e>> \o p) = p
        BY <1>4, <4>4, TailOfFirst
      <4> QED
        BY <4>1, <4>4, <4>5, <4>6, <4>7, Zenon
    <3> QED
      BY <3>2, <3>3
  <2> QED
    BY <2>6, <2>7
<1>11. inflight' \in [Types -> Seq(Events)]
  <2>1. DOMAIN inflight' = Types /\ inflight' = [t \in Types |-> inflight'[t]]
    BY <1>1, <1>3
  <2> QED
    BY <1>10, <2>1
<1>12. ChannelsOK'
  BY <1>1, <1>3, <1>4, <1>7, <1>8, <1>11 DEF EventInv, ChannelsOK
<1>13. EventsConserved'
  BY <1>10 DEF EventsConserved
<1> QED
  BY <1>2, <1>9, <1>12, <1>13 DEF EventInv

\* The client takes the first event off the stream, or passes over it: then it is the
\* first of its type that is under way.
LEMMA ReceiveEvents ==
  ASSUME EventInv, RecvFromStream
  PROVE  EventInv'
<1> DEFINE e == Head(wire)
           r == Tail(wire)
           named == e.type # "peer_online"
<1>1. /\ stream = "open" /\ wire # <<>> /\ wire' = r
      /\ UNCHANGED <<mix, subs, held, merged, gone, stream, cmds, msgs>>
      /\ ch' = IF named THEN Append(ch, e) ELSE ch
      /\ inflight' = IF named THEN inflight ELSE [inflight EXCEPT ![e.type] = Tail(@)]
  BY DEF RecvFromStream, program
<1>2. ReaderInv' /\ \A t : Reading(t)' = Reading(t)
  BY <1>1, SameMessages DEF EventInv
<1>3. /\ merged \in Seq(Events) /\ wire \in Seq(Events) /\ ch \in Seq(Events) /\ ~gone /\ ~direct
      /\ inflight \in [Types -> Seq(Events)]
  BY <1>1 DEF EventInv, ChannelsOK
<1>4. e \in Events /\ r \in Seq(Events)
  BY <1>1, <1>3
<1>5. \A t : Of(t, wire) = Only(t, e) \o Of(t, r)
  BY <1>1, <1>3, OfTail
<1> HIDE DEF e, r
<1>6. e.type \in Types /\ \A t : Only(t, e) \in Seq(Events)
  <2>1. e.type \in Types
    BY <1>4, FrontendAssumption DEF Events
  <2>2. <<e>> \in Seq(Events) /\ <<>> \in Seq(Events)
    BY <1>4
  <2> QED
    BY <2>1, <2>2 DEF Only
<1>7. direct' = direct /\ mix' = mix
  BY <1>1 DEF direct
<1>8. ch' \in Seq(Events) /\ \A t : Of(t, ch') = Of(t, ch) \o (IF named THEN Only(t, e) ELSE <<>>)
  <2>1. CASE named
    BY <1>1, <1>3, <1>4, <2>1, OfAppend
  <2>2. CASE ~named
    <3>1. \A t : Of(t, ch) \in Seq(Events)
      BY <1>3, OfSeq
    <3>2. \A t : Of(t, ch) \o <<>> = Of(t, ch)
      BY <3>1, ConcatEmptySeq
    <3> QED
      BY <1>1, <1>3, <2>2, <3>2
  <2> QED
    BY <2>1, <2>2
<1>9. PassedOver'
  <2>1. /\ Of("file_offer", wire) = <<>>
        /\ \A t \in {"file_offer", "peer_online"} : Of(t, ch) = <<>> /\ Reading(t) = {}
    BY <1>3 DEF EventInv, PassedOver
  <2>2. Of("file_offer", r) \in Seq(Events)
    BY <1>4, OfSeq
  <2>3. Only("file_offer", e) = <<>> /\ Of("file_offer", r) = <<>>
    <3> DEFINE u == Only("file_offer", e)
               v == Of("file_offer", r)
    <3>1. u \o v = <<>> /\ u \in Seq(Events) /\ v \in Seq(Events)
      BY <1>5, <1>6, <2>1, <2>2
    <3> HIDE DEF u, v
    <3>2. u = <<>> /\ v = <<>>
      BY <3>1, ConcatEqualIffEmpty
    <3> QED
      BY <3>2 DEF u, v
  <2>4. \A t \in {"file_offer", "peer_online"} : (IF named THEN Only(t, e) ELSE <<>>) = <<>>
    BY <2>3 DEF Only
  <2>5. <<>> \o <<>> = <<>>
    BY EmptySeq, ConcatEmptySeq
  <2>6. \A t \in {"file_offer", "peer_online"} : Of(t, ch') = <<>>
    BY <1>8, <2>1, <2>4, <2>5, Zenon
  <2> QED
    BY <1>1, <1>2, <1>7, <2>1, <2>3, <2>6 DEF PassedOver
<1>10. ASSUME NEW t \in Types
       PROVE  inflight'[t] = Path(t)' /\ inflight'[t] \in Seq(Events)
  <2> DEFINE a == Foremost(t, msgs)
             b == Of(t, ch)
             c == Of(t, r)
             d == Of(t, merged)
             h == InHand(t)
             f == Queued(t)
             x == Only(t, e)
  <2>1. /\ Path(t) = Chain(a, b, Of(t, wire), d, h, f) /\ a \in Seq(Events) /\ b \in Seq(Events)
        /\ d \in Seq(Events) /\ h \in Seq(Events) /\ f \in Seq(Events)
    BY PathStations DEF EventInv
  <2>2. c \in Seq(Events) /\ x \in Seq(Events) /\ <<>> \in Seq(Events)
    BY <1>4, <1>6, OfSeq
  <2>3. inflight[t] = Chain(a, b, x \o c, d, h, f)
    BY <1>3, <1>5, <2>1, Zenon DEF EventInv, EventsConserved
  <2>4. merged' = merged /\ msgs' = msgs /\ wire' = r /\ InHand(t)' = h /\ Queued(t)' = f
    BY <1>1 DEF InHand, Queued
  <2>5. Path(t)' = Chain(a, Of(t, ch'), c, d, h, f)
    BY <2>4, NextPath, Zenon
  <2>6. CASE named
    <3>1. Of(t, ch') = b \o x
      BY <1>8, <2>6
    <3>2. inflight'[t] = inflight[t] /\ inflight[t] \in Seq(Events)
      BY <1>1, <1>3, <2>6
    <3> HIDE DEF a, b, c, d, h, f, x
    <3>3. Moves(a, b, c, d, h, f, x)
      BY <2>1, <2>2, ChainMoves
    <3> QED
      BY <2>3, <2>5, <3>1, <3>2, <3>3, Zenon DEF Moves
  <2>7. CASE ~named
    <3>1. e.type = "peer_online" /\ ch' = ch
      BY <1>1, <2>7
    <3>2. CASE t # e.type
      <4>1. x = <<>> /\ inflight'[t] = inflight[t] /\ inflight[t] \in Seq(Events)
        BY <1>1, <1>3, <2>7, <3>2 DEF Only
      <4>2. x \o c = c
        BY <2>2, <4>1, ConcatEmptySeq
      <4> QED
        BY <2>3, <2>5, <3>1, <4>1, <4>2, Zenon
    <3>3. CASE t = e.type
      <4>1. x = <<e>> /\ inflight'[t] = Tail(inflight[t])
        BY <1>1, <1>3, <2>7, <3>3 DEF Only
      <4>2. b = <<>> /\ Reading(t) = {}
        BY <1>3, <3>1, <3>3 DEF EventInv, PassedOver
      <4>3. a = <<>>
        BY <4>2 DEF Foremost, Reading, EventMsgs
      <4> DEFINE p == Chain(<<>>, <<>>, c, d, h, f)
      <4> HIDE DEF a, b, c, d, h, f, x
      <4>4. Moves(<<>>, <<>>, c, d, h, f, x) /\ p \in Seq(Events) /\ Ends(<<>>, <<>>, c, d, h, f, x)
        BY <2>1, <2>2, ChainMoves, ChainEnds
      <4>5. <<>> \o x = x /\ x \o <<>> = x
        BY <2>2, ConcatEmptySeq
      <4>6. inflight[t] = Chain(<<>>, x, c, d, h, f)
        BY <2>3, <4>2, <4>3, <4>4, <4>5, Zenon DEF Moves
      <4>7. Chain(<<>>, x, c, d, h, f) = x \o p
        BY <4>4, <4>5, Zenon DEF Moves, Ends
      <4>8. Path(t)' = p
        BY <2>5, <3>1, <4>2, <4>3, Zenon DEF b
      <4> HIDE DEF p
      <4>9. Tail(<<e>> \o p) = p
        BY <1>4, <4>4, TailOfFirst
      <4> QED
        BY <4>1, <4>4, <4>6, <4>7, <4>8, <4>9, Zenon
    <3> QED
      BY <3>2, <3>3
  <2> QED
    BY <2>6, <2>7
<1>11. inflight' \in [Types -> Seq(Events)]
  <2>1. DOMAIN inflight' = Types /\ inflight' = [t \in Types |-> inflight'[t]]
    BY <1>1, <1>3
  <2> QED
    BY <1>10, <2>1
<1>12. ChannelsOK'
  BY <1>1, <1>3, <1>4, <1>7, <1>8, <1>11 DEF EventInv, ChannelsOK
<1>13. EventsConserved'
  BY <1>10 DEF EventsConserved
<1> QED
  BY <1>2, <1>9, <1>12, <1>13 DEF EventInv

\* A broken stream ends the subscription: no event is under way any more.
LEMMA BreakEvents ==
  ASSUME EventInv, BreakStream
  PROVE  EventInv'
<1>1. /\ ~direct /\ stream' = "broken" /\ wire' = <<>> /\ gone' = TRUE /\ UNCHANGED <<subs, merged, ch, cmds, msgs>>
      /\ held' = [t \in Types |-> None] /\ inflight' = [t \in Types |-> <<>>]
  BY DEF BreakStream, Unsubscribe, program
<1>2. "mode" \in DOMAIN mix' /\ direct' = direct
  BY SpendMode DEF BreakStream, EventInv, ChannelsOK
<1>3. ReaderInv' /\ \A t : Reading(t)' = Reading(t)
  BY <1>1, SameMessages DEF EventInv
<1>4. held' \in [Types -> Events \cup {None}] /\ inflight' \in [Types -> Seq(Events)] /\ wire' \in Seq(Events)
  BY <1>1
<1>5. ChannelsOK'
  BY <1>1, <1>2, <1>4 DEF EventInv, ChannelsOK
<1>6. Of("file_offer", wire') = <<>>
  BY <1>1, <1>4, OfSeq
<1>7. PassedOver'
  BY <1>1, <1>2, <1>3, <1>6 DEF EventInv, PassedOver
<1>8. EventsConserved'
  BY <1>1 DEF EventsConserved
<1> QED
  BY <1>3, <1>5, <1>7, <1>8 DEF EventInv

\* waitForEvent takes the first event of the channel it reads: nothing is ahead of it.
LEMMA WaitEvents ==
  ASSUME BagsOK, BagsOK', EventInv, NEW k, waitForEvent(k)
  PROVE  EventInv'
<1>0. k.op = "wait" /\ UNCHANGED <<mix, subs, held, gone, inflight, wire, stream>>
  <2>1. UNCHANGED mix
    BY DEF waitForEvent, Returns
  <2> QED
    BY <2>1 DEF waitForEvent
<1>1. direct' = direct /\ mix' = mix
  BY <1>0 DEF direct
<1>2. /\ merged \in Seq(Events) /\ wire \in Seq(Events) /\ ch \in Seq(Events)
      /\ direct => wire = <<>> /\ ch = <<>>
  BY DEF EventInv, ChannelsOK
<1>3. CASE /\ ~direct /\ ch = <<>> /\ stream = "broken"
           /\ Returns(k, {}) /\ UNCHANGED <<merged, ch>>
  <2>1. ReaderInv' /\ ReadingMsgs = {} /\ ReadingMsgs' = {}
    <3> DEFINE r == Cmd("eventChan", <<>>)
    <3>1. r.op = "eventChan"
      BY CmdFields
    <3> HIDE DEF r
    <3> QED
      BY <1>0, <1>3, <3>1, ReaderReturns DEF EventInv
  <2>2. UNCHANGED <<bus, wire, ch, stream>>
    BY <1>0, <1>3 DEF bus
  <2>3. "mode" \in DOMAIN mix'
    BY <1>1 DEF EventInv, ChannelsOK
  <2>4. \A t : Reading(t)' = Reading(t)
    BY <2>1 DEF Reading, ReadingMsgs
  <2> QED
    BY <1>1, <2>1, <2>2, <2>3, <2>4, QuietEvents
<1>4. ASSUME NEW e \in Events, Returns(k, {Cmd("event", <<e>>)}),
             merged' \in Seq(Events), ch' \in Seq(Events), direct => ch' = <<>>,
             ~direct => merged' = merged /\ \A t : Of(t, ch) = Only(t, e) \o Of(t, ch'),
             direct => \A t : Of(t, merged) = Only(t, e) \o Of(t, merged')
      PROVE  EventInv'
  <2> DEFINE m == Cmd("event", <<e>>)
             ms == {m}
  <2>1. m.op = "event"
    BY CmdFields
  <2>2. ReaderInv' /\ ReadingMsgs = {} /\ ReadingMsgs' = {m}
    <3>1. \E d \in Events : m = Cmd("event", <<d>>)
      OBVIOUS
    <3>2. Returns(k, ms)
      BY <1>4
    <3> HIDE DEF m
    <3>3. ms = {m} \/ ms = {}
      OBVIOUS
    <3> HIDE DEF ms
    <3>4. ReaderInv' /\ ReadingMsgs = {} /\ ReadingMsgs' = ms
      BY <1>0, <2>1, <3>1, <3>2, <3>3, ReaderReturns DEF EventInv
    <3> QED
      BY <3>4 DEF ms
  <2>3. /\ \A n \in BagToSet(msgs) : n.op # "event"
        /\ m \in BagToSet(msgs') /\ \A n \in BagToSet(msgs') : n.op = "event" => n = m
    <3> HIDE DEF m
    <3> QED
      BY <2>2 DEF ReadingMsgs
  <2>4. \A t : Foremost(t, msgs) = <<>>
    BY <2>3, FrontEmpty
  <2>5. \A t : Foremost(t, msgs') = Only(t, e) /\ (e.type # t => EventMsgs(t, msgs') = {})
    BY <2>3, FrontOne
  <2>6. \A t : Only(t, e) \in Seq(Events)
    <3>1. <<e>> \in Seq(Events) /\ <<>> \in Seq(Events)
      OBVIOUS
    <3> QED
      BY <3>1 DEF Only
  <2>7. ChannelsOK'
    BY <1>0, <1>1, <1>4 DEF EventInv, ChannelsOK
  <2>8. ASSUME NEW t \in {"file_offer", "peer_online"}, ~direct
        PROVE  Of(t, ch') = <<>> /\ Reading(t)' = {}
    <3> DEFINE u == Only(t, e)
               v == Of(t, ch')
    <3>1. u \o v = <<>>
      BY <1>4, <2>8 DEF EventInv, PassedOver
    <3>2. u \in Seq(Events) /\ v \in Seq(Events)
      BY <1>4, <2>6, OfSeq
    <3> HIDE DEF u, v
    <3>3. u = <<>> /\ v = <<>>
      BY <3>1, <3>2, ConcatEqualIffEmpty
    <3>4. e.type # t
      BY <3>3 DEF u, Only
    <3>5. Reading(t)' = EventMsgs(t, msgs')
      BY DEF Reading, EventMsgs
    <3> QED
      BY <2>5, <3>3, <3>4, <3>5 DEF v
  <2>9. PassedOver'
    BY <1>0, <1>1, <2>8 DEF EventInv, PassedOver
  <2>10. ASSUME NEW t \in Types PROVE Path(t)' = Path(t)
    <3> DEFINE b == Of(t, ch')
               c == Of(t, wire)
               d == Of(t, merged')
               h == InHand(t)
               f == Queued(t)
               x == Only(t, e)
    <3>1. /\ Path(t) = Chain(<<>>, Of(t, ch), c, Of(t, merged), h, f)
          /\ c \in Seq(Events) /\ h \in Seq(Events) /\ f \in Seq(Events)
      BY <2>4, PathStations DEF EventInv
    <3>2. b \in Seq(Events) /\ d \in Seq(Events) /\ x \in Seq(Events) /\ <<>> \in Seq(Events)
      BY <1>4, <2>6, OfSeq
    <3>3. InHand(t)' = h /\ Queued(t)' = f /\ wire' = wire
      BY <1>0 DEF InHand, Queued
    <3>4. Path(t)' = Chain(x, b, c, d, h, f)
      BY <2>5, <3>3, NextPath, Zenon
    <3>5. Moves(<<>>, b, c, d, h, f, x)
      <4> HIDE DEF b, c, d, h, f, x
      <4> QED
        BY <3>1, <3>2, ChainMoves
    <3>6. CASE ~direct
      <4>1. Of(t, ch) = x \o b /\ Of(t, merged) = d
        BY <1>4, <3>6
      <4> QED
        BY <3>1, <3>4, <3>5, <4>1, Zenon DEF Moves
    <3>7. CASE direct
      <4>1. Of(t, merged) = x \o d
        BY <1>4, <3>7
      <4>2. b = <<>> /\ c = <<>> /\ Of(t, ch) = <<>>
        BY <1>2, <1>4, <3>7, OfSeq
      <4> HIDE DEF b, c, d, h, f, x
      <4> QED
        BY <3>1, <3>4, <3>5, <4>1, <4>2, Zenon DEF Moves
    <3> QED
      BY <3>6, <3>7
  <2>11. EventsConserved'
    BY <1>0, <2>10 DEF EventInv, EventsConserved
  <2> QED
    BY <2>2, <2>7, <2>9, <2>11 DEF EventInv
<1>5. CASE direct /\ merged # <<>> /\ merged' = Tail(merged) /\ ch' = ch /\ Returns(k, {Cmd("event", <<Head(merged)>>)})
  <2>1. Head(merged) \in Events /\ merged' \in Seq(Events)
    BY <1>2, <1>5
  <2>2. \A t : Of(t, merged) = Only(t, Head(merged)) \o Of(t, merged')
    BY <1>2, <1>5, OfTail
  <2>3. ch' \in Seq(Events) /\ ch' = <<>>
    BY <1>2, <1>5
  <2> QED
    BY <1>4, <1>5, <2>1, <2>2, <2>3
<1>6. CASE ~direct /\ ch # <<>> /\ ch' = Tail(ch) /\ merged' = merged /\ Returns(k, {Cmd("event", <<Head(ch)>>)})
  <2>1. Head(ch) \in Events /\ ch' \in Seq(Events)
    BY <1>2, <1>6
  <2>2. \A t : Of(t, ch) = Only(t, Head(ch)) \o Of(t, ch')
    BY <1>2, <1>6, OfTail
  <2> QED
    BY <1>2, <1>4, <1>6, <2>1, <2>2
<1> QED
  BY <1>3, <1>5, <1>6 DEF waitForEvent

\* Update handles an event once, takes it off its way, and nothing else does.
LEMMA UpdateEvents ==
  ASSUME BagsOK, BagsOK', EventInv, UpdateApp
  PROVE  EventInv'
<1>1. PICK m \in BagToSet(msgs) :
        Becomes(Update(app, m)) /\ msgs' = msgs (-) SetToBag({m}) /\ Handled(m)
  BY DEF UpdateApp
<1>2. UNCHANGED <<mix, subs, held, merged, gone, wire, ch, stream>>
  BY DEF UpdateApp
<1>3. direct' = direct /\ "mode" \in DOMAIN mix'
  BY <1>2 DEF direct, EventInv, ChannelsOK
<1> DEFINE do == Update(app, m).do
<1>4. cmds' = cmds (+) SetToBag(do)
  BY <1>1 DEF Becomes
<1>5. /\ m.op \in {"eventChan", "event"} => NextEvent \in do
      /\ \A c \in do : c.op \in {"subscribe", "wait"} => c = NextEvent /\ m.op \in {"eventChan", "event"}
  BY UpdateReads
<1> HIDE DEF do
<1>6. inflight' = IF m.op = "event" /\ inflight[m.arg[1].type] # <<>>
                  THEN [inflight EXCEPT ![m.arg[1].type] = Tail(@)] ELSE inflight
  BY <1>1 DEF Handled
<1>7. CASE m.op \notin {"eventChan", "event"}
  <2>1. \A x : x.op \in {"subscribe", "wait"} => Copies(x, cmds') = Copies(x, cmds)
    BY <1>4, <1>5, <1>7, AddCopies, CopiesNat DEF BagsOK
  <2>2. \A x : x.op \in {"eventChan", "event"} => Copies(x, msgs') = Copies(x, msgs)
    BY <1>1, <1>7, TakeCopy, CopiesNat DEF BagsOK
  <2>3. ReaderInv' /\ \A t : Reading(t)' = Reading(t)
    BY <2>1, <2>2, QuietReaders DEF EventInv
  <2>4. UNCHANGED <<bus, wire, ch, stream>>
    BY <1>2, <1>6, <1>7 DEF bus
  <2> QED
    BY <1>3, <2>3, <2>4, QuietEvents
<1>8. ASSUME m.op \in {"eventChan", "event"}
      PROVE  ReaderInv' /\ ReadingMsgs = {m} /\ ReadingMsgs' = {}
  BY <1>1, <1>4, <1>5, <1>8, ReaderUpdates DEF EventInv
<1>9. CASE m.op = "eventChan"
  <2>1. \A t : Reading(t)' = Reading(t)
    <3>1. \A n \in BagToSet(msgs) : n.op \in {"eventChan", "event"} => n = m
      BY <1>8, <1>9 DEF ReadingMsgs
    <3>2. \A t : Reading(t) = {}
      BY <1>9, <3>1 DEF Reading
    <3>3. \A t : Reading(t)' = {}
      BY <1>8, <1>9 DEF Reading, ReadingMsgs
    <3> QED
      BY <3>2, <3>3
  <2>2. UNCHANGED <<bus, wire, ch, stream>>
    BY <1>2, <1>6, <1>9 DEF bus
  <2> QED
    BY <1>3, <1>8, <1>9, <2>1, <2>2, QuietEvents
<1>10. CASE m.op = "event"
  <2>1. PICK e \in Events : m = Cmd("event", <<e>>)
    <3>1. m \in ReadingMsgs
      BY <1>1, <1>10 DEF ReadingMsgs
    <3> QED
      BY <1>10, <3>1 DEF EventInv, ReaderInv
  <2>2. m.arg[1] = e /\ e.type \in Types
    BY <2>1, CmdFields, FrontendAssumption DEF Events
  <2>3. \A n \in BagToSet(msgs) : n.op = "event" => n = Cmd("event", <<e>>)
    BY <1>8, <1>10, <2>1 DEF ReadingMsgs
  <2>4. \A t : Foremost(t, msgs) = Only(t, e)
    BY <1>1, <2>1, <2>3, FrontOne
  <2>5. \A n \in BagToSet(msgs') : n.op # "event"
    BY <1>8, <1>10 DEF ReadingMsgs
  <2>6. \A t : Foremost(t, msgs') = <<>> /\ EventMsgs(t, msgs') = {}
    BY <2>5, FrontEmpty
  <2>7. inflight \in [Types -> Seq(Events)]
    BY DEF EventInv, ChannelsOK
  <2>8. inflight' = IF inflight[e.type] # <<>> THEN [inflight EXCEPT ![e.type] = Tail(@)] ELSE inflight
    BY <1>6, <1>10, <2>2
  <2>9. inflight' \in [Types -> Seq(Events)]
    <3>1. inflight[e.type] \in Seq(Events)
      BY <2>2, <2>7
    <3>2. inflight[e.type] # <<>> => Tail(inflight[e.type]) \in Seq(Events)
      BY <3>1
    <3> QED
      BY <2>7, <2>8, <3>2
  <2>10. ChannelsOK'
    BY <1>2, <1>3, <2>9 DEF EventInv, ChannelsOK
  <2>11. PassedOver'
    <3>1. \A t : Reading(t)' = {}
      BY <2>6 DEF Reading, EventMsgs
    <3> QED
      BY <1>2, <1>3, <3>1 DEF EventInv, PassedOver
  <2>12. ASSUME NEW t \in Types, ~gone PROVE inflight'[t] = Path(t)'
    <3> DEFINE b == Of(t, ch)
               c == Of(t, wire)
               d == Of(t, merged)
               h == InHand(t)
               f == Queued(t)
               x == Only(t, e)
               p == Chain(<<>>, b, c, d, h, f)
    <3>1. /\ Path(t) = Chain(x, b, c, d, h, f) /\ b \in Seq(Events)
          /\ c \in Seq(Events) /\ d \in Seq(Events) /\ h \in Seq(Events) /\ f \in Seq(Events)
      BY <2>4, PathStations DEF EventInv
    <3>2. x \in Seq(Events) /\ <<>> \in Seq(Events)
      BY DEF Only
    <3>3. ch' = ch /\ wire' = wire /\ merged' = merged /\ InHand(t)' = h /\ Queued(t)' = f
      BY <1>2 DEF InHand, Queued
    <3>4. Path(t)' = p
      BY <2>6, <3>3, NextPath, Zenon
    <3>5. p \in Seq(Events) /\ Ends(<<>>, b, c, d, h, f, x)
      <4> HIDE DEF b, c, d, h, f, x
      <4> QED
        BY <3>1, <3>2, ChainEnds
    <3>6. inflight[t] = x \o p
      <4>1. inflight[t] = Path(t)
        BY <2>12 DEF EventInv, EventsConserved
      <4> QED
        BY <3>1, <3>5, <4>1, Zenon DEF Ends
    <3> HIDE DEF p
    <3>7. CASE t = e.type
      <4>1. x = <<e>>
        BY <3>7 DEF Only
      <4>2. inflight[t] # <<>> /\ Tail(inflight[t]) = p
        BY <3>5, <3>6, <4>1, TailOfFirst
      <4>3. inflight'[t] = Tail(inflight[t])
        BY <2>7, <2>8, <3>7, <4>2
      <4> QED
        BY <3>4, <4>2, <4>3, Zenon
    <3>8. CASE t # e.type
      <4>1. x = <<>>
        BY <3>8 DEF Only
      <4>2. x \o p = p
        BY <3>5, <4>1, ConcatEmptySeq
      <4>3. inflight'[t] = inflight[t]
        BY <2>7, <2>8, <3>8
      <4> QED
        BY <3>4, <3>6, <4>2, <4>3, Zenon
    <3> QED
      BY <3>7, <3>8
  <2>13. EventsConserved'
    BY <1>2, <2>12 DEF EventsConserved
  <2> QED
    BY <1>8, <1>10, <2>10, <2>11, <2>13 DEF EventInv
<1> QED
  BY <1>7, <1>9, <1>10

\* Keys read nothing.
LEMMA PressEvents ==
  ASSUME BagsOK, BagsOK', EventInv, Press
  PROVE  EventInv'
<1>1. PICK k, x : Becomes(handleKey(app, k, x))
  BY DEF Press
<1>2. cmds' = cmds (+) SetToBag(handleKey(app, k, x).do) /\ msgs' = msgs
  BY <1>1 DEF Becomes, Press
<1>3. \A y : y.op \in {"subscribe", "wait"} => Copies(y, cmds') = Copies(y, cmds)
  BY <1>2, KeyReads, AddCopies, CopiesNat DEF BagsOK, Reads
<1>4. ReaderInv' /\ \A t : Reading(t)' = Reading(t)
  BY <1>2, <1>3, QuietReaders DEF EventInv
<1>5. UNCHANGED <<bus, wire, ch, stream>>
  BY DEF Press, outside
<1>6. direct' = direct /\ "mode" \in DOMAIN mix'
  BY SpendMode DEF Press, EventInv, ChannelsOK
<1> QED
  BY <1>4, <1>5, <1>6, QuietEvents

\* Commands that have nothing to do with events.
LEMMA QuietReturns ==
  ASSUME BagsOK, BagsOK', EventInv, NEW c, NEW ms, Returns(c, ms), c.op \notin Reads,
         \A m \in ms : m.op \notin Reads, UNCHANGED <<bus, wire, ch, stream>>
  PROVE  EventInv'
<1>1. \A x : /\ Copies(x, cmds') = Copies(x, cmds) - (IF x = c THEN 1 ELSE 0)
             /\ Copies(x, msgs') = Copies(x, msgs) + (IF x \in ms THEN 1 ELSE 0)
             /\ Copies(x, cmds) \in Nat /\ Copies(x, msgs) \in Nat
  BY ReturnsCopies
<1>2. \A x : x.op \in {"subscribe", "wait"} => Copies(x, cmds') = Copies(x, cmds)
  BY <1>1 DEF Reads
<1>3. \A x : x.op \in {"eventChan", "event"} => Copies(x, msgs') = Copies(x, msgs)
  BY <1>1 DEF Reads
<1>4. ReaderInv' /\ \A t : Reading(t)' = Reading(t)
  BY <1>2, <1>3, QuietReaders DEF EventInv
<1>5. direct' = direct /\ "mode" \in DOMAIN mix'
  BY DEF Returns, direct, EventInv, ChannelsOK
<1> QED
  BY <1>4, <1>5, QuietEvents

\* subscribeEvents hands the channel over.
LEMMA SubscribedEvents ==
  ASSUME BagsOK, BagsOK', EventInv, NEW c, subscribeEvents(c)
  PROVE  EventInv'
<1> DEFINE r == Cmd("eventChan", <<>>)
           ms == {r}
<1>1. /\ c.op = "subscribe" /\ Returns(c, ms) /\ UNCHANGED <<bus, wire, ch>>
      /\ stream' = stream \/ (~direct /\ stream # "broken")
  BY DEF subscribeEvents
<1>2. r.op = "eventChan"
  BY CmdFields
<1> HIDE DEF r
<1>3. ms = {r} \/ ms = {}
  OBVIOUS
<1> HIDE DEF ms
<1>4. ReaderInv' /\ ReadingMsgs = {} /\ ReadingMsgs' = ms
  BY <1>1, <1>2, <1>3, ReaderReturns DEF EventInv
<1>5. \A t : Reading(t)' = Reading(t)
  <2>1. \A t : Reading(t) = {}
    BY <1>4 DEF Reading, ReadingMsgs
  <2>2. \A m \in BagToSet(msgs') : m.op \in {"eventChan", "event"} => m = r
    BY <1>4 DEF ReadingMsgs, ms
  <2>3. \A t : Reading(t)' = {}
    BY <1>2, <2>2 DEF Reading
  <2> QED
    BY <2>1, <2>3
<1>6. direct' = direct /\ "mode" \in DOMAIN mix'
  BY <1>1 DEF Returns, direct, EventInv, ChannelsOK
<1> QED
  BY <1>1, <1>4, <1>5, <1>6, OpenedEvents

\* One case per command.
LEMMA CommandEvents ==
  ASSUME BagsOK, BagsOK', EventInv, NEW c, RunCmd(c)
  PROVE  EventInv'
<1> DEFINE Quiet == /\ UNCHANGED <<bus, wire, ch, stream>>
                    /\ c.op \notin Reads
                    /\ \E ms : Returns(c, ms) /\ \A m \in ms : m.op \notin Reads
<1>1. CASE Quiet
  BY <1>1, QuietReturns
<1>2. CASE Query(c)
  <2>1. UNCHANGED <<bus, wire, ch, stream>>
    BY <1>2 DEF Query, outside
  <2>2. CASE emit(c)
    <3>1. Returns(c, {c}) /\ c.op \notin Reads
      BY <2>2 DEF emit, Reads
    <3> QED
      BY <1>1, <2>1, <3>1
  <2>3. CASE loadIdentity(c) \/ loadStatus(c) \/ loadContacts(c) \/ loadDebugInfo(c) \/ tick(c)
    <3>1. /\ c.op \notin Reads
          /\ \E ms : Returns(c, ms) /\ \A m \in ms : m.op \notin Reads
      <4>1. CASE loadIdentity(c)
        BY <4>1, CmdFields DEF loadIdentity, Reads
      <4>2. CASE loadStatus(c)
        BY <4>2, CmdFields DEF loadStatus, Reads
      <4>3. CASE loadContacts(c)
        BY <4>3, CmdFields DEF loadContacts, Reads
      <4>4. CASE loadDebugInfo(c) \/ tick(c)
        BY <4>4, CmdFields DEF loadDebugInfo, tick, Reads
      <4> QED
        BY <2>3, <4>1, <4>2, <4>3, <4>4
    <3> QED
      BY <1>1, <2>1, <3>1
  <2> QED
    BY <1>2, <2>2, <2>3 DEF Query
<1>3. CASE Decide(c) \/ DecideFile(c)
  BY <1>1, <1>3, CmdFields DEF Decide, DecideFile, FileDecisionDone, Reads
<1>4. CASE saveContact(c)
  BY <1>1, <1>4, CmdFields DEF saveContact, Reads
<1>5. CASE saveNode(c)
  BY <1>1, <1>5, CmdFields DEF saveNode, Reads, outside
<1>6. CASE sendFile(c)
  BY <1>1, <1>6, CmdFields DEF sendFile, Reads, outside
<1>7. CASE sendChatMessage(c)
  <2>1. UNCHANGED <<mix, bus, wire, ch, stream, cmds, msgs>>
    BY <1>7 DEF sendChatMessage
  <2>2. ReaderInv' /\ \A t : Reading(t)' = Reading(t)
    BY <2>1, SameMessages DEF EventInv
  <2>3. direct' = direct /\ "mode" \in DOMAIN mix'
    BY <2>1 DEF direct, EventInv, ChannelsOK
  <2> QED
    BY <2>1, <2>2, <2>3, QuietEvents
<1>8. CASE SendReturns(c)
  BY <1>1, <1>8, CmdFields DEF SendReturns, Reads, outside
<1>9. CASE subscribeEvents(c)
  BY <1>9, SubscribedEvents
<1>10. CASE waitForEvent(c)
  BY <1>10, WaitEvents
<1> QED
  BY <1>2, <1>3, <1>4, <1>5, <1>6, <1>7, <1>8, <1>9, <1>10 DEF RunCmd

\* A decision that lets another call end adds a message that is no event.
LEMMA DecidedEvents ==
  ASSUME BagsOK, EventInv, BagsOK', NEW f, OfferDecided(f)
  PROVE  EventInv'
<1>1. UNCHANGED <<mix, bus, wire, ch, stream, cmds>>
  BY DEF OfferDecided
<1>2. PICK ms : msgs' = msgs (+) SetToBag(ms) /\ \A m \in ms : m.op \notin Reads
  BY CmdFields DEF OfferDecided, FileDecisionDone, Reads
<1>3. \A x : Copies(x, msgs') = Copies(x, msgs) + (IF x \in ms THEN 1 ELSE 0) /\ Copies(x, msgs) \in Nat
  BY <1>2, AddCopies, CopiesNat DEF BagsOK
<1>4. \A x : x.op \in {"eventChan", "event"} => Copies(x, msgs') = Copies(x, msgs)
  BY <1>2, <1>3 DEF Reads
<1>5. ReaderInv' /\ \A t : Reading(t)' = Reading(t)
  BY <1>1, <1>4, QuietReaders DEF EventInv
<1>6. direct' = direct /\ "mode" \in DOMAIN mix'
  BY <1>1 DEF direct, EventInv, ChannelsOK
<1> QED
  BY <1>1, <1>5, <1>6, QuietEvents

\* Every step keeps the way of the events whole.
LEMMA EventStep ==
  ASSUME BagsOK, BagsOK', EventInv, [Next]_vars
  PROVE  EventInv'
<1>0. "mode" \in DOMAIN mix
  BY DEF EventInv, ChannelsOK
<1>1. ASSUME UNCHANGED <<bus, wire, ch, stream, cmds, msgs>>, mix' = mix \/ \E w : w # "mode" /\ Spend(w)
      PROVE  EventInv'
  <2>1. ReaderInv' /\ \A t : Reading(t)' = Reading(t)
    BY <1>1, SameMessages DEF EventInv
  <2>2. direct' = direct /\ "mode" \in DOMAIN mix'
    BY <1>0, <1>1, SpendMode DEF direct
  <2> QED
    BY <1>1, <2>1, <2>2, QuietEvents
<1>2. ASSUME UNCHANGED <<wire, ch, stream, cmds, msgs>>, mix' = mix \/ \E w : w # "mode" /\ Spend(w),
             NEW y, NEW x, y \in Types => Event(y, x) \in Events, Publish(Event(y, x))
      PROVE  EventInv'
  <2>1. direct' = direct /\ "mode" \in DOMAIN mix'
    BY <1>0, <1>2, SpendMode DEF direct
  <2> QED
    BY <1>2, <2>1, PublishEvents
<1>3. CASE Press
  BY <1>3, PressEvents
<1>4. CASE UpdateApp
  BY <1>4, UpdateEvents
<1>5. CASE RunSomeCmd
  BY <1>5, CommandEvents DEF RunSomeCmd
<1>6. CASE Exchange
  BY <1>1, <1>6 DEF Exchange
<1>7. CASE SubscribeAll
  BY <1>7, SubscribeEvents DEF SubscribeAll
<1>8. CASE ForwardEvent
  BY <1>8, TakeEvents, PutEvents DEF ForwardEvent, program
<1>9. CASE SendToStream \/ RecvFromStream \/ BreakStream
  BY <1>9, StreamEvents, ReceiveEvents, BreakEvents
<1>10. CASE Quit \/ Panic \/ RemoveContact \/ OfferExpires
  BY <1>1, <1>10 DEF Quit, Panic, RemoveContact, OfferExpires, OfferTimeout, outside, program
<1> DEFINE Fits(y, x) == y \in Types => Event(y, x) \in Events
<1>11. /\ \A y, x : y # "file_offer" /\ x \in Peers \cup {None} => Fits(y, x)
       /\ \A f \in Offers : Fits("file_offer", f)
  BY DEF Event, Events
<1>12. CASE TorBecomesReady
  BY <1>2, <1>11, <1>12 DEF TorBecomesReady, program
<1>13. CASE ConnectionRequest
  BY <1>2, <1>11, <1>13 DEF ConnectionRequest, program
<1>14. CASE OfferArrives
  BY <1>2, <1>11, <1>14 DEF OfferArrives, program
<1>15. CASE MessageArrives
  BY <1>2, <1>11, <1>15 DEF MessageArrives, Ingest, program
<1>16. CASE PeerOnline
  BY <1>2, <1>11, <1>16 DEF PeerOnline, program
<1>17. CASE OfferHandled
  BY <1>1, <1>17, DecidedEvents DEF OfferHandled, OfferForgotten, program
<1>18. CASE UNCHANGED vars
  BY <1>1, <1>18 DEF vars
<1> QED
  BY <1>3, <1>4, <1>5, <1>6, <1>7, <1>8, <1>9, <1>10, <1>12, <1>13, <1>14, <1>15, <1>16, <1>17, <1>18
  DEF Next, System, Environment

\* At the start nothing is under way and one command has the channel.
LEMMA EventsInit ==
  ASSUME Init
  PROVE  EventInv
<1> DEFINE start == {Cmd(op, <<>>) : op \in {"loadIdentity", "loadStatus", "subscribe"}}
<1>1. msgs = SetToBag({}) /\ mix \in Mixes /\ wire = <<>> /\ ch = <<>> /\ stream = "none"
  BY DEF Init, EmptyBag
<1>2. PICK S, r : cmds = SetToBag(S) /\ \A c \in S : c.op \in {"subscribe", "wait"} => c = r
  <2>1. \A c \in start : c.op \in {"subscribe", "wait"} => c = Cmd("subscribe", <<>>)
    BY CmdFields
  <2>2. cmds = SetToBag(start) \/ cmds = SetToBag({Cmd("wait", <<>>)})
    BY DEF Init
  <2>3. \A c \in {Cmd("wait", <<>>)} : c.op \in {"subscribe", "wait"} => c = Cmd("wait", <<>>)
    OBVIOUS
  <2> HIDE DEF start
  <2> DEFINE ok(S, z) == cmds = SetToBag(S) /\ \A c \in S : c.op \in {"subscribe", "wait"} => c = z
  <2>4. ok(start, Cmd("subscribe", <<>>)) \/ ok({Cmd("wait", <<>>)}, Cmd("wait", <<>>))
    BY <2>1, <2>2, <2>3, Zenon
  <2> HIDE DEF ok
  <2>5. \E S, z : ok(S, z)
    BY <2>4
  <2> QED
    BY <2>5, Zenon DEF ok
<1>3. \A T : /\ BagToSet(SetToBag(T)) = T
             /\ \A x \in T : Copies(x, SetToBag(T)) = 1
  BY DEF SetToBag, BagToSet, Copies
<1>4. ReadingMsgs = {} /\ \A t : Reading(t) = {}
  BY <1>1, <1>3 DEF ReadingMsgs, Reading
<1>5. \A c \in ReadingCmds : c = r /\ Copies(c, cmds) = 1
  BY <1>2, <1>3 DEF ReadingCmds
<1>6. ReaderInv
  BY <1>4, <1>5 DEF ReaderInv
<1>7. PICK q \in {None, <<>>} : BusStarts(q)
  BY DEF Init, BusInit, BusSubscribed
<1>8. /\ subs = [t \in Types |-> q] /\ held = [t \in Types |-> None] /\ merged = <<>> /\ gone = FALSE
      /\ inflight = [t \in Types |-> <<>>]
  BY <1>7 DEF BusStarts
<1>9. "mode" \in DOMAIN mix
  BY <1>1, FrontendAssumption
<1>10. ChannelsOK
  <2>1. <<>> \in Seq(Events) /\ Len(<<>>) = 0
    BY EmptySeq
  <2>2. subs \in [Types -> Seq(Events) \cup {None}] /\ inflight \in [Types -> Seq(Events)]
    BY <1>8, <2>1
  <2>3. ASSUME NEW t \in Types PROVE /\ held[t] = None
                                    /\ subs[t] # None => \A i \in 1..Len(subs[t]) : subs[t][i].type = t
    BY <1>8, <2>1
  <2>4. held \in [Types -> Events \cup {None}]
    BY <1>8
  <2>5. direct => stream # "open"
    BY <1>1
  <2> QED
    BY <1>1, <1>8, <1>9, <2>1, <2>2, <2>3, <2>4, <2>5 DEF ChannelsOK
<1>11. \A t : Of(t, <<>>) = <<>>
  BY EmptySeq, OfSeq
<1>12. PassedOver
  BY <1>1, <1>4, <1>11 DEF PassedOver
<1>13. ASSUME NEW t \in Types PROVE inflight[t] = Path(t)
  <2>1. Foremost(t, msgs) = <<>> /\ InHand(t) = <<>> /\ Queued(t) = <<>>
    BY <1>4, <1>8 DEF Foremost, Reading, EventMsgs, InHand, Queued
  <2>2. Path(t) = Chain(<<>>, <<>>, <<>>, <<>>, <<>>, <<>>)
    BY <1>1, <1>6, <1>8, <1>10, <1>11, <2>1, PathStations
  <2>3. <<>> \o <<>> = <<>>
    BY EmptySeq, ConcatEmptySeq
  <2> QED
    BY <1>8, <2>2, <2>3, Zenon DEF Chain
<1>14. EventsConserved
  BY <1>13 DEF EventsConserved
<1> QED
  BY <1>6, <1>10, <1>12, <1>14 DEF EventInv

\* One command or message at a time has the event channel, every channel holds events of
\* its own kind, and the events Publish accepted and Update has not handled are, per type,
\* those on the way from the bus to Update in their order; whatever the number of types,
\* peers and offers, the capacity of the channels and the mode of the interface.
THEOREM EventInvariant == Spec => []EventInv
<1>1. Init => EventInv
  BY EventsInit
<1>2. FrontendInv /\ FrontendInv' /\ EventInv /\ [Next]_vars => EventInv'
  BY EventStep DEF FrontendInv
<1> QED
  BY <1>1, <1>2, FrontendInvariant, PTL DEF Spec

\* An event that Publish accepted reaches handleEvent once and in the order of its type.
THEOREM EventsDelivered == Spec => []EventsConserved
<1>1. EventInv => EventsConserved
  BY DEF EventInv
<1> QED
  BY <1>1, EventInvariant, PTL

-----------------------------------------------------------------------------
(* Ticks: what is on the screen.                                           *)

\* One element more at most is one more in number at most.
LEMMA OneMore ==
  ASSUME NEW S, IsFiniteSet(S), NEW x, NEW T, T \subseteq S \cup {x}
  PROVE  IsFiniteSet(T) /\ Cardinality(T) \in Nat /\ Cardinality(T) <= Cardinality(S) + 1
<1>1. IsFiniteSet(S \cup {x}) /\ Cardinality(S \cup {x}) <= Cardinality(S) + 1 /\ Cardinality(S) \in Nat
  BY FS_AddElement, FS_CardinalityType
<1>2. IsFiniteSet(T) /\ Cardinality(T) <= Cardinality(S \cup {x})
  BY <1>1, FS_Subset
<1>3. Cardinality(T) \in Nat /\ Cardinality(S \cup {x}) \in Nat
  BY <1>1, <1>2, FS_CardinalityType
<1> QED
  BY <1>1, <1>2, <1>3

\* The lines and the transfers of an App are finitely many.
LEMMA Marks ==
  ASSUME NEW a, IsApp(a)
  PROVE  /\ IsFiniteSet(Ticked(a)) /\ Cardinality(Ticked(a)) \in Nat
         /\ IsFiniteSet(Ended(a)) /\ Cardinality(Ended(a)) \in Nat
<1>1. ASSUME NEW X, NEW s \in Seq(X) PROVE IsFiniteSet(DOMAIN s)
  <2>1. DOMAIN s = 1..Len(s) /\ Len(s) \in Int
    BY ElementOfSeq
  <2> QED
    BY <2>1, FS_Interval
<1>2. Ticked(a) \subseteq DOMAIN a.lines /\ Ended(a) \subseteq DOMAIN a.items
  BY DEF Ticked, Ended
<1>3. IsFiniteSet(DOMAIN a.lines) /\ IsFiniteSet(DOMAIN a.items)
  BY <1>1 DEF IsApp
<1> QED
  BY <1>2, <1>3, FS_Subset, FS_CardinalityType

\* b is an App with the lines and the transfers of a.
Looks(b, a) == IsApp(b) /\ Ticked(b) = Ticked(a) /\ Ended(b) = Ended(a)

\* Nothing but lines and items matters.
LEMMA SameLooks ==
  ASSUME NEW a, IsApp(a), NEW b, b.lines = a.lines, b.items = a.items, DOMAIN b = DOMAIN a
  PROVE  Looks(b, a)
BY DEF IsApp, Looks, Ticked, Ended

\* A line that is appended has no tick of the user's.
LEMMA AddLine ==
  ASSUME NEW a, IsApp(a), NEW mine \in BOOLEAN
  PROVE  Looks(AddMessage(a, mine), a)
<1> DEFINE e == [mine |-> mine, acked |-> ~mine]
           b == AddMessage(a, mine)
<1>1. /\ b.lines = Append(a.lines, e) /\ b.items = a.items
      /\ DOMAIN b = DOMAIN a
  BY DEF AddMessage, IsApp
<1>2. e \in Lines /\ ~(e.mine /\ e.acked)
  BY DEF Lines
<1>3. a.lines \in Seq(Lines)
  BY DEF IsApp
<1> HIDE DEF e, b
<1>4. /\ b.lines \in Seq(Lines) /\ DOMAIN a.lines = 1..Len(a.lines) /\ Len(a.lines) \in Nat
      /\ DOMAIN b.lines = 1..(Len(a.lines) + 1)
      /\ \A i \in 1..Len(a.lines) : b.lines[i] = a.lines[i]
      /\ b.lines[Len(a.lines) + 1] = e
  BY <1>1, <1>2, <1>3
<1>5. DOMAIN b.lines = DOMAIN a.lines \cup {Len(a.lines) + 1}
  BY <1>4
<1>6. Ticked(b) = Ticked(a)
  BY <1>2, <1>4, <1>5 DEF Ticked
<1>7. Ended(b) = Ended(a) /\ IsApp(b)
  BY <1>1, <1>4 DEF Ended, IsApp
<1> QED
  BY <1>6, <1>7 DEF Looks, b

\* A transfer that is appended has not ended.
LEMMA AddItem ==
  ASSUME NEW a, IsApp(a), NEW b, b.lines = a.lines, DOMAIN b = DOMAIN a,
         b.items = Append(a.items, [done |-> FALSE, failed |-> FALSE])
  PROVE  Looks(b, a)
<1> DEFINE e == [done |-> FALSE, failed |-> FALSE]
<1>2. e \in Items /\ ~e.done
  BY DEF Items
<1>3. a.items \in Seq(Items) /\ b.items = Append(a.items, e)
  BY DEF IsApp
<1> HIDE DEF e
<1>4. /\ b.items \in Seq(Items) /\ DOMAIN a.items = 1..Len(a.items) /\ Len(a.items) \in Nat
      /\ DOMAIN b.items = 1..(Len(a.items) + 1)
      /\ \A i \in 1..Len(a.items) : b.items[i] = a.items[i]
      /\ b.items[Len(a.items) + 1] = e
  BY <1>2, <1>3
<1>5. DOMAIN b.items = DOMAIN a.items \cup {Len(a.items) + 1}
  BY <1>4
<1>6. Ended(b) = Ended(a)
  BY <1>2, <1>4, <1>5 DEF Ended
<1>7. Ticked(b) = Ticked(a) /\ IsApp(b)
  BY <1>4 DEF Ticked, IsApp
<1> QED
  BY <1>6, <1>7 DEF Looks

Tick(a, i) == [a EXCEPT !.lines[i].acked = TRUE]
Complete(a, i) == [a EXCEPT !.items[i].done = TRUE]
Fail(a, i) == [a EXCEPT !.items[i].failed = TRUE]

\* Marking one line ticks one more at most.
LEMMA MarkLine ==
  ASSUME NEW a, IsApp(a), NEW i
  PROVE  IsApp(Tick(a, i)) /\ Ended(Tick(a, i)) = Ended(a) /\ Ticked(Tick(a, i)) \subseteq Ticked(a) \cup {i}
<1> DEFINE s == a.lines
           z == [s EXCEPT ![i].acked = TRUE]
           b == [a EXCEPT !.lines[i].acked = TRUE]
<1>1. b.lines = z /\ b.items = a.items /\ DOMAIN b = DOMAIN a
  BY DEF IsApp
<1>2. s \in Seq(Lines) /\ DOMAIN s = 1..Len(s) /\ Len(s) \in Nat /\ s \in [1..Len(s) -> Lines]
  BY ElementOfSeq DEF IsApp
<1>3. DOMAIN z = DOMAIN s /\ \A j \in DOMAIN s : z[j] = IF j = i THEN [s[j] EXCEPT !.acked = TRUE] ELSE s[j]
  OBVIOUS
<1> HIDE DEF s, b
<1>4. \A j \in DOMAIN s : s[j] \in Lines /\ [s[j] EXCEPT !.acked = TRUE] \in Lines
  BY <1>2 DEF Lines
<1>5. z \in [1..Len(s) -> Lines]
  BY <1>2, <1>3, <1>4
<1> HIDE DEF z
<1>6. z \in Seq(Lines)
  BY <1>2, <1>5, SeqDef
<1>7. IsApp(b) /\ Ended(b) = Ended(a)
  BY <1>1, <1>6 DEF IsApp, Ended
<1>8. Ticked(b) \subseteq Ticked(a) \cup {i}
  BY <1>1, <1>3 DEF Ticked, s
<1> QED
  BY <1>7, <1>8 DEF b, Tick

\* Marking one transfer as complete ends one more at most.
LEMMA MarkItem ==
  ASSUME NEW a, IsApp(a), NEW i
  PROVE  /\ IsApp(Complete(a, i)) /\ Ticked(Complete(a, i)) = Ticked(a)
         /\ Ended(Complete(a, i)) \subseteq Ended(a) \cup {i}
<1> DEFINE s == a.items
           z == [s EXCEPT ![i].done = TRUE]
           b == [a EXCEPT !.items[i].done = TRUE]
<1>1. b.items = z /\ b.lines = a.lines /\ DOMAIN b = DOMAIN a
  BY DEF IsApp
<1>2. s \in Seq(Items) /\ DOMAIN s = 1..Len(s) /\ Len(s) \in Nat /\ s \in [1..Len(s) -> Items]
  BY ElementOfSeq DEF IsApp
<1>3. DOMAIN z = DOMAIN s /\ \A j \in DOMAIN s : z[j] = IF j = i THEN [s[j] EXCEPT !.done = TRUE] ELSE s[j]
  OBVIOUS
<1> HIDE DEF s, b
<1>4. \A j \in DOMAIN s : s[j] \in Items /\ [s[j] EXCEPT !.done = TRUE] \in Items
  BY <1>2 DEF Items
<1>5. z \in [1..Len(s) -> Items]
  BY <1>2, <1>3, <1>4
<1> HIDE DEF z
<1>6. z \in Seq(Items)
  BY <1>2, <1>5, SeqDef
<1>7. IsApp(b) /\ Ticked(b) = Ticked(a)
  BY <1>1, <1>6 DEF IsApp, Ticked
<1>8. Ended(b) \subseteq Ended(a) \cup {i}
  BY <1>1, <1>3 DEF Ended, s
<1> QED
  BY <1>7, <1>8 DEF b, Complete

\* Marking one transfer as failed ends none.
LEMMA FailItem ==
  ASSUME NEW a, IsApp(a), NEW i
  PROVE  Looks(Fail(a, i), a)
<1> DEFINE s == a.items
           z == [s EXCEPT ![i].failed = TRUE]
           b == [a EXCEPT !.items[i].failed = TRUE]
<1>1. b.items = z /\ b.lines = a.lines /\ DOMAIN b = DOMAIN a
  BY DEF IsApp
<1>2. s \in Seq(Items) /\ DOMAIN s = 1..Len(s) /\ Len(s) \in Nat /\ s \in [1..Len(s) -> Items]
  BY ElementOfSeq DEF IsApp
<1>3. DOMAIN z = DOMAIN s /\ \A j \in DOMAIN s : z[j] = IF j = i THEN [s[j] EXCEPT !.failed = TRUE] ELSE s[j]
  OBVIOUS
<1> HIDE DEF s, b
<1>4. \A j \in DOMAIN s : /\ s[j] \in Items /\ [s[j] EXCEPT !.failed = TRUE] \in Items
                          /\ [s[j] EXCEPT !.failed = TRUE].done = s[j].done
  BY <1>2 DEF Items
<1>5. z \in [1..Len(s) -> Items]
  BY <1>2, <1>3, <1>4
<1> HIDE DEF z
<1>6. z \in Seq(Items)
  BY <1>2, <1>5, SeqDef
<1>7. IsApp(b) /\ Ticked(b) = Ticked(a)
  BY <1>1, <1>6 DEF IsApp, Ticked
<1>8. Ended(b) = Ended(a)
  BY <1>1, <1>3, <1>4 DEF Ended, s
<1> QED
  BY <1>7, <1>8 DEF b, Looks, Fail

\* Lines and transfers untouched.
Same(b, a) == b.lines = a.lines /\ b.items = a.items /\ DOMAIN b = DOMAIN a

\* The message of a send that went through ticks one line at most, the one of a completed
\* transfer ends one item at most, and no other message marks anything.
LEMMA UpdateLooks ==
  ASSUME NEW a, IsApp(a), NEW m
  PROVE  LET b == Update(a, m).app
         IN /\ IsApp(b)
            /\ \/ Looks(b, a)
               \/ /\ m.op = "chatSent" /\ m.arg # <<>> /\ Ended(b) = Ended(a)
                  /\ \E i : Ticked(b) \subseteq Ticked(a) \cup {i}
               \/ /\ Success(m) /\ Ticked(b) = Ticked(a)
                  /\ \E i : Ended(b) \subseteq Ended(a) \cup {i}
<1> DEFINE b == Update(a, m).app
<1>0. \A c : Same(c, a) => Looks(c, a)
  BY SameLooks DEF Same
<1>1. ASSUME NEW c, Same(c, a), NEW do PROVE Same(maybeTransition(c, do).app, a)
  BY <1>1 DEF maybeTransition, Result, Same
<1>2. CASE m.op = "ChatSend"
  <2>1. b = AddMessage(a, TRUE)
    BY <1>2 DEF Update, chatSend, Result
  <2> QED
    BY <2>1, AddLine DEF Looks
<1>3. CASE m.op = "chatSent"
  <2>1. Update(a, m) = chatSent(a, m.arg)
    BY <1>3 DEF Update
  <2>2. \/ b = a
        \/ m.arg # <<>> /\ \E i : b = Tick(a, i)
    <3> DEFINE waiting == {i \in DOMAIN a.lines : a.lines[i].mine /\ ~a.lines[i].acked}
               last == CHOOSE i \in waiting : \A j \in waiting : j <= i
    <3>1. Update(a, m) = IF m.arg = <<>> \/ waiting = {} THEN Result(a, {}) ELSE Result(Tick(a, last), {})
      BY <2>1, Zenon DEF chatSent, Tick
    <3> HIDE DEF waiting, last
    <3> QED
      BY <3>1 DEF Result
  <2>3. CASE b = a
    BY <2>3, <1>0 DEF Looks, Same
  <2>4. CASE m.arg # <<>> /\ \E i : b = Tick(a, i)
    <3>1. PICK i : b = Tick(a, i)
      BY <2>4
    <3>2. IsApp(b) /\ Ended(b) = Ended(a) /\ Ticked(b) \subseteq Ticked(a) \cup {i}
      BY <3>1, MarkLine
    <3> QED
      BY <1>3, <2>4, <3>2
  <2> QED
    BY <2>2, <2>3, <2>4
<1>4. CASE m.op = "FileSelected"
  <2>1. b = [a EXCEPT !.screen = "Transfer", !.items = Append(@, [done |-> FALSE, failed |-> FALSE])]
    BY <1>4 DEF Update, fileSelected, Result
  <2>2. /\ b.lines = a.lines /\ DOMAIN b = DOMAIN a
        /\ b.items = Append(a.items, [done |-> FALSE, failed |-> FALSE])
    BY <2>1 DEF IsApp
  <2> QED
    BY <2>2, AddItem DEF Looks
<1>5. CASE m.op = "fileSendDone"
  <2>1. Update(a, m) = fileSendDone(a, m.arg)
    BY <1>5 DEF Update
  <2>2. \/ b = a
        \/ m.arg # <<>> /\ \E i : b = Complete(a, i)
        \/ \E i : b = Fail(a, i)
    <3> DEFINE ok == m.arg # <<>>
               open == {i \in DOMAIN a.items : ~a.items[i].done /\ (ok \/ ~a.items[i].failed)}
               first == CHOOSE i \in open : \A j \in open : i <= j
    <3>1. Update(a, m) = IF open = {} THEN Result(a, {})
                         ELSE Result(IF ok THEN Complete(a, first) ELSE Fail(a, first), {})
      BY <2>1, Zenon DEF fileSendDone, Complete, Fail
    <3> HIDE DEF open, first
    <3> QED
      BY <3>1 DEF Result
  <2>3. CASE b = a
    BY <2>3, <1>0 DEF Looks, Same
  <2>4. CASE m.arg # <<>> /\ \E i : b = Complete(a, i)
    <3>1. PICK i : b = Complete(a, i)
      BY <2>4
    <3>2. IsApp(b) /\ Ticked(b) = Ticked(a) /\ Ended(b) \subseteq Ended(a) \cup {i}
      BY <3>1, MarkItem
    <3> QED
      BY <1>5, <2>4, <3>2 DEF Success
  <2>5. CASE \E i : b = Fail(a, i)
    BY <2>5, FailItem DEF Looks
  <2> QED
    BY <2>2, <2>3, <2>4, <2>5
<1>6. CASE m.op = "event"
  <2> DEFINE e == m.arg[1]
  <2>1. Update(a, m) = handleEvent(a, e)
    BY <1>6 DEF Update
  <2>2. Same(TorReady(a).app, a)
    <3>1. Same([a EXCEPT !.torReady = TRUE], a)
      BY DEF Same
    <3> QED
      BY <1>1, <3>1 DEF TorReady
  <2>3. Same(ConnectionReq(a, e.of).app, a) /\ Same(FileOffer(a, e.of).app, a)
    <3> DEFINE c == [a EXCEPT !.prev = a.screen]
               d1 == [c EXCEPT !.screen = "ConnPrompt"]
               d2 == [c EXCEPT !.screen = "FileOffer"]
               r1 == [d1 EXCEPT !.prompt = e.of]
               r2 == [d2 EXCEPT !.offer = e.of]
    <3>1. Same(c, a) /\ Same(d1, c) /\ Same(d2, c)
      BY DEF Same
    <3>2. Same(d1, a) /\ Same(d2, a)
      BY <3>1 DEF Same
    <3>3. ConnectionReq(a, e.of).app = r1 /\ FileOffer(a, e.of).app = r2
      BY DEF ConnectionReq, FileOffer, Result
    <3> HIDE DEF d1, d2
    <3>4. Same(r1, d1) /\ Same(r2, d2)
      BY DEF Same
    <3>5. Same(r1, a) /\ Same(r2, a)
      BY <3>2, <3>4 DEF Same
    <3> QED
      BY <3>3, <3>5, Zenon
  <2>4. Looks(AddMessage(a, FALSE), a)
    BY AddLine
  <2> DEFINE f == [a EXCEPT !.online = @ \cup {e.of}]
  <2>5. Same(f, a) /\ Same(a, a)
    BY DEF Same
  <2>6. \/ handleEvent(a, e) = TorReady(a) \/ handleEvent(a, e) = ConnectionReq(a, e.of)
        \/ handleEvent(a, e) = FileOffer(a, e.of) \/ b = AddMessage(a, FALSE)
        \/ b = f \/ b = a
    <3>1. handleEvent(a, e) =
            CASE e.type = "tor_ready" -> TorReady(a)
              [] e.type = "connection_request" -> ConnectionReq(a, e.of)
              [] e.type = "file_offer" /\ Usable(e) -> FileOffer(a, e.of)
              [] e.type = "chat_message" /\ Usable(e) /\ a.screen = "Chat" /\ a.chat = e.of ->
                   Result(AddMessage(a, FALSE), {NextEvent})
              [] e.type = "peer_online" /\ Usable(e) /\ e.of \in ToSet(a.contacts) -> Result(f, {NextEvent})
              [] OTHER -> Result(a, {NextEvent})
      BY Zenon DEF handleEvent
    <3> HIDE DEF e, f
    <3>2. \/ handleEvent(a, e) = TorReady(a) \/ handleEvent(a, e) = ConnectionReq(a, e.of)
          \/ handleEvent(a, e) = FileOffer(a, e.of) \/ handleEvent(a, e) = Result(AddMessage(a, FALSE), {NextEvent})
          \/ handleEvent(a, e) = Result(f, {NextEvent}) \/ handleEvent(a, e) = Result(a, {NextEvent})
      BY <3>1
    <3>3. \A g, do : Result(g, do).app = g
      BY DEF Result
    <3> QED
      BY <2>1, <3>2, <3>3
  <2> HIDE DEF e, f
  <2>7. Looks(b, a)
    BY <1>0, <2>1, <2>2, <2>3, <2>4, <2>5, <2>6
  <2> QED
    BY <2>7 DEF Looks
<1>7. CASE m.op \notin {"ChatSend", "chatSent", "FileSelected", "fileSendDone", "event"}
  <2>1. CASE m.op = "identityLoaded"
    <3>1. Same([a EXCEPT !.identityReady = TRUE], a)
      BY DEF Same
    <3> QED
      BY <1>0, <1>1, <2>1, <3>1 DEF Update, identityLoaded, Looks
  <2>2. CASE m.op = "statusLoaded"
    <3>1. Same([a EXCEPT !.torReady = TRUE], a) /\ Same(a, a)
      BY DEF Same
    <3>2. Same(statusLoaded(a, m.arg[1]).app, a)
      BY <1>1, <3>1 DEF statusLoaded, Result
    <3> QED
      BY <1>0, <2>2, <3>2 DEF Update, Looks
  <2>3. CASE m.op \in {"connDecisionDone", "fileDecisionDone", "contactSaved", "nodeScreenDone",
                       "contactsLoaded", "eventChan"}
    <3>1. Same(b, a)
      BY <2>3 DEF Update, decisionDone, contactSaved, nodeScreenDone, Result, Same
    <3> QED
      BY <1>0, <3>1 DEF Looks
  <2>4. CASE m.op \notin {"identityLoaded", "statusLoaded", "connDecisionDone", "fileDecisionDone",
                          "contactSaved", "nodeScreenDone", "contactsLoaded", "eventChan"}
    <3>1. b = a
      BY <1>7, <2>4 DEF Update, ConnAccepted, Result
    <3> QED
      BY <1>0, <3>1 DEF Looks, Same
  <2> QED
    BY <2>1, <2>2, <2>3, <2>4
<1> QED
  BY <1>2, <1>3, <1>4, <1>5, <1>6, <1>7

\* A key marks nothing; a chat that is opened has no lines yet.
LEMMA KeyLooks ==
  ASSUME NEW a, IsApp(a), NEW k, NEW x
  PROVE  LET b == handleKey(a, k, x).app
         IN IsApp(b) /\ Ticked(b) \subseteq Ticked(a) /\ Ended(b) = Ended(a)
<1> DEFINE b == handleKey(a, k, x).app
<1>1. Same(a, a) /\ \A s : Same([a EXCEPT !.screen = s], a)
  BY DEF Same
<1>2. \/ b = NewChat(a, Selected(a)).app
      \/ Same(b, a)
  <2>1. \/ HomeKey(a, k).app = NewChat(a, Selected(a)).app
        \/ Same(HomeKey(a, k).app, a)
    <3> DEFINE f == [a EXCEPT !.screen = "FilePicker", !.picker = Selected(a)]
               g == [a EXCEPT !.cursor = @ + 1]
    <3>1. Same(f, a) /\ Same(g, a)
      <4>1. Same([a EXCEPT !.screen = "FilePicker"], a)
        BY <1>1
      <4>2. \A b1, s : Same([b1 EXCEPT !.picker = s], b1)
        BY DEF Same
      <4>3. Same(f, [a EXCEPT !.screen = "FilePicker"]) /\ Same(g, a)
        BY <4>2 DEF Same
      <4> QED
        BY <4>1, <4>3 DEF Same
    <3>2. \A c, do : Result(c, do).app = c
      BY DEF Result
    <3>3. \/ \E s, do : HomeKey(a, k) = Show(a, s, do)
          \/ HomeKey(a, k) = Result(f, {}) \/ HomeKey(a, k) = NewChat(a, Selected(a))
          \/ HomeKey(a, k) = HomeUpdate(a, k)
      BY DEF HomeKey
    <3>4. \/ HomeUpdate(a, k) = Result(g, {}) \/ HomeUpdate(a, k) = Result(a, {})
      BY DEF HomeUpdate
    <3> HIDE DEF f, g
    <3>5. ASSUME NEW s, NEW do PROVE Same(Show(a, s, do).app, a)
      <4>1. Show(a, s, do).app = [a EXCEPT !.screen = s]
        BY DEF Show, Result
      <4>2. Same([a EXCEPT !.screen = s], a)
        BY DEF Same
      <4> QED
        BY <4>1, <4>2, Zenon
    <3> QED
      BY <1>1, <3>1, <3>2, <3>3, <3>4, <3>5
  <2>2. /\ ConnPromptUpdate(a, k).app = a /\ FileOfferUpdate(a, k).app = a
        /\ AddContactUpdate(a, k, x).app = a /\ AddNodeUpdate(a, k).app = a
        /\ ChatUpdate(a, k, x).app = a /\ FilePickerUpdate(a, k).app = a /\ TransferUpdate(a, k).app = a
    BY DEF ConnPromptUpdate, FileOfferUpdate, AddContactUpdate, AddNodeUpdate, ChatUpdate,
           FilePickerUpdate, TransferUpdate, Emit, Result
  <2> QED
    BY <1>1, <2>1, <2>2 DEF handleKey, Show, Result
<1>3. CASE b = NewChat(a, Selected(a)).app
  <2>1. b.lines = <<>> /\ b.items = a.items /\ DOMAIN b = DOMAIN a
    BY <1>3 DEF IsApp, NewChat, Result
  <2> HIDE DEF b
  <2>2. <<>> \in Seq(Lines) /\ DOMAIN <<>> = {}
    BY EmptySeq
  <2> QED
    BY <2>1, <2>2 DEF IsApp, Ticked, Ended, b
<1>4. CASE Same(b, a)
  BY <1>4, SameLooks DEF Same, Looks
<1> QED
  BY <1>2, <1>3, <1>4

\* Only the command of a screen leads to a send, of the message the screen sent.
LEMMA UpdateSends ==
  ASSUME NEW a, NEW m, NEW c \in Update(a, m).do, c.op \in SendOps
  PROVE  m.op = "ChatSend" /\ Update(a, m).do = {Cmd("sendChat", m.arg)}
<1>1. \A b, do : maybeTransition(b, do).do \subseteq do \cup {Cmd("loadContacts", <<>>)}
  BY DEF maybeTransition, Result
<1>2. \A e : \A d \in handleEvent(a, e).do : d.op \notin SendOps
  BY <1>1 DEF handleEvent, TorReady, ConnectionReq, FileOffer, Result, NextEvent, Cmd, SendOps
<1>3. \A d \in identityLoaded(a).do : d.op \notin SendOps
  BY <1>1 DEF identityLoaded, Cmd, SendOps
<1>4. \A s : \A d \in statusLoaded(a, s).do : d.op \notin SendOps
  BY <1>1 DEF statusLoaded, Result, Cmd, SendOps
<1>5. \A d \in chatSent(a, m.arg).do \cup fileSelected(a, m.arg).do
                \cup fileSendDone(a, m.arg).do : d.op \notin SendOps
  BY DEF chatSent, fileSelected, fileSendDone, Result, Cmd, SendOps
<1>6. \A d \in decisionDone(a).do \cup contactSaved(a).do \cup nodeScreenDone(a).do : d.op \notin SendOps
  BY DEF decisionDone, contactSaved, nodeScreenDone, Result, Cmd, SendOps
<1> QED
  BY <1>2, <1>3, <1>4, <1>5, <1>6 DEF Update, chatSend, ConnAccepted, Result, NextEvent, Cmd, SendOps

\* Only enter in a chat sends, the message that was typed.
LEMMA KeySends ==
  ASSUME NEW a, NEW k, NEW x, NEW c \in handleKey(a, k, x).do, c.op \in SendOps
  PROVE  /\ a.screen = "Chat" /\ k = "enter"
         /\ handleKey(a, k, x).do = {Cmd("ChatSend", <<a.chat, x>>)}
<1>1. \A d \in HomeKey(a, k).do : d.op \notin SendOps
  BY DEF HomeKey, Show, NewChat, HomeUpdate, Result, Cmd, SendOps
<1>2. \A d \in ConnPromptUpdate(a, k).do \cup FileOfferUpdate(a, k).do : d.op \notin SendOps
  BY DEF ConnPromptUpdate, FileOfferUpdate, Emit, Result, Cmd, SendOps
<1>3. \A d \in AddContactUpdate(a, k, x).do \cup AddNodeUpdate(a, k).do \cup FilePickerUpdate(a, k).do
                \cup TransferUpdate(a, k).do : d.op \notin SendOps
  BY DEF AddContactUpdate, AddNodeUpdate, FilePickerUpdate, TransferUpdate, Emit, Result, Cmd, SendOps
<1>4. a.screen = "Chat" /\ handleKey(a, k, x) = ChatUpdate(a, k, x)
  BY <1>1, <1>2, <1>3 DEF handleKey, Show, Result
<1> QED
  BY <1>4 DEF ChatUpdate, Emit, Result

-----------------------------------------------------------------------------
(* Ticks: what carries the number of a message.                            *)

\* What is under way is what a bag holds a copy of.
LEMMA InPresent ==
  ASSUME BagsOK, BagsOK'
  PROVE  \A x : /\ UnderWay(x) \in Nat /\ (x \in Present <=> UnderWay(x) > 0)
                /\ UnderWay(x)' \in Nat /\ (x \in Present' <=> UnderWay(x)' > 0)
<1>1. ASSUME NEW B, IsABag(B), NEW x PROVE Copies(x, B) \in Nat /\ (x \in BagToSet(B) <=> Copies(x, B) > 0)
  BY <1>1 DEF IsABag, Copies, BagToSet
<1>2. IsABag(cmds) /\ IsABag(msgs) /\ IsABag(cmds') /\ IsABag(msgs')
  BY DEF BagsOK
<1>3. ASSUME NEW x
      PROVE  /\ Copies(x, cmds) \in Nat /\ Copies(x, msgs) \in Nat
             /\ Copies(x, cmds') \in Nat /\ Copies(x, msgs') \in Nat
             /\ (x \in BagToSet(cmds) <=> Copies(x, cmds) > 0) /\ (x \in BagToSet(msgs) <=> Copies(x, msgs) > 0)
             /\ (x \in BagToSet(cmds') <=> Copies(x, cmds') > 0) /\ (x \in BagToSet(msgs') <=> Copies(x, msgs') > 0)
  BY <1>1, <1>2
<1> QED
  BY <1>3 DEF UnderWay, Present

\* An acknowledgement is final.
Lasting == \A n \in Sends : exchange[n].sender = "ok" => exchange'[n].sender = "ok"

\* Steps that carry no message.
LEMMA QuietCarriers ==
  ASSUME BagsOK, BagsOK', CarrierInv, Lasting, \A x : Sending(x) => UnderWay(x)' = UnderWay(x)
  PROVE  CarrierInv' /\ \A n \in Sends : Carriers(n)' = Carriers(n)
<1>1. \A x : Sending(x) => (x \in Present' <=> x \in Present)
  BY InPresent
<1>2. ASSUME NEW n PROVE Carriers(n)' = Carriers(n)
  BY <1>1 DEF Carriers
<1>3. \A x \in Present' : Sending(x) => x.arg[2] \in Sends
  BY <1>1 DEF CarrierInv
<1>4. \A n \in Sends : \A x, y \in Carriers(n)' : x = y /\ UnderWay(x)' = 1
  <2>1. \A n : \A x \in Carriers(n) : Sending(x)
    BY DEF Carriers
  <2> QED
    BY <1>2, <2>1 DEF CarrierInv
<1>5. \A n \in Sends : \A x \in Carriers(n)' : x.op = "chatSent" => exchange'[n].sender = "ok"
  BY <1>2 DEF CarrierInv, Lasting
<1> QED
  BY <1>2, <1>3, <1>4, <1>5 DEF CarrierInv

\* The only carrier of its number is taken out.
LEMMA DropCarrier ==
  ASSUME BagsOK, BagsOK', CarrierInv, Lasting, NEW c \in Present, Sending(c),
         \A x : Sending(x) => UnderWay(x)' = UnderWay(x) - (IF x = c THEN 1 ELSE 0)
  PROVE  /\ CarrierInv' /\ c.arg[2] \in Sends
         /\ c \in Carriers(c.arg[2]) /\ Carriers(c.arg[2])' = {}
         /\ \A n \in Sends : n # c.arg[2] => Carriers(n)' = Carriers(n)
<1> DEFINE k == c.arg[2]
<1>1. k \in Sends /\ c \in Carriers(k)
  BY DEF CarrierInv, Carriers
<1>2. UnderWay(c) = 1 /\ \A x \in Carriers(k) : x = c
  BY <1>1 DEF CarrierInv
<1>3. \A x : Sending(x) => (x \in Present' <=> x \in Present /\ x # c)
  BY <1>2, InPresent
<1>4. Carriers(k)' = {}
  BY <1>2, <1>3 DEF Carriers
<1>5. ASSUME NEW n \in Sends, n # k PROVE Carriers(n)' = Carriers(n)
  BY <1>3, <1>5 DEF Carriers
<1>6. \A x \in Present' : Sending(x) => x.arg[2] \in Sends
  BY <1>3 DEF CarrierInv
<1>7. \A n \in Sends : \A x \in Carriers(n)' : x \in Carriers(n) /\ UnderWay(x)' = UnderWay(x)
  <2>1. \A n : \A x \in Carriers(n)' : x \in Carriers(n) /\ Sending(x) /\ x # c
    BY <1>3 DEF Carriers
  <2> QED
    BY <2>1, InPresent
<1>8. \A n \in Sends : \A x, y \in Carriers(n)' : x = y /\ UnderWay(x)' = 1
  BY <1>7 DEF CarrierInv
<1>9. \A n \in Sends : \A x \in Carriers(n)' : x.op = "chatSent" => exchange'[n].sender = "ok"
  BY <1>7 DEF CarrierInv, Lasting
<1>10. CarrierInv'
  BY <1>6, <1>8, <1>9 DEF CarrierInv
<1> QED
  BY <1>1, <1>4, <1>5, <1>10

\* A number that nothing carries gets its carrier.
LEMMA AddCarrier ==
  ASSUME BagsOK, BagsOK', CarrierInv, Lasting, NEW d, Sending(d), d.arg[2] \in Sends,
         d.op # "chatSent", Carriers(d.arg[2]) = {},
         \A x : Sending(x) => UnderWay(x)' = UnderWay(x) + (IF x = d THEN 1 ELSE 0)
  PROVE  CarrierInv' /\ \A n \in Sends : n # d.arg[2] => Carriers(n)' = Carriers(n)
<1> DEFINE k == d.arg[2]
<1>1. d \notin Present
  BY DEF Carriers
<1>2. UnderWay(d)' = 1
  BY <1>1, InPresent
<1>3. \A x : Sending(x) => (x \in Present' <=> x \in Present \/ x = d)
  BY InPresent
<1>4. Carriers(k)' = {d}
  BY <1>3 DEF Carriers
<1>5. ASSUME NEW n \in Sends, n # k PROVE Carriers(n)' = Carriers(n)
  BY <1>3, <1>5 DEF Carriers
<1>6. \A x \in Present' : Sending(x) => x.arg[2] \in Sends
  BY <1>3 DEF CarrierInv
<1>7. \A n \in Sends : n # k => \A x \in Carriers(n) : UnderWay(x)' = UnderWay(x)
  <2>1. \A n : \A x \in Carriers(n) : Sending(x) /\ x \in Present
    BY DEF Carriers
  <2> QED
    BY <1>1, <2>1, InPresent
<1>8. \A n \in Sends : \A x, y \in Carriers(n)' : x = y /\ UnderWay(x)' = 1
  <2>1. ASSUME NEW n \in Sends, n # k, NEW x \in Carriers(n)', NEW y \in Carriers(n)'
        PROVE  x = y /\ UnderWay(x)' = 1
    BY <1>5, <1>7, <2>1 DEF CarrierInv
  <2> QED
    BY <1>2, <1>4, <2>1
<1>9. \A n \in Sends : \A x \in Carriers(n)' : x.op = "chatSent" => exchange'[n].sender = "ok"
  BY <1>4, <1>5 DEF CarrierInv, Lasting
<1>10. CarrierInv'
  BY <1>6, <1>8, <1>9 DEF CarrierInv
<1> QED
  BY <1>5, <1>10

\* The only carrier of a number hands it on.
LEMMA MoveCarrier ==
  ASSUME BagsOK, BagsOK', CarrierInv, Lasting, NEW c \in Present, Sending(c),
         NEW d, Sending(d), d.arg = c.arg, d # c,
         d.op = "chatSent" => exchange'[c.arg[2]].sender = "ok",
         \A x : Sending(x) => UnderWay(x)' = UnderWay(x) - (IF x = c THEN 1 ELSE 0) + (IF x = d THEN 1 ELSE 0)
  PROVE  CarrierInv' /\ \A n \in Sends : Carriers(n) = {} => Carriers(n)' = {}
<1> DEFINE k == c.arg[2]
<1>1. k \in Sends /\ c \in Carriers(k)
  BY DEF CarrierInv, Carriers
<1>2. UnderWay(c) = 1 /\ \A x \in Carriers(k) : x = c
  BY <1>1 DEF CarrierInv
<1>3. d \notin Present
  BY <1>2 DEF Carriers
<1>4. \A x : Sending(x) => (x \in Present' <=> (x \in Present /\ x # c) \/ x = d)
  <2>1. UnderWay(c)' = 0 /\ UnderWay(d)' > 0
    BY <1>2, InPresent
  <2>2. ASSUME NEW x, Sending(x), x # c, x # d PROVE UnderWay(x)' = UnderWay(x)
    <3>1. UnderWay(x)' = UnderWay(x) - 0 + 0 /\ UnderWay(x) \in Nat
      BY <2>2, InPresent
    <3> QED
      BY <3>1
  <2>3. ASSUME NEW x, Sending(x), x # c, x # d PROVE x \in Present' <=> x \in Present
    <3>1. UnderWay(x)' = UnderWay(x)
      BY <2>2, <2>3
    <3>2. (x \in Present <=> UnderWay(x) > 0) /\ (x \in Present' <=> UnderWay(x)' > 0)
      BY InPresent
    <3> QED
      BY <3>1, <3>2
  <2>4. c \notin Present' /\ d \in Present'
    <3>1. (c \in Present' <=> UnderWay(c)' > 0) /\ (d \in Present' <=> UnderWay(d)' > 0)
      BY InPresent
    <3> QED
      BY <2>1, <3>1
  <2> QED
    BY <2>3, <2>4
<1>5. UnderWay(d)' = 1
  BY <1>3, InPresent
<1>6. Carriers(k)' = {d}
  BY <1>2, <1>4 DEF Carriers
<1>7. ASSUME NEW n \in Sends, n # k PROVE Carriers(n)' = Carriers(n)
  BY <1>4, <1>7 DEF Carriers
<1>8. \A x \in Present' : Sending(x) => x.arg[2] \in Sends
  BY <1>1, <1>4 DEF CarrierInv
<1>9. \A n \in Sends : n # k => \A x \in Carriers(n) : UnderWay(x)' = UnderWay(x)
  <2>1. \A n : n # k => \A x \in Carriers(n) : Sending(x) /\ x \in Present /\ x # c
    BY DEF Carriers
  <2> QED
    BY <1>3, <2>1, InPresent
<1>10. \A n \in Sends : \A x, y \in Carriers(n)' : x = y /\ UnderWay(x)' = 1
  <2>1. ASSUME NEW n \in Sends, n # k, NEW x \in Carriers(n)', NEW y \in Carriers(n)'
        PROVE  x = y /\ UnderWay(x)' = 1
    BY <1>7, <1>9, <2>1 DEF CarrierInv
  <2> QED
    BY <1>5, <1>6, <2>1
<1>11. \A n \in Sends : \A x \in Carriers(n)' : x.op = "chatSent" => exchange'[n].sender = "ok"
  BY <1>6, <1>7 DEF CarrierInv, Lasting
<1>12. CarrierInv'
  BY <1>8, <1>10, <1>11 DEF CarrierInv
<1> QED
  BY <1>1, <1>7, <1>12

-----------------------------------------------------------------------------
(* Ticks: the reports of completed transfers.                              *)

\* A report is a copy of a message.
LEMMA ReportsIn ==
  ASSUME NEW B, IsABag(B)
  PROVE  \A p : p \in Reports(B) <=> \E m, k : p = <<m, k>> /\ Success(m) /\ k \in 1..Copies(m, B)
<1>1. \A m : m \notin BagToSet(B) => Copies(m, B) = 0
  BY DEF Copies
<1> QED
  BY <1>1 DEF Reports

\* Bags with the same copies of successes have the same reports.
LEMMA SameReports ==
  ASSUME NEW B, IsABag(B), NEW D, IsABag(D), \A x : Success(x) => Copies(x, D) = Copies(x, B)
  PROVE  Reports(D) = Reports(B)
<1>1. \A p : p \in Reports(D) <=> p \in Reports(B)
  BY ReportsIn
<1> QED
  BY <1>1

\* One copy more is one report more.
LEMMA OneReport ==
  ASSUME NEW B, IsABag(B), NEW D, IsABag(D), NEW r, Success(r),
         \A x : Success(x) => Copies(x, D) = Copies(x, B) + (IF x = r THEN 1 ELSE 0)
  PROVE  /\ Reports(B) \subseteq Reports(D)
         /\ IsFiniteSet(Reports(B)) => /\ IsFiniteSet(Reports(D))
                                       /\ Cardinality(Reports(D)) = Cardinality(Reports(B)) + 1
<1> DEFINE k == Copies(r, B) + 1
<1>1. \A x : Copies(x, B) \in Nat
  BY CopiesNat
<1>2. Copies(r, D) = k
  OBVIOUS
<1>3. \A i : i \in 1..k <=> i \in 1..Copies(r, B) \/ i = k
  BY <1>1
<1>4. <<r, k>> \notin Reports(B)
  <2>1. k \notin 1..Copies(r, B)
    BY <1>1
  <2> HIDE DEF k
  <2> QED
    BY <2>1, ReportsIn
<1> HIDE DEF k
<1>5. ASSUME NEW m, NEW i
      PROVE  Success(m) /\ i \in 1..Copies(m, D) <=> (Success(m) /\ i \in 1..Copies(m, B)) \/ (m = r /\ i = k)
  <2>1. CASE m = r
    BY <1>2, <1>3, <2>1
  <2>2. CASE m # r
    <3>1. Success(m) => Copies(m, D) = Copies(m, B)
      BY <1>1, <2>2
    <3> QED
      BY <2>2, <3>1
  <2> QED
    BY <2>1, <2>2
<1>6. Reports(D) = Reports(B) \cup {<<r, k>>}
  <2>1. \A p : p \in Reports(D) <=> \E m, i : p = <<m, i>> /\ Success(m) /\ i \in 1..Copies(m, D)
    BY ReportsIn
  <2>2. \A p : p \in Reports(B) <=> \E m, i : p = <<m, i>> /\ Success(m) /\ i \in 1..Copies(m, B)
    BY ReportsIn
  <2>3. \A p : p \in Reports(D) <=> p \in Reports(B) \/ p = <<r, k>>
    BY <1>5, <2>1, <2>2
  <2> QED
    BY <2>3
<1> QED
  BY <1>4, <1>6, FS_AddElement

-----------------------------------------------------------------------------
(* Ticks: the steps.                                                       *)

\* What was told stays told.
LEMMA ToldLasts ==
  ASSUME Lasting, \A n \in Sends : exchange[n].sender = "ok" /\ Carriers(n) = {} => Carriers(n)' = {}
  PROVE  Told \subseteq Told'
BY DEF Lasting, Told, Acknowledged

\* A step that ticks nothing, tells no less and reports what was completed.
LEMMA KeepTicks ==
  ASSUME TickInv, IsApp(app'), CarrierInv', IsFiniteSet(Acknowledged'), Told \subseteq Told',
         Ticked(app') \subseteq Ticked(app), finished' \in Nat, IsFiniteSet(Reports(msgs')),
         Cardinality(Ended(app')) + Cardinality(Reports(msgs')) <= finished'
  PROVE  TickInv'
<1>1. IsFiniteSet(Told') /\ Cardinality(Told') \in Nat
  BY FS_Subset, FS_CardinalityType DEF Told
<1>2. Cardinality(Told) <= Cardinality(Told') /\ Cardinality(Told) \in Nat
  BY <1>1, FS_Subset, FS_CardinalityType
<1>3. /\ IsFiniteSet(Ticked(app)) /\ Cardinality(Ticked(app)) \in Nat
      /\ Cardinality(Ticked(app)) <= Cardinality(Told)
  BY Marks DEF TickInv
<1>4. Cardinality(Ticked(app')) <= Cardinality(Ticked(app)) /\ Cardinality(Ticked(app')) \in Nat
  BY <1>3, FS_Subset, FS_CardinalityType
<1>5. Cardinality(Ticked(app')) <= Cardinality(Told')
  BY <1>1, <1>2, <1>3, <1>4
<1> QED
  BY <1>5 DEF TickInv

\* Steps that neither carry nor report anything.
LEMMA QuietTicks ==
  ASSUME BagsOK, BagsOK', TickInv, app' = app, finished' = finished, Lasting, IsFiniteSet(Acknowledged'),
         \A x : Sending(x) => UnderWay(x)' = UnderWay(x),
         \A x : Success(x) => Copies(x, msgs') = Copies(x, msgs)
  PROVE  TickInv'
<1>1. CarrierInv' /\ \A n \in Sends : Carriers(n)' = Carriers(n)
  BY QuietCarriers DEF TickInv
<1>2. Told \subseteq Told'
  BY <1>1, ToldLasts
<1>3. Reports(msgs') = Reports(msgs)
  BY SameReports DEF BagsOK
<1> QED
  BY <1>1, <1>2, <1>3, KeepTicks DEF TickInv

\* Nothing changes in the streams of the sends.
LEMMA SameSends ==
  ASSUME TickInv, exchange' = exchange
  PROVE  Lasting /\ IsFiniteSet(Acknowledged') /\ Acknowledged' = Acknowledged
BY DEF Lasting, Acknowledged, TickInv

\* A key sends at most a message of a number that nothing carries.
LEMMA PressTicks ==
  ASSUME BagsOK, BagsOK', TickInv, Press
  PROVE  TickInv'
<1>1. PICK k \in mix.keys, x \in Peers \cup Sends :
        /\ IF app.screen = "Chat" /\ k = "enter" THEN x \in Sends /\ Fresh(x)
           ELSE IF app.screen = "AddContact" /\ k = "enter" THEN x \in Peers
           ELSE x = CHOOSE a \in Peers : TRUE
        /\ Becomes(handleKey(app, k, x))
  BY DEF Press
<1> DEFINE do == handleKey(app, k, x).do
<1>2. /\ app' = handleKey(app, k, x).app /\ cmds' = cmds (+) SetToBag(do)
      /\ msgs' = msgs /\ exchange' = exchange /\ finished' = finished
  BY <1>1 DEF Press, Becomes, outside, chat
<1>3. \A c \in do : c.op \in SendOps =>
        app.screen = "Chat" /\ k = "enter" /\ do = {Cmd("ChatSend", <<app.chat, x>>)}
  BY KeySends
<1>4. IsApp(app') /\ Ticked(app') \subseteq Ticked(app) /\ Ended(app') = Ended(app)
  BY <1>2, KeyLooks DEF TickInv
<1> HIDE DEF do
<1>5. \A y : UnderWay(y)' = UnderWay(y) + (IF y \in do THEN 1 ELSE 0)
  BY <1>2, AddCopies, CopiesNat DEF UnderWay, BagsOK
<1>6. Lasting /\ IsFiniteSet(Acknowledged') /\ CarrierInv
  BY <1>2, SameSends DEF TickInv
<1>7. CarrierInv' /\ Told \subseteq Told'
  <2>1. CASE \A c \in do : c.op \notin SendOps
    <3>1. \A y : Sending(y) => UnderWay(y)' = UnderWay(y)
      BY <1>5, <2>1, InPresent DEF Sending
    <3>2. CarrierInv' /\ \A n \in Sends : Carriers(n)' = Carriers(n)
      BY <1>6, <3>1, QuietCarriers
    <3> QED
      BY <1>6, <3>2, ToldLasts
  <2>2. CASE \E c \in do : c.op \in SendOps
    <3> DEFINE d == Cmd("ChatSend", <<app.chat, x>>)
    <3>1. do = {d} /\ x \in Sends /\ Fresh(x)
      BY <1>1, <1>3, <2>2
    <3>2. d.op = "ChatSend" /\ d.arg[2] = x /\ Sending(d)
      BY DEF Cmd, Sending, SendOps
    <3> HIDE DEF d
    <3>3. exchange[x].sender = "idle"
      BY <3>1 DEF Fresh
    <3>4. Carriers(x) = {}
      <4>1. \A c \in Carriers(x) : c.op = "chatSent"
        BY <3>1 DEF Carriers, Fresh, Present, Sending, SendOps
      <4> QED
        BY <1>6, <3>1, <3>3, <4>1 DEF CarrierInv
    <3>5. \A y : Sending(y) => UnderWay(y)' = UnderWay(y) + (IF y = d THEN 1 ELSE 0)
      BY <1>5, <3>1
    <3>6. CarrierInv' /\ \A n \in Sends : n # x => Carriers(n)' = Carriers(n)
      BY <1>6, <3>1, <3>2, <3>4, <3>5, AddCarrier
    <3> QED
      BY <1>6, <3>3, <3>6, ToldLasts
  <2> QED
    BY <2>1, <2>2
<1> QED
  BY <1>2, <1>4, <1>6, <1>7, KeepTicks DEF TickInv

\* Update passes a send on, and draws the tick of the one number that its message
\* carried or ends the one transfer that its message reports.
LEMMA UpdateTicks ==
  ASSUME BagsOK, BagsOK', TickInv, UpdateApp
  PROVE  TickInv'
<1>1. PICK m \in BagToSet(msgs) : Becomes(Update(app, m)) /\ msgs' = msgs (-) SetToBag({m})
  BY DEF UpdateApp
<1> DEFINE do == Update(app, m).do
<1>2. /\ app' = Update(app, m).app /\ cmds' = cmds (+) SetToBag(do)
      /\ exchange' = exchange /\ finished' = finished
  BY <1>1 DEF UpdateApp, Becomes, chat, history
<1>3. \A y : /\ Copies(y, cmds') = Copies(y, cmds) + (IF y \in do THEN 1 ELSE 0)
             /\ Copies(y, msgs') = Copies(y, msgs) - (IF y = m THEN 1 ELSE 0)
             /\ Copies(y, cmds) \in Nat /\ Copies(y, msgs) \in Nat
  BY <1>1, <1>2, AddCopies, TakeCopy, CopiesNat DEF BagsOK
<1>4. \A c \in do : c.op \in SendOps => m.op = "ChatSend"
  BY UpdateSends
<1>5. m.op = "ChatSend" => do = {Cmd("sendChat", m.arg)}
  BY DEF Update, chatSend, Result
<1>6. /\ IsApp(app')
      /\ \/ Looks(app', app)
         \/ /\ m.op = "chatSent" /\ m.arg # <<>> /\ Ended(app') = Ended(app)
            /\ \E i : Ticked(app') \subseteq Ticked(app) \cup {i}
         \/ /\ Success(m) /\ Ticked(app') = Ticked(app)
            /\ \E i : Ended(app') \subseteq Ended(app) \cup {i}
  BY <1>2, UpdateLooks DEF TickInv
<1> HIDE DEF do
<1>7. Lasting /\ IsFiniteSet(Acknowledged') /\ CarrierInv
  BY <1>2, SameSends DEF TickInv
<1>8. m \in Present
  BY <1>1 DEF Present
<1>9. \A y : UnderWay(y)' = UnderWay(y) + (IF y \in do THEN 1 ELSE 0) - (IF y = m THEN 1 ELSE 0)
  BY <1>3 DEF UnderWay
<1>10. ASSUME NEW n \in Nat, Cardinality(Ended(app')) + n <= Cardinality(Ended(app)) + Cardinality(Reports(msgs)),
              n = Cardinality(Reports(msgs'))
       PROVE  Cardinality(Ended(app')) + Cardinality(Reports(msgs')) <= finished'
  <2>1. /\ Cardinality(Ended(app')) \in Nat /\ Cardinality(Ended(app)) \in Nat
        /\ Cardinality(Reports(msgs)) \in Nat /\ finished \in Nat
        /\ Cardinality(Ended(app)) + Cardinality(Reports(msgs)) <= finished
    BY <1>6, Marks, FS_CardinalityType DEF TickInv
  <2> QED
    BY <1>2, <1>10, <2>1
<1>11. /\ IsFiniteSet(Reports(msgs'))
       /\ Cardinality(Ended(app')) + Cardinality(Reports(msgs')) <= finished'
  <2>1. IsFiniteSet(Reports(msgs)) /\ Cardinality(Reports(msgs)) \in Nat /\ IsABag(msgs) /\ IsABag(msgs')
    BY FS_CardinalityType DEF TickInv, BagsOK
  <2>2. CASE Success(m)
    <3>1. \A y : Success(y) => Copies(y, msgs) = Copies(y, msgs') + (IF y = m THEN 1 ELSE 0)
      BY <1>3
    <3>2. /\ Reports(msgs') \subseteq Reports(msgs)
          /\ IsFiniteSet(Reports(msgs')) => Cardinality(Reports(msgs)) = Cardinality(Reports(msgs')) + 1
      BY <2>1, <2>2, <3>1, OneReport
    <3>3. IsFiniteSet(Reports(msgs')) /\ Cardinality(Reports(msgs')) \in Nat
      BY <2>1, <3>2, FS_Subset, FS_CardinalityType
    <3>4. IsFiniteSet(Ended(app)) /\ Cardinality(Ended(app)) \in Nat
      BY Marks DEF TickInv
    <3>5. PICK i : Ended(app') \subseteq Ended(app) \cup {i}
      BY <1>6 DEF Looks
    <3>6. Cardinality(Ended(app')) <= Cardinality(Ended(app)) + 1 /\ Cardinality(Ended(app')) \in Nat
      BY <3>4, <3>5, OneMore
    <3> QED
      BY <1>10, <2>1, <3>2, <3>3, <3>4, <3>6
  <2>3. CASE ~Success(m)
    <3>1. Reports(msgs') = Reports(msgs)
      <4>1. \A y : Success(y) => Copies(y, msgs') = Copies(y, msgs)
        BY <1>3, <2>3
      <4> QED
        BY <2>1, <4>1, SameReports
    <3>2. Ended(app') = Ended(app)
      BY <1>6, <2>3 DEF Looks
    <3>3. Cardinality(Ended(app)) \in Nat
      BY Marks DEF TickInv
    <3> QED
      BY <1>10, <2>1, <3>1, <3>2, <3>3
  <2> QED
    BY <2>2, <2>3
<1>12. CASE m.op = "chatSent" /\ m.arg # <<>>
  <2> DEFINE n == m.arg[2]
  <2>1. Sending(m) /\ \A y : Sending(y) => y \notin do
    BY <1>4, <1>12 DEF Sending, SendOps
  <2>2. \A y : Sending(y) => UnderWay(y)' = UnderWay(y) - (IF y = m THEN 1 ELSE 0)
    BY <1>9, <2>1, InPresent
  <2>3. /\ CarrierInv' /\ n \in Sends /\ m \in Carriers(n) /\ Carriers(n)' = {}
        /\ \A k \in Sends : k # n => Carriers(k)' = Carriers(k)
    BY <1>7, <1>8, <2>1, <2>2, DropCarrier
  <2> HIDE DEF n
  <2>4. exchange[n].sender = "ok"
    BY <1>7, <1>12, <2>3 DEF CarrierInv
  <2>5. n \in Told' /\ n \notin Told /\ Told \subseteq Told'
    BY <1>2, <2>3, <2>4 DEF Told, Acknowledged
  <2>6. IsFiniteSet(Told') /\ IsFiniteSet(Told)
    BY <1>7, FS_Subset DEF Told, TickInv
  <2>7. Cardinality(Told) + 1 <= Cardinality(Told') /\ Cardinality(Told) \in Nat /\ Cardinality(Told') \in Nat
    <3>1. IsFiniteSet(Told \cup {n}) /\ Cardinality(Told \cup {n}) = Cardinality(Told) + 1
      BY <2>5, <2>6, FS_AddElement
    <3>2. Cardinality(Told \cup {n}) <= Cardinality(Told')
      BY <2>5, <2>6, FS_Subset
    <3> QED
      BY <2>6, <3>1, <3>2, FS_CardinalityType
  <2>8. PICK i : Ticked(app') \subseteq Ticked(app) \cup {i}
    BY <1>6 DEF Looks
  <2>9. /\ IsFiniteSet(Ticked(app)) /\ Cardinality(Ticked(app)) \in Nat
        /\ Cardinality(Ticked(app)) <= Cardinality(Told)
    BY Marks DEF TickInv
  <2>10. Cardinality(Ticked(app')) <= Cardinality(Ticked(app)) + 1 /\ Cardinality(Ticked(app')) \in Nat
    BY <2>8, <2>9, OneMore
  <2>11. Cardinality(Ticked(app')) <= Cardinality(Told')
    BY <2>7, <2>9, <2>10
  <2> QED
    BY <1>2, <1>6, <1>7, <1>11, <2>3, <2>11 DEF TickInv
<1>13. CASE ~(m.op = "chatSent" /\ m.arg # <<>>)
  <2>1. Ticked(app') \subseteq Ticked(app)
    BY <1>6, <1>13 DEF Looks
  <2>2. CarrierInv' /\ \A n \in Sends : Carriers(n) = {} => Carriers(n)' = {}
    <3>1. CASE m.op = "ChatSend" /\ m.arg # <<>>
      <4> DEFINE d == Cmd("sendChat", m.arg)
      <4>1. d.op = "sendChat" /\ d.arg = m.arg /\ Sending(d) /\ Sending(m) /\ do = {d} /\ d # m
        BY <1>5, <3>1, CmdFields DEF Sending, SendOps
      <4> HIDE DEF d
      <4>2. \A y : Sending(y) => UnderWay(y)' = UnderWay(y) - (IF y = m THEN 1 ELSE 0) + (IF y = d THEN 1 ELSE 0)
        BY <1>9, <4>1, InPresent
      <4> QED
        BY <1>7, <1>8, <4>1, <4>2, MoveCarrier
    <3>2. CASE ~(m.op = "ChatSend" /\ m.arg # <<>>)
      <4>1. \A y : Sending(y) => y \notin do
        BY <1>4, <1>5, <3>2, CmdFields DEF Sending
      <4>2. CASE Sending(m)
        <5>1. \A y : Sending(y) => UnderWay(y)' = UnderWay(y) - (IF y = m THEN 1 ELSE 0)
          BY <1>9, <4>1, InPresent
        <5>2. /\ CarrierInv' /\ Carriers(m.arg[2])' = {}
              /\ \A n \in Sends : n # m.arg[2] => Carriers(n)' = Carriers(n)
          BY <1>7, <1>8, <4>2, <5>1, DropCarrier
        <5> QED
          BY <5>2
      <4>3. CASE ~Sending(m)
        <5>1. \A y : Sending(y) => UnderWay(y)' = UnderWay(y)
          BY <1>9, <4>1, <4>3, InPresent
        <5> QED
          BY <1>7, <5>1, QuietCarriers
      <4> QED
        BY <4>2, <4>3
    <3> QED
      BY <3>1, <3>2
  <2>3. Told \subseteq Told'
    BY <1>7, <2>2, ToldLasts
  <2> QED
    BY <1>2, <1>6, <1>7, <1>11, <2>1, <2>2, <2>3, KeepTicks DEF TickInv
<1> QED
  BY <1>12, <1>13

\* A command that ends: what it leaves under way.
LEMMA ReturnsTicks ==
  ASSUME BagsOK, BagsOK', TickInv, NEW c, NEW ms, Returns(c, ms), exchange' = exchange, finished' = finished,
         \A m \in ms : ~Success(m), \A x : Sending(x) => UnderWay(x)' = UnderWay(x)
  PROVE  TickInv'
<1>1. \A x : /\ Copies(x, msgs') = Copies(x, msgs) + (IF x \in ms THEN 1 ELSE 0)
             /\ Copies(x, msgs) \in Nat
  BY ReturnsCopies
<1>2. \A x : Success(x) => Copies(x, msgs') = Copies(x, msgs)
  BY <1>1
<1>3. app' = app
  BY DEF Returns
<1>4. Lasting /\ IsFiniteSet(Acknowledged')
  BY SameSends
<1> QED
  BY <1>2, <1>3, <1>4, QuietTicks

\* Commands that send no message and report no transfer.
LEMMA OtherTicks ==
  ASSUME BagsOK, BagsOK', TickInv, NEW c, NEW ms, Returns(c, ms), exchange' = exchange, finished' = finished,
         c.op \notin SendOps, \A m \in ms : m.op \notin SendOps \cup {"fileSendDone"}
  PROVE  TickInv'
<1>1. \A x : /\ Copies(x, cmds') = Copies(x, cmds) - (IF x = c THEN 1 ELSE 0)
             /\ Copies(x, msgs') = Copies(x, msgs) + (IF x \in ms THEN 1 ELSE 0)
             /\ Copies(x, cmds) \in Nat /\ Copies(x, msgs) \in Nat
  BY ReturnsCopies
<1>2. \A x : Sending(x) => UnderWay(x)' = UnderWay(x)
  BY <1>1 DEF UnderWay, Sending
<1>3. \A m \in ms : ~Success(m)
  BY DEF Success
<1> QED
  BY <1>2, <1>3, ReturnsTicks

\* A screen's message is under way all the same.
LEMMA EmitTicks ==
  ASSUME BagsOK, BagsOK', TickInv, NEW c, emit(c), exchange' = exchange, finished' = finished
  PROVE  TickInv'
<1>1. Returns(c, {c}) /\ c.op # "fileSendDone"
  BY DEF emit
<1>2. \A x : /\ Copies(x, cmds') = Copies(x, cmds) - (IF x = c THEN 1 ELSE 0)
             /\ Copies(x, msgs') = Copies(x, msgs) + (IF x \in {c} THEN 1 ELSE 0)
             /\ Copies(x, cmds) \in Nat /\ Copies(x, msgs) \in Nat
  BY <1>1, ReturnsCopies
<1>3. \A x : UnderWay(x)' = UnderWay(x)
  BY <1>2 DEF UnderWay
<1>4. \A m \in {c} : ~Success(m)
  BY <1>1 DEF Success
<1> QED
  BY <1>1, <1>3, <1>4, ReturnsTicks

\* A send that ends hands its number to the message only when it was acknowledged.
LEMMA SendTicks ==
  ASSUME BagsOK, BagsOK', TickInv, NEW c, SendReturns(c)
  PROVE  TickInv'
<1> DEFINE ok == exchange[c.arg[2]].sender = "ok" /\ Reachable
           r == Cmd("chatSent", IF ok THEN c.arg ELSE <<>>)
           ms == {r}
<1>1. c.op = "sendChat" /\ Returns(c, ms) /\ exchange' = exchange /\ finished' = finished /\ app' = app
  BY DEF SendReturns, outside, chat, Returns
<1>2. r.op = "chatSent" /\ r.arg = (IF ok THEN c.arg ELSE <<>>) /\ ~Success(r)
  BY DEF Cmd, Success
<1>3. ok => exchange[c.arg[2]].sender = "ok"
  OBVIOUS
<1> HIDE DEF r, ok
<1>4. \A x : /\ Copies(x, cmds') = Copies(x, cmds) - (IF x = c THEN 1 ELSE 0)
             /\ Copies(x, msgs') = Copies(x, msgs) + (IF x \in ms THEN 1 ELSE 0)
             /\ Copies(x, cmds) \in Nat /\ Copies(x, msgs) \in Nat
  BY <1>1, ReturnsCopies
<1>5. \A x : UnderWay(x)' = UnderWay(x) - (IF x = c THEN 1 ELSE 0) + (IF x = r THEN 1 ELSE 0)
  BY <1>4 DEF UnderWay
<1>6. Lasting /\ IsFiniteSet(Acknowledged') /\ CarrierInv /\ c \in Present
  <2>1. c \in BagToSet(cmds)
    BY <1>1, ReturnsCopies
  <2> QED
    BY <1>1, <2>1, SameSends DEF TickInv, Present
<1>7. CarrierInv' /\ \A n \in Sends : Carriers(n) = {} => Carriers(n)' = {}
  <2>1. CASE c.arg = <<>>
    <3>1. ~Sending(c) /\ ~Sending(r)
      BY <1>2, <2>1 DEF Sending
    <3>2. \A x : Sending(x) => UnderWay(x)' = UnderWay(x)
      BY <1>5, <3>1, InPresent
    <3> QED
      BY <1>6, <3>2, QuietCarriers
  <2>2. CASE c.arg # <<>> /\ ok
    <3>1. Sending(c) /\ Sending(r) /\ r # c /\ r.arg = c.arg
      BY <1>1, <1>2, <2>2 DEF Sending, SendOps
    <3>2. exchange'[c.arg[2]].sender = "ok"
      BY <1>1, <1>3, <2>2
    <3> QED
      BY <1>5, <1>6, <3>1, <3>2, MoveCarrier
  <2>3. CASE c.arg # <<>> /\ ~ok
    <3>1. Sending(c) /\ ~Sending(r)
      BY <1>1, <1>2, <2>3 DEF Sending, SendOps
    <3>2. \A x : Sending(x) => UnderWay(x)' = UnderWay(x) - (IF x = c THEN 1 ELSE 0)
      BY <1>5, <3>1, InPresent
    <3>3. /\ CarrierInv' /\ Carriers(c.arg[2])' = {}
          /\ \A n \in Sends : n # c.arg[2] => Carriers(n)' = Carriers(n)
      BY <1>6, <3>1, <3>2, DropCarrier
    <3> QED
      BY <3>3
  <2> QED
    BY <2>1, <2>2, <2>3
<1>8. Told \subseteq Told'
  BY <1>6, <1>7, ToldLasts
<1>9. Reports(msgs') = Reports(msgs)
  <2>1. \A x : Success(x) => Copies(x, msgs') = Copies(x, msgs)
    BY <1>2, <1>4
  <2> QED
    BY <2>1, SameReports DEF BagsOK
<1> QED
  BY <1>1, <1>6, <1>7, <1>8, <1>9, KeepTicks DEF TickInv

\* A transfer that completes is counted before it is reported.
LEMMA FileTicks ==
  ASSUME BagsOK, BagsOK', TickInv, NEW c, sendFile(c)
  PROVE  TickInv'
<1>1. PICK ok \in BOOLEAN : /\ finished' = finished + (IF ok THEN 1 ELSE 0)
                            /\ Returns(c, {Cmd("fileSendDone", IF ok THEN c.arg ELSE <<>>)})
  BY DEF sendFile
<1> DEFINE r == Cmd("fileSendDone", IF ok THEN c.arg ELSE <<>>)
           ms == {r}
<1>2. c.op = "sendFile" /\ Returns(c, ms) /\ exchange' = exchange /\ app' = app
  BY <1>1 DEF sendFile, outside, chat, Returns
<1>3. r.op = "fileSendDone" /\ (Success(r) => ok)
  BY DEF Cmd, Success
<1> HIDE DEF r
<1>4. \A x : /\ Copies(x, cmds') = Copies(x, cmds) - (IF x = c THEN 1 ELSE 0)
             /\ Copies(x, msgs') = Copies(x, msgs) + (IF x \in ms THEN 1 ELSE 0)
             /\ Copies(x, cmds) \in Nat /\ Copies(x, msgs) \in Nat
  BY <1>2, ReturnsCopies
<1>5. \A x : Sending(x) => UnderWay(x)' = UnderWay(x)
  BY <1>2, <1>3, <1>4 DEF UnderWay, Sending, SendOps
<1>6. Lasting /\ IsFiniteSet(Acknowledged') /\ CarrierInv
  BY <1>2, SameSends DEF TickInv
<1>7. CarrierInv' /\ Told \subseteq Told'
  <2>1. CarrierInv' /\ \A n \in Sends : Carriers(n)' = Carriers(n)
    BY <1>5, <1>6, QuietCarriers
  <2> QED
    BY <1>6, <2>1, ToldLasts
<1>8. /\ Cardinality(Ended(app)) \in Nat /\ finished \in Nat
      /\ IsFiniteSet(Reports(msgs)) /\ Cardinality(Reports(msgs)) \in Nat
      /\ Cardinality(Ended(app)) + Cardinality(Reports(msgs)) <= finished
  BY Marks, FS_CardinalityType DEF TickInv
<1>9. /\ finished' \in Nat /\ IsFiniteSet(Reports(msgs'))
      /\ Cardinality(Ended(app')) + Cardinality(Reports(msgs')) <= finished'
  <2>1. CASE Success(r)
    <3>1. \A x : Success(x) => Copies(x, msgs') = Copies(x, msgs) + (IF x = r THEN 1 ELSE 0)
      BY <1>4
    <3>2. IsFiniteSet(Reports(msgs')) /\ Cardinality(Reports(msgs')) = Cardinality(Reports(msgs)) + 1
      BY <1>8, <2>1, <3>1, OneReport DEF BagsOK
    <3> QED
      BY <1>1, <1>2, <1>3, <1>8, <2>1, <3>2
  <2>2. CASE ~Success(r)
    <3>1. \A x : Success(x) => Copies(x, msgs') = Copies(x, msgs)
      BY <1>4, <2>2
    <3>2. Reports(msgs') = Reports(msgs)
      BY <3>1, SameReports DEF BagsOK
    <3> QED
      BY <1>1, <1>2, <1>8, <3>2
  <2> QED
    BY <2>1, <2>2
<1> QED
  BY <1>2, <1>6, <1>7, <1>9, KeepTicks DEF TickInv

\* A step of the streams acknowledges one send at most and takes nothing back.
LEMMA StreamTicks ==
  ASSUME BagsOK, BagsOK', TickInv, UNCHANGED <<app, cmds, msgs, finished>>,
         NEW n, \A k \in Sends : k # n => exchange'[k].sender = exchange[k].sender,
         n \in Sends /\ exchange[n].sender = "ok" => exchange'[n].sender = "ok"
  PROVE  TickInv'
<1>1. Lasting
  BY DEF Lasting
<1>2. Acknowledged' \subseteq Acknowledged \cup {n}
  BY DEF Acknowledged
<1>3. IsFiniteSet(Acknowledged')
  BY <1>2, OneMore DEF TickInv
<1>4. \A x : UnderWay(x)' = UnderWay(x) /\ Copies(x, msgs') = Copies(x, msgs)
  BY DEF UnderWay
<1>5. app' = app /\ finished' = finished
  OBVIOUS
<1> QED
  BY <1>1, <1>3, <1>4, <1>5, QuietTicks

\* Steps that change nothing a tick depends on.
LEMMA OutsideTicks ==
  ASSUME BagsOK, BagsOK', TickInv, UNCHANGED <<app, cmds, msgs, finished, exchange>>
  PROVE  TickInv'
<1>1. Lasting /\ IsFiniteSet(Acknowledged')
  BY SameSends
<1>2. \A x : UnderWay(x)' = UnderWay(x) /\ Copies(x, msgs') = Copies(x, msgs)
  BY DEF UnderWay
<1>3. app' = app /\ finished' = finished
  OBVIOUS
<1> QED
  BY <1>1, <1>2, <1>3, QuietTicks

\* The streams of the sends, each in its step.
LEMMA ExchangeTicks ==
  ASSUME BagsOK, BagsOK', ExchangesOK, TickInv, UNCHANGED <<app, cmds, msgs, finished>>, NEW n,
         \/ n \in Sends /\ (WriteText(n) \/ PeerIngests(n) \/ PeerReturns(n) \/ ReadAck(n) \/ AckTimeout(n))
         \/ \E a, ok : SendMessage(n, a, ok)
  PROVE  TickInv'
<1>1. \A k \in Sends : exchange[k] = [to |-> exchange[k].to, sender |-> exchange[k].sender,
                                      peer |-> exchange[k].peer, ack |-> exchange[k].ack]
  BY DEF ExchangesOK
<1>2. DOMAIN exchange = Sends
  BY DEF ExchangesOK
<1>3. \A k \in Sends : k # n => exchange'[k] = exchange[k]
  BY <1>2 DEF WriteText, PeerIngests, PeerReturns, ReadAck, AckTimeout, SendMessage
<1>4. n \in Sends /\ exchange[n].sender = "ok" => exchange'[n].sender = "ok"
  BY <1>1, <1>2 DEF WriteText, PeerIngests, PeerReturns, ReadAck, AckTimeout, SendMessage
<1> QED
  BY <1>3, <1>4, StreamTicks

\* One case per command.
LEMMA CommandTicks ==
  ASSUME BagsOK, BagsOK', ExchangesOK, TickInv, NEW c, RunCmd(c)
  PROVE  TickInv'
<1> DEFINE Other == /\ exchange' = exchange /\ finished' = finished /\ c.op \notin SendOps
                    /\ \E ms : Returns(c, ms) /\ \A m \in ms : m.op \notin SendOps \cup {"fileSendDone"}
<1>1. CASE Other
  BY <1>1, OtherTicks
<1>2. CASE Query(c)
  <2>1. exchange' = exchange /\ finished' = finished
    BY <1>2 DEF Query, outside, chat
  <2>2. CASE emit(c)
    BY <2>1, <2>2, EmitTicks
  <2>3. CASE loadIdentity(c)
    BY <1>1, <2>1, <2>3, CmdFields DEF loadIdentity, SendOps
  <2>4. CASE loadStatus(c)
    BY <1>1, <2>1, <2>4, CmdFields DEF loadStatus, SendOps
  <2>5. CASE loadContacts(c)
    BY <1>1, <2>1, <2>5, CmdFields DEF loadContacts, SendOps
  <2>6. CASE loadDebugInfo(c) \/ tick(c)
    BY <1>1, <2>1, <2>6, CmdFields DEF loadDebugInfo, tick, SendOps
  <2> QED
    BY <1>2, <2>2, <2>3, <2>4, <2>5, <2>6 DEF Query
<1>3. CASE Decide(c) \/ DecideFile(c)
  BY <1>1, <1>3, CmdFields DEF Decide, DecideFile, FileDecisionDone, SendOps, chat
<1>4. CASE saveContact(c)
  BY <1>1, <1>4, CmdFields DEF saveContact, SendOps, chat
<1>5. CASE saveNode(c)
  BY <1>1, <1>5, CmdFields DEF saveNode, SendOps, outside, chat
<1>6. CASE sendFile(c)
  BY <1>6, FileTicks
<1>7. CASE sendChatMessage(c)
  <2>1. UNCHANGED <<app, cmds, msgs, finished>> /\ \E a, ok : SendMessage(c.arg[2], a, ok)
    BY <1>7 DEF sendChatMessage, history
  <2> QED
    BY <2>1, ExchangeTicks
<1>8. CASE SendReturns(c)
  BY <1>8, SendTicks
<1>9. CASE subscribeEvents(c)
  BY <1>1, <1>9, CmdFields DEF subscribeEvents, SendOps, chat
<1>10. CASE waitForEvent(c)
  BY <1>1, <1>10, CmdFields DEF waitForEvent, SendOps, chat
<1> QED
  BY <1>2, <1>3, <1>4, <1>5, <1>6, <1>7, <1>8, <1>9, <1>10 DEF RunCmd

\* A decision that lets another call end adds a message that reports nothing.
LEMMA DecidedTicks ==
  ASSUME BagsOK, BagsOK', TickInv, NEW f, OfferDecided(f)
  PROVE  TickInv'
<1>1. UNCHANGED <<app, cmds, finished, exchange>>
  BY DEF OfferDecided, chat
<1>2. PICK ms : msgs' = msgs (+) SetToBag(ms) /\ \A m \in ms : m.op \notin SendOps \cup {"fileSendDone"}
  BY CmdFields DEF OfferDecided, FileDecisionDone, SendOps
<1>3. \A x : Copies(x, msgs') = Copies(x, msgs) + (IF x \in ms THEN 1 ELSE 0) /\ Copies(x, msgs) \in Nat
  BY <1>2, AddCopies, CopiesNat DEF BagsOK
<1>4. \A x : Sending(x) \/ Success(x) => Copies(x, msgs') = Copies(x, msgs)
  BY <1>2, <1>3 DEF Sending, Success
<1>5. Lasting /\ IsFiniteSet(Acknowledged')
  BY <1>1, SameSends
<1>6. \A x : Sending(x) => UnderWay(x)' = UnderWay(x)
  BY <1>1, <1>4 DEF UnderWay
<1> QED
  BY <1>1, <1>4, <1>5, <1>6, QuietTicks

\* Every step keeps the ticks backed.
LEMMA TickStep ==
  ASSUME BagsOK, BagsOK', ExchangesOK, TickInv, [Next]_vars
  PROVE  TickInv'
<1>1. CASE Press
  BY <1>1, PressTicks
<1>2. CASE UpdateApp
  BY <1>2, UpdateTicks
<1>3. CASE RunSomeCmd
  BY <1>3, CommandTicks DEF RunSomeCmd
<1>4. CASE Exchange
  BY <1>4, ExchangeTicks DEF Exchange, history
<1>5. CASE SubscribeAll \/ ForwardEvent \/ SendToStream \/ RecvFromStream \/ BreakStream
  BY <1>5, OutsideTicks
  DEF SubscribeAll, ForwardEvent, SendToStream, RecvFromStream, BreakStream, program, history, chat
<1>6. CASE Quit \/ Panic \/ TorBecomesReady \/ ConnectionRequest
  BY <1>6, OutsideTicks DEF Quit, Panic, TorBecomesReady, ConnectionRequest, outside, program, history, chat
<1>7. CASE OfferArrives \/ OfferExpires \/ MessageArrives \/ PeerOnline \/ RemoveContact
  BY <1>7, OutsideTicks
  DEF OfferArrives, OfferExpires, OfferTimeout, MessageArrives, Ingest, PeerOnline, RemoveContact, program,
      history, chat
<1>8. CASE OfferHandled
  BY <1>8, OutsideTicks, DecidedTicks DEF OfferHandled, OfferForgotten, program, history, chat
<1>9. CASE UNCHANGED vars
  BY <1>9, OutsideTicks DEF vars, chat
<1> QED
  BY <1>1, <1>2, <1>3, <1>4, <1>5, <1>6, <1>7, <1>8, <1>9 DEF Next, System, Environment

\* At the start nothing is ticked, sent or complete.
LEMMA TicksInit ==
  ASSUME Init
  PROVE  TickInv
<1> DEFINE start == {Cmd(op, <<>>) : op \in {"loadIdentity", "loadStatus", "subscribe"}}
<1>1. /\ msgs = EmptyBag /\ finished = 0
      /\ exchange = [n \in Sends |-> [to |-> None, sender |-> "idle", peer |-> "idle", ack |-> None]]
  BY DEF Init, ChatInit
<1>2. PICK S : cmds = SetToBag(S) /\ \A c \in S : c.op \notin SendOps
  <2>1. \A c \in start : c.op \notin SendOps
    BY CmdFields DEF SendOps
  <2>2. \A c \in {Cmd("wait", <<>>)} : c.op \notin SendOps
    BY CmdFields DEF SendOps
  <2>3. cmds = SetToBag(start) \/ cmds = SetToBag({Cmd("wait", <<>>)})
    BY DEF Init
  <2> HIDE DEF start
  <2> QED
    BY <2>1, <2>2, <2>3
<1>3. \A T : BagToSet(SetToBag(T)) = T
  BY DEF SetToBag, BagToSet
<1>4. BagToSet(msgs) = {}
  BY <1>1, <1>3 DEF EmptyBag
<1>5. \A x \in Present : ~Sending(x)
  BY <1>2, <1>3, <1>4 DEF Present, Sending
<1>6. CarrierInv
  BY <1>5 DEF CarrierInv, Carriers
<1>7. Acknowledged = {} /\ Told = {}
  BY <1>1 DEF Acknowledged, Told
<1>8. Reports(msgs) = {}
  BY <1>4 DEF Reports
<1>9. app.lines = <<>> /\ app.items = <<>> /\ {"lines", "items"} \subseteq DOMAIN app
  <2>1. CASE app = NewApp
    BY <2>1 DEF NewApp
  <2>2. CASE \E list : app = [NewApp EXCEPT !.screen = "Home", !.identityReady = TRUE, !.torReady = TRUE,
                                            !.contacts = list, !.eventChan = TRUE]
    BY <2>2 DEF NewApp
  <2> QED
    BY <2>1, <2>2 DEF Init
<1>10. <<>> \in Seq(Lines) /\ <<>> \in Seq(Items) /\ DOMAIN <<>> = {}
  BY EmptySeq
<1>11. IsApp(app) /\ Ticked(app) = {} /\ Ended(app) = {}
  BY <1>9, <1>10 DEF IsApp, Ticked, Ended
<1> QED
  BY <1>1, <1>6, <1>7, <1>8, <1>11, FS_EmptySet DEF TickInv

\* The number of a message has one carrier at a time, which becomes the message that
\* ticks a line only when the peer acknowledged that number, and a completed transfer is
\* counted once before it is reported: whatever the numbers of messages, of transfers and
\* of copies of their reports under way, and whichever chat is on the screen.
THEOREM TickInvariant == Spec => []TickInv
<1>1. Init => TickInv
  BY TicksInit
<1>2. FrontendInv /\ FrontendInv' /\ TickInv /\ [Next]_vars => TickInv'
  BY TickStep DEF FrontendInv, HistoryInv
<1> QED
  BY <1>1, <1>2, FrontendInvariant, PTL DEF Spec

\* The user never sees more ticks than sends were acknowledged nor more transfers
\* complete than completed.
THEOREM TicksTrue == Spec => []TicksBacked
<1>1. TickInv => TicksBacked
  <2> SUFFICES ASSUME TickInv PROVE TicksBacked
    OBVIOUS
  <2>1. Ticks = Cardinality(Ticked(app)) /\ Done = Cardinality(Ended(app))
    BY DEF Ticks, Done, Quantify, Ticked, Ended
  <2>2. Quantify(Sends, LAMBDA n : exchange[n].sender = "ok") = Cardinality(Acknowledged)
    BY DEF Quantify, Acknowledged
  <2>3. Cardinality(Told) <= Cardinality(Acknowledged) /\ Cardinality(Told) \in Nat
        /\ Cardinality(Acknowledged) \in Nat
    BY FS_Subset, FS_CardinalityType DEF TickInv, Told
  <2>4. Cardinality(Ticked(app)) \in Nat /\ Cardinality(Ended(app)) \in Nat
        /\ Cardinality(Reports(msgs)) \in Nat /\ finished \in Nat
    BY Marks, FS_CardinalityType DEF TickInv
  <2>5. Cardinality(Ticked(app)) <= Cardinality(Told)
        /\ Cardinality(Ended(app)) + Cardinality(Reports(msgs)) <= finished
    BY DEF TickInv
  <2>6. Cardinality(Ticked(app)) <= Cardinality(Acknowledged) /\ Cardinality(Ended(app)) <= finished
    BY <2>3, <2>4, <2>5
  <2> QED
    BY <2>1, <2>2, <2>6 DEF TicksBacked
<1> QED
  BY <1>1, TickInvariant, PTL

-----------------------------------------------------------------------------
(* Consent: the prompt of a file shows an offer.                           *)

\* b shows what a shows, or covers no prompt with the one for a file.
Kept(b, a) ==
  /\ DOMAIN b = DOMAIN a /\ b.prev = a.prev /\ b.offer = a.offer
  /\ b.screen = "FileOffer" => "FileOffer" \in {a.screen, a.prev}

\* What is kept stays right.
LEMMA KeptPrompts ==
  ASSUME NEW a, Prompted(a), NEW b, Kept(b, a)
  PROVE  Prompted(b)
BY DEF Prompted, Kept

\* Update shows only offers, those of the events it is given.
LEMMA UpdatePrompts ==
  ASSUME NEW a, Prompted(a), NEW m, m.op = "event" => m.arg[1] \in Events
  PROVE  Prompted(Update(a, m).app)
<1> DEFINE b == Update(a, m).app
<1>1. {"screen", "prev", "offer"} \subseteq DOMAIN a
  BY DEF Prompted
<1>2. Kept(a, a) /\ \A g, do : Result(g, do).app = g
  BY DEF Kept, Result
<1>3. ASSUME NEW c, Kept(c, a), NEW do PROVE Kept(maybeTransition(c, do).app, a)
  <2>1. "screen" \in DOMAIN c
    BY <1>1, <1>3 DEF Kept
  <2>2. maybeTransition(c, do).app = c \/ maybeTransition(c, do).app = [c EXCEPT !.screen = "Home"]
    BY DEF maybeTransition, Result
  <2>3. Kept([c EXCEPT !.screen = "Home"], a)
    BY <1>3, <2>1 DEF Kept
  <2> QED
    BY <1>3, <2>2, <2>3
<1>4. Kept([a EXCEPT !.torReady = TRUE], a) /\ Kept([a EXCEPT !.identityReady = TRUE], a)
  BY DEF Kept
<1>5. CASE m.op = "identityLoaded"
  BY <1>3, <1>4, <1>5, KeptPrompts DEF Update, identityLoaded
<1>6. CASE m.op = "statusLoaded"
  <2>1. Kept(statusLoaded(a, m.arg[1]).app, a)
    BY <1>2, <1>3, <1>4 DEF statusLoaded
  <2> QED
    BY <1>6, <2>1, KeptPrompts DEF Update
<1>7. CASE m.op \in {"connDecisionDone", "fileDecisionDone", "contactSaved", "nodeScreenDone",
                     "contactsLoaded", "eventChan"}
  <2>1. Kept(b, a)
    BY <1>1, <1>7 DEF Update, decisionDone, contactSaved, nodeScreenDone, Result, Kept
  <2> QED
    BY <2>1, KeptPrompts
<1>8. CASE m.op \in {"ChatSend", "chatSent"}
  <2>1. b = a \/ \E l : b = [a EXCEPT !.lines = l]
    <3>1. CASE m.op = "ChatSend"
      BY <3>1 DEF Update, chatSend, AddMessage, Result
    <3>2. CASE m.op = "chatSent"
      BY <3>2 DEF Update, chatSent, Result
    <3> QED
      BY <1>8, <3>1, <3>2
  <2>2. \A l : Kept([a EXCEPT !.lines = l], a)
    BY DEF Kept
  <2> QED
    BY <1>2, <2>1, <2>2, KeptPrompts
<1>9. CASE m.op \in {"FileSelected", "fileSendDone"}
  <2>1. b = a \/ (\E l : b = [a EXCEPT !.items = l]) \/ (\E l : b = [a EXCEPT !.screen = "Transfer", !.items = l])
    <3>1. CASE m.op = "FileSelected"
      BY <3>1 DEF Update, fileSelected, Result
    <3>2. CASE m.op = "fileSendDone"
      BY <3>2 DEF Update, fileSendDone, Result
    <3> QED
      BY <1>9, <3>1, <3>2
  <2>2. \A l : Kept([a EXCEPT !.items = l], a) /\ Kept([a EXCEPT !.screen = "Transfer", !.items = l], a)
    BY <1>1 DEF Kept
  <2> QED
    BY <1>2, <2>1, <2>2, KeptPrompts
<1>10. CASE m.op = "event"
  <2> DEFINE e == m.arg[1]
             f == [a EXCEPT !.online = @ \cup {e.of}]
  <2>1. Update(a, m) = handleEvent(a, e)
    BY <1>10 DEF Update
  <2>2. Prompted(TorReady(a).app)
    BY <1>3, <1>4, KeptPrompts DEF TorReady
  <2>3. Prompted(ConnectionReq(a, e.of).app)
    BY <1>1 DEF ConnectionReq, Result, Prompted
  <2>4. e.type = "file_offer" => Prompted(FileOffer(a, e.of).app)
    <3>1. e.type = "file_offer" => e.of \in Offers
      BY <1>10 DEF Events
    <3> HIDE DEF e
    <3> QED
      BY <1>1, <3>1 DEF FileOffer, Result, Prompted
  <2>5. Prompted(AddMessage(a, FALSE))
    <3>1. Kept(AddMessage(a, FALSE), a)
      BY DEF AddMessage, Kept
    <3> QED
      BY <3>1, KeptPrompts
  <2>6. Prompted(f)
    <3>1. Kept(f, a)
      BY DEF Kept
    <3> QED
      BY <3>1, KeptPrompts
  <2>7. handleEvent(a, e) =
          CASE e.type = "tor_ready" -> TorReady(a)
            [] e.type = "connection_request" -> ConnectionReq(a, e.of)
            [] e.type = "file_offer" /\ Usable(e) -> FileOffer(a, e.of)
            [] e.type = "chat_message" /\ Usable(e) /\ a.screen = "Chat" /\ a.chat = e.of ->
                 Result(AddMessage(a, FALSE), {NextEvent})
            [] e.type = "peer_online" /\ Usable(e) /\ e.of \in ToSet(a.contacts) -> Result(f, {NextEvent})
            [] OTHER -> Result(a, {NextEvent})
    BY Zenon DEF handleEvent
  <2> HIDE DEF e, f
  <2>8. \/ handleEvent(a, e) = TorReady(a) \/ handleEvent(a, e) = ConnectionReq(a, e.of)
        \/ e.type = "file_offer" /\ handleEvent(a, e) = FileOffer(a, e.of)
        \/ handleEvent(a, e) = Result(AddMessage(a, FALSE), {NextEvent})
        \/ handleEvent(a, e) = Result(f, {NextEvent}) \/ handleEvent(a, e) = Result(a, {NextEvent})
    BY <2>7
  <2>9. \/ b = TorReady(a).app \/ b = ConnectionReq(a, e.of).app
        \/ e.type = "file_offer" /\ b = FileOffer(a, e.of).app
        \/ b = AddMessage(a, FALSE) \/ b = f \/ b = a
    BY <1>2, <2>1, <2>8
  <2> HIDE DEF b
  <2>10. Prompted(b)
    BY <2>2, <2>3, <2>4, <2>5, <2>6, <2>9
  <2> QED
    BY <2>10 DEF b
<1>11. CASE m.op \notin {"identityLoaded", "statusLoaded", "connDecisionDone", "fileDecisionDone",
                         "contactSaved", "nodeScreenDone", "contactsLoaded", "eventChan", "ChatSend",
                         "chatSent", "FileSelected", "fileSendDone", "event"}
  <2>1. b = a
    BY <1>11 DEF Update, ConnAccepted, Result
  <2> QED
    BY <2>1
<1> QED
  BY <1>5, <1>6, <1>7, <1>8, <1>9, <1>10, <1>11

\* No key brings up a prompt.
LEMMA KeyPrompts ==
  ASSUME NEW a, Prompted(a), NEW k, NEW x
  PROVE  Prompted(handleKey(a, k, x).app)
<1> DEFINE b == handleKey(a, k, x).app
           Screens == {"AddContact", "AddNode", "Debug", "Settings", "Transfer", "Home"}
<1>1. {"screen", "prev", "offer"} \subseteq DOMAIN a
  BY DEF Prompted
<1>2. Kept(a, a) /\ \A g, do : Result(g, do).app = g
  BY DEF Kept, Result
<1>3. \A s \in Screens : \A do : Kept(Show(a, s, do).app, a)
  BY <1>1 DEF Kept, Show, Result
<1>4. Kept(NewChat(a, Selected(a)).app, a)
  BY <1>1 DEF Kept, NewChat, Result
<1> DEFINE f == [a EXCEPT !.screen = "FilePicker", !.picker = Selected(a)]
           g == [a EXCEPT !.cursor = @ + 1]
<1>5. Kept(f, a) /\ Kept(g, a)
  BY <1>1 DEF Kept
<1>6. Kept(HomeKey(a, k).app, a)
  <2>1. \/ \E s \in Screens : \E do : HomeKey(a, k) = Show(a, s, do)
        \/ HomeKey(a, k) = Result(f, {}) \/ HomeKey(a, k) = NewChat(a, Selected(a))
        \/ HomeKey(a, k) = HomeUpdate(a, k)
    BY DEF HomeKey
  <2>2. HomeUpdate(a, k) = Result(g, {}) \/ HomeUpdate(a, k) = Result(a, {})
    BY DEF HomeUpdate
  <2> HIDE DEF f, g, Screens
  <2> QED
    BY <1>2, <1>3, <1>4, <1>5, <2>1, <2>2
<1>7. /\ ConnPromptUpdate(a, k).app = a /\ FileOfferUpdate(a, k).app = a
      /\ AddContactUpdate(a, k, x).app = a /\ AddNodeUpdate(a, k).app = a
      /\ ChatUpdate(a, k, x).app = a /\ FilePickerUpdate(a, k).app = a /\ TransferUpdate(a, k).app = a
  BY DEF ConnPromptUpdate, FileOfferUpdate, AddContactUpdate, AddNodeUpdate, ChatUpdate,
         FilePickerUpdate, TransferUpdate, Emit, Result
<1>8. Kept(b, a)
  <2>1. b = Show(a, "Home", {}).app \/ b = HomeKey(a, k).app \/ b = a
    BY <1>7 DEF handleKey, Result
  <2>2. Kept(Show(a, "Home", {}).app, a)
    BY <1>3
  <2> QED
    BY <1>2, <1>6, <2>1, <2>2
<1> QED
  BY <1>8, KeptPrompts

\* A decision about a file follows from the message of its prompt, with the same id.
LEMMA UpdateFileCalls ==
  ASSUME NEW a, NEW m, NEW c \in Update(a, m).do, c.op \in FileCalls
  PROVE  /\ m.op \in FileCalls /\ c.arg = m.arg
         /\ c.op \in {"FileAccepted", "acceptFile"} => m.op = "FileAccepted"
<1>1. \A b, do : maybeTransition(b, do).do \subseteq do \cup {Cmd("loadContacts", <<>>)}
  BY DEF maybeTransition, Result
<1>2. \A e : \A d \in handleEvent(a, e).do : d.op \notin FileCalls
  BY <1>1 DEF handleEvent, TorReady, ConnectionReq, FileOffer, Result, NextEvent, Cmd, FileCalls
<1>3. \A d \in identityLoaded(a).do : d.op \notin FileCalls
  BY <1>1 DEF identityLoaded, Cmd, FileCalls
<1>4. \A s : \A d \in statusLoaded(a, s).do : d.op \notin FileCalls
  BY <1>1 DEF statusLoaded, Result, Cmd, FileCalls
<1>5. \A d \in chatSend(a, m.arg).do \cup chatSent(a, m.arg).do \cup fileSelected(a, m.arg).do
                \cup fileSendDone(a, m.arg).do : d.op \notin FileCalls
  BY DEF chatSend, chatSent, fileSelected, fileSendDone, Result, Cmd, FileCalls
<1>6. \A d \in decisionDone(a).do \cup contactSaved(a).do \cup nodeScreenDone(a).do : d.op \notin FileCalls
  BY DEF decisionDone, contactSaved, nodeScreenDone, Result, Cmd, FileCalls
<1> QED
  BY <1>2, <1>3, <1>4, <1>5, <1>6 DEF Update, ConnAccepted, Result, NextEvent, Cmd, FileCalls

\* A key emits a decision about a file only at its prompt, with the id of what is shown,
\* and an accepting one only for a "y".
LEMMA KeyFileCalls ==
  ASSUME NEW a, NEW k, NEW x, NEW c \in handleKey(a, k, x).do, c.op \in FileCalls
  PROVE  /\ a.screen = "FileOffer" /\ c.arg[1] = IdOf[a.offer]
         /\ c.op \in {"FileAccepted", "acceptFile"} => k = "y"
<1>1. \A d \in HomeKey(a, k).do : d.op \notin FileCalls
  BY DEF HomeKey, Show, NewChat, HomeUpdate, Result, Cmd, FileCalls
<1>2. \A d \in AddContactUpdate(a, k, x).do \cup AddNodeUpdate(a, k).do \cup ChatUpdate(a, k, x).do
                \cup FilePickerUpdate(a, k).do \cup TransferUpdate(a, k).do : d.op \notin FileCalls
  BY DEF AddContactUpdate, AddNodeUpdate, ChatUpdate, FilePickerUpdate, TransferUpdate, Emit, Result,
         Cmd, FileCalls
<1>3. \A d \in ConnPromptUpdate(a, k).do : d.op \notin FileCalls
  BY DEF ConnPromptUpdate, Emit, Result, Cmd, FileCalls
<1>4. a.screen = "FileOffer" /\ handleKey(a, k, x) = FileOfferUpdate(a, k)
  BY <1>1, <1>2, <1>3 DEF handleKey, Show, Result
<1> QED
  BY <1>4 DEF FileOfferUpdate, Emit, Result, Cmd, FileCalls

-----------------------------------------------------------------------------
(* Consent: every yes to a file is under an id that was shown.             *)

\* A yes is never taken back.
LEMMA ShownLasts ==
  ASSUME BagsOK, BagsOK', \A s \in Subjects : yes[s] <= yes'[s]
  PROVE  \A i : Shown(i) => Shown(i)'
<1>1. \A g \in Offers : yes[g] \in Nat /\ yes'[g] \in Nat /\ yes[g] <= yes'[g]
  BY DEF BagsOK, Subjects
<1> QED
  BY <1>1 DEF Shown

\* Steps that leave decisions and what is granted to files alone.
LEMMA ShownKept ==
  ASSUME ShownInv, Prompted(app'), NodeOK', \A i : Shown(i) => Shown(i)',
         \A c \in Present' : c \notin Present => Backed(c)',
         decision' = decision, \A f \in Offers : granted'[f] = granted[f]
  PROVE  ShownInv'
<1>1. \A c : Backed(c) => Backed(c)'
  BY DEF Backed
<1> QED
  BY <1>1 DEF ShownInv

\* A "y" at the prompt of a file is for the offer it shows, and so for its id.
LEMMA PressShown ==
  ASSUME BagsOK, BagsOK', ShownInv, Press
  PROVE  ShownInv'
<1>1. msgs' = msgs /\ granted' = granted /\ \E k, x : Pressed(k, x)
  BY PressYes DEF BagsOK
<1>2. PICK k, x : Pressed(k, x)
  BY <1>1
<1>3. UNCHANGED <<pending, parked, handling, decision>>
  BY DEF Press, outside, node, receiver
<1>4. NodeOK'
  BY <1>3 DEF ShownInv, NodeOK
<1>5. Prompted(app')
  BY <1>2, KeyPrompts DEF Pressed, ShownInv
<1>6. \A i : Shown(i) => Shown(i)'
  BY <1>2, ShownLasts DEF Pressed
<1>7. BagToSet(cmds') = BagToSet(cmds) \cup handleKey(app, k, x).do
  BY <1>2, AddCopies DEF BagsOK, Pressed
<1>8. ASSUME NEW c \in Present', c \notin Present PROVE Backed(c)'
  <2>1. CASE c.op \in FileCalls
    <3>1. c \in handleKey(app, k, x).do
      BY <1>1, <1>7, <1>8 DEF Present
    <3>2. /\ app.screen = "FileOffer" /\ c.arg[1] = IdOf[app.offer]
          /\ c.op \in {"FileAccepted", "acceptFile"} => k = "y"
      BY <2>1, <3>1, KeyFileCalls
    <3>3. app.offer \in Offers
      BY <3>2 DEF ShownInv, Prompted
    <3>4. IdOf[app.offer] \in TransferIds
      BY <3>3, FrontendAssumption
    <3>5. k = "y" => yes'[app.offer] = yes[app.offer] + 1
      BY <1>2, <3>2, <3>3 DEF Pressed, Subjects
    <3>6. yes[app.offer] \in Nat
      BY <3>3 DEF BagsOK, Subjects
    <3>7. PICK g \in Offers : g = app.offer
      BY <3>3
    <3>8. k = "y" => Shown(IdOf[g])'
      BY <3>5, <3>6, <3>7 DEF Shown
    <3> QED
      BY <3>2, <3>4, <3>7, <3>8 DEF Backed
  <2>2. CASE c.op \notin FileCalls
    BY <2>2 DEF Backed, FileCalls
  <2> QED
    BY <2>1, <2>2
<1> QED
  BY <1>1, <1>3, <1>4, <1>5, <1>6, <1>8, ShownKept

\* Update keeps the id an answer carries.
LEMMA UpdateShown ==
  ASSUME BagsOK, BagsOK', ReaderInv, ShownInv, UpdateApp
  PROVE  ShownInv'
<1>1. PICK m \in BagToSet(msgs) : Becomes(Update(app, m)) /\ msgs' = msgs (-) SetToBag({m})
  BY DEF UpdateApp
<1>2. /\ app' = Update(app, m).app /\ cmds' = cmds (+) SetToBag(Update(app, m).do)
      /\ UNCHANGED <<pending, parked, handling, decision, yes, granted>>
  BY <1>1 DEF UpdateApp, Becomes, node, receiver, history
<1>3. NodeOK' /\ \A i : Shown(i) => Shown(i)'
  BY <1>2 DEF ShownInv, NodeOK, Shown
<1>4. m.op = "event" => m.arg[1] \in Events
  <2> SUFFICES ASSUME m.op = "event" PROVE m.arg[1] \in Events
    OBVIOUS
  <2>1. PICK e \in Events : m = Cmd("event", <<e>>)
    BY <1>1 DEF ReaderInv, ReadingMsgs
  <2> QED
    BY <2>1, CmdFields
<1>5. Prompted(app')
  BY <1>2, <1>4, UpdatePrompts DEF ShownInv
<1>6. /\ BagToSet(cmds') = BagToSet(cmds) \cup Update(app, m).do
      /\ BagToSet(msgs') \subseteq BagToSet(msgs)
  BY <1>1, <1>2, AddCopies, TakeCopy DEF BagsOK
<1>7. Backed(m)
  BY <1>1 DEF ShownInv, Present
<1>8. ASSUME NEW c \in Present', c \notin Present PROVE Backed(c)'
  <2>1. c \in Update(app, m).do
    BY <1>6, <1>8 DEF Present
  <2>2. CASE c.op \in FileCalls
    <3>1. /\ m.op \in FileCalls /\ c.arg = m.arg
          /\ c.op \in {"FileAccepted", "acceptFile"} => m.op = "FileAccepted"
      BY <2>1, <2>2, UpdateFileCalls
    <3> QED
      BY <1>3, <1>7, <3>1 DEF Backed
  <2>3. CASE c.op \notin FileCalls
    BY <2>3 DEF Backed, FileCalls
  <2> QED
    BY <2>2, <2>3
<1> QED
  BY <1>2, <1>3, <1>5, <1>8, ShownKept

\* The decision of a call goes to the offer under its id.
LEMMA FileDecided ==
  ASSUME ShownInv, NEW c \in BagToSet(cmds), DecideFile(c)
  PROVE  \/ decision' = decision
         \/ \E f \in Offers :
              /\ IdOf[f] = c.arg[1] /\ handling[f] # "none"
              /\ decision' \in [Offers -> Seq({"yes", "no"})]
              /\ \A g \in Offers : g # f => decision'[g] = decision[g]
              /\ decision'[f] = Append(decision[f], IF c.op = "acceptFile" THEN "yes" ELSE "no")
<1> DEFINE i == c.arg[1]
           f == parked[i]
           d == IF c.op = "acceptFile" THEN "yes" ELSE "no"
<1>1. i \in TransferIds
  BY DEF DecideFile, ShownInv, Backed, Present, FileCalls
<1>2. CASE Finds(i)
  <2>1. decision' = [decision EXCEPT ![f] = Append(decision[f], d)] /\ f # None
    BY <1>2 DEF DecideFile, DecidesFile, NodeDecidesFile, Finds
  <2>2. f \in Offers /\ IdOf[f] = i /\ handling[f] # "none" /\ decision \in [Offers -> Seq({"yes", "no"})]
    BY <1>1, <2>1 DEF ShownInv, NodeOK
  <2>3. d \in {"yes", "no"}
    OBVIOUS
  <2> HIDE DEF i, f, d
  <2>4. Append(decision[f], d) \in Seq({"yes", "no"})
    BY <2>2, <2>3
  <2>5. /\ decision' \in [Offers -> Seq({"yes", "no"})] /\ decision'[f] = Append(decision[f], d)
        /\ \A g \in Offers : g # f => decision'[g] = decision[g]
    BY <2>1, <2>2, <2>4
  <2> QED
    BY <2>2, <2>5 DEF i, d
<1>3. CASE ~Finds(i)
  BY <1>3 DEF DecideFile, DecidesFile
<1> QED
  BY <1>2, <1>3

\* What a sequence holds once something is appended, and once its first is taken.
LEMMA SeqElements ==
  ASSUME NEW S, NEW s \in Seq(S)
  PROVE  /\ \A x \in S : ToSet(Append(s, x)) \subseteq ToSet(s) \cup {x}
         /\ s # <<>> => Tail(s) \in Seq(S) /\ ToSet(Tail(s)) \subseteq ToSet(s) /\ Head(s) \in ToSet(s)
<1>1. ASSUME NEW x \in S PROVE ToSet(Append(s, x)) \subseteq ToSet(s) \cup {x}
  <2>1. /\ DOMAIN s = 1..Len(s) /\ DOMAIN Append(s, x) = 1..(Len(s) + 1) /\ Len(s) \in Nat
        /\ Append(s, x)[Len(s) + 1] = x /\ \A i \in 1..Len(s) : Append(s, x)[i] = s[i]
    OBVIOUS
  <2>2. \A i \in 1..(Len(s) + 1) : i \in 1..Len(s) \/ i = Len(s) + 1
    BY <2>1
  <2> QED
    BY <2>1, <2>2 DEF ToSet
<1>2. ASSUME s # <<>> PROVE Tail(s) \in Seq(S) /\ ToSet(Tail(s)) \subseteq ToSet(s) /\ Head(s) \in ToSet(s)
  <2>1. /\ DOMAIN s = 1..Len(s) /\ Len(s) \in Nat /\ Len(s) >= 1 /\ Head(s) = s[1]
        /\ Tail(s) \in Seq(S) /\ DOMAIN Tail(s) = 1..(Len(s) - 1)
        /\ \A i \in 1..(Len(s) - 1) : Tail(s)[i] = s[i + 1]
    BY <1>2
  <2>2. \A i \in 1..(Len(s) - 1) : i + 1 \in 1..Len(s)
    BY <2>1
  <2>3. 1 \in 1..Len(s)
    BY <2>1
  <2> QED
    BY <2>1, <2>2, <2>3 DEF ToSet
<1> QED
  BY <1>1, <1>2

\* Commands: a call carries a shown id to the channel of an offer with that id.
LEMMA CommandShown ==
  ASSUME BagsOK, BagsOK', ShownInv, NEW c, RunCmd(c)
  PROVE  ShownInv'
<1>1. CASE Ordinary(c)
  <2>1. NodeOK' /\ Prompted(app')
    BY <1>1 DEF Ordinary, ShownInv, NodeOK
  <2>2. CASE UNCHANGED <<cmds, msgs, yes>>
    <3>1. Present' = Present /\ \A i : Shown(i) => Shown(i)'
      BY <2>2 DEF Present, Shown
    <3> QED
      BY <1>1, <2>1, <3>1, ShownKept DEF Ordinary
  <2>3. CASE \E ms : Returns(c, ms) /\ \A m \in ms : m.op \notin Answers
    <3>1. PICK ms : Returns(c, ms) /\ \A m \in ms : m.op \notin Answers
      BY <2>3
    <3>2. yes' = yes /\ Present' \subseteq Present \cup ms
      BY <3>1, ReturnsCopies DEF Present
    <3>3. \A m \in ms : Backed(m)'
      BY <3>1 DEF Backed, Answers, FileCalls
    <3>4. \A i : Shown(i) => Shown(i)'
      BY <3>2 DEF Shown
    <3> QED
      BY <1>1, <2>1, <3>2, <3>3, <3>4, ShownKept DEF Ordinary
  <2> QED
    BY <1>1, <2>2, <2>3 DEF Ordinary
<1>2. CASE emit(c) /\ Query(c)
  <2>1. Returns(c, {c}) /\ UNCHANGED <<app, pending, parked, handling, decision, granted>>
    BY <1>2 DEF emit, Query, Returns, outside, node, receiver
  <2>2. yes' = yes /\ Present' \subseteq Present
    BY <2>1, ReturnsCopies DEF Present
  <2>3. NodeOK' /\ Prompted(app') /\ \A i : Shown(i) => Shown(i)'
    BY <2>1, <2>2 DEF ShownInv, NodeOK, Shown
  <2> QED
    BY <2>1, <2>2, <2>3, ShownKept
<1>3. ASSUME Decide(c) \/ DecideFile(c)
      PROVE  /\ yes' = yes /\ app' = app /\ c \in BagToSet(cmds)
             /\ \A e \in Present' : e \notin Present => Backed(e)'
  <2>1. PICK ms : Returns(c, ms) /\ \A m \in ms : m.op \notin Answers
    BY <1>3, DecisionReturns
  <2>2. yes' = yes /\ app' = app /\ c \in BagToSet(cmds) /\ Present' \subseteq Present \cup ms
    <3>1. app' = app
      BY <2>1 DEF Returns
    <3> QED
      BY <2>1, <3>1, ReturnsCopies DEF Present
  <2>3. \A m \in ms : Backed(m)'
    BY <2>1 DEF Backed, Answers, FileCalls
  <2> QED
    BY <2>2, <2>3
<1>4. CASE Decide(c)
  <2>1. UNCHANGED <<parked, handling, decision>>
    BY <1>4 DEF Decide, receiver
  <2>2. \/ UNCHANGED <<pending, granted>>
        \/ /\ pending' = pending \ {c.arg[1]}
           /\ \/ granted' = granted
              \/ c.arg[1] \in pending /\ granted' = Counted(granted, {c.arg[1]})
    BY <1>4 DEF Decide, Decides, GRPCDecides, ServerDecides, NodeDecides
  <2>3. NodeOK' /\ Prompted(app') /\ \A i : Shown(i) => Shown(i)'
    BY <1>3, <1>4, <2>1, <2>2 DEF ShownInv, NodeOK, Shown
  <2>4. \A f \in Offers : granted'[f] = granted[f]
    <3>1. CASE granted' = granted
      BY <3>1
    <3>2. CASE c.arg[1] \in pending /\ granted' = Counted(granted, {c.arg[1]})
      <4>1. c.arg[1] \notin Offers
        BY <3>2, FrontendAssumption DEF ShownInv, NodeOK
      <4>2. granted \in [Subjects -> Nat] /\ \A f \in Offers : f \in Subjects
        BY DEF BagsOK, Subjects
      <4>3. \A f \in Subjects : granted'[f] = granted[f] + (IF f \in {c.arg[1]} THEN 1 ELSE 0)
        BY <3>2, <4>2, CountUp
      <4> QED
        BY <4>1, <4>2, <4>3
    <3> QED
      BY <2>2, <3>1, <3>2
  <2> QED
    BY <1>3, <1>4, <2>1, <2>3, <2>4, ShownKept
<1>5. CASE DecideFile(c)
  <2>1. UNCHANGED <<pending, parked, handling, granted>> /\ c.op \in {"acceptFile", "rejectFile"}
    BY <1>5 DEF DecideFile
  <2>2. \A i : Shown(i) => Shown(i)'
    BY <1>3, <1>5 DEF Shown
  <2>3. CASE decision' = decision
    <3>1. NodeOK' /\ Prompted(app')
      BY <1>3, <1>5, <2>1, <2>3 DEF ShownInv, NodeOK
    <3> QED
      BY <1>3, <1>5, <2>1, <2>2, <2>3, <3>1, ShownKept
  <2>4. CASE \E f \in Offers :
               /\ IdOf[f] = c.arg[1] /\ handling[f] # "none"
               /\ decision' \in [Offers -> Seq({"yes", "no"})]
               /\ \A g \in Offers : g # f => decision'[g] = decision[g]
               /\ decision'[f] = Append(decision[f], IF c.op = "acceptFile" THEN "yes" ELSE "no")
    <3>1. PICK f \in Offers :
               /\ IdOf[f] = c.arg[1] /\ handling[f] # "none"
               /\ decision' \in [Offers -> Seq({"yes", "no"})]
               /\ \A g \in Offers : g # f => decision'[g] = decision[g]
               /\ decision'[f] = Append(decision[f], IF c.op = "acceptFile" THEN "yes" ELSE "no")
      BY <2>4
    <3>2. NodeOK' /\ Prompted(app')
      BY <1>3, <1>5, <2>1, <3>1 DEF ShownInv, NodeOK
    <3>3. \A e : Backed(e) => Backed(e)'
      BY <2>2 DEF Backed
    <3>4. Backed(c)
      BY <1>3, <1>5 DEF ShownInv, Present
    <3>5. ToSet(decision'[f]) \subseteq ToSet(decision[f]) \cup {IF c.op = "acceptFile" THEN "yes" ELSE "no"}
      <4>1. decision[f] \in Seq({"yes", "no"})
        BY DEF ShownInv, NodeOK
      <4> QED
        BY <3>1, <4>1, SeqElements
    <3>6. "yes" \in ToSet(decision'[f]) => Shown(IdOf[f])'
      <4>1. CASE c.op = "acceptFile"
        BY <2>2, <3>1, <3>4, <4>1 DEF Backed
      <4>2. CASE c.op # "acceptFile"
        <5>1. "yes" \in ToSet(decision'[f]) => "yes" \in ToSet(decision[f])
          BY <3>5, <4>2
        <5> QED
          BY <2>2, <5>1 DEF ShownInv
      <4> QED
        BY <4>1, <4>2
    <3>7. \A g \in Offers : "yes" \in ToSet(decision'[g]) => Shown(IdOf[g])'
      BY <2>2, <3>1, <3>6 DEF ShownInv
    <3> QED
      BY <1>3, <1>5, <2>1, <2>2, <3>2, <3>3, <3>7 DEF ShownInv
  <2> QED
    BY <1>3, <1>5, <2>3, <2>4, FileDecided
<1> QED
  BY <1>1, <1>2, <1>4, <1>5, OrdinaryCommands

\* Offers arrive under their own id and have no decision yet.
LEMMA ArrivalShown ==
  ASSUME ShownInv, OfferArrives
  PROVE  ShownInv'
<1>1. PICK f \in Offers : /\ handling[f] = "none" /\ handling' = [handling EXCEPT ![f] = "waiting"]
                          /\ parked' = [parked EXCEPT ![IdOf[f]] = f]
  BY DEF OfferArrives
<1>2. UNCHANGED <<pending, decision, app, cmds, msgs, yes, granted>>
  BY DEF OfferArrives, program, history
<1>3. IdOf[f] \in TransferIds /\ f # None
  BY FrontendAssumption
<1>4. NodeOK'
  <2>1. /\ parked' \in [TransferIds -> Offers \cup {None}]
        /\ handling' \in [Offers -> {"none", "waiting", "decided", "over"}]
        /\ \A g \in Offers : handling'[g] = IF g = f THEN "waiting" ELSE handling[g]
        /\ \A i \in TransferIds : parked'[i] = IF i = IdOf[f] THEN f ELSE parked[i]
    BY <1>1, <1>3 DEF ShownInv, NodeOK
  <2>2. \A i \in TransferIds : parked'[i] # None => IdOf[parked'[i]] = i /\ handling'[parked'[i]] # "none"
    BY <1>1, <2>1 DEF ShownInv, NodeOK
  <2> QED
    BY <1>2, <2>1, <2>2 DEF ShownInv, NodeOK
<1>5. Prompted(app') /\ Present' = Present /\ \A i : Shown(i) => Shown(i)'
  BY <1>2 DEF ShownInv, Present, Shown
<1> QED
  BY <1>2, <1>4, <1>5, ShownKept

\* An offer that waits no longer, and one that is forgotten.
LEMMA EndShown ==
  ASSUME ShownInv, NEW f, OfferTimeout(f) \/ OfferForgotten(f)
  PROVE  ShownInv'
<1>1. UNCHANGED <<pending, decision, app, cmds, msgs, yes, granted>>
  BY DEF OfferTimeout, OfferForgotten, program, history
<1>2. PICK w \in {"decided", "over"} : handling' = [handling EXCEPT ![f] = w]
  BY DEF OfferTimeout, OfferForgotten
<1>3. parked' = parked \/ \E i : parked' = [parked EXCEPT ![i] = None]
  BY DEF OfferTimeout, OfferForgotten
<1>4. NodeOK'
  <2>1. /\ parked' \in [TransferIds -> Offers \cup {None}]
        /\ handling' \in [Offers -> {"none", "waiting", "decided", "over"}]
        /\ \A g \in Offers : handling'[g] = IF g = f THEN w ELSE handling[g]
        /\ \A j \in TransferIds : parked'[j] # None => parked'[j] = parked[j]
    BY <1>2, <1>3 DEF ShownInv, NodeOK
  <2> QED
    BY <1>1, <2>1 DEF ShownInv, NodeOK
<1>5. Prompted(app') /\ Present' = Present /\ \A i : Shown(i) => Shown(i)'
  BY <1>1 DEF ShownInv, Present, Shown
<1> QED
  BY <1>1, <1>4, <1>5, ShownKept

\* A file is accepted by a yes in its channel, which was for its id.
LEMMA DecidedShown ==
  ASSUME BagsOK, BagsOK', ShownInv, NEW f \in Offers, OfferDecided(f)
  PROVE  ShownInv'
<1>1. /\ UNCHANGED <<pending, parked, app, yes>> /\ decision[f] # <<>>
      /\ handling' = [handling EXCEPT ![f] = "decided"]
      /\ decision' = [decision EXCEPT ![f] = Tail(decision[f])]
      /\ granted' = granted \/ (Head(decision[f]) = "yes" /\ granted' = Counted(granted, {f, IdOf[f]}))
  BY DEF OfferDecided
<1>2. decision[f] \in Seq({"yes", "no"}) /\ DOMAIN decision = Offers
  BY DEF ShownInv, NodeOK
<1>3. /\ Tail(decision[f]) \in Seq({"yes", "no"}) /\ ToSet(Tail(decision[f])) \subseteq ToSet(decision[f])
      /\ Head(decision[f]) \in ToSet(decision[f])
  BY <1>1, <1>2, SeqElements
<1>4. \A g \in Offers : ToSet(decision'[g]) \subseteq ToSet(decision[g])
  BY <1>1, <1>2, <1>3
<1>5. NodeOK'
  <2>1. /\ decision' \in [Offers -> Seq({"yes", "no"})]
        /\ handling' \in [Offers -> {"none", "waiting", "decided", "over"}]
        /\ \A g \in Offers : handling'[g] = IF g = f THEN "decided" ELSE handling[g]
        /\ \A g \in Offers : g # f => decision'[g] = decision[g]
    BY <1>1, <1>3 DEF ShownInv, NodeOK
  <2> QED
    BY <1>1, <2>1 DEF ShownInv, NodeOK
<1>6. Prompted(app') /\ \A i : Shown(i) => Shown(i)'
  BY <1>1 DEF ShownInv, Shown
<1>7. \A c \in Present' : Backed(c)'
  <2>1. \A c \in Present' : c.op \in Answers => c \in Present
    BY DecidedBags DEF Present
  <2>2. \A c : Backed(c) => Backed(c)'
    BY <1>6 DEF Backed
  <2> QED
    BY <2>1, <2>2 DEF ShownInv, Backed, Answers, FileCalls
<1>8. \A g \in Offers : "yes" \in ToSet(decision'[g]) => Shown(IdOf[g])'
  BY <1>4, <1>6 DEF ShownInv
<1>9. ASSUME NEW g \in Offers, granted'[g] > 0 PROVE Shown(IdOf[g])'
  <2>1. CASE granted'[g] = granted[g]
    BY <1>6, <1>9, <2>1 DEF ShownInv
  <2>2. CASE granted'[g] # granted[g]
    <3>1. Head(decision[f]) = "yes" /\ granted' = Counted(granted, {f, IdOf[f]})
      BY <1>1, <2>2
    <3>2. granted \in [Subjects -> Nat] /\ g \in Subjects /\ IdOf[f] \notin Offers
      BY FrontendAssumption DEF BagsOK, Subjects
    <3>3. granted'[g] = granted[g] + (IF g \in {f, IdOf[f]} THEN 1 ELSE 0) /\ granted[g] \in Nat
      BY <3>1, <3>2, CountUp
    <3>4. g = f
      BY <2>2, <3>2, <3>3
    <3> QED
      BY <1>3, <1>6, <3>1, <3>4 DEF ShownInv
  <2> QED
    BY <2>1, <2>2
<1> QED
  BY <1>5, <1>6, <1>7, <1>8, <1>9 DEF ShownInv

\* Every step keeps answers under ids that were shown.
LEMMA ShownStep ==
  ASSUME BagsOK, BagsOK', ReaderInv, ShownInv, [Next]_vars
  PROVE  ShownInv'
<1>1. CASE Press
  BY <1>1, PressShown
<1>2. CASE UpdateApp
  BY <1>2, UpdateShown
<1>3. CASE RunSomeCmd
  BY <1>3, CommandShown DEF RunSomeCmd
<1>4. ASSUME UNCHANGED <<app, cmds, msgs, yes, granted, parked, handling, decision>>, pending' \subseteq Peers
      PROVE  ShownInv'
  BY <1>4 DEF ShownInv, Prompted, NodeOK, Present, Backed, Shown
<1>5. pending \subseteq Peers
  BY DEF ShownInv, NodeOK
<1>6. CASE Exchange \/ SubscribeAll \/ ForwardEvent \/ SendToStream \/ RecvFromStream
  BY <1>4, <1>5, <1>6
  DEF Exchange, SubscribeAll, ForwardEvent, SendToStream, RecvFromStream, program, history, node, receiver
<1>7. CASE Quit \/ Panic \/ BreakStream \/ TorBecomesReady
  BY <1>4, <1>5, <1>7
  DEF Quit, Panic, BreakStream, TorBecomesReady, outside, program, history, node, receiver
<1>8. CASE ConnectionRequest
  <2>1. pending' \subseteq Peers
    BY <1>5, <1>8 DEF ConnectionRequest
  <2> QED
    BY <1>4, <1>8, <2>1 DEF ConnectionRequest, program, history, receiver
<1>9. CASE MessageArrives \/ PeerOnline \/ RemoveContact
  BY <1>4, <1>5, <1>9 DEF MessageArrives, PeerOnline, RemoveContact, program, history, node, receiver
<1>10. CASE OfferArrives
  BY <1>10, ArrivalShown
<1>11. CASE OfferExpires
  BY <1>11, EndShown DEF OfferExpires
<1>12. CASE OfferHandled
  BY <1>12, EndShown, DecidedShown DEF OfferHandled
<1>13. CASE UNCHANGED vars
  BY <1>4, <1>5, <1>13 DEF vars, node, receiver
<1> QED
  BY <1>1, <1>2, <1>3, <1>6, <1>7, <1>8, <1>9, <1>10, <1>11, <1>12, <1>13 DEF Next, System, Environment

-----------------------------------------------------------------------------
(* Consent: how often.                                                     *)

\* What has been granted and what is under way are numbers.
LEMMA SpentNat ==
  ASSUME BagsOK
  PROVE  /\ \A e : Copies(e, cmds) \in Nat /\ Copies(e, msgs) \in Nat
         /\ \A s \in Peers \cup TransferIds : Spent(s) \in Nat /\ granted[s] \in Nat /\ yes[s] \in Nat
<1>1. \A e : Copies(e, cmds) \in Nat /\ Copies(e, msgs) \in Nat
  BY CopiesNat DEF BagsOK
<1>2. \A s \in Peers \cup TransferIds : granted[s] \in Nat /\ yes[s] \in Nat
  BY DEF BagsOK, Subjects
<1> QED
  BY <1>1, <1>2 DEF Spent, ConnUnderWay, FileUnderWay

\* Steps that spend no more than they earn, and answer nothing.
LEMMA ConsentKept ==
  ASSUME BagsOK, BagsOK', ConsentInv, \A s : Answered(s)' \subseteq Answered(s),
         \A s \in Peers \cup TransferIds : Spent(s)' + yes[s] <= Spent(s) + yes'[s]
  PROVE  ConsentInv'
<1> SUFFICES ASSUME NEW s \in Peers \cup TransferIds
             PROVE  (IsFiniteSet(Answered(s)) /\ Spent(s) + Cardinality(Answered(s)) <= yes[s])'
  BY DEF ConsentInv
<1>1. IsFiniteSet(Answered(s)) /\ Spent(s) + Cardinality(Answered(s)) <= yes[s]
  BY DEF ConsentInv
<1>2. IsFiniteSet(Answered(s)') /\ Cardinality(Answered(s)') <= Cardinality(Answered(s))
  BY <1>1, FS_Subset
<1>3. Cardinality(Answered(s)) \in Nat /\ Cardinality(Answered(s)') \in Nat
  BY <1>1, <1>2, FS_CardinalityType
<1>4. Spent(s) \in Nat /\ yes[s] \in Nat
  BY SpentNat
<1>5. Spent(s)' \in Nat /\ yes'[s] \in Nat
  <2>1. BagsOK' => (Spent(s) \in Nat /\ yes[s] \in Nat)'
    <3>1. \A e : Copies(e, cmds') \in Nat /\ Copies(e, msgs') \in Nat
      BY CopiesNat DEF BagsOK
    <3>2. granted'[s] \in Nat /\ yes'[s] \in Nat
      BY DEF BagsOK, Subjects
    <3> QED
      BY <3>1, <3>2 DEF Spent, ConnUnderWay, FileUnderWay
  <2> QED
    BY <2>1
<1>6. Spent(s)' + yes[s] <= Spent(s) + yes'[s]
  OBVIOUS
<1> QED
  BY <1>1, <1>2, <1>3, <1>4, <1>5, <1>6

\* Decisions and offers that stay as they are have the same answers.
LEMMA SameAnswered ==
  ASSUME handling' = handling, decision' = decision
  PROVE  \A s : Answered(s)' \subseteq Answered(s)
BY DEF Answered

\* A "y" counts for what the prompt shows and sends its answer on its way.
LEMMA PressConsent ==
  ASSUME BagsOK, BagsOK', ConsentInv, Press
  PROVE  ConsentInv'
<1>1. msgs' = msgs /\ granted' = granted /\ \E k, x : Pressed(k, x)
  BY PressYes DEF BagsOK
<1>2. PICK k, x : Pressed(k, x)
  BY <1>1
<1> DEFINE do == handleKey(app, k, x).do
<1>3. \A e : Copies(e, cmds') = Copies(e, cmds) + (IF e \in do THEN 1 ELSE 0)
  BY <1>2, AddCopies DEF BagsOK, Pressed
<1>4. \A c \in do : c.op \in Consents =>
        \/ app.screen = "ConnPrompt" /\ k = "y" /\ do = {Cmd("ConnAccepted", <<app.prompt>>)}
        \/ app.screen = "FileOffer" /\ k = "y" /\ do = {Cmd("FileAccepted", <<IdOf[app.offer]>>)}
  BY KeyConsents
<1> HIDE DEF do
<1>5. ASSUME NEW s \in Peers \cup TransferIds PROVE Spent(s)' + yes[s] <= Spent(s) + yes'[s]
  <2>1. \A e : Copies(e, cmds) \in Nat /\ Copies(e, msgs) \in Nat
    BY SpentNat
  <2>2. granted[s] \in Nat /\ yes[s] \in Nat /\ yes'[s] \in Nat /\ s \in Subjects
    BY DEF BagsOK, Subjects
  <2>3. CASE \A c \in do : c.op \notin Consents
    <3>1. \A op \in Consents : Copies(Cmd(op, <<s>>), cmds') = Copies(Cmd(op, <<s>>), cmds)
      BY <2>1, <2>3, <1>3, CmdFields
    <3>2. yes[s] <= yes'[s]
      BY <1>2, <2>2 DEF Pressed
    <3> QED
      BY <3>1, <3>2, <2>1, <2>2, <1>1 DEF Spent, ConnUnderWay, FileUnderWay, Consents
  <2>4. CASE app.screen = "ConnPrompt" /\ k = "y" /\ do = {Cmd("ConnAccepted", <<app.prompt>>)}
    <3>1. \A op \in Consents \ {"ConnAccepted"} : Copies(Cmd(op, <<s>>), cmds') = Copies(Cmd(op, <<s>>), cmds)
      BY <2>1, <2>4, <1>3, CmdFields
    <3>2. Copies(Cmd("ConnAccepted", <<s>>), cmds')
            = Copies(Cmd("ConnAccepted", <<s>>), cmds) + (IF s = app.prompt THEN 1 ELSE 0)
      BY <2>1, <2>4, <1>3, CmdFields
    <3>3. yes'[s] = yes[s] + (IF s = app.prompt THEN 1 ELSE 0)
      BY <1>2, <2>2, <2>4 DEF Pressed
    <3> QED
      BY <3>1, <3>2, <3>3, <2>1, <2>2, <1>1 DEF Spent, ConnUnderWay, FileUnderWay, Consents
  <2>5. CASE app.screen = "FileOffer" /\ k = "y" /\ do = {Cmd("FileAccepted", <<IdOf[app.offer]>>)}
    <3>1. \A op \in Consents \ {"FileAccepted"} : Copies(Cmd(op, <<s>>), cmds') = Copies(Cmd(op, <<s>>), cmds)
      BY <2>1, <2>5, <1>3, CmdFields
    <3>2. Copies(Cmd("FileAccepted", <<s>>), cmds')
            = Copies(Cmd("FileAccepted", <<s>>), cmds) + (IF s = IdOf[app.offer] THEN 1 ELSE 0)
      BY <2>1, <2>5, <1>3, CmdFields
    <3>3. yes'[s] = yes[s] + (IF s \in {app.offer, IdOf[app.offer]} THEN 1 ELSE 0)
      BY <1>2, <2>2, <2>5 DEF Pressed
    <3> QED
      BY <3>1, <3>2, <3>3, <2>1, <2>2, <1>1 DEF Spent, ConnUnderWay, FileUnderWay, Consents
  <2> QED
    BY <2>3, <2>4, <2>5, <1>4
<1>6. \A s : Answered(s)' \subseteq Answered(s)
  BY SameAnswered DEF Press, outside, node, receiver
<1> QED
  BY <1>5, <1>6, ConsentKept

\* Update turns the message of an answer into the call for the same subject.
LEMMA UpdateConsent ==
  ASSUME BagsOK, BagsOK', ConsentInv, UpdateApp
  PROVE  ConsentInv'
<1>1. PICK m \in BagToSet(msgs) : Becomes(Update(app, m)) /\ msgs' = msgs (-) SetToBag({m})
  BY DEF UpdateApp
<1> DEFINE do == Update(app, m).do
<1>2. cmds' = cmds (+) SetToBag(do) /\ granted' = granted /\ yes' = yes
  BY <1>1 DEF UpdateApp, Becomes, history
<1>3. \A e : Copies(e, cmds') = Copies(e, cmds) + (IF e \in do THEN 1 ELSE 0)
  BY <1>2, AddCopies DEF BagsOK
<1>4. \A e : Copies(e, msgs') = Copies(e, msgs) - (IF e = m THEN 1 ELSE 0)
  BY <1>1, TakeCopy DEF BagsOK
<1>5. \A c \in do : c.op \in Consents =>
        \/ m.op = "ConnAccepted" /\ do = {Cmd("acceptConn", m.arg)}
        \/ m.op = "FileAccepted" /\ do = {Cmd("acceptFile", m.arg)}
  BY UpdateConsents
<1>6. m.op \in Consents => m = Cmd(m.op, <<m.arg[1]>>) /\ m.arg = <<m.arg[1]>>
  BY <1>1, CmdFields DEF BagsOK
<1> HIDE DEF do
<1>7. ASSUME NEW s \in Peers \cup TransferIds PROVE Spent(s)' + yes[s] <= Spent(s) + yes'[s]
  <2>1. \A e : Copies(e, cmds) \in Nat /\ Copies(e, msgs) \in Nat
    BY SpentNat
  <2>2. granted[s] \in Nat /\ yes[s] \in Nat
    BY SpentNat
  <2>3. \A e : Copies(e, msgs') <= Copies(e, msgs) /\ Copies(e, msgs') \in Nat
    BY <1>4, <2>1, CopiesNat DEF BagsOK
  <2>4. CASE \A c \in do : c.op \notin Consents
    <3>1. \A op \in Consents : Copies(Cmd(op, <<s>>), cmds') = Copies(Cmd(op, <<s>>), cmds)
      BY <2>1, <2>4, <1>3, CmdFields
    <3> QED
      BY <3>1, <2>1, <2>2, <2>3, <1>2 DEF Spent, ConnUnderWay, FileUnderWay, Consents
  <2>5. CASE m.op = "ConnAccepted" /\ do = {Cmd("acceptConn", m.arg)}
    <3>1. \A op \in Consents \ {"acceptConn"} : Copies(Cmd(op, <<s>>), cmds') = Copies(Cmd(op, <<s>>), cmds)
      BY <2>1, <2>5, <1>3, CmdFields
    <3>2. Copies(Cmd("acceptConn", <<s>>), cmds')
            = Copies(Cmd("acceptConn", <<s>>), cmds) + (IF s = m.arg[1] THEN 1 ELSE 0)
      BY <2>1, <2>5, <1>3, <1>6, CmdFields DEF Consents
    <3>3. Copies(Cmd("ConnAccepted", <<s>>), msgs')
            = Copies(Cmd("ConnAccepted", <<s>>), msgs) - (IF s = m.arg[1] THEN 1 ELSE 0)
      BY <2>5, <1>4, <1>6, CmdFields DEF Consents
    <3> QED
      BY <3>1, <3>2, <3>3, <2>1, <2>2, <2>3, <1>2 DEF Spent, ConnUnderWay, FileUnderWay, Consents
  <2>6. CASE m.op = "FileAccepted" /\ do = {Cmd("acceptFile", m.arg)}
    <3>1. \A op \in Consents \ {"acceptFile"} : Copies(Cmd(op, <<s>>), cmds') = Copies(Cmd(op, <<s>>), cmds)
      BY <2>1, <2>6, <1>3, CmdFields
    <3>2. Copies(Cmd("acceptFile", <<s>>), cmds')
            = Copies(Cmd("acceptFile", <<s>>), cmds) + (IF s = m.arg[1] THEN 1 ELSE 0)
      BY <2>1, <2>6, <1>3, <1>6, CmdFields DEF Consents
    <3>3. Copies(Cmd("FileAccepted", <<s>>), msgs')
            = Copies(Cmd("FileAccepted", <<s>>), msgs) - (IF s = m.arg[1] THEN 1 ELSE 0)
      BY <2>6, <1>4, <1>6, CmdFields DEF Consents
    <3> QED
      BY <3>1, <3>2, <3>3, <2>1, <2>2, <2>3, <1>2 DEF Spent, ConnUnderWay, FileUnderWay, Consents
  <2> QED
    BY <2>4, <2>5, <2>6, <1>5
<1>8. \A s : Answered(s)' \subseteq Answered(s)
  BY SameAnswered DEF UpdateApp, node, receiver
<1> QED
  BY <1>7, <1>8, ConsentKept

\* What a command that ends leaves of the answers under way: the ones of other commands,
\* and the message of a screen instead of its command.
LEMMA ReturnsSpent ==
  ASSUME BagsOK, NEW c, NEW ms, Returns(c, ms), NEW s \in Peers \cup TransferIds,
         \A m \in ms : m.op \notin Consents
  PROVE  /\ ConnUnderWay(s) \in Nat /\ FileUnderWay(s) \in Nat
         /\ ConnUnderWay(s)' \in Nat /\ FileUnderWay(s)' \in Nat
         /\ ConnUnderWay(s)' <= ConnUnderWay(s) - (IF c = Cmd("acceptConn", <<s>>) THEN 1 ELSE 0)
         /\ FileUnderWay(s)' <= FileUnderWay(s) - (IF c = Cmd("acceptFile", <<s>>) THEN 1 ELSE 0)
<1>1. \A op \in Consents : /\ Copies(Cmd(op, <<s>>), msgs') = Copies(Cmd(op, <<s>>), msgs)
                           /\ Copies(Cmd(op, <<s>>), cmds')
                                = Copies(Cmd(op, <<s>>), cmds) - (IF Cmd(op, <<s>>) = c THEN 1 ELSE 0)
  BY ReturnsCopies, CmdFields
<1>2. \A e : /\ Copies(e, cmds) \in Nat /\ Copies(e, msgs) \in Nat
             /\ Copies(e, cmds') \in Nat /\ Copies(e, msgs') \in Nat
  BY ReturnsCopies
<1> QED
  BY <1>1, <1>2 DEF ConnUnderWay, FileUnderWay, Consents

\* Commands that carry no decision.
LEMMA OrdinaryConsent ==
  ASSUME BagsOK, BagsOK', ConsentInv, NEW c, Ordinary(c)
  PROVE  ConsentInv'
<1>1. granted' = granted /\ \A s : Answered(s)' \subseteq Answered(s)
  BY SameAnswered DEF Ordinary
<1>2. ASSUME NEW s \in Peers \cup TransferIds PROVE Spent(s)' + yes[s] <= Spent(s) + yes'[s]
  <2>1. granted[s] \in Nat /\ yes[s] \in Nat /\ Spent(s) \in Nat
    BY SpentNat
  <2>2. CASE UNCHANGED <<cmds, msgs, yes>>
    BY <1>1, <2>1, <2>2 DEF Spent, ConnUnderWay, FileUnderWay
  <2>3. CASE \E ms : Returns(c, ms) /\ \A m \in ms : m.op \notin Answers
    <3>1. PICK ms : Returns(c, ms) /\ \A m \in ms : m.op \notin Consents
      BY <2>3 DEF Answers
    <3>2. yes' = yes
      BY <3>1, ReturnsCopies
    <3>3. /\ ConnUnderWay(s) \in Nat /\ FileUnderWay(s) \in Nat
          /\ ConnUnderWay(s)' \in Nat /\ FileUnderWay(s)' \in Nat
          /\ ConnUnderWay(s)' <= ConnUnderWay(s) - (IF c = Cmd("acceptConn", <<s>>) THEN 1 ELSE 0)
          /\ FileUnderWay(s)' <= FileUnderWay(s) - (IF c = Cmd("acceptFile", <<s>>) THEN 1 ELSE 0)
      BY <3>1, ReturnsSpent
    <3> QED
      BY <1>1, <2>1, <3>2, <3>3 DEF Spent
  <2> QED
    BY <2>2, <2>3 DEF Ordinary
<1> QED
  BY <1>1, <1>2, ConsentKept

\* A screen's message keeps what it carries.
LEMMA EmitConsent ==
  ASSUME BagsOK, BagsOK', ConsentInv, NEW c, emit(c), Query(c)
  PROVE  ConsentInv'
<1>1. Returns(c, {c}) /\ c.op \notin {"acceptConn", "acceptFile"}
  BY DEF emit
<1>2. granted' = granted /\ yes' = yes /\ \A s : Answered(s)' \subseteq Answered(s)
  BY <1>1, SameAnswered DEF Query, Returns, outside, node, receiver
<1>3. ASSUME NEW s \in Peers \cup TransferIds PROVE Spent(s)' + yes[s] <= Spent(s) + yes'[s]
  <2>1. granted[s] \in Nat /\ yes[s] \in Nat
    BY SpentNat
  <2>2. \A e : Copies(e, cmds') + Copies(e, msgs') = Copies(e, cmds) + Copies(e, msgs)
    BY <1>1, ReturnsCopies
  <2>3. \A e : Copies(e, cmds') <= Copies(e, cmds)
    BY <1>1, ReturnsCopies
  <2>4. \A e : /\ Copies(e, cmds) \in Nat /\ Copies(e, msgs) \in Nat
               /\ Copies(e, cmds') \in Nat /\ Copies(e, msgs') \in Nat
    BY <1>1, ReturnsCopies
  <2> QED
    BY <1>2, <2>1, <2>2, <2>3, <2>4 DEF Spent, ConnUnderWay, FileUnderWay
<1> QED
  BY <1>2, <1>3, ConsentKept

\* AcceptConnection grants at most once, to the peer the call carries.
LEMMA DecideConsent ==
  ASSUME BagsOK, BagsOK', ConsentInv, NEW c, Decide(c)
  PROVE  ConsentInv'
<1>1. PICK ms : Returns(c, ms) /\ \A m \in ms : m.op \notin Consents
  BY DecisionReturns DEF Answers
<1>2. yes' = yes /\ c \in BagToSet(cmds) /\ \A s : Answered(s)' \subseteq Answered(s)
  BY <1>1, SameAnswered, ReturnsCopies DEF Decide, receiver
<1>3. \/ granted' = granted
      \/ c.op = "acceptConn" /\ granted' = Counted(granted, {c.arg[1]})
  BY DEF Decide, Decides, GRPCDecides, ServerDecides, NodeDecides
<1>4. c.op = "acceptConn" => c = Cmd("acceptConn", <<c.arg[1]>>)
  BY <1>2 DEF BagsOK, Consents
<1>5. ASSUME NEW s \in Peers \cup TransferIds PROVE Spent(s)' + yes[s] <= Spent(s) + yes'[s]
  <2>1. granted[s] \in Nat /\ yes[s] \in Nat /\ granted \in [Subjects -> Nat] /\ s \in Subjects
    BY SpentNat DEF BagsOK, Subjects
  <2>2. /\ ConnUnderWay(s) \in Nat /\ FileUnderWay(s) \in Nat
        /\ ConnUnderWay(s)' \in Nat /\ FileUnderWay(s)' \in Nat
        /\ ConnUnderWay(s)' <= ConnUnderWay(s) - (IF c = Cmd("acceptConn", <<s>>) THEN 1 ELSE 0)
        /\ FileUnderWay(s)' <= FileUnderWay(s) - (IF c = Cmd("acceptFile", <<s>>) THEN 1 ELSE 0)
    BY <1>1, ReturnsSpent
  <2>3. \/ granted'[s] = granted[s]
        \/ c = Cmd("acceptConn", <<s>>) /\ granted'[s] = granted[s] + 1
    <3>1. CASE granted' = granted
      BY <3>1
    <3>2. CASE c.op = "acceptConn" /\ granted' = Counted(granted, {c.arg[1]})
      <4>1. granted'[s] = granted[s] + (IF s \in {c.arg[1]} THEN 1 ELSE 0)
        BY <2>1, <3>2, CountUp
      <4> QED
        BY <1>4, <2>1, <3>2, <4>1
    <3> QED
      BY <1>3, <3>1, <3>2
  <2> QED
    BY <1>2, <2>1, <2>2, <2>3 DEF Spent
<1> QED
  BY <1>2, <1>5, ConsentKept

\* A yes in the channel of an offer is one call less under way.
LEMMA DecideFileConsent ==
  ASSUME BagsOK, BagsOK', ShownInv, ConsentInv, NEW c, DecideFile(c)
  PROVE  ConsentInv'
<1>1. PICK ms : Returns(c, ms) /\ \A m \in ms : m.op \notin Consents
  BY DecisionReturns DEF Answers
<1>2. yes' = yes /\ granted' = granted /\ handling' = handling /\ c \in BagToSet(cmds)
  BY <1>1, ReturnsCopies DEF DecideFile
<1>3. c.op = "acceptFile" => c = Cmd("acceptFile", <<c.arg[1]>>)
  BY <1>2 DEF BagsOK, Consents
<1>4. ASSUME NEW s \in Peers \cup TransferIds
      PROVE  /\ Spent(s)' + (IF c = Cmd("acceptFile", <<s>>) THEN 1 ELSE 0) <= Spent(s)
             /\ Spent(s)' <= Spent(s) /\ Spent(s) \in Nat /\ Spent(s)' \in Nat /\ yes[s] \in Nat
  <2>1. granted[s] \in Nat /\ yes[s] \in Nat
    BY SpentNat
  <2>2. /\ ConnUnderWay(s) \in Nat /\ FileUnderWay(s) \in Nat
        /\ ConnUnderWay(s)' \in Nat /\ FileUnderWay(s)' \in Nat
        /\ ConnUnderWay(s)' <= ConnUnderWay(s) - (IF c = Cmd("acceptConn", <<s>>) THEN 1 ELSE 0)
        /\ FileUnderWay(s)' <= FileUnderWay(s) - (IF c = Cmd("acceptFile", <<s>>) THEN 1 ELSE 0)
    BY <1>1, ReturnsSpent
  <2> QED
    BY <1>2, <2>1, <2>2 DEF Spent
<1>5. CASE \A s : Answered(s)' \subseteq Answered(s)
  <2>1. ASSUME NEW s \in Peers \cup TransferIds PROVE Spent(s)' + yes[s] <= Spent(s) + yes'[s]
    <3>1. Spent(s)' <= Spent(s) /\ Spent(s) \in Nat /\ Spent(s)' \in Nat /\ yes[s] \in Nat
      BY <1>4
    <3> QED
      BY <1>2, <3>1
  <2> QED
    BY <1>5, <2>1, ConsentKept
<1>6. CASE decision' = decision
  BY <1>2, <1>5, <1>6, SameAnswered
<1>7. CASE \E f \in Offers :
             /\ IdOf[f] = c.arg[1] /\ handling[f] # "none"
             /\ decision' \in [Offers -> Seq({"yes", "no"})]
             /\ \A g \in Offers : g # f => decision'[g] = decision[g]
             /\ decision'[f] = Append(decision[f], IF c.op = "acceptFile" THEN "yes" ELSE "no")
  <2>1. PICK f \in Offers :
             /\ IdOf[f] = c.arg[1]
             /\ \A g \in Offers : g # f => decision'[g] = decision[g]
             /\ decision'[f] = Append(decision[f], IF c.op = "acceptFile" THEN "yes" ELSE "no")
    BY <1>7
  <2>2. decision[f] \in Seq({"yes", "no"})
    BY DEF ShownInv, NodeOK
  <2>3. decision[f] # <<>> => Head(decision'[f]) = Head(decision[f])
    BY <2>1, <2>2
  <2>4. decision[f] = <<>> => Head(decision'[f]) = IF c.op = "acceptFile" THEN "yes" ELSE "no"
    BY <2>1, <2>2
  <2>5. CASE decision[f] # <<>> \/ c.op # "acceptFile"
    <3>1. \A s : Answered(s)' \subseteq Answered(s)
      BY <1>2, <2>1, <2>3, <2>4, <2>5 DEF Answered
    <3> QED
      BY <1>5, <3>1
  <2>6. CASE c.op = "acceptFile"
    <3>1. \A s : Answered(s)' \subseteq Answered(s) \cup {f}
      BY <1>2, <2>1 DEF Answered
    <3>2. \A s : s # c.arg[1] => Answered(s)' \subseteq Answered(s)
      BY <1>2, <2>1 DEF Answered
    <3> SUFFICES ASSUME NEW s \in Peers \cup TransferIds
                 PROVE  (IsFiniteSet(Answered(s)) /\ Spent(s) + Cardinality(Answered(s)) <= yes[s])'
      BY DEF ConsentInv
    <3>3. IsFiniteSet(Answered(s)) /\ Spent(s) + Cardinality(Answered(s)) <= yes[s]
      BY DEF ConsentInv
    <3>4. Cardinality(Answered(s)) \in Nat
      BY <3>3, FS_CardinalityType
    <3>5. CASE s = c.arg[1]
      <4>1. Answered(s)' \subseteq Answered(s) \cup {f}
        BY <3>1
      <4>2. /\ IsFiniteSet(Answered(s)') /\ Cardinality(Answered(s)') \in Nat
            /\ Cardinality(Answered(s)') <= Cardinality(Answered(s)) + 1
        <5> DEFINE T == Answered(s)
                   U == Answered(s)'
        <5>1. IsFiniteSet(T) /\ U \subseteq T \cup {f}
          BY <3>3, <4>1
        <5> HIDE DEF T, U
        <5>2. IsFiniteSet(U) /\ Cardinality(U) \in Nat /\ Cardinality(U) <= Cardinality(T) + 1
          BY <5>1, OneMore
        <5> QED
          BY <5>2 DEF T, U
      <4>3. Spent(s)' + 1 <= Spent(s) /\ Spent(s) \in Nat /\ Spent(s)' \in Nat /\ yes[s] \in Nat
        BY <1>3, <1>4, <2>6, <3>5
      <4> QED
        BY <1>2, <3>3, <3>4, <4>2, <4>3
    <3>6. CASE s # c.arg[1]
      <4>1. Answered(s)' \subseteq Answered(s)
        BY <3>2, <3>6
      <4>2. /\ IsFiniteSet(Answered(s)') /\ Cardinality(Answered(s)') <= Cardinality(Answered(s))
        BY <3>3, <4>1, FS_Subset
      <4>3. Cardinality(Answered(s)') \in Nat
        BY <4>2, FS_CardinalityType
      <4>4. Spent(s)' <= Spent(s) /\ Spent(s) \in Nat /\ Spent(s)' \in Nat /\ yes[s] \in Nat
        BY <1>4
      <4> QED
        BY <1>2, <3>3, <3>4, <4>2, <4>3, <4>4
    <3> QED
      BY <3>5, <3>6
  <2> QED
    BY <2>5, <2>6
<1> QED
  BY <1>2, <1>6, <1>7, FileDecided

\* An offer that takes a yes from its channel is granted once, under its id.
LEMMA DecidedConsent ==
  ASSUME BagsOK, BagsOK', ShownInv, ConsentInv, NEW f \in Offers, OfferDecided(f)
  PROVE  ConsentInv'
<1>1. /\ handling[f] = "waiting" /\ decision[f] # <<>> /\ yes' = yes
      /\ handling' = [handling EXCEPT ![f] = "decided"]
      /\ decision' = [decision EXCEPT ![f] = Tail(decision[f])]
      /\ granted' = granted \/ (Head(decision[f]) = "yes" /\ granted' = Counted(granted, {f, IdOf[f]}))
  BY DEF OfferDecided
<1>2. /\ \A g \in Offers : g # f => handling'[g] = handling[g] /\ decision'[g] = decision[g]
      /\ handling'[f] = "decided"
  BY <1>1 DEF ShownInv, NodeOK
<1>3. \A s : Answered(s)' \subseteq Answered(s) \ {f}
  BY <1>2 DEF Answered
<1>4. ASSUME NEW s \in Peers \cup TransferIds
      PROVE  /\ ConnUnderWay(s)' = ConnUnderWay(s) /\ FileUnderWay(s)' = FileUnderWay(s)
             /\ ConnUnderWay(s) \in Nat /\ FileUnderWay(s) \in Nat
  <2>1. \A e : e.op \in Answers => Copies(e, cmds') = Copies(e, cmds) /\ Copies(e, msgs') = Copies(e, msgs)
    BY DecidedBags
  <2>2. \A op \in Consents : /\ Copies(Cmd(op, <<s>>), cmds') = Copies(Cmd(op, <<s>>), cmds)
                             /\ Copies(Cmd(op, <<s>>), msgs') = Copies(Cmd(op, <<s>>), msgs)
    BY <2>1, CmdFields DEF Answers
  <2>3. \A e : Copies(e, cmds) \in Nat /\ Copies(e, msgs) \in Nat
    BY SpentNat
  <2> QED
    BY <2>2, <2>3 DEF ConnUnderWay, FileUnderWay, Consents
<1>5. CASE granted' = granted
  <2>1. \A s \in Peers \cup TransferIds : Spent(s)' + yes[s] <= Spent(s) + yes'[s]
    <3> SUFFICES ASSUME NEW s \in Peers \cup TransferIds PROVE Spent(s)' + yes[s] <= Spent(s) + yes'[s]
      OBVIOUS
    <3>1. Spent(s)' = Spent(s) /\ Spent(s) \in Nat /\ yes[s] \in Nat
      BY <1>4, <1>5, SpentNat DEF Spent
    <3> QED
      BY <1>1, <3>1
  <2> QED
    BY <1>3, <2>1, ConsentKept
<1>6. CASE Head(decision[f]) = "yes" /\ granted' = Counted(granted, {f, IdOf[f]})
  <2>1. f \notin Peers \cup TransferIds
    BY FrontendAssumption
  <2> SUFFICES ASSUME NEW s \in Peers \cup TransferIds
               PROVE  (IsFiniteSet(Answered(s)) /\ Spent(s) + Cardinality(Answered(s)) <= yes[s])'
    BY DEF ConsentInv
  <2>2. IsFiniteSet(Answered(s)) /\ Spent(s) + Cardinality(Answered(s)) <= yes[s]
    BY DEF ConsentInv
  <2>3. granted[s] \in Nat /\ yes[s] \in Nat /\ granted \in [Subjects -> Nat] /\ s \in Subjects
    BY SpentNat DEF BagsOK, Subjects
  <2>4. granted'[s] = granted[s] + (IF s \in {f, IdOf[f]} THEN 1 ELSE 0)
    BY <1>6, <2>3, CountUp
  <2>5. /\ IsFiniteSet(Answered(s) \ {f})
        /\ f \in Answered(s) => Cardinality(Answered(s) \ {f}) = Cardinality(Answered(s)) - 1
    BY <2>2, FS_RemoveElement
  <2>6. IsFiniteSet(Answered(s)') /\ Cardinality(Answered(s)') <= Cardinality(Answered(s) \ {f})
    BY <1>3, <2>5, FS_Subset
  <2>7. /\ Cardinality(Answered(s)') \in Nat /\ Cardinality(Answered(s) \ {f}) \in Nat
        /\ Cardinality(Answered(s)) \in Nat /\ Cardinality(Answered(s) \ {f}) <= Cardinality(Answered(s))
    BY <2>2, <2>5, <2>6, FS_CardinalityType, FS_Subset
  <2>8. CASE s = IdOf[f]
    <3>1. f \in Answered(s)
      BY <1>1, <1>6, <2>8 DEF Answered
    <3>2. Spent(s)' = Spent(s) + 1 /\ Spent(s) \in Nat
      BY <1>4, <2>1, <2>3, <2>4, <2>8 DEF Spent
    <3> QED
      BY <1>1, <2>2, <2>3, <2>5, <2>6, <2>7, <3>1, <3>2
  <2>9. CASE s # IdOf[f]
    <3>1. Spent(s)' = Spent(s) /\ Spent(s) \in Nat
      BY <1>4, <2>1, <2>3, <2>4, <2>9 DEF Spent
    <3> QED
      BY <1>1, <2>2, <2>3, <2>6, <2>7, <3>1
  <2> QED
    BY <2>8, <2>9
<1> QED
  BY <1>1, <1>5, <1>6

\* Keys, Update, commands and decisions move consents along; nothing else touches them.
LEMMA ConsentStep ==
  ASSUME BagsOK, BagsOK', ShownInv, ConsentInv, [Next]_vars
  PROVE  ConsentInv'
<1>1. CASE Press
  BY <1>1, PressConsent
<1>2. CASE UpdateApp
  BY <1>2, UpdateConsent
<1>3. CASE RunSomeCmd
  BY <1>3, OrdinaryCommands, OrdinaryConsent, EmitConsent, DecideConsent, DecideFileConsent DEF RunSomeCmd
<1>4. ASSUME UNCHANGED <<cmds, msgs, yes, granted>>, \A s : Answered(s)' \subseteq Answered(s)
      PROVE  ConsentInv'
  <2>1. \A s \in Peers \cup TransferIds : Spent(s)' = Spent(s) /\ Spent(s) \in Nat /\ yes[s] \in Nat
    BY <1>4, SpentNat DEF Spent, ConnUnderWay, FileUnderWay
  <2>2. \A s \in Peers \cup TransferIds : Spent(s)' + yes[s] <= Spent(s) + yes'[s]
    BY <1>4, <2>1
  <2> QED
    BY <1>4, <2>2, ConsentKept
<1>5. ASSUME UNCHANGED <<cmds, msgs, yes, granted, handling, decision>>
      PROVE  ConsentInv'
  BY <1>4, <1>5, SameAnswered
<1>6. CASE Exchange \/ SubscribeAll \/ ForwardEvent \/ SendToStream \/ RecvFromStream
  BY <1>5, <1>6
  DEF Exchange, SubscribeAll, ForwardEvent, SendToStream, RecvFromStream, program, history, node, receiver
<1>7. CASE Quit \/ Panic \/ BreakStream \/ TorBecomesReady \/ ConnectionRequest
  BY <1>5, <1>7
  DEF Quit, Panic, BreakStream, TorBecomesReady, ConnectionRequest, outside, program, history, node, receiver
<1>8. CASE MessageArrives \/ PeerOnline \/ RemoveContact
  BY <1>5, <1>8 DEF MessageArrives, PeerOnline, RemoveContact, program, history, node, receiver
<1>9. CASE OfferArrives
  <2>1. PICK f \in Offers : handling[f] = "none" /\ handling' = [handling EXCEPT ![f] = "waiting"]
    BY <1>9 DEF OfferArrives
  <2>2. UNCHANGED <<cmds, msgs, yes, granted, decision>>
    BY <1>9 DEF OfferArrives, program, history
  <2>3. decision[f] = <<>> /\ \A g \in Offers : g # f => handling'[g] = handling[g]
    BY <2>1 DEF ShownInv, NodeOK
  <2>4. \A s : Answered(s)' \subseteq Answered(s)
    BY <2>2, <2>3 DEF Answered
  <2> QED
    BY <1>4, <2>2, <2>4
<1>10. ASSUME NEW f \in Offers, OfferTimeout(f) \/ OfferForgotten(f)
       PROVE  ConsentInv'
  <2>1. UNCHANGED <<cmds, msgs, yes, granted, decision>>
    BY <1>10 DEF OfferTimeout, OfferForgotten, program, history
  <2>2. \A g \in Offers : handling'[g] = handling[g] \/ handling'[g] # "waiting"
    BY <1>10 DEF OfferTimeout, OfferForgotten, ShownInv, NodeOK
  <2>3. \A s : Answered(s)' \subseteq Answered(s)
    BY <2>1, <2>2 DEF Answered
  <2> QED
    BY <1>4, <2>1, <2>3
<1>11. CASE OfferExpires
  BY <1>10, <1>11 DEF OfferExpires
<1>12. CASE OfferHandled
  BY <1>10, <1>12, DecidedConsent DEF OfferHandled
<1>13. CASE UNCHANGED vars
  BY <1>5, <1>13 DEF vars, node, receiver
<1> QED
  BY <1>1, <1>2, <1>3, <1>6, <1>7, <1>8, <1>9, <1>11, <1>12, <1>13 DEF Next, System, Environment

\* No key has been pressed and no offer has come.
LEMMA ConsentInit ==
  ASSUME Init
  PROVE  ShownInv /\ ConsentInv
<1> DEFINE start == {Cmd(op, <<>>) : op \in {"loadIdentity", "loadStatus", "subscribe"}}
<1>1. msgs = SetToBag({})
  BY DEF Init, EmptyBag
<1>2. PICK S : cmds = SetToBag(S) /\ \A c \in S : c.op \notin Answers
  <2>1. \A c \in start \cup {Cmd("wait", <<>>)} : c.op \notin Answers
    BY CmdFields DEF Answers, Consents, FileCalls
  <2>2. cmds = SetToBag(start) \/ cmds = SetToBag({Cmd("wait", <<>>)})
    BY DEF Init
  <2> HIDE DEF start
  <2> QED
    BY <2>1, <2>2
<1>3. \A T : BagToSet(SetToBag(T)) = T
  BY DEF SetToBag, BagToSet
<1>4. /\ yes = [s \in Subjects |-> 0] /\ granted = [s \in Subjects |-> 0] /\ pending = {}
      /\ parked = [i \in TransferIds |-> None]
      /\ handling = [f \in Offers |-> "none"] /\ decision = [f \in Offers |-> <<>>]
  BY DEF Init
<1>5. \A c \in Present : c.op \notin Answers
  BY <1>1, <1>2, <1>3 DEF Present
<1>6. ConsentInv
  <2> SUFFICES ASSUME NEW s \in Peers \cup TransferIds
               PROVE  IsFiniteSet(Answered(s)) /\ Spent(s) + Cardinality(Answered(s)) <= yes[s]
    BY DEF ConsentInv
  <2>1. Answered(s) = {}
    BY <1>4 DEF Answered
  <2>2. IsFiniteSet(Answered(s)) /\ Cardinality(Answered(s)) = 0
    BY <2>1, FS_EmptySet
  <2>3. ASSUME NEW op \in Consents
        PROVE  Copies(Cmd(op, <<s>>), cmds) = 0 /\ Copies(Cmd(op, <<s>>), msgs) = 0
    <3>1. Cmd(op, <<s>>) \notin Present
      BY <1>5, CmdFields DEF Answers
    <3> QED
      BY <3>1 DEF Copies, Present
  <2>4. ConnUnderWay(s) = 0 /\ FileUnderWay(s) = 0
    BY <2>3 DEF ConnUnderWay, FileUnderWay, Consents
  <2>5. granted[s] = 0 /\ yes[s] = 0
    BY <1>4 DEF Subjects
  <2> QED
    BY <2>2, <2>4, <2>5 DEF Spent
<1>7. NodeOK
  <2>1. <<>> \in Seq({"yes", "no"})
    BY EmptySeq
  <2> QED
    BY <1>4, <2>1 DEF NodeOK
<1>8. Prompted(app)
  <2>1. app.screen # "FileOffer" /\ app.prev # "FileOffer" /\ {"screen", "prev", "offer"} \subseteq DOMAIN app
    <3>1. CASE app = NewApp
      BY <3>1 DEF NewApp
    <3>2. CASE \E list : app = [NewApp EXCEPT !.screen = "Home", !.identityReady = TRUE, !.torReady = TRUE,
                                              !.contacts = list, !.eventChan = TRUE]
      BY <3>2 DEF NewApp
    <3> QED
      BY <3>1, <3>2 DEF Init
  <2> QED
    BY <2>1 DEF Prompted
<1>9. \A f \in Offers : "yes" \notin ToSet(decision[f]) /\ granted[f] = 0
  BY <1>4 DEF ToSet, Subjects
<1>10. \A c \in Present : Backed(c)
  BY <1>5 DEF Backed, Answers, FileCalls
<1> QED
  BY <1>6, <1>7, <1>8, <1>9, <1>10 DEF ShownInv

\* Every yes is spent once: what was granted, what is on its way to the node as a command,
\* a message or a call, and what lies in the channels of waiting offers is backed by
\* prompts that showed the peer, or an offer with the transfer id; for every number of
\* peers, offers and calls, and whichever offers share an id.
THEOREM ConsentInvariant == Spec => [](ShownInv /\ ConsentInv)
<1>1. Init => ShownInv /\ ConsentInv
  BY ConsentInit
<1>2. FrontendInv /\ FrontendInv' /\ EventInv /\ (ShownInv /\ ConsentInv) /\ [Next]_vars
        => (ShownInv /\ ConsentInv)'
  BY ShownStep, ConsentStep DEF FrontendInv, EventInv
<1> QED
  BY <1>1, <1>2, FrontendInvariant, EventInvariant, PTL DEF Spec

\* AcceptConnection succeeds for a peer, and files are accepted under a transfer id, at
\* most as often as the user pressed "y" at a prompt that showed the peer or a file with
\* the id, and a file is accepted only if one with its transfer id was shown.
THEOREM GrantsConsented == Spec => []ConsentBacksGrant
<1>1. FrontendInv /\ ShownInv /\ ConsentInv => ConsentBacksGrant
  <2> SUFFICES ASSUME FrontendInv, ShownInv, ConsentInv PROVE ConsentBacksGrant
    OBVIOUS
  <2>1. BagsOK
    BY DEF FrontendInv
  <2>2. ASSUME NEW s \in Peers \cup TransferIds PROVE granted[s] <= yes[s]
    <3>1. \A e : Copies(e, cmds) \in Nat /\ Copies(e, msgs) \in Nat
      BY <2>1, SpentNat
    <3>2. granted[s] \in Nat /\ yes[s] \in Nat
      BY <2>1, SpentNat
    <3>3. ConnUnderWay(s) \in Nat /\ FileUnderWay(s) \in Nat
      BY <3>1 DEF ConnUnderWay, FileUnderWay
    <3>4. IsFiniteSet(Answered(s)) /\ Spent(s) + Cardinality(Answered(s)) <= yes[s]
      BY DEF ConsentInv
    <3>5. Cardinality(Answered(s)) \in Nat
      BY <3>4, FS_CardinalityType
    <3> QED
      BY <3>2, <3>3, <3>4, <3>5 DEF Spent
  <2>3. \A f \in Offers : granted[f] > 0 => \E g \in Offers : IdOf[g] = IdOf[f] /\ yes[g] > 0
    BY DEF ShownInv, Shown
  <2> QED
    BY <2>2, <2>3 DEF ConsentBacksGrant
<1> QED
  BY <1>1, FrontendInvariant, ConsentInvariant, PTL
=============================================================================
