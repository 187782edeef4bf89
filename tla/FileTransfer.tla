---------------------------- MODULE FileTransfer ----------------------------
(***************************************************************************)
(* One file transfer (internal/filetransfer): Sender.OfferFile with its    *)
(* sliding window, Receiver.handleIncoming with its verify-acknowledge-    *)
(* store loop, the libp2p stream between them, and the AcceptFile and      *)
(* RejectFile calls that answer the offer.                                 *)
(*                                                                         *)
(* The stream is FIFO and bounded in both directions.  Of a chunk on the   *)
(* wire only its index matters and whether its bytes are those the Merkle  *)
(* root of the offer commits to: the sender reads the file again for every *)
(* transmission, and the file may have changed since it was hashed.        *)
(* VerifyProof itself is module Merkle.                                    *)
(***************************************************************************)
EXTENDS Naturals, Sequences, FiniteSets

CONSTANTS
  Total,        \* Transfer.Total: chunks of the offered file
  WindowSize,   \* const WindowSize
  MaxRetries,   \* const MaxRetries: retransmissions of one chunk
  MaxUint32,    \* largest value of inFlight
  FwdCap,       \* chunks the stream buffers towards the receiver
  BwdCap,       \* acknowledgements the stream buffers towards the sender
  Callers,      \* calls of AcceptFile and RejectFile
  Faults        \* what may go wrong: subset of AllFaults

AllFaults == {"break", "timeout", "edit", "cancel", "disk", "refuse"}

\* An empty file is not offered (NewChunkerWithSize).  A stream buffers at
\* least a window of the small acknowledgements.
ASSUME TransferAssumption ==
  /\ Total \in Nat \ {0}
  /\ WindowSize \in Nat \ {0}
  /\ MaxRetries \in Nat
  /\ MaxUint32 \in Nat /\ WindowSize < MaxUint32
  /\ FwdCap \in Nat \ {0}
  /\ BwdCap \in Nat /\ WindowSize <= BwdCap
  /\ Faults \subseteq AllFaults

VARIABLES
  \* OfferFile and sendChunks
  spc,          \* where the sender is
  file,         \* file[i]: bytes of chunk i on the sender's disk now
  nextToSend, inFlight, retries, acked,
  resend,       \* the chunk to retransmit in state "resend"
  xferAcked,    \* Transfer.acked of the sender's Transfer
  ctxDone,      \* CancelTransfer, or the caller's context
  \* the stream
  reply,        \* FILE_ACCEPT or FILE_REJECT, the first message backwards
  fwd,          \* FILE_CHUNKs under way
  complete,     \* FILE_COMPLETE follows fwd
  bwd,          \* FILE_CHUNK_ACKs under way
  alive,        \* the stream is neither broken nor reset
  \* handleIncoming, receiveChunks, reassemble
  rpc,          \* where the receiver is
  stored,       \* stored[i]: what the receiver keeps of chunk i
  pending,      \* Receiver.pending holds the offer
  chan,         \* the offer's Decision channel, capacity one
  caller        \* caller[k]: state of an AcceptFile or RejectFile call

sendVars == <<spc, nextToSend, inFlight, retries, acked, resend, xferAcked>>
wireVars == <<reply, fwd, complete, bwd, alive>>
recvVars == <<rpc, stored>>
userVars == <<pending, chan, caller>>
vars == <<sendVars, file, ctxDone, wireVars, recvVars, userVars>>

Chunks == 0 .. Total - 1
ChunkMsg == [index : Chunks, good : BOOLEAN]
AckMsg == [index : Chunks, valid : BOOLEAN]
Decisions == {"accept", "reject"}
SenderEnd == {"done", "rejected", "failed"}
ReceiverEnd == {"saved", "rejected", "failed", "ignored"}

TypeOK ==
  /\ spc \in {"idle", "await", "top", "fill", "read", "resend", "drain"} \cup SenderEnd
  /\ file \in [Chunks -> {"same", "changed", "gone"}]
  /\ nextToSend \in 0 .. Total
  /\ inFlight \in 0 .. MaxUint32
  /\ retries \in [Chunks -> Nat]
  /\ acked \in SUBSET Chunks
  /\ resend \in Chunks
  /\ xferAcked \in Nat
  /\ ctxDone \in BOOLEAN
  /\ reply \in {"none", "FILE_ACCEPT", "FILE_REJECT"}
  /\ fwd \in Seq(ChunkMsg)
  /\ complete \in BOOLEAN
  /\ bwd \in Seq(AckMsg)
  /\ alive \in BOOLEAN
  /\ rpc \in {"listen", "asking", "yes", "no", "receiving"} \cup ReceiverEnd
  /\ stored \in [Chunks -> {"none", "same", "changed"}]
  /\ pending \in BOOLEAN
  /\ chan \in Decisions \cup {"empty"}
  /\ caller \in [Callers -> Decisions \cup {"idle", "returned"}]

Init ==
  /\ spc = "idle"
  /\ file = [i \in Chunks |-> "same"]
  /\ nextToSend = 0
  /\ inFlight = 0
  /\ retries = [i \in Chunks |-> 0]
  /\ acked = {}
  /\ resend = 0
  /\ xferAcked = 0
  /\ ctxDone = FALSE
  /\ reply = "none"
  /\ fwd = <<>>
  /\ complete = FALSE
  /\ bwd = <<>>
  /\ alive = TRUE
  /\ rpc = "listen"
  /\ stored = [i \in Chunks |-> "none"]
  /\ pending = FALSE
  /\ chan = "empty"
  /\ caller = [k \in Callers |-> "idle"]

----------------------------------------------------------------------------
(* Sender *)

\* Mutant of Fail: an error return leaves the stream as it is.
MutFail == spc' = "failed" /\ UNCHANGED wireVars

\* Every error return resets the stream, which drops what is under way.
Fail ==
  /\ spc' = "failed"
  /\ alive' = FALSE
  /\ fwd' = <<>>
  /\ bwd' = <<>>
  /\ reply' = "none"
  /\ UNCHANGED complete

\* The file has been hashed; open the stream and write FILE_OFFER.
OfferFile ==
  /\ spc = "idle"
  /\ \/ /\ alive
        /\ spc' = "await"
        /\ UNCHANGED wireVars
     \/ (~alive \/ ctxDone) /\ Fail
  /\ UNCHANGED <<file, nextToSend, inFlight, retries, acked, resend, xferAcked,
                 ctxDone, recvVars, userVars>>

\* The answer decides; it may also not come in time, or the caller give up.
ReadReply ==
  /\ spc = "await"
  /\ \/ /\ reply = "FILE_ACCEPT"
        /\ spc' = "top"
        /\ reply' = "none"
        /\ UNCHANGED <<fwd, complete, bwd, alive>>
     \/ /\ reply = "FILE_REJECT"
        /\ spc' = "rejected"
        /\ reply' = "none"
        /\ UNCHANGED <<fwd, complete, bwd, alive>>
     \/ /\ \/ ctxDone
           \/ reply = "none" /\ (~alive \/ rpc \in ReceiverEnd \/ "timeout" \in Faults)
        /\ Fail
  /\ UNCHANGED <<file, nextToSend, inFlight, retries, acked, resend, xferAcked,
                 ctxDone, recvVars, userVars>>

\* The head of the loop is the only place that looks at ctx.
LoopHead ==
  /\ spc = "top"
  /\ \/ ctxDone /\ Fail
     \/ ~ctxDone /\ spc' = "fill" /\ UNCHANGED wireVars
  /\ UNCHANGED <<file, nextToSend, inFlight, retries, acked, resend, xferAcked,
                 ctxDone, recvVars, userVars>>

\* sendOneChunk: read the chunk from disk, write it to the stream.
CanTransmit(i) == alive /\ file[i] # "gone" /\ Len(fwd) < FwdCap
Transmit(i) == fwd' = Append(fwd, [index |-> i, good |-> file[i] = "same"])
TransmitFails(i) ==
  \/ file[i] = "gone" \/ ~alive \/ rpc \in ReceiverEnd
  \/ Len(fwd) = FwdCap /\ "timeout" \in Faults

\* Mutant of WindowOpen: one chunk more than the window.
MutWindowOpen == inFlight <= WindowSize /\ nextToSend < Total

WindowOpen == inFlight < WindowSize /\ nextToSend < Total

\* The inner loop: transmit the next chunk, skip one already acknowledged.
FillWindow ==
  /\ spc = "fill"
  /\ WindowOpen
  /\ \/ /\ nextToSend \in acked \/ CanTransmit(nextToSend)
        /\ nextToSend' = nextToSend + 1
        /\ IF nextToSend \in acked
             THEN UNCHANGED <<inFlight, fwd>>
             ELSE inFlight' = inFlight + 1 /\ Transmit(nextToSend)
        /\ UNCHANGED <<spc, reply, complete, bwd, alive>>
     \/ /\ nextToSend \notin acked
        /\ TransmitFails(nextToSend)
        /\ Fail
        /\ UNCHANGED <<nextToSend, inFlight>>
  /\ UNCHANGED <<file, retries, acked, resend, xferAcked, ctxDone, recvVars, userVars>>

\* Mutant of AllAcked: off by one.
MutAllAcked == Cardinality(acked) + 1 >= Total

\* len(acked) >= total
AllAcked == Cardinality(acked) >= Total

\* Nothing more to send: FILE_COMPLETE and CloseWrite, or read an ACK.
EndFill ==
  /\ spc = "fill"
  /\ ~WindowOpen
  /\ \/ /\ ~AllAcked
        /\ spc' = "read"
        /\ UNCHANGED wireVars
     \/ /\ AllAcked
        /\ alive
        /\ spc' = "drain"
        /\ complete' = TRUE
        /\ UNCHANGED <<reply, fwd, bwd, alive>>
     \/ /\ AllAcked
        /\ ~alive \/ rpc \in ReceiverEnd
        /\ Fail
  /\ UNCHANGED <<file, nextToSend, inFlight, retries, acked, resend, xferAcked,
                 ctxDone, recvVars, userVars>>

\* Mutant of Decrement: acknowledgements do not open the window.
MutDecrement(n) == n

\* uint32 arithmetic.
Decrement(n) == IF n = 0 THEN MaxUint32 ELSE n - 1

\* retries[i]++, and whether another transmission is allowed.
CountRetry(i) ==
  /\ retries' = [retries EXCEPT ![i] = @ + 1]
  /\ retries[i] + 1 <= MaxRetries

\* Mutant of ReadAck: the Valid field is not looked at.
MutReadAck ==
  /\ spc = "read"
  /\ bwd # <<>>
  /\ inFlight' = Decrement(inFlight)
  /\ acked' = acked \cup {Head(bwd).index}
  /\ xferAcked' = xferAcked + 1
  /\ spc' = "top"
  /\ bwd' = Tail(bwd)
  /\ UNCHANGED <<file, nextToSend, retries, resend, reply, fwd, alive, complete,
                 ctxDone, recvVars, userVars>>

\* One FILE_CHUNK_ACK: count it, or go and retransmit.
ReadAck ==
  LET m == Head(bwd)
  IN  /\ spc = "read"
      /\ bwd # <<>>
      /\ inFlight' = Decrement(inFlight)
      /\ \/ /\ m.valid
            /\ acked' = acked \cup {m.index}
            /\ xferAcked' = xferAcked + 1
            /\ spc' = "top"
            /\ bwd' = Tail(bwd)
            /\ UNCHANGED <<retries, resend, reply, fwd, alive>>
         \/ /\ ~m.valid
            /\ CountRetry(m.index)
            /\ spc' = "resend"
            /\ resend' = m.index
            /\ bwd' = Tail(bwd)
            /\ UNCHANGED <<acked, xferAcked, reply, fwd, alive>>
         \/ /\ ~m.valid
            /\ retries[m.index] + 1 > MaxRetries
            /\ retries' = [retries EXCEPT ![m.index] = @ + 1]
            /\ Fail
            /\ UNCHANGED <<acked, xferAcked, resend>>
      /\ UNCHANGED <<file, nextToSend, complete, ctxDone, recvVars, userVars>>

ReadAckFails ==
  /\ spc = "read"
  /\ bwd = <<>>
  /\ ~alive \/ rpc \in ReceiverEnd \/ "timeout" \in Faults
  /\ Fail
  /\ UNCHANGED <<file, nextToSend, inFlight, retries, acked, resend, xferAcked,
                 ctxDone, recvVars, userVars>>

Retransmit ==
  /\ spc = "resend"
  /\ \/ /\ CanTransmit(resend)
        /\ Transmit(resend)
        /\ inFlight' = inFlight + 1
        /\ spc' = "top"
        /\ UNCHANGED <<reply, complete, bwd, alive>>
     \/ /\ TransmitFails(resend)
        /\ Fail
        /\ UNCHANGED inFlight
  /\ UNCHANGED <<file, nextToSend, retries, acked, resend, xferAcked, ctxDone,
                 recvVars, userVars>>

\* Read until the receiver closes; whatever the read returns is success.
Drain ==
  /\ spc = "drain"
  /\ rpc \in ReceiverEnd \/ ~alive \/ "timeout" \in Faults
  /\ spc' = "done"
  /\ UNCHANGED <<file, nextToSend, inFlight, retries, acked, resend, xferAcked,
                 ctxDone, wireVars, recvVars, userVars>>

----------------------------------------------------------------------------
(* Receiver *)

\* The offer arrives and is parked for the user, or the handler gives up: no
\* such service, no file handler, a bad envelope, a broken stream.
ReadOffer ==
  /\ rpc = "listen"
  /\ spc # "idle"
  /\ \/ /\ rpc' = "asking"
        /\ pending' = TRUE
     \/ /\ ~alive \/ "refuse" \in Faults
        /\ rpc' = "ignored"
        /\ UNCHANGED pending
  /\ UNCHANGED <<sendVars, file, ctxDone, wireVars, stored, chan, caller>>

\* The select: a decision, or two minutes.
AwaitDecision ==
  /\ rpc = "asking"
  /\ \/ /\ chan # "empty"
        /\ rpc' = IF chan = "accept" THEN "yes" ELSE "no"
        /\ chan' = "empty"
     \/ rpc' = "no" /\ UNCHANGED chan
  /\ UNCHANGED <<sendVars, file, ctxDone, wireVars, stored, pending, caller>>

\* Forget the offer and answer it.
Answer ==
  /\ pending' = FALSE
  /\ \/ /\ rpc = "no"
        /\ reply' = IF alive THEN "FILE_REJECT" ELSE reply
        /\ rpc' = "rejected"
     \/ /\ rpc = "yes"
        /\ alive
        /\ reply' = "FILE_ACCEPT"
        /\ rpc' = "receiving"
     \/ /\ rpc = "yes"
        /\ ~alive
        /\ rpc' = "failed"
        /\ UNCHANGED reply
  /\ UNCHANGED <<sendVars, file, ctxDone, fwd, complete, bwd, alive, stored, chan, caller>>

\* Mutant of Valid: the Merkle proof is not checked.
MutValid(m) == TRUE

\* SHA-256 and VerifyProof against the root of the offer.
Valid(m) == m.good

\* A FILE_CHUNK: verify, acknowledge, then keep it if it is valid.
ReceiveChunk ==
  LET m == Head(fwd)
  IN  /\ rpc = "receiving"
      /\ fwd # <<>>
      /\ fwd' = Tail(fwd)
      /\ \/ /\ alive
            /\ Len(bwd) < BwdCap
            /\ bwd' = Append(bwd, [index |-> m.index, valid |-> Valid(m)])
            /\ stored' = [stored EXCEPT ![m.index] =
                            IF ~Valid(m) THEN @ ELSE IF m.good THEN "same" ELSE "changed"]
            /\ UNCHANGED rpc
         \/ /\ ~alive
            /\ rpc' = "failed"
            /\ UNCHANGED <<bwd, stored>>
      /\ UNCHANGED <<sendVars, file, ctxDone, reply, complete, alive, userVars>>

Kept == {i \in Chunks : stored[i] # "none"}

\* FILE_COMPLETE: reassemble, which may fail on disk.
ReceiveComplete ==
  /\ rpc = "receiving"
  /\ fwd = <<>>
  /\ complete
  /\ \/ /\ Cardinality(Kept) = Total
        /\ rpc' = "saved"
     \/ /\ Cardinality(Kept) # Total \/ "disk" \in Faults
        /\ rpc' = "failed"
  /\ UNCHANGED <<sendVars, file, ctxDone, wireVars, stored, userVars>>

ReceiveFails ==
  /\ rpc = "receiving"
  /\ fwd = <<>>
  /\ ~alive \/ "timeout" \in Faults
  /\ ~complete
  /\ rpc' = "failed"
  /\ UNCHANGED <<sendVars, file, ctxDone, wireVars, stored, userVars>>

----------------------------------------------------------------------------
(* AcceptFile and RejectFile, and what goes wrong *)

\* Look the offer up.  Without one the call returns an error.
CallDecision(k, d) ==
  /\ caller[k] = "idle"
  /\ caller' = [caller EXCEPT ![k] = IF pending THEN d ELSE "returned"]
  /\ UNCHANGED <<sendVars, file, ctxDone, wireVars, recvVars, pending, chan>>

\* Send the decision on the channel: blocks while it is full.
SendDecision(k) ==
  /\ caller[k] \in Decisions
  /\ chan = "empty"
  /\ chan' = caller[k]
  /\ caller' = [caller EXCEPT ![k] = "returned"]
  /\ UNCHANGED <<sendVars, file, ctxDone, wireVars, recvVars, pending>>

\* The connection breaks; what had arrived may still be read or be lost.
Break ==
  /\ "break" \in Faults
  /\ alive
  /\ alive' = FALSE
  /\ \/ UNCHANGED <<reply, fwd, bwd, complete>>
     \/ /\ reply' = "none"
        /\ fwd' = <<>>
        /\ bwd' = <<>>
        /\ complete' = FALSE
  /\ UNCHANGED <<sendVars, file, ctxDone, recvVars, userVars>>

\* The file is edited, restored or removed while it is being sent.
EditFile(i, v) ==
  /\ "edit" \in Faults
  /\ spc \notin SenderEnd
  /\ file[i] # v
  /\ file' = [file EXCEPT ![i] = v]
  /\ UNCHANGED <<sendVars, ctxDone, wireVars, recvVars, userVars>>

CancelTransfer ==
  /\ "cancel" \in Faults
  /\ ~ctxDone
  /\ ctxDone' = TRUE
  /\ UNCHANGED <<sendVars, file, wireVars, recvVars, userVars>>

----------------------------------------------------------------------------
SenderStep ==
  \/ OfferFile
  \/ ReadReply
  \/ LoopHead
  \/ FillWindow
  \/ EndFill
  \/ ReadAck
  \/ ReadAckFails
  \/ Retransmit
  \/ Drain

ReceiverStep ==
  \/ ReadOffer
  \/ AwaitDecision
  \/ Answer
  \/ ReceiveChunk
  \/ ReceiveComplete
  \/ ReceiveFails

Environment ==
  \/ \E k \in Callers : (\E d \in Decisions : CallDecision(k, d)) \/ SendDecision(k)
  \/ Break
  \/ \E i \in Chunks, v \in {"same", "changed", "gone"} : EditFile(i, v)
  \/ CancelTransfer

Next == SenderStep \/ ReceiverStep \/ Environment

Spec == Init /\ [][Next]_vars

\* Both goroutines and the calls in progress are scheduled.  Nobody has to
\* answer the offer, and nothing has to go wrong.
FairSpec ==
  /\ Spec
  /\ WF_vars(SenderStep)
  /\ WF_vars(ReceiverStep)
  /\ \A k \in Callers : WF_vars(SendDecision(k))

----------------------------------------------------------------------------
(* Properties *)

Sending == spc \in {"top", "fill", "read", "resend"}

\* The window: never more than WindowSize chunks unacknowledged, so that the
\* counter does not wrap below zero and neither side blocks on the ACKs.
WindowRespected ==
  /\ inFlight <= WindowSize
  /\ Sending => Len(fwd) + Len(bwd) <= inFlight
  /\ Len(bwd) <= WindowSize

\* Every chunk is acknowledged as valid once: the progress the two sides show
\* is the number of chunks that were delivered.
AckedOnce == xferAcked = Cardinality(acked)

\* A chunk is transmitted at most MaxRetries times after the first, however
\* often the file changes.
RetriesBounded == spc # "failed" => \A i \in Chunks : retries[i] <= MaxRetries

\* The receiver keeps only bytes the offer's Merkle root commits to, and a
\* file it saves is the file that was hashed, also when the file on the
\* sender's disk changed half way.
SavedIsOffered ==
  /\ \A i \in Chunks : stored[i] # "changed"
  /\ rpc = "saved" => \A i \in Chunks : stored[i] = "same"

\* FILE_COMPLETE is sent only when the receiver has everything: reassemble
\* never reports an incomplete transfer.
CompleteMeansHeld ==
  (complete \/ spc \in {"drain", "done"}) => Kept = Chunks

----------------------------------------------------------------------------
(* The inductive invariant *)

\* Every chunk is at most once on its way, as a chunk or as its ACK, and none
\* of those on their way has been acknowledged; a positive ACK says the
\* receiver keeps the chunk.
InFlightInv ==
  /\ \A j \in 1 .. Len(fwd) : fwd[j].index < nextToSend /\ fwd[j].index \notin acked
  /\ \A j \in 1 .. Len(bwd) :
       /\ bwd[j].index < nextToSend /\ bwd[j].index \notin acked
       /\ bwd[j].valid => stored[bwd[j].index] = "same"
  /\ \A j, k \in 1 .. Len(fwd) : j # k => fwd[j].index # fwd[k].index
  /\ \A j, k \in 1 .. Len(bwd) : j # k => bwd[j].index # bwd[k].index
  /\ \A j \in 1 .. Len(fwd), k \in 1 .. Len(bwd) : fwd[j].index # bwd[k].index

\* The chunk about to be retransmitted is nowhere else, and has room.
ResendInv ==
  spc = "resend" =>
    /\ resend < nextToSend /\ resend \notin acked
    /\ inFlight < WindowSize
    /\ \A j \in 1 .. Len(fwd) : fwd[j].index # resend
    /\ \A j \in 1 .. Len(bwd) : bwd[j].index # resend

\* Outside the loop of sendChunks the stream carries neither chunks nor ACKs.
QuietInv == ~Sending => fwd = <<>> /\ bwd = <<>>

\* What the sender takes for acknowledged is what the receiver keeps.
AckedInv ==
  /\ \A i \in acked : i < nextToSend /\ stored[i] = "same"
  /\ complete \/ spc \in {"drain", "done"} => acked = Chunks

TransferInv ==
  /\ TypeOK /\ WindowRespected /\ InFlightInv /\ ResendInv /\ QuietInv
  /\ AckedInv /\ AckedOnce /\ RetriesBounded /\ SavedIsOffered

----------------------------------------------------------------------------
(* Implementation and liveness *)

\* The refinement mapping to FileDelivery.
Consent ==
  CASE rpc \in {"listen", "asking", "ignored"} -> "none"
    [] rpc \in {"no", "rejected"} -> "no"
    [] OTHER -> "yes"
Held == \A i \in Chunks : stored[i] = "same"
Saved == rpc = "saved"
Reported ==
  CASE spc = "done" -> "success"
    [] spc \in {"failed", "rejected"} -> "failure"
    [] OTHER -> "none"

Delivery == INSTANCE FileDelivery WITH
  consent <- Consent, held <- Held, saved <- Saved, reported <- Reported

\* The transfer does what FileDelivery promises: OfferFile reports success,
\* and handleIncoming saves a file, only after consent and only when every
\* chunk of the offered file has been received and verified.
DeliverySpec == Delivery!Spec

\* Both sides come to an end, whatever goes wrong and whether or not the
\* user answers.
TransferEnds ==
  (spc = "await") ~> (spc \in SenderEnd /\ rpc \in ReceiverEnd)

\* What may come between: a cancelled context, an edited file, a connection
\* that broke before the sender reset the stream itself, a disk that fails when
\* every chunk is there.
Disturbed ==
  \/ ctxDone
  \/ \E i \in Chunks : file[i] # "same"
  \/ ~alive /\ spc # "failed"
  \/ rpc = "failed" /\ Cardinality(Kept) = Total

\* A file accepted while the sender waits is saved and reported, unless something
\* disturbs the transfer: neither side gives up, nor waits for the other, without cause.
AcceptedIsDelivered ==
  (rpc = "yes" /\ spc = "await") ~> (rpc = "saved" /\ spc = "done") \/ Disturbed
=============================================================================
