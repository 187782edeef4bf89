------------------------ MODULE FileTransferProofs ------------------------
(***************************************************************************)
(* The package filetransfer.                                               *)
(*                                                                         *)
(* The sliding window of a transfer is safe for every file size, window,   *)
(* retry limit and stream buffer, under every fault.                       *)
(*                                                                         *)
(* The hash tree of an offer admits, at every place, the chunk that was    *)
(* hashed and no other, for every number of chunks: the climb from a leaf  *)
(* meets the tree's own nodes level by level, and a pair has one hash.  So *)
(* the receiver's chunks are those that were read, and what it writes is   *)
(* the file that was hashed.                                               *)
(***************************************************************************)
EXTENDS FileTransfer, FileChunks, FiniteSetTheorems, SequenceTheorems, WellFoundedInduction, TLAPS

----------------------------------------------------------------------------
(* Sequences: what a receive and a send do to a stream *)

\* Taking the first message off a stream.
LEMMA TailFacts ==
  ASSUME NEW S, NEW s \in Seq(S), s # <<>>
  PROVE  /\ Len(s) \in Nat /\ Len(s) >= 1
         /\ Tail(s) \in Seq(S) /\ Len(Tail(s)) = Len(s) - 1
         /\ Head(s) = s[1] /\ Head(s) \in S
         /\ \A j \in 1 .. Len(Tail(s)) : Tail(s)[j] = s[j + 1] /\ j + 1 \in 1 .. Len(s)
<1>1. /\ Head(s) \in S /\ Tail(s) \in Seq(S)
      /\ \A j \in 1 .. Len(Tail(s)) : Tail(s)[j] = s[j + 1]
      /\ Len(Tail(s)) = Len(s) - 1
  BY HeadTailProperties
<1>2. Len(s) \in Nat /\ Len(s) # 0
  BY LenProperties, EmptySeq
<1>3. Head(s) = s[1]
  BY <1>2
<1>4. QED BY <1>1, <1>2, <1>3

\* Putting a message on a stream.
LEMMA AppendFacts ==
  ASSUME NEW S, NEW s \in Seq(S), NEW m \in S
  PROVE  /\ Append(s, m) \in Seq(S) /\ Len(s) \in Nat
         /\ Len(Append(s, m)) = Len(s) + 1
         /\ \A j \in 1 .. Len(s) : Append(s, m)[j] = s[j]
         /\ Append(s, m)[Len(s) + 1] = m
BY AppendProperties, LenProperties

\* An empty stream.
LEMMA EmptyFacts ==
  ASSUME NEW S
  PROVE  <<>> \in Seq(S) /\ Len(<<>>) = 0
BY EmptySeq

\* The chunks of a file are finitely many, Total of them.
LEMMA ChunksFinite ==
  /\ IsFiniteSet(Chunks) /\ Cardinality(Chunks) = Total
  /\ \A T \in SUBSET Chunks :
       /\ IsFiniteSet(T) /\ Cardinality(T) \in Nat /\ Cardinality(T) <= Total
       /\ Cardinality(T) = Total => T = Chunks
<1>1. IsFiniteSet(Chunks) /\ Cardinality(Chunks) = Total
  BY FS_Interval, TransferAssumption DEF Chunks
<1>2. ASSUME NEW T \in SUBSET Chunks
      PROVE  /\ IsFiniteSet(T) /\ Cardinality(T) \in Nat /\ Cardinality(T) <= Total
             /\ Cardinality(T) = Total => T = Chunks
  BY <1>1, FS_Subset, FS_CardinalityType
<1>3. QED BY <1>1, <1>2

----------------------------------------------------------------------------
(* Initial states, and the steps that end the transfer with an error *)

\* Nothing has been offered yet.
LEMMA TransferInit == Init => TransferInv
<1> SUFFICES ASSUME Init PROVE TransferInv
  OBVIOUS
<1>1. Total \in Nat /\ Total # 0 /\ 0 \in Chunks /\ MaxUint32 \in Nat
  BY TransferAssumption DEF Chunks
<1>2. fwd = <<>> /\ bwd = <<>> /\ Len(fwd) = 0 /\ Len(bwd) = 0
      /\ fwd \in Seq(ChunkMsg) /\ bwd \in Seq(AckMsg)
  BY EmptyFacts DEF Init
<1>3. TypeOK
  BY <1>1, <1>2 DEF Init, TypeOK, SenderEnd, ReceiverEnd, Decisions
<1>4. WindowRespected /\ InFlightInv /\ ResendInv /\ QuietInv
  BY <1>1, <1>2, TransferAssumption
     DEF Init, WindowRespected, InFlightInv, ResendInv, QuietInv, Sending
<1>5. AckedInv /\ AckedOnce /\ RetriesBounded /\ SavedIsOffered
  BY <1>1, FS_EmptySet, TransferAssumption
     DEF Init, AckedInv, AckedOnce, RetriesBounded, SavedIsOffered
<1>6. QED BY <1>3, <1>4, <1>5 DEF TransferInv

\* An error return of the sender empties the stream and keeps the rest.
LEMMA FailStep ==
  ASSUME TransferInv, Fail, retries' \in [Chunks -> Nat],
         inFlight' \in Nat, inFlight' <= WindowSize,
         UNCHANGED <<file, nextToSend, acked, resend, xferAcked, ctxDone,
                     recvVars, userVars>>
  PROVE  TransferInv'
<1>1. /\ fwd' = <<>> /\ bwd' = <<>> /\ Len(fwd') = 0 /\ Len(bwd') = 0
      /\ fwd' \in Seq(ChunkMsg) /\ bwd' \in Seq(AckMsg)
  BY EmptyFacts DEF Fail
<1>2. TypeOK'
  <2>1. inFlight' \in 0 .. MaxUint32
    BY TransferAssumption
  <2>2. QED
    BY <1>1, <2>1 DEF TransferInv, TypeOK, Fail, SenderEnd, recvVars, userVars
<1>3. ~Sending' /\ spc' = "failed"
  BY DEF Sending, Fail
<1>4. WindowRespected' /\ InFlightInv' /\ ResendInv' /\ QuietInv' /\ RetriesBounded'
  BY <1>1, <1>3, TransferAssumption
     DEF WindowRespected, InFlightInv, ResendInv, QuietInv, RetriesBounded
<1>5. AckedInv' /\ AckedOnce' /\ SavedIsOffered'
  BY <1>3 DEF TransferInv, AckedInv, AckedOnce, SavedIsOffered, Fail, recvVars
<1>6. QED BY <1>2, <1>4, <1>5 DEF TransferInv

----------------------------------------------------------------------------
(* Sender *)

\* Steps of the sender that neither send a chunk nor read an ACK.
LEMMA MoveStep ==
  ASSUME TransferInv,
         spc' \in {"await", "top", "fill", "read", "drain", "rejected", "done"},
         spc # "failed",
         reply' \in {"none", "FILE_ACCEPT", "FILE_REJECT"}, complete' \in BOOLEAN,
         Sending' => Len(fwd) + Len(bwd) <= inFlight,
         ~Sending' => fwd = <<>> /\ bwd = <<>>,
         complete' \/ spc' \in {"drain", "done"} => acked = Chunks,
         UNCHANGED <<file, nextToSend, inFlight, retries, acked, resend, xferAcked,
                     ctxDone, fwd, bwd, alive, recvVars, userVars>>
  PROVE  TransferInv'
<1>1. TypeOK'
  BY DEF TransferInv, TypeOK, SenderEnd, recvVars, userVars
<1>2. WindowRespected' /\ InFlightInv' /\ ResendInv' /\ QuietInv' /\ RetriesBounded'
  BY DEF TransferInv, WindowRespected, InFlightInv, ResendInv, QuietInv, RetriesBounded,
         recvVars
<1>3. AckedInv' /\ AckedOnce' /\ SavedIsOffered'
  BY DEF TransferInv, AckedInv, AckedOnce, SavedIsOffered, recvVars
<1>4. QED BY <1>1, <1>2, <1>3 DEF TransferInv

\* When every chunk is acknowledged nothing is under way any more.
LEMMA AllAckedQuiet ==
  ASSUME TransferInv, AllAcked
  PROVE  acked = Chunks /\ fwd = <<>> /\ bwd = <<>>
<1>1. acked = Chunks
  BY ChunksFinite, TransferAssumption DEF TransferInv, TypeOK, AllAcked
<1>2. ASSUME fwd # <<>> PROVE FALSE
  <2>1. Head(fwd) = fwd[1] /\ Head(fwd) \in ChunkMsg /\ 1 \in 1 .. Len(fwd)
    BY <1>2, TailFacts DEF TransferInv, TypeOK
  <2>2. QED BY <1>1, <2>1 DEF TransferInv, InFlightInv, ChunkMsg
<1>3. ASSUME bwd # <<>> PROVE FALSE
  <2>1. Head(bwd) = bwd[1] /\ Head(bwd) \in AckMsg /\ 1 \in 1 .. Len(bwd)
    BY <1>3, TailFacts DEF TransferInv, TypeOK
  <2>2. QED BY <1>1, <2>1 DEF TransferInv, InFlightInv, AckMsg
<1>4. QED BY <1>1, <1>2, <1>3

\* sendOneChunk of a chunk that is nowhere on its way: FillWindow and
\* Retransmit.
LEMMA SendStep ==
  ASSUME TransferInv, Sending, NEW i \in Chunks, Transmit(i),
         i \notin acked, i < nextToSend', inFlight < WindowSize,
         \A j \in 1 .. Len(fwd) : fwd[j].index # i,
         \A j \in 1 .. Len(bwd) : bwd[j].index # i,
         nextToSend' \in 0 .. Total, nextToSend <= nextToSend',
         inFlight' = inFlight + 1, spc' \in {"fill", "top"},
         UNCHANGED <<file, retries, acked, resend, xferAcked, ctxDone,
                     reply, complete, bwd, alive, recvVars, userVars>>
  PROVE  TransferInv'
<1> DEFINE m == [index |-> i, good |-> file[i] = "same"]
<1>1. /\ TypeOK /\ WindowRespected /\ InFlightInv /\ QuietInv /\ AckedInv
      /\ AckedOnce /\ RetriesBounded /\ SavedIsOffered
  BY DEF TransferInv
<1>2. m \in ChunkMsg /\ m.index = i
  BY DEF ChunkMsg
<1>3. /\ fwd' \in Seq(ChunkMsg) /\ Len(fwd) \in Nat /\ Len(fwd') = Len(fwd) + 1
      /\ \A j \in 1 .. Len(fwd) : fwd'[j] = fwd[j]
      /\ fwd'[Len(fwd) + 1] = m
  BY <1>1, <1>2, AppendFacts DEF TypeOK, Transmit
<1>4. Len(bwd) \in Nat /\ inFlight \in Nat /\ nextToSend \in Nat
  BY <1>1, LenProperties DEF TypeOK
<1>5. TypeOK'
  <2>1. inFlight' \in 0 .. MaxUint32
    BY <1>4, TransferAssumption
  <2>2. QED BY <1>1, <1>3, <2>1 DEF TypeOK, recvVars, userVars
<1>6. WindowRespected'
  BY <1>1, <1>3, <1>4, TransferAssumption DEF WindowRespected
<1>7. InFlightInv'
  <2>1. \A j \in 1 .. Len(fwd') : j \in 1 .. Len(fwd) \/ j = Len(fwd) + 1
    BY <1>3
  <2>2. \A j \in 1 .. Len(fwd) : fwd[j] \in ChunkMsg
    BY <1>1 DEF TypeOK
  <2>3. \A j \in 1 .. Len(bwd) : bwd[j] \in AckMsg
    BY <1>1 DEF TypeOK
  <2>4. \A j \in 1 .. Len(fwd') : fwd'[j].index < nextToSend' /\ fwd'[j].index \notin acked'
    <3>1. TAKE j \in 1 .. Len(fwd')
    <3>2. CASE j \in 1 .. Len(fwd)
      <4>1. fwd'[j] = fwd[j] /\ fwd[j].index \in Nat
        BY <1>3, <2>2, <3>2 DEF ChunkMsg, Chunks
      <4>2. fwd[j].index < nextToSend /\ fwd[j].index \notin acked
        BY <1>1, <3>2 DEF InFlightInv
      <4>3. nextToSend' \in Nat
        BY TransferAssumption
      <4>4. QED BY <1>4, <4>1, <4>2, <4>3
    <3>3. CASE j = Len(fwd) + 1
      BY <1>2, <1>3, <3>3
    <3>4. QED BY <2>1, <3>2, <3>3
  <2>5. \A j \in 1 .. Len(bwd') :
          /\ bwd'[j].index < nextToSend' /\ bwd'[j].index \notin acked'
          /\ bwd'[j].valid => stored'[bwd'[j].index] = "same"
    BY <1>1, <1>4, <2>3 DEF InFlightInv, AckMsg, Chunks, recvVars
  <2>6. \A j, k \in 1 .. Len(fwd') : j # k => fwd'[j].index # fwd'[k].index
    BY <1>1, <1>2, <1>3, <2>1 DEF InFlightInv
  <2>7. \A j \in 1 .. Len(fwd'), k \in 1 .. Len(bwd') : fwd'[j].index # bwd'[k].index
    BY <1>1, <1>2, <1>3, <2>1 DEF InFlightInv
  <2>8. QED BY <1>1, <2>4, <2>5, <2>6, <2>7 DEF InFlightInv
<1>8. ResendInv' /\ QuietInv'
  BY DEF ResendInv, QuietInv, Sending
<1>9. AckedInv' /\ AckedOnce' /\ RetriesBounded' /\ SavedIsOffered'
  <2>1. \A k \in acked : k \in Nat
    BY <1>1 DEF TypeOK, Chunks
  <2>2. spc # "failed"
    BY DEF Sending
  <2>3. QED
    BY <1>1, <1>4, <2>1, <2>2
       DEF AckedInv, AckedOnce, RetriesBounded, SavedIsOffered, recvVars
<1>10. QED BY <1>5, <1>6, <1>7, <1>8, <1>9 DEF TransferInv

\* Sending the next chunk counts it and puts it on the wire.
LEMMA FillWindowStep == ASSUME TransferInv, FillWindow PROVE TransferInv'
<1>1. /\ TypeOK /\ InFlightInv /\ AckedInv /\ spc = "fill" /\ WindowOpen
  BY DEF TransferInv, FillWindow
<1>2. nextToSend \in Chunks /\ nextToSend \in Nat /\ nextToSend + 1 \in 0 .. Total
  BY <1>1, TransferAssumption DEF WindowOpen, TypeOK, Chunks
<1>3. nextToSend \notin acked
  BY <1>1, <1>2 DEF AckedInv
<1>4. CASE Transmit(nextToSend)
  <2>1. /\ spc' = "fill" /\ nextToSend' = nextToSend + 1 /\ inFlight' = inFlight + 1
        /\ UNCHANGED <<file, retries, acked, resend, xferAcked, ctxDone,
                       reply, complete, bwd, alive, recvVars, userVars>>
    <3>1. ~Fail
      <4>1. SUFFICES ASSUME Fail PROVE FALSE
        OBVIOUS
      <4>2. fwd' = <<>> /\ Len(fwd') = 0
        BY <4>1, EmptyFacts DEF Fail
      <4>3. Len(fwd) \in Nat /\ Len(fwd') = Len(fwd) + 1
        BY <1>1, <1>2, <1>4, AppendFacts DEF TypeOK, Transmit, ChunkMsg
      <4>4. QED BY <4>2, <4>3
    <3>2. QED BY <1>3, <1>1, <3>1 DEF FillWindow
  <2>2. \A j \in 1 .. Len(fwd) : fwd[j].index # nextToSend
    BY <1>1, <1>2 DEF InFlightInv
  <2>3. \A j \in 1 .. Len(bwd) : bwd[j].index # nextToSend
    BY <1>1, <1>2 DEF InFlightInv
  <2>4. Sending /\ inFlight < WindowSize
    BY <1>1 DEF Sending, WindowOpen
  <2>5. QED BY <1>2, <1>3, <1>4, <2>1, <2>2, <2>3, <2>4, SendStep
<1>5. CASE ~Transmit(nextToSend)
  <2>1. /\ Fail
        /\ UNCHANGED <<file, nextToSend, inFlight, retries, acked, resend, xferAcked,
                       ctxDone, recvVars, userVars>>
    BY <1>3, <1>5 DEF FillWindow
  <2>2. retries' \in [Chunks -> Nat] /\ inFlight' \in Nat /\ inFlight' <= WindowSize
    BY <2>1 DEF TransferInv, TypeOK, WindowRespected
  <2>3. QED BY <2>1, <2>2, FailStep
<1>6. QED BY <1>4, <1>5

\* Sending a chunk again leaves the count as it is.
LEMMA RetransmitStep == ASSUME TransferInv, Retransmit PROVE TransferInv'
<1>1. /\ TypeOK /\ WindowRespected /\ ResendInv /\ spc = "resend"
  BY DEF TransferInv, Retransmit
<1>2. CASE /\ Transmit(resend) /\ inFlight' = inFlight + 1 /\ spc' = "top"
           /\ UNCHANGED <<reply, complete, bwd, alive>>
  <2>1. /\ resend \in Chunks /\ resend \notin acked /\ resend < nextToSend
        /\ inFlight < WindowSize /\ Sending /\ nextToSend \in 0 .. Total
        /\ \A j \in 1 .. Len(fwd) : fwd[j].index # resend
        /\ \A j \in 1 .. Len(bwd) : bwd[j].index # resend
    BY <1>1 DEF ResendInv, TypeOK, Sending
  <2>2. UNCHANGED <<file, nextToSend, retries, acked, resend, xferAcked, ctxDone,
                    recvVars, userVars>>
    BY DEF Retransmit
  <2>3. nextToSend <= nextToSend'
    BY <2>1, <2>2
  <2>4. QED BY <1>2, <2>1, <2>2, <2>3, SendStep
<1>3. CASE Fail /\ UNCHANGED inFlight
  BY <1>1, <1>3, FailStep DEF TypeOK, WindowRespected, Retransmit
<1>4. QED BY <1>2, <1>3 DEF Retransmit

\* ReadAck takes an ACK that is still owed: the counter does not wrap, and
\* the chunk it names had not been acknowledged before.
LEMMA ReadAckStep == ASSUME TransferInv, ReadAck PROVE TransferInv'
<1> DEFINE m == Head(bwd)
<1>1. /\ TypeOK /\ WindowRespected /\ InFlightInv /\ QuietInv /\ AckedInv
      /\ AckedOnce /\ RetriesBounded /\ SavedIsOffered
      /\ spc = "read" /\ bwd # <<>> /\ Sending
  BY DEF TransferInv, ReadAck, Sending
<1>2. /\ Len(bwd) \in Nat /\ Len(bwd) >= 1
      /\ Tail(bwd) \in Seq(AckMsg) /\ Len(Tail(bwd)) = Len(bwd) - 1
      /\ m = bwd[1] /\ m \in AckMsg
      /\ \A j \in 1 .. Len(Tail(bwd)) : Tail(bwd)[j] = bwd[j + 1] /\ j + 1 \in 1 .. Len(bwd)
  BY <1>1, TailFacts DEF TypeOK
<1>3. /\ m.index \in Chunks /\ m.index \notin acked /\ m.index < nextToSend
      /\ m.valid => stored[m.index] = "same"
      /\ \A j \in 2 .. Len(bwd) : bwd[j].index # m.index
      /\ \A j \in 1 .. Len(fwd) : fwd[j].index # m.index
  BY <1>1, <1>2 DEF InFlightInv, AckMsg
<1>4. /\ Len(fwd) \in Nat /\ inFlight \in Nat /\ inFlight >= 1
      /\ inFlight' = inFlight - 1 /\ inFlight' < WindowSize
  BY <1>1, <1>2, LenProperties, TransferAssumption
     DEF TypeOK, WindowRespected, ReadAck, Decrement
<1>5. UNCHANGED <<file, nextToSend, complete, ctxDone, recvVars, userVars>>
  BY DEF ReadAck
\* What the two continuing outcomes have in common.
<1>6. ASSUME bwd' = Tail(bwd), UNCHANGED <<reply, fwd, alive>>,
             acked' \in {acked, acked \cup {m.index}}, spc' \in {"top", "resend"}
      PROVE  WindowRespected' /\ InFlightInv' /\ QuietInv'
  <2>1. WindowRespected'
    BY <1>1, <1>2, <1>4, <1>6, TransferAssumption DEF WindowRespected
  <2>2. \A j \in 1 .. Len(bwd') : bwd'[j] = bwd[j + 1] /\ j + 1 \in 2 .. Len(bwd)
    BY <1>2, <1>6
  <2>3. InFlightInv'
    <3>1. \A j \in 1 .. Len(fwd') : fwd'[j].index < nextToSend' /\ fwd'[j].index \notin acked'
      BY <1>1, <1>3, <1>5, <1>6 DEF InFlightInv
    <3>2. \A j \in 1 .. Len(bwd') :
            /\ bwd'[j].index < nextToSend' /\ bwd'[j].index \notin acked'
            /\ bwd'[j].valid => stored'[bwd'[j].index] = "same"
      BY <1>1, <1>3, <1>5, <1>6, <2>2 DEF InFlightInv, recvVars
    <3>3. \A j, k \in 1 .. Len(bwd') : j # k => bwd'[j].index # bwd'[k].index
      <4>1. SUFFICES ASSUME NEW j \in 1 .. Len(bwd'), NEW k \in 1 .. Len(bwd'), j # k
                     PROVE  bwd'[j].index # bwd'[k].index
        OBVIOUS
      <4>2. /\ bwd'[j] = bwd[j + 1] /\ bwd'[k] = bwd[k + 1]
            /\ j + 1 \in 1 .. Len(bwd) /\ k + 1 \in 1 .. Len(bwd)
        BY <2>2
      <4>3. j + 1 # k + 1
        BY <4>1
      <4>4. \A a, b \in 1 .. Len(bwd) : a # b => bwd[a].index # bwd[b].index
        BY <1>1, Zenon DEF InFlightInv
      <4>5. QED BY <4>2, <4>3, <4>4, Zenon
    <3>4. \A j \in 1 .. Len(fwd'), k \in 1 .. Len(bwd') : fwd'[j].index # bwd'[k].index
      BY <1>1, <1>6, <2>2 DEF InFlightInv
    <3>5. QED BY <1>1, <1>6, <3>1, <3>2, <3>3, <3>4 DEF InFlightInv
  <2>4. QED BY <1>6, <2>1, <2>3 DEF QuietInv, Sending
<1>7. CASE /\ m.valid /\ acked' = acked \cup {m.index} /\ xferAcked' = xferAcked + 1
           /\ spc' = "top" /\ bwd' = Tail(bwd)
           /\ UNCHANGED <<retries, resend, reply, fwd, alive>>
  <2>1. TypeOK'
    <3>1. inFlight' \in 0 .. MaxUint32
      BY <1>4, TransferAssumption
    <3>2. QED BY <1>1, <1>2, <1>3, <1>5, <1>7, <3>1 DEF TypeOK, recvVars, userVars
  <2>2. AckedOnce'
    <3>1. IsFiniteSet(acked)
      BY <1>1, ChunksFinite DEF TypeOK
    <3>2. Cardinality(acked') = Cardinality(acked) + 1
      BY <1>3, <1>7, <3>1, FS_AddElement
    <3>3. QED BY <1>1, <1>7, <3>2 DEF AckedOnce
  <2>3. AckedInv'
    BY <1>1, <1>3, <1>5, <1>7 DEF AckedInv, recvVars
  <2>4. ResendInv' /\ RetriesBounded' /\ SavedIsOffered'
    BY <1>1, <1>5, <1>7 DEF ResendInv, RetriesBounded, SavedIsOffered, recvVars
  <2>5. QED BY <1>6, <1>7, <2>1, <2>2, <2>3, <2>4 DEF TransferInv
<1>8. CASE /\ CountRetry(m.index) /\ spc' = "resend" /\ resend' = m.index
           /\ bwd' = Tail(bwd) /\ UNCHANGED <<acked, xferAcked, reply, fwd, alive>>
  <2>1. TypeOK'
    <3>1. inFlight' \in 0 .. MaxUint32
      BY <1>4, TransferAssumption
    <3>2. retries' \in [Chunks -> Nat]
      BY <1>1, <1>3, <1>8 DEF TypeOK, CountRetry
    <3>3. QED BY <1>1, <1>2, <1>3, <1>5, <1>8, <3>1, <3>2 DEF TypeOK, recvVars, userVars
  <2>2. ResendInv'
    BY <1>2, <1>3, <1>4, <1>5, <1>8 DEF ResendInv
  <2>3. RetriesBounded'
    BY <1>1, <1>3, <1>8, TransferAssumption DEF RetriesBounded, CountRetry, TypeOK
  <2>4. AckedInv' /\ AckedOnce' /\ SavedIsOffered'
    BY <1>1, <1>5, <1>8 DEF AckedInv, AckedOnce, SavedIsOffered, recvVars
  <2>5. QED BY <1>6, <1>8, <2>1, <2>2, <2>3, <2>4 DEF TransferInv
<1>9. CASE /\ Fail /\ retries' = [retries EXCEPT ![m.index] = @ + 1]
           /\ UNCHANGED <<acked, xferAcked, resend>>
  <2>1. retries' \in [Chunks -> Nat] /\ inFlight' \in Nat /\ inFlight' <= WindowSize
    BY <1>1, <1>3, <1>4, <1>9, TransferAssumption DEF TypeOK
  <2>2. QED BY <1>5, <1>9, <2>1, FailStep
<1>10. QED BY <1>7, <1>8, <1>9 DEF ReadAck

\* The steps of the sender preserve the invariant.
LEMMA SenderStepInv == ASSUME TransferInv, SenderStep PROVE TransferInv'
<1>1. TypeOK /\ WindowRespected /\ QuietInv /\ AckedInv
  BY DEF TransferInv
<1>2. inFlight \in Nat /\ inFlight <= WindowSize /\ retries \in [Chunks -> Nat]
      /\ Len(<<>>) = 0
  BY <1>1, EmptyFacts DEF TypeOK, WindowRespected
<1>3. ASSUME Fail, UNCHANGED <<file, nextToSend, inFlight, retries, acked, resend,
                               xferAcked, ctxDone, recvVars, userVars>>
      PROVE  TransferInv'
  BY <1>2, <1>3, FailStep
<1>4. CASE OfferFile
  <2>1. CASE Fail
    BY <1>3, <1>4, <2>1 DEF OfferFile
  <2>2. CASE ~Fail
    <3>1. /\ spc = "idle" /\ spc' = "await"
          /\ UNCHANGED <<file, nextToSend, inFlight, retries, acked, resend, xferAcked,
                         ctxDone, reply, fwd, complete, bwd, alive, recvVars, userVars>>
      BY <1>4, <2>2 DEF OfferFile, wireVars
    <3>2. ~Sending /\ ~Sending'
      BY <3>1 DEF Sending
    <3>3. QED
      BY <1>1, <3>1, <3>2, MoveStep DEF QuietInv, AckedInv, TypeOK
  <2>3. QED BY <2>1, <2>2
<1>5. CASE ReadReply
  <2>1. CASE Fail
    BY <1>3, <1>5, <2>1 DEF ReadReply
  <2>2. CASE ~Fail
    <3>1. /\ spc = "await" /\ spc' \in {"top", "rejected"} /\ reply' = "none"
          /\ UNCHANGED <<file, nextToSend, inFlight, retries, acked, resend, xferAcked,
                         ctxDone, fwd, complete, bwd, alive, recvVars, userVars>>
      BY <1>5, <2>2 DEF ReadReply
    <3>2. fwd = <<>> /\ bwd = <<>> /\ Len(fwd) + Len(bwd) <= inFlight
      BY <1>1, <1>2, <3>1 DEF QuietInv, Sending
    <3>3. QED
      BY <1>1, <3>1, <3>2, MoveStep DEF AckedInv, TypeOK
  <2>3. QED BY <2>1, <2>2
<1>6. CASE LoopHead
  <2>1. CASE Fail
    BY <1>3, <1>6, <2>1 DEF LoopHead
  <2>2. CASE ~Fail
    <3>1. /\ spc = "top" /\ spc' = "fill"
          /\ UNCHANGED <<file, nextToSend, inFlight, retries, acked, resend, xferAcked,
                         ctxDone, reply, fwd, complete, bwd, alive, recvVars, userVars>>
      BY <1>6, <2>2 DEF LoopHead, wireVars
    <3>2. Sending /\ Sending'
      BY <3>1 DEF Sending
    <3>3. QED
      BY <1>1, <3>1, <3>2, MoveStep DEF WindowRespected, AckedInv, TypeOK
  <2>3. QED BY <2>1, <2>2
<1>7. CASE EndFill
  <2>1. CASE Fail
    BY <1>3, <1>7, <2>1 DEF EndFill
  <2>2. CASE ~Fail /\ ~AllAcked
    <3>1. /\ spc = "fill" /\ spc' = "read"
          /\ UNCHANGED <<file, nextToSend, inFlight, retries, acked, resend, xferAcked,
                         ctxDone, reply, fwd, complete, bwd, alive, recvVars, userVars>>
      BY <1>7, <2>2 DEF EndFill, wireVars
    <3>2. Sending /\ Sending'
      BY <3>1 DEF Sending
    <3>3. QED
      BY <1>1, <3>1, <3>2, MoveStep DEF WindowRespected, AckedInv, TypeOK
  <2>3. CASE ~Fail /\ AllAcked
    <3>1. /\ spc = "fill" /\ spc' = "drain" /\ complete' = TRUE
          /\ UNCHANGED <<file, nextToSend, inFlight, retries, acked, resend, xferAcked,
                         ctxDone, reply, fwd, bwd, alive, recvVars, userVars>>
      BY <1>7, <2>3 DEF EndFill
    <3>2. acked = Chunks /\ fwd = <<>> /\ bwd = <<>> /\ ~Sending'
      BY <2>3, <3>1, AllAckedQuiet DEF Sending
    <3>3. reply' \in {"none", "FILE_ACCEPT", "FILE_REJECT"}
      BY <1>1, <3>1 DEF TypeOK
    <3>4. QED BY <3>1, <3>2, <3>3, MoveStep
  <2>4. QED BY <2>1, <2>2, <2>3
<1>8. CASE Drain
  <2>1. /\ spc = "drain" /\ spc' = "done"
        /\ UNCHANGED <<file, nextToSend, inFlight, retries, acked, resend, xferAcked,
                       ctxDone, reply, fwd, complete, bwd, alive, recvVars, userVars>>
    BY <1>8 DEF Drain, wireVars
  <2>2. ~Sending /\ ~Sending'
    BY <2>1 DEF Sending
  <2>3. QED
    BY <1>1, <2>1, <2>2, MoveStep DEF QuietInv, AckedInv, TypeOK
<1>9. CASE ReadAckFails
  BY <1>3, <1>9 DEF ReadAckFails
<1>10. QED
  BY <1>4, <1>5, <1>6, <1>7, <1>8, <1>9, FillWindowStep, ReadAckStep, RetransmitStep
     DEF SenderStep

----------------------------------------------------------------------------
(* Receiver, calls and faults *)

\* Steps that leave the sender, the chunks and the ACKs alone.
LEMMA AsideStep ==
  ASSUME TransferInv, TypeOK', UNCHANGED <<sendVars, fwd, complete, bwd, stored>>,
         rpc' = "saved" => \A i \in Chunks : stored[i] = "same"
  PROVE  TransferInv'
<1>1. WindowRespected' /\ InFlightInv' /\ ResendInv' /\ QuietInv' /\ RetriesBounded'
  BY DEF TransferInv, WindowRespected, InFlightInv, ResendInv, QuietInv, RetriesBounded,
         Sending, sendVars
<1>2. AckedInv' /\ AckedOnce' /\ SavedIsOffered'
  BY DEF TransferInv, AckedInv, AckedOnce, SavedIsOffered, sendVars
<1>3. QED BY <1>1, <1>2 DEF TransferInv

\* Keeping Total chunks is keeping every chunk, in the offered version.
LEMMA KeptAll ==
  ASSUME TransferInv, Cardinality(Kept) = Total
  PROVE  \A i \in Chunks : stored[i] = "same"
<1>1. Kept = Chunks
  BY ChunksFinite DEF Kept
<1>2. QED BY <1>1 DEF Kept, TransferInv, TypeOK, SavedIsOffered

\* A chunk that arrives moves from fwd to bwd; a positive ACK is sent for
\* exactly what is kept.
LEMMA ReceiveChunkStep == ASSUME TransferInv, ReceiveChunk PROVE TransferInv'
<1> DEFINE m == Head(fwd)
           a == [index |-> m.index, valid |-> m.good]
<1>1. /\ TypeOK /\ WindowRespected /\ InFlightInv /\ ResendInv /\ QuietInv /\ AckedInv
      /\ AckedOnce /\ RetriesBounded /\ SavedIsOffered
      /\ rpc = "receiving" /\ fwd # <<>>
  BY DEF TransferInv, ReceiveChunk
<1>2. /\ Len(fwd) \in Nat /\ Len(fwd) >= 1
      /\ fwd' = Tail(fwd) /\ fwd' \in Seq(ChunkMsg) /\ Len(fwd') = Len(fwd) - 1
      /\ m = fwd[1] /\ m \in ChunkMsg
      /\ \A j \in 1 .. Len(fwd') : fwd'[j] = fwd[j + 1] /\ j + 1 \in 2 .. Len(fwd)
  <2>1. fwd' = Tail(fwd)
    BY DEF ReceiveChunk
  <2>2. QED BY <1>1, <2>1, TailFacts DEF TypeOK
<1>3. /\ m.index \in Chunks /\ m.good \in BOOLEAN /\ a \in AckMsg
      /\ m.index \notin acked /\ m.index < nextToSend
      /\ \A j \in 2 .. Len(fwd) : fwd[j].index # m.index
      /\ \A j \in 1 .. Len(bwd) : bwd[j].index # m.index
      /\ spc = "resend" => m.index # resend
  BY <1>1, <1>2 DEF InFlightInv, ResendInv, ChunkMsg, AckMsg
<1>4. Sending /\ Len(bwd) \in Nat /\ inFlight \in Nat
  BY <1>1, LenProperties DEF QuietInv, TypeOK
<1>5. UNCHANGED <<sendVars, file, ctxDone, reply, complete, alive, userVars>>
  BY DEF ReceiveChunk
<1>6. CASE /\ bwd' = Append(bwd, a) /\ UNCHANGED rpc
           /\ stored' = [stored EXCEPT ![m.index] =
                           IF ~m.good THEN @ ELSE IF m.good THEN "same" ELSE "changed"]
  <2>1. /\ bwd' \in Seq(AckMsg) /\ Len(bwd') = Len(bwd) + 1
        /\ \A j \in 1 .. Len(bwd) : bwd'[j] = bwd[j]
        /\ bwd'[Len(bwd) + 1] = a
    BY <1>1, <1>3, <1>6, AppendFacts DEF TypeOK
  <2>2. /\ stored' \in [Chunks -> {"none", "same", "changed"}]
        /\ \A i \in Chunks : i # m.index => stored'[i] = stored[i]
        /\ m.good => stored'[m.index] = "same"
        /\ ~m.good => stored'[m.index] = stored[m.index]
    BY <1>1, <1>3, <1>6 DEF TypeOK
  <2>3. TypeOK'
    BY <1>1, <1>2, <1>5, <1>6, <2>1, <2>2 DEF TypeOK, sendVars, userVars
  <2>4. WindowRespected'
    BY <1>1, <1>2, <1>4, <1>5, <2>1, TransferAssumption
       DEF WindowRespected, Sending, sendVars
  <2>5. InFlightInv'
    <3>1. \A j \in 1 .. Len(bwd') : j \in 1 .. Len(bwd) \/ j = Len(bwd) + 1
      BY <1>4, <2>1
    <3>2. a.index = m.index /\ a.valid = m.good
      OBVIOUS
    <3>3. \A j \in 1 .. Len(bwd) : bwd[j].index \in Chunks
      <4>1. \A j \in 1 .. Len(bwd) : bwd[j] \in AckMsg
        BY <1>1 DEF TypeOK
      <4>2. QED BY <4>1 DEF AckMsg
    <3>4. \A j \in 1 .. Len(fwd') : fwd'[j].index < nextToSend' /\ fwd'[j].index \notin acked'
      BY <1>1, <1>2, <1>5 DEF InFlightInv, sendVars
    <3>5. \A j \in 1 .. Len(bwd') :
            /\ bwd'[j].index < nextToSend' /\ bwd'[j].index \notin acked'
            /\ bwd'[j].valid => stored'[bwd'[j].index] = "same"
      BY <1>1, <1>3, <1>5, <2>1, <2>2, <3>1, <3>2, <3>3 DEF InFlightInv, sendVars
    <3>6. \A j, k \in 1 .. Len(fwd') : j # k => fwd'[j].index # fwd'[k].index
      BY <1>1, <1>2 DEF InFlightInv
    <3>7. \A j, k \in 1 .. Len(bwd') : j # k => bwd'[j].index # bwd'[k].index
      BY <1>1, <1>3, <2>1, <3>1, <3>2 DEF InFlightInv
    <3>8. \A j \in 1 .. Len(fwd'), k \in 1 .. Len(bwd') : fwd'[j].index # bwd'[k].index
      BY <1>1, <1>2, <1>3, <2>1, <3>1, <3>2 DEF InFlightInv
    <3>9. QED BY <3>4, <3>5, <3>6, <3>7, <3>8 DEF InFlightInv
  <2>6. ResendInv'
    <3>1. \A j \in 1 .. Len(bwd') : j \in 1 .. Len(bwd) \/ j = Len(bwd) + 1
      BY <1>4, <2>1
    <3>2. a.index = m.index
      OBVIOUS
    <3>3. SUFFICES ASSUME spc = "resend" PROVE
            /\ resend < nextToSend /\ resend \notin acked /\ inFlight < WindowSize
            /\ \A j \in 1 .. Len(fwd') : fwd'[j].index # resend
            /\ \A j \in 1 .. Len(bwd') : bwd'[j].index # resend
      BY <1>5 DEF ResendInv, sendVars
    <3>4. \A j \in 1 .. Len(fwd') : fwd'[j].index # resend
      BY <1>1, <1>2, <3>3 DEF ResendInv
    <3>5. \A j \in 1 .. Len(bwd') : bwd'[j].index # resend
      BY <1>1, <1>3, <2>1, <3>1, <3>2, <3>3 DEF ResendInv
    <3>6. QED BY <1>1, <3>3, <3>4, <3>5 DEF ResendInv
  <2>7. QuietInv' /\ RetriesBounded' /\ AckedOnce'
    BY <1>1, <1>4, <1>5 DEF QuietInv, RetriesBounded, AckedOnce, Sending, sendVars
  <2>8. AckedInv' /\ SavedIsOffered'
    BY <1>1, <1>3, <1>5, <1>6, <2>2 DEF AckedInv, SavedIsOffered, TypeOK, sendVars
  <2>9. QED BY <2>3, <2>4, <2>5, <2>6, <2>7, <2>8 DEF TransferInv
<1>7. CASE rpc' = "failed" /\ UNCHANGED <<bwd, stored>>
  <2>1. TypeOK'
    BY <1>1, <1>2, <1>5, <1>7 DEF TypeOK, sendVars, userVars, ReceiverEnd
  <2>2. WindowRespected' /\ InFlightInv'
    <3>1. WindowRespected'
      BY <1>1, <1>2, <1>4, <1>5, <1>7, TransferAssumption
         DEF WindowRespected, Sending, sendVars
    <3>2. InFlightInv'
      BY <1>1, <1>2, <1>5, <1>7 DEF InFlightInv, sendVars
    <3>3. QED BY <3>1, <3>2
  <2>3. ResendInv' /\ QuietInv' /\ RetriesBounded' /\ AckedOnce'
    BY <1>1, <1>2, <1>4, <1>5, <1>7
       DEF ResendInv, QuietInv, RetriesBounded, AckedOnce, Sending, sendVars
  <2>4. AckedInv' /\ SavedIsOffered'
    BY <1>1, <1>5, <1>7 DEF AckedInv, SavedIsOffered, sendVars
  <2>5. QED BY <2>1, <2>2, <2>3, <2>4 DEF TransferInv
<1>8. QED BY <1>6, <1>7 DEF ReceiveChunk, Valid

\* The steps of the receiver preserve the invariant.
LEMMA ReceiverStepInv == ASSUME TransferInv, ReceiverStep PROVE TransferInv'
<1>1. TypeOK
  BY DEF TransferInv
<1>2. CASE ReadOffer
  <2>1. TypeOK'
    BY <1>1, <1>2, ZenonT(40) DEF TypeOK, ReadOffer, sendVars, wireVars, ReceiverEnd
  <2>2. QED BY <1>2, <2>1, AsideStep DEF ReadOffer, wireVars
<1>3. CASE AwaitDecision
  <2>1. TypeOK'
    BY <1>1, <1>3 DEF TypeOK, AwaitDecision, sendVars, wireVars
  <2>2. QED BY <1>3, <2>1, AsideStep DEF AwaitDecision, wireVars
<1>4. CASE Answer
  <2>1. TypeOK'
    BY <1>1, <1>4 DEF TypeOK, Answer, sendVars, ReceiverEnd
  <2>2. QED BY <1>4, <2>1, AsideStep DEF Answer
<1>5. CASE ReceiveComplete
  <2>1. TypeOK'
    BY <1>1, <1>5 DEF TypeOK, ReceiveComplete, sendVars, wireVars, userVars, ReceiverEnd
  <2>2. rpc' = "saved" => \A i \in Chunks : stored[i] = "same"
    BY <1>5, KeptAll DEF ReceiveComplete
  <2>3. QED BY <1>5, <2>1, <2>2, AsideStep DEF ReceiveComplete, wireVars
<1>6. CASE ReceiveFails
  <2>1. TypeOK'
    BY <1>1, <1>6 DEF TypeOK, ReceiveFails, sendVars, wireVars, userVars, ReceiverEnd
  <2>2. QED BY <1>6, <2>1, AsideStep DEF ReceiveFails, wireVars
<1>7. QED
  BY <1>2, <1>3, <1>4, <1>5, <1>6, ReceiveChunkStep DEF ReceiverStep

\* Calls and faults preserve the invariant.
LEMMA EnvironmentInv == ASSUME TransferInv, Environment PROVE TransferInv'
<1>1. TypeOK /\ SavedIsOffered
  BY DEF TransferInv
<1>2. ASSUME NEW k \in Callers, NEW d \in Decisions, CallDecision(k, d) PROVE TransferInv'
  <2>1. TypeOK'
    BY <1>1, <1>2 DEF TypeOK, CallDecision, sendVars, wireVars, recvVars
  <2>2. QED BY <1>1, <1>2, <2>1, AsideStep DEF CallDecision, wireVars, recvVars, SavedIsOffered
<1>3. ASSUME NEW k \in Callers, SendDecision(k) PROVE TransferInv'
  <2>1. TypeOK'
    BY <1>1, <1>3 DEF TypeOK, SendDecision, sendVars, wireVars, recvVars
  <2>2. QED BY <1>1, <1>3, <2>1, AsideStep DEF SendDecision, wireVars, recvVars, SavedIsOffered
<1>4. ASSUME NEW i \in Chunks, NEW v \in {"same", "changed", "gone"}, EditFile(i, v)
      PROVE  TransferInv'
  <2>1. TypeOK'
    BY <1>1, <1>4 DEF TypeOK, EditFile, sendVars, wireVars, recvVars, userVars
  <2>2. QED BY <1>1, <1>4, <2>1, AsideStep DEF EditFile, wireVars, recvVars, SavedIsOffered
<1>5. CASE CancelTransfer
  <2>1. TypeOK'
    BY <1>1, <1>5 DEF TypeOK, CancelTransfer, sendVars, wireVars, recvVars, userVars
  <2>2. QED
    BY <1>1, <1>5, <2>1, AsideStep DEF CancelTransfer, wireVars, recvVars, SavedIsOffered
<1>6. CASE Break
  <2>1. CASE UNCHANGED <<reply, fwd, bwd, complete>>
    <3>1. TypeOK'
      BY <1>1, <1>6, <2>1, ZenonT(60) DEF TypeOK, Break, sendVars, recvVars, userVars
    <3>2. QED BY <1>1, <1>6, <2>1, <3>1, AsideStep DEF Break, recvVars, SavedIsOffered
  <2>2. CASE reply' = "none" /\ fwd' = <<>> /\ bwd' = <<>> /\ complete' = FALSE
    <3>1. /\ fwd' \in Seq(ChunkMsg) /\ bwd' \in Seq(AckMsg)
          /\ Len(fwd') = 0 /\ Len(bwd') = 0 /\ inFlight \in Nat
      BY <1>1, <2>2, EmptyFacts DEF TypeOK
    <3>2. TypeOK'
      BY <1>1, <1>6, <2>2, <3>1 DEF TypeOK, Break, sendVars, recvVars, userVars
    <3>3. WindowRespected' /\ InFlightInv' /\ ResendInv' /\ QuietInv'
      BY <1>6, <2>2, <3>1, TransferAssumption
         DEF TransferInv, WindowRespected, InFlightInv, ResendInv, QuietInv, Sending,
             Break, sendVars, recvVars
    <3>4. AckedInv' /\ AckedOnce' /\ RetriesBounded' /\ SavedIsOffered'
      BY <1>6, <2>2 DEF TransferInv, AckedInv, AckedOnce, RetriesBounded, SavedIsOffered,
             Break, sendVars, recvVars
    <3>5. QED BY <3>2, <3>3, <3>4 DEF TransferInv
  <2>3. QED BY <1>6, <2>1, <2>2 DEF Break
<1>7. QED BY <1>2, <1>3, <1>4, <1>5, <1>6 DEF Environment

----------------------------------------------------------------------------
(* The theorems *)

\* One case per action.
LEMMA TransferStep == TransferInv /\ [Next]_vars => TransferInv'
<1>1. ASSUME TransferInv, Next PROVE TransferInv'
  BY <1>1, SenderStepInv, ReceiverStepInv, EnvironmentInv DEF Next
<1>2. ASSUME TransferInv, UNCHANGED vars PROVE TransferInv'
  <2>1. TypeOK'
    BY <1>2 DEF TransferInv, TypeOK, vars, sendVars, wireVars, recvVars, userVars
  <2>2. UNCHANGED <<sendVars, fwd, complete, bwd, stored, rpc>>
    BY <1>2 DEF vars, wireVars, recvVars
  <2>3. QED BY <1>2, <2>1, <2>2, AsideStep DEF TransferInv, SavedIsOffered
<1>3. QED BY <1>1, <1>2

\* The inductive invariant, type correctness included, holds throughout every
\* run of OfferFile against handleIncoming.
THEOREM TransferInvariant == Spec => []TransferInv
BY TransferInit, TransferStep, PTL DEF Spec

\* The sender never has more than WindowSize chunks unacknowledged, and its
\* inFlight counter never wraps.
THEOREM WindowSafety == Spec => []WindowRespected
<1>1. TransferInv => WindowRespected
  BY DEF TransferInv
<1>2. QED BY TransferInvariant, <1>1, PTL

\* What receiveChunks keeps and reassemble writes is the file that was
\* offered, even when the sender's file changes during the transfer.
THEOREM IntegritySafety == Spec => []SavedIsOffered
<1>1. TransferInv => SavedIsOffered
  BY DEF TransferInv
<1>2. QED BY TransferInvariant, <1>1, PTL

\* FILE_COMPLETE is only ever sent to a receiver that keeps every chunk.
THEOREM CompletionSafety == Spec => []CompleteMeansHeld
<1>1. TransferInv => CompleteMeansHeld
  <2> SUFFICES ASSUME TransferInv, complete \/ spc \in {"drain", "done"}
               PROVE  Kept = Chunks
    BY DEF CompleteMeansHeld
  <2>1. \A i \in Chunks : stored[i] = "same"
    BY DEF TransferInv, AckedInv
  <2>2. QED BY <2>1 DEF Kept
<1>2. QED BY TransferInvariant, <1>1, PTL

\* The transfer implements FileDelivery.
THEOREM TransferRefinement == Spec => DeliverySpec
<1>1. Init => Delivery!Init
  <2> SUFFICES ASSUME Init PROVE Delivery!Init
    OBVIOUS
  <2>1. 0 \in Chunks
    BY TransferAssumption DEF Chunks
  <2>2. Held = FALSE
    BY <2>1 DEF Init, Held
  <2>3. Consent = "none" /\ Reported = "none" /\ Saved = FALSE
    BY DEF Init, Consent, Reported, Saved
  <2>4. QED BY <2>2, <2>3 DEF Delivery!Init
<1>2. TransferInv /\ TransferInv' /\ [Next]_vars => [Delivery!Next]_(Delivery!vars)
  <2> SUFFICES ASSUME TransferInv, TransferInv', [Next]_vars
               PROVE  Delivery!Next \/ UNCHANGED Delivery!vars
    OBVIOUS
  <2>1. Held \in BOOLEAN /\ Saved \in BOOLEAN
    BY DEF Held, Saved
  \* A step that changes neither program counter nor what is kept.
  <2>2. ASSUME UNCHANGED <<spc, rpc, stored>> PROVE UNCHANGED Delivery!vars
    BY <2>2 DEF Delivery!vars, Consent, Held, Saved, Reported
  <2>3. CASE SenderStep
    <3>1. /\ UNCHANGED <<rpc, stored>> /\ spc \notin SenderEnd
          /\ spc' = "done" => spc = "drain"
      BY <2>3 DEF SenderStep, OfferFile, ReadReply, LoopHead, FillWindow, EndFill, ReadAck,
             ReadAckFails, Retransmit, Drain, Fail, recvVars, SenderEnd
    <3>2. UNCHANGED <<Consent, Held, Saved>>
      BY <3>1 DEF Consent, Held, Saved
    <3>3. Reported = "none"
      BY <3>1 DEF Reported, SenderEnd
    <3>4. CASE spc' = "done"
      <4>1. Held /\ Reported' = "success"
        BY <3>1, <3>4 DEF TransferInv, AckedInv, Held, Reported
      <4>2. QED BY <3>2, <3>3, <4>1 DEF Delivery!Next, Delivery!ReportSuccess
    <3>5. CASE spc' \in {"failed", "rejected"}
      <4>1. Reported' = "failure"
        BY <3>5 DEF Reported
      <4>2. QED BY <3>2, <3>3, <4>1 DEF Delivery!Next, Delivery!ReportFailure
    <3>6. CASE spc' \notin {"done", "failed", "rejected"}
      <4>1. Reported' = "none"
        BY <3>6 DEF Reported
      <4>2. QED BY <3>2, <3>3, <4>1 DEF Delivery!vars
    <3>7. QED BY <3>4, <3>5, <3>6
  <2>4. CASE ReceiverStep
    <3>1. UNCHANGED spc /\ UNCHANGED Reported
      BY <2>4 DEF ReceiverStep, ReadOffer, AwaitDecision, Answer, ReceiveChunk,
             ReceiveComplete, ReceiveFails, sendVars, Reported
    <3>2. CASE ReadOffer
      BY <3>1, <3>2 DEF ReadOffer, Delivery!vars, Consent, Held, Saved
    <3>3. CASE AwaitDecision
      <4>1. rpc = "asking" /\ rpc' \in {"yes", "no"} /\ UNCHANGED stored
        BY <3>3 DEF AwaitDecision
      <4>2. Consent = "none" /\ Consent' \in {"yes", "no"} /\ UNCHANGED <<Held, Saved>>
        BY <4>1 DEF Consent, Held, Saved
      <4>3. QED BY <3>1, <4>2 DEF Delivery!Next, Delivery!Answer
    <3>4. CASE Answer
      BY <3>1, <3>4 DEF Answer, Delivery!vars, Consent, Held, Saved
    <3>5. CASE ReceiveChunk
      <4>1. /\ rpc = "receiving" /\ rpc' \in {"receiving", "failed"}
            /\ Held => Held'
        <5>1. stored \in [Chunks -> {"none", "same", "changed"}]
          BY DEF TransferInv, TypeOK
        <5>2. \/ stored' = stored
              \/ stored' = [stored EXCEPT ![Head(fwd).index] = "same"]
          BY <3>5, <5>1 DEF ReceiveChunk, Valid
        <5>3. rpc = "receiving" /\ rpc' \in {"receiving", "failed"}
          BY <3>5 DEF ReceiveChunk
        <5>4. QED BY <5>1, <5>2, <5>3 DEF Held
      <4>2. Consent = "yes" /\ UNCHANGED <<Consent, Saved>>
        BY <4>1 DEF Consent, Saved
      <4>3. CASE Held' = Held
        BY <3>1, <4>2, <4>3 DEF Delivery!vars
      <4>4. CASE Held' # Held
        <5>1. Held' = TRUE
          BY <4>1, <4>4 DEF Held
        <5>2. QED BY <3>1, <4>2, <5>1 DEF Delivery!Next, Delivery!Hold
      <4>5. QED BY <4>3, <4>4
    <3>6. CASE ReceiveComplete /\ rpc' = "saved"
      <4>1. /\ rpc = "receiving" /\ UNCHANGED stored /\ Cardinality(Kept) = Total
        BY <3>6 DEF ReceiveComplete
      <4>2. Held /\ UNCHANGED <<Held, Consent>> /\ Saved' = TRUE
        BY <3>6, <4>1, KeptAll DEF Held, Consent, Saved
      <4>3. QED BY <3>1, <4>2 DEF Delivery!Next, Delivery!Save
    <3>7. CASE (ReceiveComplete /\ rpc' # "saved") \/ ReceiveFails
      <4>1. rpc = "receiving" /\ rpc' = "failed" /\ UNCHANGED stored
        BY <3>7 DEF ReceiveComplete, ReceiveFails
      <4>2. UNCHANGED <<Consent, Held, Saved>>
        BY <4>1 DEF Consent, Held, Saved
      <4>3. QED BY <3>1, <4>2 DEF Delivery!vars
    <3>8. QED BY <2>4, <3>2, <3>3, <3>4, <3>5, <3>6, <3>7 DEF ReceiverStep
  <2>5. CASE Environment
    BY <2>2, <2>5 DEF Environment, CallDecision, SendDecision, Break, EditFile,
       CancelTransfer, sendVars, recvVars
  <2>6. CASE UNCHANGED vars
    BY <2>2, <2>6 DEF vars, sendVars, recvVars
  <2>7. QED BY <2>3, <2>4, <2>5, <2>6 DEF Next
<1>3. QED
  BY <1>1, <1>2, TransferInvariant, PTL DEF Spec, DeliverySpec, Delivery!Spec

----------------------------------------------------------------------------
(* Induction.  A set of numbers stands for the property.                   *)

Below == {p \in Nat \X Nat : p[1] < p[2]}

\* The order of the natural numbers has no infinite descent.
LEMMA BelowWellFounded == IsWellFoundedOn(Below, Nat)
<1>1. Below = OpToRel(<, Nat)
  BY Zenon DEF Below, OpToRel
<1> QED
  BY <1>1, NatLessThanWellFounded, Zenon

\* A set of natural numbers that is not empty has a least element.
LEMMA Least ==
  ASSUME NEW T, T \subseteq Nat, T # {}
  PROVE  \E m \in T : \A k \in T : m <= k
<1>1. \E x \in T : \A y \in T : ~(<<y, x>> \in Below)
  BY WFMin, BelowWellFounded, Zenon
<1>2. PICK x \in T : \A y \in T : ~(<<y, x>> \in Below)
  BY <1>1
<1>3. ASSUME NEW y \in T PROVE x <= y
  <2>1. x \in Nat /\ y \in Nat
    OBVIOUS
  <2>2. y < x => <<y, x>> \in Below
    BY <2>1 DEF Below
  <2> QED
    BY <1>2, <2>1, <2>2
<1> QED
  BY <1>3

\* Induction up to N.
LEMMA UpTo ==
  ASSUME NEW N \in Nat, NEW T, 0 \in T, \A n \in 0..(N - 1) : n \in T => n + 1 \in T
  PROVE  \A n \in 0..N : n \in T
<1> DEFINE U == {n \in 0..N : n \notin T}
<1> SUFFICES ASSUME U # {} PROVE FALSE
  OBVIOUS
<1>1. U \subseteq Nat /\ U # {}
  OBVIOUS
<1>2. \E m \in U : \A k \in U : m <= k
  <2> HIDE DEF U
  <2> QED
    BY <1>1, Least, Zenon
<1>3. PICK m \in U : \A k \in U : m <= k
  BY <1>2
<1>4. m # 0 /\ m - 1 \in 0..(N - 1)
  BY <1>3
<1>5. m - 1 \in T
  BY <1>3, <1>4
<1> QED
  BY <1>3, <1>4, <1>5
Iterates(f, N, X, x0, step) ==
  f \in [0..N -> X] /\ f[0] = x0 /\ \A i \in 1..N : f[i] = step[i][f[i - 1]]

\* A step for every number up to N can be iterated N times.
LEMMA Iteration ==
  ASSUME NEW N \in Nat, NEW X, NEW x0 \in X, NEW step \in [1..N -> [X -> X]]
  PROVE  \E f : Iterates(f, N, X, x0, step)
<1> DEFINE P(n) == \E f \in [0..n -> X] :
                     f[0] = x0 /\ \A i \in 1..n : f[i] = step[i][f[i - 1]]
           T == {n \in 0..N : P(n)}
<1>1. 0 \in T
  <2> DEFINE f == [i \in 0..0 |-> x0]
  <2>1. f \in [0..0 -> X] /\ f[0] = x0
    OBVIOUS
  <2>2. \A i \in 1..0 : f[i] = step[i][f[i - 1]]
    OBVIOUS
  <2> HIDE DEF f
  <2>3. P(0)
    BY <2>1, <2>2
  <2> QED
    BY <2>3
<1>2. ASSUME NEW n \in 0..(N - 1), n \in T PROVE n + 1 \in T
  <2>1. PICK f \in [0..n -> X] : f[0] = x0 /\ \A i \in 1..n : f[i] = step[i][f[i - 1]]
    BY <1>2
  <2> DEFINE g == [i \in 0..(n + 1) |-> IF i = n + 1 THEN step[n + 1][f[n]] ELSE f[i]]
  <2>2. step[n + 1][f[n]] \in X
    OBVIOUS
  <2>3. g \in [0..(n + 1) -> X]
    BY <2>2
  <2>4. g[0] = x0
    BY <2>1
  <2>5. ASSUME NEW i \in 1..(n + 1) PROVE g[i] = step[i][g[i - 1]]
    BY <2>1
  <2>6. P(n + 1)
    BY <2>3, <2>4, <2>5
  <2> QED
    BY <2>6, SMTT(30)
<1>3. N \in T
  <2> HIDE DEF T
  <2>1. \A n \in 0..(N - 1) : n \in T => n + 1 \in T
    BY <1>2
  <2>2. \A n \in 0..N : n \in T
    BY <1>1, <2>1, UpTo, Zenon
  <2> QED
    BY <2>2
<1> QED
  BY <1>3 DEF Iterates

----------------------------------------------------------------------------
(* Powers of two *)

\* Starting from x, each step does Double or Halve to the number before.
Doubled(f, x, n) == f \in [0 .. n -> Nat] /\ f[0] = x /\ \A k \in 1 .. n : f[k] = 2 * f[k - 1]
Halved(f, x, n) == f \in [0 .. n -> Nat] /\ f[0] = x /\ \A k \in 1 .. n : f[k] = f[k - 1] \div 2

\* Pow2 doubles n times.
LEMMA Pow2Steps ==
  ASSUME NEW n \in Nat
  PROVE  \E f : Doubled(f, 1, n) /\ Pow2(n) = f[n]
<1> DEFINE Eq(f) == f = [k \in 0 .. n |-> IF k = 0 THEN 1 ELSE 2 * f[k - 1]]
           F == CHOOSE f : Eq(f)
           step == [k \in 1 .. n |-> [x \in Nat |-> 2 * x]]
<1>1. step \in [1 .. n -> [Nat -> Nat]] /\ 1 \in Nat
  OBVIOUS
<1>2. PICK f : Iterates(f, n, Nat, 1, step)
  <2> HIDE DEF step
  <2> QED
    BY <1>1, Iteration
<1>3. Doubled(f, 1, n)
  <2>1. f \in [0 .. n -> Nat] /\ f[0] = 1 /\ \A i \in 1 .. n : f[i] = step[i][f[i - 1]]
    BY <1>2, Zenon DEF Iterates
  <2>2. ASSUME NEW k \in 1 .. n PROVE f[k] = 2 * f[k - 1]
    <3>1. k - 1 \in 0 .. n
      OBVIOUS
    <3>2. f[k - 1] \in Nat
      BY <2>1, <3>1
    <3> QED
      BY <2>1, <3>2
  <2> HIDE DEF step
  <2> QED
    BY <2>1, <2>2 DEF Doubled
<1>4. Eq(f)
  BY <1>3 DEF Doubled
<1>5. Eq(F)
  <2> HIDE DEF Eq
  <2> QED
    BY <1>4
<1>6. Pow2(n) = F[n]
  BY DEF Pow2
<1> HIDE DEF F
<1> DEFINE T == {i \in 0 .. n : F[i] = f[i]}
<1>7. 0 \in T
  BY <1>3, <1>5 DEF Doubled
<1>8. ASSUME NEW i \in 0 .. n - 1, i \in T PROVE i + 1 \in T
  <2>1. F[i + 1] = 2 * F[(i + 1) - 1] /\ (i + 1) - 1 = i
    BY <1>5
  <2>2. f[i + 1] = 2 * f[(i + 1) - 1]
    BY <1>3 DEF Doubled
  <2> QED
    BY <1>8, <2>1, <2>2
<1>9. \A i \in 0 .. n : i \in T
  <2> HIDE DEF T
  <2> QED
    BY <1>7, <1>8, UpTo
<1>10. F[n] = f[n]
  BY <1>9
<1> QED
  BY <1>3, <1>6, <1>10

\* Two doublings agree as far as both go.
LEMMA DoubledAgree ==
  ASSUME NEW x, NEW n \in Nat, NEW m \in Nat, n <= m, NEW f, NEW g,
         Doubled(f, x, n), Doubled(g, x, m)
  PROVE  f[n] = g[n]
<1> DEFINE T == {i \in 0 .. n : f[i] = g[i]}
<1>1. 0 \in T
  BY DEF Doubled
<1>2. ASSUME NEW i \in 0 .. n - 1, i \in T PROVE i + 1 \in T
  <2>1. i + 1 \in 1 .. n /\ i + 1 \in 1 .. m /\ (i + 1) - 1 = i
    OBVIOUS
  <2> QED
    BY <1>2, <2>1 DEF Doubled
<1> HIDE DEF T
<1>3. \A i \in 0 .. n : i \in T
  BY <1>1, <1>2, UpTo
<1> QED
  BY <1>3 DEF T

\* The equations of Pow2.
LEMMA Pow2Next ==
  /\ Pow2(0) = 1
  /\ \A n \in Nat : Pow2(n + 1) = 2 * Pow2(n)
<1>1. Pow2(0) = 1
  <2>1. PICK f : Doubled(f, 1, 0) /\ Pow2(0) = f[0]
    BY Pow2Steps
  <2> QED
    BY <2>1 DEF Doubled
<1>2. ASSUME NEW n \in Nat PROVE Pow2(n + 1) = 2 * Pow2(n)
  <2>1. PICK f : Doubled(f, 1, n) /\ Pow2(n) = f[n]
    BY Pow2Steps
  <2>2. n + 1 \in Nat /\ n <= n + 1 /\ n + 1 \in 1 .. n + 1 /\ (n + 1) - 1 = n
    OBVIOUS
  <2>3. PICK g : Doubled(g, 1, n + 1) /\ Pow2(n + 1) = g[n + 1]
    BY <2>2, Pow2Steps
  <2>4. f[n] = g[n]
    BY <2>1, <2>2, <2>3, DoubledAgree
  <2>5. g[n + 1] = 2 * g[n]
    BY <2>2, <2>3 DEF Doubled
  <2> QED
    BY <2>1, <2>3, <2>4, <2>5
<1> QED
  BY <1>1, <1>2

\* Powers of two are positive and exceed their exponent.
LEMMA Pow2Type ==
  ASSUME NEW n \in Nat
  PROVE  Pow2(n) \in Nat /\ Pow2(n) > n
<1> DEFINE T == {i \in 0 .. n : Pow2(i) \in Nat /\ Pow2(i) > i}
<1>1. 0 \in T
  BY Pow2Next
<1>2. ASSUME NEW i \in 0 .. n - 1, i \in T PROVE i + 1 \in T
  <2>1. Pow2(i + 1) = 2 * Pow2(i)
    BY Pow2Next
  <2> QED
    BY <1>2, <2>1
<1> HIDE DEF T
<1>3. \A i \in 0 .. n : i \in T
  BY <1>1, <1>2, UpTo
<1> QED
  BY <1>3 DEF T

\* Powers of two grow.
LEMMA Pow2Mono ==
  ASSUME NEW m \in Nat, NEW n \in Nat, m <= n
  PROVE  Pow2(m) <= Pow2(n)
<1> DEFINE T == {i \in 0 .. n - m : Pow2(m) <= Pow2(m + i)}
<1>1. 0 \in T
  BY Pow2Type
<1>2. ASSUME NEW i \in 0 .. (n - m) - 1, i \in T PROVE i + 1 \in T
  <2>1. m + i \in Nat /\ m + (i + 1) = (m + i) + 1
    OBVIOUS
  <2>2. Pow2(m + (i + 1)) = 2 * Pow2(m + i) /\ Pow2(m + i) \in Nat /\ Pow2(m) \in Nat
    BY <2>1, Pow2Next, Pow2Type
  <2> QED
    BY <1>2, <2>2
<1>3. \A i \in 0 .. n - m : i \in T
  <2> HIDE DEF T
  <2>1. n - m \in Nat
    OBVIOUS
  <2> QED
    BY <1>1, <1>2, <2>1, UpTo
<1>4. n - m \in T /\ m + (n - m) = n
  BY <1>3
<1> QED
  BY <1>4

\* The number of leaves is a power of two, two at least, with room for every chunk.
LEMMA LeafStartFacts ==
  ASSUME NEW n \in Nat, n > 0
  PROVE  \E k \in 1 .. n : /\ LeafStart(n) = Pow2(k) /\ Pow2(k) >= n
                           /\ k = 1 \/ Pow2(k - 1) < n
<1> DEFINE T == {k \in 1 .. n : Pow2(k) >= n}
<1>1. n \in T
  BY Pow2Type
<1>2. PICK k \in T : \A j \in T : k <= j
  <2>1. T \subseteq Nat /\ T # {}
    BY <1>1
  <2> HIDE DEF T
  <2> QED
    BY <2>1, Least
<1>3. k = 1 \/ Pow2(k - 1) < n
  <2> SUFFICES ASSUME k # 1 PROVE Pow2(k - 1) < n
    OBVIOUS
  <2>1. k - 1 \in 1 .. n /\ k - 1 \in Nat /\ k - 1 \notin T
    BY <1>2
  <2>2. Pow2(k - 1) \in Nat
    BY <2>1, Pow2Type
  <2> QED
    BY <2>1, <2>2
<1>4. \E j \in 1 .. n : Pow2(j) >= n /\ (j = 1 \/ Pow2(j - 1) < n)
  BY <1>2, <1>3
<1> QED
  BY <1>4 DEF LeafStart

\* Above halves k times.
LEMMA AboveSteps ==
  ASSUME NEW p \in Nat, NEW n \in Nat
  PROVE  \E f : Halved(f, p, n) /\ Above(p, n) = f[n]
<1> DEFINE Eq(f) == f = [k \in 0 .. n |-> IF k = 0 THEN p ELSE f[k - 1] \div 2]
           F == CHOOSE f : Eq(f)
           step == [k \in 1 .. n |-> [x \in Nat |-> x \div 2]]
<1>1. step \in [1 .. n -> [Nat -> Nat]] /\ p \in Nat
  OBVIOUS
<1>2. PICK f : Iterates(f, n, Nat, p, step)
  <2> HIDE DEF step
  <2> QED
    BY <1>1, Iteration
<1>3. Halved(f, p, n)
  <2>1. f \in [0 .. n -> Nat] /\ f[0] = p /\ \A i \in 1 .. n : f[i] = step[i][f[i - 1]]
    BY <1>2, Zenon DEF Iterates
  <2>2. ASSUME NEW k \in 1 .. n PROVE f[k] = f[k - 1] \div 2
    <3>1. k - 1 \in 0 .. n
      OBVIOUS
    <3>2. f[k - 1] \in Nat
      BY <2>1, <3>1
    <3> QED
      BY <2>1, <3>2
  <2> HIDE DEF step
  <2> QED
    BY <2>1, <2>2 DEF Halved
<1>4. Eq(f)
  BY <1>3 DEF Halved
<1>5. Eq(F)
  <2> HIDE DEF Eq
  <2> QED
    BY <1>4
<1>6. Above(p, n) = F[n]
  BY DEF Above
<1> HIDE DEF F
<1> DEFINE T == {i \in 0 .. n : F[i] = f[i]}
<1>7. 0 \in T
  BY <1>3, <1>5 DEF Halved
<1>8. ASSUME NEW i \in 0 .. n - 1, i \in T PROVE i + 1 \in T
  <2>1. F[i + 1] = F[(i + 1) - 1] \div 2 /\ (i + 1) - 1 = i
    BY <1>5
  <2>2. f[i + 1] = f[(i + 1) - 1] \div 2
    BY <1>3 DEF Halved
  <2> QED
    BY <1>8, <2>1, <2>2
<1>9. \A i \in 0 .. n : i \in T
  <2> HIDE DEF T
  <2> QED
    BY <1>7, <1>8, UpTo
<1>10. F[n] = f[n]
  BY <1>9
<1> QED
  BY <1>3, <1>6, <1>10

\* Two halvings agree as far as both go.
LEMMA HalvedAgree ==
  ASSUME NEW x, NEW n \in Nat, NEW m \in Nat, n <= m, NEW f, NEW g,
         Halved(f, x, n), Halved(g, x, m)
  PROVE  f[n] = g[n]
<1> DEFINE T == {i \in 0 .. n : f[i] = g[i]}
<1>1. 0 \in T
  BY DEF Halved
<1>2. ASSUME NEW i \in 0 .. n - 1, i \in T PROVE i + 1 \in T
  <2>1. i + 1 \in 1 .. n /\ i + 1 \in 1 .. m /\ (i + 1) - 1 = i
    OBVIOUS
  <2> QED
    BY <1>2, <2>1 DEF Halved
<1> HIDE DEF T
<1>3. \A i \in 0 .. n : i \in T
  BY <1>1, <1>2, UpTo
<1> QED
  BY <1>3 DEF T

\* The equations of Above.
LEMMA AboveNext ==
  ASSUME NEW p \in Nat
  PROVE  /\ Above(p, 0) = p
         /\ \A n \in Nat : Above(p, n) \in Nat /\ Above(p, n + 1) = Above(p, n) \div 2
<1>1. Above(p, 0) = p
  <2>1. PICK f : Halved(f, p, 0) /\ Above(p, 0) = f[0]
    BY AboveSteps
  <2> QED
    BY <2>1 DEF Halved
<1>2. ASSUME NEW n \in Nat PROVE Above(p, n) \in Nat /\ Above(p, n + 1) = Above(p, n) \div 2
  <2>1. PICK f : Halved(f, p, n) /\ Above(p, n) = f[n]
    BY AboveSteps
  <2>2. n + 1 \in Nat /\ n <= n + 1 /\ n + 1 \in 1 .. n + 1 /\ (n + 1) - 1 = n /\ n \in 0 .. n
    OBVIOUS
  <2>3. PICK g : Halved(g, p, n + 1) /\ Above(p, n + 1) = g[n + 1]
    BY <2>2, AboveSteps
  <2>4. f[n] = g[n]
    BY <2>1, <2>2, <2>3, HalvedAgree
  <2>5. g[n + 1] = g[n] \div 2
    BY <2>2, <2>3 DEF Halved
  <2>6. f[n] \in Nat
    BY <2>1, <2>2 DEF Halved
  <2> QED
    BY <2>1, <2>3, <2>4, <2>5, <2>6
<1> QED
  BY <1>1, <1>2

----------------------------------------------------------------------------
(* The tree in the heap *)

\* The heap f of n hashes with size leaves, filled down to position lo.
Heap(f, hashes, n, size, lo) ==
  /\ f = [i \in lo .. 2 * size - 1 |-> f[i]]
  /\ \A i \in lo .. 2 * size - 1 :
       f[i] = IF i < size THEN hashPair(f[2 * i], f[2 * i + 1])
                          ELSE hashes[IF i - size < n THEN i - size + 1 ELSE n]

\* The heap can be filled from the leaves to the root.
LEMMA HeapExists ==
  ASSUME NEW hashes, NEW n \in Nat, NEW size \in Nat, size >= 1
  PROVE  \E f : Heap(f, hashes, n, size, 1)
<1> DEFINE T == {k \in 0 .. size - 1 : \E f : Heap(f, hashes, n, size, size - k)}
<1>1. 0 \in T
  <2> DEFINE f == [i \in size .. 2 * size - 1 |-> hashes[IF i - size < n THEN i - size + 1 ELSE n]]
  <2>1. Heap(f, hashes, n, size, size)
    BY DEF Heap
  <2>2. size - 0 = size
    OBVIOUS
  <2> HIDE DEF f
  <2> QED
    BY <2>1, <2>2
<1>2. ASSUME NEW k \in 0 .. (size - 1) - 1, k \in T PROVE k + 1 \in T
  <2>1. PICK f : Heap(f, hashes, n, size, size - k)
    BY <1>2
  <2> DEFINE p == size - (k + 1)
             g == [i \in p .. 2 * size - 1 |->
                     IF i = p THEN hashPair(f[2 * p], f[2 * p + 1]) ELSE f[i]]
             Node(h, i) == IF i < size THEN hashPair(h[2 * i], h[2 * i + 1])
                                       ELSE hashes[IF i - size < n THEN i - size + 1 ELSE n]
  <2>2. p \in Nat /\ p >= 1 /\ p < size /\ size - k = p + 1
    OBVIOUS
  <2>3. ASSUME NEW i \in p .. 2 * size - 1 PROVE g[i] = Node(g, i)
    <3> HIDE DEF p
    <3>1. i < size => /\ 2 * i \in p + 1 .. 2 * size - 1 /\ 2 * i + 1 \in p + 1 .. 2 * size - 1
                      /\ g[2 * i] = f[2 * i] /\ g[2 * i + 1] = f[2 * i + 1]
      BY <2>2
    <3>2. CASE i = p
      <4>1. g[i] = hashPair(f[2 * i], f[2 * i + 1])
        BY <3>2
      <4> HIDE DEF g
      <4> QED
        BY <2>2, <3>1, <3>2, <4>1
    <3>3. CASE i # p
      <4>1. i \in size - k .. 2 * size - 1
        BY <2>2, <3>3
      <4>2. f[i] = Node(f, i)
        BY <2>1, <4>1, Zenon DEF Heap
      <4>3. g[i] = f[i]
        BY <3>3
      <4> HIDE DEF g
      <4> QED
        BY <3>1, <4>2, <4>3
    <3> QED
      BY <3>2, <3>3
  <2>4. g = [i \in p .. 2 * size - 1 |-> g[i]]
    OBVIOUS
  <2>5. Heap(g, hashes, n, size, size - (k + 1))
    <3> HIDE DEF g
    <3> QED
      BY <2>3, <2>4, Zenon DEF Heap
  <2> HIDE DEF g
  <2> QED
    BY <2>5
<1>3. \A k \in 0 .. size - 1 : k \in T
  <2> HIDE DEF T
  <2>1. size - 1 \in Nat
    OBVIOUS
  <2> QED
    BY <1>1, <1>2, <2>1, UpTo
<1>4. size - 1 \in T /\ size - (size - 1) = 1
  BY <1>3
<1> QED
  BY <1>4

\* BuildMerkleTree fills the whole heap.
LEMMA TreeFacts ==
  ASSUME NEW hashes, NEW n \in Nat, n > 0, Len(hashes) = n
  PROVE  /\ BuildMerkleTree(hashes).leaves = hashes
         /\ BuildMerkleTree(hashes).leafStart = LeafStart(n)
         /\ Heap(BuildMerkleTree(hashes).nodes, hashes, n, LeafStart(n), 1)
<1> DEFINE size == LeafStart(n)
           Eq(f) == f = [i \in 1 .. 2 * size - 1 |->
                           IF i < size THEN hashPair(f[2 * i], f[2 * i + 1])
                           ELSE hashes[IF i - size < n THEN i - size + 1 ELSE n]]
           F == CHOOSE f : Eq(f)
<1>1. size \in Nat /\ size >= 1
  BY LeafStartFacts, Pow2Type
<1> HIDE DEF size
<1>2. PICK f : Heap(f, hashes, n, size, 1)
  BY <1>1, HeapExists
<1>3. Eq(f)
  BY <1>2, Zenon DEF Heap
<1>4. Eq(F)
  <2> HIDE DEF Eq
  <2> QED
    BY <1>3
<1>5. BuildMerkleTree(hashes) = [leaves |-> hashes, nodes |-> F, leafStart |-> size]
  BY Zenon DEF BuildMerkleTree, size
<1> HIDE DEF F
<1>6. Heap(F, hashes, n, size, 1)
  BY <1>4 DEF Heap
<1> QED
  BY <1>5, <1>6 DEF size

----------------------------------------------------------------------------
(* Proofs of membership *)

\* The way up from leaf i of a tree with Pow2(d) leaves passes every level once.
LEMMA AboveRange ==
  ASSUME NEW d \in Nat, NEW i \in Nat, i < Pow2(d), NEW k \in 0 .. d
  PROVE  Above(Pow2(d) + i, k) \in Pow2(d - k) .. 2 * Pow2(d - k) - 1
<1> DEFINE p == Pow2(d) + i
           T == {j \in 0 .. d : Above(p, j) \in Pow2(d - j) .. 2 * Pow2(d - j) - 1}
<1>1. p \in Nat /\ Pow2(d) \in Nat
  BY Pow2Type
<1>2. 0 \in T
  <2>1. Above(p, 0) = p /\ d - 0 = d
    BY <1>1, AboveNext
  <2> QED
    BY <1>1, <2>1
<1>3. ASSUME NEW j \in 0 .. d - 1, j \in T PROVE j + 1 \in T
  <2> HIDE DEF p
  <2>1. d - (j + 1) \in Nat /\ (d - (j + 1)) + 1 = d - j /\ j \in Nat
    OBVIOUS
  <2>2. Pow2(d - (j + 1)) \in Nat /\ Pow2(d - j) = 2 * Pow2(d - (j + 1))
    BY <2>1, Pow2Type, Pow2Next
  <2>3. Above(p, j) \in Nat /\ Above(p, j + 1) = Above(p, j) \div 2
    BY <1>1, <2>1, AboveNext
  <2>4. Above(p, j) \in Pow2(d - j) .. 2 * Pow2(d - j) - 1
    BY <1>3
  <2>5. Above(p, j + 1) \in Pow2(d - (j + 1)) .. 2 * Pow2(d - (j + 1)) - 1
    BY <2>2, <2>3, <2>4
  <2> QED
    BY <2>5
<1>4. \A j \in 0 .. d : j \in T
  <2> HIDE DEF T
  <2> QED
    BY <1>2, <1>3, UpTo
<1> QED
  BY <1>4

\* The hashes that VerifyProof computes on the way up from position p.
Climb(f, hash, p, proof, n) ==
  /\ f = [k \in 0 .. n |-> f[k]]
  /\ f[0] = hash
  /\ \A k \in 1 .. n :
       f[k] = IF Above(p, k - 1) % 2 = 0 THEN hashPair(f[k - 1], proof[k])
                                         ELSE hashPair(proof[k], f[k - 1])

\* VerifyProof climbs as many levels as the proof has hashes.
LEMMA VerifySteps ==
  ASSUME NEW hash, NEW i \in Nat, NEW proof, NEW root, NEW d \in Nat, Len(proof) = d
  PROVE  \E f : /\ Climb(f, hash, Pow2(d) + i, proof, d)
                /\ VerifyProof(hash, i, proof, root) = (f[d] = root)
<1> DEFINE p == Pow2(d) + i
           Up(f, k) == IF k = 0 THEN hash
                       ELSE IF Above(p, k - 1) % 2 = 0 THEN hashPair(f[k - 1], proof[k])
                                                       ELSE hashPair(proof[k], f[k - 1])
           Eq(f) == f = [k \in 0 .. d |-> Up(f, k)]
           F == CHOOSE f : Eq(f)
           T == {j \in 0 .. d : \E f : Climb(f, hash, p, proof, j)}
<1>1. 0 \in T
  <2> DEFINE f == [k \in 0 .. 0 |-> hash]
  <2>1. Climb(f, hash, p, proof, 0)
    BY DEF Climb
  <2> HIDE DEF f
  <2> QED
    BY <2>1
<1>2. ASSUME NEW j \in 0 .. d - 1, j \in T PROVE j + 1 \in T
  <2>1. PICK f : Climb(f, hash, p, proof, j)
    BY <1>2
  <2> HIDE DEF p
  <2> DEFINE g == [k \in 0 .. j + 1 |-> IF k = j + 1 THEN Up(f, j + 1) ELSE f[k]]
  <2>2. g[0] = hash
    BY <2>1 DEF Climb
  <2>3. ASSUME NEW k \in 1 .. j + 1 PROVE g[k] = Up(g, k)
    <3>1. g[k - 1] = f[k - 1] /\ k # 0
      OBVIOUS
    <3>2. CASE k = j + 1
      <4>1. g[k] = Up(f, k)
        BY <3>2
      <4> HIDE DEF g
      <4> QED
        BY <3>1, <4>1
    <3>3. CASE k # j + 1
      <4>1. g[k] = f[k] /\ k \in 1 .. j
        BY <3>3
      <4>2. f[k] = Up(f, k)
        BY <2>1, <3>1, <4>1 DEF Climb
      <4> HIDE DEF g
      <4> QED
        BY <3>1, <4>1, <4>2
    <3> QED
      BY <3>2, <3>3
  <2>4. g = [k \in 0 .. j + 1 |-> g[k]]
    OBVIOUS
  <2> HIDE DEF g
  <2>5. Climb(g, hash, p, proof, j + 1)
    <3>1. ASSUME NEW k \in 1 .. j + 1
          PROVE  g[k] = IF Above(p, k - 1) % 2 = 0 THEN hashPair(g[k - 1], proof[k])
                                                   ELSE hashPair(proof[k], g[k - 1])
      BY <2>3
    <3> QED
      BY <2>2, <2>4, <3>1, Zenon DEF Climb
  <2> QED
    BY <2>5
<1>3. d \in T
  <2> HIDE DEF T
  <2>1. \A j \in 0 .. d : j \in T
    BY <1>1, <1>2, UpTo
  <2> QED
    BY <2>1
<1>4. PICK f : Climb(f, hash, p, proof, d)
  BY <1>3
<1>5. Eq(f)
  <2> HIDE DEF p
  <2>1. ASSUME NEW k \in 0 .. d PROVE f[k] = Up(f, k)
    <3>1. k = 0 \/ k \in 1 .. d
      OBVIOUS
    <3> QED
      BY <1>4, <3>1 DEF Climb
  <2>2. f = [k \in 0 .. d |-> f[k]]
    BY <1>4, Zenon DEF Climb
  <2> HIDE DEF Up
  <2> QED
    BY <2>1, <2>2
<1>6. Eq(F)
  <2> HIDE DEF Eq
  <2> QED
    BY <1>5
<1>7. VerifyProof(hash, i, proof, root) = (F[d] = root)
  BY Zenon DEF VerifyProof
<1> HIDE DEF F, p
<1>8. Climb(F, hash, p, proof, d)
  <2>1. F[0] = hash
    BY <1>6
  <2>2. ASSUME NEW k \in 1 .. d
        PROVE  F[k] = IF Above(p, k - 1) % 2 = 0 THEN hashPair(F[k - 1], proof[k])
                                                 ELSE hashPair(proof[k], F[k - 1])
    <3>1. k \in 0 .. d /\ k # 0
      OBVIOUS
    <3> QED
      BY <1>6, <3>1
  <2>3. F = [k \in 0 .. d |-> F[k]]
    BY <1>6
  <2> QED
    BY <2>1, <2>2, <2>3, Zenon DEF Climb
<1> QED
  BY <1>7, <1>8 DEF p

\* What VerifyProof makes of a hash at position low and its sibling.
Joined(low, hash, sibling) ==
  IF low % 2 = 0 THEN hashPair(hash, sibling) ELSE hashPair(sibling, hash)

\* Hashes of pairs are equal for equal pairs only.
LEMMA PairInjective ==
  ASSUME NEW a, NEW b, NEW c, NEW d
  PROVE  hashPair(a, b) = hashPair(c, d) <=> (a = c /\ b = d)
BY DEF hashPair

\* With its sibling in the tree, a hash makes the hash above it only if it is the one
\* in the tree.
LEMMA ClimbStep ==
  ASSUME NEW nodes, NEW low \in Nat, NEW hash,
         nodes[low \div 2] = hashPair(nodes[2 * (low \div 2)], nodes[2 * (low \div 2) + 1])
  PROVE  Joined(low, hash, nodes[Sibling(low)]) = nodes[low \div 2] <=> hash = nodes[low]
<1> DEFINE p == low \div 2
<1>1. CASE low % 2 = 0
  <2>1. low = 2 * p /\ Sibling(low) = 2 * p + 1
    BY <1>1 DEF Sibling
  <2>2. Joined(low, hash, nodes[Sibling(low)]) = hashPair(hash, nodes[2 * p + 1])
    BY <1>1, <2>1 DEF Joined
  <2>3. nodes[p] = hashPair(nodes[low], nodes[2 * p + 1])
    BY <2>1
  <2> HIDE DEF p
  <2> QED
    BY <2>2, <2>3, PairInjective DEF p
<1>2. CASE low % 2 # 0
  <2>1. low = 2 * p + 1 /\ Sibling(low) = 2 * p
    BY <1>2 DEF Sibling
  <2>2. Joined(low, hash, nodes[Sibling(low)]) = hashPair(nodes[2 * p], hash)
    BY <1>2, <2>1 DEF Joined
  <2>3. nodes[p] = hashPair(nodes[2 * p], nodes[low])
    BY <2>1
  <2> HIDE DEF p
  <2> QED
    BY <2>2, <2>3, PairInjective DEF p
<1> QED
  BY <1>1, <1>2

\* The proof of leaf i has a sibling for each of the d levels below the root.
ProofHas(hashes, n, i, d) ==
  /\ Pow2(d) = LeafStart(n) /\ n <= Pow2(d)
  /\ Len(Proof(BuildMerkleTree(hashes), i)) = d
  /\ \A k \in 1 .. d :
       Proof(BuildMerkleTree(hashes), i)[k] =
         BuildMerkleTree(hashes).nodes[Sibling(Above(Pow2(d) + i, k - 1))]

\* The siblings that Proof collects, one for every level.
LEMMA ProofFacts ==
  ASSUME NEW hashes, NEW n \in Nat, n > 0, Len(hashes) = n, NEW i \in 0 .. n - 1
  PROVE  \E d \in Nat : ProofHas(hashes, n, i, d)
<1> DEFINE tr == BuildMerkleTree(hashes)
           d == Depth(LeafStart(n))
<1>1. PICK k \in 1 .. n : LeafStart(n) = Pow2(k) /\ Pow2(k) >= n
  BY LeafStartFacts
<1>2. Pow2(k) \in Nat /\ k \in 1 .. LeafStart(n)
  BY <1>1, Pow2Type
<1>3. d \in 1 .. LeafStart(n) /\ Pow2(d) = LeafStart(n)
  BY <1>1, <1>2 DEF Depth
<1>4. d \in Nat
  BY <1>1, <1>2, <1>3
<1>5. tr.leafStart = LeafStart(n)
  BY TreeFacts
<1>6. Proof(tr, i) = [j \in 1 .. d |-> tr.nodes[Sibling(Above(Pow2(d) + i, j - 1))]]
  <2> HIDE DEF d, tr
  <2>1. Depth(tr.leafStart) = d
    BY <1>5 DEF d
  <2>2. tr.leafStart = Pow2(d)
    BY <1>3, <1>5
  <2> QED
    BY <2>1, <2>2, Zenon DEF Proof
<1> HIDE DEF d, tr
<1>7. /\ Len(Proof(tr, i)) = d
      /\ \A j \in 1 .. d : Proof(tr, i)[j] = tr.nodes[Sibling(Above(Pow2(d) + i, j - 1))]
  BY <1>4, <1>6
<1>8. n <= Pow2(d)
  BY <1>1, <1>3
<1> QED
  BY <1>3, <1>4, <1>7, <1>8 DEF tr, ProofHas

\* Proof and VerifyProof are exact: with the proof of chunk i, VerifyProof accepts the
\* hash of chunk i and no other.
THEOREM VerifyExact ==
  ASSUME NEW hashes, NEW n \in Nat, n > 0, Len(hashes) = n, NEW i \in 0 .. n - 1, NEW hash
  PROVE  VerifyProof(hash, i, Proof(BuildMerkleTree(hashes), i), Root(BuildMerkleTree(hashes)))
           <=> hash = hashes[i + 1]
<1> DEFINE tr == BuildMerkleTree(hashes)
           nodes == tr.nodes
           proof == Proof(tr, i)
           size == LeafStart(n)
<1>1. PICK d \in Nat :
        /\ Pow2(d) = size /\ n <= Pow2(d) /\ Len(proof) = d
        /\ \A k \in 1 .. d : proof[k] = nodes[Sibling(Above(Pow2(d) + i, k - 1))]
  <2>1. PICK d \in Nat : ProofHas(hashes, n, i, d)
    BY ProofFacts
  <2> QED
    BY <2>1 DEF ProofHas
<1>2. Heap(nodes, hashes, n, size, 1)
  BY TreeFacts
<1>3. size \in Nat /\ size > i /\ n <= size
  BY <1>1, Pow2Type
<1> DEFINE p == size + i
<1>4. PICK f : /\ Climb(f, hash, p, proof, d)
               /\ VerifyProof(hash, i, proof, Root(tr)) = (f[d] = Root(tr))
  <2>1. i \in Nat
    OBVIOUS
  <2> HIDE DEF proof, tr
  <2>2. \E f : /\ Climb(f, hash, Pow2(d) + i, proof, d)
               /\ VerifyProof(hash, i, proof, Root(tr)) = (f[d] = Root(tr))
    BY <1>1, <2>1, VerifySteps
  <2> QED
    BY <1>1, <2>2
<1> HIDE DEF tr, nodes, proof, size
<1>5. \A k \in 0 .. d : Above(p, k) \in Pow2(d - k) .. 2 * Pow2(d - k) - 1
  <2> SUFFICES ASSUME NEW k \in 0 .. d
               PROVE  Above(p, k) \in Pow2(d - k) .. 2 * Pow2(d - k) - 1
    OBVIOUS
  <2>1. i \in Nat /\ i < Pow2(d)
    BY <1>1, <1>3
  <2>2. Above(Pow2(d) + i, k) \in Pow2(d - k) .. 2 * Pow2(d - k) - 1
    BY <2>1, AboveRange
  <2> QED
    BY <1>1, <2>2
<1> DEFINE T == {k \in 0 .. d : f[k] = nodes[Above(p, k)] <=> hash = nodes[p]}
<1>6. 0 \in T
  <2>1. Above(p, 0) = p
    BY <1>3, AboveNext
  <2> QED
    BY <1>4, <2>1 DEF Climb
<1>7. ASSUME NEW k \in 0 .. d - 1, k \in T PROVE k + 1 \in T
  <2>1. p \in Nat /\ k \in Nat /\ k + 1 \in 1 .. d /\ (k + 1) - 1 = k /\ k + 1 \in 0 .. d
    BY <1>3
  <2> HIDE DEF p
  <2> DEFINE low == Above(p, k)
  <2>2. low \in Nat /\ Above(p, k + 1) = low \div 2
    BY <2>1, AboveNext
  <2>3. low \div 2 \in 1 .. size - 1
    <3>1. d - (k + 1) \in Nat /\ d - (k + 1) <= d - 1 /\ d - 1 \in Nat /\ (d - 1) + 1 = d
      BY <2>1
    <3>2. Pow2(d - (k + 1)) \in Nat /\ Pow2(d - (k + 1)) > d - (k + 1)
      BY <3>1, Pow2Type
    <3>3. Pow2(d - (k + 1)) <= Pow2(d - 1)
      BY <3>1, Pow2Mono
    <3>4. Pow2(d) = 2 * Pow2(d - 1) /\ Pow2(d - 1) \in Nat
      <4>1. Pow2((d - 1) + 1) = 2 * Pow2(d - 1) /\ Pow2(d - 1) \in Nat
        BY <3>1, Pow2Next, Pow2Type
      <4> QED
        BY <3>1, <4>1
    <3>5. low \div 2 \in Pow2(d - (k + 1)) .. 2 * Pow2(d - (k + 1)) - 1
      BY <1>5, <2>1, <2>2
    <3> HIDE DEF low
    <3> QED
      BY <1>1, <1>3, <3>1, <3>2, <3>3, <3>4, <3>5
  <2>4. f[k + 1] = Joined(low, f[k], nodes[Sibling(low)])
    <3>1. proof[k + 1] = nodes[Sibling(low)]
      BY <1>1, <2>1 DEF p
    <3>2. f[k + 1] = IF Above(p, k) % 2 = 0 THEN hashPair(f[k], proof[k + 1])
                                            ELSE hashPair(proof[k + 1], f[k])
      BY <1>4, <2>1 DEF Climb
    <3> QED
      BY <3>1, <3>2 DEF Joined
  <2>5. f[k + 1] = nodes[low \div 2] <=> f[k] = nodes[low]
    <3> DEFINE q == low \div 2
    <3>1. q \in 1 .. 2 * size - 1 /\ q < size
      BY <1>3, <2>3
    <3>2. nodes[q] = hashPair(nodes[2 * q], nodes[2 * q + 1])
      <4> HIDE DEF q
      <4> QED
        BY <1>2, <3>1 DEF Heap
    <3>3. low \in Nat
      BY <2>2
    <3> HIDE DEF low
    <3>4. Joined(low, f[k], nodes[Sibling(low)]) = nodes[low \div 2] <=> f[k] = nodes[low]
      BY <3>2, <3>3, ClimbStep
    <3> QED
      BY <2>4, <3>4
  <2>6. f[k] = nodes[low] <=> hash = nodes[p]
    BY <1>7
  <2> QED
    BY <2>1, <2>2, <2>5, <2>6
<1>8. d \in T
  <2> HIDE DEF T
  <2>1. \A k \in 0 .. d : k \in T
    BY <1>6, <1>7, UpTo
  <2> QED
    BY <2>1
<1>9. Above(p, d) = 1
  <2>1. d \in 0 .. d /\ d - d = 0
    OBVIOUS
  <2>2. Pow2(0) = 1
    BY Pow2Next
  <2>3. Above(p, d) \in Pow2(0) .. 2 * Pow2(0) - 1
    BY <1>5, <2>1
  <2> QED
    BY <2>2, <2>3
<1>10. nodes[p] = hashes[i + 1]
  <2>1. p \in 1 .. 2 * size - 1 /\ ~(p < size) /\ p - size = i
    BY <1>3
  <2>2. nodes[p] = IF p < size THEN hashPair(nodes[2 * p], nodes[2 * p + 1])
                               ELSE hashes[IF p - size < n THEN p - size + 1 ELSE n]
    <3> HIDE DEF p
    <3> QED
      BY <1>2, <2>1, Zenon DEF Heap
  <2>3. i < n
    OBVIOUS
  <2> HIDE DEF p
  <2> QED
    BY <2>1, <2>2, <2>3
<1>11. Root(tr) = nodes[1]
  BY DEF Root, nodes
<1> QED
  BY <1>4, <1>8, <1>9, <1>10, <1>11 DEF tr, proof

----------------------------------------------------------------------------
(* The root *)

\* Lists of the same length with the same root are the same.
LEMMA RootInjective ==
  ASSUME NEW n \in Nat, n > 0, NEW hashes, Len(hashes) = n, NEW others, Len(others) = n,
         Root(BuildMerkleTree(hashes)) = Root(BuildMerkleTree(others))
  PROVE  \A i \in 1 .. n : hashes[i] = others[i]
<1> DEFINE a == BuildMerkleTree(hashes).nodes
           b == BuildMerkleTree(others).nodes
           size == LeafStart(n)
<1>1. Heap(a, hashes, n, size, 1) /\ Heap(b, others, n, size, 1)
  BY TreeFacts
<1>2. a[1] = b[1]
  BY DEF Root
<1>3. size \in Nat /\ n <= size /\ size >= 1
  BY LeafStartFacts, Pow2Type
<1> HIDE DEF a, b, size
<1> DEFINE T == {k \in 0 .. 2 * size - 2 : \A p \in 1 .. k + 1 : a[p] = b[p]}
<1>4. 0 \in T
  <2>1. ASSUME NEW p \in 1 .. 0 + 1 PROVE a[p] = b[p]
    <3>1. p = 1
      OBVIOUS
    <3> QED
      BY <1>2, <3>1
  <2> QED
    BY <1>3, <2>1
<1>5. ASSUME NEW k \in 0 .. (2 * size - 2) - 1, k \in T PROVE k + 1 \in T
  <2> DEFINE p == k + 2
             q == p \div 2
  <2>1. p \in Nat /\ q \in 1 .. k + 1 /\ q < size /\ q \in 1 .. 2 * size - 1 /\ q \in Nat
    BY <1>3
  <2>2. p = 2 * q \/ p = 2 * q + 1
    OBVIOUS
  <2>3. a[q] = b[q]
    BY <1>5, <2>1
  <2> HIDE DEF q
  <2>4. a[q] = hashPair(a[2 * q], a[2 * q + 1]) /\ b[q] = hashPair(b[2 * q], b[2 * q + 1])
    BY <1>1, <2>1 DEF Heap
  <2>5. a[2 * q] = b[2 * q] /\ a[2 * q + 1] = b[2 * q + 1]
    <3>1. hashPair(a[2 * q], a[2 * q + 1]) = hashPair(b[2 * q], b[2 * q + 1])
      BY <2>3, <2>4
    <3> QED
      BY <3>1 DEF hashPair
  <2>6. a[p] = b[p]
    BY <2>2, <2>5
  <2>7. ASSUME NEW r \in 1 .. (k + 1) + 1 PROVE a[r] = b[r]
    <3>1. r = p \/ r \in 1 .. k + 1
      OBVIOUS
    <3> HIDE DEF p
    <3> QED
      BY <1>5, <2>6, <3>1
  <2> QED
    BY <1>3, <2>7
<1>6. \A k \in 0 .. 2 * size - 2 : k \in T
  <2>1. 2 * size - 2 \in Nat
    BY <1>3
  <2> HIDE DEF T
  <2> QED
    BY <1>4, <1>5, <2>1, UpTo
<1>7. ASSUME NEW p \in 1 .. 2 * size - 1 PROVE a[p] = b[p]
  <2>1. 2 * size - 2 \in T
    <3>1. 2 * size - 2 \in 0 .. 2 * size - 2
      BY <1>3
    <3> HIDE DEF T
    <3> QED
      BY <1>6, <3>1
  <2> QED
    BY <1>3, <2>1
<1>8. ASSUME NEW i \in 1 .. n PROVE hashes[i] = others[i]
  <2> DEFINE p == size + i - 1
  <2>1. p \in 1 .. 2 * size - 1 /\ ~(p < size) /\ p - size < n /\ p - size + 1 = i
    BY <1>3
  <2>2. a[p] = b[p]
    <3> HIDE DEF p
    <3> QED
      BY <1>7, <2>1
  <2> HIDE DEF p
  <2>3. a[p] = IF p < size THEN hashPair(a[2 * p], a[2 * p + 1])
                           ELSE hashes[IF p - size < n THEN p - size + 1 ELSE n]
    BY <1>1, <2>1, Zenon DEF Heap
  <2>4. b[p] = IF p < size THEN hashPair(b[2 * p], b[2 * p + 1])
                           ELSE others[IF p - size < n THEN p - size + 1 ELSE n]
    BY <1>1, <2>1, Zenon DEF Heap
  <2> QED
    BY <2>1, <2>2, <2>3, <2>4
<1> QED
  BY <1>8

\* The leaf at place j of the padded list.
Padded(hashes, n, j) == hashes[IF j < n THEN j + 1 ELSE n]

\* The roots of the parts of Pow2(k) leaves from lo on, up to m levels.
Halves(f, hashes, n, m) ==
  /\ f = [k \in 0 .. m |-> f[k]]
  /\ \A k \in 0 .. m : f[k] = [lo \in Nat |-> f[k][lo]]
  /\ \A lo \in Nat : f[0][lo] = Padded(hashes, n, lo)
  /\ \A k \in 1 .. m, lo \in Nat :
       f[k][lo] = hashPair(f[k - 1][lo], f[k - 1][lo + Pow2(k - 1)])

\* The halves can be joined level by level.
LEMMA HalvesExist ==
  ASSUME NEW hashes, NEW n \in Nat
  PROVE  \E f : Halves(f, hashes, n, n)
<1> DEFINE T == {j \in 0 .. n : \E f : Halves(f, hashes, n, j)}
<1>1. 0 \in T
  <2> DEFINE f == [k \in 0 .. 0 |-> [lo \in Nat |-> Padded(hashes, n, lo)]]
  <2>1. Halves(f, hashes, n, 0)
    BY DEF Halves
  <2> HIDE DEF f
  <2> QED
    BY <2>1
<1>2. ASSUME NEW j \in 0 .. n - 1, j \in T PROVE j + 1 \in T
  <2>1. PICK f : Halves(f, hashes, n, j)
    BY <1>2
  <2> DEFINE new == [lo \in Nat |-> hashPair(f[j][lo], f[j][lo + Pow2(j)])]
             g == [k \in 0 .. j + 1 |-> IF k = j + 1 THEN new ELSE f[k]]
  <2>2. ASSUME NEW lo \in Nat PROVE g[0][lo] = Padded(hashes, n, lo)
    <3>1. g[0][lo] = f[0][lo]
      OBVIOUS
    <3> HIDE DEF g
    <3> QED
      BY <2>1, <3>1 DEF Halves
  <2>3. ASSUME NEW k \in 1 .. j + 1, NEW lo \in Nat
        PROVE  g[k][lo] = hashPair(g[k - 1][lo], g[k - 1][lo + Pow2(k - 1)])
    <3>1. Pow2(k - 1) \in Nat /\ lo + Pow2(k - 1) \in Nat
      BY Pow2Type
    <3>2. g[k - 1][lo] = f[k - 1][lo] /\ g[k - 1][lo + Pow2(k - 1)] = f[k - 1][lo + Pow2(k - 1)]
      BY <3>1
    <3>3. CASE k = j + 1
      <4>1. g[k][lo] = hashPair(f[j][lo], f[j][lo + Pow2(j)]) /\ k - 1 = j
        BY <3>3
      <4> HIDE DEF g
      <4> QED
        BY <3>2, <4>1
    <3>4. CASE k # j + 1
      <4>1. g[k][lo] = f[k][lo] /\ k \in 1 .. j
        BY <3>4
      <4>2. f[k][lo] = hashPair(f[k - 1][lo], f[k - 1][lo + Pow2(k - 1)])
        BY <2>1, <4>1 DEF Halves
      <4> HIDE DEF g
      <4> QED
        BY <3>2, <4>1, <4>2
    <3> QED
      BY <3>3, <3>4
  <2>4. g = [k \in 0 .. j + 1 |-> g[k]]
    OBVIOUS
  <2>5. ASSUME NEW k \in 0 .. j + 1 PROVE g[k] = [lo \in Nat |-> g[k][lo]]
    <3>1. CASE k = j + 1
      <4>1. g[k] = new /\ new = [lo \in Nat |-> new[lo]]
        BY <3>1
      <4> HIDE DEF g, new
      <4> QED
        BY <4>1
    <3>2. CASE k # j + 1
      <4>1. g[k] = f[k] /\ k \in 0 .. j
        BY <3>2
      <4>2. f[k] = [lo \in Nat |-> f[k][lo]]
        BY <2>1, <4>1 DEF Halves
      <4> HIDE DEF g
      <4> QED
        BY <4>1, <4>2
    <3> QED
      BY <3>1, <3>2
  <2> HIDE DEF g
  <2>6. Halves(g, hashes, n, j + 1)
    BY <2>2, <2>3, <2>4, <2>5, Zenon DEF Halves
  <2> QED
    BY <2>6
<1> HIDE DEF T
<1>3. \A j \in 0 .. n : j \in T
  BY <1>1, <1>2, UpTo
<1> QED
  BY <1>3 DEF T

\* RootOf joins halves up to a level with room for every hash, the first such level.
LEMMA RootOfSteps ==
  ASSUME NEW hashes, NEW n \in Nat, n > 0, Len(hashes) = n
  PROVE  \E f, d : /\ Halves(f, hashes, n, n) /\ RootOf(hashes) = f[d][0]
                   /\ d \in 1 .. n /\ Pow2(d) = LeafStart(n)
<1> DEFINE Leaf(i) == hashes[IF i < n THEN i + 1 ELSE n]
           Level(f, k) == [lo \in Nat |-> IF k = 0 THEN Leaf(lo)
                             ELSE hashPair(f[k - 1][lo], f[k - 1][lo + Pow2(k - 1)])]
           Eq(f) == f = [k \in 0 .. n |-> Level(f, k)]
           F == CHOOSE f : Eq(f)
           d == CHOOSE k \in 1 .. n : Pow2(k) >= n /\ \A j \in 1 .. k - 1 : Pow2(j) < n
<1>1. PICK f : Halves(f, hashes, n, n)
  BY HalvesExist
<1>2. Eq(f)
  <2>1. ASSUME NEW k \in 0 .. n PROVE f[k] = Level(f, k)
    <3>1. f[k] = [lo \in Nat |-> f[k][lo]]
      BY <1>1, Zenon DEF Halves
    <3>2. CASE k = 0
      BY <1>1, <3>1, <3>2 DEF Halves, Padded
    <3>3. CASE k # 0
      <4>1. k \in 1 .. n
        BY <3>3
      <4>2. ASSUME NEW lo \in Nat
            PROVE  f[k][lo] = hashPair(f[k - 1][lo], f[k - 1][lo + Pow2(k - 1)])
        BY <1>1, <4>1 DEF Halves
      <4> QED
        BY <3>1, <3>3, <4>2
    <3> QED
      BY <3>2, <3>3
  <2>2. f = [k \in 0 .. n |-> f[k]]
    BY <1>1, Zenon DEF Halves
  <2> HIDE DEF Level
  <2> QED
    BY <2>1, <2>2
<1>3. Eq(F)
  <2> HIDE DEF Eq
  <2> QED
    BY <1>2
<1>4. RootOf(hashes) = F[d][0]
  BY Zenon DEF RootOf
<1> HIDE DEF F
<1>5. Halves(F, hashes, n, n)
  <2>1. \A k \in 0 .. n : F[k] = Level(F, k)
    <3> HIDE DEF Level
    <3> QED
      BY <1>3, Zenon
  <2>2. F = [k \in 0 .. n |-> F[k]]
    BY <1>3
  <2>3. ASSUME NEW k \in 0 .. n PROVE F[k] = [lo \in Nat |-> F[k][lo]]
    BY <2>1
  <2>4. ASSUME NEW lo \in Nat PROVE F[0][lo] = Padded(hashes, n, lo)
    <3>1. 0 \in 0 .. n
      OBVIOUS
    <3>2. F[0] = Level(F, 0)
      BY <2>1, <3>1, Zenon
    <3> QED
      BY <3>2 DEF Padded
  <2>5. ASSUME NEW k \in 1 .. n, NEW lo \in Nat
        PROVE  F[k][lo] = hashPair(F[k - 1][lo], F[k - 1][lo + Pow2(k - 1)])
    <3>1. k \in 0 .. n /\ k # 0
      OBVIOUS
    <3> QED
      BY <2>1, <3>1
  <2> QED
    BY <2>2, <2>3, <2>4, <2>5, Zenon DEF Halves
<1>6. PICK k \in 1 .. n : /\ LeafStart(n) = Pow2(k) /\ Pow2(k) >= n
                          /\ k = 1 \/ Pow2(k - 1) < n
  BY LeafStartFacts
<1>7. \A j \in 1 .. k - 1 : Pow2(j) < n
  <2> SUFFICES ASSUME NEW j \in 1 .. k - 1 PROVE Pow2(j) < n
    OBVIOUS
  <2>1. j \in Nat /\ k - 1 \in Nat /\ j <= k - 1 /\ k # 1
    OBVIOUS
  <2>2. Pow2(j) <= Pow2(k - 1) /\ Pow2(j) \in Nat /\ Pow2(k - 1) \in Nat
    BY <2>1, Pow2Mono, Pow2Type
  <2> QED
    BY <1>6, <2>1, <2>2
<1>8. /\ d \in 1 .. n /\ Pow2(d) >= n
      /\ \A j \in 1 .. d - 1 : Pow2(j) < n
  BY <1>6, <1>7
<1> HIDE DEF d
<1>9. d = k
  <2>1. Pow2(d) \in Nat /\ Pow2(k) \in Nat
    BY <1>8, Pow2Type, SMTT(30)
  <2>2. ~(d < k)
    BY <1>7, <1>8, <2>1
  <2>3. ~(k < d)
    BY <1>6, <1>8, <2>1
  <2> QED
    BY <1>8, <2>2, <2>3
<1> QED
  BY <1>4, <1>5, <1>6, <1>8, <1>9

\* The root that the heap holds is the one taken by halves.
LEMMA RootByHalves ==
  ASSUME NEW hashes, NEW n \in Nat, n > 0, Len(hashes) = n
  PROVE  Root(BuildMerkleTree(hashes)) = RootOf(hashes)
<1> DEFINE nodes == BuildMerkleTree(hashes).nodes
           size == LeafStart(n)
<1>1. PICK f, d : /\ Halves(f, hashes, n, n) /\ RootOf(hashes) = f[d][0]
                  /\ d \in 1 .. n /\ Pow2(d) = size
  BY RootOfSteps
<1>2. Heap(nodes, hashes, n, size, 1)
  BY TreeFacts
<1>3. d \in Nat /\ size \in Nat
  BY <1>1, Pow2Type
<1> HIDE DEF nodes, size
<1> DEFINE Same(k, j) == f[k][j * Pow2(k)] = nodes[Pow2(d - k) + j]
           T == {k \in 0 .. d : \A j \in 0 .. Pow2(d - k) - 1 : Same(k, j)}
<1>4. 0 \in T
  <2> SUFFICES ASSUME NEW j \in 0 .. Pow2(d - 0) - 1 PROVE Same(0, j)
    BY <1>3
  <2>1. d - 0 = d /\ Pow2(0) = 1
    BY <1>3, Pow2Next
  <2>2. j \in Nat /\ j < size /\ j * 1 = j
    BY <1>1, <1>3, <2>1
  <2>3. f[0][j] = hashes[IF j < n THEN j + 1 ELSE n]
    BY <1>1, <2>2 DEF Halves, Padded
  <2> DEFINE p == size + j
  <2>4. p \in 1 .. 2 * size - 1 /\ ~(p < size) /\ p - size = j
    BY <1>3, <2>2
  <2>5. nodes[p] = IF p < size THEN hashPair(nodes[2 * p], nodes[2 * p + 1])
                               ELSE hashes[IF p - size < n THEN p - size + 1 ELSE n]
    <3> HIDE DEF p
    <3> QED
      BY <1>2, <2>4, Zenon DEF Heap
  <2>6. nodes[p] = hashes[IF j < n THEN j + 1 ELSE n]
    <3> HIDE DEF p
    <3> QED
      BY <2>4, <2>5
  <2> QED
    BY <1>1, <2>1, <2>2, <2>3, <2>6
<1>5. ASSUME NEW k \in 0 .. d - 1, k \in T PROVE k + 1 \in T
  <2> DEFINE up == Pow2(d - (k + 1))
             w == Pow2(k)
  <2>1. k \in Nat /\ d - (k + 1) \in Nat /\ (d - (k + 1)) + 1 = d - k
    BY <1>3
  <2>2. up \in Nat /\ up > 0 /\ Pow2(d - k) = 2 * up
    <3> DEFINE e == d - (k + 1)
    <3> HIDE DEF e
    <3>1. e \in Nat /\ e + 1 = d - k
      BY <2>1 DEF e
    <3>2. Pow2(e) \in Nat /\ Pow2(e) > e
      BY <3>1, Pow2Type
    <3>3. Pow2(e + 1) = 2 * Pow2(e)
      BY <3>1, Pow2Next
    <3>4. Pow2(e) > 0
      BY <3>1, <3>2
    <3> QED
      BY <3>1, <3>2, <3>3, <3>4 DEF e
  <2>3. w \in Nat /\ Pow2(k + 1) = 2 * w
    BY <2>1, Pow2Type, Pow2Next
  <2>4. 2 * up <= size
    <3>1. d - k \in Nat /\ d - k <= d
      BY <1>3
    <3>2. Pow2(d - k) <= Pow2(d)
      BY <1>3, <3>1, Pow2Mono
    <3> QED
      BY <1>1, <2>2, <3>2
  <2>5. ASSUME NEW j \in 0 .. up - 1 PROVE Same(k + 1, j)
    <3> HIDE DEF up, w
    <3>1. 2 * j \in 0 .. 2 * up - 1 /\ 2 * j + 1 \in 0 .. 2 * up - 1 /\ j \in Nat
      BY <2>2
    <3>2. /\ f[k][(2 * j) * w] = nodes[2 * up + 2 * j]
          /\ f[k][(2 * j + 1) * w] = nodes[2 * up + (2 * j + 1)]
      BY <1>5, <2>2, <3>1 DEF w
    <3>3. j * (2 * w) \in Nat /\ j * (2 * w) = (2 * j) * w /\ j * (2 * w) + w = (2 * j + 1) * w
      BY <2>3, <3>1
    <3>4. f[k + 1][j * (2 * w)] = hashPair(f[k][j * (2 * w)], f[k][j * (2 * w) + w])
      <4>1. k + 1 \in 1 .. n /\ (k + 1) - 1 = k
        BY <1>1
      <4> DEFINE lo == j * (2 * w)
      <4>2. lo \in Nat
        BY <3>3
      <4> HIDE DEF lo
      <4>3. f[k + 1][lo] = hashPair(f[(k + 1) - 1][lo], f[(k + 1) - 1][lo + Pow2((k + 1) - 1)])
        BY <1>1, <4>1, <4>2, Zenon DEF Halves
      <4> QED
        BY <4>1, <4>3 DEF lo, w
    <3> DEFINE p == up + j
    <3>5. p \in 1 .. 2 * size - 1 /\ p < size /\ 2 * p = 2 * up + 2 * j /\ 2 * p + 1 = 2 * up + (2 * j + 1)
      BY <1>3, <2>2, <2>4, <3>1
    <3>6. nodes[p] = hashPair(nodes[2 * p], nodes[2 * p + 1])
      <4> HIDE DEF p
      <4> QED
        BY <1>2, <3>5 DEF Heap
    <3>7. f[k + 1][j * (2 * w)] = nodes[p]
      BY <3>2, <3>3, <3>4, <3>5, <3>6
    <3> QED
      BY <2>3, <3>7 DEF up
  <2> QED
    BY <1>3, <2>5
<1>6. d \in T
  <2> HIDE DEF T
  <2>1. \A k \in 0 .. d : k \in T
    BY <1>3, <1>4, <1>5, UpTo
  <2> QED
    BY <1>3, <2>1
<1>7. Same(d, 0)
  <2>1. d - d = 0 /\ Pow2(0) = 1
    BY <1>3, Pow2Next
  <2> QED
    BY <1>6, <2>1
<1>8. f[d][0] = nodes[1]
  <2>1. Pow2(d) \in Nat
    BY <1>3, Pow2Type
  <2>2. 0 * Pow2(d) = 0 /\ Pow2(d - d) + 0 = 1
    <3>1. d - d = 0
      BY <1>3
    <3>2. Pow2(0) = 1
      BY Pow2Next
    <3> QED
      BY <2>1, <3>1, <3>2
  <2> QED
    BY <1>7, <2>2
<1> QED
  BY <1>1, <1>8 DEF Root, nodes

----------------------------------------------------------------------------
(* Reading a file in chunks and writing them one after the other *)

FlatRun(f, X, q) ==
  /\ f \in [1..Len(q) -> Seq(X)]
  /\ f[1] = q[1]
  /\ \A i \in 2..Len(q) : f[i] = f[i - 1] \o q[i]
  /\ FlattenSeq(q) = f[Len(q)]

\* FlattenSeq takes one list after the other.
LEMMA FlattenSteps ==
  ASSUME NEW X, NEW q \in Seq(Seq(X)), Len(q) # 0
  PROVE  \E f : FlatRun(f, X, q)
<1> DEFINE N == Len(q)
           Next1(f, i) == IF i = 1 THEN q[i] ELSE f[i - 1] \o q[i]
           Eq(f) == f = [i \in 1..Len(q) |-> Next1(f, i)]
           step == [i \in 1..N |-> [t \in Seq(X) |-> t \o q[i]]]
<1>1. N \in Nat /\ N > 0 /\ \A i \in 1..N : q[i] \in Seq(X)
  OBVIOUS
<1>2. <<>> \in Seq(X)
  OBVIOUS
<1>3. step \in [1..N -> [Seq(X) -> Seq(X)]]
  BY <1>1
<1>4. \E f : Iterates(f, N, Seq(X), <<>>, step)
  <2> HIDE DEF N, step
  <2> QED
    BY <1>1, <1>2, <1>3, Iteration
<1>5. PICK f \in [0..N -> Seq(X)] : f[0] = <<>> /\ \A i \in 1..N : f[i] = step[i][f[i - 1]]
  <2> HIDE DEF N, step
  <2> QED
    BY <1>4 DEF Iterates
<1> DEFINE g == [i \in 1..N |-> f[i]]
<1>6. Eq(g)
  <2>1. ASSUME NEW i \in 1..N PROVE g[i] = Next1(g, i)
    <3>1. f[i - 1] \in Seq(X) /\ q[i] \in Seq(X)
      <4>1. i - 1 \in 0..N
        BY <1>1
      <4> HIDE DEF N
      <4> QED
        BY <1>1, <4>1, Zenon
    <3>2. g[i] = f[i - 1] \o q[i]
      BY <1>5, <3>1
    <3>3. CASE i = 1
      <4>1. f[i - 1] = <<>> /\ q[1] \in Seq(X)
        BY <1>5, <3>1, <3>3
      <4>2. <<>> \o q[1] = q[1]
        BY <4>1
      <4> QED
        BY <3>2, <3>3, <4>1, <4>2
    <3>4. CASE i # 1
      <4>1. i - 1 \in 1..N
        BY <3>4
      <4> QED
        BY <3>2, <3>4, <4>1
    <3> QED
      BY <3>3, <3>4
  <2>2. DOMAIN g = 1..N /\ g = [i \in DOMAIN g |-> g[i]]
    OBVIOUS
  <2> HIDE DEF Next1, g
  <2> QED
    BY <2>1, <2>2, Zenon
<1> DEFINE F == CHOOSE h : Eq(h)
<1>7. Eq(F)
  <2> HIDE DEF Eq
  <2> QED
    BY <1>6
<1>8. FlattenSeq(q) = F[N]
  BY <1>1 DEF FlattenSeq
<1> HIDE DEF F
<1>9. ASSUME NEW i \in 1..N PROVE F[i] = Next1(F, i)
  <2> HIDE DEF Next1
  <2> QED
    BY <1>7, Zenon
<1>10. F[1] = q[1]
  <2>1. F[1] = Next1(F, 1)
    BY <1>1, <1>9
  <2> QED
    BY <2>1
<1>11. ASSUME NEW i \in 2..N PROVE F[i] = F[i - 1] \o q[i]
  <2>1. F[i] = Next1(F, i)
    BY <1>9
  <2>2. i # 1
    OBVIOUS
  <2> QED
    BY <2>1, <2>2, Zenon
<1> DEFINE T == {n \in 0..N : n = 0 \/ F[n] \in Seq(X)}
<1>12. ASSUME NEW n \in 0..(N - 1), n \in T PROVE n + 1 \in T
  <2>1. CASE n = 0
    <3>1. F[1] \in Seq(X)
      BY <1>1, <1>10
    <3> QED
      BY <1>1, <2>1, <3>1
  <2>2. CASE n # 0
    <3>1. n + 1 \in 2..N /\ F[n] \in Seq(X) /\ q[n + 1] \in Seq(X)
      <4>1. n + 1 \in 2..N /\ n + 1 \in 1..N
        BY <1>1, <2>2
      <4>2. F[n] \in Seq(X)
        BY <1>12, <2>2, Zenon
      <4> HIDE DEF N
      <4> QED
        BY <1>1, <4>1, <4>2, Zenon
    <3>2. F[n + 1] = F[n] \o q[n + 1]
      <4> DEFINE m == n + 1
      <4>1. m \in 2..N /\ n = m - 1
        BY <3>1
      <4> HIDE DEF m, N
      <4>2. F[m] = F[m - 1] \o q[m]
        BY <1>11, <4>1, Zenon
      <4>3. F[m] = F[n] \o q[m]
        BY <4>1, <4>2, Zenon
      <4> QED
        BY <4>3 DEF m
    <3>3. F[n + 1] \in Seq(X)
      BY <3>1, <3>2
    <3> QED
      BY <3>1, <3>3
  <2> QED
    BY <2>1, <2>2
<1>13. \A n \in 0..N : n \in T
  <2>1. 0 \in T
    BY <1>1
  <2> HIDE DEF T, N
  <2> QED
    BY <1>1, <1>12, <2>1, UpTo
<1>14. F \in [1..N -> Seq(X)]
  <2>1. DOMAIN F = 1..N /\ F = [i \in DOMAIN F |-> F[i]]
    BY <1>7
  <2>2. ASSUME NEW i \in 1..N PROVE F[i] \in Seq(X)
    BY <1>1, <1>13
  <2> QED
    BY <2>1, <2>2
<1> QED
  BY <1>8, <1>10, <1>11, <1>14 DEF FlatRun

\* The number of chunks is enough for the file, and each has a byte.
LEMMA TotalFacts ==
  ASSUME NEW size \in Nat, NEW c \in Nat, size > 0, c > 0
  PROVE  /\ TotalChunks(size, c) \in Nat /\ TotalChunks(size, c) > 0
         /\ TotalChunks(size, c) * c >= size
         /\ \A k \in Nat : k < TotalChunks(size, c) => k * c < size
<1> DEFINE a == size + c - 1
           q == a \div c
<1>1. a \in Nat /\ a >= c
  OBVIOUS
<1>2. TotalChunks(size, c) = q
  BY DEF TotalChunks
<1> HIDE DEF a
<1>3. q \in Nat /\ c * q <= a /\ a < c * q + c
  BY <1>1
<1> HIDE DEF q
<1>4. q # 0
  BY <1>1, <1>3
<1>5. q * c = c * q /\ q * c >= size
  BY <1>3 DEF a
<1>6. ASSUME NEW k \in Nat, k < q PROVE k * c < size
  <2>1. k * c + c <= q * c /\ k * c \in Nat
    BY <1>3, <1>6
  <2> QED
    BY <1>3, <1>5, <2>1 DEF a
<1> QED
  BY <1>2, <1>3, <1>4, <1>5, <1>6

\* A beginning and the part that follows it make a longer beginning.
LEMMA SubSeqJoin ==
  ASSUME NEW X, NEW s \in Seq(X), NEW a \in 0 .. Len(s), NEW b \in a .. Len(s)
  PROVE  SubSeq(s, 1, a) \o SubSeq(s, a + 1, b) = SubSeq(s, 1, b)
<1> DEFINE u == SubSeq(s, 1, a)
           v == SubSeq(s, a + 1, b)
           w == SubSeq(s, 1, b)
<1>1. Len(s) \in Nat /\ a \in Nat /\ b \in Nat
  OBVIOUS
<1>2. u \in Seq(X) /\ Len(u) = a /\ \A i \in 1 .. a : u[i] = s[i]
  BY <1>1
<1>3. v \in Seq(X) /\ Len(v) = b - a /\ \A i \in 1 .. b - a : v[i] = s[a + i]
  BY <1>1
<1>4. w \in Seq(X) /\ Len(w) = b /\ \A i \in 1 .. b : w[i] = s[i]
  BY <1>1
<1> HIDE DEF u, v, w
<1>5. /\ u \o v \in Seq(X) /\ Len(u \o v) = b
      /\ \A i \in 1 .. b : (u \o v)[i] = IF i <= a THEN u[i] ELSE v[i - a]
  <2>1. /\ u \o v \in Seq(X) /\ Len(u \o v) = Len(u) + Len(v)
        /\ \A i \in 1 .. Len(u) + Len(v) :
             (u \o v)[i] = IF i <= Len(u) THEN u[i] ELSE v[i - Len(u)]
    BY <1>2, <1>3, ConcatProperties
  <2>2. Len(u) + Len(v) = b
    BY <1>1, <1>2, <1>3
  <2> QED
    BY <1>2, <2>1, <2>2
<1>6. ASSUME NEW i \in 1 .. b PROVE (u \o v)[i] = w[i]
  <2>1. CASE i <= a
    BY <1>1, <1>2, <1>4, <1>5, <2>1
  <2>2. CASE i > a
    <3>1. i - a \in 1 .. b - a /\ a + (i - a) = i /\ ~(i <= a)
      BY <1>1, <2>2
    <3>2. v[i - a] = s[i]
      BY <1>3, <3>1
    <3> QED
      BY <1>4, <1>5, <3>1, <3>2
  <2>3. i <= a \/ i > a
    <3>1. i \in Nat
      BY <1>1
    <3> QED
      BY <1>1, <3>1
  <2> QED
    BY <2>1, <2>2, <2>3
<1>7. u \o v = w
  BY <1>4, <1>5, <1>6, SeqEqual
<1> QED
  BY <1>7 DEF u, v, w

\* Chunk k of the file d.
ChunkAt(d, c, k) == SubSeq(d, k * c + 1, IF (k + 1) * c < Len(d) THEN (k + 1) * c ELSE Len(d))

\* The chunks of a file, one after the other, are the file.
LEMMA ChunksJoin ==
  ASSUME NEW X, NEW d \in Seq(X), NEW c \in Nat, Len(d) > 0, c > 0,
         NEW q \in Seq(Seq(X)), Len(q) = TotalChunks(Len(d), c),
         \A i \in 1 .. Len(q) : q[i] = ChunkAt(d, c, i - 1)
  PROVE  FlattenSeq(q) = d
<1> DEFINE n == Len(q)
           L == Len(d)
           M(k) == IF k * c < L THEN k * c ELSE L
<1>1. n \in Nat /\ n > 0 /\ L \in Nat /\ n * c >= L /\ \A k \in Nat : k < n => k * c < L
  <2>1. L \in Nat /\ L > 0
    OBVIOUS
  <2> HIDE DEF L
  <2>2. /\ TotalChunks(L, c) \in Nat /\ TotalChunks(L, c) > 0
        /\ TotalChunks(L, c) * c >= L
        /\ \A k \in Nat : k < TotalChunks(L, c) => k * c < L
    BY <2>1, TotalFacts
  <2>3. n = TotalChunks(L, c)
    BY DEF L
  <2> HIDE DEF n
  <2> QED
    BY <2>1, <2>2, <2>3
<1>2. PICK f : FlatRun(f, X, q)
  BY <1>1, FlattenSteps
<1>3. /\ f[1] = q[1] /\ FlattenSeq(q) = f[n]
      /\ \A i \in 2 .. n : f[i] = f[i - 1] \o q[i]
  BY <1>2 DEF FlatRun
<1> HIDE DEF n
<1>4. \A k \in 0 .. n : M(k) \in 0 .. L
  <2> SUFFICES ASSUME NEW k \in 0 .. n PROVE M(k) \in 0 .. L
    OBVIOUS
  <2>1. k * c \in Nat
    OBVIOUS
  <2> QED
    BY <1>1, <2>1
<1> DEFINE T == {k \in 0 .. n : k = 0 \/ f[k] = SubSeq(d, 1, M(k))}
<1>5. 0 \in T
  BY <1>1
<1>6. ASSUME NEW k \in 0 .. n - 1, k \in T PROVE k + 1 \in T
  <2>1. k \in Nat /\ k < n /\ k + 1 \in 1 .. n /\ (k + 1) - 1 = k /\ k + 1 \in 0 .. n
    BY <1>1
  <2>2. k * c \in Nat /\ k * c < L /\ (k + 1) * c \in Nat /\ (k + 1) * c = k * c + c
    BY <1>1, <2>1
  <2>3. q[k + 1] = SubSeq(d, k * c + 1, M(k + 1))
    <3>1. q[k + 1] = ChunkAt(d, c, k)
      BY <2>1 DEF n
    <3> QED
      BY <3>1 DEF ChunkAt
  <2>4. M(k) = k * c /\ M(k + 1) \in k * c .. L
    BY <1>1, <2>2
  <2>5. f[k + 1] = SubSeq(d, 1, M(k + 1))
    <3>1. CASE k = 0
      <4>1. k * c = 0 /\ k + 1 = 1
        BY <3>1
      <4>2. f[1] = SubSeq(d, 0 + 1, M(k + 1))
        BY <1>3, <2>3, <4>1
      <4> HIDE DEF M
      <4> QED
        BY <4>1, <4>2
    <3>2. CASE k # 0
      <4>1. k + 1 \in 2 .. n
        BY <1>1, <2>1, <3>2
      <4>2. f[k + 1] = f[k] \o q[k + 1]
        BY <1>3, <2>1, <4>1
      <4>3. f[k] = SubSeq(d, 1, k * c)
        BY <1>6, <2>4, <3>2
      <4> DEFINE a == k * c
                 b == M(k + 1)
      <4>4. a \in 0 .. Len(d) /\ b \in a .. Len(d)
        BY <1>1, <2>2, <2>4
      <4>5. f[k + 1] = SubSeq(d, 1, a) \o SubSeq(d, a + 1, b)
        BY <2>3, <4>2, <4>3
      <4> HIDE DEF a, b, L, M
      <4>6. SubSeq(d, 1, a) \o SubSeq(d, a + 1, b) = SubSeq(d, 1, b)
        BY <4>4, SubSeqJoin
      <4> QED
        BY <4>5, <4>6 DEF b
    <3> QED
      BY <3>1, <3>2
  <2> HIDE DEF M
  <2> QED
    BY <2>1, <2>5
<1>7. n \in T
  <2> HIDE DEF T
  <2>1. \A k \in 0 .. n : k \in T
    BY <1>1, <1>5, <1>6, UpTo
  <2> QED
    BY <1>1, <2>1
<1>8. M(n) = L
  <2>1. n * c \in Nat
    BY <1>1
  <2> QED
    BY <1>1, <2>1
<1>9. f[n] = SubSeq(d, 1, Len(d))
  BY <1>1, <1>7, <1>8
<1> QED
  BY <1>3, <1>9, SubSeqFull

----------------------------------------------------------------------------
(* The invariant of a transfer byte by byte *)

\* The hashes of the chunks that were read.
Hashes == [i \in 1 .. total |-> Sha256(read[i])]

\* What the sender has read and what the offer's tree was built from.
ReadInv ==
  /\ disk \in Seq(Bytes) /\ chunkSize \in Nat \ {0} /\ total \in Nat \ {0} /\ edits \in Nat
  /\ read \in Seq(Seq(Bytes)) /\ Len(read) <= total
  /\ edits = 0 => /\ disk # <<>> /\ total = TotalChunks(Len(disk), chunkSize)
                  /\ \A i \in 1 .. Len(read) : read[i] = ReadChunk(i - 1)
  /\ pc \in {"sending", "saved"} => Len(read) = total /\ tree = BuildMerkleTree(Hashes)

\* What the receiver keeps is what was read, chunk by chunk.
KeptInv ==
  /\ DOMAIN chunks \subseteq 0 .. total - 1
  /\ pc = "hashing" => DOMAIN chunks = {}
  /\ \A k \in DOMAIN chunks : chunks[k] = read[k + 1]
  /\ pc = "saved" => out = FlattenSeq(read)

ChunksInv == ReadInv /\ KeptInv

\* A file is a sequence of bytes.
LEMMA FilesAreSequences ==
  ASSUME NEW d \in Files
  PROVE  d \in Seq(Bytes)
<1>1. PICK n \in 0 .. MaxSize : d \in [1 .. n -> Bytes]
  BY DEF Files
<1>2. n \in Nat
  BY <1>1, ChunksAssumption
<1> QED
  BY <1>1, <1>2

\* A chunk is a sequence of bytes.
LEMMA ChunkType ==
  ASSUME ReadInv, NEW i \in Nat, Readable(i)
  PROVE  ReadChunk(i) \in Seq(Bytes)
<1> DEFINE a == i * chunkSize
           b == (i + 1) * chunkSize
           e == IF b < Len(disk) THEN b ELSE Len(disk)
<1>1. disk \in Seq(Bytes) /\ chunkSize \in Nat /\ Len(disk) \in Nat
  BY DEF ReadInv
<1>2. a \in Nat /\ b \in Nat /\ a < Len(disk) /\ a <= b
  BY <1>1 DEF Readable
<1>3. e \in Nat /\ a + 1 \in Nat /\ a + 1 >= 1 /\ e <= Len(disk) /\ a <= e
  BY <1>1, <1>2
<1>4. ReadChunk(i) = SubSeq(disk, a + 1, e)
  BY DEF ReadChunk
<1> HIDE DEF a, b, e
<1>5. ASSUME NEW j \in a + 1 .. e PROVE disk[j] \in Bytes
  BY <1>1, <1>3
<1>6. SubSeq(disk, a + 1, e) \in Seq(Bytes)
  BY <1>1, <1>3, <1>5
<1> QED
  BY <1>4, <1>6

\* Nothing is read or kept at first.
LEMMA ChunksInitial == ChunksInit => ChunksInv
<1> SUFFICES ASSUME ChunksInit PROVE ChunksInv
  OBVIOUS
<1>1. disk \in Seq(Bytes) /\ disk # <<>> /\ chunkSize \in Nat \ {0}
  BY FilesAreSequences, ChunksAssumption DEF ChunksInit
<1>2. Len(disk) \in Nat /\ Len(disk) > 0
  BY <1>1
<1>3. total \in Nat \ {0}
  BY <1>1, <1>2, TotalFacts DEF ChunksInit
<1>4. read = <<>> /\ <<>> \in Seq(Seq(Bytes)) /\ Len(<<>>) = 0
  BY DEF ChunksInit
<1>5. ReadInv
  BY <1>1, <1>3, <1>4 DEF ReadInv, ChunksInit
<1>6. DOMAIN chunks = {}
  BY DEF ChunksInit
<1>7. KeptInv
  BY <1>6 DEF KeptInv, ChunksInit
<1> QED
  BY <1>5, <1>7 DEF ChunksInv

\* AllChunkHashes reads one chunk more.
LEMMA HashChunkInv == ChunksInv /\ HashChunk => ChunksInv'
<1> SUFFICES ASSUME ChunksInv, HashChunk PROVE ChunksInv'
  OBVIOUS
<1>1. /\ pc = "hashing" /\ Len(read) < total
      /\ UNCHANGED <<disk, edits, chunkSize, total, tree, chunks, out>>
  BY DEF HashChunk
<1>2. DOMAIN chunks = {}
  BY <1>1 DEF ChunksInv, KeptInv
<1>3. CASE Readable(Len(read))
  <2> DEFINE n == Len(read)
             new == ReadChunk(n)
  <2>1. read' = Append(read, new) /\ pc' = pc
    BY <1>3 DEF HashChunk
  <2>2. read \in Seq(Seq(Bytes)) /\ n \in Nat /\ total \in Nat
    BY DEF ChunksInv, ReadInv
  <2>3. new \in Seq(Bytes)
    BY <1>3, <2>2, ChunkType DEF ChunksInv
  <2> HIDE DEF new
  <2>4. /\ read' \in Seq(Seq(Bytes)) /\ Len(read') = n + 1
        /\ \A i \in 1 .. n : read'[i] = read[i]
        /\ read'[n + 1] = new
    BY <2>1, <2>2, <2>3
  <2>5. \A i \in Nat : ReadChunk(i)' = ReadChunk(i)
    BY <1>1 DEF ReadChunk
  <2>6. ASSUME edits' = 0
        PROVE  /\ disk' # <<>> /\ total' = TotalChunks(Len(disk'), chunkSize')
               /\ \A i \in 1 .. Len(read') : read'[i] = ReadChunk(i - 1)'
    <3>1. /\ disk # <<>> /\ total = TotalChunks(Len(disk), chunkSize)
          /\ \A i \in 1 .. n : read[i] = ReadChunk(i - 1)
      BY <1>1, <2>6 DEF ChunksInv, ReadInv
    <3>2. ASSUME NEW i \in 1 .. Len(read') PROVE read'[i] = ReadChunk(i - 1)'
      <4>1. i \in Nat /\ i - 1 \in Nat /\ (i \in 1 .. n \/ (i = n + 1 /\ i - 1 = n))
        BY <2>2, <2>4
      <4>2. ReadChunk(i - 1)' = ReadChunk(i - 1)
        BY <2>5, <4>1
      <4>3. CASE i \in 1 .. n
        BY <2>4, <3>1, <4>2, <4>3
      <4>4. CASE i = n + 1 /\ i - 1 = n
        <5>1. ReadChunk(i - 1) = new
          BY <4>4 DEF new
        <5> QED
          BY <2>4, <4>2, <4>4, <5>1
      <4> QED
        BY <4>1, <4>3, <4>4
    <3> QED
      BY <1>1, <3>1, <3>2
  <2>7. ReadInv'
    <3>1. Len(read') <= total'
      BY <1>1, <2>2, <2>4
    <3>2. pc' \notin {"sending", "saved"}
      BY <1>1, <2>1
    <3> QED
      BY <1>1, <2>4, <2>6, <3>1, <3>2 DEF ChunksInv, ReadInv
  <2>8. KeptInv'
    BY <1>1, <1>2, <2>1 DEF KeptInv
  <2> QED
    BY <2>7, <2>8 DEF ChunksInv
<1>4. CASE ~Readable(Len(read))
  <2>1. pc' = "failed" /\ read' = read
    BY <1>4 DEF HashChunk
  <2>2. \A i : ReadChunk(i)' = ReadChunk(i)
    BY <1>1 DEF ReadChunk
  <2>3. ReadInv'
    BY <1>1, <2>1, <2>2 DEF ChunksInv, ReadInv
  <2>4. KeptInv'
    BY <1>1, <1>2, <2>1 DEF KeptInv
  <2> QED
    BY <2>3, <2>4 DEF ChunksInv
<1> QED
  BY <1>3, <1>4

\* The offer's tree is that of the chunks read.
LEMMA OfferInv == ChunksInv /\ Offer => ChunksInv'
<1> SUFFICES ASSUME ChunksInv, Offer PROVE ChunksInv'
  OBVIOUS
<1>1. /\ pc = "hashing" /\ Len(read) = total /\ tree' = BuildMerkleTree(Hashes) /\ pc' = "sending"
      /\ UNCHANGED <<disk, edits, chunkSize, total, read, chunks, out>>
  BY DEF Offer, Hashes
<1>2. Hashes' = Hashes
  BY <1>1 DEF Hashes
<1>3. \A i : ReadChunk(i)' = ReadChunk(i)
  BY <1>1 DEF ReadChunk
<1>4. ReadInv'
  BY <1>1, <1>2, <1>3 DEF ChunksInv, ReadInv
<1>5. KeptInv'
  BY <1>1 DEF ChunksInv, KeptInv
<1> QED
  BY <1>4, <1>5 DEF ChunksInv

\* What the receiver accepts as chunk i is what was read as chunk i.
LEMMA AcceptedAsRead ==
  ASSUME ChunksInv, pc = "sending", NEW i \in 0 .. total - 1, NEW data, Accepts(i, data)
  PROVE  data = read[i + 1]
<1>1. total \in Nat /\ total > 0 /\ tree = BuildMerkleTree(Hashes)
  BY DEF ChunksInv, ReadInv
<1>2. Len(Hashes) = total /\ Hashes[i + 1] = Sha256(read[i + 1])
  BY <1>1 DEF Hashes
<1>3. VerifyProof(Sha256(data), i, Proof(BuildMerkleTree(Hashes), i), Root(BuildMerkleTree(Hashes)))
  BY <1>1 DEF Accepts
<1> HIDE DEF Hashes
<1>4. Sha256(data) = Hashes[i + 1]
  BY <1>1, <1>2, <1>3, VerifyExact
<1> QED
  BY <1>2, <1>4 DEF Sha256

\* The receiver keeps the chunk it accepts.
LEMMA SendChunkInv == ASSUME NEW i \in 0 .. total - 1 PROVE ChunksInv /\ SendChunk(i) => ChunksInv'
<1> SUFFICES ASSUME ChunksInv, SendChunk(i) PROVE ChunksInv'
  OBVIOUS
<1>1. pc = "sending" /\ UNCHANGED <<disk, edits, chunkSize, total, read, tree, out>>
  BY DEF SendChunk
<1>2. /\ pc' \in {"sending", "failed"}
      /\ chunks' # chunks =>
           /\ Accepts(i, ReadChunk(i))
           /\ chunks' = [k \in DOMAIN chunks \cup {i} |-> IF k = i THEN ReadChunk(i) ELSE chunks[k]]
  BY <1>1 DEF SendChunk
<1>3. Hashes' = Hashes
  BY <1>1 DEF Hashes
<1>4. \A j : ReadChunk(j)' = ReadChunk(j)
  BY <1>1 DEF ReadChunk
<1>5. ReadInv'
  BY <1>1, <1>2, <1>3, <1>4 DEF ChunksInv, ReadInv
<1>6. DOMAIN chunks' \subseteq 0 .. total - 1 /\ \A k \in DOMAIN chunks' : chunks'[k] = read[k + 1]
  <2>1. DOMAIN chunks \subseteq 0 .. total - 1 /\ \A k \in DOMAIN chunks : chunks[k] = read[k + 1]
    BY DEF ChunksInv, KeptInv
  <2>2. CASE chunks' = chunks
    BY <2>1, <2>2
  <2>3. CASE chunks' # chunks
    <3>1. ReadChunk(i) = read[i + 1]
      BY <1>1, <1>2, <2>3, AcceptedAsRead
    <3> QED
      BY <1>2, <2>1, <2>3, <3>1
  <2> QED
    BY <2>2, <2>3
<1>7. KeptInv'
  BY <1>1, <1>2, <1>6 DEF KeptInv
<1> QED
  BY <1>5, <1>7 DEF ChunksInv

\* With as many chunks as the offer has, every chunk is there.
LEMMA ReassembleInv == ChunksInv /\ Reassemble => ChunksInv'
<1> SUFFICES ASSUME ChunksInv, Reassemble PROVE ChunksInv'
  OBVIOUS
<1>1. /\ pc = "sending" /\ Cardinality(DOMAIN chunks) = total
      /\ out' = FlattenSeq([i \in 1 .. total |-> chunks[i - 1]]) /\ pc' = "saved"
      /\ UNCHANGED <<disk, edits, chunkSize, total, read, tree, chunks>>
  BY DEF Reassemble
<1>2. /\ total \in Nat /\ Len(read) = total /\ read \in Seq(Seq(Bytes))
      /\ DOMAIN chunks \subseteq 0 .. total - 1
      /\ \A k \in DOMAIN chunks : chunks[k] = read[k + 1]
  BY <1>1 DEF ChunksInv, ReadInv, KeptInv
<1>3. DOMAIN chunks = 0 .. total - 1
  <2>1. IsFiniteSet(0 .. total - 1) /\ Cardinality(0 .. total - 1) = total
    <3> DEFINE last == total - 1
    <3>1. last \in Int /\ 0 \in Int
      BY <1>2
    <3>2. IsFiniteSet(0 .. last) /\ Cardinality(0 .. last) = IF 0 > last THEN 0 ELSE last - 0 + 1
      <4> HIDE DEF last
      <4> QED
        BY <3>1, FS_Interval
    <3> QED
      BY <1>2, <3>2
  <2> QED
    BY <1>1, <1>2, <2>1, FS_Subset
<1>4. [i \in 1 .. total |-> chunks[i - 1]] = read
  <2>1. ASSUME NEW i \in 1 .. total PROVE chunks[i - 1] = read[i]
    <3>1. i - 1 \in 0 .. total - 1 /\ (i - 1) + 1 = i
      BY <1>2
    <3> QED
      BY <1>2, <1>3, <3>1
  <2>2. read = [i \in 1 .. total |-> read[i]]
    BY <1>2
  <2> QED
    BY <2>1, <2>2
<1>5. out' = FlattenSeq(read)
  BY <1>1, <1>4
<1>6. Hashes' = Hashes
  BY <1>1 DEF Hashes
<1>7. \A j : ReadChunk(j)' = ReadChunk(j)
  BY <1>1 DEF ReadChunk
<1>8. ReadInv'
  BY <1>1, <1>6, <1>7 DEF ChunksInv, ReadInv
<1>9. KeptInv'
  BY <1>1, <1>5 DEF ChunksInv, KeptInv
<1> QED
  BY <1>8, <1>9 DEF ChunksInv

\* The invariant of the chunks is inductive.
LEMMA ChunksStep == ChunksInv /\ [ChunksNext]_chunkVars => ChunksInv'
<1> SUFFICES ASSUME ChunksInv, [ChunksNext]_chunkVars PROVE ChunksInv'
  OBVIOUS
<1>1. CASE HashChunk
  BY <1>1, HashChunkInv
<1>2. CASE Offer
  BY <1>2, OfferInv
<1>3. ASSUME NEW i \in 0 .. total - 1, SendChunk(i) PROVE ChunksInv'
  BY <1>3, SendChunkInv
<1>4. CASE Reassemble
  BY <1>4, ReassembleInv
<1>5. CASE EditDisk
  <2>1. /\ pc \in {"hashing", "sending"} /\ disk' \in Files /\ edits' = edits + 1
        /\ UNCHANGED <<chunkSize, total, read, tree, chunks, out, pc>>
    BY <1>5 DEF EditDisk
  <2>2. disk' \in Seq(Bytes)
    BY <2>1, FilesAreSequences
  <2>3. Hashes' = Hashes
    BY <2>1 DEF Hashes
  <2>4. edits' \in Nat /\ edits' # 0
    BY <2>1 DEF ChunksInv, ReadInv
  <2>5. ReadInv'
    BY <2>1, <2>2, <2>3, <2>4 DEF ChunksInv, ReadInv
  <2>6. KeptInv'
    BY <2>1 DEF ChunksInv, KeptInv
  <2> QED
    BY <2>5, <2>6 DEF ChunksInv
<1>6. CASE UNCHANGED chunkVars
  <2>1. UNCHANGED <<disk, edits, chunkSize, total, read, tree, chunks, out, pc>>
    BY <1>6 DEF chunkVars
  <2>2. Hashes' = Hashes
    BY <2>1 DEF Hashes
  <2>3. \A j : ReadChunk(j)' = ReadChunk(j)
    BY <2>1 DEF ReadChunk
  <2>4. ReadInv'
    BY <2>1, <2>2, <2>3 DEF ChunksInv, ReadInv
  <2>5. KeptInv'
    BY <2>1 DEF ChunksInv, KeptInv
  <2> QED
    BY <2>4, <2>5 DEF ChunksInv
<1> QED
  BY <1>1, <1>2, <1>3, <1>4, <1>5, <1>6 DEF ChunksNext

\* What was read, hashed and kept stays together for files, chunks and bytes of any
\* number and size, however often the sender's file is edited.
THEOREM ChunksInvariant == ChunksSpec => []ChunksInv
<1>1. ChunksInit => ChunksInv
  BY ChunksInitial
<1>2. ChunksInv /\ [ChunksNext]_chunkVars => ChunksInv'
  BY ChunksStep
<1> QED
  BY <1>1, <1>2, PTL DEF ChunksSpec

\* reassemble writes the file that AllChunkHashes read, or nothing: VerifyProof admits
\* no other chunk at any place.
THEOREM SavedFileHashed == ChunksSpec => []SavedAsHashed
<1>1. ChunksInv => SavedAsHashed
  BY DEF ChunksInv, KeptInv, SavedAsHashed
<1> QED
  BY <1>1, ChunksInvariant, PTL

\* Chunking and reassembly lose and repeat no byte of a file that is not edited.
THEOREM FileRoundTrip == ChunksSpec => []RoundTrip
<1>1. ChunksInv => RoundTrip
  <2> SUFFICES ASSUME ChunksInv, pc = "saved", edits = 0 PROVE out = disk
    BY DEF RoundTrip
  <2>1. out = FlattenSeq(read)
    BY DEF ChunksInv, KeptInv
  <2>2. /\ disk \in Seq(Bytes) /\ disk # <<>> /\ chunkSize \in Nat /\ chunkSize > 0
        /\ read \in Seq(Seq(Bytes)) /\ Len(read) = TotalChunks(Len(disk), chunkSize)
        /\ \A i \in 1 .. Len(read) : read[i] = ReadChunk(i - 1)
    BY DEF ChunksInv, ReadInv
  <2>3. Len(disk) > 0
    BY <2>2
  <2>4. \A i \in 1 .. Len(read) : read[i] = ChunkAt(disk, chunkSize, i - 1)
    BY <2>2 DEF ReadChunk, ChunkAt
  <2>5. FlattenSeq(read) = disk
    BY <2>2, <2>3, <2>4, ChunksJoin
  <2> QED
    BY <2>1, <2>5
<1> QED
  BY <1>1, ChunksInvariant, PTL

\* The root of an offer is that of the padded leaves taken by halves, and another
\* chunk at any place has another root.
THEOREM RootsCommit == ChunksSpec => []RootCommits
<1>1. ChunksInv => RootCommits
  <2> SUFFICES ASSUME ChunksInv, pc = "sending"
               PROVE  /\ Root(tree) = RootOf(tree.leaves)
                      /\ \A i \in 1 .. total, b \in Bytes :
                           LET other == [tree.leaves EXCEPT ![i] = Sha256(<<b>>)]
                           IN  other # tree.leaves => Root(BuildMerkleTree(other)) # Root(tree)
    BY DEF RootCommits
  <2>1. total \in Nat /\ total > 0 /\ tree = BuildMerkleTree(Hashes)
    BY DEF ChunksInv, ReadInv
  <2>2. Len(Hashes) = total /\ Hashes = [i \in 1 .. total |-> Hashes[i]]
    BY <2>1 DEF Hashes
  <2> HIDE DEF Hashes
  <2>3. tree.leaves = Hashes
    BY <2>1, <2>2, TreeFacts
  <2>4. Root(tree) = RootOf(tree.leaves)
    BY <2>1, <2>2, <2>3, RootByHalves
  <2>5. ASSUME NEW i \in 1 .. total, NEW x, [Hashes EXCEPT ![i] = x] # Hashes
        PROVE  Root(BuildMerkleTree([Hashes EXCEPT ![i] = x])) # Root(tree)
    <3> DEFINE other == [Hashes EXCEPT ![i] = x]
    <3>1. Len(other) = total /\ other = [j \in 1 .. total |-> other[j]]
      BY <2>1, <2>2
    <3>2. other # Hashes
      BY <2>5
    <3> HIDE DEF other
    <3>3. ~(\A j \in 1 .. total : Hashes[j] = other[j])
      BY <2>2, <3>1, <3>2
    <3>4. Root(BuildMerkleTree(Hashes)) # Root(BuildMerkleTree(other))
      BY <2>1, <2>2, <3>1, <3>3, RootInjective
    <3> QED
      BY <2>1, <3>4 DEF other
  <2>6. ASSUME NEW i \in 1 .. total, NEW b \in Bytes
        PROVE  LET other == [tree.leaves EXCEPT ![i] = Sha256(<<b>>)]
               IN  other # tree.leaves => Root(BuildMerkleTree(other)) # Root(tree)
    BY <2>3, <2>5
  <2> QED
    BY <2>4, <2>6
<1> QED
  BY <1>1, ChunksInvariant, PTL
===========================================================================
