------------------------- MODULE EnqueueBufferProofs -------------------------
(***************************************************************************)
(* Proofs about EnqueueBuffer, for any finite set of jobs, any capacity    *)
(* and any batch size.                                                     *)
(***************************************************************************)
EXTENDS EnqueueBuffer, FiniteSetTheorems, SequenceTheorems, TLAPS

Elems(s) == {s[i] : i \in DOMAIN s}

\* A sequence and one more element.
LEMMA AppendElems ==
  ASSUME NEW s \in Seq(Jobs), NEW j \in Jobs
  PROVE  /\ Append(s, j) \in Seq(Jobs) /\ Len(Append(s, j)) = Len(s) + 1
         /\ Elems(Append(s, j)) = Elems(s) \cup {j}
         /\ SubSeq(Append(s, j), 1, Len(s)) = s
<1>1. Append(s, j) \in Seq(Jobs) /\ Len(Append(s, j)) = Len(s) + 1
  OBVIOUS
<1>2. /\ DOMAIN Append(s, j) = 1 .. Len(s) + 1 /\ DOMAIN s = 1 .. Len(s)
      /\ \A i \in 1 .. Len(s) : Append(s, j)[i] = s[i]
      /\ Append(s, j)[Len(s) + 1] = j
  OBVIOUS
<1>3. Elems(Append(s, j)) = Elems(s) \cup {j}
  BY <1>2 DEF Elems
<1>4. SubSeq(Append(s, j), 1, Len(s)) = s
  BY <1>2
<1> QED BY <1>1, <1>3, <1>4

\* Moving the head of the channel to the batch, and the batch to the queue,
\* changes nothing of the line of jobs.
LEMMA LineStays ==
  ASSUME NEW a \in Seq(Jobs), NEW b \in Seq(Jobs), NEW c \in Seq(Jobs)
  PROVE  /\ a \o b \o c \in Seq(Jobs)
         /\ (a \o b) \o << >> \o c = a \o b \o c
         /\ \A j \in Jobs : a \o b \o Append(c, j) = Append(a \o b \o c, j)
         /\ c # << >> => /\ a \o Append(b, Head(c)) \o Tail(c) = a \o b \o c
                         /\ (a \o Append(b, Head(c))) \o << >> \o Tail(c) = a \o b \o c
<1>1. a \o b \in Seq(Jobs) /\ a \o b \o c \in Seq(Jobs)
  OBVIOUS
<1>2. (a \o b) \o << >> = a \o b
  BY <1>1
<1>3. ASSUME NEW j \in Jobs PROVE a \o b \o Append(c, j) = Append(a \o b \o c, j)
  BY <1>1
<1>4. ASSUME c # << >>
      PROVE /\ a \o Append(b, Head(c)) \o Tail(c) = a \o b \o c
            /\ (a \o Append(b, Head(c))) \o << >> \o Tail(c) = a \o b \o c
  <2>1. Head(c) \in Jobs /\ Append(b, Head(c)) \in Seq(Jobs) /\ Tail(c) \in Seq(Jobs)
    BY <1>4
  <2>2. a \o Append(b, Head(c)) = Append(a \o b, Head(c))
    BY <2>1
  <2>3. Append(a \o b, Head(c)) \o Tail(c) = a \o b \o c
    BY <1>1, <1>4
  <2>4. a \o Append(b, Head(c)) \in Seq(Jobs)
    BY <2>1
  <2>5. (a \o Append(b, Head(c))) \o << >> = a \o Append(b, Head(c))
    BY <2>4
  <2> QED BY <2>2, <2>3, <2>5
<1> QED BY <1>1, <1>2, <1>3, <1>4

\* What keeps early jobs from being left behind: they were accepted, there are
\* none of a worker that had not started, and one that is done has flushed them.
EarlyKept ==
  /\ early \subseteq Accepted
  /\ worker = "unstarted" => early = {}
  /\ worker = "done" => early \subseteq Elems(flushed)
  /\ (stopping = "returned" /\ worker # "done") => early = {}
  /\ ~stopped => stopping = "no" /\ worker \notin {"drain", "done"}

InLine == Elems(InFlight) = Accepted /\ Len(InFlight) = Cardinality(Accepted)

IInv == TypeOK /\ InLine /\ EarlyKept

\* The empty buffer satisfies the invariant.
LEMMA InvInit == Init => IInv
<1> SUFFICES ASSUME Init PROVE IInv
  OBVIOUS
<1>1. TypeOK
  <2>1. << >> \in Seq(Jobs) /\ Len(<< >>) = 0
    OBVIOUS
  <2>2. 0 <= Capacity /\ 0 < BatchSize
    BY BufferAssumption
  <2>3. batch = << >> /\ jobChan = << >> /\ flushed = << >>
    BY DEF Init
  <2>4. batch \in Seq(Jobs) /\ jobChan \in Seq(Jobs) /\ flushed \in Seq(Jobs)
    BY <2>1, <2>3
  <2>5. Len(jobChan) <= Capacity /\ Len(batch) < BatchSize
    BY <2>1, <2>2, <2>3
  <2> QED BY <2>4, <2>5 DEF Init, TypeOK
<1>2. Accepted = {} /\ Cardinality({}) = 0
  BY FS_EmptySet DEF Init, Accepted
<1>3. InFlight = << >> /\ Elems(<< >>) = {} /\ Len(<< >>) = 0
  BY DEF Init, InFlight, Elems
<1>4. EarlyKept
  BY DEF Init, EarlyKept
<1> QED BY <1>1, <1>2, <1>3, <1>4 DEF IInv, InLine

\* What one step does to the line of jobs: it stays, or an accepted job joins
\* its end.
LEMMA LineStep ==
  ASSUME TypeOK, [Next]_vars
  PROVE  \/ InFlight' = InFlight /\ Accepted' = Accepted
         \/ \E j \in Jobs : /\ j \notin Accepted /\ Accepted' = Accepted \cup {j}
                            /\ InFlight' = Append(InFlight, j)
<1> USE DEF InFlight
<1>0. flushed \in Seq(Jobs) /\ batch \in Seq(Jobs) /\ jobChan \in Seq(Jobs)
  BY DEF TypeOK
<1>1. ASSUME NEW j \in Jobs, Check(j) PROVE InFlight' = InFlight /\ Accepted' = Accepted
  BY <1>1 DEF Check, Accepted, TypeOK
<1>2. ASSUME NEW j \in Jobs, Send(j)
      PROVE  \/ InFlight' = InFlight /\ Accepted' = Accepted
             \/ /\ j \notin Accepted /\ Accepted' = Accepted \cup {j}
                /\ InFlight' = Append(InFlight, j)
  <2>1. CASE call' = [call EXCEPT ![j] = "accepted"] /\ jobChan' = Append(jobChan, j)
    <3>1. j \notin Accepted /\ Accepted' = Accepted \cup {j}
      BY <1>2, <2>1 DEF Send, Accepted, TypeOK
    <3>2. UNCHANGED <<flushed, batch>>
      BY <1>2 DEF Send
    <3> QED BY <1>0, <2>1, <3>1, <3>2, LineStays
  <2>2. CASE call' = [call EXCEPT ![j] = "full"] /\ UNCHANGED jobChan
    BY <1>2, <2>2 DEF Send, Accepted, TypeOK
  <2> QED BY <1>2, <2>1, <2>2 DEF Send
<1>3. CASE Take
  <2>1. jobChan # << >> /\ jobChan' = Tail(jobChan) /\ call' = call
    BY <1>3 DEF Take
  <2>2. \/ batch' = Append(batch, Head(jobChan)) /\ flushed' = flushed
        \/ batch' = << >> /\ flushed' = flushed \o Append(batch, Head(jobChan))
    BY <1>3 DEF Take
  <2>3. InFlight' = InFlight
    <3>1. flushed \o Append(batch, Head(jobChan)) \o Tail(jobChan) = flushed \o batch \o jobChan
      BY <1>0, <2>1, LineStays
    <3>2. (flushed \o Append(batch, Head(jobChan))) \o << >> \o Tail(jobChan)
            = flushed \o batch \o jobChan
      BY <1>0, <2>1, LineStays
    <3>3. CASE batch' = Append(batch, Head(jobChan)) /\ flushed' = flushed
      BY <2>1, <3>1, <3>3
    <3>4. CASE batch' = << >> /\ flushed' = flushed \o Append(batch, Head(jobChan))
      BY <2>1, <3>2, <3>4
    <3> QED BY <2>2, <3>3, <3>4
  <2> QED BY <2>1, <2>3 DEF Accepted
<1>4. CASE Tick \/ Finish
  <2>1. batch' = << >> /\ flushed' = flushed \o batch /\ UNCHANGED <<jobChan, call>>
    BY <1>4 DEF Tick, Finish
  <2> QED BY <1>0, <2>1, LineStays DEF Accepted
<1>5. CASE Start \/ Notice \/ StopFlag \/ StopClose \/ StopReturn \/ UNCHANGED vars
  BY <1>5 DEF Start, Notice, StopFlag, StopClose, StopReturn, vars, Accepted
<1> QED BY <1>1, <1>2, <1>3, <1>4, <1>5 DEF Next, WorkerStep

\* The types are kept; a full batch is flushed at once.
LEMMA TypeStep == ASSUME TypeOK, [Next]_vars PROVE TypeOK'
<1> USE BufferAssumption
<1>1. ASSUME NEW j \in Jobs, Check(j) \/ Send(j) PROVE TypeOK'
  <2>1. call' \in [Jobs -> {"new", "checked", "accepted", "full", "stopped"}]
    BY <1>1 DEF Check, Send, TypeOK
  <2>3. jobChan' \in Seq(Jobs) /\ Len(jobChan') <= Capacity
    <3>1. jobChan \in Seq(Jobs) /\ Len(jobChan) <= Capacity /\ Len(jobChan) \in Nat
      BY DEF TypeOK
    <3>2. CASE jobChan' = jobChan
      BY <3>1, <3>2
    <3>3. CASE jobChan' = Append(jobChan, j) /\ Len(jobChan) < Capacity
      <4>1. jobChan' \in Seq(Jobs) /\ Len(jobChan') = Len(jobChan) + 1
        BY <3>1, <3>3, AppendElems
      <4> QED BY <3>1, <3>3, <4>1
    <3>4. jobChan' = jobChan \/ (jobChan' = Append(jobChan, j) /\ Len(jobChan) < Capacity)
      BY <1>1 DEF Check, Send
    <3> QED BY <3>2, <3>3, <3>4
  <2>2. UNCHANGED <<batch, worker, stopped, stopping, flushed, early>>
    BY <1>1 DEF Check, Send
  <2> QED BY <2>1, <2>2, <2>3 DEF TypeOK
<1>2. CASE Take
  <2>1. Head(jobChan) \in Jobs /\ Tail(jobChan) \in Seq(Jobs) /\ Len(Tail(jobChan)) <= Capacity
    BY <1>2 DEF Take, TypeOK
  <2>2. /\ batch' \in Seq(Jobs) /\ Len(batch') < BatchSize /\ flushed' \in Seq(Jobs)
    <3> DEFINE b == Append(batch, Head(jobChan))
    <3>1. batch \in Seq(Jobs) /\ flushed \in Seq(Jobs)
      BY DEF TypeOK
    <3>2. b \in Seq(Jobs) /\ flushed \o b \in Seq(Jobs) /\ Len(b) \in Nat
      BY <2>1, <3>1
    <3>3. << >> \in Seq(Jobs) /\ Len(<< >>) = 0
      OBVIOUS
    <3>4. \/ Len(b) >= BatchSize /\ batch' = << >> /\ flushed' = flushed \o b
          \/ ~(Len(b) >= BatchSize) /\ batch' = b /\ flushed' = flushed
      BY <1>2 DEF Take
    <3>5. 0 < BatchSize /\ BatchSize \in Nat
      BY BufferAssumption
    <3> HIDE DEF b
    <3>6. CASE Len(b) >= BatchSize /\ batch' = << >> /\ flushed' = flushed \o b
      <4>1. Len(batch') = 0 /\ batch' \in Seq(Jobs)
        BY <3>3, <3>6
      <4> QED BY <3>2, <3>5, <3>6, <4>1
    <3>7. CASE ~(Len(b) >= BatchSize) /\ batch' = b /\ flushed' = flushed
      <4>1. Len(b) < BatchSize
        BY <3>2, <3>5, <3>7
      <4> QED BY <3>1, <3>2, <3>7, <4>1
    <3> QED BY <3>4, <3>6, <3>7
  <2>3. jobChan' = Tail(jobChan) /\ UNCHANGED <<call, worker, stopped, stopping, early>>
    BY <1>2 DEF Take
  <2> QED BY <2>1, <2>2, <2>3 DEF TypeOK
<1>3. CASE Tick \/ Finish
  <2>1. batch' = << >> /\ flushed' = flushed \o batch
    BY <1>3 DEF Tick, Finish
  <2>2. flushed \in Seq(Jobs) /\ batch \in Seq(Jobs)
    BY DEF TypeOK
  <2>3. flushed' \in Seq(Jobs) /\ << >> \in Seq(Jobs) /\ Len(<< >>) = 0
    BY <2>1, <2>2
  <2> QED BY <1>3, <2>1, <2>3 DEF Tick, Finish, TypeOK
<1>4. CASE Start \/ Notice \/ StopFlag \/ StopClose \/ StopReturn \/ UNCHANGED vars
  BY <1>4 DEF Start, Notice, StopFlag, StopClose, StopReturn, vars, TypeOK, Accepted
<1> QED BY <1>1, <1>2, <1>3, <1>4 DEF Next, WorkerStep

\* Stop and the worker keep hold of what was accepted before Stop.
LEMMA EarlyStep == ASSUME IInv, [Next]_vars PROVE EarlyKept'
<1>0. TypeOK /\ InLine /\ EarlyKept
  BY DEF IInv
<1>1. Accepted \subseteq Accepted'
  BY <1>0, LineStep
<1>2. flushed \in Seq(Jobs) /\ batch \in Seq(Jobs)
  BY <1>0 DEF TypeOK
<1>3. ASSUME NEW j \in Jobs, Check(j) \/ Send(j) PROVE EarlyKept'
  BY <1>0, <1>1, <1>3 DEF Check, Send, EarlyKept
<1>4. CASE Take \/ Tick \/ Notice
  <2>1. worker' # "done" /\ worker # "done" /\ worker # "unstarted" /\ worker' # "unstarted"
    BY <1>4 DEF Take, Tick, Notice
  <2>2. UNCHANGED <<early, stopped, stopping>>
    BY <1>4 DEF Take, Tick, Notice
  <2>3. ~stopped => worker' # "drain"
    BY <1>0, <1>4 DEF Take, Tick, Notice, EarlyKept
  <2> QED BY <1>0, <1>1, <2>1, <2>2, <2>3 DEF EarlyKept
<1>5. CASE Finish
  <2>1. /\ jobChan = << >> /\ worker = "drain" /\ worker' = "done"
        /\ flushed' = flushed \o batch /\ UNCHANGED <<early, stopped, stopping>>
    BY <1>5 DEF Finish
  <2>2. flushed \o batch \o << >> = flushed \o batch
    BY <1>2
  <2>3. Elems(flushed') = Accepted
    BY <1>0, <2>1, <2>2 DEF InLine, InFlight
  <2>4. stopped
    BY <1>0, <1>5 DEF EarlyKept, Finish, TypeOK
  <2> QED BY <1>0, <1>1, <2>1, <2>3, <2>4 DEF EarlyKept
<1>6. CASE Start \/ StopClose \/ StopReturn \/ UNCHANGED vars
  <2>1. UNCHANGED <<early, flushed, stopped>>
    BY <1>6 DEF Start, StopClose, StopReturn, vars
  <2>2. CASE Start
    BY <1>0, <1>1, <2>1, <2>2 DEF Start, EarlyKept
  <2>3. CASE StopClose
    BY <1>0, <1>1, <2>1, <2>3 DEF StopClose, EarlyKept
  <2>4. CASE StopReturn
    BY <1>0, <1>1, <2>1, <2>4 DEF StopReturn, EarlyKept
  <2>5. CASE UNCHANGED vars
    BY <1>0, <1>1, <2>1, <2>5 DEF vars, EarlyKept
  <2> QED BY <1>6, <2>2, <2>3, <2>4, <2>5
<1>7. CASE StopFlag
  <2>1. early' = (IF worker = "unstarted" THEN {} ELSE Accepted) /\ worker' = worker /\ ~stopped
        /\ stopped' = TRUE /\ stopping' = "flagged" /\ Accepted' = Accepted
    BY <1>7 DEF StopFlag, Accepted
  <2>2. worker # "done"
    BY <1>0, <2>1 DEF EarlyKept
  <2> QED BY <2>1, <2>2 DEF EarlyKept
<1> QED BY <1>3, <1>4, <1>5, <1>6, <1>7 DEF Next, WorkerStep

\* Every step keeps the invariant.
LEMMA InvStep == IInv /\ [Next]_vars => IInv'
<1> SUFFICES ASSUME IInv, [Next]_vars PROVE IInv'
  OBVIOUS
<1>1. TypeOK' /\ EarlyKept'
  BY TypeStep, EarlyStep DEF IInv
<1>2. InLine'
  <2>1. InFlight \in Seq(Jobs)
    BY LineStays DEF IInv, TypeOK, InFlight
  <2>2. IsFiniteSet(Accepted)
    BY BufferAssumption, FS_Subset DEF Accepted
  <2>3. CASE InFlight' = InFlight /\ Accepted' = Accepted
    BY <2>3 DEF IInv, InLine
  <2>4. ASSUME NEW j \in Jobs, j \notin Accepted, Accepted' = Accepted \cup {j},
               InFlight' = Append(InFlight, j)
        PROVE  InLine'
    <3>1. Elems(InFlight') = Elems(InFlight) \cup {j} /\ Len(InFlight') = Len(InFlight) + 1
      BY <2>1, <2>4, AppendElems
    <3>2. Cardinality(Accepted') = Cardinality(Accepted) + 1
      BY <2>2, <2>4, FS_AddElement
    <3> QED BY <2>4, <3>1, <3>2 DEF IInv, InLine
  <2> QED BY <2>3, <2>4, LineStep DEF IInv
<1> QED BY <1>1, <1>2 DEF IInv

\* The channel and the batch keep their bounds (EnqueueFirstStage, worker).
THEOREM BufferTypes == Spec => []TypeOK
<1>1. IInv => TypeOK
  BY DEF IInv
<1> QED BY InvInit, InvStep, <1>1, PTL DEF Spec

\* Every accepted job is in exactly one place, and those accepted before Stop
\* are in the queue when it returns (EnqueueFirstStage, worker, flush, Stop).
THEOREM NothingIsLost == Spec => []NothingLost
<1>1. IInv => NothingLost
  BY DEF IInv, InLine, EarlyKept, NothingLost, Elems
<1> QED BY InvInit, InvStep, <1>1, PTL DEF Spec

\* The line of jobs from queue to channel only grows at its end.
THEOREM OrderIsKept == Spec => OrderKept
<1>1. IInv /\ [Next]_vars =>
        [/\ Len(InFlight') \in {Len(InFlight), Len(InFlight) + 1}
         /\ SubSeq(InFlight', 1, Len(InFlight)) = InFlight]_vars
  <2> SUFFICES ASSUME IInv, [Next]_vars
               PROVE  /\ Len(InFlight') \in {Len(InFlight), Len(InFlight) + 1}
                      /\ SubSeq(InFlight', 1, Len(InFlight)) = InFlight
    OBVIOUS
  <2>1. InFlight \in Seq(Jobs)
    BY LineStays DEF IInv, TypeOK, InFlight
  <2>2. SubSeq(InFlight, 1, Len(InFlight)) = InFlight
    BY <2>1
  <2>3. CASE InFlight' = InFlight
    BY <2>2, <2>3
  <2>4. ASSUME NEW j \in Jobs, InFlight' = Append(InFlight, j)
        PROVE  /\ Len(InFlight') = Len(InFlight) + 1
               /\ SubSeq(InFlight', 1, Len(InFlight)) = InFlight
    BY <2>1, <2>4, AppendElems
  <2> QED BY <2>3, <2>4, LineStep DEF IInv
<1> QED BY InvInit, InvStep, <1>1, PTL DEF Spec, OrderKept
=============================================================================
