-------------------------- MODULE NodeKeeperProofs --------------------------
(***************************************************************************)
(* Proofs about the components of the node keeper that run on their own:   *)
(* the timed functor queue, for any functors, which also implements the    *)
(* ordered runner; the pulls of the gossip transport, for any pulls, any   *)
(* sizes of header, bodies and buffers, and any cutting of the streams; and*)
(* the failure detector, for any set of relays and any overlapping rounds. *)
(***************************************************************************)
EXTENDS TimedFunctorQueue, Transport, RelayPing, SequenceTheorems, TLAPS

-----------------------------------------------------------------------------
(* The timed functor queue.                                                *)

\* The worker holds a functor with runs left exactly while it runs one, whatever
\* is queued is owed at least once, and a queue is destroyed after its worker.
QueueInv ==
    /\ QueueTypeOK
    /\ \A i \in 1 .. Len(queue) : queue[i].times \in 1 .. MaxTimes
    /\ worker = "run" <=> current.times > 0
    /\ owner = "gone" => worker = "over"

\* What is owed after one of its runs.
LEMMA OwedLess ==
  ASSUME NEW x \in Owed, x.times > 0
  PROVE  /\ [x EXCEPT !.times = @ - 1] \in Owed
         /\ [x EXCEPT !.times = @ - 1].times = x.times - 1
<1>1. x.times \in Nat /\ x.times - 1 \in Nat
  BY DEF Owed
<1>2. QED
  BY <1>1 DEF Owed

LEMMA QueueInitInv == QueueInit => QueueInv
<1> SUFFICES ASSUME QueueInit PROVE QueueInv
  OBVIOUS
<1>1. Idle \in Owed /\ Idle.times = 0
  BY QueueAssumption DEF Idle, Owed
<1>2. /\ queue \in Seq(Owed) /\ ranFunctors \in Seq(Functor)
      /\ \A i \in 1 .. Len(queue) : queue[i].times \in 1 .. MaxTimes
  BY DEF QueueInit
<1>3. current \in Owed /\ current.times = 0
  BY <1>1 DEF QueueInit
<1>4. /\ worker = "check" /\ shouldStop = FALSE /\ owner = "uses"
      /\ pushes \in 0 .. MaxPushes
  BY QueueAssumption DEF QueueInit
<1>5. ~(current.times > 0)
  BY <1>3
<1>6. QED
  BY <1>2, <1>3, <1>4, <1>5 DEF QueueInv, QueueTypeOK

\* A functor that is to be run goes to the end of the queue, as one more owed.
LEMMA PushInv ==
  ASSUME QueueInv, NEW f \in Functor, NEW times \in 0 .. MaxTimes, PushFunctor(f, times)
  PROVE  QueueInv'
<1> USE QueueAssumption DEF QueueInv, QueueTypeOK, PushFunctor
<1>1. CASE times < 1
  BY <1>1
<1>2. CASE times >= 1
  <2> DEFINE x == [functor |-> f, times |-> times]
  <2>1. x \in Owed /\ x.times \in 1 .. MaxTimes
    BY <1>2 DEF Owed
  <2>2. queue' = Append(queue, x)
    BY <1>2
  <2> HIDE DEF x
  <2>3. /\ queue' \in Seq(Owed) /\ Len(queue') = Len(queue) + 1
        /\ \A i \in 1 .. Len(queue') :
              queue'[i] = IF i = Len(queue) + 1 THEN x ELSE queue[i]
    BY <2>1, <2>2
  <2>4. \A i \in 1 .. Len(queue') : queue'[i].times \in 1 .. MaxTimes
    BY <2>1, <2>3
  <2>5. QED
    BY <2>3, <2>4
<1>3. QED
  BY <1>1, <1>2

\* What is popped is owed at least once.
LEMMA TakeInv ==
  ASSUME QueueInv, TakeFront
  PROVE  /\ QueueInv'
         /\ current' = Head(queue) /\ queue' = Tail(queue)
         /\ current'.times > 0
<1> USE QueueAssumption DEF QueueInv, QueueTypeOK, TakeFront
<1>1. /\ Head(queue) = queue[1] /\ 1 \in 1 .. Len(queue) /\ Head(queue) \in Owed
      /\ Tail(queue) \in Seq(Owed) /\ Len(Tail(queue)) = Len(queue) - 1
      /\ \A i \in 1 .. Len(Tail(queue)) : Tail(queue)[i] = queue[i + 1]
  BY HeadTailProperties, EmptySeq
<1>2. current'.times \in 1 .. MaxTimes
  BY <1>1
<1>3. \A i \in 1 .. Len(queue') : queue'[i].times \in 1 .. MaxTimes
  BY <1>1
<1>4. QED
  BY <1>1, <1>2, <1>3

\* A run uses up one of the runs owed.
LEMMA RunInv ==
  ASSUME QueueInv, RunFunctor
  PROVE  /\ QueueInv'
         /\ current.times > 0
         /\ current' = [current EXCEPT !.times = @ - 1]
<1> USE QueueAssumption DEF QueueInv, QueueTypeOK, RunFunctor, Owed
<1>1. current \in Owed /\ current.times > 0
  OBVIOUS
<1>2. current' \in Owed /\ current'.times = current.times - 1
  <2> HIDE DEF Owed
  <2>1. current' = [current EXCEPT !.times = @ - 1]
    OBVIOUS
  <2>2. QED
    BY ONLY <1>1, <2>1, OwedLess
<1>3. Append(ranFunctors, current.functor) \in Seq(Functor)
  BY <1>1
<1>4. QED
  BY <1>1, <1>2, <1>3

LEMMA QueueStepInv == QueueInv /\ [QueueNext]_queueVars => QueueInv'
<1> SUFFICES ASSUME QueueInv, [QueueNext]_queueVars PROVE QueueInv'
  OBVIOUS
<1>1. ASSUME NEW f \in Functor, NEW times \in 0 .. MaxTimes, PushFunctor(f, times)
      PROVE  QueueInv'
  BY <1>1, PushInv
<1>2. CASE CheckStop
  BY <1>2 DEF CheckStop, QueueInv, QueueTypeOK
<1>3. CASE Peek
  BY <1>3 DEF Peek, QueueInv, QueueTypeOK
<1>4. CASE TakeFront
  BY <1>4, TakeInv
<1>5. CASE RunFunctor
  BY <1>5, RunInv
<1>6. CASE StopQueue
  BY <1>6 DEF StopQueue, QueueInv, QueueTypeOK
<1>7. CASE JoinQueue
  BY <1>7 DEF JoinQueue, QueueInv, QueueTypeOK
<1>8. CASE UNCHANGED queueVars
  BY <1>8 DEF queueVars, QueueInv, QueueTypeOK
<1>9. QED
  BY <1>1, <1>2, <1>3, <1>4, <1>5, <1>6, <1>7, <1>8 DEF QueueNext, WorkerStep

\* The state of TimedFunctorQueue keeps its types.
THEOREM QueueTypeCorrect == QueueSpec => []QueueTypeOK
<1>1. QueueInv => QueueTypeOK
  BY DEF QueueInv
<1>2. QED
  BY <1>1, QueueInitInv, QueueStepInv, PTL DEF QueueSpec

-----------------------------------------------------------------------------
(* The refinement: what each step does to InHand \o queue.                 *)

LEMMA RunnerInitMaps == QueueInit => Runner!RunnerInit
<1> SUFFICES ASSUME QueueInit PROVE Runner!RunnerInit
  OBVIOUS
<1>1. InHand = <<>> /\ queue = <<>>
  BY DEF QueueInit, Idle, InHand
<1>2. InHand \o queue = <<>>
  BY <1>1, ConcatEmptySeq, EmptySeq
<1>3. QED
  BY <1>2 DEF QueueInit, Runner!RunnerInit

\* A push is accepted by the runner, or dropped and not seen by it.
LEMMA PushMaps ==
  ASSUME QueueInv, NEW f \in Functor, NEW times \in 0 .. MaxTimes, PushFunctor(f, times)
  PROVE  [Runner!RunnerNext]_(Runner!runnerVars)
<1>1. UNCHANGED <<InHand, ranFunctors, owner>> /\ owner = "uses"
  BY DEF PushFunctor, InHand
<1>2. CASE times < 1
  BY <1>1, <1>2 DEF PushFunctor, Runner!runnerVars
<1>3. CASE times >= 1
  <2> DEFINE x == [functor |-> f, times |-> times]
  <2>1. x \in Owed
    BY <1>3, QueueAssumption DEF Owed
  <2>2. queue' = Append(queue, x)
    BY <1>3, QueueAssumption DEF PushFunctor
  <2>3. InHand \in Seq(Owed) /\ queue \in Seq(Owed)
    BY DEF QueueInv, QueueTypeOK, InHand
  <2> HIDE DEF x
  <2>4. InHand \o Append(queue, x) = Append(InHand \o queue, x)
    BY <2>1, <2>3
  <2>5. (InHand \o queue)' = Append(InHand \o queue, x)
    BY <1>1, <2>2, <2>4
  <2> USE DEF x
  <2>6. Runner!Accept(f, times)
    BY <1>1, <1>3, <2>5, QueueAssumption DEF Runner!Accept
  <2>7. times \in 1 .. MaxTimes
    BY <1>3, QueueAssumption
  <2>8. QED
    BY <2>6, <2>7 DEF Runner!RunnerNext
<1>4. QED
  BY <1>2, <1>3, QueueAssumption

\* A pop moves the oldest functor from the queue to the worker's hand.
LEMMA TakeMaps ==
  ASSUME QueueInv, TakeFront
  PROVE  UNCHANGED Runner!runnerVars
<1>1. InHand = <<>> /\ queue \in Seq(Owed) /\ queue # <<>>
  BY DEF QueueInv, QueueTypeOK, TakeFront, InHand
<1>2. InHand' = <<Head(queue)>> /\ queue' = Tail(queue)
  BY TakeInv DEF InHand
<1>3. <<Head(queue)>> \o Tail(queue) = queue
  BY <1>1
<1>4. InHand \o queue = queue
  BY <1>1, ConcatEmptySeq
<1>5. (InHand \o queue)' = InHand \o queue
  BY <1>2, <1>3, <1>4
<1>6. QED
  BY <1>5 DEF TakeFront, Runner!runnerVars

\* A run is the run of the oldest functor.
LEMMA RunMaps ==
  ASSUME QueueInv, RunFunctor
  PROVE  Runner!RunOldest
<1> DEFINE todo == InHand \o queue
<1>1. /\ current \in Owed /\ queue \in Seq(Owed)
      /\ current.times > 0 /\ current' = [current EXCEPT !.times = @ - 1]
      /\ queue' = queue
  BY RunInv DEF QueueInv, QueueTypeOK, RunFunctor
<1>2. todo = <<current>> \o queue
  BY <1>1 DEF InHand
<1>3. todo # <<>> /\ Head(todo) = current /\ Tail(todo) = queue
  BY <1>1, <1>2
<1>4. todo' = IF Head(todo).times = 1 THEN Tail(todo)
              ELSE <<[Head(todo) EXCEPT !.times = @ - 1]>> \o Tail(todo)
  <2>1. CASE current.times = 1
    <3>1. InHand' = <<>>
      BY <1>1, <2>1 DEF InHand, Owed
    <3>2. todo' = queue
      BY <1>1, <3>1, ConcatEmptySeq
    <3>3. QED
      BY <1>3, <2>1, <3>2
  <2>2. CASE current.times # 1
    <3>1. current'.times > 0
      <4>1. current'.times = current.times - 1
        BY <1>1, OwedLess
      <4>2. current.times \in Nat
        BY <1>1 DEF Owed
      <4>3. QED
        BY <1>1, <2>2, <4>1, <4>2
    <3>2. InHand' = <<current'>>
      BY <3>1 DEF InHand
    <3>3. todo' = <<current'>> \o queue
      BY <1>1, <3>2
    <3>4. QED
      BY <1>1, <1>3, <2>2, <3>3
  <2>3. QED
    BY <2>1, <2>2
<1>5. owner # "gone" /\ owner' = owner
  BY DEF QueueInv, RunFunctor
<1>6. ranFunctors' = Append(ranFunctors, Head(todo).functor)
  BY <1>3 DEF RunFunctor
<1>7. QED
  BY <1>3, <1>4, <1>5, <1>6 DEF Runner!RunOldest

LEMMA RunnerStepMaps ==
  QueueInv /\ [QueueNext]_queueVars => [Runner!RunnerNext]_(Runner!runnerVars)
<1> SUFFICES ASSUME QueueInv, [QueueNext]_queueVars
             PROVE  [Runner!RunnerNext]_(Runner!runnerVars)
  OBVIOUS
<1>1. ASSUME NEW f \in Functor, NEW times \in 0 .. MaxTimes, PushFunctor(f, times)
      PROVE  [Runner!RunnerNext]_(Runner!runnerVars)
  BY <1>1, PushMaps
<1>2. CASE CheckStop
  BY <1>2 DEF CheckStop, InHand, Runner!runnerVars
<1>3. CASE Peek
  BY <1>3 DEF Peek, InHand, Runner!runnerVars
<1>4. CASE TakeFront
  BY <1>4, TakeMaps
<1>5. CASE RunFunctor
  BY <1>5, RunMaps DEF Runner!RunnerNext
<1>6. CASE StopQueue
  BY <1>6 DEF StopQueue, InHand, Runner!runnerVars
<1>7. CASE JoinQueue
  <2>1. UNCHANGED <<InHand, queue, ranFunctors>>
    BY <1>7 DEF JoinQueue, InHand
  <2>2. Runner!Close
    BY <1>7, <2>1 DEF JoinQueue, Runner!Close
  <2>3. QED
    BY <2>2 DEF Runner!RunnerNext
<1>8. CASE UNCHANGED queueVars
  BY <1>8 DEF queueVars, InHand, Runner!runnerVars
<1>9. QED
  BY <1>1, <1>2, <1>3, <1>4, <1>5, <1>6, <1>7, <1>8 DEF QueueNext, WorkerStep

\* Every behaviour of TimedFunctorQueue, destructor included, is one of a runner
\* that runs what it accepted in order and as often as it was asked to.
THEOREM QueueImplementsRunner == QueueSpec => RunsInOrder
<1>1. QueueSpec => []QueueInv
  BY QueueInitInv, QueueStepInv, PTL DEF QueueSpec
<1>2. QED
  BY <1>1, RunnerInitMaps, RunnerStepMaps, PTL DEF QueueSpec, RunsInOrder, Runner!RunnerSpec

-----------------------------------------------------------------------------
(* The pulls of the gossip transport.                                      *)

\* A pull has no result before its session has ended, then one; only a transport
\* that is gone leaves a pull without.
ResultInv(p) ==
    /\ \/ results[p] = NoResult
       \/ /\ pull[p] = "ended"
          /\ results[p] \in {[ok |-> 1, error |-> 0], [ok |-> 0, error |-> 1]}
    /\ pull[p] = "ended" /\ transport # "gone" => results[p] # NoResult

\* The decoder never takes more than a frame, and an answer is whole from then on.
AnswerInv(p) ==
    /\ answer[p].got <= FrameBytes(answer[p])
    /\ request[p].got <= FrameBytes(request[p])
    /\ results[p].ok = 1 => IsSatisfied(answer[p])

PullInv == \A p \in PullId : ResultInv(p) /\ AnswerInv(p)

TransportInv == TransportTypeOK /\ PullInv

LEMMA MinOfTwo ==
  ASSUME NEW a \in Int, NEW b \in Int
  PROVE  Min({a, b}) = IF a <= b THEN a ELSE b
<1> DEFINE m == IF a <= b THEN a ELSE b
<1>1. m \in {a, b} /\ \A y \in {a, b} : m <= y
  OBVIOUS
<1>2. \A x \in {a, b} : (\A y \in {a, b} : x <= y) => x = m
  OBVIOUS
<1>3. QED
  BY <1>1, <1>2 DEF Min

\* What Message::Decode takes is at most what it is given and what the frame lacks.
LEMMA DecodeBounded ==
  ASSUME NEW s \in Stream, s.got <= FrameBytes(s), NEW n \in Nat
  PROVE  Decode(s, n) \in Nat /\ s.got + Decode(s, n) <= FrameBytes(s)
<1> DEFINE header == IF s.got >= HeaderBytes THEN 0 ELSE Min({n, HeaderBytes - s.got})
           body == IF s.got + header < HeaderBytes THEN 0
                   ELSE Min({n - header, FrameBytes(s) - (s.got + header)})
<1>1. s.got \in Nat /\ s.body \in Nat /\ HeaderBytes \in Nat
  BY TransportAssumption DEF Stream
<1>2. FrameBytes(s) = HeaderBytes + s.body
  BY DEF FrameBytes
<1>3. header \in Nat /\ header <= n /\ s.got + header <= FrameBytes(s)
  <2>1. CASE s.got >= HeaderBytes
    BY <1>1, <1>2, <2>1
  <2>2. CASE s.got < HeaderBytes
    <3>1. header = IF n <= HeaderBytes - s.got THEN n ELSE HeaderBytes - s.got
      BY <1>1, <2>2, MinOfTwo
    <3>2. QED
      BY <1>1, <1>2, <2>2, <3>1
  <2>3. QED
    BY <1>1, <2>1, <2>2
<1>4. body \in Nat /\ s.got + header + body <= FrameBytes(s)
  <2> HIDE DEF header
  <2>1. CASE s.got + header < HeaderBytes
    BY <1>1, <1>2, <1>3, <2>1
  <2>2. CASE ~(s.got + header < HeaderBytes)
    <3> DEFINE left == FrameBytes(s) - (s.got + header)
    <3>1. left \in Nat /\ n - header \in Nat
      BY <1>1, <1>2, <1>3
    <3>2. body = Min({n - header, left})
      BY <2>2
    <3> HIDE DEF left, body
    <3>3. body = IF n - header <= left THEN n - header ELSE left
      BY <3>1, <3>2, MinOfTwo
    <3> USE DEF left
    <3>4. QED
      BY <1>1, <1>2, <1>3, <3>1, <3>3
  <2>3. QED
    BY <2>1, <2>2
<1>5. Decode(s, n) = header + body
  BY DEF Decode
<1>6. QED
  BY <1>1, <1>3, <1>4, <1>5

\* What a read makes of a stream.
LEMMA ReceivedStream ==
  ASSUME NEW s \in Stream, s.got <= FrameBytes(s), NEW n \in Reads(s)
  PROVE  /\ Received(s, n) \in Stream
         /\ Received(s, n).got <= FrameBytes(Received(s, n))
<1>1. s.wire \in Nat /\ BufferBytes \in Nat /\ s.got \in Nat
  BY TransportAssumption DEF Stream
<1>2. n \in Nat /\ n <= s.wire
  BY <1>1, MinOfTwo DEF Reads
<1>3. Decode(s, n) \in Nat /\ s.got + Decode(s, n) <= FrameBytes(s)
  BY <1>2, DecodeBounded
<1>4. s.wire - n \in Nat /\ s.got + Decode(s, n) \in Nat
  BY <1>1, <1>2, <1>3
<1>5. Received(s, n) = [s EXCEPT !.wire = s.wire - n, !.got = s.got + Decode(s, n)]
  BY DEF Received
<1>6. QED
  BY <1>3, <1>4, <1>5 DEF Stream, FrameBytes

\* What a write puts on the wire.
LEMMA WrittenStream ==
  ASSUME NEW b \in BodyBytes, NEW n \in 1 .. HeaderBytes + b
  PROVE  Written(b, n) \in Stream /\ Written(b, n).got <= FrameBytes(Written(b, n))
<1>1. b \in Nat /\ HeaderBytes \in Nat /\ n \in Nat
  BY TransportAssumption
<1>2. QED
  BY <1>1 DEF Written, Stream, FrameBytes

-----------------------------------------------------------------------------

LEMMA TransportInitInv == TransportInit => TransportInv
<1> SUFFICES ASSUME TransportInit PROVE TransportInv
  OBVIOUS
<1>1. NoStream \in Stream /\ NoStream.got = 0 /\ NoResult \in [ok : Nat, error : Nat]
  BY TransportAssumption DEF NoStream, Stream, NoResult
<1>2. TransportTypeOK
  BY <1>1 DEF TransportInit, TransportTypeOK, Phase
<1>3. 0 <= FrameBytes(NoStream)
  <2>1. NoStream.body \in Nat /\ HeaderBytes \in Nat
    BY <1>1, TransportAssumption DEF Stream
  <2>2. QED
    BY <2>1 DEF FrameBytes
<1>4. ASSUME NEW p \in PullId PROVE ResultInv(p) /\ AnswerInv(p)
  <2>1. /\ pull[p] = "idle" /\ results[p] = NoResult
        /\ answer[p] = NoStream /\ request[p] = NoStream
    BY DEF TransportInit
  <2>2. ResultInv(p)
    BY <2>1 DEF ResultInv
  <2>3. AnswerInv(p)
    BY <1>1, <1>3, <2>1 DEF AnswerInv, NoResult
  <2>4. QED
    BY <2>2, <2>3
<1>5. QED
  BY <1>2, <1>4 DEF TransportInv, PullInv

\* A pull that has not ended has no result; when did_pull is called for it and it
\* ends, it has one.
LEMMA CallEnds ==
  ASSUME TransportInv, NEW p \in PullId, pull[p] # "ended",
         NEW outcome \in {"ok", "error"}, Called(p, outcome),
         pull' = [pull EXCEPT ![p] = "ended"]
  PROVE  /\ results' \in [PullId -> [ok : Nat, error : Nat]]
         /\ pull' \in [PullId -> Phase]
         /\ results'[p] = IF outcome = "ok" THEN [ok |-> 1, error |-> 0]
                                          ELSE [ok |-> 0, error |-> 1]
         /\ \A q \in PullId : q # p => results'[q] = results[q] /\ pull'[q] = pull[q]
         /\ transport' = transport => \A q \in PullId : ResultInv(q)'
<1>1. results[p] = [ok |-> 0, error |-> 0]
  BY DEF TransportInv, PullInv, ResultInv, NoResult
<1>2. results' = [results EXCEPT ![p] = IF outcome = "ok" THEN [ok |-> 1, error |-> 0]
                                                        ELSE [ok |-> 0, error |-> 1]]
  <2>1. results' = [results EXCEPT ![p] = [results[p] EXCEPT ![outcome] = @ + 1]]
    BY DEF Called
  <2>2. [results[p] EXCEPT ![outcome] = @ + 1] =
          IF outcome = "ok" THEN [ok |-> 1, error |-> 0] ELSE [ok |-> 0, error |-> 1]
    BY <1>1
  <2>3. QED
    BY <2>1, <2>2
<1>3. /\ results' \in [PullId -> [ok : Nat, error : Nat]]
      /\ results'[p] = IF outcome = "ok" THEN [ok |-> 1, error |-> 0]
                                       ELSE [ok |-> 0, error |-> 1]
      /\ \A q \in PullId : q # p => results'[q] = results[q]
  BY <1>2 DEF TransportInv, TransportTypeOK
<1>4. /\ pull' \in [PullId -> Phase] /\ pull'[p] = "ended"
      /\ \A q \in PullId : q # p => pull'[q] = pull[q]
  BY DEF TransportInv, TransportTypeOK, Phase
<1>5. ASSUME transport' = transport, NEW q \in PullId PROVE ResultInv(q)'
  <2>1. CASE q = p
    BY <1>3, <1>4, <2>1 DEF ResultInv, NoResult
  <2>2. CASE q # p
    BY <1>3, <1>4, <1>5, <2>2 DEF ResultInv, NoResult, TransportInv, PullInv
  <2>3. QED
    BY <2>1, <2>2
<1>6. QED
  BY <1>3, <1>4, <1>5

\* A step that calls nobody and neither ends a pull nor the transport.
LEMMA QuietResults ==
  ASSUME TransportInv, UNCHANGED results, pull' \in [PullId -> Phase],
         \A q \in PullId : pull[q] = "ended" => pull'[q] = "ended",
         \A q \in PullId : pull'[q] = "ended" /\ transport' # "gone" =>
                              pull[q] = "ended" /\ transport # "gone"
  PROVE  \A q \in PullId : ResultInv(q)'
  BY DEF TransportInv, PullInv, ResultInv, NoResult

\* The streams of a step are left alone and no pull succeeds in it.
LEMMA QuietStreams ==
  ASSUME TransportInv, UNCHANGED <<request, answer>>,
         \A q \in PullId : results'[q].ok = 1 => results[q].ok = 1
  PROVE  \A q \in PullId : AnswerInv(q)'
  BY DEF TransportInv, PullInv, AnswerInv

LEMMA PullAsyncInv ==
  ASSUME TransportInv, NEW p \in PullId, PullAsync(p)
  PROVE  TransportInv'
<1>1. pull' \in [PullId -> Phase] /\ pullSessions' \subseteq PullId
      /\ \A q \in PullId : (pull'[q] = "ended") = (pull[q] = "ended")
  BY DEF PullAsync, TransportInv, TransportTypeOK, Phase
<1>2. UNCHANGED <<request, answer, results, transport, toCancel>>
  BY DEF PullAsync
<1>3. TransportTypeOK'
  BY <1>1, <1>2 DEF TransportInv, TransportTypeOK
<1>4. (\A q \in PullId : ResultInv(q)') /\ \A q \in PullId : AnswerInv(q)'
  BY <1>1, <1>2, QuietResults, QuietStreams
<1>5. QED
  BY <1>3, <1>4 DEF TransportInv, PullInv

LEMMA PostedErrorInv ==
  ASSUME TransportInv, NEW p \in PullId, PostedError(p)
  PROVE  TransportInv'
<1>1. /\ results' \in [PullId -> [ok : Nat, error : Nat]] /\ pull' \in [PullId -> Phase]
      /\ results'[p] = [ok |-> 0, error |-> 1]
      /\ \A q \in PullId : q # p => results'[q] = results[q]
      /\ \A q \in PullId : ResultInv(q)'
  BY CallEnds DEF PostedError
<1>2. TransportTypeOK'
  BY <1>1 DEF PostedError, TransportInv, TransportTypeOK
<1>3. \A q \in PullId : AnswerInv(q)'
  BY <1>1, QuietStreams DEF PostedError
<1>4. QED
  BY <1>1, <1>2, <1>3 DEF TransportInv, PullInv

LEMMA DidWriteInv ==
  ASSUME TransportInv, NEW p \in PullId, DidWrite(p)
  PROVE  TransportInv'
<1>1. ASSUME NEW b \in BodyBytes, NEW n \in 1 .. HeaderBytes + b,
             request' = [request EXCEPT ![p] = Written(b, n)],
             pull' = [pull EXCEPT ![p] = "reading"], UNCHANGED <<pullSessions, results>>
      PROVE  TransportInv'
  <2>1. Written(b, n) \in Stream /\ Written(b, n).got <= FrameBytes(Written(b, n))
    BY WrittenStream
  <2>2. UNCHANGED <<answer, transport, toCancel>> /\ pull[p] = "writing"
    BY DEF DidWrite
  <2>3. pull' \in [PullId -> Phase]
        /\ \A q \in PullId : (pull'[q] = "ended") = (pull[q] = "ended")
    BY <1>1, <2>2 DEF TransportInv, TransportTypeOK, Phase
  <2>4. TransportTypeOK'
    BY <1>1, <2>1, <2>2, <2>3 DEF TransportInv, TransportTypeOK
  <2>5. \A q \in PullId : ResultInv(q)'
    BY <1>1, <2>2, <2>3, QuietResults
  <2>6. \A q \in PullId : AnswerInv(q)'
    BY <1>1, <2>1, <2>2 DEF TransportInv, TransportTypeOK, PullInv, AnswerInv
  <2>7. QED
    BY <2>4, <2>5, <2>6 DEF TransportInv, PullInv
<1>2. ASSUME Called(p, "error"), EndSession(p), UNCHANGED request
      PROVE  TransportInv'
  <2>1. /\ results' \in [PullId -> [ok : Nat, error : Nat]] /\ pull' \in [PullId -> Phase]
        /\ results'[p] = [ok |-> 0, error |-> 1]
        /\ \A q \in PullId : q # p => results'[q] = results[q]
        /\ \A q \in PullId : ResultInv(q)'
    BY <1>2, CallEnds DEF DidWrite, EndSession
  <2>2. TransportTypeOK'
    BY <1>2, <2>1 DEF DidWrite, EndSession, TransportInv, TransportTypeOK
  <2>3. \A q \in PullId : AnswerInv(q)'
    BY <1>2, <2>1, QuietStreams DEF DidWrite
  <2>4. QED
    BY <2>1, <2>2, <2>3 DEF TransportInv, PullInv
<1>3. QED
  BY <1>1, <1>2 DEF DidWrite

LEMMA DidReadInv ==
  ASSUME TransportInv, NEW p \in PullId, DidRead(p)
  PROVE  TransportInv'
<1>1. PICK n \in Reads(answer[p]) :
         /\ answer' = [answer EXCEPT ![p] = Received(answer[p], n)]
         /\ IF IsSatisfied(Received(answer[p], n))
            THEN Called(p, "ok") /\ EndSession(p)
            ELSE UNCHANGED <<pull, pullSessions, results>>
  BY DEF DidRead
<1> DEFINE s == Received(answer[p], n)
<1>2. s \in Stream /\ s.got <= FrameBytes(s)
  BY ReceivedStream DEF TransportInv, TransportTypeOK, PullInv, AnswerInv
<1> HIDE DEF s
<1>3. UNCHANGED <<request, transport, toCancel>> /\ pull[p] = "reading"
  BY DEF DidRead
<1>4. answer'[p] = s /\ answer' \in [PullId -> Stream]
      /\ \A q \in PullId : q # p => answer'[q] = answer[q]
  BY <1>1, <1>2 DEF TransportInv, TransportTypeOK, s
<1>5. CASE IsSatisfied(s)
  <2>1. Called(p, "ok") /\ EndSession(p)
    BY <1>1, <1>5 DEF s
  <2>2. /\ results' \in [PullId -> [ok : Nat, error : Nat]] /\ pull' \in [PullId -> Phase]
        /\ \A q \in PullId : q # p => results'[q] = results[q]
        /\ \A q \in PullId : ResultInv(q)'
    BY <1>3, <2>1, CallEnds DEF EndSession
  <2>3. TransportTypeOK'
    BY <1>3, <1>4, <2>1, <2>2 DEF EndSession, TransportInv, TransportTypeOK
  <2>4. \A q \in PullId : AnswerInv(q)'
    BY <1>2, <1>3, <1>4, <1>5, <2>2 DEF TransportInv, PullInv, AnswerInv
  <2>5. QED
    BY <2>2, <2>3, <2>4 DEF TransportInv, PullInv
<1>6. CASE ~IsSatisfied(s)
  <2>1. UNCHANGED <<pull, pullSessions, results>>
    BY <1>1, <1>6 DEF s
  <2>2. TransportTypeOK'
    BY <1>3, <1>4, <2>1 DEF TransportInv, TransportTypeOK
  <2>3. \A q \in PullId : ResultInv(q)'
    BY <1>3, <2>1 DEF TransportInv, PullInv, ResultInv
  <2>4. results[p].ok = 0
    BY <1>3 DEF TransportInv, PullInv, ResultInv, NoResult
  <2>5. \A q \in PullId : AnswerInv(q)'
    BY <1>2, <1>3, <1>4, <2>1, <2>4 DEF TransportInv, PullInv, AnswerInv
  <2>6. QED
    BY <2>2, <2>3, <2>5 DEF TransportInv, PullInv
<1>7. QED
  BY <1>5, <1>6

LEMMA DidNotReadInv ==
  ASSUME TransportInv, NEW p \in PullId, DidNotRead(p)
  PROVE  TransportInv'
<1>1. /\ results' \in [PullId -> [ok : Nat, error : Nat]] /\ pull' \in [PullId -> Phase]
      /\ results'[p] = [ok |-> 0, error |-> 1]
      /\ \A q \in PullId : q # p => results'[q] = results[q]
      /\ \A q \in PullId : ResultInv(q)'
  BY CallEnds DEF DidNotRead, EndSession
<1>2. TransportTypeOK'
  BY <1>1 DEF DidNotRead, EndSession, TransportInv, TransportTypeOK
<1>3. \A q \in PullId : AnswerInv(q)'
  BY <1>1, QuietStreams DEF DidNotRead
<1>4. QED
  BY <1>1, <1>2, <1>3 DEF TransportInv, PullInv

\* The peer answers only a pull that is reading, which has no result yet.
LEMMA PeerReceivesInv ==
  ASSUME TransportInv, NEW p \in PullId, PeerReceives(p)
  PROVE  TransportInv'
<1>1. PICK n \in Reads(request[p]) :
         IF IsSatisfied(Received(request[p], n))
         THEN /\ request' = [request EXCEPT ![p] = [Received(request[p], n) EXCEPT !.got = 0]]
              /\ \E b \in BodyBytes : \E m \in 1 .. HeaderBytes + b :
                    answer' = [answer EXCEPT ![p] = Written(b, m)]
         ELSE request' = [request EXCEPT ![p] = Received(request[p], n)] /\ UNCHANGED answer
  BY DEF PeerReceives
<1> DEFINE s == Received(request[p], n)
<1>2. s \in Stream /\ s.got <= FrameBytes(s)
  BY ReceivedStream DEF TransportInv, TransportTypeOK, PullInv, AnswerInv
<1> HIDE DEF s
<1>3. UNCHANGED <<pull, pullSessions, results, transport, toCancel>> /\ pull[p] = "reading"
  BY DEF PeerReceives, Connected
<1>4. results[p].ok = 0
  BY <1>3 DEF TransportInv, PullInv, ResultInv, NoResult
<1>5. \A q \in PullId : ResultInv(q)'
  BY <1>3 DEF TransportInv, PullInv, ResultInv
<1>6. CASE IsSatisfied(s)
  <2>0. PICK b \in BodyBytes : \E m \in 1 .. HeaderBytes + b :
           answer' = [answer EXCEPT ![p] = Written(b, m)]
    BY <1>1, <1>6 DEF s
  <2>1. PICK m \in 1 .. HeaderBytes + b : answer' = [answer EXCEPT ![p] = Written(b, m)]
    BY <2>0
  <2>2. Written(b, m) \in Stream /\ Written(b, m).got <= FrameBytes(Written(b, m))
    BY WrittenStream
  <2> DEFINE t == [s EXCEPT !.got = 0]
  <2>3. t \in Stream /\ t.got <= FrameBytes(t)
    <3>1. s.body \in Nat /\ HeaderBytes \in Nat
      BY <1>2, TransportAssumption DEF Stream
    <3>2. t \in Stream /\ t.got = 0 /\ t.body = s.body
      BY <1>2 DEF Stream
    <3>3. QED
      BY <3>1, <3>2 DEF FrameBytes
  <2>4. request' = [request EXCEPT ![p] = t]
    BY <1>1, <1>6 DEF s
  <2> HIDE DEF t
  <2>5. TransportTypeOK'
    BY <1>3, <2>1, <2>2, <2>3, <2>4 DEF TransportInv, TransportTypeOK
  <2>6. \A q \in PullId : AnswerInv(q)'
    BY <1>3, <1>4, <2>1, <2>2, <2>3, <2>4
    DEF TransportInv, TransportTypeOK, PullInv, AnswerInv
  <2>7. QED
    BY <1>5, <2>5, <2>6 DEF TransportInv, PullInv
<1>7. CASE ~IsSatisfied(s)
  <2>1. request' = [request EXCEPT ![p] = s] /\ UNCHANGED answer
    BY <1>1, <1>7 DEF s
  <2>2. TransportTypeOK'
    BY <1>2, <1>3, <2>1 DEF TransportInv, TransportTypeOK
  <2>3. \A q \in PullId : AnswerInv(q)'
    BY <1>2, <1>3, <2>1 DEF TransportInv, TransportTypeOK, PullInv, AnswerInv
  <2>4. QED
    BY <1>5, <2>2, <2>3 DEF TransportInv, PullInv
<1>8. QED
  BY <1>6, <1>7

LEMMA PeerClosesInv ==
  ASSUME TransportInv, NEW p \in PullId, PeerCloses(p)
  PROVE  TransportInv'
<1>1. UNCHANGED <<pull, pullSessions, request, results, transport, toCancel>>
  BY DEF PeerCloses
<1>2. /\ answer' = [answer EXCEPT ![p].open = FALSE]
      /\ answer[p] \in Stream
  BY DEF PeerCloses, TransportInv, TransportTypeOK
<1>3. answer'[p] \in Stream /\ answer'[p].got = answer[p].got
      /\ answer'[p].body = answer[p].body
  BY <1>2 DEF TransportInv, TransportTypeOK, Stream
<1>4. TransportTypeOK'
  BY <1>1, <1>2, <1>3 DEF TransportInv, TransportTypeOK
<1>5. \A q \in PullId : ResultInv(q)'
  BY <1>1 DEF TransportInv, PullInv, ResultInv
<1>6. \A q \in PullId : AnswerInv(q)'
  BY <1>1, <1>2, <1>3 DEF TransportInv, TransportTypeOK, PullInv, AnswerInv,
                          FrameBytes, IsSatisfied
<1>7. QED
  BY <1>4, <1>5, <1>6 DEF TransportInv, PullInv

\* ~Transport ends pulls without a result only when it is gone.
LEMMA DestructorInv ==
  ASSUME TransportInv,
         StartCancel \/ StopIo \/ \E p \in PullId : CancelSession(p)
  PROVE  TransportInv'
<1>1. UNCHANGED <<request, answer, results>>
  BY DEF StartCancel, StopIo, CancelSession
<1>2. /\ pull' \in [PullId -> Phase]
      /\ \A q \in PullId : pull[q] = "ended" => pull'[q] = "ended"
      /\ \A q \in PullId : pull'[q] = "ended" /\ transport' # "gone" =>
                           pull[q] = "ended" /\ transport # "gone"
  <2>1. CASE StartCancel
    BY <2>1 DEF StartCancel, TransportInv, TransportTypeOK
  <2>2. CASE StopIo
    BY <2>2 DEF StopIo, TransportInv, TransportTypeOK, Phase
  <2>3. CASE \E p \in PullId : CancelSession(p)
    BY <2>3 DEF CancelSession, TransportInv, TransportTypeOK, Phase, InSession
  <2>4. QED
    BY <2>1, <2>2, <2>3
<1>3. TransportTypeOK'
  BY <1>1, <1>2 DEF StartCancel, StopIo, CancelSession, TransportInv, TransportTypeOK
<1>4. (\A q \in PullId : ResultInv(q)') /\ \A q \in PullId : AnswerInv(q)'
  BY <1>1, <1>2, QuietResults, QuietStreams
<1>5. QED
  BY <1>3, <1>4 DEF TransportInv, PullInv

LEMMA TransportStepInv == TransportInv /\ [TransportNext]_transportVars => TransportInv'
<1> SUFFICES ASSUME TransportInv, [TransportNext]_transportVars PROVE TransportInv'
  OBVIOUS
<1>1. ASSUME NEW p \in PullId, PullAsync(p) \/ IoStep(p) PROVE TransportInv'
  BY <1>1, PullAsyncInv, PostedErrorInv, DidWriteInv, DidReadInv, DidNotReadInv DEF IoStep
<1>2. ASSUME NEW p \in PullId, PeerReceives(p) \/ PeerCloses(p) PROVE TransportInv'
  BY <1>2, PeerReceivesInv, PeerClosesInv
<1>3. CASE StartCancel \/ StopIo \/ \E p \in PullId : CancelSession(p)
  BY <1>3, DestructorInv
<1>4. CASE UNCHANGED transportVars
  BY <1>4 DEF transportVars, TransportInv, TransportTypeOK, PullInv, ResultInv, AnswerInv
<1>5. QED
  BY <1>1, <1>2, <1>3, <1>4 DEF TransportNext

\* The state of the transport's pulls keeps its types.
THEOREM TransportTypeCorrect == TransportSpec => []TransportTypeOK
<1>1. TransportInv => TransportTypeOK
  BY DEF TransportInv
<1>2. QED
  BY <1>1, TransportInitInv, TransportStepInv, PTL DEF TransportSpec

\* Transport::Pull calls did_pull exactly once for a pull that ended, however the
\* completions, the peer's end and ~Transport fall, and at most once in any case.
THEOREM OneResult == TransportSpec => []PullHasOneResult
<1>1. TransportInv => PullHasOneResult
  BY DEF TransportInv, PullInv, ResultInv, PullHasOneResult, NoResult, InSession
<1>2. QED
  BY <1>1, TransportInitInv, TransportStepInv, PTL DEF TransportSpec

\* A pull succeeds only with the whole frame that the peer wrote, whatever the
\* sizes and wherever TCP cuts the stream.
THEOREM WholeAnswer == TransportSpec => []AnswerIsWhole
<1>1. TransportInv => AnswerIsWhole
  BY DEF TransportInv, PullInv, AnswerInv, AnswerIsWhole
<1>2. QED
  BY <1>1, TransportInitInv, TransportStepInv, PTL DEF TransportSpec

-----------------------------------------------------------------------------
(* The failure detector with relays.                                       *)

RelayInv == RelayTypeOK /\ TargetIsWatched

LEMMA RelayInitInv == RelayInit => RelayInv
<1> SUFFICES ASSUME RelayInit PROVE RelayInv
  OBVIOUS
<1>1. knows \subseteq Relay \cup {"target"} /\ "target" \in knows
  BY DEF RelayInit
<1>2. RelayTypeOK
  <2>1. rounds \in [Round -> [phase : Relay \cup {"free", "ping"}, asked : SUBSET Relay]]
    BY DEF RelayInit, Free
  <2>2. /\ relayPings \in [Relay -> 0 .. MaxWork]
        /\ verdicts \in 0 .. MaxWork /\ failures \in 0 .. MaxFailures
    BY RelayAssumption DEF RelayInit
  <2>3. targetUp \in BOOLEAN /\ suspected \in BOOLEAN /\ relayUp \subseteq Relay
    BY DEF RelayInit
  <2>4. QED
    BY <1>1, <2>1, <2>2, <2>3 DEF RelayTypeOK
<1>3. TargetIsWatched
  BY <1>1 DEF RelayInit, TargetIsWatched
<1>4. QED
  BY <1>2, <1>3 DEF RelayInv

\* SuspectTarget moves the target from members_ to suspects_, or leaves it there.
LEMMA SuspectTargetInv ==
  ASSUME RelayInv, SuspectTarget
  PROVE  /\ suspected' \in BOOLEAN
         /\ knows' \subseteq Relay \cup {"target"}
         /\ TargetIsWatched'
  BY DEF RelayInv, RelayTypeOK, SuspectTarget, TargetIsWatched

\* RelayPing asks a relay that has not been asked, or suspects the target.
LEMMA AskNextInv ==
  ASSUME RelayInv, NEW i \in Round, NEW asked \in SUBSET Relay, AskNext(i, asked)
  PROVE  /\ rounds' \in [Round -> [phase : Relay \cup {"free", "ping"}, asked : SUBSET Relay]]
         /\ suspected' \in BOOLEAN
         /\ knows' \subseteq Relay \cup {"target"}
         /\ TargetIsWatched'
<1>1. CASE Candidates(asked) = {}
  <2>1. rounds' = [rounds EXCEPT ![i] = Free] /\ SuspectTarget
    BY <1>1 DEF AskNext
  <2>2. QED
    BY <2>1, SuspectTargetInv DEF RelayInv, RelayTypeOK, Free
<1>2. CASE Candidates(asked) # {}
  <2>1. UNCHANGED <<suspected, knows>>
    BY <1>2 DEF AskNext
  <2>2. PICK r \in Candidates(asked) :
           rounds' = [rounds EXCEPT ![i] = [phase |-> r, asked |-> asked]]
    BY <1>2 DEF AskNext
  <2>3. r \in Relay
    BY DEF Candidates, RelayInv, RelayTypeOK
  <2>4. QED
    BY <2>1, <2>2, <2>3 DEF RelayInv, RelayTypeOK, TargetIsWatched
<1>3. QED
  BY <1>1, <1>2

LEMMA RelayStepInv == RelayInv /\ [RelayNext]_relayVars => RelayInv'
<1> SUFFICES ASSUME RelayInv, [RelayNext]_relayVars PROVE RelayInv'
  OBVIOUS
<1> USE RelayAssumption DEF RelayInv, RelayTypeOK
<1>1. ASSUME NEW i \in Round, PingTarget(i) PROVE RelayInv'
  BY <1>1 DEF PingTarget, TargetIsWatched
<1>2. ASSUME NEW i \in Round, PingAnswered(i) PROVE RelayInv'
  BY <1>2 DEF PingAnswered, TargetIsWatched, Free
<1>3. ASSUME NEW i \in Round, PingFailed(i) PROVE RelayInv'
  <2>1. CASE "target" \in knows
    <3>1. AskNext(i, {})
      BY <1>3, <2>1 DEF PingFailed
    <3>2. QED
      BY <1>3, <3>1, AskNextInv DEF PingFailed
  <2>2. CASE "target" \notin knows
    BY <1>3, <2>2 DEF PingFailed, TargetIsWatched, Free
  <2>3. QED
    BY <2>1, <2>2
<1>4. ASSUME NEW i \in Round, RelayReceives(i) PROVE RelayInv'
  BY <1>4 DEF RelayReceives, TargetIsWatched, Free
<1>5. ASSUME NEW i \in Round, RelayFailed(i) PROVE RelayInv'
  <2>1. rounds[i].asked \cup {rounds[i].phase} \in SUBSET Relay
    BY <1>5 DEF RelayFailed
  <2>2. QED
    BY <1>5, <2>1, AskNextInv DEF RelayFailed
<1>6. ASSUME NEW r \in Relay, RelayReports(r) PROVE RelayInv'
  BY <1>6 DEF RelayReports, TargetIsWatched
<1>7. ASSUME NEW r \in Relay, RelayIsQuiet(r) PROVE RelayInv'
  BY <1>7 DEF RelayIsQuiet, TargetIsWatched
<1>8. ASSUME NEW r \in Relay, RelayFails(r) PROVE RelayInv'
  BY <1>8 DEF RelayFails, TargetIsWatched
<1>9. CASE HandlePush
  BY <1>9, SuspectTargetInv DEF HandlePush
<1>10. CASE TargetFails
  BY <1>10 DEF TargetFails, TargetIsWatched
<1>11. CASE UNCHANGED relayVars
  BY <1>11 DEF relayVars, TargetIsWatched
<1>12. QED
  BY <1>1, <1>2, <1>3, <1>4, <1>5, <1>6, <1>7, <1>8, <1>9, <1>10, <1>11 DEF RelayNext

\* The state of the failure detector keeps its types.
THEOREM RelayTypeCorrect == RelaySpec => []RelayTypeOK
<1>1. RelayInv => RelayTypeOK
  BY DEF RelayInv
<1>2. QED
  BY <1>1, RelayInitInv, RelayStepInv, PTL DEF RelaySpec

\* The target of RelayPing is in members_ or in suspects_, never in both and never
\* in none, however pings, relays' verdicts and recoveries overlap.
THEOREM TargetStaysWatched == RelaySpec => []TargetIsWatched
<1>1. RelayInv => TargetIsWatched
  BY DEF RelayInv
<1>2. QED
  BY <1>1, RelayInitInv, RelayStepInv, PTL DEF RelaySpec
=============================================================================
