----------------------------- MODULE Daemon_proofs -----------------------------
(***************************************************************************)
(* The orderly end of the daemon, proved for every channel capacity, every  *)
(* limit of capture errors and every set of notifiers: the final flush sees *)
(* all packets the capture accepted, and the thread gives up at its limit.  *)
(* And the order on the way: no stage from capture to notifiers loses,      *)
(* repeats or reorders what it was given.                                   *)
(***************************************************************************)
EXTENDS Daemon, SequenceTheorems, TLAPS

(* Steps of the rule engine, the fanout and the services touch neither the  *)
(* capture, nor the pipeline, nor main.                                     *)
LEMMA BehindThePipeline ==
  ASSUME \/ EngineTakes \/ EngineSent \/ FanoutReceives \/ FanoutDelivers
         \/ MqttSends \/ ServiceChanges \/ \E t \in {"engine", "fanout"} : Dropped(t)
  PROVE  UNCHANGED <<vars, flushed>>
  BY DEF EngineTakes, EngineSent, FanoutReceives, FanoutDelivers, MqttSends,
         ServiceChanges, Dropped, Untouched

(* A mailbox that takes one packet and a pipeline that takes the first one  *)
(* keep the sequence of both together.                                      *)
LEMMA QueueFacts ==
  ASSUME NEW h \in Seq(Nat), NEW c \in Seq(Nat), NEW x \in Nat
  PROVE  /\ Append(h \o c, x) = h \o Append(c, x)
         /\ c # <<>> => Append(h, Head(c)) \o Tail(c) = h \o c
         /\ c = <<>> => h \o c = h
<1>1. Append(h \o c, x) = h \o Append(c, x)
  <2>1. <<x>> \in Seq(Nat) /\ h \o c \in Seq(Nat)
    BY ConcatProperties
  <2>2. Append(h \o c, x) = (h \o c) \o <<x>> /\ Append(c, x) = c \o <<x>>
    BY <2>1, AppendIsConcat
  <2>3. (h \o c) \o <<x>> = h \o (c \o <<x>>)
    BY <2>1, ConcatAssociative, SMTT(30)
  <2> QED BY <2>2, <2>3, Zenon
<1>2. ASSUME c # <<>> PROVE Append(h, Head(c)) \o Tail(c) = h \o c
  <2>1. /\ Head(c) \in Nat /\ Tail(c) \in Seq(Nat)
        /\ <<Head(c)>> \in Seq(Nat)
    BY <1>2, HeadTailProperties
  <2>2. <<Head(c)>> \o Tail(c) = c
    BY <1>2, <2>1
  <2>3. Append(h, Head(c)) = h \o <<Head(c)>>
    BY <2>1, AppendIsConcat
  <2>4. (h \o <<Head(c)>>) \o Tail(c) = h \o (<<Head(c)>> \o Tail(c))
    BY <2>1, ConcatAssociative, SMTT(30)
  <2> QED BY <2>2, <2>3, <2>4, Zenon
<1>3. ASSUME c = <<>> PROVE h \o c = h
  BY <1>3, ConcatEmptySeq
<1> QED BY <1>1, <1>2, <1>3

(* Each step keeps DaemonInv.                                               *)
LEMMA DaemonInvStep == DaemonInv /\ [DaemonNext]_allVars => DaemonInv'
<1> SUFFICES ASSUME DaemonInv, [DaemonNext]_allVars PROVE DaemonInv'
  OBVIOUS
<1>a. handled \in Seq(Nat) /\ chan \in Seq(Nat) /\ seen + 1 \in Nat
  BY DEF DaemonInv, DaemonTypeOK
<1>b. Append(handled \o chan, seen + 1) = handled \o Append(chan, seen + 1)
  BY <1>a, QueueFacts
<1> USE CaptureAssumption DEF DaemonInv, DaemonTypeOK, GivesUpAtLimit
<1>1. CASE ThreadMoves
  <2> USE DEF ThreadMoves, Elsewhere
  <2>1. CASE ThreadStops BY <1>1, <2>1 DEF ThreadStops
  <2>2. CASE PassesCheck BY <1>1, <2>2 DEF PassesCheck
  <2>3. CASE Opens BY <1>1, <2>3 DEF Opens
  <2>4. CASE OpenFails BY <1>1, <2>4 DEF OpenFails
  <2>5. CASE Wakes BY <1>1, <2>5 DEF Wakes
  <2>6. CASE ReadTimeout BY <1>1, <2>6 DEF ReadTimeout
  <2>7. CASE ReadFails BY <1>1, <2>7 DEF ReadFails
  <2> QED BY <1>1, <2>1, <2>2, <2>3, <2>4, <2>5, <2>6, <2>7 DEF ThreadStep
<1>2. CASE PacketComes
  <2>2. /\ thread = "poll" /\ thread' = "read" /\ seen' = seen + 1 /\ errors' = 0
        /\ UNCHANGED <<pipeline, handled, main, stopSent, flushed>>
    BY <1>2 DEF PacketComes, ReadPacket, Elsewhere
  <2>3. CASE /\ pipeline = "running"
             /\ chan' = Append(chan, seen + 1) /\ accepted' = Append(accepted, seen + 1)
    <3>1. chan' \in Seq(Nat) /\ accepted' \in Seq(Nat)
      BY <2>3, AppendProperties
    <3>2. accepted' = handled' \o chan'
      BY <1>b, <2>2, <2>3
    <3>3. pipeline' = "running" /\ seen' \in Nat
      BY <2>2, <2>3
    <3>4. DaemonTypeOK'
      BY <2>2, <3>1, <3>3
    <3>5. GivesUpAtLimit'
      BY <2>2
    <3> QED BY <2>2, <3>2, <3>3, <3>4, <3>5
  <2>4. CASE UNCHANGED <<chan, accepted>>
    BY <2>2, <2>4
  <2> QED BY <1>2, <2>2, <2>3, <2>4 DEF PacketComes, ReadPacket
<1>3. CASE LinkMoves
  BY <1>3 DEF LinkMoves, LinkChanges, threadVars, Elsewhere
<1>4. CASE Process
  <2>1. chan # <<>> => Append(handled, Head(chan)) \o Tail(chan) = handled \o chan
    BY QueueFacts
  <2>2. /\ pipeline = "running" /\ chan # <<>>
        /\ handled' = Append(handled, Head(chan)) /\ chan' = Tail(chan)
        /\ UNCHANGED <<thread, errors, seen, accepted, pipeline, main, stopSent, flushed>>
    BY <1>4 DEF Process, ProcessPacket, threadVars
  <2>3. handled' \in Seq(Nat) /\ chan' \in Seq(Nat)
    BY <2>2, HeadTailProperties, AppendProperties
  <2>4. accepted' = handled' \o chan'
    BY <2>1, <2>2
  <2> QED BY <2>2, <2>3, <2>4
<1>5. CASE Finishes
  BY <1>5 DEF Finishes, PipelineFinishes, threadVars, Elsewhere
<1>6. CASE Panics
  BY <1>6 DEF Panics, threadVars, Elsewhere
<1>7. CASE UNCHANGED <<vars, flushed>>
  BY <1>7 DEF vars
<1>8. CASE SignalArrives
  BY <1>8 DEF SignalArrives, Signal, threadVars, Elsewhere
<1>9. CASE Shuts
  <2> USE DEF captureVars, threadVars, Elsewhere
  <2>1. CASE CaptureJoined BY <2>1 DEF CaptureJoined, Joined
  <2>2. CASE PipelineAwaited BY <2>2 DEF PipelineAwaited
  <2>3. CASE AbortsEngine BY <2>3 DEF AbortsEngine
  <2>4. CASE AbortsFanout BY <2>4 DEF AbortsFanout
  <2>5. CASE FinalFlush BY <2>5 DEF FinalFlush
  <2> QED BY <1>9, <2>1, <2>2, <2>3, <2>4, <2>5 DEF Shuts
<1> QED
  BY <1>1, <1>2, <1>3, <1>4, <1>5, <1>6, <1>7, <1>8, <1>9, BehindThePipeline
     DEF DaemonNext, allVars

(* The shutdown order holds for every capacity and every limit.             *)
THEOREM DaemonInvariant == DaemonSpec => []DaemonInv
<1>1. DaemonInit => DaemonInv
  <2> USE CaptureAssumption DEF DaemonInv, DaemonTypeOK, GivesUpAtLimit
  <2>1. <<>> \in Seq(Nat) /\ <<>> \o <<>> = <<>>
    BY QueueFacts
  <2>2. SUFFICES ASSUME DaemonInit PROVE DaemonInv
    OBVIOUS
  <2>3. /\ accepted = handled \o chan
        /\ chan \in Seq(Nat) /\ handled \in Seq(Nat) /\ accepted \in Seq(Nat)
    BY <2>1, <2>2 DEF DaemonInit, Init
  <2>4. thread = "top" /\ errors = 0 /\ seen = 0 /\ pipeline = "running"
    BY <2>2 DEF DaemonInit, Init
  <2>5. stopSent \in BOOLEAN /\ ~stopSent /\ main = "waiting"
    BY <2>2 DEF DaemonInit, Init
  <2> QED BY <2>3, <2>4, <2>5
<1> QED
  BY <1>1, DaemonInvStep, PTL DEF DaemonSpec

(* flush_task's "after the pipeline task has drained": the final flush runs *)
(* after every accepted packet was processed, whatever the capacities.      *)
THEOREM FinalFlushComplete == DaemonSpec => []FinalFlushSeesAll
<1>1. DaemonInv => FinalFlushSeesAll
  <2> SUFFICES ASSUME DaemonInv, main = "stopped" PROVE FinalFlushSeesAll
    BY DEF FinalFlushSeesAll
  <2>1. handled \o <<>> = handled
    BY QueueFacts DEF DaemonInv, DaemonTypeOK
  <2> QED BY <2>1 DEF DaemonInv, FinalFlushSeesAll
<1> QED
  BY <1>1, DaemonInvariant, PTL

(* Runs of numbers, as queues: joined, extended by one, and taken from.     *)
LEMMA RunIsSeq ==
  ASSUME NEW a \in Nat, NEW b \in Nat
  PROVE  Run(a, b) \in Seq(Nat) /\ Len(Run(a, b)) = b
  BY DEF Run

LEMMA RunJoined ==
  ASSUME NEW a \in Nat, NEW b \in Nat, NEW c \in Nat
  PROVE  Run(a, b) \o Run(a + b, c) = Run(a, b + c)
<1>1. /\ Run(a, b) \in Seq(Nat) /\ Len(Run(a, b)) = b
      /\ Run(a + b, c) \in Seq(Nat) /\ Len(Run(a + b, c)) = c
  BY DEF Run
<1>2. \A x \in 1 .. b + c : (Run(a, b) \o Run(a + b, c))[x] = a + x
  BY <1>1 DEF Run
<1>3. /\ Run(a, b) \o Run(a + b, c) \in Seq(Nat)
      /\ Len(Run(a, b) \o Run(a + b, c)) = b + c
  BY <1>1
<1> QED BY <1>2, <1>3 DEF Run

LEMMA RunExtended ==
  ASSUME NEW a \in Nat, NEW b \in Nat
  PROVE  Run(a, b) \o <<a + b + 1>> = Run(a, b + 1)
<1>1. <<a + b + 1>> = Run(a + b, 1)
  BY DEF Run
<1>2. Run(a, b) \o Run(a + b, 1) = Run(a, b + 1)
  BY RunJoined
<1> QED BY <1>1, <1>2, Zenon

LEMMA RunTaken ==
  ASSUME NEW a \in Nat, NEW b \in Nat, b > 0
  PROVE  Head(Run(a, b)) = a + 1 /\ Tail(Run(a, b)) = Run(a + 1, b - 1)
<1>1. Run(a, b) \in Seq(Nat) /\ Len(Run(a, b)) = b /\ Run(a, b) # <<>>
  BY RunIsSeq, EmptySeq
<1>2. Head(Run(a, b)) = a + 1
  BY <1>1 DEF Run
<1>3. /\ Tail(Run(a, b)) \in Seq(Nat) /\ Len(Tail(Run(a, b))) = b - 1
      /\ \A x \in 1 .. b - 1 : Tail(Run(a, b))[x] = Run(a, b)[x + 1]
  BY <1>1, HeadTailProperties
<1>4. \A x \in 1 .. b - 1 : Run(a, b)[x + 1] = a + 1 + x
  BY DEF Run
<1>5. /\ Run(a + 1, b - 1) \in Seq(Nat) /\ Len(Run(a + 1, b - 1)) = b - 1
      /\ \A x \in 1 .. b - 1 : Run(a + 1, b - 1)[x] = a + 1 + x
  BY DEF Run
<1>6. \A x \in 1 .. b - 1 : Tail(Run(a, b))[x] = Run(a + 1, b - 1)[x]
  BY <1>3, <1>4, <1>5
<1> QED BY <1>2, <1>3, <1>5, <1>6, SeqEqual

(* The steps of capture, pipeline and rule engine keep packets and events   *)
(* in order.                                                                *)
LEMMA AnnouncedUnchanged ==
  ASSUME AnnouncedInv, UNCHANGED <<announced, events, fired, seen, chan>>
  PROVE  AnnouncedInv'
  BY DEF AnnouncedInv

LEMMA AnnouncedStep == DaemonInv /\ AnnouncedInv /\ [DaemonNext]_allVars => AnnouncedInv'
<1> SUFFICES ASSUME DaemonInv, AnnouncedInv, [DaemonNext]_allVars PROVE AnnouncedInv'
  OBVIOUS
<1>a. chan \in Seq(Nat) /\ Len(chan) \in Nat /\ seen \in Nat
  BY LenProperties DEF DaemonInv, DaemonTypeOK
<1>b. Len(announced) \in Nat /\ Len(events) \in Nat
  BY LenProperties DEF AnnouncedInv
<1>1. CASE PacketComes
  <2>1. seen' = seen + 1 /\ UNCHANGED <<announced, events, fired>>
    BY <1>1 DEF PacketComes, ReadPacket, Elsewhere, fanoutVars
  <2>2. CASE chan' = Append(chan, seen + 1)
    <3>1. /\ Len(chan') = Len(chan) + 1 /\ chan'[Len(chan) + 1] = seen + 1
          /\ \A i \in 1 .. Len(chan) : chan'[i] = chan[i] /\ chan[i] \in Nat
      BY <1>a, <2>2, AppendProperties, ElementOfSeq
    <3>2. \A i \in 1 .. Len(announced) : announced[i] < seen + 1 /\ announced[i] <= seen'
      <4> SUFFICES ASSUME NEW i \in 1 .. Len(announced)
                   PROVE  announced[i] < seen + 1 /\ announced[i] <= seen + 1
        BY <2>1
      <4>1. announced[i] \in Nat /\ announced[i] <= seen
        BY ElementOfSeq DEF AnnouncedInv
      <4> QED BY <1>a, <4>1
    <3>c. \A i \in 1 .. Len(chan) : chan[i] < seen + 1 /\ chan[i] <= seen'
      <4> SUFFICES ASSUME NEW i \in 1 .. Len(chan)
                   PROVE  chan[i] < seen + 1 /\ chan[i] <= seen + 1
        BY <2>1
      <4>1. chan[i] \in Nat /\ chan[i] <= seen
        BY <3>1 DEF AnnouncedInv
      <4> QED BY <1>a, <4>1
    <3>d. \A i \in 1 .. Len(chan') : i = Len(chan) + 1 \/ i \in 1 .. Len(chan)
      BY <1>a, <3>1
    <3>3. ASSUME NEW i \in 1 .. Len(chan'), NEW j \in 1 .. Len(chan'), i < j
          PROVE  chan'[i] < chan'[j]
      <4>0. i \in 1 .. Len(chan)
        BY <1>a, <3>1, <3>3
      <4>1. CASE j = Len(chan) + 1
        BY <3>1, <3>c, <4>0, <4>1
      <4>2. CASE j \in 1 .. Len(chan)
        BY <3>1, <3>3, <4>0, <4>2 DEF AnnouncedInv
      <4> QED BY <3>d, <4>1, <4>2
    <3>4. ASSUME NEW i \in 1 .. Len(chan')
          PROVE  chan'[i] <= seen' /\ \A j \in 1 .. Len(announced) : announced[j] < chan'[i]
      <4>1. CASE i = Len(chan) + 1
        BY <1>a, <2>1, <3>1, <3>2, <4>1
      <4>2. CASE i \in 1 .. Len(chan)
        BY <3>1, <3>c, <4>2 DEF AnnouncedInv
      <4> QED BY <3>d, <4>1, <4>2
    <3> QED BY <2>1, <3>2, <3>3, <3>4 DEF AnnouncedInv
  <2>3. CASE chan' = chan
    <3>1. \A x \in Nat : x <= seen => x <= seen'
      BY <1>a, <2>1
    <3>2. /\ \A i \in 1 .. Len(announced) : announced[i] <= seen'
          /\ \A i \in 1 .. Len(chan) : chan[i] <= seen'
      BY <1>a, <3>1, ElementOfSeq DEF AnnouncedInv
    <3> QED BY <2>1, <2>3, <3>2 DEF AnnouncedInv
  <2> QED BY <1>1, <2>1, <2>2, <2>3 DEF PacketComes, ReadPacket
<1>2. CASE Process
  <2> DEFINE h == Head(chan)
  <2>1. /\ chan # <<>> /\ chan' = Tail(chan) /\ UNCHANGED <<fired, seen>>
    BY <1>2 DEF Process, ProcessPacket, threadVars, fanoutVars
  <2>2. /\ h = chan[1] /\ h \in Nat /\ Len(chan) > 0 /\ Len(chan') = Len(chan) - 1
        /\ \A i \in 1 .. Len(chan) - 1 : chan'[i] = chan[i + 1]
    BY <1>a, <2>1, HeadTailProperties
  <2> HIDE DEF h
  <2>3. ASSUME NEW i \in 1 .. Len(chan'), NEW j \in 1 .. Len(chan'), i < j
        PROVE  chan'[i] < chan'[j]
    <3>1. /\ i + 1 \in 1 .. Len(chan) /\ j + 1 \in 1 .. Len(chan) /\ i + 1 < j + 1
          /\ chan'[i] = chan[i + 1] /\ chan'[j] = chan[j + 1]
      BY <1>a, <2>2, <2>3
    <3> QED BY <3>1 DEF AnnouncedInv
  <2>4. ASSUME NEW i \in 1 .. Len(chan')
        PROVE  /\ chan'[i] <= seen /\ h < chan'[i]
               /\ \A j \in 1 .. Len(announced) : announced[j] < chan'[i]
    <3>1. /\ i + 1 \in 1 .. Len(chan) /\ 1 \in 1 .. Len(chan) /\ 1 < i + 1
          /\ chan'[i] = chan[i + 1]
      BY <1>a, <2>2
    <3> QED BY <2>2, <3>1 DEF AnnouncedInv
  <2>5. h <= seen /\ \A j \in 1 .. Len(announced) : announced[j] < h
    <3>1. 1 \in 1 .. Len(chan)
      BY <1>a, <2>2
    <3> QED BY <2>2, <3>1 DEF AnnouncedInv
  <2>6. CASE UNCHANGED <<events, announced>>
    BY <2>1, <2>3, <2>4, <2>6 DEF AnnouncedInv
  <2>7. CASE events' = Append(events, h) /\ announced' = Append(announced, h)
    <3>1. /\ events' \in Seq(Nat) /\ Len(events') = Len(events) + 1
          /\ events'[Len(events) + 1] = h
          /\ \A x \in 1 .. Len(events) : events'[x] = events[x]
      BY <2>2, <2>7, AppendProperties DEF AnnouncedInv
    <3>2. /\ announced' \in Seq(Nat) /\ Len(announced') = Len(announced) + 1
          /\ announced'[Len(announced) + 1] = h
          /\ \A x \in 1 .. Len(announced) : announced'[x] = announced[x]
      BY <2>2, <2>7, AppendProperties DEF AnnouncedInv
    <3>3. fired \in Nat /\ Len(announced) = fired + Len(events)
      BY DEF AnnouncedInv
    <3>4. ASSUME NEW x \in 1 .. Len(events') PROVE events'[x] = announced'[fired + x]
      <4>1. CASE x = Len(events) + 1
        BY <1>b, <3>1, <3>2, <3>3, <4>1
      <4>2. CASE x # Len(events) + 1
        <5>1. x \in 1 .. Len(events) /\ fired + x \in 1 .. Len(announced)
          BY <1>b, <3>1, <3>3, <4>2
        <5> QED BY <3>1, <3>2, <5>1 DEF AnnouncedInv
      <4> QED BY <4>1, <4>2
    <3>5. ASSUME NEW i \in 1 .. Len(announced'), NEW j \in 1 .. Len(announced'), i < j
          PROVE  announced'[i] < announced'[j]
      <4>1. i \in 1 .. Len(announced)
        BY <1>b, <3>2, <3>5
      <4>2. CASE j = Len(announced) + 1
        BY <2>5, <3>2, <4>1, <4>2
      <4>3. CASE j # Len(announced) + 1
        <5>1. j \in 1 .. Len(announced)
          BY <1>b, <3>2, <4>3
        <5> QED BY <3>2, <3>5, <4>1, <5>1 DEF AnnouncedInv
      <4> QED BY <4>2, <4>3
    <3>6. ASSUME NEW i \in 1 .. Len(announced')
          PROVE  \/ announced'[i] = h
                 \/ i \in 1 .. Len(announced) /\ announced'[i] = announced[i]
      BY <1>b, <3>2
    <3>7. \A i \in 1 .. Len(announced') : announced'[i] <= seen
      BY <2>5, <3>6 DEF AnnouncedInv
    <3>8. \A i \in 1 .. Len(chan') : \A j \in 1 .. Len(announced') : announced'[j] < chan'[i]
      BY <2>4, <3>6
    <3>9. Len(announced') = fired + Len(events')
      BY <1>b, <3>1, <3>2, <3>3
    <3> QED BY <2>1, <2>3, <2>4, <3>1, <3>2, <3>3, <3>4, <3>5, <3>7, <3>8, <3>9
            DEF AnnouncedInv
  <2> QED BY <1>2, <2>6, <2>7 DEF Process, h
<1>3. CASE Panics
  <2>1. Len(chan') = 0 /\ UNCHANGED <<announced, events, fired, seen>>
    BY <1>3, EmptySeq DEF Panics, Elsewhere, fanoutVars, threadVars
  <2>2. 1 .. Len(chan') = {}
    BY <2>1
  <2> QED BY <2>1, <2>2 DEF AnnouncedInv
<1>4. CASE EngineTakes
  <2>1. /\ events # <<>> /\ events' = Tail(events) /\ fired' = fired + 1
        /\ UNCHANGED <<announced, seen, chan>>
    BY <1>4 DEF EngineTakes, F!Fire, Untouched, vars
  <2>2. /\ events' \in Seq(Nat) /\ Len(events) > 0 /\ Len(events') = Len(events) - 1
        /\ \A x \in 1 .. Len(events) - 1 : events'[x] = events[x + 1]
    BY <2>1, HeadTailProperties DEF AnnouncedInv
  <2>3. fired \in Nat /\ Len(announced) = fired + Len(events)
    BY DEF AnnouncedInv
  <2>4. ASSUME NEW x \in 1 .. Len(events') PROVE events'[x] = announced[fired' + x]
    <3>1. /\ x + 1 \in 1 .. Len(events) /\ events'[x] = events[x + 1]
          /\ fired' + x = fired + (x + 1)
      BY <1>b, <2>1, <2>2, <2>3
    <3> QED BY <3>1 DEF AnnouncedInv
  <2>5. fired' \in Nat /\ Len(announced) = fired' + Len(events')
    BY <1>b, <2>1, <2>2, <2>3
  <2> QED BY <2>1, <2>2, <2>4, <2>5 DEF AnnouncedInv
<1>5. CASE \/ EngineSent \/ FanoutReceives \/ FanoutDelivers \/ MqttSends \/ ServiceChanges
           \/ \E t \in {"engine", "fanout"} : Dropped(t)
  <2>1. UNCHANGED <<announced, events, fired>>
    BY <1>5 DEF EngineSent, FanoutReceives, FanoutDelivers, MqttSends, ServiceChanges,
                Dropped, fanoutVars, F!Accept, F!Recv, F!Deliver, F!DeliverNtfy,
                F!DeliverMqtt, F!DeliverTimed, F!MqttPoll, F!Fail, F!Recover
  <2> QED BY <1>5, <2>1, BehindThePipeline, AnnouncedUnchanged DEF vars
<1>6. CASE ThreadMoves
  <2>1. UNCHANGED <<announced, events, fired, seen, chan>>
    BY <1>6 DEF ThreadMoves, Elsewhere, fanoutVars, ThreadStep, ThreadStops, PassesCheck,
                Opens, OpenFails, Wakes, ReadTimeout, ReadFails
  <2> QED BY <2>1, AnnouncedUnchanged
<1>7. CASE LinkMoves \/ Finishes \/ SignalArrives \/ Shuts \/ UNCHANGED allVars
  <2>1. UNCHANGED <<announced, events, fired, seen, chan>>
    BY <1>7 DEF LinkMoves, LinkChanges, Finishes, PipelineFinishes, SignalArrives, Signal,
                Shuts, CaptureJoined, Joined, PipelineAwaited, AbortsEngine, AbortsFanout,
                FinalFlush, Elsewhere, fanoutVars, threadVars, captureVars, allVars, vars
  <2> QED BY <2>1, AnnouncedUnchanged
<1> QED BY <1>1, <1>2, <1>3, <1>4, <1>5, <1>6, <1>7 DEF DaemonNext

(* What a notifier got stays a beginning of what was fired.                 *)
LEMMA BeginningsKept ==
  ASSUME AnnouncedInv, DeliveryInv, tried' = tried, fired' \in {fired, fired + 1}
  PROVE  /\ DOMAIN tried' = F!Configured
         /\ \A n \in F!Configured : \E k \in 0 .. fired' : tried'[n] = Run(0, k)
<1>1. DOMAIN tried' = F!Configured
  BY DEF DeliveryInv
<1>2. ASSUME NEW n \in F!Configured PROVE \E k \in 0 .. fired' : tried'[n] = Run(0, k)
  <2>1. PICK k \in 0 .. fired : tried[n] = Run(0, k)
    BY DEF DeliveryInv
  <2>2. k \in 0 .. fired'
    BY DEF AnnouncedInv
  <2> QED BY <2>1, <2>2
<1> QED BY <1>1, <1>2

LEMMA DeliveryUnchanged ==
  ASSUME AnnouncedInv, DeliveryInv, UNCHANGED <<fired, offer, alerts, alert, at, tried>>,
         gone \subseteq gone'
  PROVE  DeliveryInv'
  BY DEF DeliveryInv, Taken

(* A delivery that returns gives the notifier whose turn it is the alert at *)
(* work, and leaves the others with what they have.                         *)
LEMMA AdvanceStep ==
  ASSUME AnnouncedInv, DeliveryInv, "fanout" \notin gone, gone' = gone,
         alert # <<>>, F!Advance(Notifiers[at]),
         UNCHANGED <<fired, offer, alerts>>
  PROVE  DeliveryInv'
<1> DEFINE N == Len(Notifiers)
<1>1. /\ N \in Nat \ {0}
      /\ \A p, q \in 1 .. N : Notifiers[p] = Notifiers[q] => p = q
  BY DaemonAssumption, LenProperties, EmptySeq DEF F!FanoutAssumption
<1>2. /\ alerts \in Seq(Nat) /\ offer \in {<<>>, <<fired>>}
      /\ Taken \in Nat /\ alerts = Run(Taken, Len(alerts))
      /\ alert = <<Taken>> /\ Taken > 0 /\ at \in 1 .. N
      /\ \A p \in 1 .. N : tried[Notifiers[p]] = Run(0, IF p >= at THEN Taken - 1 ELSE Taken)
      /\ DOMAIN tried = F!Configured
  BY DEF DeliveryInv, F!Position
<1>3. /\ tried' = [tried EXCEPT ![Notifiers[at]] = tried[Notifiers[at]] \o alert]
      /\ at' = at + 1 /\ alert' = IF at = N THEN <<>> ELSE alert
  BY DEF F!Advance
<1>4. PICK t \in Nat \ {0} : t = Taken /\ Taken' = t
  BY <1>2 DEF Taken
<1> HIDE DEF N
<1>5. tried[Notifiers[at]] \o alert = Run(0, t)
  <2>1. tried[Notifiers[at]] = Run(0, t - 1) /\ t - 1 \in Nat
    BY <1>1, <1>2, <1>4
  <2>2. Run(0, t - 1) \o <<0 + (t - 1) + 1>> = Run(0, (t - 1) + 1)
    BY <2>1, RunExtended
  <2>3. 0 + (t - 1) + 1 = t /\ (t - 1) + 1 = t
    OBVIOUS
  <2> QED BY <1>2, <1>4, <2>1, <2>2, <2>3
<1>6. F!Configured = {Notifiers[p] : p \in 1 .. N}
  BY DEF F!Configured, F!Position, N
<1>7. tried'[Notifiers[at]] = Run(0, t)
  BY <1>2, <1>3, <1>5, <1>6
<1>8. ASSUME NEW p \in 1 .. N, p # at PROVE tried'[Notifiers[p]] = tried[Notifiers[p]]
  BY <1>1, <1>2, <1>3, <1>6, <1>8
<1>9. ASSUME NEW p \in 1 .. N
      PROVE  tried'[Notifiers[p]]
               = Run(0, IF alert' # <<>> /\ p >= at' THEN t - 1 ELSE t)
  <2>1. CASE p = at
    <3>1. ~ (p >= at')
      BY <1>1, <1>2, <1>3, <2>1
    <3> QED BY <1>7, <2>1, <3>1
  <2>2. CASE p < at
    <3>1. ~ (p >= at') /\ ~ (p >= at) /\ p # at
      BY <1>1, <1>2, <1>3, <2>2
    <3> QED BY <1>2, <1>4, <1>8, <3>1
  <2>3. CASE p > at
    <3>1. alert' = alert /\ p >= at' /\ p >= at /\ p # at
      BY <1>1, <1>2, <1>3, <2>3
    <3> QED BY <1>2, <1>4, <1>8, <3>1
  <2> QED BY <1>1, <1>2, <2>1, <2>2, <2>3
<1>10. ASSUME NEW n \in F!Configured PROVE \E k \in 0 .. fired : tried'[n] = Run(0, k)
  <2>1. PICK p \in 1 .. N : n = Notifiers[p]
    BY <1>6
  <2>2. Taken <= fired
    <3>1. Len(alerts) \in Nat /\ Len(offer) \in Nat /\ fired \in Nat
      BY <1>2, LenProperties DEF AnnouncedInv
    <3> QED BY <3>1 DEF Taken
  <2>3. fired \in Nat
    BY DEF AnnouncedInv
  <2>4. t \in 0 .. fired /\ t - 1 \in 0 .. fired
    BY <1>4, <2>2, <2>3
  <2> QED BY <1>9, <2>1, <2>4
<1>11. alert' # <<>> => alert' = <<t>> /\ at' \in 1 .. N
  BY <1>1, <1>2, <1>3, <1>4
<1>12. DOMAIN tried' = F!Configured
  BY <1>2, <1>3
<1>13. alerts' = Run(t, Len(alerts'))
  BY <1>2, <1>4
<1> QED BY <1>2, <1>4, <1>9, <1>10, <1>11, <1>12, <1>13 DEF DeliveryInv, F!Position, N

(* Every step keeps the alerts in order on their way to the notifiers.      *)
LEMMA DeliveryStep ==
  AnnouncedInv /\ DeliveryInv /\ [DaemonNext]_allVars => DeliveryInv'
<1> SUFFICES ASSUME AnnouncedInv, DeliveryInv, [DaemonNext]_allVars PROVE DeliveryInv'
  OBVIOUS
<1>a. fired \in Nat
  BY DEF AnnouncedInv
<1>1. CASE EngineTakes
  <2>1. /\ offer = <<>> /\ fired' = fired + 1 /\ offer' = <<fired + 1>>
        /\ UNCHANGED <<alerts, alert, at, tried, gone>>
    BY <1>1 DEF EngineTakes, F!Fire, Untouched
  <2>a. "fanout" \notin gone => Len(alerts) \in Nat
    BY LenProperties DEF DeliveryInv
  <2>2. "fanout" \notin gone => Taken' = Taken
    <3>1. Len(<<>>) = 0 /\ Len(<<fired + 1>>) = 1
      OBVIOUS
    <3>2. Len(offer) = 0 /\ Len(offer') = 1
      BY <2>1, <3>1
    <3>3. Taken' = fired' - Len(alerts') - Len(offer') /\ Taken = fired - Len(alerts) - Len(offer)
      BY DEF Taken
    <3>4. fired' = fired + 1 /\ Len(alerts') = Len(alerts)
      BY <2>1
    <3> QED BY <1>a, <2>a, <3>2, <3>3, <3>4
  <2>3. /\ DOMAIN tried' = F!Configured
        /\ \A n \in F!Configured : \E k \in 0 .. fired' : tried'[n] = Run(0, k)
    BY <2>1, BeginningsKept
  <2>4. "fanout" \notin gone => Taken' \in Nat /\ alerts' = Run(Taken', Len(alerts'))
    BY <2>1, <2>2 DEF DeliveryInv
  <2> QED BY <2>1, <2>2, <2>3, <2>4 DEF DeliveryInv
<1>2. CASE EngineSent
  <2>1. CASE "fanout" \in gone
    <3>1. "fanout" \in gone' /\ UNCHANGED <<tried, fired>>
      BY <1>2, <2>1 DEF EngineSent, Untouched
    <3> QED BY <3>1, BeginningsKept DEF DeliveryInv
  <2>2. CASE "fanout" \notin gone
    <3>1. /\ offer # <<>> /\ alerts' = alerts \o offer /\ offer' = <<>>
          /\ UNCHANGED <<fired, alert, at, tried, gone>>
      BY <1>2, <2>2 DEF EngineSent, F!Accept, Untouched
    <3>2. PICK t \in Nat, n \in Nat :
            /\ t = Taken /\ n = Len(alerts) /\ alerts = Run(t, n) /\ offer = <<fired>>
      BY <2>2, <3>1, LenProperties DEF DeliveryInv
    <3>3. fired = t + n + 1
      <4>1. t = fired - n - 1
        BY <3>2 DEF Taken
      <4> QED BY <1>a, <4>1
    <3>4. alerts' = Run(t, n + 1) /\ Len(alerts') = n + 1 /\ alerts' \in Seq(Nat)
      <4>1. Run(t, n) \o <<t + n + 1>> = Run(t, n + 1)
        BY RunExtended
      <4>2. Run(t, n + 1) \in Seq(Nat) /\ Len(Run(t, n + 1)) = n + 1
        BY RunIsSeq
      <4> QED BY <3>1, <3>2, <3>3, <4>1, <4>2
    <3>5. Taken' = t
      BY <1>a, <3>1, <3>3, <3>4 DEF Taken
    <3>6. /\ DOMAIN tried' = F!Configured
          /\ \A m \in F!Configured : \E k \in 0 .. fired' : tried'[m] = Run(0, k)
      BY <3>1, BeginningsKept
    <3> QED BY <2>2, <3>1, <3>2, <3>4, <3>5, <3>6 DEF DeliveryInv
  <2> QED BY <2>1, <2>2
<1>3. CASE FanoutReceives
  <2>1. /\ "fanout" \notin gone /\ alert = <<>> /\ alerts # <<>>
        /\ alert' = <<Head(alerts)>> /\ alerts' = Tail(alerts) /\ at' = 1
        /\ UNCHANGED <<fired, offer, tried, gone>>
    BY <1>3 DEF FanoutReceives, F!Recv, Untouched
  <2>2. PICK t \in Nat, n \in Nat : t = Taken /\ n = Len(alerts) /\ alerts = Run(t, n)
    BY <2>1, LenProperties DEF DeliveryInv
  <2>3. n > 0
    BY <2>1, <2>2, EmptySeq DEF DeliveryInv
  <2>4. alert' = <<t + 1>> /\ alerts' = Run(t + 1, n - 1)
    <3>1. Head(Run(t, n)) = t + 1 /\ Tail(Run(t, n)) = Run(t + 1, n - 1)
      BY <2>3, RunTaken
    <3> QED BY <2>1, <2>2, <3>1
  <2>5. Len(alerts') = n - 1 /\ alerts' \in Seq(Nat)
    <3>1. t + 1 \in Nat /\ n - 1 \in Nat
      BY <2>3
    <3> QED BY <2>4, <3>1, RunIsSeq
  <2>6. Taken' = t + 1
    <3>1. Len(offer) \in Nat /\ t = fired - n - Len(offer)
      BY <2>1, <2>2 DEF Taken, DeliveryInv
    <3>2. Taken' = fired - (n - 1) - Len(offer)
      BY <2>1, <2>5 DEF Taken
    <3> QED BY <1>a, <3>1, <3>2
  <2>7. 1 \in F!Position
    BY DaemonAssumption, LenProperties, EmptySeq DEF F!FanoutAssumption, F!Position
  <2>8. ASSUME NEW p \in F!Position
        PROVE  tried'[Notifiers[p]]
                 = Run(0, IF alert' # <<>> /\ p >= at' THEN Taken' - 1 ELSE Taken')
    <3>1. tried[Notifiers[p]] = Run(0, t)
      BY <2>1, <2>2 DEF DeliveryInv
    <3>2. p >= at' /\ alert' # <<>> /\ Taken' - 1 = t
      BY <2>1, <2>2, <2>4, <2>6 DEF F!Position
    <3> QED BY <2>1, <3>1, <3>2
  <2>9. /\ DOMAIN tried' = F!Configured
        /\ \A m \in F!Configured : \E k \in 0 .. fired' : tried'[m] = Run(0, k)
    BY <2>1, BeginningsKept
  <2> QED BY <2>1, <2>4, <2>5, <2>6, <2>7, <2>8, <2>9 DEF DeliveryInv
<1>4. CASE FanoutDelivers
  <2>1. /\ "fanout" \notin gone /\ gone' = gone
        /\ alert # <<>> /\ F!Advance(Notifiers[at]) /\ UNCHANGED <<fired, offer, alerts>>
    BY <1>4 DEF FanoutDelivers, F!Deliver, F!DeliverNtfy, F!DeliverMqtt, F!DeliverTimed,
                Untouched
  <2> QED BY <2>1, AdvanceStep
<1>5. CASE \/ MqttSends \/ ServiceChanges \/ \E t \in {"engine", "fanout"} : Dropped(t)
  <2>1. UNCHANGED <<fired, offer, alerts, alert, at, tried>> /\ gone \subseteq gone'
    BY <1>5 DEF MqttSends, ServiceChanges, Dropped, fanoutVars, Untouched, F!MqttPoll,
                F!Fail, F!Recover
  <2> QED BY <2>1, DeliveryUnchanged
<1>6. CASE \/ ThreadMoves \/ PacketComes \/ LinkMoves \/ Process \/ Finishes \/ Panics
           \/ SignalArrives \/ Shuts \/ UNCHANGED allVars
  <2>1. UNCHANGED <<fanoutVars, gone>>
    BY <1>6 DEF ThreadMoves, PacketComes, LinkMoves, Process, Finishes, Panics,
                SignalArrives, Shuts, CaptureJoined, PipelineAwaited, AbortsEngine,
                AbortsFanout, FinalFlush, Elsewhere, allVars
  <2> QED BY <2>1, DeliveryUnchanged DEF fanoutVars
<1> QED BY <1>1, <1>2, <1>3, <1>4, <1>5, <1>6 DEF DaemonNext

(* The order of packets, events and alerts, for every capacity of the       *)
(* channels and every list of notifiers.                                    *)
THEOREM PathInvariant == DaemonSpec => []PathInv
<1>1. DaemonInit => AnnouncedInv /\ DeliveryInv
  <2> SUFFICES ASSUME DaemonInit PROVE AnnouncedInv /\ DeliveryInv
    OBVIOUS
  <2>1. /\ announced = <<>> /\ events = <<>> /\ chan = <<>> /\ alerts = <<>> /\ alert = <<>>
        /\ offer = <<>> /\ fired = 0 /\ tried = [n \in F!Configured |-> <<>>]
    BY DEF DaemonInit, Init, F!Init
  <2>2. <<>> = Run(0, 0) /\ <<>> \in Seq(Nat) /\ Len(<<>>) = 0 /\ 1 .. 0 = {}
    BY DEF Run
  <2>3. AnnouncedInv
    BY <2>1, <2>2 DEF AnnouncedInv
  <2>4. Taken = 0
    <3>1. Taken = 0 - 0 - 0
      BY <2>1, <2>2 DEF Taken
    <3> QED BY <3>1
  <2>5. \A p \in F!Position : tried[Notifiers[p]] = Run(0, 0)
    BY <2>1, <2>2 DEF F!Configured
  <2>6. \A n \in F!Configured : \E k \in 0 .. fired : tried[n] = Run(0, k)
    BY <2>1, <2>2
  <2> QED BY <2>1, <2>2, <2>3, <2>4, <2>5, <2>6 DEF DeliveryInv
<1>2. DaemonInv /\ AnnouncedInv /\ DeliveryInv /\ [DaemonNext]_allVars
        => AnnouncedInv' /\ DeliveryInv'
  BY AnnouncedStep, DeliveryStep
<1> QED BY <1>1, <1>2, DaemonInvariant, PTL DEF DaemonSpec, PathInv

(* process_packet, fire_alert and the fanout: whatever the tasks'           *)
(* interleaving, no stage loses, repeats or reorders what it was given, and *)
(* an abort only cuts off the end.                                          *)
THEOREM OrderKept == DaemonSpec => []InOrderToAll
<1>1. PathInv => InOrderToAll
  <2> SUFFICES ASSUME AnnouncedInv, DeliveryInv PROVE InOrderToAll
    BY DEF PathInv
  <2>1. /\ announced \in Seq(Nat) /\ events \in Seq(Nat) /\ fired \in Nat
        /\ Len(announced) \in Nat /\ Len(events) \in Nat
        /\ Len(announced) = fired + Len(events)
    BY LenProperties DEF AnnouncedInv
  <2>2. \A i, j \in DOMAIN announced : i < j => announced[i] < announced[j]
    BY <2>1, LenProperties DEF AnnouncedInv
  <2>3. events = SubSeq(announced, fired + 1, Len(announced))
    <3>1. /\ SubSeq(announced, fired + 1, Len(announced)) \in Seq(Nat)
          /\ Len(SubSeq(announced, fired + 1, Len(announced))) = Len(events)
          /\ \A x \in 1 .. Len(events) :
               SubSeq(announced, fired + 1, Len(announced))[x] = announced[fired + x]
      <4>1. /\ fired + 1 \in 1 .. Len(announced) + 1
            /\ Len(announced) \in (fired + 1) - 1 .. Len(announced)
            /\ Len(announced) - (fired + 1) + 1 = Len(events)
        BY <2>1
      <4>2. /\ SubSeq(announced, fired + 1, Len(announced)) \in Seq(Nat)
            /\ Len(SubSeq(announced, fired + 1, Len(announced)))
                 = Len(announced) - (fired + 1) + 1
            /\ \A x \in 1 .. Len(announced) - (fired + 1) + 1 :
                 SubSeq(announced, fired + 1, Len(announced))[x]
                   = announced[(fired + 1) + x - 1]
        BY <2>1, <4>1, SubSeqProperties
      <4>3. \A x \in 1 .. Len(events) : (fired + 1) + x - 1 = fired + x
        BY <2>1
      <4> QED BY <4>1, <4>2, <4>3
    <3> QED BY <2>1, <3>1, SeqEqual DEF AnnouncedInv
  <2>4. [x \in 1 .. fired |-> x] = Run(0, fired)
    BY <2>1 DEF Run
  <2>5. ASSUME NEW n \in F!Configured PROVE IsPrefix(tried[n], Run(0, fired))
    <3>1. PICK k \in 0 .. fired : tried[n] = Run(0, k)
      BY DEF DeliveryInv
    <3>2. k \in Nat /\ k <= fired /\ Len(Run(0, k)) = k /\ Len(Run(0, fired)) = fired
      <4>1. k \in Nat /\ k <= fired /\ 0 \in Nat
        BY <2>1
      <4> QED BY <2>1, <4>1, RunIsSeq
    <3>3. SubSeq(Run(0, k), 1, k) = SubSeq(Run(0, fired), 1, k)
      <4>1. ASSUME NEW j \in Nat, k <= j PROVE SubSeq(Run(0, j), 1, k) = [x \in 1 .. k |-> x]
        <5>1. \A x \in 1 .. k : Run(0, j)[x] = x
          BY <3>2, <4>1 DEF Run
        <5>2. Run(0, j) \in Seq(Nat) /\ Len(Run(0, j)) = j
          BY RunIsSeq
        <5> HIDE DEF Run
        <5> QED BY <3>2, <4>1, <5>1, <5>2
      <4> QED BY <2>1, <3>2, <4>1
    <3> QED BY <3>1, <3>2, <3>3 DEF IsPrefix
  <2>6. ASSUME "fanout" \notin gone PROVE F!NothingSkipped
    <3> SUFFICES ASSUME NEW p \in F!Position
                 PROVE  tried[Notifiers[p]] \o (IF p >= at THEN alert ELSE <<>>) \o alerts \o offer
                          = Run(0, fired)
      BY <2>4 DEF F!NothingSkipped
    <3>1. PICK t \in Nat, n \in Nat :
            /\ t = Taken /\ n = Len(alerts) /\ alerts = Run(t, n)
            /\ offer \in {<<>>, <<fired>>}
      BY <2>6, LenProperties DEF DeliveryInv
    <3>2. tried[Notifiers[p]] \o (IF p >= at THEN alert ELSE <<>>) = Run(0, t)
      <4>1. CASE alert # <<>> /\ p >= at
        <5>1. tried[Notifiers[p]] = Run(0, t - 1) /\ alert = <<t>> /\ t > 0
          BY <2>6, <3>1, <4>1 DEF DeliveryInv
        <5>2. t - 1 \in Nat /\ 0 + (t - 1) + 1 = t /\ (t - 1) + 1 = t
          BY <5>1
        <5>3. Run(0, t - 1) \o <<0 + (t - 1) + 1>> = Run(0, (t - 1) + 1)
          BY <5>2, RunExtended
        <5> QED BY <4>1, <5>1, <5>2, <5>3
      <4>2. CASE ~ (alert # <<>> /\ p >= at)
        <5>1. tried[Notifiers[p]] = Run(0, t) /\ (IF p >= at THEN alert ELSE <<>>) = <<>>
          BY <2>6, <3>1, <4>2 DEF DeliveryInv
        <5>2. Run(0, t) \in Seq(Nat)
          BY RunIsSeq
        <5> QED BY <5>1, <5>2, ConcatEmptySeq
      <4> QED BY <4>1, <4>2
    <3>3. Run(0, t) \o alerts = Run(0, t + n)
      <4>1. Run(0, t) \o Run(0 + t, n) = Run(0, t + n)
        BY RunJoined
      <4>2. 0 + t = t
        OBVIOUS
      <4> QED BY <3>1, <4>1, <4>2
    <3>4. Run(0, t + n) \o offer = Run(0, fired)
      <4>1. CASE offer = <<>>
        <5>1. fired = t + n
          BY <2>1, <3>1, <4>1 DEF Taken
        <5>2. 0 \in Nat /\ t + n \in Nat
          OBVIOUS
        <5>3. Run(0, t + n) \in Seq(Nat)
          BY <5>2, RunIsSeq
        <5> QED BY <4>1, <5>1, <5>3, ConcatEmptySeq
      <4>2. CASE offer = <<fired>>
        <5>1. t = fired - n - 1
          BY <3>1, <4>2 DEF Taken
        <5>2. fired = 0 + (t + n) + 1 /\ fired = (t + n) + 1
          BY <2>1, <5>1
        <5>3. Run(0, t + n) \o <<0 + (t + n) + 1>> = Run(0, (t + n) + 1)
          <6>1. 0 \in Nat /\ t + n \in Nat
            OBVIOUS
          <6> QED BY <6>1, RunExtended
        <5> QED BY <4>2, <5>2, <5>3
      <4> QED BY <3>1, <4>1, <4>2
    <3> QED BY <3>2, <3>3, <3>4
  <2> QED BY <2>2, <2>3, <2>4, <2>5, <2>6 DEF InOrderToAll
<1> QED BY <1>1, PathInvariant, PTL

=============================================================================
