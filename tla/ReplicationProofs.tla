-------------------------- MODULE ReplicationProofs --------------------------
(***************************************************************************)
(* Theorems about Replication for every number of producers and events,    *)
(* every capacity, batch size and retry limit.                             *)
(*                                                                         *)
(* The order of the module: facts about sequences, the parts of one        *)
(* inductive invariant (types, where the events are, batch boundaries, what*)
(* the store reflects, failing closed), the properties that follow from it,*)
(* and last the refinement of EventLog.                                    *)
(***************************************************************************)
EXTENDS Replication, SequenceTheorems, TLAPS

-----------------------------------------------------------------------------
(* Sequences of events. *)

(* Enqueueing at the end of a concatenation. *)
LEMMA ConcatAppend ==
  ASSUME NEW s \in Seq(Event), NEW t \in Seq(Event), NEW e \in Event
  PROVE  Append(s \o t, e) = s \o Append(t, e)
<1>1. Append(s \o t, e) = (s \o t) \o <<e>>
  BY AppendIsConcat, ConcatProperties
<1>2. Append(t, e) = t \o <<e>>
  BY AppendIsConcat
<1>3. <<e>> \in Seq(Event)
  OBVIOUS
<1>4. (s \o t) \o <<e>> = s \o (t \o <<e>>)
  BY <1>3, ConcatAssociative
<1>5. QED  BY <1>1, <1>2, <1>4

(* Moving the head of a sequence to the end of the one before it. *)
LEMMA MoveHead ==
  ASSUME NEW s \in Seq(Event), NEW t \in Seq(Event), t # <<>>
  PROVE  s \o t = Append(s, Head(t)) \o Tail(t)
<1>1. Head(t) \in Event /\ Tail(t) \in Seq(Event) /\ <<Head(t)>> \in Seq(Event)
  BY HeadTailProperties
<1>2. t = <<Head(t)>> \o Tail(t)
  OBVIOUS
<1>3. s \o (<<Head(t)>> \o Tail(t)) = (s \o <<Head(t)>>) \o Tail(t)
  BY <1>1, ConcatAssociative
<1>4. Append(s, Head(t)) = s \o <<Head(t)>>
  BY <1>1, AppendIsConcat
<1>5. QED  BY <1>2, <1>3, <1>4

(* The same, for the sequences of the invariant Accounting. *)
LEMMA AppendLast ==
  ASSUME NEW x \in Seq(Event), NEW q \in Seq(Event), NEW e \in Event
  PROVE  Append(x \o q \o <<>>, e) = x \o Append(q, e) \o <<>>
<1>1. Append(q, e) \in Seq(Event)
  BY AppendProperties
<1>2. x \o q \o <<>> = x \o q
  BY ConcatProperties, ConcatEmptySeq
<1>3. x \o Append(q, e) \o <<>> = x \o Append(q, e)
  BY <1>1, ConcatProperties, ConcatEmptySeq
<1>4. Append(x \o q, e) = x \o Append(q, e)
  BY ConcatAppend
<1>5. QED  BY <1>2, <1>3, <1>4

LEMMA ReceiveHead ==
  ASSUME NEW x \in Seq(Event), NEW f \in Seq(Event), NEW q \in Seq(Event), q # <<>>
  PROVE  x \o f \o q = x \o Append(f, Head(q)) \o Tail(q)
<1> DEFINE g == Append(f, Head(q))
           r == Tail(q)
<1>1. g \in Seq(Event) /\ r \in Seq(Event)
  BY HeadTailProperties, AppendProperties
<1>2. f \o q = g \o r
  BY MoveHead
<1> HIDE DEF g, r
<1>3. x \o f \o q = x \o (f \o q)
  BY ConcatAssociative
<1>4. (x \o g) \o r = x \o (g \o r)
  BY <1>1, ConcatAssociative
<1>5. x \o f \o q = x \o g \o r
  BY <1>2, <1>3, <1>4
<1>6. QED  BY <1>5 DEF g, r

(* A worker that ends drops what it holds. *)
LEMMA DropTail ==
  ASSUME NEW c \in Seq(Event), NEW d \in Seq(Event), NEW q \in Seq(Event)
  PROVE  c \o d \o q \o <<>> = c \o <<>> \o <<>> \o <<>> \o (d \o q)
<1>1. c \o d \o q \in Seq(Event) /\ <<>> \in Seq(Event)
  BY ConcatProperties
<1>2. c \o d \o q \o <<>> = c \o d \o q
  BY <1>1, ConcatEmptySeq
<1>3. c \o d \o q = c \o (d \o q)
  BY ConcatAssociative
<1>4. c \o <<>> = c
  BY ConcatEmptySeq
<1>5. QED  BY <1>2, <1>3, <1>4

-----------------------------------------------------------------------------
(* Types. *)

LEMMA EmptyIsTyped == <<>> \in Seq(Event) /\ <<>> \in Seq(Send) /\ Len(<<>>) = 0
OBVIOUS

(* A send that leaves the line keeps the others in it. *)
LEMMA LeaveType ==
  ASSUME NEW p, waiting \in Seq(Send), Leave(p)
  PROVE  waiting' \in Seq(Send)
<1>1. PICK i \in 1 .. Len(waiting) :
        waiting' = SubSeq(waiting, 1, i - 1) \o SubSeq(waiting, i + 1, Len(waiting))
  BY LenProperties DEF Leave
<1>2. Len(waiting) \in Nat /\ \A j \in 1 .. Len(waiting) : waiting[j] \in Send
  BY LenProperties, ElementOfSeq
<1>3. SubSeq(waiting, 1, i - 1) \in Seq(Send)
  <2>1. \A j \in 1 .. (i - 1) : waiting[j] \in Send
    BY <1>2
  <2>2. 1 \in Int /\ i - 1 \in Int
    BY <1>2
  <2>3. QED  BY <2>1, <2>2, SubSeqProperties
<1>4. SubSeq(waiting, i + 1, Len(waiting)) \in Seq(Send)
  <2>1. \A j \in (i + 1) .. Len(waiting) : waiting[j] \in Send
    BY <1>2
  <2>2. i + 1 \in Int /\ Len(waiting) \in Int
    BY <1>2
  <2>3. QED  BY <2>1, <2>2, SubSeqProperties
<1>5. QED  BY <1>1, <1>3, <1>4, ConcatProperties

(* The Boolean variables, which SMT and the arithmetic of the others are   *)
(* kept apart from.                                                        *)
Flags == attached \in BOOLEAN /\ due \in BOOLEAN /\ fatal \in BOOLEAN

LEMMA FlagsStep == Flags /\ [Next]_vars => Flags'
BY DEF Flags, Next, vars, CloneQueue, DropQueue, Refuse, CancelSend, Enqueue,
       AttachEngine, Shutdown, DropHandle, ReleaseHandle, Accept, Start,
       TimerExpires, OnShutdown, OnClosed, OnRecv, OnTimer, ServerApplies,
       ReplyOk, Retry, GiveUp, BackoffElapsed, Abort, Terminated, clients

Shapes ==
  /\ handle \in {"held", "shutdown", "dropped"}
  /\ clones \in SUBSET Producers
  /\ waiting \in Seq(Send)
  /\ queue \in Seq(Event) /\ Len(queue) <= Capacity
  /\ worker \in Phase
  /\ resume \in {"loop", "return"}
  /\ buf \in Seq(Event)
  /\ batch \in Seq(Event)
  /\ attempt \in 0 .. MaxRetries
  /\ rels \in SUBSET Tuples
  /\ sent \in Seq(Event) /\ committed \in Seq(Event) /\ lost \in Seq(Event)
  /\ applied \in Nat

LEMMA TypeParts == TypeOK <=> Flags /\ Shapes
BY DEF TypeOK, Flags, Shapes

LEMMA ShapesInit == Init => Shapes
BY CapacityAssumption, SettingsAssumption, EmptyIsTyped DEF Init, Shapes, Phase

LEMMA ShapesStep == Shapes /\ [Next]_vars => Shapes'
<1> SUFFICES ASSUME Shapes, [Next]_vars PROVE Shapes'
  OBVIOUS
<1> USE DEF Shapes, Phase, Running, Ended
<1>0. CASE UNCHANGED vars
  BY <1>0 DEF vars
<1>1. ASSUME NEW p \in Producers,
             \/ CloneQueue(p) \/ DropQueue(p) \/ Refuse(p) \/ CancelSend(p)
             \/ \E ev \in Event : Enqueue(p, ev)
      PROVE  Shapes'
  <2>1. CASE CloneQueue(p)
    BY <1>1, <2>1 DEF CloneQueue, flush
  <2>2. CASE DropQueue(p)
    BY <2>2 DEF DropQueue, flush
  <2>3. CASE Refuse(p)
    BY <2>3, LeaveType DEF Refuse, clients, flush
  <2>4. CASE CancelSend(p)
    BY <2>4, LeaveType DEF CancelSend, clients, flush
  <2>5. ASSUME NEW ev \in Event, Enqueue(p, ev) PROVE Shapes'
    <3>1. [from |-> p, ev |-> ev] \in Send
      BY DEF Send
    <3>2. waiting' \in Seq(Send)
      BY <2>5, <3>1, AppendProperties DEF Enqueue
    <3>3. QED  BY <2>5, <3>2 DEF Enqueue, clients, flush
  <2>6. QED  BY <1>1, <2>1, <2>2, <2>3, <2>4, <2>5
<1>2. CASE AttachEngine \/ Shutdown \/ DropHandle
  BY <1>2 DEF AttachEngine, Shutdown, DropHandle, ReleaseHandle, flush
<1>3. CASE Accept
  <2>1. Head(waiting) \in Send /\ Tail(waiting) \in Seq(Send)
    BY <1>3, HeadTailProperties DEF Accept
  <2>2. Head(waiting).ev \in Event
    BY <2>1 DEF Send
  <2>3. /\ queue' \in Seq(Event) /\ Len(queue') = Len(queue) + 1
        /\ sent' \in Seq(Event)
    BY <1>3, <2>2, AppendProperties DEF Accept
  <2>4. Len(queue') <= Capacity
    BY <1>3, <2>3, CapacityAssumption, LenProperties DEF Accept
  <2>5. QED  BY <1>3, <2>1, <2>3, <2>4 DEF Accept, clients, flush
<1>4. CASE Start \/ TimerExpires \/ BackoffElapsed
  BY <1>4 DEF Start, TimerExpires, BackoffElapsed, clients, flush
<1>5. CASE OnShutdown \/ OnClosed
  <2>1. UNCHANGED <<clients, waiting, rels, sent, committed, applied>>
    BY <1>5 DEF OnShutdown, OnClosed
  <2>2. CASE BeginFlush(buf, "return") /\ UNCHANGED <<queue, lost>>
    BY <2>1, <2>2, SettingsAssumption, EmptyIsTyped DEF BeginFlush, clients
  <2>3. CASE End("stopped", <<>>)
    BY <2>1, <2>3, EmptyIsTyped, CapacityAssumption, ConcatEmptySeq DEF End, clients
  <2>4. QED  BY <1>5, <2>2, <2>3 DEF OnShutdown, OnClosed
<1>6. CASE OnRecv
  <2>1. /\ Head(queue) \in Event /\ Tail(queue) \in Seq(Event)
        /\ Len(Tail(queue)) <= Capacity
    BY <1>6, HeadTailProperties, CapacityAssumption, LenProperties DEF OnRecv
  <2>2. Append(buf, Head(queue)) \in Seq(Event)
    BY <2>1, AppendProperties
  <2>3. /\ UNCHANGED <<clients, waiting, rels, sent, committed, lost, applied>>
        /\ queue' = Tail(queue)
        /\ \/ buf' = Append(buf, Head(queue)) /\ UNCHANGED <<worker, flush>>
           \/ BeginFlush(Append(buf, Head(queue)), "loop")
    BY <1>6 DEF OnRecv
  <2>4. CASE buf' = Append(buf, Head(queue)) /\ UNCHANGED <<worker, flush>>
    BY <2>1, <2>2, <2>3, <2>4 DEF clients, flush
  <2>5. CASE BeginFlush(Append(buf, Head(queue)), "loop")
    BY <2>1, <2>2, <2>3, <2>5, SettingsAssumption, EmptyIsTyped DEF BeginFlush, clients
  <2>6. QED  BY <2>3, <2>4, <2>5
<1>7. CASE OnTimer
  <2>1. /\ UNCHANGED <<clients, waiting, queue, rels, sent, committed, lost, applied>>
        /\ BeginFlush(buf, "loop") \/ UNCHANGED <<worker, flush, buf>>
    BY <1>7 DEF OnTimer
  <2>2. CASE BeginFlush(buf, "loop")
    BY <2>1, <2>2, SettingsAssumption, EmptyIsTyped DEF BeginFlush, clients
  <2>3. CASE UNCHANGED <<worker, flush, buf>>
    BY <2>1, <2>3 DEF clients, flush
  <2>4. QED  BY <2>1, <2>2, <2>3
<1>8. CASE ServerApplies
  <2>1. rels' \in SUBSET Tuples
    <3>1. \A i \in DOMAIN batch : batch[i].tuple \in Tuples
      <4>1. \A i \in DOMAIN batch : batch[i] \in Event
        BY ElementOfSeq, LenProperties
      <4>2. QED  BY <4>1 DEF Event
    <3>2. Touched(BuildUpdates(batch)) \subseteq Tuples
      BY <3>1 DEF Touched, BuildUpdates
    <3>3. QED  BY <1>8, <3>2 DEF ServerApplies, Commit
  <2>2. applied' \in Nat
    BY <1>8, LenProperties DEF ServerApplies
  <2>3. QED  BY <1>8, <2>1, <2>2 DEF ServerApplies, clients, flush
<1>9. CASE ReplyOk
  <2>1. committed \o batch \in Seq(Event) /\ <<>> \o queue \in Seq(Event)
    BY ConcatProperties, EmptyIsTyped
  <2>2. /\ UNCHANGED <<clients, waiting, rels, sent, applied>>
        /\ committed' = committed \o batch
        /\ \/ /\ worker' = "select" /\ batch' = <<>>
              /\ UNCHANGED <<queue, buf, lost, resume, attempt>>
           \/ End("stopped", <<>>)
    BY <1>9 DEF ReplyOk
  <2>3. CASE worker' = "select" /\ batch' = <<>> /\ UNCHANGED <<queue, buf, lost, resume, attempt>>
    BY <2>1, <2>2, <2>3, EmptyIsTyped DEF clients
  <2>4. CASE End("stopped", <<>>)
    BY <2>1, <2>2, <2>4, EmptyIsTyped, CapacityAssumption DEF End, clients
  <2>5. QED  BY <2>2, <2>3, <2>4
<1>10. CASE Retry
  BY <1>10, SettingsAssumption DEF Retry, clients
<1>11. CASE GiveUp \/ Abort
  <2>1. (batch \o buf) \o queue \in Seq(Event)
    BY ConcatProperties
  <2>2. PICK status \in Ended :
          /\ UNCHANGED <<clients, waiting, rels, sent, committed, applied>>
          /\ End(status, batch \o buf)
    BY <1>11 DEF GiveUp, Abort
  <2>3. QED
    BY <2>1, <2>2, EmptyIsTyped, CapacityAssumption DEF End, clients
<1>12. CASE Terminated
  BY <1>12 DEF Terminated, vars
<1>13. QED
  BY <1>0, <1>1, <1>2, <1>3, <1>4, <1>5, <1>6, <1>7, <1>8, <1>9, <1>10, <1>11,
     <1>12 DEF Next

LEMMA TypeInit == Init => TypeOK
<1>1. Init => Flags
  BY DEF Init, Flags
<1>2. QED  BY <1>1, ShapesInit, TypeParts

LEMMA TypeStep == TypeOK /\ [Next]_vars => TypeOK'
<1>1. TypeOK' <=> Flags' /\ Shapes'
  BY DEF TypeOK, Flags, Shapes
<1>2. QED  BY <1>1, FlagsStep, ShapesStep, TypeParts

(* Whatever the capacity and however many producers, the state keeps its   *)
(* shape: the channel never holds more than its capacity and a batch is    *)
(* never attempted more than max_retries times after its first failure.    *)
THEOREM TypeCorrect == Spec => []TypeOK
BY TypeInit, TypeStep, PTL DEF Spec

-----------------------------------------------------------------------------
(* Where the accepted events are. *)

LEMMA AccountingInit == Init => Accounting
<1>1. \A s : s = <<>> => s \o s \o s \o s \o s = s
  BY EmptyIsTyped, ConcatEmptySeq
<1>2. QED  BY <1>1 DEF Init, Accounting, Ended

LEMMA AccountingStep ==
  ASSUME TypeOK, Accounting, BatchBoundary, [Next]_vars
  PROVE  Accounting'
<1> USE DEF Ended
<1>t. /\ queue \in Seq(Event) /\ buf \in Seq(Event) /\ batch \in Seq(Event)
      /\ committed \in Seq(Event) /\ lost \in Seq(Event)
  BY DEF TypeOK
<1>s. sent = committed \o batch \o buf \o queue \o lost
  BY DEF Accounting
<1>0. ASSUME UNCHANGED <<worker, queue, buf, batch, sent, committed, lost>>
      PROVE  Accounting'
  BY <1>0 DEF Accounting
<1>1. ASSUME NEW p \in Producers,
             \/ CloneQueue(p) \/ DropQueue(p) \/ Refuse(p) \/ CancelSend(p)
             \/ \E ev \in Event : Enqueue(p, ev)
      PROVE  Accounting'
  BY <1>0, <1>1 DEF CloneQueue, DropQueue, Refuse, CancelSend, Enqueue, flush
<1>2. CASE AttachEngine \/ Shutdown \/ DropHandle \/ TimerExpires \/ Terminated
           \/ UNCHANGED vars
  BY <1>0, <1>2 DEF AttachEngine, Shutdown, DropHandle, ReleaseHandle, TimerExpires,
                    Terminated, flush, vars
<1>3. CASE Accept
  <2>1. lost = <<>> /\ worker' = worker /\ lost' = <<>>
    BY <1>3 DEF Accept, Accounting
  <2>2. Head(waiting).ev \in Event
    <3>1. waiting # <<>> /\ waiting \in Seq(Send)
      BY <1>3 DEF Accept, TypeOK
    <3>2. Head(waiting) \in Send
      BY <3>1, HeadTailProperties
    <3>3. QED  BY <3>2 DEF Send
  <2>3. committed \o batch \o buf \in Seq(Event)
    BY <1>t, ConcatProperties
  <2>4. ASSUME NEW x \in Seq(Event), NEW e \in Event
        PROVE  Append(x \o queue \o <<>>, e) = x \o Append(queue, e) \o <<>>
    BY <1>t, AppendLast
  <2>5. QED
    BY <1>3, <1>s, <2>1, <2>2, <2>3, <2>4 DEF Accept, flush, Accounting
<1>4. CASE Start \/ ServerApplies \/ Retry \/ BackoffElapsed
  BY <1>4 DEF Start, ServerApplies, Retry, BackoffElapsed, Accounting, flush
<1>5. ASSUME worker = "select", BeginFlush(buf, "loop") \/ BeginFlush(buf, "return"),
             UNCHANGED <<queue, sent, committed, lost>>
      PROVE  Accounting'
  <2>1. batch = <<>> /\ batch' = buf /\ buf' = <<>> /\ worker' = "writing"
    BY <1>5 DEF BatchBoundary, BeginFlush
  <2>2. committed \o <<>> \o buf = committed \o buf \o <<>>
    BY <1>t, ConcatEmptySeq, ConcatProperties
  <2>3. QED  BY <1>5, <1>s, <2>1, <2>2 DEF Accounting
<1>6. CASE OnShutdown \/ OnClosed
  <2>1. worker = "select" /\ UNCHANGED <<sent, committed>>
    BY <1>6 DEF OnShutdown, OnClosed
  <2>2. CASE BeginFlush(buf, "return") /\ UNCHANGED <<queue, lost>>
    BY <1>5, <2>1, <2>2
  <2>3. CASE buf = <<>> /\ End("stopped", <<>>)
    <3>1. batch = <<>> /\ lost = <<>>
      BY <2>1 DEF BatchBoundary, Accounting
    <3>2. committed \o <<>> \o queue \o <<>>
            = committed \o <<>> \o <<>> \o <<>> \o (<<>> \o queue)
      BY <1>t, EmptyIsTyped, DropTail
    <3>3. committed \o <<>> \o <<>> = committed \o <<>>
      BY <1>t, ConcatEmptySeq
    <3>4. QED  BY <1>s, <2>1, <2>3, <3>1, <3>2, <3>3 DEF End, Accounting
  <2>4. QED  BY <1>6, <2>2, <2>3 DEF OnShutdown, OnClosed
<1>7. CASE OnRecv
  <2>1. /\ worker = "select" /\ queue # <<>> /\ batch = <<>>
        /\ UNCHANGED <<sent, committed, lost>> /\ queue' = Tail(queue)
    BY <1>7 DEF OnRecv, BatchBoundary
  <2>2. committed \o <<>> \in Seq(Event)
    BY <1>t, EmptyIsTyped, ConcatProperties
  <2>3. committed \o <<>> \o buf \o queue
          = committed \o <<>> \o Append(buf, Head(queue)) \o Tail(queue)
    <3>1. ASSUME NEW x \in Seq(Event)
          PROVE  x \o buf \o queue = x \o Append(buf, Head(queue)) \o Tail(queue)
      BY <1>t, <2>1, ReceiveHead
    <3>2. QED  BY <2>2, <3>1
  <2>4. CASE buf' = Append(buf, Head(queue)) /\ UNCHANGED <<worker, flush>>
    BY <1>s, <2>1, <2>3, <2>4 DEF Accounting, flush
  <2>5. CASE BeginFlush(Append(buf, Head(queue)), "loop")
    <3>1. Append(buf, Head(queue)) \in Seq(Event)
      BY <1>t, <2>1, HeadTailProperties, AppendProperties
    <3>2. committed \o <<>> \o Append(buf, Head(queue))
            = committed \o Append(buf, Head(queue)) \o <<>>
      BY <1>t, <3>1, ConcatEmptySeq, ConcatProperties
    <3>3. QED  BY <1>s, <2>1, <2>3, <2>5, <3>2 DEF BeginFlush, Accounting
  <2>6. QED  BY <1>7, <2>4, <2>5 DEF OnRecv
<1>8. CASE OnTimer
  <2>1. worker = "select" /\ UNCHANGED <<queue, sent, committed, lost>>
    BY <1>8 DEF OnTimer
  <2>2. CASE BeginFlush(buf, "loop")
    BY <1>5, <2>1, <2>2
  <2>3. CASE UNCHANGED <<worker, flush, buf>>
    BY <1>0, <2>1, <2>3 DEF flush
  <2>4. QED  BY <1>8, <2>2, <2>3 DEF OnTimer
<1>9. CASE ReplyOk
  <2>1. /\ worker = "written" /\ buf = <<>> /\ lost = <<>> /\ UNCHANGED sent
        /\ committed' = committed \o batch
    BY <1>9 DEF ReplyOk, BatchBoundary, Accounting
  <2>2. committed \o batch \in Seq(Event)
    BY <1>t, ConcatProperties
  <2>3. committed \o batch \o <<>> = committed \o batch
    BY <2>2, ConcatEmptySeq
  <2>4. CASE worker' = "select" /\ batch' = <<>> /\ UNCHANGED <<queue, buf, lost>>
    BY <1>s, <2>1, <2>3, <2>4 DEF Accounting
  <2>5. CASE End("stopped", <<>>)
    <3>1. (committed \o batch) \o <<>> \o queue \o <<>>
            = (committed \o batch) \o <<>> \o <<>> \o <<>> \o (<<>> \o queue)
      BY <1>t, <2>2, EmptyIsTyped, DropTail
    <3>2. QED  BY <1>s, <2>1, <2>5, <3>1 DEF End, Accounting
  <2>6. QED  BY <1>9, <2>4, <2>5 DEF ReplyOk
<1>10. CASE GiveUp \/ Abort
  <2>1. PICK status \in Ended :
          /\ UNCHANGED <<sent, committed>>
          /\ End(status, batch \o buf)
    BY <1>10 DEF GiveUp, Abort
  <2>2. lost = <<>>
    BY <1>10 DEF GiveUp, Abort, Accounting
  <2>3. batch \o buf \in Seq(Event)
    BY <1>t, ConcatProperties
  <2>4. committed \o batch \o buf = committed \o (batch \o buf)
    <3>1. \A c, b, f \in Seq(Event) : (c \o b) \o f = c \o (b \o f)
      BY ConcatAssociative
    <3>2. QED  BY <1>t, <3>1
  <2>5. committed \o (batch \o buf) \o queue \o <<>>
          = committed \o <<>> \o <<>> \o <<>> \o ((batch \o buf) \o queue)
    <3>1. ASSUME NEW d \in Seq(Event)
          PROVE  committed \o d \o queue \o <<>>
                   = committed \o <<>> \o <<>> \o <<>> \o (d \o queue)
      BY <1>t, DropTail
    <3>2. QED  BY <2>3, <3>1
  <2>6. QED  BY <1>s, <2>1, <2>2, <2>4, <2>5 DEF End, Accounting
<1>11. QED
  BY <1>1, <1>2, <1>3, <1>4, <1>6, <1>7, <1>8, <1>9, <1>10 DEF Next

-----------------------------------------------------------------------------
(* Batch boundaries. *)

LEMMA SentCoversBatch ==
  TypeOK /\ Accounting => Len(committed) + Len(batch) <= Len(sent)
<1> SUFFICES ASSUME TypeOK, Accounting
             PROVE  Len(committed) + Len(batch) <= Len(sent)
  OBVIOUS
<1>1. /\ queue \in Seq(Event) /\ buf \in Seq(Event) /\ batch \in Seq(Event)
      /\ committed \in Seq(Event) /\ lost \in Seq(Event)
  BY DEF TypeOK
<1> DEFINE cb == committed \o batch
           cbf == cb \o buf
           cbfq == cbf \o queue
<1>2. cb \in Seq(Event) /\ Len(cb) = Len(committed) + Len(batch)
  BY <1>1, ConcatProperties
<1>3. cbf \in Seq(Event) /\ Len(cbf) = Len(cb) + Len(buf)
  BY <1>1, <1>2, ConcatProperties
<1>4. cbfq \in Seq(Event) /\ Len(cbfq) = Len(cbf) + Len(queue)
  BY <1>1, <1>3, ConcatProperties
<1>5. Len(sent) = Len(cbfq) + Len(lost)
  BY <1>1, <1>4, ConcatProperties DEF Accounting
<1> HIDE DEF cb, cbf, cbfq
<1>6. /\ Len(buf) \in Nat /\ Len(queue) \in Nat /\ Len(lost) \in Nat
      /\ Len(committed) \in Nat /\ Len(batch) \in Nat
  BY <1>1, LenProperties
<1>7. QED  BY <1>2, <1>3, <1>4, <1>5, <1>6

LEMMA BatchBoundaryInit == Init => BatchBoundary
BY EmptyIsTyped DEF Init, BatchBoundary, Ended

LEMMA BatchBoundaryStep ==
  ASSUME TypeOK, Accounting, BatchBoundary, [Next]_vars
  PROVE  BatchBoundary'
<1> USE DEF Ended
<1>t. /\ queue \in Seq(Event) /\ buf \in Seq(Event) /\ batch \in Seq(Event)
      /\ committed \in Seq(Event) /\ sent \in Seq(Event) /\ applied \in Nat
      /\ worker \in Phase
  BY DEF TypeOK
<1>l. /\ Len(buf) \in Nat /\ Len(batch) \in Nat /\ Len(committed) \in Nat
      /\ Len(sent) \in Nat /\ Len(<<>>) = 0
      /\ Len(committed) + Len(batch) <= Len(sent)
  BY <1>t, LenProperties, SentCoversBatch
<1>0. ASSUME UNCHANGED <<worker, queue, buf, batch, sent, committed, applied>>
      PROVE  BatchBoundary'
  BY <1>0 DEF BatchBoundary
<1>1. ASSUME NEW p \in Producers,
             \/ CloneQueue(p) \/ DropQueue(p) \/ Refuse(p) \/ CancelSend(p)
             \/ \E ev \in Event : Enqueue(p, ev)
      PROVE  BatchBoundary'
  BY <1>0, <1>1 DEF CloneQueue, DropQueue, Refuse, CancelSend, Enqueue, flush
<1>2. CASE AttachEngine \/ Shutdown \/ DropHandle \/ TimerExpires \/ Terminated
           \/ UNCHANGED vars
  BY <1>0, <1>2 DEF AttachEngine, Shutdown, DropHandle, ReleaseHandle, TimerExpires,
                    Terminated, flush, vars
<1>3. CASE Accept
  <2>1. Len(sent') = Len(sent) + 1
    <3>1. Head(waiting).ev \in Event
      <4>1. waiting # <<>> /\ waiting \in Seq(Send)
        BY <1>3 DEF Accept, TypeOK
      <4>2. Head(waiting) \in Send
        BY <4>1, HeadTailProperties
      <4>3. QED  BY <4>2 DEF Send
    <3>2. QED  BY <1>t, <1>3, <3>1, AppendProperties DEF Accept
  <2>2. /\ worker \notin Ended
        /\ UNCHANGED <<worker, buf, batch, committed, applied>>
    BY <1>3 DEF Accept, flush
  <2>3. QED  BY <1>t, <1>l, <2>1, <2>2 DEF BatchBoundary
<1>4. CASE Start
  BY <1>4, <1>t DEF Start, BatchBoundary, flush
<1>5. ASSUME NEW events \in Seq(Event), NEW then, events # <<>>,
             Len(events) = 1 \/ Len(events) <= MaxBatch,
             worker = "select", BeginFlush(events, then),
             UNCHANGED <<sent, committed, applied>>
      PROVE  BatchBoundary'
  BY <1>5 DEF BeginFlush, BatchBoundary
<1>6. ASSUME NEW status \in Ended, NEW dropped, End(status, dropped),
             UNCHANGED <<sent, committed, applied>>
      PROVE  BatchBoundary'
  BY <1>6 DEF End, BatchBoundary
<1>7. CASE OnShutdown \/ OnClosed
  <2>1. worker = "select" /\ UNCHANGED <<sent, committed, applied>>
    BY <1>7 DEF OnShutdown, OnClosed
  <2>2. CASE buf # <<>> /\ BeginFlush(buf, "return")
    <3>1. Len(buf) <= MaxBatch
      BY <1>l, <2>1, <2>2, SettingsAssumption DEF BatchBoundary
    <3>2. QED  BY <1>t, <1>5, <2>1, <2>2, <3>1
  <2>3. CASE End("stopped", <<>>)
    BY <1>6, <2>1, <2>3
  <2>4. QED  BY <1>7, <2>2, <2>3 DEF OnShutdown, OnClosed
<1>8. CASE OnRecv
  <2>1. worker = "select" /\ queue # <<>> /\ UNCHANGED <<sent, committed, applied>>
    BY <1>8 DEF OnRecv
  <2>2. /\ Append(buf, Head(queue)) \in Seq(Event)
        /\ Append(buf, Head(queue)) # <<>>
        /\ Len(Append(buf, Head(queue))) = Len(buf) + 1
    BY <1>t, <2>1, HeadTailProperties, AppendProperties
  <2>3. Len(buf) = 0 \/ Len(buf) < MaxBatch
    BY <1>l, <2>1 DEF BatchBoundary
  <2>4. CASE /\ Len(Append(buf, Head(queue))) < MaxBatch
             /\ buf' = Append(buf, Head(queue)) /\ UNCHANGED <<worker, flush>>
    BY <1>l, <2>1, <2>2, <2>4 DEF BatchBoundary, flush
  <2>5. CASE BeginFlush(Append(buf, Head(queue)), "loop")
    <3>1. \/ Len(Append(buf, Head(queue))) = 1
          \/ Len(Append(buf, Head(queue))) <= MaxBatch
      BY <1>l, <2>2, <2>3, SettingsAssumption
    <3>2. QED  BY <1>5, <2>1, <2>2, <2>5, <3>1
  <2>6. QED  BY <1>8, <2>4, <2>5 DEF OnRecv
<1>9. CASE OnTimer
  <2>1. worker = "select" /\ UNCHANGED <<queue, sent, committed, applied>>
    BY <1>9 DEF OnTimer
  <2>2. CASE buf # <<>> /\ BeginFlush(buf, "loop")
    <3>1. Len(buf) <= MaxBatch
      BY <1>l, <2>1, <2>2, SettingsAssumption DEF BatchBoundary
    <3>2. QED  BY <1>t, <1>5, <2>1, <2>2, <3>1
  <2>3. CASE UNCHANGED <<worker, flush, buf>>
    BY <1>0, <2>1, <2>3 DEF flush
  <2>4. QED  BY <1>9, <2>2, <2>3 DEF OnTimer
<1>10. CASE ServerApplies
  <2>1. /\ worker = "writing" /\ worker' = "written"
        /\ applied' = Len(committed) + Len(batch)
        /\ UNCHANGED <<queue, buf, batch, sent, committed>>
    BY <1>10 DEF ServerApplies, flush
  <2>2. QED  BY <1>l, <2>1 DEF BatchBoundary
<1>11. CASE ReplyOk
  <2>1. /\ worker = "written" /\ UNCHANGED <<sent, applied>>
        /\ committed' = committed \o batch
    BY <1>11 DEF ReplyOk
  <2>2. Len(committed') = Len(committed) + Len(batch)
    BY <1>t, <2>1, ConcatProperties
  <2>3. CASE worker' = "select" /\ batch' = <<>> /\ UNCHANGED buf
    BY <1>l, <2>1, <2>2, <2>3 DEF BatchBoundary
  <2>4. CASE End("stopped", <<>>)
    BY <1>l, <2>1, <2>2, <2>4 DEF End, BatchBoundary
  <2>5. QED  BY <1>11, <2>3, <2>4 DEF ReplyOk
<1>12. CASE Retry \/ BackoffElapsed
  BY <1>12, <1>t DEF Retry, BackoffElapsed, BatchBoundary, flush
<1>13. CASE GiveUp \/ Abort
  BY <1>6, <1>13 DEF GiveUp, Abort
<1>14. QED
  BY <1>1, <1>2, <1>3, <1>4, <1>7, <1>8, <1>9, <1>10, <1>11, <1>12, <1>13 DEF Next

-----------------------------------------------------------------------------
(* What the store reflects. *)

(* The batch under way is the part of the log behind what was committed.   *)
LEMMA BatchInLog ==
  ASSUME TypeOK, Accounting, NEW k \in 1 .. Len(batch)
  PROVE  sent[Len(committed) + k] = batch[k]
<1>1. /\ queue \in Seq(Event) /\ buf \in Seq(Event) /\ batch \in Seq(Event)
      /\ committed \in Seq(Event) /\ lost \in Seq(Event)
  BY DEF TypeOK
<1> DEFINE n == Len(committed) + k
           cb == committed \o batch
           cbf == cb \o buf
           cbfq == cbf \o queue
<1>2. /\ Len(buf) \in Nat /\ Len(queue) \in Nat /\ Len(lost) \in Nat
      /\ Len(committed) \in Nat /\ Len(batch) \in Nat
  BY <1>1, LenProperties
<1>3. cb \in Seq(Event) /\ Len(cb) = Len(committed) + Len(batch) /\ cb[n] = batch[k]
  <2>1. n \in 1 .. Len(committed) + Len(batch) /\ ~(n <= Len(committed))
        /\ n - Len(committed) = k
    BY <1>2
  <2>2. QED  BY <1>1, <2>1, ConcatProperties
<1>4. n \in 1 .. Len(cb)
  BY <1>2, <1>3
<1> HIDE DEF cb
<1>5. cbf \in Seq(Event) /\ Len(cbf) = Len(cb) + Len(buf) /\ cbf[n] = cb[n]
  <2>1. n \in 1 .. Len(cb) + Len(buf) /\ n <= Len(cb)
    BY <1>2, <1>4
  <2>2. QED  BY <1>1, <1>3, <2>1, ConcatProperties
<1>6. n \in 1 .. Len(cbf)
  BY <1>2, <1>3, <1>4, <1>5
<1> HIDE DEF cbf
<1>7. cbfq \in Seq(Event) /\ Len(cbfq) = Len(cbf) + Len(queue) /\ cbfq[n] = cbf[n]
  <2>1. n \in 1 .. Len(cbf) + Len(queue) /\ n <= Len(cbf)
    BY <1>2, <1>6
  <2>2. QED  BY <1>1, <1>5, <2>1, ConcatProperties
<1>8. n \in 1 .. Len(cbfq) + Len(lost) /\ n <= Len(cbfq)
  BY <1>2, <1>5, <1>3, <1>6, <1>7
<1> HIDE DEF cbfq
<1>9. sent = cbfq \o lost
  BY DEF Accounting, cbfq, cbf, cb
<1>10. sent[n] = cbfq[n]
  BY <1>1, <1>7, <1>8, <1>9, ConcatProperties
<1>11. QED  BY <1>3, <1>5, <1>7, <1>10

(* What the updates of a batch do, in terms of its events.                 *)
LEMMA UpdatesOfBatch ==
  ASSUME NEW events \in Seq(Event)
  PROVE  /\ DOMAIN events = 1 .. Len(events)
         /\ \A i \in DOMAIN events : events[i].op = "Upsert" \/ events[i].op = "Delete"
         /\ Conflicting(BuildUpdates(events)) <=>
              \E i, j \in DOMAIN events : i # j /\ events[i].tuple = events[j].tuple
         /\ \A t : t \in Touched(BuildUpdates(events)) <=>
              \E i \in DOMAIN events : events[i].op = "Upsert" /\ events[i].tuple = t
         /\ \A t : t \in Deleted(BuildUpdates(events)) <=>
              \E i \in DOMAIN events : events[i].op = "Delete" /\ events[i].tuple = t
<1>1. DOMAIN events = 1 .. Len(events)
  BY LenProperties
<1>2. \A i \in DOMAIN events : events[i].op = "Upsert" \/ events[i].op = "Delete"
  <2>1. \A i \in DOMAIN events : events[i] \in Event
    BY <1>1, ElementOfSeq
  <2>2. QED  BY <2>1 DEF Event
<1> DEFINE updates == BuildUpdates(events)
<1>3. /\ DOMAIN updates = DOMAIN events
      /\ \A i \in DOMAIN events :
           /\ updates[i].relationship = events[i].tuple
           /\ events[i].op = "Upsert" => updates[i].operation = "TOUCH"
           /\ events[i].op = "Delete" => updates[i].operation = "DELETE"
  BY DEF BuildUpdates
<1> HIDE DEF updates
<1>4. Conflicting(updates) <=>
        \E i, j \in DOMAIN events : i # j /\ events[i].tuple = events[j].tuple
  BY <1>3 DEF Conflicting
<1>5. \A t : t \in Touched(updates) <=>
        \E i \in DOMAIN events : events[i].op = "Upsert" /\ events[i].tuple = t
  BY <1>2, <1>3 DEF Touched
<1>6. \A t : t \in Deleted(updates) <=>
        \E i \in DOMAIN events : events[i].op = "Delete" /\ events[i].tuple = t
  BY <1>2, <1>3 DEF Deleted
<1>7. QED  BY <1>1, <1>2, <1>4, <1>5, <1>6 DEF updates

LEMMA LastEventWinsInit == Init => LastEventWins
BY DEF Init, LastEventWins

(* The only step that is not obvious: a request that takes effect, for the *)
(* first time or again.  An event before the batch keeps its say unless the*)
(* batch names its tuple; the batch names every tuple once.                *)
LEMMA RequestKeepsLastEventWins ==
  ASSUME TypeOK, Accounting, BatchBoundary, LastEventWins, ServerApplies
  PROVE  LastEventWins'
<1> DEFINE c == Len(committed)
           b == Len(batch)
<1>1. /\ batch \in Seq(Event) /\ c \in Nat /\ b \in Nat
      /\ applied = c \/ applied = c + b
  BY LenProperties DEF TypeOK, BatchBoundary, ServerApplies
<1>2. \A k \in 1 .. b : sent[c + k] = batch[k]
  BY BatchInLog
<1>3. /\ applied' = c + b /\ sent' = sent
      /\ rels' = (rels \ Deleted(BuildUpdates(batch))) \cup Touched(BuildUpdates(batch))
      /\ ~Conflicting(BuildUpdates(batch))
  BY DEF ServerApplies, Commit, Rejected
<1>4. /\ DOMAIN batch = 1 .. b
      /\ \A i \in 1 .. b : batch[i].op = "Upsert" \/ batch[i].op = "Delete"
      /\ \A i, j \in 1 .. b : batch[i].tuple = batch[j].tuple => i = j
      /\ \A t : t \in Touched(BuildUpdates(batch)) <=>
           \E i \in 1 .. b : batch[i].op = "Upsert" /\ batch[i].tuple = t
      /\ \A t : t \in Deleted(BuildUpdates(batch)) <=>
           \E i \in 1 .. b : batch[i].op = "Delete" /\ batch[i].tuple = t
  BY <1>1, <1>3, UpdatesOfBatch
<1> HIDE DEF c, b
<1> SUFFICES ASSUME NEW i \in 1 .. (c + b),
                    \A j \in (i + 1) .. (c + b) : sent[j].tuple # sent[i].tuple
             PROVE  sent[i].tuple \in rels' <=> sent[i].op = "Upsert"
  BY <1>3 DEF LastEventWins
<1>5. CASE i <= c
  <2>1. \A k \in 1 .. b : batch[k].tuple # sent[i].tuple
    <3>1. \A k \in 1 .. b : c + k \in (i + 1) .. (c + b)
      BY <1>1, <1>5
    <3>2. QED  BY <1>2, <3>1
  <2>2. sent[i].tuple \in rels' <=> sent[i].tuple \in rels
    BY <1>3, <1>4, <2>1
  <2>3. /\ i \in 1 .. applied
        /\ \A j \in (i + 1) .. applied : j \in (i + 1) .. (c + b)
    BY <1>1, <1>5
  <2>4. QED  BY <2>2, <2>3 DEF LastEventWins
<1>6. CASE ~(i <= c)
  <2>1. PICK k \in 1 .. b : i = c + k
    <3>1. i - c \in 1 .. b /\ i = c + (i - c)
      BY <1>1, <1>6
    <3>2. QED  BY <3>1
  <2>2. sent[i] = batch[k]
    BY <1>2, <2>1
  <2>3. CASE batch[k].op = "Upsert"
    BY <1>3, <1>4, <2>2, <2>3
  <2>4. CASE batch[k].op = "Delete"
    <3>1. batch[k].tuple \in Deleted(BuildUpdates(batch))
      BY <1>4, <2>4
    <3>2. batch[k].tuple \notin Touched(BuildUpdates(batch))
      <4>1. batch[k].op # "Upsert"
        BY <2>4
      <4>2. QED  BY <1>4, <4>1
    <3>3. QED  BY <1>3, <2>2, <2>4, <3>1, <3>2
  <2>5. QED  BY <1>4, <2>3, <2>4
<1>7. QED  BY <1>5, <1>6

LEMMA LastEventWinsStep ==
  ASSUME TypeOK, Accounting, BatchBoundary, LastEventWins, [Next]_vars
  PROVE  LastEventWins'
<1>0. ASSUME UNCHANGED <<sent, rels, applied>>
      PROVE  LastEventWins'
  BY <1>0 DEF LastEventWins
<1>1. ASSUME NEW p \in Producers,
             \/ CloneQueue(p) \/ DropQueue(p) \/ Refuse(p) \/ CancelSend(p)
             \/ \E ev \in Event : Enqueue(p, ev)
      PROVE  LastEventWins'
  BY <1>0, <1>1 DEF CloneQueue, DropQueue, Refuse, CancelSend, Enqueue
<1>2. CASE AttachEngine \/ Shutdown \/ DropHandle \/ Start \/ TimerExpires
           \/ Terminated \/ UNCHANGED vars
  BY <1>0, <1>2 DEF AttachEngine, Shutdown, DropHandle, ReleaseHandle, Start,
                    TimerExpires, Terminated, vars
<1>3. CASE OnShutdown \/ OnClosed \/ OnRecv \/ OnTimer
  BY <1>0, <1>3 DEF OnShutdown, OnClosed, OnRecv, OnTimer
<1>4. CASE ReplyOk \/ Retry \/ GiveUp \/ BackoffElapsed \/ Abort
  BY <1>0, <1>4 DEF ReplyOk, Retry, GiveUp, BackoffElapsed, Abort
<1>5. CASE Accept
  <2>1. Head(waiting).ev \in Event
    <3>1. waiting # <<>> /\ waiting \in Seq(Send)
      BY <1>5 DEF Accept, TypeOK
    <3>2. Head(waiting) \in Send
      BY <3>1, HeadTailProperties
    <3>3. QED  BY <3>2 DEF Send
  <2>2. sent \in Seq(Event) /\ Len(sent) \in Nat /\ applied \in Nat
        /\ applied <= Len(sent)
    BY LenProperties DEF TypeOK, BatchBoundary
  <2>3. \A i \in 1 .. Len(sent) : sent'[i] = sent[i]
    BY <1>5, <2>1, <2>2, AppendProperties DEF Accept
  <2>4. \A i \in 1 .. applied : sent'[i] = sent[i]
    BY <2>2, <2>3
  <2>5. applied' = applied /\ rels' = rels
    BY <1>5 DEF Accept
  <2>6. \A i \in 1 .. applied : \A j \in (i + 1) .. applied : j \in 1 .. applied
    BY <2>2
  <2>7. QED  BY <2>4, <2>5, <2>6 DEF LastEventWins
<1>6. CASE ServerApplies
  BY <1>6, RequestKeepsLastEventWins
<1>7. QED
  BY <1>1, <1>2, <1>3, <1>4, <1>5, <1>6 DEF Next

-----------------------------------------------------------------------------
(* Failing closed. *)

(* fatal is decided in the step that gives up, by whoever watches then.    *)
Watched == worker = "failed" /\ (attached \/ handle = "held") => fatal

LEMMA WatchedStep ==
  ASSUME TypeOK, FailClosedSignal, Watched, [Next]_vars
  PROVE  FailClosedSignal' /\ Watched'
<1> USE DEF FailClosedSignal, Watched, Ended
<1>1. ASSUME UNCHANGED <<handle, attached, worker, fatal>>
      PROVE  FailClosedSignal' /\ Watched'
  BY <1>1
<1>2. ASSUME NEW p \in Producers,
             \/ CloneQueue(p) \/ DropQueue(p) \/ Refuse(p) \/ CancelSend(p)
             \/ \E ev \in Event : Enqueue(p, ev)
      PROVE  FailClosedSignal' /\ Watched'
  BY <1>1, <1>2 DEF CloneQueue, DropQueue, Refuse, CancelSend, Enqueue, clients
<1>3. CASE Accept \/ TimerExpires \/ Terminated \/ UNCHANGED vars
  BY <1>1, <1>3 DEF Accept, TimerExpires, Terminated, clients, vars
<1>4. CASE AttachEngine
  BY <1>4 DEF AttachEngine
<1>5. CASE Shutdown \/ DropHandle
  BY <1>5 DEF Shutdown, DropHandle, ReleaseHandle
<1>6. ASSUME worker \notin Ended, worker' # "failed", UNCHANGED <<clients, fatal>>
      PROVE  FailClosedSignal' /\ Watched'
  BY <1>6 DEF clients
<1>7. CASE Start \/ OnShutdown \/ OnClosed \/ OnRecv \/ OnTimer
  BY <1>1, <1>6, <1>7
     DEF Start, OnShutdown, OnClosed, OnRecv, OnTimer, BeginFlush, End, clients
<1>8. CASE ServerApplies \/ ReplyOk \/ Retry \/ BackoffElapsed \/ Abort
  BY <1>6, <1>8 DEF ServerApplies, ReplyOk, Retry, BackoffElapsed, Abort, End, clients
<1>9. CASE GiveUp
  BY <1>9 DEF GiveUp, End, clients
<1>10. QED
  BY <1>2, <1>3, <1>4, <1>5, <1>7, <1>8, <1>9 DEF Next

-----------------------------------------------------------------------------
(* The inductive invariant: BatchBoundary says where the worker holds what,*)
(* without which moving events around would not preserve Accounting, and   *)
(* where the store stands in the log, without which a repeated request     *)
(* would not preserve LastEventWins.                                       *)

(* Flow is what it says of the pipeline alone, whoever else writes to      *)
(* SpiceDB.                                                                *)

Flow == TypeOK /\ Accounting /\ BatchBoundary /\ FailClosedSignal /\ Watched

IInv == Flow /\ LastEventWins

LEMMA FlowStep == Flow /\ [Next]_vars => Flow'
BY TypeStep, AccountingStep, BatchBoundaryStep, WatchedStep DEF Flow

LEMMA IInvInit == Init => IInv
<1>1. Init => FailClosedSignal /\ Watched
  BY DEF Init, FailClosedSignal, Watched
<1>2. QED
  BY <1>1, TypeInit, AccountingInit, BatchBoundaryInit, LastEventWinsInit DEF IInv, Flow

LEMMA IInvStep == IInv /\ [Next]_vars => IInv'
BY FlowStep, LastEventWinsStep DEF IInv, Flow

LEMMA Invariance == Spec => []IInv
BY IInvInit, IInvStep, PTL DEF Spec

(* No event the channel accepted is lost, duplicated or reordered on its   *)
(* way to SpiceDB while the worker runs, whatever fails and is retried.    *)
THEOREM EventsAccountedFor == Spec => []Accounting
<1>1. IInv => Accounting
  BY DEF IInv, Flow
<1>2. QED  BY <1>1, Invariance, PTL

(* A request never exceeds max_batch, and what SpiceDB reflects always ends*)
(* at a batch boundary.                                                    *)
THEOREM BatchesAreAtomic == Spec => []BatchBoundary
<1>1. IInv => BatchBoundary
  BY DEF IInv, Flow
<1>2. QED  BY <1>1, Invariance, PTL

(* An engine that watches the pipeline learns that it gave up, however the *)
(* handle was released before that, and never hears a false alarm.         *)
THEOREM FailsClosed == Spec => []FailClosedSignal
<1>1. IInv => FailClosedSignal
  BY DEF IInv, Flow
<1>2. QED  BY <1>1, Invariance, PTL

(* Of the events SpiceDB reflects, the last one about a relationship decides*)
(* whether it exists: no retry of a request resurrects or drops anything.  *)
THEOREM StoreFollowsLog == Spec => []LastEventWins
<1>1. IInv => LastEventWins
  BY DEF IInv
<1>2. QED  BY <1>1, Invariance, PTL

-----------------------------------------------------------------------------
(* Stopping. *)

LEMMA StopStep ==
  ASSUME Flow, [Next]_vars, worker # "stopped", worker' = "stopped"
  PROVE  sent = committed' \o queue /\ applied' = Len(committed')
<1>t. /\ queue \in Seq(Event) /\ batch \in Seq(Event) /\ committed \in Seq(Event)
  BY DEF Flow, TypeOK
<1>1. \/ (OnShutdown \/ OnClosed) /\ buf = <<>> /\ worker = "select"
      \/ ReplyOk
  BY DEF Next, vars, CloneQueue, DropQueue, Refuse, CancelSend, Enqueue,
         AttachEngine, Shutdown, DropHandle, ReleaseHandle, Accept, Start,
         TimerExpires, OnShutdown, OnClosed, OnRecv, OnTimer, BeginFlush, End,
         ServerApplies, ReplyOk, Retry, GiveUp, BackoffElapsed, Abort, Terminated,
         flush
<1>2. \A s \in Seq(Event) : s \o <<>> = s
  BY ConcatEmptySeq
<1>3. CASE (OnShutdown \/ OnClosed) /\ buf = <<>> /\ worker = "select"
  <2>1. UNCHANGED <<committed, applied>>
    BY <1>3 DEF OnShutdown, OnClosed
  <2>2. batch = <<>> /\ lost = <<>> /\ applied = Len(committed)
    BY <1>3 DEF Flow, BatchBoundary, Accounting, Ended
  <2>3. sent = committed \o <<>> \o <<>> \o queue \o <<>>
    BY <1>3, <2>2 DEF Flow, Accounting
  <2>4. committed \o queue \in Seq(Event)
    BY <1>t, ConcatProperties
  <2>5. QED  BY <1>t, <1>2, <2>1, <2>2, <2>3, <2>4
<1>4. CASE ReplyOk
  <2>1. /\ worker = "written" /\ UNCHANGED applied
        /\ committed' = committed \o batch
    BY <1>4 DEF ReplyOk
  <2>2. /\ buf = <<>> /\ lost = <<>>
        /\ applied = Len(committed) + Len(batch)
    BY <2>1 DEF Flow, BatchBoundary, Accounting, Ended
  <2>3. sent = committed \o batch \o <<>> \o queue \o <<>>
    BY <2>2 DEF Flow, Accounting
  <2>4. /\ committed \o batch \in Seq(Event)
        /\ Len(committed \o batch) = Len(committed) + Len(batch)
    BY <1>t, ConcatProperties
  <2>5. (committed \o batch) \o queue \in Seq(Event)
    BY <1>t, <2>4, ConcatProperties
  <2>6. QED  BY <1>2, <2>1, <2>2, <2>3, <2>4, <2>5
<1>5. QED  BY <1>1, <1>3, <1>4

(* run() returns Ok only when SpiceDB has acknowledged everything that was *)
(* received; only what is still in the channel is dropped.                 *)
THEOREM StopIsClean == Spec => StopFlushesBuffer
<1>1. IInv /\ [Next]_vars =>
        [worker # "stopped" /\ worker' = "stopped"
           => /\ sent = committed' \o queue
              /\ applied' = Len(committed')]_vars
  BY StopStep DEF IInv
<1>2. QED  BY <1>1, Invariance, PTL DEF Spec, StopFlushesBuffer

-----------------------------------------------------------------------------
(* Refinement of EventLog. *)

(* A batch that has already taken effect changes nothing when it is sent   *)
(* again: every relationship it names is as the batch left it.             *)
LEMMA RepeatedRequestIsStutter ==
  ASSUME TypeOK, Accounting, LastEventWins, applied = Len(committed) + Len(batch),
         ~Conflicting(BuildUpdates(batch))
  PROVE  Commit(rels, BuildUpdates(batch)) = rels
<1> DEFINE c == Len(committed)
           b == Len(batch)
<1>1. batch \in Seq(Event) /\ c \in Nat /\ b \in Nat
  BY LenProperties DEF TypeOK
<1>2. \A k \in 1 .. b : sent[c + k] = batch[k]
  BY BatchInLog
<1>3. /\ DOMAIN batch = 1 .. b
      /\ \A i, j \in 1 .. b : batch[i].tuple = batch[j].tuple => i = j
      /\ \A t : t \in Touched(BuildUpdates(batch)) <=>
           \E i \in 1 .. b : batch[i].op = "Upsert" /\ batch[i].tuple = t
      /\ \A t : t \in Deleted(BuildUpdates(batch)) <=>
           \E i \in 1 .. b : batch[i].op = "Delete" /\ batch[i].tuple = t
  BY <1>1, UpdatesOfBatch
<1>4. applied = c + b
  OBVIOUS
<1> HIDE DEF c, b
<1>5. ASSUME NEW k \in 1 .. b
      PROVE  batch[k].tuple \in rels <=> batch[k].op = "Upsert"
  <2>1. c + k \in 1 .. applied
    BY <1>1, <1>4
  <2>2. ASSUME NEW j \in (c + k + 1) .. applied
        PROVE  sent[j].tuple # sent[c + k].tuple
    <3>1. j - c \in 1 .. b /\ j = c + (j - c) /\ j - c # k
      BY <1>1, <1>4, <2>2
    <3>2. QED  BY <1>2, <1>3, <3>1
  <2>3. sent[c + k].tuple \in rels <=> sent[c + k].op = "Upsert"
    BY <2>1, <2>2 DEF LastEventWins
  <2>4. QED  BY <1>2, <2>3
<1>6. Touched(BuildUpdates(batch)) \subseteq rels
  BY <1>3, <1>5
<1>7. \A t \in Deleted(BuildUpdates(batch)) : t \notin rels
  <2>1. "Delete" # "Upsert"
    OBVIOUS
  <2>2. QED  BY <1>3, <1>5, <2>1
<1>8. QED  BY <1>6, <1>7 DEF Commit

(* The batch under way is the slice of the log that Apply writes.          *)
LEMMA BatchIsSlice ==
  ASSUME TypeOK, Accounting, batch # <<>>
  PROVE  /\ SubSeq(sent, Len(committed) + 1, Len(committed) + Len(batch)) = batch
         /\ Len(committed) + Len(batch) \in (Len(committed) + 1) .. Len(sent)
<1> DEFINE c == Len(committed)
           b == Len(batch)
           slice == SubSeq(sent, c + 1, c + b)
<1>1. /\ batch \in Seq(Event) /\ sent \in Seq(Event)
      /\ c \in Nat /\ b \in Nat /\ b # 0 /\ Len(sent) \in Nat
  BY LenProperties, EmptySeq DEF TypeOK
<1>2. c + b <= Len(sent)
  BY SentCoversBatch
<1>3. \A k \in 1 .. b : sent[c + k] = batch[k]
  BY BatchInLog
<1>4. \A i \in 1 .. Len(sent) : sent[i] \in Event
  BY <1>1, ElementOfSeq
<1> HIDE DEF c, b
<1>5. /\ slice \in Seq(Event) /\ Len(slice) = b
      /\ \A i \in 1 .. b : slice[i] = sent[c + i]
  <2>1. c + 1 \in Int /\ c + b \in Int /\ \A i \in (c + 1) .. (c + b) : sent[i] \in Event
    BY <1>1, <1>2, <1>4
  <2>2. /\ slice \in Seq(Event)
        /\ Len(slice) = IF c + 1 <= c + b THEN (c + b) - (c + 1) + 1 ELSE 0
        /\ \A i \in 1 .. (c + b) - (c + 1) + 1 : slice[i] = sent[c + 1 + i - 1]
    BY <2>1, SubSeqProperties
  <2>3. (c + b) - (c + 1) + 1 = b /\ \A i \in 1 .. b : c + 1 + i - 1 = c + i
    BY <1>1
  <2>4. QED  BY <1>1, <2>2, <2>3
<1> HIDE DEF slice
<1>6. slice = batch
  <2>1. b = Len(batch)
    BY DEF b
  <2>2. \A i \in 1 .. Len(slice) : slice[i] = batch[i]
    BY <1>3, <1>5
  <2>3. QED  BY <1>1, <1>5, <2>1, <2>2, SeqEqual
<1>7. c + b \in (c + 1) .. Len(sent)
  BY <1>1, <1>2
<1>8. QED  BY <1>6, <1>7 DEF slice, c, b

LEMMA ServerStep ==
  ASSUME IInv, ServerApplies
  PROVE  Log!Apply \/ UNCHANGED <<sent, applied, rels, worker \in Ended>>
<1> DEFINE c == Len(committed)
           n == c + Len(batch)
<1>1. /\ worker = "writing" /\ worker' = "written" /\ sent' = sent
      /\ ~Rejected(rels, BuildUpdates(batch)) /\ ~Conflicting(BuildUpdates(batch))
      /\ rels' = Commit(rels, BuildUpdates(batch)) /\ applied' = n
  BY DEF ServerApplies, Rejected
<1>2. TypeOK /\ Accounting /\ LastEventWins /\ batch # <<>>
      /\ (applied = c \/ applied = n)
  BY <1>1 DEF IInv, Flow, BatchBoundary
<1>3. CASE applied = n
  <2>1. rels' = rels
    BY <1>1, <1>2, <1>3, RepeatedRequestIsStutter
  <2>2. QED  BY <1>1, <1>3, <2>1 DEF Ended
<1>4. CASE applied = c
  <2>1. SubSeq(sent, applied + 1, n) = batch /\ n \in (applied + 1) .. Len(sent)
    BY <1>2, <1>4, BatchIsSlice
  <2> HIDE DEF n, c
  <2>2. ~Log!Rejected(rels, Log!BuildUpdates(batch))
    BY <1>1 DEF Rejected, Conflicting, BuildUpdates, Log!Rejected, Log!Conflicting,
                Log!BuildUpdates
  <2>3. Log!Commit(rels, Log!BuildUpdates(batch)) = Commit(rels, BuildUpdates(batch))
    BY DEF Commit, Touched, Deleted, BuildUpdates, Log!Commit, Log!Touched, Log!Deleted,
           Log!BuildUpdates
  <2> DEFINE updates == Log!BuildUpdates(SubSeq(sent, applied + 1, n))
  <2>4. updates = Log!BuildUpdates(batch)
    BY <2>1
  <2> HIDE DEF updates
  <2>5. /\ ~Log!Rejected(rels, updates) /\ applied' = n
        /\ rels' = Log!Commit(rels, updates)
    BY <1>1, <2>2, <2>3, <2>4
  <2>6. worker \notin Ended /\ UNCHANGED <<sent, worker \in Ended>>
    BY <1>1 DEF Ended
  <2>7. QED  BY <2>1, <2>5, <2>6 DEF Log!Apply, updates
<1>5. QED  BY <1>2, <1>3, <1>4

LEMMA LogStep ==
  ASSUME IInv, [Next]_vars
  PROVE  [Log!Next]_(Log!vars)
<1>0. ASSUME UNCHANGED <<sent, applied, rels, worker>>
      PROVE  UNCHANGED Log!vars
  BY <1>0 DEF Log!vars
<1>1. ASSUME NEW p \in Producers,
             \/ CloneQueue(p) \/ DropQueue(p) \/ Refuse(p) \/ CancelSend(p)
             \/ \E ev \in Event : Enqueue(p, ev)
      PROVE  UNCHANGED Log!vars
  BY <1>0, <1>1 DEF CloneQueue, DropQueue, Refuse, CancelSend, Enqueue
<1>2. CASE AttachEngine \/ Shutdown \/ DropHandle \/ TimerExpires
           \/ Terminated \/ UNCHANGED vars
  BY <1>0, <1>2 DEF AttachEngine, Shutdown, DropHandle, ReleaseHandle, TimerExpires,
                    Terminated, vars
<1>3. ASSUME UNCHANGED <<sent, applied, rels>>, worker \notin Ended
      PROVE  [Log!Next]_(Log!vars)
  <2>1. CASE worker' \in Ended
    BY <1>3, <2>1 DEF Log!Next, Log!Close
  <2>2. CASE worker' \notin Ended
    BY <1>3, <2>2 DEF Log!vars
  <2>3. QED  BY <2>1, <2>2
<1>4. CASE Start \/ OnShutdown \/ OnClosed \/ OnRecv \/ OnTimer \/ ReplyOk \/ Retry
           \/ GiveUp \/ BackoffElapsed \/ Abort
  BY <1>3, <1>4 DEF Start, OnShutdown, OnClosed, OnRecv, OnTimer, ReplyOk, Retry,
                    GiveUp, BackoffElapsed, Abort, Ended
<1>5. CASE Accept
  <2>1. Head(waiting).ev \in Log!Event
    <3>1. waiting # <<>> /\ waiting \in Seq(Send)
      BY <1>5 DEF Accept, IInv, Flow, TypeOK
    <3>2. Head(waiting) \in Send
      BY <3>1, HeadTailProperties
    <3>3. QED  BY <3>2 DEF Send, Event, Log!Event
  <2>2. /\ worker \notin Ended /\ UNCHANGED <<worker, applied, rels>>
        /\ sent' = Append(sent, Head(waiting).ev)
    BY <1>5 DEF Accept
  <2>3. Log!Accept
    BY <2>1, <2>2 DEF Log!Accept
  <2>4. QED  BY <2>3 DEF Log!Next
<1>6. CASE ServerApplies
  BY <1>6, ServerStep DEF Log!Next, Log!vars
<1>7. QED
  BY <1>1, <1>2, <1>4, <1>5, <1>6 DEF Next

(* The pipeline, with its channels, batches, retries and crashes, behaves  *)
(* like a log of which ever longer prefixes take effect, request by request.*)
THEOREM PipelineIsEventLog == Spec => ImplementsEventLog
<1>1. Init => Log!Init
  BY DEF Init, Log!Init, Ended
<1>2. IInv /\ [Next]_vars => [Log!Next]_(Log!vars)
  BY LogStep
<1>3. QED  BY <1>1, <1>2, Invariance, PTL DEF Spec, ImplementsEventLog, Log!Spec

=============================================================================
