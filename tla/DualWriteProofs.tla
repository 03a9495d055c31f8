---------------------------- MODULE DualWriteProofs ----------------------------
(***************************************************************************)
(* Theorems about DualWrite for every number of tasks, producers and       *)
(* writes, and all settings of the pipeline: what either path has been     *)
(* acknowledged stays as it was written.                                   *)
(***************************************************************************)
EXTENDS DualWrite, ReplicationProofs

-----------------------------------------------------------------------------
(* Which tuples a sequence of events names. *)

LEMMA NamesAppend ==
  ASSUME NEW s \in Seq(Event), NEW e \in Event, NEW x, Names(Append(s, e), x)
  PROVE  Names(s, x) \/ e.tuple = x
<1>1. /\ Append(s, e) \in Seq(Event) /\ Len(Append(s, e)) = Len(s) + 1 /\ Len(s) \in Nat
      /\ \A i \in 1 .. Len(s) : Append(s, e)[i] = s[i]
      /\ Append(s, e)[Len(s) + 1] = e
  BY AppendProperties, LenProperties
<1>2. DOMAIN s = 1 .. Len(s) /\ DOMAIN Append(s, e) = 1 .. Len(s) + 1
  BY <1>1, LenProperties
<1>3. PICK i \in 1 .. Len(s) + 1 : Append(s, e)[i].tuple = x
  BY <1>2 DEF Names
<1>4. CASE i = Len(s) + 1
  BY <1>1, <1>3, <1>4
<1>5. CASE i # Len(s) + 1
  BY <1>1, <1>2, <1>3, <1>5 DEF Names
<1>6. QED  BY <1>4, <1>5

LEMMA NamesHeadTail ==
  ASSUME NEW s \in Seq(Event), s # <<>>, NEW x
  PROVE  Head(s).tuple = x \/ Names(Tail(s), x) => Names(s, x)
<1>1. /\ Tail(s) \in Seq(Event) /\ Len(Tail(s)) = Len(s) - 1 /\ Len(s) \in Nat
      /\ Len(s) # 0 /\ Head(s) = s[1]
      /\ \A i \in 1 .. Len(Tail(s)) : Tail(s)[i] = s[i + 1]
  BY HeadTailProperties, LenProperties, EmptySeq
<1>2. DOMAIN s = 1 .. Len(s) /\ DOMAIN Tail(s) = 1 .. Len(s) - 1
  BY <1>1, LenProperties
<1>3. CASE Head(s).tuple = x
  BY <1>1, <1>2, <1>3 DEF Names
<1>4. ASSUME Names(Tail(s), x) PROVE Names(s, x)
  <2>1. PICK i \in 1 .. Len(s) - 1 : Tail(s)[i].tuple = x
    BY <1>2, <1>4 DEF Names
  <2>2. i + 1 \in 1 .. Len(s) /\ s[i + 1].tuple = x
    BY <1>1, <2>1
  <2>3. QED  BY <1>2, <2>2 DEF Names
<1>5. QED  BY <1>3, <1>4

LEMMA NamesNothing == \A x : ~Names(<<>>, x)
BY DEF Names

(* Who is in line to send an event of x. *)
Sending(x) == \E i \in DOMAIN waiting : waiting[i].ev.tuple = x

LEMMA PendingParts ==
  \A x : Pending(x) <=> Sending(x) \/ Names(queue, x) \/ Names(buf, x) \/ Names(batch, x)
BY DEF Pending, Sending

(* Those who leave the line name nothing new. *)
LEMMA LeaveNamesLess ==
  ASSUME waiting \in Seq(Send), NEW p, Leave(p), NEW x, Sending(x)'
  PROVE  Sending(x)
<1>1. PICK i \in DOMAIN waiting :
        waiting' = SubSeq(waiting, 1, i - 1) \o SubSeq(waiting, i + 1, Len(waiting))
  BY DEF Leave
<1>2. DOMAIN waiting = 1 .. Len(waiting) /\ Len(waiting) \in Nat
      /\ \A j \in 1 .. Len(waiting) : waiting[j] \in Send
  BY LenProperties, ElementOfSeq
<1> DEFINE a == SubSeq(waiting, 1, i - 1)
           b == SubSeq(waiting, i + 1, Len(waiting))
<1>3. /\ a \in Seq(Send) /\ Len(a) = i - 1
      /\ \A j \in 1 .. Len(a) : a[j] = waiting[j] /\ j \in 1 .. Len(waiting)
  <2>1. 1 \in Int /\ i - 1 \in Int /\ i \in 1 .. Len(waiting)
    BY <1>2
  <2>2. \A j \in 1 .. i - 1 : waiting[j] \in Send
    BY <1>2
  <2>3. a \in Seq(Send) /\ Len(a) = (IF 1 <= i - 1 THEN i - 1 - 1 + 1 ELSE 0)
        /\ \A j \in 1 .. i - 1 - 1 + 1 : a[j] = waiting[1 + j - 1]
    BY <2>1, <2>2, SubSeqProperties
  <2>4. QED  BY <1>2, <2>1, <2>3
<1>4. /\ b \in Seq(Send) /\ Len(b) \in Nat
      /\ \A j \in 1 .. Len(b) : b[j] = waiting[i + j] /\ i + j \in 1 .. Len(waiting)
  <2>1. i + 1 \in Int /\ Len(waiting) \in Int /\ i \in 1 .. Len(waiting)
    BY <1>2
  <2>2. \A j \in i + 1 .. Len(waiting) : waiting[j] \in Send
    BY <1>2
  <2>3. b \in Seq(Send)
        /\ Len(b) = (IF i + 1 <= Len(waiting) THEN Len(waiting) - (i + 1) + 1 ELSE 0)
        /\ \A j \in 1 .. Len(waiting) - (i + 1) + 1 : b[j] = waiting[i + 1 + j - 1]
    BY <2>1, <2>2, SubSeqProperties
  <2>4. QED  BY <1>2, <2>1, <2>3
<1> HIDE DEF a, b
<1>5. /\ waiting' = a \o b
      /\ DOMAIN waiting' = 1 .. Len(a) + Len(b)
      /\ \A j \in 1 .. Len(a) + Len(b) :
           waiting'[j] = IF j <= Len(a) THEN a[j] ELSE b[j - Len(a)]
  <2>1. waiting' = a \o b
    BY <1>1 DEF a, b
  <2>2. /\ a \o b \in Seq(Send) /\ Len(a \o b) = Len(a) + Len(b)
        /\ \A j \in 1 .. Len(a) + Len(b) :
             (a \o b)[j] = IF j <= Len(a) THEN a[j] ELSE b[j - Len(a)]
    BY <1>3, <1>4, ConcatProperties
  <2>3. DOMAIN (a \o b) = 1 .. Len(a) + Len(b)
    BY <2>2, LenProperties
  <2>4. QED  BY <2>1, <2>2, <2>3
<1>6. PICK j \in 1 .. Len(a) + Len(b) : waiting'[j].ev.tuple = x
  BY <1>5 DEF Sending
<1>7. Len(a) \in Nat
  BY <1>3, LenProperties
<1>8. CASE j <= Len(a)
  <2>1. j \in 1 .. Len(a)
    BY <1>4, <1>7, <1>8
  <2>2. waiting'[j] = waiting[j] /\ j \in DOMAIN waiting
    BY <1>2, <1>3, <1>5, <1>8, <2>1
  <2>3. QED  BY <1>6, <2>2 DEF Sending
<1>9. CASE ~(j <= Len(a))
  <2>1. j - Len(a) \in 1 .. Len(b)
    BY <1>4, <1>7, <1>9
  <2>2. QED  BY <1>2, <1>4, <1>5, <1>6, <1>9, <2>1 DEF Sending
<1>10. QED  BY <1>8, <1>9

(* Nothing gets on its way through the pipeline without entering it. *)
LEMMA PendingStep ==
  ASSUME Shapes, [Next]_vars, NEW x, Pending(x)'
  PROVE  Pending(x) \/ Entered(x)
<1> USE PendingParts, NamesNothing
<1>1. (Sending(x) \/ Names(queue, x) \/ Names(buf, x) \/ Names(batch, x))'
  <2>1. Pending(x)' <=> (Sending(x) \/ Names(queue, x) \/ Names(buf, x) \/ Names(batch, x))'
    BY DEF Pending, Sending
  <2>2. QED  BY <2>1
<1>2. /\ waiting \in Seq(Send) /\ queue \in Seq(Event) /\ buf \in Seq(Event)
      /\ batch \in Seq(Event)
  BY DEF Shapes
<1>3. CASE UNCHANGED <<waiting, queue, buf, batch>>
  BY <1>1, <1>3 DEF Sending
<1>4. ASSUME NEW p \in Producers, Refuse(p) \/ CancelSend(p)
      PROVE  Pending(x)
  <2>1. Sending(x)' => Sending(x)
    BY <1>2, <1>4, LeaveNamesLess DEF Refuse, CancelSend
  <2>2. UNCHANGED <<queue, buf, batch>>
    BY <1>4 DEF Refuse, CancelSend, flush
  <2>3. QED  BY <1>1, <2>1, <2>2
<1>5. ASSUME NEW p \in Producers, NEW ev \in Event, Enqueue(p, ev)
      PROVE  Pending(x) \/ Entered(x)
  <2> DEFINE s == [from |-> p, ev |-> ev]
  <2>1. s \in Send /\ waiting' = Append(waiting, s) /\ UNCHANGED <<queue, buf, batch>>
    BY <1>5 DEF Enqueue, Send, flush
  <2>2. /\ Len(waiting') = Len(waiting) + 1 /\ Len(waiting) \in Nat
        /\ waiting' \in Seq(Send)
        /\ \A i \in 1 .. Len(waiting) : waiting'[i] = waiting[i]
        /\ waiting'[Len(waiting')] = s
    BY <1>2, <2>1, AppendProperties, LenProperties
  <2>3. DOMAIN waiting = 1 .. Len(waiting) /\ DOMAIN waiting' = 1 .. Len(waiting) + 1
    BY <1>2, <2>2, LenProperties
  <2> HIDE DEF s
  <2>4. ASSUME Sending(x)' PROVE Sending(x) \/ Entered(x)
    <3>1. PICK i \in 1 .. Len(waiting) + 1 : waiting'[i].ev.tuple = x
      BY <2>3, <2>4 DEF Sending
    <3>2. CASE i = Len(waiting) + 1
      BY <2>2, <3>1, <3>2 DEF Entered
    <3>3. CASE i # Len(waiting) + 1
      BY <2>2, <2>3, <3>1, <3>3 DEF Sending
    <3>4. QED  BY <3>2, <3>3
  <2>5. QED  BY <1>1, <2>1, <2>4
<1>6. ASSUME Accept PROVE Pending(x)
  <2>1. waiting # <<>> /\ waiting' = Tail(waiting) /\ queue' = Append(queue, Head(waiting).ev)
        /\ UNCHANGED <<buf, batch>>
    BY <1>6 DEF Accept, flush
  <2>2. /\ Tail(waiting) \in Seq(Send) /\ Len(Tail(waiting)) = Len(waiting) - 1
        /\ Len(waiting) \in Nat /\ Len(waiting) # 0 /\ Head(waiting) = waiting[1]
        /\ \A i \in 1 .. Len(Tail(waiting)) : Tail(waiting)[i] = waiting[i + 1]
        /\ Head(waiting) \in Send
    BY <1>2, <2>1, HeadTailProperties, LenProperties, EmptySeq
  <2>3. DOMAIN waiting = 1 .. Len(waiting) /\ DOMAIN waiting' = 1 .. Len(waiting) - 1
    BY <1>2, <2>1, <2>2, LenProperties
  <2>4. Head(waiting).ev \in Event
    BY <2>2 DEF Send
  <2>5. Sending(x)' => Sending(x)
    BY <2>1, <2>2, <2>3 DEF Sending
  <2>6. Names(queue, x)' => Names(queue, x) \/ Sending(x)
    <3>1. Names(queue', x) => Names(queue, x) \/ Head(waiting).ev.tuple = x
      BY <1>2, <2>1, <2>4, NamesAppend
    <3>2. Head(waiting).ev.tuple = x => Sending(x)
      BY <2>2, <2>3 DEF Sending
    <3>3. QED  BY <3>1, <3>2 DEF Names
  <2>7. QED  BY <1>1, <2>1, <2>5, <2>6
<1>7. ASSUME OnRecv PROVE Pending(x)
  <2>1. /\ queue # <<>> /\ queue' = Tail(queue) /\ waiting' = waiting
        /\ \/ buf' = Append(buf, Head(queue)) /\ batch' = batch
           \/ buf' = <<>> /\ batch' = Append(buf, Head(queue))
    BY <1>7 DEF OnRecv, BeginFlush, flush
  <2>2. Head(queue) \in Event
    BY <1>2, <2>1, HeadTailProperties
  <2>3. Names(Tail(queue), x) \/ Head(queue).tuple = x => Names(queue, x)
    BY <1>2, <2>1, NamesHeadTail
  <2>4. Names(Append(buf, Head(queue)), x) => Names(buf, x) \/ Head(queue).tuple = x
    BY <1>2, <2>2, NamesAppend
  <2>5. Sending(x)' => Sending(x)
    BY <2>1 DEF Sending
  <2>6. QED  BY <1>1, <2>1, <2>3, <2>4, <2>5
<1>8. CASE /\ waiting' = waiting
           /\ queue' = queue \/ queue' = <<>>
           /\ buf' = buf \/ buf' = <<>>
           /\ batch' \in {batch, buf, <<>>}
  <2>1. Sending(x)' => Sending(x)
    BY <1>8 DEF Sending
  <2>2. QED  BY <1>1, <1>8, <2>1
<1>9. OnShutdown \/ OnClosed \/ OnTimer \/ ReplyOk \/ GiveUp \/ Abort =>
        /\ waiting' = waiting
        /\ queue' = queue \/ queue' = <<>>
        /\ buf' = buf \/ buf' = <<>>
        /\ batch' \in {batch, buf, <<>>}
  BY DEF OnShutdown, OnClosed, OnTimer, ReplyOk, GiveUp, Abort, BeginFlush, End, flush
<1>10. \A p \in Producers : CloneQueue(p) \/ DropQueue(p) => UNCHANGED <<waiting, queue, buf, batch>>
  BY DEF CloneQueue, DropQueue, flush
<1>11. AttachEngine \/ Shutdown \/ DropHandle \/ Start \/ TimerExpires \/ ServerApplies
         \/ Retry \/ BackoffElapsed \/ Terminated \/ UNCHANGED vars
         => UNCHANGED <<waiting, queue, buf, batch>>
  BY DEF AttachEngine, Shutdown, DropHandle, ReleaseHandle, Start, TimerExpires,
         ServerApplies, Retry, BackoffElapsed, Terminated, vars, flush
<1>12. QED
  BY <1>3, <1>4, <1>5, <1>6, <1>7, <1>8, <1>9, <1>10, <1>11 DEF Next

-----------------------------------------------------------------------------
(* The steps of the pipeline that matter to the store. *)

(* Only the request under way changes the relationships. *)
LEMMA RelsStep == [Next]_vars => rels' = rels \/ ServerApplies
BY DEF Next, vars, Terminated, CloneQueue, DropQueue, Refuse, CancelSend, Enqueue,
       AttachEngine, Shutdown, DropHandle, ReleaseHandle, Accept, Start, TimerExpires,
       OnShutdown, OnRecv, OnClosed, OnTimer, ReplyOk, Retry, GiveUp, BackoffElapsed, Abort

(* Only an acknowledged batch is committed. *)
LEMMA CommittedStep == [Next]_vars => committed' = committed \/ ReplyOk
BY DEF Next, vars, Terminated, CloneQueue, DropQueue, Refuse, CancelSend, Enqueue,
       AttachEngine, Shutdown, DropHandle, ReleaseHandle, Accept, Start, TimerExpires,
       OnShutdown, OnRecv, OnClosed, OnTimer, ServerApplies, Retry, GiveUp,
       BackoffElapsed, Abort

(* While a batch that took effect waits for its reply nothing happens to it.*)
LEMMA WrittenStep ==
  [Next]_vars /\ worker' = "written" =>
    \/ ServerApplies
    \/ worker = "written" /\ batch' = batch /\ rels' = rels
BY DEF Next, vars, Terminated, CloneQueue, DropQueue, Refuse, CancelSend, Enqueue,
       AttachEngine, Shutdown, DropHandle, ReleaseHandle, Accept, Start, TimerExpires,
       OnShutdown, OnRecv, OnClosed, OnTimer, ServerApplies, ReplyOk, Retry, GiveUp,
       BackoffElapsed, Abort, BeginFlush, End, Ended, flush

(* A request that takes effect decides the tuples it names, and no others. *)
LEMMA RequestDecides ==
  ASSUME NEW events \in Seq(Event), ~Conflicting(BuildUpdates(events)),
         rels' = Commit(rels, BuildUpdates(events))
  PROVE  /\ \A i \in DOMAIN events : events[i].tuple \in rels' <=> events[i].op = "Upsert"
         /\ \A x : ~Names(events, x) => (x \in rels' <=> x \in rels)
<1>1. /\ \A i \in DOMAIN events : events[i].op = "Upsert" \/ events[i].op = "Delete"
      /\ \A i, j \in DOMAIN events : events[i].tuple = events[j].tuple => i = j
      /\ \A x : x \in Touched(BuildUpdates(events)) <=>
           \E i \in DOMAIN events : events[i].op = "Upsert" /\ events[i].tuple = x
      /\ \A x : x \in Deleted(BuildUpdates(events)) <=>
           \E i \in DOMAIN events : events[i].op = "Delete" /\ events[i].tuple = x
  BY UpdatesOfBatch
<1>2. ASSUME NEW i \in DOMAIN events
      PROVE  events[i].tuple \in rels' <=> events[i].op = "Upsert"
  <2>1. CASE events[i].op = "Upsert"
    BY <1>1, <2>1 DEF Commit
  <2>2. CASE events[i].op # "Upsert"
    <3>1. events[i].op = "Delete"
      BY <1>1, <2>2
    <3>2. events[i].tuple \in Deleted(BuildUpdates(events))
      BY <1>1, <3>1
    <3>3. events[i].tuple \notin Touched(BuildUpdates(events))
      BY <1>1, <2>2
    <3>4. QED  BY <2>2, <3>2, <3>3 DEF Commit
  <2>3. QED  BY <2>1, <2>2
<1>3. ASSUME NEW x, ~Names(events, x) PROVE x \in rels' <=> x \in rels
  BY <1>1, <1>3 DEF Names, Commit
<1>4. QED  BY <1>2, <1>3

-----------------------------------------------------------------------------
(* The inductive invariant. *)

CallShapes ==
  /\ call \in [Callers -> Call \cup {Idle}]
  /\ settled \in [Tuples -> Verdict]

(* What is settled nobody is about to write, and SpiceDB agrees. *)
SettledHolds ==
  \A x \in Tuples : settled[x] # "unknown" =>
    /\ ~Pending(x) /\ \A c \in Callers : ~Writes(c, x)
    /\ x \in rels <=> settled[x] = "present"

(* Who waits for the reply to a request holds the client alone, and so its *)
(* request still stands: the one of a call, and the one of the worker.     *)
CallStands ==
  \A c \in Callers : call[c].phase = "served" =>
    /\ worker # "written"
    /\ \A d \in Callers \ {c} : call[d].phase # "served"
    /\ call[c].ev.tuple \in rels <=> call[c].ev.op = "Upsert"

BatchStands ==
  worker = "written" =>
    \A i \in DOMAIN batch : batch[i].tuple \in rels <=> batch[i].op = "Upsert"

DualInv == Shapes /\ CallShapes /\ SettledHolds /\ CallStands /\ BatchStands

LEMMA DualInvInit == DualInit => DualInv
<1>1. DualInit => Shapes
  BY ShapesInit DEF DualInit
<1>2. DualInit => CallShapes /\ SettledHolds /\ CallStands /\ BatchStands
  BY DEF DualInit, Init, CallShapes, Verdict, SettledHolds, CallStands, BatchStands, Idle
<1>3. QED  BY <1>1, <1>2 DEF DualInv

LEMMA CallTyped ==
  ASSUME CallShapes, NEW c \in Callers, call[c].phase # "idle"
  PROVE  call[c] \in Call /\ call[c].ev \in Event /\ call[c].ev.tuple \in Tuples
           /\ call[c].ev.op \in {"Upsert", "Delete"}
BY DEF CallShapes, Call, Idle, Event

LEMMA OutcomeOf ==
  \A op \in {"Upsert", "Delete"} :
    Outcome(op) \in {"present", "absent"} /\ (Outcome(op) = "present" <=> op = "Upsert")
BY DEF Outcome

(* A step of the pipeline. *)
LEMMA PipelineKeeps ==
  ASSUME DualInv, PipelineStep
  PROVE  DualInv'
<1>1. /\ [Next]_vars /\ call' = call
      /\ worker' = "written" /\ worker # "written" => ClientFree
      /\ settled' = [x \in Tuples |->
           IF Entered(x) THEN "unknown"
           ELSE IF Acknowledged(x) THEN Outcome(CHOOSE op \in Written(x) : TRUE)
           ELSE settled[x]]
  BY DEF PipelineStep
<1>2. Shapes'
  BY <1>1, ShapesStep DEF DualInv
<1>3. batch \in Seq(Event) /\ Shapes
  BY DEF DualInv, Shapes
<1>4. \A i \in DOMAIN batch : batch[i].op \in {"Upsert", "Delete"}
  BY <1>3, UpdatesOfBatch
<1>5. ServerApplies =>
        /\ ClientFree /\ worker = "writing" /\ batch' = batch
        /\ \A i \in DOMAIN batch : batch[i].tuple \in rels' <=> batch[i].op = "Upsert"
        /\ \A x : ~Names(batch, x) => (x \in rels' <=> x \in rels)
  <2> SUFFICES ASSUME ServerApplies
               PROVE  /\ ClientFree /\ worker = "writing" /\ batch' = batch
                      /\ \A i \in DOMAIN batch :
                           batch[i].tuple \in rels' <=> batch[i].op = "Upsert"
                      /\ \A x : ~Names(batch, x) => (x \in rels' <=> x \in rels)
    OBVIOUS
  <2>1. /\ worker = "writing" /\ worker' = "written" /\ batch' = batch
        /\ rels' = Commit(rels, BuildUpdates(batch))
        /\ ~Conflicting(BuildUpdates(batch))
    BY DEF ServerApplies, Rejected, flush
  <2>2. QED  BY <1>1, <1>3, <2>1, RequestDecides
<1>6. ASSUME NEW x \in Tuples, Acknowledged(x)
      PROVE  /\ Outcome(CHOOSE op \in Written(x) : TRUE) \in {"present", "absent"}
             /\ x \in rels' <=> Outcome(CHOOSE op \in Written(x) : TRUE) = "present"
             /\ ~Pending(x)' /\ \A c \in Callers : ~Writes(c, x)
  <2>1. ReplyOk /\ Written(x) # {} /\ ~Pending(x)' /\ \A c \in Callers : ~Writes(c, x)
    BY <1>1, <1>6, CommittedStep DEF Acknowledged
  <2> DEFINE op == CHOOSE op \in Written(x) : TRUE
  <2>2. op \in Written(x)
    BY <2>1
  <2>3. PICK i \in DOMAIN batch : batch[i].tuple = x /\ batch[i].op = op
    BY <2>2 DEF Written
  <2> HIDE DEF op
  <2>4. x \in rels' <=> op = "Upsert"
    BY <2>1, <2>3 DEF ReplyOk, DualInv, BatchStands
  <2>5. op \in {"Upsert", "Delete"}
    BY <1>4, <2>3
  <2>6. Outcome(op) \in {"present", "absent"} /\ (x \in rels' <=> Outcome(op) = "present")
    BY <2>4, <2>5, OutcomeOf
  <2>7. QED  BY <2>1, <2>6 DEF op
<1>7. CallShapes'
  <2>1. settled' \in [Tuples -> Verdict]
    BY <1>1, <1>6 DEF DualInv, CallShapes, Verdict
  <2>2. QED  BY <1>1, <2>1 DEF DualInv, CallShapes
<1>8. SettledHolds'
  <2> SUFFICES ASSUME NEW x \in Tuples, settled'[x] # "unknown"
               PROVE  /\ ~Pending(x)' /\ \A c \in Callers : ~Writes(c, x)'
                      /\ x \in rels' <=> settled'[x] = "present"
    BY DEF SettledHolds
  <2>1. ~Entered(x) /\ settled'[x] = IF Acknowledged(x)
                                    THEN Outcome(CHOOSE op \in Written(x) : TRUE)
                                    ELSE settled[x]
    BY <1>1
  <2>2. \A c \in Callers : Writes(c, x)' <=> Writes(c, x)
    BY <1>1 DEF Writes
  <2>3. CASE Acknowledged(x)
    BY <1>6, <2>1, <2>2, <2>3
  <2>4. CASE ~Acknowledged(x)
    <3>1. ~Pending(x) /\ (\A c \in Callers : ~Writes(c, x))
          /\ (x \in rels <=> settled[x] = "present")
      BY <2>1, <2>4 DEF DualInv, SettledHolds
    <3>2. ~Pending(x)'
      BY <1>1, <1>3, <2>1, <3>1, PendingStep
    <3>3. x \in rels' <=> x \in rels
      BY <1>1, <1>5, <3>1, RelsStep DEF Pending
    <3>4. QED  BY <2>1, <2>2, <2>4, <3>1, <3>2, <3>3
  <2>5. QED  BY <2>3, <2>4
<1>9. CallStands'
  <2> SUFFICES ASSUME NEW c \in Callers, call[c].phase = "served"
               PROVE  /\ worker' # "written"
                      /\ \A d \in Callers \ {c} : call[d].phase # "served"
                      /\ call[c].ev.tuple \in rels' <=> call[c].ev.op = "Upsert"
    BY <1>1 DEF CallStands
  <2>1. /\ worker # "written" /\ ~ClientFree
        /\ \A d \in Callers \ {c} : call[d].phase # "served"
        /\ call[c].ev.tuple \in rels <=> call[c].ev.op = "Upsert"
    BY DEF DualInv, CallStands, ClientFree
  <2>2. ~ServerApplies /\ worker' # "written"
    BY <1>1, <1>5, <2>1
  <2>3. QED  BY <1>1, <2>1, <2>2, RelsStep
<1>10. BatchStands'
  BY <1>1, <1>5, WrittenStep DEF DualInv, BatchStands
<1>11. QED  BY <1>2, <1>7, <1>8, <1>9, <1>10 DEF DualInv

(* A step of a call leaves the pipeline alone. *)
LEMMA CallsKeepShapes ==
  ASSUME Shapes, rels' \in SUBSET Tuples,
         UNCHANGED <<handle, attached, clones, waiting, queue, worker, resume, due, buf,
                     batch, attempt, fatal, sent, committed, lost, applied>>
  PROVE  Shapes'
BY DEF Shapes

LEMMA PendingKept ==
  ASSUME UNCHANGED <<waiting, queue, buf, batch>>, NEW x
  PROVE  Pending(x)' <=> Pending(x)
BY DEF Pending, Names

LEMMA BeginKeeps ==
  ASSUME DualInv, NEW c \in Callers, NEW ev \in Event, BeginCall(c, ev)
  PROVE  DualInv'
<1>1. /\ call[c] = Idle /\ UNCHANGED vars
      /\ call' = [call EXCEPT ![c] = [phase |-> "queued", ev |-> ev]]
      /\ settled' = [settled EXCEPT ![ev.tuple] = "unknown"]
  BY DEF BeginCall
<1>2. /\ call'[c] = [phase |-> "queued", ev |-> ev]
      /\ \A d \in Callers \ {c} : call'[d] = call[d]
  BY <1>1 DEF DualInv, CallShapes
<1>3. Shapes'
  BY <1>1, CallsKeepShapes DEF vars, DualInv, Shapes
<1>4. CallShapes'
  <2>1. [phase |-> "queued", ev |-> ev] \in Call
    BY DEF Call
  <2>2. QED  BY <1>1, <2>1 DEF DualInv, CallShapes, Verdict
<1>5. SettledHolds'
  <2> SUFFICES ASSUME NEW x \in Tuples, settled'[x] # "unknown"
               PROVE  /\ ~Pending(x)' /\ \A d \in Callers : ~Writes(d, x)'
                      /\ x \in rels' <=> settled'[x] = "present"
    BY DEF SettledHolds
  <2>1. x # ev.tuple /\ settled'[x] = settled[x]
    BY <1>1 DEF DualInv, CallShapes
  <2>2. \A d \in Callers : Writes(d, x)' => Writes(d, x)
    BY <1>2, <2>1 DEF Writes
  <2>3. Pending(x)' <=> Pending(x)
    BY <1>1, PendingKept DEF vars
  <2>4. QED  BY <1>1, <2>1, <2>2, <2>3 DEF DualInv, SettledHolds, vars
<1>6. CallStands'
  BY <1>1, <1>2 DEF DualInv, CallStands, vars
<1>7. BatchStands'
  BY <1>1 DEF DualInv, BatchStands, vars
<1>8. QED  BY <1>3, <1>4, <1>5, <1>6, <1>7 DEF DualInv

LEMMA ServeKeeps ==
  ASSUME DualInv, NEW c \in Callers, ServeCall(c)
  PROVE  DualInv'
<1> DEFINE ev == call[c].ev
<1>1. /\ call[c].phase = "queued" /\ ClientFree
      /\ ~Conflicting(BuildUpdates(<<ev>>)) /\ rels' = Commit(rels, BuildUpdates(<<ev>>))
      /\ call' = [call EXCEPT ![c].phase = "served"]
      /\ UNCHANGED <<handle, attached, clones, waiting, queue, worker, resume, due, buf,
                     batch, attempt, fatal, sent, committed, lost, applied, settled>>
  BY DEF ServeCall, Rejected
<1>2. call[c] \in Call /\ ev \in Event /\ ev.tuple \in Tuples
  BY <1>1, CallTyped DEF DualInv
<1>3. /\ call'[c].phase = "served" /\ call'[c].ev = ev /\ call'[c] \in Call
      /\ \A d \in Callers \ {c} : call'[d] = call[d]
  BY <1>1, <1>2 DEF DualInv, CallShapes, Call
<1> HIDE DEF ev
<1>4. <<ev>> \in Seq(Event) /\ DOMAIN <<ev>> = {1} /\ <<ev>>[1] = ev
  BY <1>2
<1>5. /\ ev.tuple \in rels' <=> ev.op = "Upsert"
      /\ \A x : x # ev.tuple => (x \in rels' <=> x \in rels)
  BY <1>1, <1>4, RequestDecides DEF Names
<1>6. Shapes'
  <2>1. rels' \in SUBSET Tuples
    BY <1>2, <1>5 DEF DualInv, Shapes
  <2>2. QED  BY <1>1, <2>1, CallsKeepShapes DEF DualInv
<1>7. CallShapes'
  BY <1>1, <1>3 DEF DualInv, CallShapes
<1>8. SettledHolds'
  <2> SUFFICES ASSUME NEW x \in Tuples, settled[x] # "unknown"
               PROVE  /\ ~Pending(x)' /\ \A d \in Callers : ~Writes(d, x)'
                      /\ x \in rels' <=> settled[x] = "present"
    BY <1>1 DEF SettledHolds
  <2>1. ~Pending(x) /\ (\A d \in Callers : ~Writes(d, x))
        /\ (x \in rels <=> settled[x] = "present")
    BY DEF DualInv, SettledHolds
  <2>2. \A d \in Callers : Writes(d, x)' => Writes(d, x)
    BY <1>1, <1>3 DEF Writes, ev
  <2>3. x # ev.tuple
    BY <1>1, <2>1 DEF Writes, ev
  <2>4. Pending(x)' <=> Pending(x)
    BY <1>1, PendingKept
  <2>5. QED  BY <1>5, <2>1, <2>2, <2>3, <2>4
<1>9. CallStands'
  BY <1>1, <1>3, <1>5 DEF CallStands, ClientFree
<1>10. BatchStands'
  BY <1>1 DEF BatchStands, ClientFree
<1>11. QED  BY <1>6, <1>7, <1>8, <1>9, <1>10 DEF DualInv

LEMMA EndKeeps ==
  ASSUME DualInv, NEW c \in Callers, CallReturns(c) \/ CallFails(c)
  PROVE  DualInv'
<1>1. call[c].phase # "idle" /\ UNCHANGED vars /\ call' = [call EXCEPT ![c] = Idle]
  BY DEF CallReturns, CallFails, DualInv, CallShapes, Call, Idle
<1>2. /\ call'[c] = Idle /\ \A d \in Callers \ {c} : call'[d] = call[d]
      /\ call' \in [Callers -> Call \cup {Idle}]
  BY <1>1 DEF DualInv, CallShapes
<1>3. Shapes'
  BY <1>1, CallsKeepShapes DEF vars, DualInv, Shapes
<1> DEFINE x == call[c].ev.tuple
<1>4. x \in Tuples /\ call[c].ev.op \in {"Upsert", "Delete"}
  BY <1>1, CallTyped DEF DualInv
<1>5. \/ settled' = settled
      \/ /\ settled' = [settled EXCEPT ![x] = Outcome(call[c].ev.op)]
         /\ call[c].phase = "served" /\ ~Pending(x)
         /\ \A d \in Callers \ {c} : ~Writes(d, x)
  BY DEF CallReturns, CallFails, DualInv, CallShapes
<1> HIDE DEF x
<1>6. \A y, d : d \in Callers /\ Writes(d, y)' => d # c /\ Writes(d, y)
  BY <1>2 DEF Writes, Idle
<1>7. \A y : Pending(y)' <=> Pending(y)
  BY <1>1, PendingKept DEF vars
<1>8. SettledHolds'
  <2> SUFFICES ASSUME NEW y \in Tuples, settled'[y] # "unknown"
               PROVE  /\ ~Pending(y)' /\ \A d \in Callers : ~Writes(d, y)'
                      /\ y \in rels' <=> settled'[y] = "present"
    BY DEF SettledHolds
  <2>1. rels' = rels
    BY <1>1 DEF vars
  <2>2. CASE settled'[y] = settled[y]
    BY <1>6, <1>7, <2>1, <2>2 DEF DualInv, SettledHolds
  <2>3. CASE settled'[y] # settled[y]
    <3>1. /\ y = x /\ settled'[y] = Outcome(call[c].ev.op)
          /\ call[c].phase = "served" /\ ~Pending(x)
          /\ \A d \in Callers \ {c} : ~Writes(d, x)
      BY <1>5, <2>3 DEF DualInv, CallShapes
    <3>2. x \in rels <=> call[c].ev.op = "Upsert"
      BY <3>1 DEF DualInv, CallStands, x
    <3>3. QED  BY <1>4, <1>6, <1>7, <2>1, <3>1, <3>2, OutcomeOf
  <2>4. QED  BY <2>2, <2>3
<1>9. CallShapes'
  <2>1. Outcome(call[c].ev.op) \in Verdict
    BY <1>4, OutcomeOf DEF Verdict
  <2>2. QED  BY <1>2, <1>5, <2>1 DEF DualInv, CallShapes
<1>10. CallStands'
  BY <1>1, <1>2 DEF DualInv, CallStands, vars, Idle
<1>11. BatchStands'
  BY <1>1 DEF DualInv, BatchStands, vars
<1>12. QED  BY <1>3, <1>8, <1>9, <1>10, <1>11 DEF DualInv

LEMMA DualStep == DualInv /\ [DualNext]_dualVars => DualInv'
<1>1. DualInv /\ UNCHANGED dualVars => DualInv'
  <2> SUFFICES ASSUME DualInv, UNCHANGED dualVars PROVE DualInv'
    OBVIOUS
  <2>1. UNCHANGED vars /\ UNCHANGED <<call, settled>>
    BY DEF dualVars
  <2>2. Shapes'
    BY <2>1, CallsKeepShapes DEF vars, DualInv, Shapes
  <2>3. \A x : Pending(x)' <=> Pending(x)
    BY <2>1, PendingKept DEF vars
  <2>4. CallShapes' /\ SettledHolds' /\ CallStands' /\ BatchStands'
    BY <2>1, <2>3 DEF vars, DualInv, CallShapes, SettledHolds, CallStands, BatchStands, Writes
  <2>5. QED  BY <2>2, <2>4 DEF DualInv
<1>2. QED  BY <1>1, PipelineKeeps, BeginKeeps, ServeKeeps, EndKeeps DEF DualNext

LEMMA BegunStep ==
  ASSUME DualTypeOK, [DualNext]_dualVars
  PROVE  begun' \in 0 .. MaxCalls
<1>1. begun \in 0 .. MaxCalls
  BY DEF DualTypeOK
<1>2. CASE \E c \in Callers, ev \in Event : BeginCall(c, ev)
  BY <1>1, <1>2, CallsAssumption DEF BeginCall
<1>3. CASE ~\E c \in Callers, ev \in Event : BeginCall(c, ev)
  <2>1. begun' = begun
    BY <1>3 DEF DualNext, PipelineStep, ServeCall, CallReturns, CallFails, dualVars
  <2>2. QED  BY <1>1, <2>1
<1>4. QED  BY <1>2, <1>3

(* However many tasks write next to the pipeline, calls and verdicts keep  *)
(* their types.                                                            *)
THEOREM DualTypeCorrect == DualSpec => []DualTypeOK
<1>1. DualInit => DualInv /\ DualTypeOK
  BY DualInvInit, CallsAssumption DEF DualInit, DualTypeOK, DualInv, CallShapes
<1>2. DualInv /\ DualTypeOK /\ [DualNext]_dualVars => (DualInv /\ DualTypeOK)'
  BY DualStep, BegunStep DEF DualTypeOK, DualInv, CallShapes
<1>3. QED  BY <1>1, <1>2, PTL DEF DualSpec

(* Whatever was acknowledged, by a call or by the worker, stays in force   *)
(* until another write of the same tuple begins.                           *)
THEOREM AcknowledgedWritesStand == DualSpec => []AcknowledgedWritesHold
<1>1. DualInv => AcknowledgedWritesHold
  BY DEF DualInv, SettledHolds, AcknowledgedWritesHold
<1>2. QED  BY <1>1, DualInvInit, DualStep, PTL DEF DualSpec

-----------------------------------------------------------------------------
(* What the pipeline guarantees to those who use it does not depend on the *)
(* calls: they touch nothing of it but the relationships, and none of its  *)
(* guarantees but LastEventWins looks at these.                            *)

LEMMA DualFlowInit == DualInit => Flow
<1>1. Init => FailClosedSignal /\ Watched
  BY DEF Init, FailClosedSignal, Watched
<1>2. QED
  BY <1>1, TypeInit, AccountingInit, BatchBoundaryInit DEF DualInit, Flow

LEMMA CallsLeavePipeline ==
  ASSUME [DualNext]_dualVars, ~PipelineStep
  PROVE  UNCHANGED <<handle, attached, clones, waiting, queue, worker, resume, due,
                     buf, batch, attempt, fatal, sent, committed, lost, applied>>
BY DEF DualNext, BeginCall, ServeCall, CallReturns, CallFails, dualVars, vars

LEMMA DualFlowStep ==
  ASSUME DualInv, Flow, [DualNext]_dualVars
  PROVE  Flow'
<1>1. CASE PipelineStep
  BY <1>1, FlowStep DEF PipelineStep
<1>2. CASE ~PipelineStep
  <2>1. UNCHANGED <<handle, attached, clones, waiting, queue, worker, resume, due,
                    buf, batch, attempt, fatal, sent, committed, lost, applied>>
    BY <1>2, CallsLeavePipeline
  <2>2. Flags' /\ FailClosedSignal' /\ Watched'
    BY <2>1, TypeParts DEF Flow, Flags, FailClosedSignal, Watched
  <2>3. Shapes'
    BY DualStep DEF DualInv
  <2>4. TypeOK' <=> Flags' /\ Shapes'
    BY DEF TypeOK, Flags, Shapes
  <2>5. Accounting'
    BY <2>1 DEF Flow, Accounting
  <2>6. BatchBoundary'
    BY <2>1 DEF Flow, BatchBoundary
  <2>7. QED  BY <2>2, <2>3, <2>4, <2>5, <2>6 DEF Flow
<1>3. QED  BY <1>1, <1>2

LEMMA DualInvariance == DualSpec => [](DualInv /\ Flow)
BY DualInvInit, DualFlowInit, DualStep, DualFlowStep, PTL DEF DualSpec

(* Whatever is written around the pipeline, it loses, duplicates and       *)
(* reorders none of its events.                                            *)
THEOREM DualEventsAccountedFor == DualSpec => []Accounting
<1>1. Flow => Accounting
  BY DEF Flow
<1>2. QED  BY <1>1, DualInvariance, PTL

(* Its requests stay within max_batch and take effect as a whole.          *)
THEOREM DualBatchesAreAtomic == DualSpec => []BatchBoundary
<1>1. Flow => BatchBoundary
  BY DEF Flow
<1>2. QED  BY <1>1, DualInvariance, PTL

(* An engine that writes by itself learns of the pipeline's end like one   *)
(* that only checks.                                                       *)
THEOREM DualFailsClosed == DualSpec => []FailClosedSignal
<1>1. Flow => FailClosedSignal
  BY DEF Flow
<1>2. QED  BY <1>1, DualInvariance, PTL

(* And run() still returns Ok only when SpiceDB has acknowledged everything*)
(* it received.                                                            *)
THEOREM DualStopIsClean == DualSpec => StopFlushesBuffer
<1>1. ASSUME Flow, [DualNext]_dualVars, worker # "stopped", worker' = "stopped"
      PROVE  sent = committed' \o queue /\ applied' = Len(committed')
  <2>1. PipelineStep
    BY <1>1, CallsLeavePipeline
  <2>2. QED  BY <1>1, <2>1, StopStep DEF PipelineStep
<1>2. Flow /\ [DualNext]_dualVars =>
        [worker # "stopped" /\ worker' = "stopped"
           => /\ sent = committed' \o queue
              /\ applied' = Len(committed')]_vars
  BY <1>1
<1>3. QED  BY <1>2, DualInvariance, PTL DEF DualSpec, StopFlushesBuffer

(* Once events were dropped, an engine that watches the pipeline begins no *)
(* more writes, and only what had begun before can still reach SpiceDB.    *)
THEOREM FailureStopsWrites == DualSpec => LossStopsCallers
<1>1. ASSUME DualInv, Flow, [DualNext]_dualVars, worker = "failed", attached
      PROVE  /\ begun' = begun
             /\ rels' # rels => \E c \in Callers : call[c].phase = "queued"
  <2>1. fatal
    BY <1>1 DEF Flow, FailClosedSignal
  <2>2. CASE PipelineStep
    <3>1. begun' = begun /\ ~ServerApplies
      BY <1>1, <2>2 DEF PipelineStep, ServerApplies
    <3>2. QED  BY <2>2, <3>1, RelsStep DEF PipelineStep
  <2>3. ASSUME NEW c \in Callers, ServeCall(c)
        PROVE  begun' = begun /\ call[c].phase = "queued"
    BY <2>3 DEF ServeCall
  <2>4. ASSUME NEW c \in Callers, CallReturns(c) \/ CallFails(c)
        PROVE  begun' = begun /\ rels' = rels
    BY <2>4 DEF CallReturns, CallFails, vars
  <2>5. ASSUME NEW c \in Callers, NEW ev \in Event, BeginCall(c, ev)
        PROVE  FALSE
    BY <1>1, <2>1, <2>5 DEF BeginCall
  <2>6. CASE UNCHANGED dualVars
    BY <2>6 DEF dualVars, vars
  <2>7. QED  BY <1>1, <2>2, <2>3, <2>4, <2>5, <2>6 DEF DualNext
<1>2. DualInv /\ Flow /\ [DualNext]_dualVars
        => [worker = "failed" /\ attached =>
             /\ begun' = begun
             /\ rels' # rels => \E c \in Callers : call[c].phase = "queued"]_dualVars
  BY <1>1
<1>3. QED
  BY <1>2, DualInvariance, PTL DEF DualSpec, LossStopsCallers

=============================================================================
