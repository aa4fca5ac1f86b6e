-------------------------- MODULE EventWatchProofs --------------------------
(***************************************************************************)
(* Proofs about EventWatch for any handlers, runs of every length and every *)
(* number of faults.                                                       *)
(***************************************************************************)
EXTENDS EventWatch, Integers, TLAPS

-----------------------------------------------------------------------------
(* Type correctness.                                                       *)

\* What TypeOK says of the row, the handlers and the stream.
WorkerInv ==
  /\ status \in Status /\ stored \in BOOLEAN /\ gaveUp \in BOOLEAN
  /\ pc \in [Handlers -> HandlerSteps] /\ saw \in [Handlers -> Status]
  /\ step \in [Handlers -> 0..Events]
  /\ stream \in Seq(Entries)

\* What it says of the request, the wire and the page.
ViewInv ==
  /\ conn \in {"closed", "opened", "tail", "ended", "refused"}
  /\ seen \in Status /\ cursor \in 0..Len(stream)
  /\ wire \in Seq(Positions) /\ feed \in Seq(Entries)
  /\ conn \in {"closed", "refused"} => wire = <<>>
  /\ done \in BOOLEAN /\ failed \in BOOLEAN /\ links \in BOOLEAN
  /\ fetch \in {"asked", "replied", "idle", "lost"}
  /\ reply \in Status \X BOOLEAN

LEMMA TypeParts == TypeOK <=> WorkerInv /\ ViewInv /\ faults \in 0..MaxFaults
BY DEF TypeOK, WorkerInv, ViewInv

LEMMA ConcatTyped ==
  ASSUME NEW S, NEW s \in Seq(S), NEW t \in Seq(S)
  PROVE  s \o t \in Seq(S)
OBVIOUS

LEMMA FaultBounded ==
  ASSUME faults \in 0..MaxFaults, Fault
  PROVE  faults' \in 0..MaxFaults
BY BoundsAssumption DEF Fault

\* A publish appends the entry or is lost.
LEMMA PublishTyped ==
  ASSUME stream \in Seq(Entries), faults \in 0..MaxFaults, NEW e \in Entries, Publish(e)
  PROVE  /\ stream' \in Seq(Entries) /\ faults' \in 0..MaxFaults
         /\ stream' = stream \/ stream' = Append(stream, e)
BY FaultBounded DEF Publish

\* A longer stream leaves the view well typed.
LEMMA AppendView ==
  ASSUME stream \in Seq(Entries), ViewInv, NEW e,
         stream' = stream \/ stream' = Append(stream, e), UNCHANGED reader
  PROVE  ViewInv'
<1>1. Len(stream) \in Nat /\ Len(stream') >= Len(stream) /\ Len(stream') \in Nat
  OBVIOUS
<1>2. Positions \subseteq Positions'
  BY <1>1 DEF Positions
<1>3. wire \in Seq(Positions')
  BY <1>2 DEF ViewInv
<1>4. cursor \in 0..Len(stream')
  BY <1>1 DEF ViewInv
<1>5. QED
  BY <1>3, <1>4 DEF ViewInv, reader, request, page

LEMMA LeaveTyped ==
  ASSUME WorkerInv, NEW w \in Handlers, Leave(w)
  PROVE  /\ pc' \in [Handlers -> HandlerSteps] /\ saw' \in [Handlers -> Status]
         /\ step' \in [Handlers -> 0..Events]
BY BoundsAssumption DEF Leave, Goto, Forget, WorkerInv, HandlerSteps, Status

\* A handler's step keeps the worker's shape, adds one entry to the stream at most
\* and does not touch the reader.
LEMMA HandlerTyped ==
  ASSUME WorkerInv, faults \in 0..MaxFaults, NEW w \in Handlers, Handle(w) \/ Kill(w)
  PROVE  /\ WorkerInv' /\ faults' \in 0..MaxFaults /\ UNCHANGED reader
         /\ \E e \in Entries : stream' = stream \/ stream' = Append(stream, e)
<1>1. step[w] \in 0..Events /\ Events \in Nat /\ saw[w] \in Status
  BY BoundsAssumption DEF WorkerInv
<1>2. <<"done", 0>> \in Entries
  BY <1>1 DEF Entries, Kinds
<1>3. CASE ClaimRead(w)
  BY <1>2, <1>3, LeaveTyped
  DEF ClaimRead, row, Goto, Read, WorkerInv, HandlerSteps
<1>4. CASE ClaimCommit(w)
  BY <1>2, <1>4 DEF ClaimCommit, Goto, Forget, WorkerInv, HandlerSteps, Status, Final
<1>5. CASE Progress(w)
  <2> DEFINE e == <<IF step[w] + 1 \in Quiet THEN "quiet" ELSE "phase", step[w] + 1>>
  <2>1. e \in Entries
    BY <1>1 DEF Entries, Kinds
  <2>2. Publish(e) /\ UNCHANGED <<row, pc, saw, gaveUp, reader>>
    BY <1>5 DEF Progress
  <2>3. step' \in [Handlers -> 0..Events]
    BY <1>1, <1>5 DEF Progress, WorkerInv
  <2>4. /\ stream' \in Seq(Entries) /\ faults' \in 0..MaxFaults
        /\ stream' = stream \/ stream' = Append(stream, e)
    BY <2>1, <2>2, PublishTyped DEF WorkerInv
  <2>5. QED
    BY <2>1, <2>2, <2>3, <2>4 DEF WorkerInv, row
<1>6. CASE MarkRead(w)
  BY <1>2, <1>6 DEF MarkRead, Goto, Read, row, WorkerInv, HandlerSteps
<1>7. CASE MarkCommit(w)
  BY <1>2, <1>7 DEF MarkCommit, Goto, Forget, WorkerInv, HandlerSteps, Status, Final
<1>8. CASE FinRead(w)
  BY <1>2, <1>8 DEF FinRead, Goto, Read, row, WorkerInv, HandlerSteps
<1>9. CASE FinCommit(w)
  BY <1>2, <1>9 DEF FinCommit, Goto, Forget, WorkerInv, HandlerSteps, Status, Final
<1>10. CASE EmitCard(w)
  <2>1. Card(w) \in Entries
    BY <1>1 DEF Card, Entries, Kinds
  <2>2. Publish(Card(w)) /\ Leave(w) /\ UNCHANGED <<row, gaveUp, reader>>
    BY <1>10 DEF EmitCard
  <2>3. /\ stream' \in Seq(Entries) /\ faults' \in 0..MaxFaults
        /\ stream' = stream \/ stream' = Append(stream, Card(w))
    BY <2>1, <2>2, PublishTyped DEF WorkerInv
  <2>4. QED
    BY <2>1, <2>2, <2>3, LeaveTyped DEF WorkerInv, row
<1>11. CASE Kill(w)
  BY <1>2, <1>11, LeaveTyped, FaultBounded DEF Kill, WorkerInv, row
<1>12. QED
  BY <1>3, <1>4, <1>5, <1>6, <1>7, <1>8, <1>9, <1>10, <1>11 DEF Handle

LEMMA TypeInit == Init => TypeOK
<1>1. SUFFICES ASSUME Init PROVE WorkerInv /\ ViewInv /\ faults \in 0..MaxFaults
  BY TypeParts
<1>2. WorkerInv
  <2>1. stream \in Seq(Entries)
    BY <1>1 DEF Init
  <2>2. /\ pc \in [Handlers -> HandlerSteps] /\ saw \in [Handlers -> Status]
        /\ step \in [Handlers -> 0..Events]
    BY <1>1, BoundsAssumption DEF Init, Status, HandlerSteps
  <2>3. QED
    BY <1>1, <2>1, <2>2 DEF Init, WorkerInv, Status
<1>3. ViewInv
  <2>1. wire \in Seq(Positions) /\ feed \in Seq(Entries) /\ cursor \in 0..Len(stream)
    BY <1>1 DEF Init
  <2>2. QED
    BY <1>1, <2>1 DEF Init, ViewInv, Nothing, Status
<1>4. QED
  BY <1>1, <1>2, <1>3, BoundsAssumption DEF Init

\* A step of the route, the network or the page keeps the view's shape.
LEMMA ReaderTyped ==
  ASSUME TypeOK, UNCHANGED worker,
         \/ Connect \/ Refuse \/ Replay \/ Forward \/ TailFails \/ Close \/ Cut
         \/ Receive \/ FetchRead \/ FetchFails \/ FetchApply \/ Reload
  PROVE  ViewInv' /\ faults' \in 0..MaxFaults
<1>1. WorkerInv /\ ViewInv /\ faults \in 0..MaxFaults
  BY TypeParts
<1>2. Len(stream) \in Nat /\ Positions = 1..Len(stream) /\ Positions' = Positions
      /\ stream' = stream
  BY <1>1 DEF WorkerInv, Positions, worker
<1>3. faults' \in 0..MaxFaults
  BY <1>1, FaultBounded
  DEF Connect, Refuse, Replay, Forward, TailFails, Close, Cut, Receive, FetchRead,
      FetchFails, FetchApply, Reload
<1>4. CASE Replay
  <2>1. [i \in 1..Len(stream) |-> i] \in Seq(Positions)
    BY <1>2
  <2>2. wire \o [i \in 1..Len(stream) |-> i] \in Seq(Positions)
    BY <1>1, <2>1, ConcatTyped DEF ViewInv
  <2>3. wire' \in Seq(Positions) /\ cursor' \in 0..Len(stream)
    <3>1. \/ wire' = wire \o [i \in 1..Len(stream) |-> i] /\ cursor' = Len(stream)
          \/ wire' = wire /\ cursor' = cursor
      BY <1>4 DEF Replay
    <3>2. wire \in Seq(Positions) /\ cursor \in 0..Len(stream) /\ Len(stream) \in 0..Len(stream)
      BY <1>1, <1>2 DEF ViewInv
    <3>3. QED
      BY <2>2, <3>1, <3>2
  <2>4. QED
    BY <1>1, <1>2, <1>3, <1>4, <2>3 DEF Replay, ViewInv, page, Status
<1>5. CASE Forward
  <2>1. cursor + 1 \in Positions
    BY <1>1, <1>2, <1>5 DEF Forward, ViewInv
  <2>2. wire' \in Seq(Positions) /\ cursor' \in 0..Len(stream)
    BY <1>1, <1>2, <1>5, <2>1 DEF Forward, ViewInv
  <2>3. QED
    BY <1>1, <1>2, <1>3, <1>5, <2>2 DEF Forward, ViewInv, page
<1>6. CASE Receive
  <2>1. Head(wire) \in Positions /\ wire' \in Seq(Positions)
    BY <1>1, <1>6 DEF Receive, ViewInv
  <2>2. stream[Head(wire)] \in Entries
    BY <1>1, <1>2, <2>1 DEF WorkerInv
  <2>3. feed' \in Seq(Entries)
    BY <1>1, <1>6, <2>2 DEF Receive, ViewInv
  <2>4. /\ done' \in BOOLEAN /\ failed' \in BOOLEAN
    BY <1>1, <1>6 DEF Receive, ViewInv, Show
  <2>5. Ask \/ UNCHANGED <<fetch, reply>>
    BY <1>6 DEF Receive, Refetch
  <2>6. fetch' \in {"asked", "replied", "idle", "lost"} /\ reply' \in Status \X BOOLEAN
    <3>1. Nothing \in Status \X BOOLEAN
      BY DEF Nothing, Status
    <3>2. QED
      BY <1>1, <2>5, <3>1 DEF Ask, ViewInv
  <2>7. conn \notin {"closed", "refused"}
    BY <1>1, <1>6 DEF Receive, ViewInv
  <2>8. QED
    BY <1>1, <1>2, <1>3, <1>6, <2>1, <2>3, <2>4, <2>6, <2>7
    DEF Receive, ViewInv, request
<1>7. CASE FetchApply
  BY <1>1, <1>2, <1>3, <1>7
  DEF FetchApply, Show, ReplyFailed, ViewInv, request, Nothing, Status
<1>8. CASE Connect \/ Refuse \/ TailFails \/ Close
  BY <1>1, <1>2, <1>3, <1>8
  DEF Connect, Refuse, TailFails, Close, ViewInv, WorkerInv, page, Status
<1>9. CASE Cut
  <2>1. wire' \in Seq(Positions) /\ wire' = <<>>
    BY <1>9 DEF Cut
  <2>2. QED
    BY <1>1, <1>2, <1>3, <1>9, <2>1 DEF Cut, ViewInv, page, Status
<1>10. CASE FetchRead \/ FetchFails
  BY <1>1, <1>2, <1>3, <1>10
  DEF FetchRead, FetchFails, ViewInv, WorkerInv, request, row
<1>11. CASE Reload
  <2>1. wire' \in Seq(Positions) /\ wire' = <<>> /\ feed' \in Seq(Entries)
        /\ cursor' \in 0..Len(stream)
    BY <1>2, <1>11 DEF Reload
  <2>2. QED
    BY <1>1, <1>2, <1>3, <1>11, <2>1 DEF Reload, ViewInv, Nothing, Status
<1>12. QED
  BY <1>4, <1>5, <1>6, <1>7, <1>8, <1>9, <1>10, <1>11

\* Every step is a handler's or the reader's.
LEMMA StepKinds ==
  ASSUME Next
  PROVE  \/ \E w \in Handlers : Handle(w) \/ Kill(w)
         \/ /\ UNCHANGED worker
            /\ \/ Connect \/ Refuse \/ Replay \/ Forward \/ TailFails \/ Close \/ Cut
               \/ Receive \/ FetchRead \/ FetchFails \/ FetchApply \/ Reload
BY DEF Next, Connect, Refuse, Replay, Forward, TailFails, Close, Cut, Receive, FetchRead,
       FetchFails, FetchApply, Reload

LEMMA TypeStep == TypeOK /\ [Next]_vars => TypeOK'
<1>1. SUFFICES ASSUME TypeOK, [Next]_vars PROVE TypeOK'
  OBVIOUS
<1>2. WorkerInv /\ ViewInv /\ faults \in 0..MaxFaults
  BY <1>1, TypeParts
<1>3. SUFFICES WorkerInv' /\ ViewInv' /\ faults' \in 0..MaxFaults
  BY DEF TypeOK, WorkerInv, ViewInv
<1>4. ASSUME NEW w \in Handlers, Handle(w) \/ Kill(w)
      PROVE  WorkerInv' /\ ViewInv' /\ faults' \in 0..MaxFaults
  <2>1. /\ WorkerInv' /\ faults' \in 0..MaxFaults /\ UNCHANGED reader
        /\ \E e \in Entries : stream' = stream \/ stream' = Append(stream, e)
    BY <1>2, <1>4, HandlerTyped
  <2>2. ViewInv'
    BY <1>2, <2>1, AppendView DEF WorkerInv
  <2>3. QED
    BY <2>1, <2>2
<1>5. CASE UNCHANGED worker /\ Next /\ ~\E w \in Handlers : Handle(w) \/ Kill(w)
  <2>1. WorkerInv'
    BY <1>2, <1>5 DEF WorkerInv, worker, row, handler
  <2>2. ViewInv' /\ faults' \in 0..MaxFaults
    BY <1>1, <1>5, ReaderTyped, StepKinds
  <2>3. QED
    BY <2>1, <2>2
<1>6. CASE UNCHANGED vars
  BY <1>2, <1>6
  DEF vars, worker, row, handler, reader, request, page, WorkerInv, ViewInv, Positions
<1>7. QED
  BY <1>1, <1>4, <1>5, <1>6, StepKinds

\* Whatever the length of the run and the faults, and however its handlers overlap,
\* the row, the stream, the request and the page keep their shape.
THEOREM TypeCorrect == Spec => []TypeOK
<1>1. QED
  BY TypeInit, TypeStep, PTL DEF Spec
-----------------------------------------------------------------------------
(* The hand-over: what is on its way continues what the page shows.        *)

\* The positions on their way end at the cursor, without a gap, and a request
\* begins with none.
WireRuns ==
  /\ Len(wire) <= cursor
  /\ \A k \in DOMAIN wire : wire[k] = (cursor - Len(wire)) + k
  /\ conn = "opened" => cursor = 0

\* While a request lives the page shows all that is no longer on its way.
ShowsRest ==
  conn \in {"opened", "tail", "ended"} =>
    \A e \in ShownUpTo(cursor - Len(wire)) : Known(e)

FeedInv == FeedIsPrefix /\ WireRuns /\ ShowsRest

\* What an initial part of the stream has for the feed stays as the stream grows.
LEMMA ShownKept ==
  ASSUME stream \in Seq(Entries), NEW x, stream' = stream \/ stream' = Append(stream, x),
         NEW n \in Int, n <= Len(stream)
  PROVE  ShownUpTo(n)' = ShownUpTo(n)
<1>1. Len(stream) \in Nat /\ \A i \in 1..Len(stream) : stream'[i] = stream[i]
  OBVIOUS
<1>2. \A i \in 1..n : i \in 1..Len(stream)
  BY <1>1
<1>3. QED
  BY <1>1, <1>2 DEF ShownUpTo, Feedable

\* A longer stream changes no event that was held.
LEMMA AppendKeepsFeed ==
  ASSUME TypeOK, FeedInv, NEW x, stream' = stream \/ stream' = Append(stream, x),
         UNCHANGED reader
  PROVE  FeedInv'
<1>1. Len(stream) \in Nat /\ cursor \in 0..Len(stream) /\ Len(wire) \in Nat
      /\ stream \in Seq(Entries)
  BY DEF TypeOK
<1>2. feed' = feed /\ wire' = wire /\ cursor' = cursor /\ conn' = conn
  BY DEF reader, request, page
<1>3. \A i \in Positions : i \in Positions' /\ stream'[i] = stream[i]
  BY <1>1 DEF Positions
<1>4. \A i \in Positions : ShownUpTo(i - 1)' = ShownUpTo(i - 1)
  <2>1. SUFFICES ASSUME NEW i \in Positions PROVE ShownUpTo(i - 1)' = ShownUpTo(i - 1)
    OBVIOUS
  <2>2. i - 1 \in Int /\ i - 1 <= Len(stream)
    BY <1>1 DEF Positions
  <2>3. QED
    BY <1>1, <2>2, ShownKept
<1>5. FeedIsPrefix'
  <2>1. SUFFICES ASSUME NEW k \in DOMAIN feed
                 PROVE  \E i \in Positions' :
                          /\ feed[k] = stream'[i] /\ Feedable(feed[k])
                          /\ feed[k] \notin ShownUpTo(i - 1)'
                          /\ {feed[j] : j \in 1..(k - 1)} = ShownUpTo(i - 1)'
    BY <1>2 DEF FeedIsPrefix, Feedable
  <2>2. PICK i \in Positions :
          /\ feed[k] = stream[i] /\ Feedable(feed[k])
          /\ feed[k] \notin ShownUpTo(i - 1)
          /\ {feed[j] : j \in 1..(k - 1)} = ShownUpTo(i - 1)
    BY <2>1 DEF FeedInv, FeedIsPrefix
  <2>3. QED
    BY <1>3, <1>4, <2>2
<1>6. ShownUpTo(cursor - Len(wire))' = ShownUpTo(cursor - Len(wire))
  <2>1. cursor - Len(wire) \in Int /\ cursor - Len(wire) <= Len(stream)
    BY <1>1
  <2>2. cursor' - Len(wire') = cursor - Len(wire)
    BY <1>2
  <2>3. QED
    BY <1>1, <1>2, <2>1, <2>2, ShownKept DEF ShownUpTo, Feedable
<1>7. WireRuns' /\ ShowsRest'
  BY <1>2, <1>6 DEF FeedInv, WireRuns, ShowsRest, Known
<1>8. QED
  BY <1>5, <1>7 DEF FeedInv

\* A step that leaves the stream, the feed and what was read keeps what they show.
LEMMA SameFeed ==
  ASSUME FeedInv, stream' = stream, feed' = feed
  PROVE  FeedIsPrefix' /\ (\A e : Known(e)' <=> Known(e))
         /\ (\A n : ShownUpTo(n)' = ShownUpTo(n))
<1>1. \A n : ShownUpTo(n)' = ShownUpTo(n)
  BY DEF ShownUpTo, Feedable
<1>2. \A e : Known(e)' <=> Known(e)
  BY DEF Known
<1>3. FeedIsPrefix'
  <2>1. SUFFICES ASSUME NEW k \in DOMAIN feed
                 PROVE  \E i \in Positions' :
                          /\ feed[k] = stream'[i] /\ Feedable(feed[k])
                          /\ feed[k] \notin ShownUpTo(i - 1)'
                          /\ {feed[j] : j \in 1..(k - 1)} = ShownUpTo(i - 1)'
    BY DEF FeedIsPrefix, Feedable
  <2>2. Positions' = Positions
    BY DEF Positions
  <2>3. QED
    BY <1>1, <2>1, <2>2 DEF FeedInv, FeedIsPrefix
<1>4. QED
  BY <1>1, <1>2, <1>3

\* The next position on its way is the first the page may not have.
LEMMA HeadIsNext ==
  ASSUME TypeOK, FeedInv, wire # <<>>
  PROVE  /\ Head(wire) = (cursor - Len(wire)) + 1 /\ Head(wire) \in Positions
         /\ conn \in {"tail", "ended"}
         /\ Len(Tail(wire)) = Len(wire) - 1
         /\ \A k \in DOMAIN Tail(wire) :
              k \in Nat /\ k + 1 \in DOMAIN wire /\ Tail(wire)[k] = wire[k + 1]
         /\ Len(wire) \in Nat /\ Len(wire) > 0 /\ cursor \in Nat
<1>1. wire \in Seq(Positions) /\ Len(wire) \in Nat /\ Len(wire) > 0 /\ cursor \in Nat
  BY DEF TypeOK
<1>2. Head(wire) = wire[1] /\ 1 \in DOMAIN wire /\ wire[1] \in Positions
  BY <1>1
<1>3. conn \in {"tail", "ended"}
  BY <1>1 DEF TypeOK, FeedInv, WireRuns
<1>4. /\ Len(Tail(wire)) = Len(wire) - 1
      /\ \A k \in DOMAIN Tail(wire) :
           k \in Nat /\ k + 1 \in DOMAIN wire /\ Tail(wire)[k] = wire[k + 1]
  BY <1>1
<1>5. QED
  BY <1>1, <1>2, <1>3, <1>4 DEF FeedInv, WireRuns

\* Once all before position h is shown, an event at h that the page does not know is
\* the first of its id, and nothing from beyond h is shown.
LEMMA FreshIsFirst ==
  ASSUME TypeOK, FeedIsPrefix, NEW h \in Positions,
         \A e \in ShownUpTo(h - 1) : Known(e),
         Feedable(stream[h]), ~Known(stream[h])
  PROVE  /\ stream[h] \notin ShownUpTo(h - 1)
         /\ {feed[j] : j \in DOMAIN feed} = ShownUpTo(h - 1)
<1>1. h \in Nat /\ Len(stream) \in Nat
  BY DEF TypeOK, Positions
<1>2. ASSUME NEW k \in DOMAIN feed PROVE feed[k] \in ShownUpTo(h - 1)
  <2>1. PICK i \in Positions :
          /\ feed[k] = stream[i] /\ Feedable(feed[k])
          /\ {feed[j] : j \in 1..(k - 1)} = ShownUpTo(i - 1)
    BY <1>2 DEF FeedIsPrefix
  <2>2. i \in Nat
    BY <1>1, <2>1 DEF Positions
  <2>3. CASE i < h
    <3>1. i \in 1..(h - 1)
      BY <1>1, <2>2, <2>3 DEF Positions
    <3>2. QED
      BY <2>1, <3>1 DEF ShownUpTo
  <2>4. CASE i = h
    BY <1>2, <2>1, <2>4 DEF Known
  <2>5. CASE i > h
    <3>1. h \in 1..(i - 1)
      BY <1>1, <2>2, <2>5 DEF Positions
    <3>2. stream[h] \in ShownUpTo(i - 1)
      BY <3>1 DEF ShownUpTo
    <3>3. PICK j \in 1..(k - 1) : feed[j] = stream[h]
      BY <2>1, <3>2
    <3>4. feed \in Seq(Entries)
      BY DEF TypeOK
    <3>5. j \in DOMAIN feed
      BY <1>2, <3>3, <3>4
    <3>6. QED
      BY <3>3, <3>5 DEF Known
  <2>6. QED
    BY <1>1, <2>2, <2>3, <2>4, <2>5
<1>3. QED
  BY <1>2 DEF Known

LEMMA ReceiveKeepsFeed ==
  ASSUME TypeOK, FeedInv, Receive
  PROVE  FeedInv'
<1> DEFINE h == Head(wire)
<1> DEFINE e == stream[h]
<1> DEFINE fresh == Feedable(e) /\ ~Known(e)
<1>1. /\ wire # <<>> /\ wire' = Tail(wire) /\ cursor' = cursor /\ conn' = conn
      /\ stream' = stream /\ feed' = IF fresh THEN Append(feed, e) ELSE feed
  BY DEF Receive, request, worker
<1>2. /\ h = (cursor - Len(wire)) + 1 /\ h \in Positions /\ h \in Nat
      /\ conn \in {"tail", "ended"}
      /\ Len(wire') = Len(wire) - 1 /\ Len(wire) \in Nat /\ Len(wire) > 0 /\ cursor \in Nat
      /\ \A k \in DOMAIN wire' : k + 1 \in DOMAIN wire /\ wire'[k] = wire[k + 1] /\ k \in Nat
  BY <1>1, HeadIsNext DEF Positions
<1>3. WireRuns'
  <2>1. \A k \in DOMAIN wire' : wire'[k] = (cursor' - Len(wire')) + k
    <3>1. SUFFICES ASSUME NEW k \in DOMAIN wire' PROVE wire'[k] = (cursor' - Len(wire')) + k
      OBVIOUS
    <3>2. wire[k + 1] = (cursor - Len(wire)) + (k + 1)
      BY <1>2, <3>1 DEF FeedInv, WireRuns
    <3>3. QED
      BY <1>1, <1>2, <3>1, <3>2
  <2>2. Len(wire') <= cursor'
    BY <1>1, <1>2 DEF FeedInv, WireRuns
  <2>3. QED
    BY <1>1, <1>2, <2>1, <2>2 DEF FeedInv, WireRuns
<1>4. feed \in Seq(Entries) /\ Len(feed) \in Nat /\ DOMAIN feed = 1..Len(feed)
  BY DEF TypeOK
<1>5. \A x \in ShownUpTo(h - 1) : Known(x)
  <2>1. cursor - Len(wire) = h - 1
    BY <1>2
  <2>2. QED
    BY <1>2, <2>1 DEF FeedInv, ShowsRest
<1>6. \A x \in ShownUpTo(h) : x \in ShownUpTo(h - 1) \/ (x = e /\ Feedable(e))
  <2>1. \A i \in 1..h : i \in 1..(h - 1) \/ i = h
    BY <1>2
  <2>2. QED
    BY <2>1 DEF ShownUpTo
<1>7. cursor' - Len(wire') = h /\ (\A n : ShownUpTo(n)' = ShownUpTo(n))
  BY <1>1, <1>2 DEF ShownUpTo, Feedable
<1>8. CASE ~fresh
  <2>1. FeedIsPrefix' /\ (\A x : Known(x)' <=> Known(x))
    BY <1>1, <1>8, SameFeed
  <2>2. \A x \in ShownUpTo(h) : Known(x)'
    BY <1>5, <1>6, <1>8, <2>1
  <2>3. ShowsRest'
    BY <1>7, <2>2 DEF ShowsRest
  <2>4. QED
    BY <1>3, <2>1, <2>3 DEF FeedInv
<1>9. CASE fresh
  <2>1. /\ feed' = Append(feed, e) /\ DOMAIN feed' = 1..(Len(feed) + 1)
        /\ \A k \in DOMAIN feed : feed'[k] = feed[k]
        /\ feed'[Len(feed) + 1] = e
    BY <1>1, <1>4, <1>9
  <2>2. \A x : Known(x)' <=> Known(x) \/ x = e
    BY <1>4, <2>1 DEF Known
  <2>3. \A k \in DOMAIN feed' :
          {feed'[j] : j \in 1..(k - 1)} = {feed[j] : j \in 1..(k - 1)}
    <3>1. \A k \in DOMAIN feed' : \A j \in 1..(k - 1) : j \in DOMAIN feed
      BY <1>4, <2>1
    <3>2. QED
      BY <2>1, <3>1
  <2>4. FeedIsPrefix'
    <3>1. SUFFICES ASSUME NEW k \in DOMAIN feed'
                   PROVE  \E i \in Positions :
                            /\ feed'[k] = stream[i] /\ Feedable(feed'[k])
                            /\ feed'[k] \notin ShownUpTo(i - 1)
                            /\ {feed[j] : j \in 1..(k - 1)} = ShownUpTo(i - 1)
      BY <1>1, <1>7, <2>3 DEF FeedIsPrefix, Positions, Feedable
    <3>2. CASE k \in DOMAIN feed
      BY <2>1, <3>2 DEF FeedInv, FeedIsPrefix
    <3>3. CASE k \notin DOMAIN feed
      <4>1. k = Len(feed) + 1 /\ 1..(k - 1) = DOMAIN feed
        BY <1>4, <2>1, <3>1, <3>3
      <4>2. /\ e \notin ShownUpTo(h - 1)
            /\ {feed[j] : j \in DOMAIN feed} = ShownUpTo(h - 1)
        BY <1>2, <1>5, <1>9, FreshIsFirst DEF FeedInv
      <4>3. QED
        BY <1>2, <1>9, <2>1, <4>1, <4>2
    <3>4. QED
      BY <3>2, <3>3
  <2>5. ShowsRest'
    <3>1. \A x \in ShownUpTo(h) : Known(x)'
      BY <1>5, <1>6, <2>2
    <3>2. QED
      BY <1>7, <3>1 DEF ShowsRest
  <2>6. QED
    BY <1>3, <2>4, <2>5 DEF FeedInv
<1>10. QED
  BY <1>8, <1>9

LEMMA NoneShown == ShownUpTo(0) = {}
BY DEF ShownUpTo

LEMMA FeedInit == Init => FeedInv
<1>1. SUFFICES ASSUME Init PROVE FeedInv
  OBVIOUS
<1>2. feed = <<>> /\ wire = <<>> /\ cursor = 0 /\ conn = "closed"
  BY <1>1 DEF Init
<1>3. Len(wire) = 0 /\ DOMAIN wire = {} /\ DOMAIN feed = {}
  BY <1>2
<1>4. QED
  BY <1>2, <1>3 DEF FeedInv, FeedIsPrefix, WireRuns, ShowsRest

\* The request's own steps.
LEMMA ReplayKeepsFeed ==
  ASSUME TypeOK, FeedInv, Replay
  PROVE  FeedInv'
<1>1. /\ conn = "opened" /\ cursor = 0 /\ wire = <<>> /\ conn' \in {"tail", "ended"}
      /\ feed' = feed /\ stream' = stream
  <2>1. Len(wire) = 0
    BY DEF TypeOK, Replay, FeedInv, WireRuns
  <2>2. wire = <<>>
    BY <2>1 DEF TypeOK
  <2>3. QED
    BY <2>2 DEF Replay, FeedInv, WireRuns, page, worker
<1>2. Len(stream) \in Nat
  BY DEF TypeOK
<1>3. cursor' - Len(wire') = 0 /\ Len(wire') <= cursor' /\ Len(wire') \in Nat
      /\ \A k \in DOMAIN wire' : wire'[k] = k /\ k \in Nat
  <2>1. CASE wire' = wire \o [i \in 1..Len(stream) |-> i] /\ cursor' = Len(stream)
    <3>1. wire' = [i \in 1..Len(stream) |-> i]
      <4>1. [i \in 1..Len(stream) |-> i] \in Seq(Nat)
        BY <1>2
      <4>2. QED
        BY <1>1, <2>1, <4>1
    <3>2. Len(wire') = Len(stream) /\ DOMAIN wire' = 1..Len(stream)
      BY <1>2, <3>1
    <3>3. QED
      BY <1>2, <2>1, <3>1, <3>2
  <2>2. CASE wire' = wire /\ cursor' = cursor
    <3>1. Len(wire') = 0 /\ DOMAIN wire' = {}
      BY <1>1, <2>2
    <3>2. cursor' = 0
      BY <1>1, <2>2
    <3>3. QED
      BY <3>1, <3>2
  <2>3. QED
    BY <2>1, <2>2 DEF Replay
<1>4. WireRuns' /\ ShowsRest'
  <2>1. ShownUpTo(cursor - Len(wire))' = {}
    BY <1>3, NoneShown DEF ShownUpTo
  <2>2. QED
    BY <1>1, <1>3, <2>1 DEF WireRuns, ShowsRest
<1>5. QED
  BY <1>1, <1>4, SameFeed DEF FeedInv

LEMMA ForwardKeepsFeed ==
  ASSUME TypeOK, FeedInv, Forward
  PROVE  FeedInv'
<1>1. /\ wire \in Seq(Nat) /\ Len(wire) \in Nat /\ cursor \in Nat /\ cursor' = cursor + 1
      /\ wire' = Append(wire, cursor + 1) /\ conn = "tail" /\ conn' \in {"tail", "ended"}
      /\ feed' = feed /\ stream' = stream
  BY DEF TypeOK, Forward, Positions, page, worker
<1>2. /\ Len(wire') = Len(wire) + 1 /\ DOMAIN wire' = 1..(Len(wire) + 1)
      /\ DOMAIN wire = 1..Len(wire)
      /\ \A k \in DOMAIN wire : wire'[k] = wire[k]
      /\ wire'[Len(wire) + 1] = cursor + 1
  BY <1>1
<1>3. \A k \in DOMAIN wire' : wire'[k] = (cursor' - Len(wire')) + k
  <2>1. SUFFICES ASSUME NEW k \in DOMAIN wire' PROVE wire'[k] = (cursor' - Len(wire')) + k
    OBVIOUS
  <2>2. CASE k \in DOMAIN wire
    <3>1. wire[k] = (cursor - Len(wire)) + k
      BY <2>2 DEF FeedInv, WireRuns
    <3>2. QED
      BY <1>1, <1>2, <2>1, <2>2, <3>1
  <2>3. CASE k = Len(wire) + 1
    BY <1>1, <1>2, <2>3
  <2>4. QED
    BY <1>1, <1>2, <2>1, <2>2, <2>3
<1>4. ShowsRest'
  <2>1. cursor' - Len(wire') = cursor - Len(wire)
    BY <1>1, <1>2
  <2>2. QED
    BY <1>1, <2>1, SameFeed DEF FeedInv, ShowsRest
<1>5. WireRuns'
  BY <1>1, <1>2, <1>3 DEF FeedInv, WireRuns
<1>6. QED
  BY <1>1, <1>4, <1>5, SameFeed DEF FeedInv

LEMMA FeedStep == TypeOK /\ FeedInv /\ [Next]_vars => FeedInv'
<1>1. SUFFICES ASSUME TypeOK, FeedInv, [Next]_vars PROVE FeedInv'
  OBVIOUS
<1>2. ASSUME NEW w \in Handlers, Handle(w) \/ Kill(w) PROVE FeedInv'
  <2>1. \E e : stream' = stream \/ stream' = Append(stream, e)
    BY <1>1, <1>2, HandlerTyped, TypeParts
  <2>2. UNCHANGED reader
    BY <1>1, <1>2, HandlerTyped, TypeParts
  <2>3. QED
    BY <1>1, <2>1, <2>2, AppendKeepsFeed
<1>3. CASE Replay
  BY <1>1, <1>3, ReplayKeepsFeed
<1>4. CASE Forward
  BY <1>1, <1>4, ForwardKeepsFeed
<1>5. CASE Receive
  BY <1>1, <1>5, ReceiveKeepsFeed
<1>6. Len(wire) \in Nat /\ cursor \in Nat /\ wire \in Seq(Positions)
  BY <1>1 DEF TypeOK
<1>7. CASE Connect \/ Refuse
  <2>1. wire = <<>> /\ wire' = wire /\ feed' = feed /\ stream' = stream
    BY <1>1, <1>7 DEF Connect, Refuse, TypeOK, page, worker
  <2>2. \/ conn' = "opened" /\ cursor' = 0
        \/ conn' = "refused" /\ cursor' = cursor
    BY <1>7 DEF Connect, Refuse
  <2>3. Len(wire') = 0 /\ DOMAIN wire' = {}
    BY <2>1
  <2>4. ShowsRest'
    <3>1. CASE conn' = "opened" /\ cursor' = 0
      <4>1. ShownUpTo(cursor - Len(wire))' = {}
        BY <2>3, <3>1 DEF ShownUpTo
      <4>2. QED
        BY <4>1 DEF ShowsRest
    <3>2. QED
      BY <2>2, <3>1 DEF ShowsRest
  <2>5. QED
    BY <1>1, <1>6, <2>1, <2>2, <2>3, <2>4, SameFeed DEF FeedInv, WireRuns
<1>8. CASE TailFails
  <2>1. /\ wire' = wire /\ cursor' = cursor /\ feed' = feed /\ stream' = stream
        /\ conn' = "ended" /\ conn = "tail"
    BY <1>8 DEF TailFails, page, worker
  <2>2. QED
    BY <1>1, <2>1, SameFeed DEF FeedInv, WireRuns, ShowsRest
<1>9. CASE Close \/ Cut
  <2>1. /\ wire' = <<>> /\ cursor' = 0 /\ feed' = feed /\ stream' = stream
        /\ conn' = "closed"
    BY <1>9 DEF Close, Cut, page, worker
  <2>2. Len(wire') = 0 /\ DOMAIN wire' = {}
    BY <2>1
  <2>3. QED
    BY <1>1, <2>1, <2>2, SameFeed DEF FeedInv, WireRuns, ShowsRest
<1>10. CASE Reload
  <2>1. wire' = <<>> /\ cursor' = 0 /\ feed' = <<>> /\ conn' = "closed"
    BY <1>10 DEF Reload
  <2>2. Len(wire') = 0 /\ DOMAIN wire' = {} /\ DOMAIN feed' = {}
    BY <2>1
  <2>3. QED
    BY <2>1, <2>2 DEF FeedInv, FeedIsPrefix, WireRuns, ShowsRest
<1>11. CASE FetchRead \/ FetchFails \/ FetchApply \/ UNCHANGED vars
  <2>1. /\ wire' = wire /\ cursor' = cursor /\ feed' = feed /\ stream' = stream
        /\ conn' = conn
    BY <1>11 DEF FetchRead, FetchFails, FetchApply, vars, worker, reader, request, page
  <2>2. QED
    BY <1>1, <2>1, SameFeed DEF FeedInv, WireRuns, ShowsRest
<1>12. QED
  BY <1>1, <1>2, <1>3, <1>4, <1>5, <1>7, <1>8, <1>9, <1>10, <1>11 DEF Next

THEOREM FeedHolds == Spec => []FeedInv
<1>1. QED
  BY TypeCorrect, FeedInit, FeedStep, PTL DEF Spec

\* Whatever is lost, cut, replayed or reloaded, however long the run, and however
\* many handlers publish the same events, the page shows an initial part of what the
\* stream has for it, each id once.
THEOREM FeedHasNoGap == Spec => []FeedIsPrefix
<1>1. FeedInv => FeedIsPrefix
  BY DEF FeedInv
<1>2. QED
  BY <1>1, FeedHolds, PTL

\* The hand-over from XRANGE to XREAD loses nothing, for every stream.
THEOREM HandOver == Spec => []TailCatchesUp
<1>1. TypeOK /\ FeedInv => TailCatchesUp
  <2>1. SUFFICES ASSUME TypeOK, FeedInv, conn = "tail", wire = <<>>
                 PROVE  \A e \in ShownUpTo(cursor) : Known(e)
    BY DEF TailCatchesUp
  <2>2. cursor - Len(wire) = cursor
    BY <2>1 DEF TypeOK
  <2>3. QED
    BY <2>1, <2>2 DEF FeedInv, ShowsRest
<1>2. QED
  BY <1>1, TypeCorrect, FeedHolds, PTL
-----------------------------------------------------------------------------
(* The page against the row.                                               *)

\* The package is stored before anything says so, and an answer is never ahead of
\* the row.
SuccessFirst ==
  /\ status = "succeeded" \/ Has("done") => stored
  /\ \A w \in Handlers : pc[w] = "doneCard" => stored
  /\ reply[1] = "succeeded" \/ reply[2] => stored

\* A handler has given up before anything says so.
FailureFirst ==
  /\ status = "failed" \/ Has("failed") \/ reply[1] = "failed" => gaveUp
  /\ \A w \in Handlers : pc[w] \in {"refuseCard", "failCard"} => gaveUp

RowInv == SuccessFirst /\ FailureFirst /\ ShownIsRow

\* Of the handlers' steps one publishes a card, and only what its handler owes.
LEMMA PublishKeepsRow ==
  ASSUME TypeOK, RowInv, NEW e \in Entries, Publish(e),
         UNCHANGED <<row, gaveUp, reader>>,
         e[1] = "done" => stored, e[1] = "failed" => gaveUp,
         \A w \in Handlers : pc'[w] \in {pc[w], "over"}
  PROVE  RowInv'
<1>1. stream \in Seq(Entries) /\ (stream' = stream \/ stream' = Append(stream, e))
  BY DEF TypeOK, Publish
<1>2. \A kind : Has(kind)' => Has(kind) \/ kind = e[1]
  BY <1>1 DEF Has, KindAt
<1>3. /\ status' = status /\ stored' = stored /\ gaveUp' = gaveUp /\ reply' = reply
      /\ done' = done /\ failed' = failed /\ links' = links
  BY DEF row, reader, page
<1>4. SuccessFirst' /\ FailureFirst'
  BY <1>2, <1>3 DEF RowInv, SuccessFirst, FailureFirst
<1>5. ShownIsRow'
  BY <1>3 DEF RowInv, ShownIsRow
<1>6. QED
  BY <1>4, <1>5 DEF RowInv

LEMMA RowStep == TypeOK /\ RowInv /\ [Next]_vars => RowInv'
<1>1. SUFFICES ASSUME TypeOK, RowInv, [Next]_vars PROVE RowInv'
  OBVIOUS
<1>2. pc \in [Handlers -> HandlerSteps] /\ stream \in Seq(Entries) /\ DOMAIN stream = Positions
  BY <1>1 DEF TypeOK, Positions
<1>3. ASSUME NEW w \in Handlers, Handle(w) \/ Kill(w) PROVE RowInv'
  <2>1. step[w] \in 0..Events /\ Events \in Nat
    BY <1>1, BoundsAssumption DEF TypeOK
  <2>2. CASE Progress(w)
    <3> DEFINE e == <<IF step[w] + 1 \in Quiet THEN "quiet" ELSE "phase", step[w] + 1>>
    <3>1. e \in Entries /\ e[1] \notin {"done", "failed"}
      BY <2>1 DEF Entries, Kinds
    <3>2. Publish(e) /\ UNCHANGED <<row, pc, gaveUp, reader>>
      BY <2>2 DEF Progress
    <3>3. QED
      BY <1>1, <3>1, <3>2, PublishKeepsRow
  <2>3. CASE EmitCard(w)
    <3>1. /\ Card(w) \in Entries
          /\ Card(w)[1] = "done" => pc[w] = "doneCard"
          /\ Card(w)[1] = "failed" => pc[w] \in {"refuseCard", "failCard"}
      BY <2>1, <2>3 DEF EmitCard, Card, Entries, Kinds
    <3>2. Publish(Card(w)) /\ UNCHANGED <<row, gaveUp, reader>>
      BY <2>3 DEF EmitCard
    <3>3. \A v \in Handlers : pc'[v] \in {pc[v], "over"}
      BY <1>2, <2>3 DEF EmitCard, Leave, Goto
    <3>4. QED
      BY <1>1, <3>1, <3>2, <3>3, PublishKeepsRow DEF RowInv, SuccessFirst, FailureFirst
  <2>4. CASE ~Progress(w) /\ ~EmitCard(w)
    <3>1. /\ stream' = stream /\ reply' = reply /\ done' = done /\ failed' = failed
          /\ links' = links
      BY <1>3, <2>4
      DEF Handle, ClaimRead, ClaimCommit, MarkRead, MarkCommit, FinRead, FinCommit, Kill,
          reader, page
    <3>2. /\ stored => stored'
          /\ gaveUp => gaveUp'
          /\ status' = "succeeded" => status = "succeeded" \/ stored'
          /\ status' = "failed" => status = "failed" \/ gaveUp'
      BY <1>3, <2>4
      DEF Handle, ClaimRead, ClaimCommit, MarkRead, MarkCommit, FinRead, FinCommit, Kill, row
    <3>3. \A v \in Handlers :
            /\ pc'[v] = "doneCard" => pc[v] = "doneCard" \/ stored'
            /\ pc'[v] \in {"refuseCard", "failCard"} =>
                 pc[v] \in {"refuseCard", "failCard"} \/ gaveUp'
      BY <1>2, <1>3, <2>4
      DEF Handle, ClaimRead, ClaimCommit, MarkRead, MarkCommit, FinRead, FinCommit, Kill,
          Leave, Goto
    <3>4. SuccessFirst' /\ FailureFirst'
      BY <1>1, <3>1, <3>2, <3>3 DEF RowInv, SuccessFirst, FailureFirst, Has, KindAt
    <3>5. ShownIsRow'
      BY <1>1, <3>1, <3>2 DEF RowInv, ShownIsRow
    <3>6. QED
      BY <3>4, <3>5 DEF RowInv
  <2>5. QED
    BY <2>2, <2>3, <2>4
<1>4. ASSUME UNCHANGED worker PROVE /\ status' = status /\ stored' = stored /\ gaveUp' = gaveUp
                                    /\ pc' = pc /\ stream' = stream
  BY <1>4 DEF worker, row, handler
<1>5. CASE Receive
  <2>1. wire # <<>> /\ Head(wire) \in Positions
    BY <1>1, <1>5 DEF Receive, TypeOK
  <2>2. Has(stream[Head(wire)][1])
    BY <1>2, <2>1 DEF Has, KindAt
  <2>3. /\ UNCHANGED worker /\ links' = links
        /\ failed' => failed \/ (stream[Head(wire)][1] = "failed" /\ done')
        /\ done' /\ ~failed' =>
             (done /\ ~failed) \/ stream[Head(wire)][1] = "done"
        /\ done => done'
    BY <1>5 DEF Receive, Show
  <2>4. reply' \in {reply, Nothing}
    BY <1>5 DEF Receive, Refetch, Ask
  <2>5. SuccessFirst' /\ FailureFirst'
    <3>1. CASE reply' = reply
      BY <1>1, <1>4, <2>3, <3>1 DEF RowInv, SuccessFirst, FailureFirst, Has, KindAt
    <3>2. CASE reply' = Nothing
      BY <1>1, <1>4, <2>3, <3>2
      DEF RowInv, SuccessFirst, FailureFirst, Has, KindAt, Nothing
    <3>3. QED
      BY <2>4, <3>1, <3>2
  <2>6. ShownIsRow'
    BY <1>1, <1>4, <2>2, <2>3 DEF RowInv, SuccessFirst, FailureFirst, ShownIsRow
  <2>7. QED
    BY <2>5, <2>6 DEF RowInv
<1>6. CASE FetchRead
  <2>1. UNCHANGED <<worker, done, failed, links>> /\ reply' = <<status, stored>>
    BY <1>6 DEF FetchRead, row
  <2>2. QED
    BY <1>1, <1>4, <2>1 DEF RowInv, SuccessFirst, FailureFirst, ShownIsRow, Has, KindAt
<1>7. CASE FetchApply
  <2>1. /\ UNCHANGED worker /\ reply' = Nothing /\ links' = reply[2]
        /\ done' = (done \/ reply[1] = "succeeded" \/ reply[1] = "failed")
        /\ failed' = (failed \/ reply[1] = "failed")
    BY <1>7 DEF FetchApply, Show, ReplyFailed
  <2>2. SuccessFirst' /\ FailureFirst'
    BY <1>1, <1>4, <2>1 DEF RowInv, SuccessFirst, FailureFirst, Has, KindAt, Nothing
  <2>3. ShownIsRow'
    BY <1>1, <1>4, <2>1 DEF RowInv, SuccessFirst, FailureFirst, ShownIsRow
  <2>4. QED
    BY <2>2, <2>3 DEF RowInv
<1>8. CASE Reload
  <2>1. UNCHANGED worker /\ ~done' /\ ~failed' /\ ~links' /\ reply' = Nothing
    BY <1>8 DEF Reload
  <2>2. QED
    BY <1>1, <1>4, <2>1
    DEF RowInv, SuccessFirst, FailureFirst, ShownIsRow, Has, KindAt, Nothing
<1>9. CASE Connect \/ Refuse \/ Replay \/ Forward \/ TailFails \/ Close \/ Cut
          \/ FetchFails \/ UNCHANGED vars
  <2>1. UNCHANGED worker /\ UNCHANGED <<done, failed, links, reply>>
    BY <1>9
    DEF Connect, Refuse, Replay, Forward, TailFails, Close, Cut, FetchFails, vars, reader, page
  <2>2. QED
    BY <1>1, <1>4, <2>1 DEF RowInv, SuccessFirst, FailureFirst, ShownIsRow, Has, KindAt
<1>10. QED
  BY <1>1, <1>3, <1>5, <1>6, <1>7, <1>8, <1>9 DEF Next

\* However the run's handlers overlap and write over each other, and for every
\* sequence of faults, the page says its package is ready, and links to it, only when
\* the run has it, and shows a failure only of a run that a handler gave up.
THEOREM PageShowsRow == Spec => []ShownIsRow
<1>1. Init => RowInv
  BY DEF Init, RowInv, SuccessFirst, FailureFirst, ShownIsRow, Has, KindAt, Nothing
<1>2. RowInv => ShownIsRow
  BY DEF RowInv
<1>3. QED
  BY <1>1, <1>2, RowStep, TypeCorrect, PTL DEF Spec
=============================================================================
