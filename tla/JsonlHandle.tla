----------------------------- MODULE JsonlHandle -----------------------------
(***************************************************************************)
(* The write handle of one stored session                                  *)
(* (packages/session/session-persistence-jsonl/src/storage.ts): a live     *)
(* write-behind buffer and explicit operations on one chain, over an       *)
(* append-only artifact (src/index.ts).  Writes fail, and so may the       *)
(* rollback of one; the process crashes, and the next write handle finds a *)
(* torn tail; the timer of a closed handle fires behind the next open.     *)
(*                                                                         *)
(* Events are numbered in publication order from 1.  An action ends where  *)
(* the code awaits the file system or a timer; what follows by microtasks  *)
(* alone belongs to the action.                                            *)
(***************************************************************************)
EXTENDS Naturals, Sequences, SequencesExt, FiniteSetsExt

CONSTANTS
  Flushers,         \* who calls session/flush
  MaxEvents,        \* bound: events of the session
  MaxFaults,        \* bound: failing storage operations
  MaxOpens          \* bound: further opens, behind a crash or a close

ASSUME HandleAssumption ==
  /\ IsFiniteSet(Flushers) /\ "none" \notin Flushers
  /\ MaxEvents \in Nat /\ MaxFaults \in Nat /\ MaxOpens \in Nat

VARIABLES
  pub,       \* events of the in-memory session
  disk,      \* the artifact: whole frames, and the records of a torn last one
  h,         \* the handle's fields
  late,      \* a closed handle that the next open left with something to run
  chain,     \* operations queued on the handle's promise chain
  op,        \* the chained operation that awaits storage
  waiters,   \* session/flush calls in progress
  promised,  \* history: the appended events that a resolved flush covered
  spoiled,   \* history: a rollback failed, or a closed handle wrote behind an open; bound:
             \* what is under way then is followed to its end, without new events or opens
  faults, opens

vars == <<pub, disk, h, late, chain, op, waiters, promised, spoiled, faults, opens>>

NoOp == [kind |-> "none", batch |-> <<>>, stage |-> "none", for |-> "none"]
Numbers(from, to) == [k \in 1..(to - from + 1) |-> from + k - 1]
Records(d) == d.whole \o d.tail

\* The handle create() or a write open() mints over the artifact d.
Opened(d) ==
  [state |-> "open", setup |-> "fresh", lease |-> IF d.made THEN "held" ELSE "none",
   cursor |-> Len(Records(d)), materialized |-> d.made,
   torn |-> d.torn, recovered |-> d.tail,
   buffered |-> <<>>, timer |-> FALSE, paused |-> FALSE, draining |-> FALSE,
   awaits |-> 0]

NoLog == [made |-> FALSE, whole |-> <<>>, tail |-> <<>>, torn |-> FALSE]

\* What a closed handle still has ahead: its timer, over what it has not written.
Remnant(x) ==
  [timer |-> x.timer, lease |-> x.lease, materialized |-> x.materialized, torn |-> x.torn,
   offset |-> x.cursor - Len(x.recovered), batch |-> x.recovered \o x.buffered]
Nothing == Remnant(Opened(NoLog))

Init ==
  /\ pub = 0 /\ disk = NoLog /\ h = Opened(disk) /\ late = Nothing
  /\ chain = <<>> /\ op = NoOp
  /\ waiters = [f \in Flushers |-> [at |-> "idle", upTo |-> 0]]
  /\ promised = 0 /\ spoiled = FALSE /\ faults = 0 /\ opens = 0

-----------------------------------------------------------------------------
(* Live events, timers and drains.                                         *)

DrainOp == [kind |-> "drain", batch |-> <<>>, stage |-> "queued", for |-> "none"]
FlushOp(f) == [kind |-> "flush", batch |-> <<>>, stage |-> "queued", for |-> f]

\* drainBuffered() clears the timer and the pause, then queues its first batch.
DrainStarted == [h EXCEPT !.timer = FALSE, !.paused = FALSE, !.draining = h.buffered # <<>>]
DrainQueued == IF h.buffered = <<>> THEN chain ELSE Append(chain, DrainOp)

\* enqueueLive() arms the window unless it is armed or a drain failed.
Arm == h.timer \/ ~h.paused

\* What close() awaited is over: it goes on before any timer or storage completes.
CloseDue == h.state \in {"settling", "settled"} /\ h.awaits = 0

\* Events and flushes are routed to the handle as long as its claim stands, also
\* while close() waits.
Routed == h.setup = "live" /\ h.state # "closed"

Publish ==
  /\ Routed /\ pub < MaxEvents /\ ~spoiled
  /\ pub' = pub + 1
  /\ h' = [h EXCEPT !.buffered = Append(@, pub + 1), !.timer = Arm]
  /\ UNCHANGED <<disk, chain, op, waiters, promised, late, spoiled, faults, opens>>

\* The batching window expires; a drain that runs already is joined.
TimerFires ==
  /\ h.timer /\ ~CloseDue
  /\ IF h.draining THEN h' = [h EXCEPT !.timer = FALSE] /\ UNCHANGED chain
                   ELSE h' = DrainStarted /\ chain' = DrainQueued
  /\ UNCHANGED <<pub, disk, op, waiters, promised, late, spoiled, faults, opens>>

\* The session goes live, behind the events its setup stored.
GoLive ==
  /\ h.setup = "fresh" /\ h.state # "closed"
  /\ h' = [h EXCEPT !.setup = "live"]
  /\ UNCHANGED <<pub, disk, chain, op, waiters, promised, late, spoiled, faults, opens>>

\* append(): closers or seed events, before the session is published.
AppendSetup(n) ==
  /\ h.setup = "fresh" /\ h.state = "open" /\ pub + n <= MaxEvents /\ ~spoiled
  /\ pub' = pub + n
  /\ h' = [h EXCEPT !.setup = "appending"]
  /\ chain' = Append(chain, [kind |-> "append", batch |-> Numbers(pub + 1, pub + n),
                             stage |-> "queued", for |-> "none"])
  /\ UNCHANGED <<disk, op, waiters, promised, late, spoiled, faults, opens>>

\* The flush calls in fs, behind the drain they waited for, queue their barrier;
\* a closing handle refuses it.
Barriers(fs) == IF h.state = "open" THEN SetToSeq({FlushOp(f) : f \in fs}) ELSE <<>>
Barred(fs) == [f \in Flushers |->
  IF f \notin fs THEN waiters[f]
  ELSE IF h.state = "open" THEN [waiters[f] EXCEPT !.at = "flush"] ELSE [at |-> "idle", upTo |-> 0]]

\* session/flush: drainLive(), then flush().
Flush(f) ==
  /\ Routed /\ waiters[f].at = "idle"
  /\ IF h.buffered = <<>> /\ ~h.draining
     THEN /\ waiters' = [Barred({f}) EXCEPT ![f].upTo = IF h.state = "open" THEN pub ELSE 0]
          /\ h' = DrainStarted /\ chain' = chain \o Barriers({f})
     ELSE /\ waiters' = [waiters EXCEPT ![f] = [at |-> "drain", upTo |-> pub]]
          /\ IF h.draining THEN UNCHANGED <<h, chain>>
                           ELSE h' = DrainStarted /\ chain' = DrainQueued
  /\ UNCHANGED <<pub, disk, op, promised, late, spoiled, faults, opens>>

-----------------------------------------------------------------------------
(* The chain.                                                              *)

Contiguous(batch) == batch[1] = h.cursor + 1

\* persistContiguous(): the torn tail first, then what was recovered from it.
FirstStage(batch) ==
  IF ~Contiguous(batch) THEN "refused"
  ELSE IF h.torn THEN "truncate"
  ELSE IF h.recovered # <<>> THEN "rewrite" ELSE "write"

\* ensureLease() takes the lock unless there is a lease, a released one included.
Stage(kind, batch) == IF kind = "flush" THEN "header" ELSE FirstStage(batch)
Begun(o) == [o EXCEPT !.stage = IF h.lease = "none" THEN "acquire" ELSE Stage(o.kind, o.batch)]

\* The next operation of a kind has its turn; the storage step of one completes.
Turn(kind) == op = NoOp /\ chain # <<>> /\ Head(chain).kind = kind /\ ~CloseDue
At(stages) == op.stage \in stages /\ ~CloseDue

\* A drain takes the whole buffer, in its chained turn.
StartDrain ==
  /\ Turn("drain")
  /\ op' = Begun([Head(chain) EXCEPT !.batch = h.buffered])
  /\ h' = [h EXCEPT !.buffered = <<>>]
  /\ chain' = Tail(chain)
  /\ UNCHANGED <<pub, disk, waiters, promised, late, spoiled, faults, opens>>

\* One chained operation is over; close() counts those it awaits.
OneLess(n) == IF n = 0 THEN 0 ELSE n - 1

StartAppend ==
  /\ Turn("append")
  /\ chain' = Tail(chain)
  /\ IF h.state = "open"
     THEN op' = Begun(Head(chain)) /\ UNCHANGED h
     ELSE h' = [h EXCEPT !.setup = "failed", !.awaits = OneLess(@)] /\ UNCHANGED op
  /\ UNCHANGED <<pub, disk, waiters, promised, late, spoiled, faults, opens>>

\* A resolved flush covers n events; what was recovered from a torn frame and
\* not yet written again was never appended.
Promise(n) == Max({promised, n - Len(h.recovered)})

\* A flush of a materialized log promises what its drain wrote; an empty log
\* is materialized; a closing handle refuses.
StartFlush ==
  /\ Turn("flush")
  /\ chain' = Tail(chain)
  /\ LET f == Head(chain).for
     IN IF h.state = "open" /\ ~h.materialized
        THEN op' = Begun(Head(chain)) /\ UNCHANGED <<h, waiters, promised>>
        ELSE /\ waiters' = [waiters EXCEPT ![f] = [at |-> "idle", upTo |-> 0]]
             /\ promised' = IF h.state = "open" THEN Promise(waiters[f].upTo) ELSE promised
             /\ h' = [h EXCEPT !.awaits = OneLess(@)]
             /\ UNCHANGED op
  /\ UNCHANGED <<pub, disk, late, spoiled, faults, opens>>

Acquire ==
  /\ At({"acquire"}) /\ late.lease # "held"
  /\ h' = [h EXCEPT !.lease = "held"]
  /\ op' = [op EXCEPT !.stage = Stage(op.kind, op.batch)]
  /\ UNCHANGED <<pub, disk, chain, waiters, promised, late, spoiled, faults, opens>>

\* The artifact, truncated behind its first n records: where a torn frame began.
CutBack(n) ==
  [disk EXCEPT !.whole = SubSeq(@, 1, Min({n, Len(disk.whole)})), !.tail = <<>>, !.torn = FALSE]

\* Mutant: what was recovered is not written again.
TruncateForgets ==
  /\ At({"truncate"})
  /\ disk' = CutBack(h.cursor - Len(h.recovered))
  /\ h' = [h EXCEPT !.torn = FALSE]
  /\ op' = [op EXCEPT !.stage = "write"]
  /\ UNCHANGED <<pub, chain, waiters, promised, late, spoiled, faults, opens>>

Truncate ==
  /\ At({"truncate"})
  /\ disk' = CutBack(h.cursor - Len(h.recovered))
  /\ h' = [h EXCEPT !.torn = FALSE]
  /\ op' = [op EXCEPT !.stage = IF h.recovered # <<>> THEN "rewrite" ELSE "write"]
  /\ UNCHANGED <<pub, chain, waiters, promised, late, spoiled, faults, opens>>

Rewrite ==
  /\ At({"rewrite"})
  /\ disk' = [disk EXCEPT !.whole = @ \o h.recovered]
  /\ h' = [h EXCEPT !.recovered = <<>>]
  /\ op' = [op EXCEPT !.stage = "write"]
  /\ UNCHANGED <<pub, chain, waiters, promised, late, spoiled, faults, opens>>

\* Mutant: a drain that is over still looks like one that runs.
DrainedKeeps(fields) ==
  IF fields.state = "closing"
  THEN [fields EXCEPT !.state = "settling", !.awaits = Len(chain)]
  ELSE [fields EXCEPT !.awaits = OneLess(@)]

\* The handle once a drain is over: close() goes on to await the chain.
Drained(fields) ==
  IF fields.state = "closing"
  THEN [fields EXCEPT !.draining = FALSE, !.state = "settling", !.awaits = Len(chain)]
  ELSE [fields EXCEPT !.draining = FALSE, !.awaits = OneLess(@)]

\* Mutant: close() goes round again, however often its drain fails.
DrainAgain(fields) == Drained(fields)

\* Behind a drain that failed close() looks at the buffer no more.
GivenUp(fields) ==
  IF fields.state = "closing"
  THEN [fields EXCEPT !.draining = FALSE, !.state = "settled", !.awaits = Len(chain)]
  ELSE [fields EXCEPT !.draining = FALSE, !.awaits = OneLess(@)]

AtDrain == {f \in Flushers : waiters[f].at = "drain"}

\* materialize() never replaces a log that exists.
Writable == h.materialized \/ ~disk.made

\* persistBatch() wrote and synced; bytes behind a torn frame are not readable.
Persisted(batch) ==
  IF disk.torn THEN disk ELSE [disk EXCEPT !.made = TRUE, !.whole = @ \o batch]
Advanced(batch) == [h EXCEPT !.materialized = TRUE, !.cursor = @ + Len(batch)]

WriteAppend ==
  /\ op.kind = "append" /\ At({"write"}) /\ Writable
  /\ disk' = Persisted(op.batch) /\ op' = NoOp
  /\ h' = [Advanced(op.batch) EXCEPT !.setup = "live", !.awaits = OneLess(@)]
  /\ UNCHANGED <<pub, chain, waiters, promised, late, spoiled, faults, opens>>

\* Mutant: a drain stores one batch only.
WriteOneBatch ==
  /\ op.kind = "drain" /\ At({"write"}) /\ Writable
  /\ disk' = Persisted(op.batch) /\ op' = NoOp
  /\ h' = Drained(Advanced(op.batch))
  /\ chain' = chain \o Barriers(AtDrain) /\ waiters' = Barred(AtDrain)
  /\ UNCHANGED <<pub, promised, late, spoiled, faults, opens>>

\* A batch is stored: the drain takes the next one, or is over.
WriteBatch ==
  /\ op.kind = "drain" /\ At({"write"}) /\ Writable
  /\ disk' = Persisted(op.batch) /\ op' = NoOp
  /\ IF h.buffered # <<>>
     THEN /\ h' = [Advanced(op.batch) EXCEPT !.awaits = OneLess(@)]
          /\ chain' = Append(chain, DrainOp) /\ UNCHANGED waiters
     ELSE /\ h' = Drained(Advanced(op.batch))
          /\ chain' = chain \o Barriers(AtDrain) /\ waiters' = Barred(AtDrain)
  /\ UNCHANGED <<pub, promised, late, spoiled, faults, opens>>

WriteHeader ==
  /\ At({"header"}) /\ Writable
  /\ disk' = [disk EXCEPT !.made = TRUE]
  /\ h' = [h EXCEPT !.materialized = TRUE, !.awaits = OneLess(@)]
  /\ op' = NoOp
  /\ waiters' = [waiters EXCEPT ![op.for] = [at |-> "idle", upTo |-> 0]]
  /\ promised' = Promise(waiters[op.for].upTo)
  /\ UNCHANGED <<pub, chain, late, spoiled, faults, opens>>

-----------------------------------------------------------------------------
(* Failures.                                                               *)

\* Mutant: a failed batch is put back behind what was buffered meanwhile.
RetainLate(batch) == h.buffered \o batch

\* A failed batch goes back in front of what was buffered meanwhile.
Retain(batch) == batch \o h.buffered

\* Everyone who waits for the operation sees it fail.
OpRejects ==
  /\ op' = NoOp
  /\ CASE op.kind = "drain" ->
            /\ h' = GivenUp([h EXCEPT !.buffered = Retain(op.batch), !.paused = TRUE])
            /\ waiters' = [f \in Flushers |-> IF f \in AtDrain THEN [at |-> "idle", upTo |-> 0] ELSE waiters[f]]
       [] op.kind = "append" ->
            h' = [h EXCEPT !.setup = "failed", !.awaits = OneLess(@)] /\ UNCHANGED waiters
       [] op.kind = "flush" ->
            /\ h' = [h EXCEPT !.awaits = OneLess(@)]
            /\ waiters' = [waiters EXCEPT ![op.for] = [at |-> "idle", upTo |-> 0]]
  /\ UNCHANGED <<pub, late, chain, promised, opens>>

\* A batch that does not continue the log, a log that already stands, or a lock
\* that a closed handle took and keeps.
OpRefused ==
  /\ \/ At({"refused"})
     \/ At({"write", "header"}) /\ ~Writable
     \/ At({"acquire"}) /\ late.lease = "held"
  /\ OpRejects
  /\ UNCHANGED <<disk, spoiled, faults>>

\* Storage fails and the artifact is as before, or is rolled back.
OpFails ==
  /\ op # NoOp /\ ~CloseDue /\ faults < MaxFaults
  /\ faults' = faults + 1
  /\ OpRejects
  /\ UNCHANGED <<disk, spoiled>>

\* A frame that was not written to its end: whole, or torn with n complete records.
CutShort(bytes, n) ==
  {Persisted(bytes)} \cup
  (IF disk.torn THEN {} ELSE {[disk EXCEPT !.tail = SubSeq(bytes, 1, n), !.torn = TRUE]})

\* The bytes an operation is appending.
Appending == IF op.stage = "rewrite" THEN h.recovered ELSE op.batch

\* An append fails and so does its rollback: what it wrote stays, and the cursor
\* does not know of it.
RollbackFails(n) ==
  /\ faults < MaxFaults /\ h.materialized /\ At({"rewrite", "write"})
  /\ faults' = faults + 1 /\ spoiled' = TRUE
  /\ disk' \in CutShort(Appending, Min({n, Len(Appending)}))
  /\ OpRejects

\* materialize() published the log and then failed to sync its directory.
PublishFails ==
  /\ faults < MaxFaults /\ ~h.materialized /\ ~disk.made /\ At({"write", "header"})
  /\ faults' = faults + 1
  /\ disk' = Persisted(op.batch)
  /\ OpRejects
  /\ UNCHANGED spoiled

-----------------------------------------------------------------------------
(* Close, crash and reopen.                                                *)

\* Operations that close() finds on the chain.
Pending == Len(chain) + (IF op = NoOp THEN 0 ELSE 1)

\* close() joins or starts a drain; with nothing to drain it awaits the chain.
DrainToClose ==
  IF h.draining THEN h' = [h EXCEPT !.state = "closing"] /\ UNCHANGED chain
  ELSE IF h.buffered = <<>>
  THEN h' = [DrainStarted EXCEPT !.state = "settling", !.awaits = Pending] /\ UNCHANGED chain
  ELSE h' = [DrainStarted EXCEPT !.state = "closing"] /\ chain' = DrainQueued

Close ==
  /\ h.state = "open"
  /\ DrainToClose
  /\ UNCHANGED <<pub, disk, op, waiters, promised, late, spoiled, faults, opens>>

\* The chain as close() found it is over: drain again, or await what runs now.
Settle ==
  /\ CloseDue /\ h.state = "settling"
  /\ IF h.buffered = <<>>
     THEN h' = [h EXCEPT !.state = "settled", !.awaits = Pending] /\ UNCHANGED chain
     ELSE DrainToClose
  /\ UNCHANGED <<pub, disk, op, waiters, promised, late, spoiled, faults, opens>>

\* A lease that was never taken is not released: only the claim is dropped.
Release ==
  /\ CloseDue /\ h.state = "settled"
  /\ h' = [h EXCEPT !.state = IF h.lease = "none" THEN "closed" ELSE "releasing"]
  /\ UNCHANGED <<pub, disk, chain, op, waiters, promised, late, spoiled, faults, opens>>

\* The kernel lock is gone, and with it the claim and the live route.
Released ==
  /\ h.state = "releasing"
  /\ h' = [h EXCEPT !.state = "closed", !.lease = "released"]
  /\ UNCHANGED <<pub, disk, chain, op, waiters, promised, late, spoiled, faults, opens>>

\* materialize() publishes a whole log or none.
Published(bytes) == {disk, [disk EXCEPT !.made = TRUE, !.whole = bytes]}

\* What a crash leaves of the artifact.
Survivors(n) ==
  CASE op.stage \in {"write", "header"} /\ ~disk.made -> Published(op.batch)
    [] op.stage \in {"rewrite", "write"} /\ h.materialized ->
         {disk} \cup CutShort(Appending, Min({n, Len(Appending)}))
    [] OTHER -> {disk}

\* The next owner opens the stored log (or creates it anew) and reads it.
OpenOver(d) ==
  /\ disk' = d /\ h' = Opened(d) /\ pub' = Len(Records(d))
  /\ chain' = <<>> /\ op' = NoOp
  /\ waiters' = [f \in Flushers |-> [at |-> "idle", upTo |-> 0]]
  /\ UNCHANGED <<promised, spoiled, faults>>

Crash(n) ==
  /\ opens < MaxOpens /\ ~spoiled /\ opens' = opens + 1
  /\ late' = Nothing
  /\ \E d \in Survivors(n) : OpenOver(d)

\* Something of a closed handle is left: an armed timer, or a lock that a drain
\* took behind the close.
Lingers == h.timer \/ h.lease = "held"

\* The claim is free, and the lock of a log that stands: the same process opens the
\* session again.  Bound: one handle that lingers at a time.
Reopen ==
  /\ opens < MaxOpens /\ ~spoiled /\ opens' = opens + 1
  /\ h.state = "closed" /\ op = NoOp /\ chain = <<>>
  /\ disk.made => h.lease # "held" /\ late.lease # "held"
  /\ ~Lingers \/ late = Nothing
  /\ late' = IF Lingers THEN Remnant(h) ELSE late
  /\ OpenOver(disk)

\* A handle that was opened over an older log truncates at the offset it knows, then
\* writes what it recovered and what it buffered.
Overwritten ==
  LET base == IF late.torn THEN CutBack(late.offset) ELSE disk
  IN IF base.torn THEN disk
     ELSE [base EXCEPT !.made = TRUE, !.whole = @ \o late.batch]

\* The timer of the closed handle fires and its drain runs through: under a lease
\* it released, or one it takes now; a lock or a log that is in its way refuses it.
LateDrain ==
  LET shut == late.lease = "none" /\ h.lease = "held"
      refused == shut \/ (~late.materialized /\ disk.made)
  IN /\ late.timer
     /\ late' = [Nothing EXCEPT !.lease = IF late.lease = "released" \/ shut THEN "none" ELSE "held"]
     /\ IF refused THEN UNCHANGED <<disk, spoiled>> ELSE disk' = Overwritten /\ spoiled' = TRUE
     /\ UNCHANGED <<pub, h, chain, op, waiters, promised, faults, opens>>

Chain ==
  \/ StartDrain \/ StartAppend \/ StartFlush \/ Acquire
  \/ Truncate \/ Rewrite \/ WriteAppend \/ WriteBatch \/ WriteHeader
  \/ OpRefused \/ OpFails \/ PublishFails \/ \E n \in 0..1 : RollbackFails(n)

Closing == Settle \/ Release \/ Released

Next ==
  \/ TimerFires \/ GoLive \/ Chain \/ Closing
  \/ Publish \/ Close \/ Reopen \/ LateDrain
  \/ \E n \in 1..2 : AppendSetup(n) \/ Crash(n - 1)
  \/ \E f \in Flushers : Flush(f)

Spec == Init /\ [][Next]_vars

\* Timers fire, storage operations settle and so do the awaits of close();
\* each of the three goes on whatever the others do.
FairSpec == Spec /\ WF_vars(TimerFires) /\ WF_vars(Chain) /\ WF_vars(Closing)
-----------------------------------------------------------------------------
(* Properties.                                                             *)

\* The handle's fields keep their ranges; a drain that looks as if it ran is one
\* that runs or is queued, and close() awaits no operation twice.
TypeOK ==
  /\ pub \in 0..MaxEvents /\ promised \in 0..MaxEvents
  /\ faults \in 0..MaxFaults /\ opens \in 0..MaxOpens
  /\ disk.made \in BOOLEAN /\ disk.torn \in BOOLEAN /\ (~disk.torn => disk.tail = <<>>)
  /\ h.state \in {"open", "closing", "settling", "settled", "releasing", "closed"}
  /\ h.setup \in {"fresh", "appending", "live", "failed"} /\ h.lease \in {"none", "held", "released"}
  /\ h.cursor \in 0..MaxEvents /\ h.awaits \in 0..Len(chain) + 1
  /\ op.stage \in {"none", "refused", "acquire", "truncate", "rewrite", "write", "header"}
  /\ h.draining => op.kind = "drain" \/ \E k \in DOMAIN chain : chain[k].kind = "drain"
  /\ \A f \in Flushers : waiters[f].at \in {"idle", "drain", "flush"}

\* Whatever fails or crashes, the stored events are the session's first ones, each
\* once and in order: until the rollback of a failed append fails too, or the timer
\* of a closed handle writes behind the next open.
StoredInOrder == ~spoiled => Records(disk) = Numbers(1, Len(Records(disk)))

\* No event is lost or doubled between the buffer, a failed write and the cursor,
\* whether the handle is open, closing or closed: it owes the log exactly the events
\* behind its cursor.  A later owner finds what was appended or stored whole before a
\* flush resolved, as long as the order of the log stands; records recovered from a
\* torn frame are not covered before they are written again.
NothingLost ==
  /\ h.setup = "live" =>
       (IF op.kind = "drain" THEN op.batch ELSE <<>>) \o h.buffered = Numbers(h.cursor + 1, pub)
  /\ ~spoiled => promised <= pub

\* A buffered event has a timer or a drain ahead, or a failure was reported: also one
\* that was published while close() waited.
NeverStranded == h.buffered # <<>> => h.timer \/ h.draining \/ h.paused

\* Storage is only written under the write lock.
WritesHoldTheLease == op.stage \in {"truncate", "rewrite", "write", "header"} => h.lease = "held"

\* Every flush comes back, also one that meets a failure or a close.
FlushSettles == \A f \in Flushers : waiters[f].at # "idle" ~> waiters[f].at = "idle"

\* A close comes to an end, however producers race it.
CloseSettles ==
  h.state \in {"closing", "settling", "settled", "releasing"} ~> h.state \in {"closed", "open"}

\* Whoever waits for the handle, to flush or to close it, comes back.
HandleSettles == FlushSettles /\ CloseSettles
=============================================================================
