-------------------------- MODULE JsonlHandleProofs --------------------------
(***************************************************************************)
(* Safety of the write handle for any number of events, flush callers,     *)
(* failing storage operations, further opens and crashes.                  *)
(*                                                                         *)
(* The argument is one partition.  The events of a live session are, in    *)
(* order: the whole frames of the artifact, what the handle recovered from *)
(* a torn one, the batch of the drain that writes, and the buffer.  The    *)
(* first two end at the cursor, the rest begins behind it.                 *)
(***************************************************************************)
EXTENDS JsonlHandle, FiniteSetTheorems, SequenceTheorems, TLAPS

-----------------------------------------------------------------------------
(* The inductive invariant.                                                *)

Kinds == {"none", "drain", "append", "flush"}
Operations == [kind : Kinds, batch : Seq(Nat),
               stage : {"none", "queued", "refused", "acquire", "truncate", "rewrite", "write", "header"},
               for : Flushers \cup {"none"}]
Typed(x) ==
  /\ DOMAIN x = {"state", "setup", "lease", "cursor", "materialized", "torn", "recovered",
                 "buffered", "timer", "paused", "draining", "awaits"}
  /\ x.state \in {"open", "closing", "settling", "settled", "releasing", "closed"}
  /\ x.setup \in {"fresh", "appending", "live", "failed"}
  /\ x.lease \in {"none", "held", "released"}
  /\ x.cursor \in Nat /\ x.awaits \in Nat
  /\ x.recovered \in Seq(Nat) /\ x.buffered \in Seq(Nat) /\ Len(x.recovered) <= x.cursor
Artifacts == {d \in [made : BOOLEAN, whole : Seq(Nat), tail : Seq(Nat), torn : BOOLEAN] :
                ~d.torn => d.tail = <<>>}
Waits == [at : {"idle", "drain", "flush"}, upTo : Nat]

Ranges ==
  /\ pub \in 0..MaxEvents /\ promised \in 0..MaxEvents
  /\ faults \in 0..MaxFaults /\ opens \in 0..MaxOpens /\ spoiled \in BOOLEAN
  /\ late.offset \in Nat /\ late.batch \in Seq(Nat)
  /\ disk \in Artifacts /\ Typed(h) /\ op \in Operations /\ chain \in Seq(Operations)
  /\ waiters \in [Flushers -> Waits]

\* Which operation may run.
Running ==
  /\ op.kind = "none" => op = NoOp
  /\ op.kind \in {"drain", "append"} => op.stage \in {"acquire", "refused", "truncate", "rewrite", "write"}
  /\ op.kind = "drain" => h.setup = "live" /\ h.draining
  /\ op.kind = "append" => h.setup = "appending" /\ chain = <<>>
  /\ op.kind = "flush" =>
       op.stage \in {"acquire", "header"} /\ op.batch = <<>> /\ h.setup = "live" /\ ~h.materialized

\* Which operations may be queued: one drain at most, whose turn finds a buffer.
Queue ==
  /\ \A k \in DOMAIN chain :
       /\ chain[k].kind # "none" /\ chain[k].stage = "queued"
       /\ chain[k].kind = "drain" =>
            h.setup = "live" /\ h.draining /\ op.kind # "drain" /\ h.buffered # <<>>
       /\ chain[k].kind = "append" => h.setup = "appending" /\ op = NoOp /\ Len(chain) = 1
       /\ chain[k].kind = "flush" => h.setup = "live" /\ chain[k].batch = <<>>
  /\ \A j, k \in DOMAIN chain : chain[j].kind = "drain" /\ chain[k].kind = "drain" => j = k

\* A handle that is not live yet has no producer; one that drains has its operation;
\* close() awaits no more operations than there are.
Producing == h.setup # "live" => h.buffered = <<>> /\ ~h.timer /\ ~h.draining
Drains == h.draining => op.kind = "drain" \/ \E k \in DOMAIN chain : chain[k].kind = "drain"
Counted == h.awaits <= Pending
Turns == Running /\ Queue /\ Producing /\ Drains /\ Counted

\* An operation goes through the repair of a torn tail before it writes.
Stages ==
  /\ op.stage = "truncate" => h.torn
  /\ op.stage \in {"rewrite", "write"} => ~h.torn
  /\ op.stage = "rewrite" => h.recovered # <<>>
  /\ op.stage = "write" => h.recovered = <<>>

\* What the artifact and the handle know of each other.
Stored ==
  /\ h.torn <=> disk.torn
  /\ disk.tail = IF disk.torn THEN h.recovered ELSE <<>>
  /\ ~disk.made => disk.whole = <<>> /\ ~h.materialized
  /\ disk.whole = Numbers(1, Len(disk.whole))
  /\ Len(disk.whole) <= pub /\ promised <= Len(disk.whole)
  /\ IF h.materialized
     THEN /\ h.cursor = Len(disk.whole) + Len(h.recovered)
          /\ h.recovered = Numbers(Len(disk.whole) + 1, h.cursor)
     ELSE h.cursor = 0 /\ h.recovered = <<>> /\ ~disk.torn
  /\ Stages

\* What is behind the cursor.
InFlight == IF op.kind = "drain" THEN op.batch ELSE <<>>
Behind ==
  /\ h.cursor <= pub
  /\ h.setup = "live" => InFlight \o h.buffered = Numbers(h.cursor + 1, pub)
  /\ h.setup = "fresh" => h.cursor = pub
  /\ op.kind = "append" => op.batch = Numbers(h.cursor + 1, pub)
  /\ \A k \in DOMAIN chain : chain[k].kind = "append" => chain[k].batch = Numbers(h.cursor + 1, pub)

\* A barrier has its caller, one at a time, and stands behind what it covers.
Barriered ==
  /\ \A f \in Flushers : waiters[f].upTo <= pub /\ (waiters[f].at = "flush" => waiters[f].upTo <= h.cursor)
  /\ op.kind = "flush" => op.for \in Flushers /\ waiters[op.for].at = "flush"
  /\ \A k \in DOMAIN chain : chain[k].kind = "flush" =>
       /\ chain[k].for \in Flushers /\ waiters[chain[k].for].at = "flush"
       /\ op.kind = "flush" => op.for # chain[k].for
  /\ \A j, k \in DOMAIN chain :
       chain[j].kind = "flush" /\ chain[k].kind = "flush" /\ chain[j].for = chain[k].for => j = k

\* The artifact is not vouched for behind a failed rollback or a late drain.
HandleInv == Ranges /\ Turns /\ NeverStranded /\ (~spoiled => Stored) /\ Behind /\ Barriered

-----------------------------------------------------------------------------
(* Runs of numbers.                                                        *)

LEMMA NumbersAre ==
  ASSUME NEW a \in Nat, NEW b \in Nat, a >= 1, a <= b + 1
  PROVE  /\ Numbers(a, b) \in Seq(Nat) /\ Len(Numbers(a, b)) = b + 1 - a
         /\ \A k \in 1..(b + 1 - a) : Numbers(a, b)[k] = a + k - 1
<1>1. b - a + 1 \in Nat /\ b - a + 1 = b + 1 - a
  OBVIOUS
<1>2. Numbers(a, b) \in [1..(b - a + 1) -> Nat]
  BY <1>1 DEF Numbers
<1>3. Numbers(a, b) \in Seq(Nat)
  BY <1>1, <1>2, SeqDef
<1>4. Len(Numbers(a, b)) = b - a + 1
  BY <1>1, <1>2, <1>3, LenProperties
<1>5. QED
  BY <1>1, <1>3, <1>4 DEF Numbers

\* Two sequences of numbers that agree are the same.
LEMMA SameNumbers ==
  ASSUME NEW s \in Seq(Nat), NEW a \in Nat, NEW b \in Nat, a >= 1, a <= b + 1,
         Len(s) = b + 1 - a, \A k \in 1..Len(s) : s[k] = a + k - 1
  PROVE  s = Numbers(a, b)
<1> DEFINE t == Numbers(a, b)
<1>1. t \in Seq(Nat) /\ Len(t) = b + 1 - a /\ (\A k \in 1..(b + 1 - a) : t[k] = a + k - 1)
  BY NumbersAre
<1> HIDE DEF t
<1>2. \A k \in 1..Len(s) : s[k] = t[k]
  BY <1>1
<1>3. s = t
  BY <1>1, <1>2, SeqEqual
<1>4. QED
  BY <1>3 DEF t

LEMMA NumbersJoin ==
  ASSUME NEW a \in Nat, NEW b \in Nat, NEW c \in Nat, a >= 1, a <= b + 1, b <= c
  PROVE  Numbers(a, b) \o Numbers(b + 1, c) = Numbers(a, c)
<1> DEFINE s == Numbers(a, b)
           t == Numbers(b + 1, c)
<1>1. s \in Seq(Nat) /\ Len(s) = b + 1 - a /\ (\A k \in 1..Len(s) : s[k] = a + k - 1)
  BY NumbersAre
<1>2. t \in Seq(Nat) /\ Len(t) = c - b /\ (\A k \in 1..Len(t) : t[k] = b + k)
  <2> DEFINE d == b + 1
  <2>1. d \in Nat /\ d >= 1 /\ d <= c + 1 /\ c + 1 - d = c - b /\ d = b + 1
    OBVIOUS
  <2> HIDE DEF d
  <2>2. LET u == Numbers(d, c) IN
        u \in Seq(Nat) /\ Len(u) = c + 1 - d /\ (\A k \in 1..(c + 1 - d) : u[k] = d + k - 1)
    BY <2>1, NumbersAre
  <2>3. t = Numbers(d, c)
    BY <2>1
  <2> HIDE DEF t
  <2>4. t \in Seq(Nat) /\ Len(t) = c - b
    BY <2>1, <2>2, <2>3
  <2>5. ASSUME NEW k \in 1..Len(t) PROVE t[k] = b + k
    BY <2>1, <2>2, <2>3, <2>4
  <2>6. QED
    BY <2>4, <2>5
<1> HIDE DEF s, t
<1>3. s \o t \in Seq(Nat) /\ Len(s \o t) = c + 1 - a
  BY <1>1, <1>2, ConcatProperties
<1>4. ASSUME NEW k \in 1..Len(s \o t) PROVE (s \o t)[k] = a + k - 1
  <2>1. CASE k <= Len(s)
    BY <1>1, <1>2, <1>3, <2>1, ConcatProperties
  <2>2. CASE k > Len(s)
    <3>1. (s \o t)[k] = t[k - Len(s)] /\ k - Len(s) \in 1..Len(t)
      BY <1>1, <1>2, <1>3, <2>2, ConcatProperties
    <3>2. QED
      BY <1>1, <1>2, <3>1
  <2>3. QED
    BY <1>1, <1>3, <2>1, <2>2
<1>5. s \o t = Numbers(a, c)
  <2>1. a <= c + 1
    OBVIOUS
  <2>2. QED
    BY <1>3, <1>4, <2>1, SameNumbers
<1>6. QED
  BY <1>5 DEF s, t

\* The run of numbers from a to c, cut into s, which ends at d, and t.
Cut(s, t, a, c, d) ==
  s \o t = Numbers(a, c) /\ a >= 1 /\ a <= c + 1 /\ d + 1 = a + Len(s)

LEMMA NumbersSplit ==
  ASSUME NEW s \in Seq(Nat), NEW t \in Seq(Nat), NEW a \in Nat, NEW c \in Nat, NEW d \in Nat,
         Cut(s, t, a, c, d)
  PROVE  s = Numbers(a, d) /\ t = Numbers(d + 1, c) /\ d <= c
<1> DEFINE m == Len(s)
           n == Len(t)
           e == d + 1
<1>1. m = Len(s) /\ n = Len(t) /\ m \in Nat /\ n \in Nat
  OBVIOUS
<1>2. a >= 1 /\ a <= c + 1 /\ e = a + m /\ e = d + 1
  BY DEF Cut
<1> DEFINE u == s \o t
<1>3. u = Numbers(a, c)
  BY DEF Cut
<1>a. /\ Len(u) = Len(s) + Len(t) /\ (\A k \in 1..Len(s) : u[k] = s[k])
      /\ \A k \in 1..Len(t) : u[Len(s) + k] = t[k]
  BY ONLY s \in Seq(Nat), t \in Seq(Nat), ConcatProperties
<1> HIDE DEF m, n, e, u
<1>4. Len(u) = c + 1 - a /\ (\A k \in 1..(c + 1 - a) : u[k] = a + k - 1)
  <2>1. LET w == Numbers(a, c)
        IN  Len(w) = c + 1 - a /\ (\A k \in 1..(c + 1 - a) : w[k] = a + k - 1)
    BY ONLY NumbersAre, a \in Nat, c \in Nat, <1>2
  <2>2. QED
    BY ONLY <2>1, <1>3
<1>5. /\ Len(u) = m + n /\ (\A k \in 1..m : u[k] = s[k]) /\ (\A k \in 1..n : u[m + k] = t[k])
  BY ONLY <1>1, <1>a
<1>6. m + n = c + 1 - a
  BY ONLY <1>4, <1>5
<1>7. m \in Nat /\ n \in Nat
  BY <1>1
<1>8. /\ a <= d + 1 /\ m = d + 1 - a /\ e \in Nat /\ e >= 1 /\ e <= c + 1 /\ n = c + 1 - e /\ d <= c
      /\ \A k \in 1..m : k \in 1..(c + 1 - a)
      /\ \A k \in 1..n : m + k \in 1..(c + 1 - a) /\ a + (m + k) - 1 = e + k - 1
  BY ONLY <1>2, <1>6, <1>7, a \in Nat, c \in Nat, d \in Nat
<1>9. s = Numbers(a, d)
  <2>1. \A k \in 1..m : s[k] = a + k - 1
    BY ONLY <1>4, <1>5, <1>8
  <2>2. Len(s) = d + 1 - a /\ \A k \in 1..Len(s) : s[k] = a + k - 1
    BY ONLY <2>1, <1>1, <1>8
  <2>3. QED
    BY ONLY <2>2, <1>2, <1>8, a \in Nat, d \in Nat, s \in Seq(Nat), SameNumbers
<1>10. t = Numbers(e, c)
  <2>1. \A k \in 1..n : t[k] = e + k - 1
    BY ONLY <1>4, <1>5, <1>8
  <2>2. Len(t) = c + 1 - e /\ \A k \in 1..Len(t) : t[k] = e + k - 1
    BY ONLY <2>1, <1>1, <1>8
  <2>3. QED
    BY ONLY <2>2, <1>8, c \in Nat, t \in Seq(Nat), SameNumbers
<1>11. QED
  BY ONLY <1>2, <1>8, <1>9, <1>10

LEMMA NumbersNext ==
  ASSUME NEW a \in Nat, NEW b \in Nat, a >= 1, a <= b + 1
  PROVE  Append(Numbers(a, b), b + 1) = Numbers(a, b + 1)
<1> DEFINE s == Numbers(a, b)
<1>1. s \in Seq(Nat) /\ Len(s) = b + 1 - a /\ (\A k \in 1..Len(s) : s[k] = a + k - 1)
  BY NumbersAre
<1> HIDE DEF s
<1> DEFINE d == b + 1
<1>2. d \in Nat /\ a <= d + 1 /\ Len(s) + 1 = d + 1 - a /\ d = a + (Len(s) + 1) - 1
  BY <1>1
<1> HIDE DEF d
<1> DEFINE u == Append(s, d)
<1>3. /\ u \in Seq(Nat) /\ Len(u) = Len(s) + 1 /\ u[Len(s) + 1] = d
      /\ \A k \in 1..Len(s) : u[k] = s[k]
  BY <1>1, <1>2, AppendProperties
<1> HIDE DEF u
<1>4. \A k \in 1..Len(u) : u[k] = a + k - 1
  <2> SUFFICES ASSUME NEW k \in 1..Len(u) PROVE u[k] = a + k - 1
    OBVIOUS
  <2>1. Len(s) \in Nat
    BY <1>1
  <2>2. k \in 1..Len(s) \/ k = Len(s) + 1
    BY <1>3, <2>1
  <2>3. QED
    BY <1>1, <1>2, <1>3, <2>1, <2>2
<1>5. u = Numbers(a, d)
  BY <1>2, <1>3, <1>4, SameNumbers
<1>6. QED
  BY <1>5 DEF s, u, d

LEMMA NumbersPrefix ==
  ASSUME NEW a \in Nat, NEW b \in Nat, a >= 1, a <= b + 1, NEW n \in 0..(b + 1 - a)
  PROVE  SubSeq(Numbers(a, b), 1, n) = Numbers(a, a + n - 1)
<1> DEFINE s == Numbers(a, b)
<1>1. s \in Seq(Nat) /\ Len(s) = b + 1 - a /\ (\A k \in 1..Len(s) : s[k] = a + k - 1)
  BY NumbersAre
<1> HIDE DEF s
<1>2. /\ SubSeq(s, 1, n) \in Seq(Nat) /\ Len(SubSeq(s, 1, n)) = n
      /\ \A k \in 1..n : SubSeq(s, 1, n)[k] = s[k]
  BY <1>1, SubSeqProperties
<1> DEFINE u == SubSeq(s, 1, n)
           d == a + n - 1
<1>3. d \in Nat /\ a <= d + 1 /\ n = d + 1 - a
  OBVIOUS
<1>4. u \in Seq(Nat) /\ Len(u) = d + 1 - a /\ \A k \in 1..Len(u) : u[k] = a + k - 1
  BY <1>1, <1>2, <1>3
<1> HIDE DEF u, d
<1>5. u = Numbers(a, d)
  BY <1>3, <1>4, SameNumbers
<1>6. QED
  BY <1>5 DEF s, u, d

\* An empty run.
LEMMA NoNumbers == \A a \in Nat : a >= 1 => Numbers(a, a - 1) = <<>>
<1> SUFFICES ASSUME NEW a \in Nat, a >= 1 PROVE Numbers(a, a - 1) = <<>>
  OBVIOUS
<1> DEFINE s == <<>>
<1>1. s \in Seq(Nat) /\ Len(s) = 0
  OBVIOUS
<1> DEFINE d == a - 1
<1>2. d \in Nat /\ a <= d + 1 /\ 0 = d + 1 - a
  OBVIOUS
<1> HIDE DEF s, d
<1>3. \A k \in 1..Len(s) : s[k] = a + k - 1
  BY <1>1
<1>4. s = Numbers(a, d)
  BY <1>1, <1>2, <1>3, SameNumbers
<1>5. QED
  BY <1>4 DEF s, d


\* No numbers behind a number.
LEMMA NoneBehind == \A c \in Nat : Numbers(c + 1, c) = <<>>
<1> SUFFICES ASSUME NEW c \in Nat PROVE Numbers(c + 1, c) = <<>>
  OBVIOUS
<1>1. PICK a \in Nat : a = c + 1 /\ a >= 1 /\ a - 1 = c
  OBVIOUS
<1>2. Numbers(a, a - 1) = <<>>
  BY <1>1, NoNumbers
<1>3. QED
  BY ONLY <1>1, <1>2

LEMMA Exhausted ==
  \A a, b \in Nat : a >= 1 /\ a <= b + 1 /\ Numbers(a, b) = <<>> => b + 1 = a
<1> SUFFICES ASSUME NEW a \in Nat, NEW b \in Nat, a >= 1, a <= b + 1, Numbers(a, b) = <<>>
             PROVE  b + 1 = a
  OBVIOUS
<1>1. Len(Numbers(a, b)) = b + 1 - a
  BY NumbersAre
<1>2. Len(Numbers(a, b)) = 0
  OBVIOUS
<1>3. QED
  BY <1>1, <1>2

\* The first numbers and the next ones.
LEMMA JoinFirst ==
  \A c, e \in Nat : c <= e => Numbers(1, c) \o Numbers(c + 1, e) = Numbers(1, e)
<1> SUFFICES ASSUME NEW c \in Nat, NEW e \in Nat, c <= e
             PROVE  Numbers(1, c) \o Numbers(c + 1, e) = Numbers(1, e)
  OBVIOUS
<1>1. PICK a \in Nat : a = 1 /\ a >= 1 /\ a <= c + 1
  OBVIOUS
<1>2. Numbers(a, c) \o Numbers(c + 1, e) = Numbers(a, e)
  BY <1>1, NumbersJoin
<1>3. QED
  BY ONLY <1>1, <1>2

-----------------------------------------------------------------------------
(* Ranges.                                                                 *)

LEMMA OpenedTyped == ASSUME NEW d \in Artifacts PROVE Typed(Opened(d))
<1>1. d.whole \in Seq(Nat) /\ d.tail \in Seq(Nat)
  BY DEF Artifacts
<1>2. Records(d) \in Seq(Nat) /\ Len(Records(d)) = Len(d.whole) + Len(d.tail)
  BY <1>1, ConcatProperties DEF Records
<1>3. Len(Records(d)) \in Nat /\ Len(d.tail) <= Len(Records(d))
  <2>1. PICK a \in Nat, b \in Nat : a = Len(d.whole) /\ b = Len(d.tail)
    BY <1>1
  <2>2. a + b \in Nat /\ b <= a + b
    OBVIOUS
  <2>3. QED
    BY <1>2, <2>1, <2>2
<1>4. <<>> \in Seq(Nat)
  OBVIOUS
<1>5. QED
  BY <1>1, <1>3, <1>4 DEF Opened, Typed

LEMMA NoLogTyped == NoLog \in Artifacts
<1>1. <<>> \in Seq(Nat)
  OBVIOUS
<1>2. QED
  BY <1>1 DEF NoLog, Artifacts

\* What a handle leaves behind.
LEMMA RemnantTyped ==
  ASSUME NEW x, Typed(x)
  PROVE  Remnant(x).offset \in Nat /\ Remnant(x).batch \in Seq(Nat)
<1>1. x.cursor \in Nat /\ Len(x.recovered) \in Nat /\ Len(x.recovered) <= x.cursor
  BY DEF Typed
<1>2. x.cursor - Len(x.recovered) \in Nat
  BY <1>1
<1>3. x.recovered \o x.buffered \in Seq(Nat)
  BY DEF Typed
<1>4. QED
  BY <1>2, <1>3 DEF Remnant

LEMMA NothingTyped == Nothing.offset \in Nat /\ Nothing.batch \in Seq(Nat)
<1> DEFINE x == Opened(NoLog)
<1>1. Typed(x)
  BY NoLogTyped, OpenedTyped
<1> HIDE DEF x
<1>2. Remnant(x).offset \in Nat /\ Remnant(x).batch \in Seq(Nat)
  BY <1>1, RemnantTyped
<1>3. QED
  BY <1>2 DEF Nothing, x

\* A handle stays one when its fields are written.
LEMMA DrainStartedTyped == Typed(h) => Typed(DrainStarted)
  BY DEF DrainStarted, Typed

LEMMA OneLessTyped == \A n \in Nat : OneLess(n) \in Nat /\ OneLess(n) <= n /\ (n > 0 => OneLess(n) = n - 1)
  BY DEF OneLess

LEMMA DrainedTyped ==
  ASSUME NEW x, Typed(x), chain \in Seq(Operations)
  PROVE  Typed(Drained(x))
<1>1. OneLess(x.awaits) \in Nat /\ Len(chain) \in Nat
  BY OneLessTyped DEF Typed
<1>2. QED
  BY <1>1 DEF Drained, Typed

LEMMA GivenUpTyped ==
  ASSUME NEW x, Typed(x), chain \in Seq(Operations)
  PROVE  Typed(GivenUp(x))
<1>1. OneLess(x.awaits) \in Nat /\ Len(chain) \in Nat
  BY OneLessTyped DEF Typed
<1>2. QED
  BY <1>1 DEF GivenUp, Typed

\* The barriers of a set of callers, one for each.
LEMMA BarriersAre ==
  ASSUME NEW fs \in SUBSET Flushers
  PROVE  LET b == Barriers(fs)
         IN /\ b \in Seq(Operations)
            /\ \A k \in 1..Len(b) : \E f \in fs : b[k] = FlushOp(f) /\ h.state = "open"
            /\ \A j, k \in 1..Len(b) : b[j] = b[k] => j = k
<1> DEFINE S == {FlushOp(f) : f \in fs}
<1>1. IsFiniteSet(fs)
  BY HandleAssumption, FS_Subset
<1> DEFINE g == [f \in fs |-> FlushOp(f)]
<1>2. IsFiniteSet(S)
  <2>1. g \in Surjection(fs, S)
    BY DEF Surjection
  <2>2. QED
    BY <1>1, <2>1, FS_Surjection
<1>3. Cardinality(S) \in Nat /\ ExistsBijection(1..Cardinality(S), S)
  BY <1>2, FS_CardinalityType
<1>4. \E f \in [1..Cardinality(S) -> S] : IsInjective(f)
  BY <1>3 DEF ExistsBijection, Bijection, Injection, IsInjective
<1>5. SetToSeq(S) \in [1..Cardinality(S) -> S] /\ IsInjective(SetToSeq(S))
  BY <1>4 DEF SetToSeq
<1>6. S \subseteq Operations
  <2>1. <<>> \in Seq(Nat)
    OBVIOUS
  <2>2. \A f \in fs : FlushOp(f) \in Operations
    BY <2>1 DEF FlushOp, Operations, Kinds
  <2>3. QED
    BY <2>2
<1> HIDE DEF S
<1>7. SetToSeq(S) \in Seq(Operations) /\ Len(SetToSeq(S)) = Cardinality(S)
  BY <1>3, <1>5, <1>6, SeqDef, LenProperties
<1>8. CASE h.state = "open"
  <2>1. Barriers(fs) = SetToSeq(S)
    BY <1>8 DEF Barriers, S
  <2>2. \A k \in 1..Len(SetToSeq(S)) : SetToSeq(S)[k] \in S
    BY <1>5, <1>7
  <2>3. \A j, k \in 1..Len(SetToSeq(S)) : SetToSeq(S)[j] = SetToSeq(S)[k] => j = k
    BY <1>5, <1>7 DEF IsInjective
  <2>4. QED
    BY <1>7, <1>8, <2>1, <2>2, <2>3 DEF S
<1>9. CASE h.state # "open"
  BY <1>9 DEF Barriers
<1>10. QED
  BY <1>8, <1>9

LEMMA BarredTyped ==
  ASSUME waiters \in [Flushers -> Waits], NEW fs
  PROVE  Barred(fs) \in [Flushers -> Waits]
  BY DEF Barred, Waits

LEMMA OpTyped ==
  /\ NoOp \in Operations /\ DrainOp \in Operations
  /\ \A o \in Operations, s \in {"none", "queued", "refused", "acquire", "truncate", "rewrite", "write", "header"} :
       [o EXCEPT !.stage = s] \in Operations
  /\ \A b : FirstStage(b) \in {"refused", "truncate", "rewrite", "write"}
<1>1. <<>> \in Seq(Nat)
  OBVIOUS
<1>2. QED
  BY <1>1 DEF NoOp, DrainOp, Operations, Kinds, FirstStage

\* An operation whose turn it is takes the lock, or goes on at once.
LEMMA BegunIs ==
  ASSUME NEW o \in Operations
  PROVE  /\ Begun(o) \in Operations
         /\ Begun(o).kind = o.kind /\ Begun(o).batch = o.batch /\ Begun(o).for = o.for
         /\ Begun(o).stage \in {"acquire", Stage(o.kind, o.batch)}
         /\ o.kind = "flush" => Stage(o.kind, o.batch) = "header"
         /\ o.kind # "flush" => /\ Stage(o.kind, o.batch) = FirstStage(o.batch)
                               /\ Begun(o).stage \in {"acquire", "refused", "truncate", "rewrite", "write"}
<1>1. /\ o.kind = "flush" => Stage(o.kind, o.batch) = "header"
      /\ o.kind # "flush" => Stage(o.kind, o.batch) = FirstStage(o.batch)
  BY DEF Stage
<1> DEFINE s == IF h.lease = "none" THEN "acquire" ELSE Stage(o.kind, o.batch)
<1>2. /\ s \in {"acquire", Stage(o.kind, o.batch)}
      /\ s \in {"acquire", "header", "refused", "truncate", "rewrite", "write"}
      /\ o.kind # "flush" => s \in {"acquire", "refused", "truncate", "rewrite", "write"}
  BY <1>1, OpTyped
<1>3. Begun(o) = [o EXCEPT !.stage = s]
  BY DEF Begun
<1> HIDE DEF s
<1>4. /\ Begun(o).kind = o.kind /\ Begun(o).batch = o.batch /\ Begun(o).for = o.for
      /\ Begun(o).stage = s
  BY <1>3 DEF Operations
<1>5. Begun(o) \in Operations
  BY <1>2, <1>3 DEF Operations
<1>6. QED
  BY <1>1, <1>2, <1>4, <1>5

\* What close() does to the handle and the chain.
LEMMA DrainToCloseTyped ==
  ASSUME Typed(h), chain \in Seq(Operations), DrainToClose
  PROVE  Typed(h') /\ chain' \in Seq(Operations)
<1>1. Pending \in Nat
  BY DEF Pending
<1>2. Typed(DrainStarted) /\ DrainQueued \in Seq(Operations)
  BY DrainStartedTyped, OpTyped DEF DrainQueued
<1>3. QED
  BY <1>1, <1>2 DEF DrainToClose, Typed

LEMMA OpRejectsTyped ==
  ASSUME Ranges, op.kind # "none", OpRejects
  PROVE  /\ Typed(h') /\ op' = NoOp /\ waiters' \in [Flushers -> Waits]
         /\ UNCHANGED <<pub, late, chain, promised, opens>>
<1>1. /\ Typed(h) /\ op \in Operations /\ waiters \in [Flushers -> Waits]
      /\ chain \in Seq(Operations) /\ OneLess(h.awaits) \in Nat
  BY OneLessTyped DEF Ranges, Typed
<1>2. CASE op.kind = "drain"
  <2> DEFINE x == [h EXCEPT !.buffered = Retain(op.batch), !.paused = TRUE]
  <2>1. Retain(op.batch) \in Seq(Nat)
    BY <1>1 DEF Retain, Operations, Typed
  <2>2. Typed(x)
    BY <1>1, <2>1 DEF Typed
  <2>3. h' = GivenUp(x)
    BY <1>2 DEF OpRejects
  <2>4. Typed(h')
    BY <1>1, <2>2, <2>3, GivenUpTyped
  <2>5. QED
    BY <1>1, <1>2, <2>4 DEF OpRejects, Waits
<1>3. CASE op.kind = "append"
  BY <1>1, <1>3 DEF OpRejects, Typed
<1>4. CASE op.kind = "flush"
  <2>1. /\ h' = [h EXCEPT !.awaits = OneLess(@)]
        /\ waiters' = [waiters EXCEPT ![op.for] = [at |-> "idle", upTo |-> 0]]
    BY <1>4 DEF OpRejects
  <2>2. Typed(h')
    BY <1>1, <2>1 DEF Typed
  <2>3. waiters' \in [Flushers -> Waits]
    BY <1>1, <2>1 DEF Waits
  <2>4. QED
    BY <2>2, <2>3 DEF OpRejects
<1>5. QED
  BY <1>1, <1>2, <1>3, <1>4 DEF Operations, Kinds

LEMMA RecordsTyped == \A d \in Artifacts : Records(d) \in Seq(Nat) /\ Len(Records(d)) = Len(d.whole) + Len(d.tail)
  BY DEF Records, Artifacts

LEMMA MinLen == \A n \in Nat, b \in Seq(Nat) : Min({n, Len(b)}) \in 0..Len(b)
<1> SUFFICES ASSUME NEW n \in Nat, NEW b \in Seq(Nat) PROVE Min({n, Len(b)}) \in 0..Len(b)
  OBVIOUS
<1>1. Len(b) \in Nat /\ \E x \in {n, Len(b)} : \A y \in {n, Len(b)} : x <= y
  OBVIOUS
<1>2. Min({n, Len(b)}) \in {n, Len(b)} /\ Min({n, Len(b)}) <= Len(b)
  BY <1>1 DEF Min
<1>3. QED
  BY <1>1, <1>2

LEMMA PersistedTyped ==
  ASSUME disk \in Artifacts, NEW b \in Seq(Nat)
  PROVE  Persisted(b) \in Artifacts
<1>1. disk.whole \o b \in Seq(Nat)
  BY DEF Artifacts
<1>2. QED
  BY <1>1 DEF Persisted, Artifacts

\* A frame that was not written to its end.
LEMMA CutShortTyped ==
  ASSUME disk \in Artifacts, NEW b \in Seq(Nat), NEW m \in 0..Len(b)
  PROVE  CutShort(b, m) \subseteq Artifacts
<1>1. SubSeq(b, 1, m) \in Seq(Nat)
  BY SubSeqProperties
<1>2. Persisted(b) \in Artifacts
  BY PersistedTyped
<1>3. [disk EXCEPT !.tail = SubSeq(b, 1, m), !.torn = TRUE] \in Artifacts
  BY <1>1 DEF Artifacts
<1>4. QED
  BY <1>2, <1>3 DEF CutShort

LEMMA AppendingTyped == Ranges => Appending \in Seq(Nat)
  BY DEF Ranges, Operations, Typed, Appending

LEMMA CutBackTyped ==
  ASSUME disk \in Artifacts, NEW n \in Nat
  PROVE  CutBack(n) \in Artifacts
<1>1. disk.whole \in Seq(Nat)
  BY DEF Artifacts
<1>2. PICK m \in 0..Len(disk.whole) : m = Min({n, Len(disk.whole)})
  BY <1>1, MinLen
<1>3. SubSeq(disk.whole, 1, m) \in Seq(Nat) /\ <<>> \in Seq(Nat)
  BY <1>1, SubSeqProperties
<1>4. CutBack(n) = [disk EXCEPT !.whole = SubSeq(disk.whole, 1, m), !.tail = <<>>, !.torn = FALSE]
  BY <1>2 DEF CutBack, Artifacts
<1>5. QED
  BY <1>3, <1>4 DEF Artifacts

\* A crash leaves an artifact.
LEMMA SurvivorsTyped ==
  ASSUME Ranges, NEW n \in Nat, NEW d \in Survivors(n)
  PROVE  d \in Artifacts
<1> disk \in Artifacts /\ op.batch \in Seq(Nat)
  BY DEF Ranges, Operations
<1>1. PICK b \in Seq(Nat) : b = Appending
  BY AppendingTyped
<1>2. PICK m \in 0..Len(b) : m = Min({n, Len(b)})
  BY MinLen
<1>3. CutShort(b, m) \subseteq Artifacts
  BY CutShortTyped
<1>4. Published(op.batch) \subseteq Artifacts
  <2>1. [disk EXCEPT !.made = TRUE, !.whole = op.batch] \in Artifacts
    BY DEF Artifacts
  <2>2. QED
    BY <2>1 DEF Published
<1>5. d \in {disk} \cup Published(op.batch) \cup CutShort(b, m)
  BY <1>1, <1>2 DEF Survivors
<1>6. QED
  BY <1>3, <1>4, <1>5

\* The drain of a closed handle leaves an artifact.
LEMMA OverwrittenTyped ==
  ASSUME Ranges
  PROVE  Overwritten \in Artifacts
<1>1. disk \in Artifacts /\ late.offset \in Nat /\ late.batch \in Seq(Nat)
  BY DEF Ranges
<1> DEFINE d == IF late.torn THEN CutBack(late.offset) ELSE disk
<1>2. d \in Artifacts
  BY <1>1, CutBackTyped
<1>3. Overwritten = IF d.torn THEN disk ELSE [d EXCEPT !.made = TRUE, !.whole = @ \o late.batch]
  BY DEF Overwritten
<1> HIDE DEF d
<1>4. d.whole \o late.batch \in Seq(Nat)
  BY <1>1, <1>2 DEF Artifacts
<1>5. QED
  BY <1>1, <1>2, <1>3, <1>4 DEF Artifacts

LEMMA OpenOverTyped ==
  ASSUME NEW d \in Artifacts, OpenOver(d)
  PROVE  /\ disk' \in Artifacts /\ Typed(h') /\ chain' = <<>> /\ op' = NoOp
         /\ pub' = Len(d.whole) + Len(d.tail)
         /\ waiters' \in [Flushers -> Waits] /\ UNCHANGED <<promised, spoiled, faults>>
  BY OpenedTyped, RecordsTyped DEF OpenOver, Waits

LEMMA PromiseTyped ==
  ASSUME Ranges, NEW n \in Nat
  PROVE  /\ Promise(n) \in Nat /\ promised <= Promise(n)
         /\ \A w \in Nat : promised <= w /\ n <= w + Len(h.recovered) => Promise(n) <= w
<1> DEFINE m == n - Len(h.recovered)
<1>1. m \in Int /\ promised \in Nat /\ Len(h.recovered) \in Nat
  BY DEF Ranges, Typed
<1>2. Promise(n) \in {promised, m} /\ Promise(n) >= promised /\ Promise(n) >= m
  <2>1. \E x \in {promised, m} : \A y \in {promised, m} : x >= y
    BY <1>1
  <2> HIDE DEF m
  <2>2. Max({promised, m}) \in {promised, m} /\ Max({promised, m}) >= promised /\ Max({promised, m}) >= m
    BY <2>1 DEF Max
  <2>3. QED
    BY <2>2 DEF Promise, m
<1>3. QED
  BY <1>1, <1>2

LEMMA RangesInit == Init => Ranges
<1> SUFFICES ASSUME Init PROVE Ranges
  OBVIOUS
<1>1. <<>> \in Seq(Nat) /\ <<>> \in Seq(Operations)
  OBVIOUS
<1>2. disk \in Artifacts
  BY NoLogTyped DEF Init
<1>3. late.offset \in Nat /\ late.batch \in Seq(Nat)
  BY NothingTyped DEF Init
<1>4. Typed(h) /\ op \in Operations
  BY <1>2, OpenedTyped, OpTyped DEF Init
<1>5. waiters \in [Flushers -> Waits]
  BY DEF Init, Waits
<1>6. pub \in 0..MaxEvents /\ promised \in 0..MaxEvents /\ faults \in 0..MaxFaults /\ opens \in 0..MaxOpens
  BY HandleAssumption DEF Init
<1>7. spoiled \in BOOLEAN /\ chain \in Seq(Operations)
  BY <1>1 DEF Init
<1>8. QED
  BY <1>2, <1>3, <1>4, <1>5, <1>6, <1>7 DEF Ranges

LEMMA RangesStep == Ranges /\ Turns /\ Barriered /\ Next /\ pub' <= MaxEvents => Ranges'
<1> SUFFICES ASSUME Ranges, Turns, Barriered, Next, pub' <= MaxEvents PROVE Ranges'
  OBVIOUS
<1> /\ pub \in 0..MaxEvents /\ promised \in 0..MaxEvents /\ spoiled \in BOOLEAN
    /\ late.offset \in Nat /\ late.batch \in Seq(Nat) /\ faults \in 0..MaxFaults /\ opens \in 0..MaxOpens
    /\ disk \in Artifacts /\ Typed(h) /\ op \in Operations /\ chain \in Seq(Operations)
    /\ waiters \in [Flushers -> Waits]
  BY DEF Ranges
<1> MaxEvents \in Nat /\ MaxFaults \in Nat /\ MaxOpens \in Nat
  BY HandleAssumption
<1>a. Typed(DrainStarted) /\ DrainQueued \in Seq(Operations)
  BY DrainStartedTyped, OpTyped DEF DrainQueued
<1>b. \A fs \in SUBSET Flushers : Barriers(fs) \in Seq(Operations)
  BY BarriersAre
<1>c. OneLess(h.awaits) \in Nat /\ Pending \in Nat
  <2>1. Len(chain) \in Nat
    OBVIOUS
  <2>2. OneLess(h.awaits) \in Nat
    BY OneLessTyped DEF Typed
  <2>3. QED
    BY <2>1, <2>2 DEF Pending
<1>0. /\ Typed(DrainStarted) /\ DrainQueued \in Seq(Operations)
      /\ \A fs \in SUBSET Flushers : Barriers(fs) \in Seq(Operations)
      /\ OneLess(h.awaits) \in Nat /\ Pending \in Nat
  BY <1>a, <1>b, <1>c
<1>d. \A w \in 0..MaxEvents : Promise(w) \in 0..MaxEvents
  <2> SUFFICES ASSUME NEW w \in 0..MaxEvents PROVE Promise(w) \in 0..MaxEvents
    OBVIOUS
  <2>1. PICK l \in Nat : l = Len(h.recovered)
    BY DEF Typed
  <2>2. promised <= MaxEvents /\ w <= MaxEvents + l
    BY <2>1
  <2>3. w \in Nat
    OBVIOUS
  <2>4. /\ Promise(w) \in Nat
        /\ \A v \in Nat : promised <= v /\ w <= v + Len(h.recovered) => Promise(w) <= v
    BY <2>3, PromiseTyped
  <2>5. Promise(w) <= MaxEvents
    BY <2>1, <2>2, <2>4
  <2>6. QED
    BY <2>4, <2>5
<1>1. CASE Publish
  <2>1. pub' = pub + 1 /\ pub < MaxEvents /\ h' = [h EXCEPT !.buffered = Append(@, pub + 1), !.timer = Arm]
        /\ UNCHANGED <<disk, chain, op, waiters, promised, late, spoiled, faults, opens>>
    BY <1>1 DEF Publish
  <2>2. Typed(h')
    BY <2>1 DEF Typed
  <2>3. pub' \in 0..MaxEvents
    BY <2>1
  <2>4. QED
    BY <2>1, <2>2, <2>3 DEF Ranges
<1>2. CASE TimerFires
  BY <1>2, <1>0 DEF TimerFires, Ranges, Typed
<1>3. CASE GoLive
  BY <1>3 DEF GoLive, Ranges, Typed
<1>4. ASSUME NEW n \in 1..2, AppendSetup(n) PROVE Ranges'
  <2> DEFINE a == pub + 1
             b == pub + n
  <2>0. a \in Nat /\ b \in Nat /\ a >= 1 /\ a <= b + 1
    OBVIOUS
  <2> HIDE DEF a, b
  <2>5. Numbers(a, b) \in Seq(Nat)
    BY <2>0, NumbersAre
  <2>1. Numbers(pub + 1, pub + n) \in Seq(Nat)
    BY <2>5 DEF a, b
  <2> DEFINE o == [kind |-> "append", batch |-> Numbers(pub + 1, pub + n), stage |-> "queued", for |-> "none"]
  <2>2. o \in Operations
    BY <2>1 DEF Operations, Kinds
  <2> HIDE DEF o
  <2>3. chain' = Append(chain, o)
    BY <1>4 DEF AppendSetup, o
  <2>4. QED
    <3>1. chain' \in Seq(Operations)
      BY <2>2, <2>3, AppendProperties
    <3>2. Typed(h') /\ pub' \in Nat
      <4>1. h' = [h EXCEPT !.setup = "appending"] /\ pub' = b
        BY <1>4 DEF AppendSetup, b
      <4>2. QED
        BY <2>0, <4>1 DEF Typed
    <3>3. UNCHANGED <<disk, op, waiters, promised, late, spoiled, faults, opens>>
      BY <1>4 DEF AppendSetup
    <3>4. pub' \in 0..MaxEvents
      BY <3>2
    <3>5. QED
      BY <3>1, <3>2, <3>3, <3>4 DEF Ranges
<1>5. ASSUME NEW f \in Flushers, Flush(f) PROVE Ranges'
  <2>1. Barred({f}) \in [Flushers -> Waits] /\ Barriers({f}) \in Seq(Operations)
    BY <1>0, BarredTyped
  <2>2. waiters' \in [Flushers -> Waits]
    <3>1. CASE h.buffered = <<>> /\ ~h.draining
      <4>1. waiters' = [Barred({f}) EXCEPT ![f] =
                          [Barred({f})[f] EXCEPT !.upTo = IF h.state = "open" THEN pub ELSE 0]]
        BY <1>5, <2>1, <3>1 DEF Flush, Routed
      <4>2. QED
        <5>1. Barred({f})[f] \in Waits
          BY <2>1
        <5> DEFINE w == Barred({f})[f]
                   n == IF h.state = "open" THEN pub ELSE 0
        <5>2. n \in Nat
          OBVIOUS
        <5>3. \A x \in Waits : [x EXCEPT !.upTo = n] \in Waits
          BY <5>2 DEF Waits
        <5>4. [w EXCEPT !.upTo = n] \in Waits
          BY <5>1, <5>3
        <5>5. QED
          BY <2>1, <4>1, <5>4
    <3>2. CASE ~(h.buffered = <<>> /\ ~h.draining)
      <4>1. waiters' = [waiters EXCEPT ![f] = [at |-> "drain", upTo |-> pub]]
        BY <1>5, <3>2 DEF Flush
      <4>2. [at |-> "drain", upTo |-> pub] \in Waits
        BY DEF Waits
      <4>3. QED
        BY <4>1, <4>2
    <3>3. QED
      BY <3>1, <3>2
  <2>3. chain' \in Seq(Operations) /\ Typed(h')
    <3>1. chain \o Barriers({f}) \in Seq(Operations)
      BY <2>1
    <3>2. QED
      BY <1>0, <1>5, <3>1 DEF Flush, Routed
  <2>4. QED
    BY <1>5, <2>2, <2>3 DEF Flush, Routed, Ranges
<1>6. CASE StartDrain
  <2>1. Head(chain) \in Operations /\ Tail(chain) \in Seq(Operations)
    BY <1>6 DEF StartDrain, Turn
  <2>2. op' \in Operations
    <3>1. PICK o \in Operations : o = [Head(chain) EXCEPT !.batch = h.buffered]
      BY <2>1 DEF Operations, Typed
    <3>2. op' = Begun(o)
      BY <1>6, <3>1 DEF StartDrain
    <3>3. QED
      BY <3>2, BegunIs
  <2>3. Typed(h')
    BY <1>6 DEF StartDrain, Turn, Typed
  <2>4. QED
    BY <1>6, <2>1, <2>2, <2>3 DEF StartDrain, Turn, Ranges
<1>7. CASE StartAppend
  <2>1. Head(chain) \in Operations /\ Tail(chain) \in Seq(Operations)
    BY <1>7 DEF StartAppend, Turn
  <2>2. op' \in Operations
    BY <1>7, <2>1, BegunIs DEF StartAppend
  <2>3. Typed(h')
    BY <1>0, <1>7 DEF StartAppend, Turn, Typed
  <2>4. QED
    BY <1>7, <2>1, <2>2, <2>3 DEF StartAppend, Turn, Ranges
<1>8. CASE StartFlush
  <2>1. Head(chain) \in Operations /\ Tail(chain) \in Seq(Operations)
    BY <1>8 DEF StartFlush, Turn
  <2>2. op' \in Operations
    BY <1>8, <2>1, BegunIs DEF StartFlush
  <2>3. Typed(h')
    BY <1>0, <1>8 DEF StartFlush, Turn, Typed
  <2>4. waiters' \in [Flushers -> Waits]
    <3>1. [at |-> "idle", upTo |-> 0] \in Waits
      BY DEF Waits
    <3>2. PICK f : f = Head(chain).for
      OBVIOUS
    <3>3. waiters' = waiters \/ waiters' = [waiters EXCEPT ![f] = [at |-> "idle", upTo |-> 0]]
      BY <1>8, <3>2 DEF StartFlush, Turn
    <3>4. QED
      BY <3>1, <3>3
  <2>5. promised' \in 0..MaxEvents
    <3>1. Head(chain) = chain[1] /\ 1 \in DOMAIN chain /\ chain[1].kind = "flush"
      BY <1>8 DEF StartFlush, Turn
    <3>2. PICK f \in Flushers : f = Head(chain).for
      BY <3>1 DEF Barriered
    <3>3. waiters[f].upTo \in Nat /\ waiters[f].upTo <= pub
      BY DEF Barriered, Waits
    <3>4. Promise(waiters[f].upTo) \in 0..MaxEvents
      <4>1. waiters[f].upTo \in 0..MaxEvents
        BY <3>3
      <4>2. QED
        BY <1>d, <4>1
    <3>5. QED
      BY <1>8, <3>2, <3>4 DEF StartFlush
  <2>6. QED
    BY <1>8, <2>1, <2>2, <2>3, <2>4, <2>5 DEF StartFlush, Turn, Ranges
<1>9. CASE Truncate
  <2>1. op' \in Operations
    BY <1>9, OpTyped DEF Truncate, At
  <2>2. disk' \in Artifacts
    <3>1. h.cursor - Len(h.recovered) \in Nat
      BY DEF Typed
    <3>2. QED
      BY <1>9, <3>1, CutBackTyped DEF Truncate
  <2>3. Typed(h')
    BY <1>9 DEF Truncate, At, Typed
  <2>4. QED
    BY <1>9, <2>1, <2>2, <2>3 DEF Truncate, At, Ranges
<1>10. CASE Rewrite
  <2>1. op' \in Operations
    BY <1>10, OpTyped DEF Rewrite, At
  <2>2. disk' \in Artifacts
    <3>1. disk.whole \o h.recovered \in Seq(Nat)
      BY DEF Artifacts, Typed
    <3>2. QED
      BY <1>10, <3>1 DEF Rewrite, At, Artifacts
  <2>3. Typed(h')
    BY <1>10 DEF Rewrite, At, Typed
  <2>4. QED
    BY <1>10, <2>1, <2>2, <2>3 DEF Rewrite, At, Ranges
<1>11. ASSUME NEW b \in Seq(Nat) PROVE Persisted(b) \in Artifacts /\ Typed(Advanced(b))
  <2>1. disk.whole \o b \in Seq(Nat) /\ Len(b) \in Nat
    BY DEF Artifacts
  <2>2. Persisted(b) \in Artifacts
    BY PersistedTyped
  <2>3. Typed(Advanced(b))
    BY <2>1 DEF Advanced, Typed
  <2>4. QED
    BY <2>2, <2>3
<1>12. op.batch \in Seq(Nat)
  BY DEF Operations
<1>13. CASE WriteAppend
  BY <1>0, <1>11, <1>12, <1>13, OpTyped DEF WriteAppend, At, Ranges, Typed, Advanced
<1>14. CASE WriteBatch
  <2>1. Typed(Drained(Advanced(op.batch))) /\ Typed([Advanced(op.batch) EXCEPT !.awaits = OneLess(@)])
    BY <1>11, <1>12, DrainedTyped, OneLessTyped DEF Typed
  <2>2. Barred(AtDrain) \in [Flushers -> Waits] /\ Barriers(AtDrain) \in Seq(Operations)
    BY <1>0, BarredTyped DEF AtDrain
  <2>3. QED
    <3>1. chain \o Barriers(AtDrain) \in Seq(Operations) /\ Append(chain, DrainOp) \in Seq(Operations)
      BY <2>2, OpTyped
    <3>2. chain' \in Seq(Operations)
      BY <1>14, <3>1 DEF WriteBatch, At
    <3>3. Typed(h')
      BY <1>14, <2>1 DEF WriteBatch, At
    <3>4. waiters' \in [Flushers -> Waits]
      BY <1>14, <2>2 DEF WriteBatch, At
    <3>5. disk' \in Artifacts /\ op' \in Operations
      BY <1>11, <1>12, <1>14, OpTyped DEF WriteBatch, At
    <3>6. QED
      BY <1>14, <3>2, <3>3, <3>4, <3>5 DEF WriteBatch, At, Ranges
<1>15. CASE WriteHeader
  <2>1. promised' \in 0..MaxEvents
    <3>1. PICK f \in Flushers : f = op.for
      BY <1>15 DEF WriteHeader, At, Turns, Running, Barriered, Operations, Kinds, NoOp
    <3>2. waiters[f].upTo \in Nat /\ waiters[f].upTo <= pub
      BY DEF Barriered, Waits
    <3>3. Promise(waiters[f].upTo) \in 0..MaxEvents
      <4>1. waiters[f].upTo \in 0..MaxEvents
        BY <3>2
      <4>2. QED
        BY <1>d, <4>1
    <3>4. QED
      BY <1>15, <3>1, <3>3 DEF WriteHeader
  <2>2. disk' \in Artifacts /\ Typed(h')
    BY <1>0, <1>15 DEF WriteHeader, At, Artifacts, Typed
  <2>3. waiters' \in [Flushers -> Waits]
    BY <1>15 DEF WriteHeader, At, Waits
  <2>4. QED
    BY <1>15, <2>1, <2>2, <2>3, OpTyped DEF WriteHeader, At, Ranges
<1>16. CASE OpRefused
  <2>1. op.kind # "none"
    BY <1>16 DEF OpRefused, At, Turns, Running, NoOp
  <2>2. QED
    <3>1. /\ Typed(h') /\ op' = NoOp /\ waiters' \in [Flushers -> Waits]
          /\ UNCHANGED <<pub, late, chain, promised, opens>>
      BY <1>16, <2>1, OpRejectsTyped DEF OpRefused
    <3>2. faults' \in 0..MaxFaults /\ UNCHANGED <<disk, spoiled>>
      BY <1>16 DEF OpRefused
    <3>3. QED
      BY <3>1, <3>2, OpTyped DEF Ranges
<1>17. CASE OpFails
  <2>1. op.kind # "none"
    BY <1>17 DEF OpFails, Turns, Running
  <2>2. QED
    <3>1. /\ Typed(h') /\ op' = NoOp /\ waiters' \in [Flushers -> Waits]
          /\ UNCHANGED <<pub, late, chain, promised, opens>>
      BY <1>17, <2>1, OpRejectsTyped DEF OpFails
    <3>2. faults' \in 0..MaxFaults /\ UNCHANGED <<disk, spoiled>>
      BY <1>17 DEF OpFails
    <3>3. QED
      BY <3>1, <3>2, OpTyped DEF Ranges
<1>18. CASE PublishFails
  <2>1. op.kind # "none"
    BY <1>18 DEF PublishFails, At, Turns, Running, NoOp
  <2>2. QED
    <3>1. /\ Typed(h') /\ op' = NoOp /\ waiters' \in [Flushers -> Waits]
          /\ UNCHANGED <<pub, late, chain, promised, opens>>
      BY <1>18, <2>1, OpRejectsTyped DEF PublishFails, At
    <3>2. disk' \in Artifacts
      BY <1>11, <1>12, <1>18 DEF PublishFails, At
    <3>3. faults' \in 0..MaxFaults /\ spoiled' = spoiled
      BY <1>18 DEF PublishFails
    <3>4. QED
      BY <3>1, <3>2, <3>3, OpTyped DEF Ranges
<1>a1. ASSUME NEW n \in 0..1, RollbackFails(n) PROVE Ranges'
  <2>1. op.kind # "none"
    BY <1>a1 DEF RollbackFails, At, Turns, Running, NoOp
  <2>2. /\ Typed(h') /\ op' = NoOp /\ waiters' \in [Flushers -> Waits]
        /\ UNCHANGED <<pub, late, chain, promised, opens>>
    BY <1>a1, <2>1, OpRejectsTyped DEF RollbackFails
  <2>3. disk' \in Artifacts
    <3> n \in Nat
      OBVIOUS
    <3>1. PICK b \in Seq(Nat) : b = Appending
      BY AppendingTyped
    <3>2. PICK m \in 0..Len(b) : m = Min({n, Len(b)})
      BY MinLen
    <3>3. disk' \in CutShort(b, m)
      BY <1>a1, <3>1, <3>2 DEF RollbackFails
    <3>4. QED
      BY <3>3, CutShortTyped
  <2>4. faults' \in 0..MaxFaults /\ spoiled' \in BOOLEAN
    BY <1>a1 DEF RollbackFails
  <2>5. QED
    BY <2>2, <2>3, <2>4, OpTyped DEF Ranges
<1>a2. CASE Acquire
  <2>1. op' \in Operations
    <3>1. PICK t : t = Stage(op.kind, op.batch)
      OBVIOUS
    <3>2. t \in {"header", "refused", "truncate", "rewrite", "write"}
      BY <3>1, OpTyped DEF Stage
    <3>3. op' = [op EXCEPT !.stage = t]
      BY <1>a2, <3>1 DEF Acquire
    <3>4. QED
      BY <3>2, <3>3 DEF Operations
  <2>2. Typed(h')
    BY <1>a2 DEF Acquire, Typed
  <2>3. QED
    BY <1>a2, <2>1, <2>2 DEF Acquire, Ranges
<1>a3. CASE LateDrain
  <2>1. late'.offset \in Nat /\ late'.batch \in Seq(Nat)
    <3>1. late'.offset = Nothing.offset /\ late'.batch = Nothing.batch
      BY <1>a3 DEF LateDrain, Nothing, Remnant
    <3>2. QED
      BY <3>1, NothingTyped
  <2>2. disk' \in Artifacts /\ spoiled' \in BOOLEAN
    BY <1>a3, OverwrittenTyped DEF LateDrain
  <2>3. UNCHANGED <<pub, h, chain, op, waiters, promised, faults, opens>>
    BY <1>a3 DEF LateDrain
  <2>4. QED
    BY <2>1, <2>2, <2>3 DEF Ranges
<1>19. CASE Close
  BY <1>19, DrainToCloseTyped DEF Close, Ranges
<1>20. CASE Settle
  <2>1. Typed(h') /\ chain' \in Seq(Operations)
    BY <1>0, <1>20, DrainToCloseTyped DEF Settle, Typed
  <2>2. QED
    BY <1>20, <2>1 DEF Settle, Ranges
<1>21. CASE Release
  BY <1>21 DEF Release, Ranges, Typed
<1>22. CASE Released
  BY <1>22 DEF Released, Ranges, Typed
<1>23. ASSUME NEW d \in Artifacts, OpenOver(d), opens' \in 0..MaxOpens,
              late'.offset \in Nat, late'.batch \in Seq(Nat)
       PROVE  Ranges'
  <2>1. /\ disk' \in Artifacts /\ Typed(h') /\ chain' = <<>> /\ op' = NoOp
        /\ pub' = Len(d.whole) + Len(d.tail)
        /\ waiters' \in [Flushers -> Waits] /\ UNCHANGED <<promised, spoiled, faults>>
    BY <1>23, OpenOverTyped
  <2>2. pub' \in Nat /\ chain' \in Seq(Operations)
    BY <2>1 DEF Artifacts
  <2>3. pub' \in 0..MaxEvents
    BY <2>2
  <2>4. op' \in Operations
    BY <2>1, OpTyped
  <2>5. QED
    BY <1>23, <2>1, <2>2, <2>3, <2>4 DEF Ranges
<1>24. ASSUME NEW n \in 1..2, Crash(n - 1) PROVE Ranges'
  <2>1. PICK d \in Survivors(n - 1) : OpenOver(d)
    BY <1>24 DEF Crash
  <2>2. n - 1 \in Nat
    OBVIOUS
  <2>3. d \in Artifacts
    BY <2>2, SurvivorsTyped
  <2>4. opens' \in 0..MaxOpens /\ late' = Nothing
    BY <1>24 DEF Crash
  <2>5. QED
    BY <1>23, <2>1, <2>3, <2>4, NothingTyped
<1>b1. CASE Reopen
  <2>1. OpenOver(disk) /\ opens' \in 0..MaxOpens
    BY <1>b1 DEF Reopen
  <2>2. late' = Remnant(h) \/ late' = late
    BY <1>b1 DEF Reopen
  <2>3. late'.offset \in Nat /\ late'.batch \in Seq(Nat)
    BY <2>2, RemnantTyped
  <2>4. QED
    BY <1>23, <2>1, <2>3
<1>25. QED
  BY <1>1, <1>2, <1>3, <1>4, <1>5, <1>6, <1>7, <1>8, <1>9, <1>10, <1>13, <1>14, <1>15, <1>16, <1>17,
     <1>18, <1>a1, <1>a2, <1>a3, <1>19, <1>20, <1>21, <1>22, <1>24, <1>b1 DEF Next, Chain, Closing

-----------------------------------------------------------------------------
(* The chain.                                                              *)

LEMMA ChainAppend ==
  ASSUME chain \in Seq(Operations), NEW o \in Operations
  PROVE  /\ Len(Append(chain, o)) = Len(chain) + 1 /\ DOMAIN Append(chain, o) = 1..(Len(chain) + 1)
         /\ DOMAIN chain = 1..Len(chain) /\ Len(chain) \in Nat
         /\ \A k \in DOMAIN chain : Append(chain, o)[k] = chain[k]
         /\ Append(chain, o)[Len(chain) + 1] = o
  BY AppendProperties, LenProperties

LEMMA ChainTail ==
  ASSUME chain \in Seq(Operations), chain # <<>>
  PROVE  /\ DOMAIN chain = 1..Len(chain) /\ Len(chain) \in Nat \ {0}
         /\ Len(Tail(chain)) = Len(chain) - 1 /\ DOMAIN Tail(chain) = 1..(Len(chain) - 1)
         /\ Head(chain) = chain[1] /\ chain[1] \in Operations
         /\ \A k \in DOMAIN Tail(chain) : k + 1 \in DOMAIN chain /\ Tail(chain)[k] = chain[k + 1]
  BY HeadTailProperties, LenProperties, EmptySeq

LEMMA ChainBarriers ==
  ASSUME chain \in Seq(Operations), NEW fs \in SUBSET Flushers
  PROVE  LET s == chain \o Barriers(fs)
         IN /\ DOMAIN s = 1..Len(s) /\ Len(s) \in Nat /\ Len(s) >= Len(chain)
            /\ DOMAIN chain = 1..Len(chain) /\ Len(chain) \in Nat
            /\ \A k \in DOMAIN chain : k \in DOMAIN s /\ s[k] = chain[k]
            /\ \A k \in DOMAIN s : \/ k \in DOMAIN chain
                                   \/ h.state = "open" /\ \E f \in fs : s[k] = FlushOp(f)
            /\ \A j, k \in DOMAIN s \ DOMAIN chain : s[j] = s[k] => j = k
<1> DEFINE b == Barriers(fs)
           s == chain \o b
<1>1. /\ b \in Seq(Operations)
      /\ \A k \in 1..Len(b) : \E f \in fs : b[k] = FlushOp(f) /\ h.state = "open"
      /\ \A j, k \in 1..Len(b) : b[j] = b[k] => j = k
  BY BarriersAre
<1> HIDE DEF b
<1>2. /\ s \in Seq(Operations) /\ Len(s) = Len(chain) + Len(b)
      /\ \A k \in 1..(Len(chain) + Len(b)) : s[k] = IF k <= Len(chain) THEN chain[k] ELSE b[k - Len(chain)]
  BY <1>1, ConcatProperties
<1>3. DOMAIN s = 1..Len(s) /\ Len(chain) \in Nat /\ Len(b) \in Nat /\ DOMAIN chain = 1..Len(chain)
  BY <1>1, <1>2, LenProperties
<1> HIDE DEF s
<1>4. ASSUME NEW k \in DOMAIN s \ DOMAIN chain
      PROVE  k - Len(chain) \in 1..Len(b) /\ s[k] = b[k - Len(chain)]
  BY <1>2, <1>3
<1>5. \A k \in DOMAIN chain : k \in DOMAIN s /\ s[k] = chain[k]
  BY <1>2, <1>3
<1>6. ASSUME NEW j \in DOMAIN s \ DOMAIN chain, NEW k \in DOMAIN s \ DOMAIN chain, s[j] = s[k]
      PROVE  j = k
  <2>1. j - Len(chain) = k - Len(chain)
    BY <1>1, <1>4, <1>6
  <2>2. j \in Int /\ k \in Int
    BY <1>2, <1>3
  <2>3. QED
    BY <1>3, <2>1, <2>2
<1>7. Len(s) \in Nat /\ Len(s) >= Len(chain)
  BY <1>2, <1>3
<1>8. QED
  BY <1>1, <1>3, <1>4, <1>5, <1>6, <1>7 DEF s, b

-----------------------------------------------------------------------------
(* Who has the turn.                                                       *)

\* Nothing queued, nothing running.
LEMMA EmptyTurns ==
  ASSUME chain' = <<>>, op' = NoOp, h'.awaits = 0, h'.buffered = <<>>, ~h'.timer, ~h'.draining
  PROVE  Turns'
<1>1. DOMAIN chain' = {} /\ Len(chain') = 0
  OBVIOUS
<1>2. op'.kind = "none"
  BY DEF NoOp
<1>3. Running' /\ Queue' /\ Producing' /\ Drains'
  BY <1>1, <1>2 DEF Running, Queue, Producing, Drains
<1>4. Counted'
  BY <1>1 DEF Counted, Pending
<1>5. QED
  BY <1>3, <1>4 DEF Turns

\* Steps that leave the operations and the buffer alone.
LEMMA QuietTurns ==
  ASSUME Turns, chain' = chain, op' = op, h'.setup = h.setup \/ (h.setup # "live" /\ chain = <<>> /\ op = NoOp),
         h'.materialized = h.materialized,
         h.buffered # <<>> => h'.buffered # <<>>, 
         h'.setup # "live" => h'.buffered = <<>> /\ ~h'.timer,
         (h'.draining <=> h.draining), h'.awaits <= Pending
  PROVE  Turns'
<1>1. Running'
  BY DEF Turns, Running, NoOp
<1>2. Queue'
  BY DEF Turns, Queue
<1>3. Producing' /\ Drains' /\ Counted'
  BY DEF Turns, Producing, Drains, Counted, Pending
<1>4. QED
  BY <1>1, <1>2, <1>3 DEF Turns

\* A drain starts, unless there is nothing to drain.
LEMMA DrainTurns ==
  ASSUME Ranges, Turns, ~h.draining, UNCHANGED op, chain' = DrainQueued,
         (h'.draining <=> h.buffered # <<>>), h'.buffered = h.buffered, h'.setup = h.setup, ~h'.timer,
         h'.materialized = h.materialized, h'.awaits \in Nat, h'.awaits <= Pending
  PROVE  Turns'
<1> chain \in Seq(Operations) /\ op \in Operations
  BY DEF Ranges
<1>1. CASE h.buffered = <<>>
  <2>1. chain' = chain /\ Producing
    BY <1>1 DEF DrainQueued, Turns
  <2>2. h'.setup # "live" => h'.buffered = <<>> /\ ~h'.timer
    BY <2>1 DEF Producing
  <2>3. h'.draining <=> h.draining
    BY <1>1
  <2>4. h.buffered # <<>> => h'.buffered # <<>>
    BY <1>1
  <2>5. op' = op /\ h'.setup = h.setup /\ h'.materialized = h.materialized /\ h'.awaits <= Pending
    OBVIOUS
  <2>6. QED
    BY <2>1, <2>2, <2>3, <2>4, <2>5, QuietTurns
<1>2. CASE h.buffered # <<>>
  <2>1. chain' = Append(chain, DrainOp) /\ DrainOp \in Operations /\ DrainOp.kind = "drain"
    BY <1>2, OpTyped DEF DrainQueued, DrainOp
  <2>2. h.setup = "live"
    BY <1>2 DEF Turns, Producing
  <2>3. op.kind # "drain" /\ \A k \in DOMAIN chain : chain[k].kind # "drain"
    BY DEF Turns, Running, Queue
  <2>4. DrainOp.stage = "queued"
    BY DEF DrainOp
  <2>5. Running'
    BY <2>2 DEF Turns, Running
  <2>6. Queue'
    <3>1. /\ DOMAIN chain' = 1..(Len(chain) + 1) /\ DOMAIN chain = 1..Len(chain) /\ Len(chain) \in Nat
          /\ \A k \in DOMAIN chain : chain'[k] = chain[k]
          /\ chain'[Len(chain) + 1] = DrainOp
      BY <2>1, ChainAppend
    <3>2. ASSUME NEW k \in DOMAIN chain', k \notin DOMAIN chain
          PROVE  chain'[k] = DrainOp /\ k = Len(chain) + 1
      <4>1. k = Len(chain) + 1
        BY <3>1, <3>2
      <4>2. QED
        BY <3>1, <4>1
    <3>3. \A k \in DOMAIN chain : chain[k].kind # "append"
      BY <2>2 DEF Turns, Queue
    <3>4. ASSUME NEW k \in DOMAIN chain'
          PROVE  /\ chain'[k].kind # "none" /\ chain'[k].stage = "queued"
                 /\ chain'[k].kind # "append"
                 /\ chain'[k].kind = "flush" => chain'[k].batch = <<>>
      BY <2>1, <2>4, <3>1, <3>2, <3>3 DEF Turns, Queue
    <3>5. \A j, k \in DOMAIN chain' : chain'[j].kind = "drain" /\ chain'[k].kind = "drain" => j = k
      BY <2>3, <3>1, <3>2
    <3>6. QED
      BY <1>2, <2>2, <2>3, <3>4, <3>5 DEF Queue
  <2>7. Producing' /\ Drains'
    BY <1>2, <2>1, <2>2, ChainAppend DEF Producing, Drains
  <2>8. Counted'
    <3>1. Len(chain') = Len(chain) + 1 /\ Len(chain) \in Nat
      BY <2>1, ChainAppend
    <3>2. Pending' = Pending + 1 /\ Pending \in Nat
      BY <3>1 DEF Pending
    <3>3. QED
      BY <3>2 DEF Counted
  <2>9. QED
    BY <2>5, <2>6, <2>7, <2>8 DEF Turns
<1>3. QED
  BY <1>1, <1>2

\* The operation is over and its drain, if it was one, with it.
LEMMA OverTurns ==
  ASSUME Ranges, Turns, op.kind # "none", op' = NoOp,
         NEW fs \in SUBSET Flushers, chain' \in {chain, chain \o Barriers(fs)},
         chain' # chain => h.setup = "live",
         h'.setup = h.setup \/ op.kind = "append",
         (h'.draining <=> h.draining /\ op.kind # "drain"),
         h'.setup # "live" => h'.buffered = <<>> /\ ~h'.timer,
         h.buffered # <<>> => h'.buffered # <<>>,
         h'.awaits \in {OneLess(h.awaits), Len(chain)}
  PROVE  Turns'
<1> chain \in Seq(Operations) /\ op \in Operations /\ h.awaits \in Nat
  BY DEF Ranges, Typed
<1> DEFINE s == chain \o Barriers(fs)
<1>1. /\ DOMAIN chain' = 1..Len(chain') /\ Len(chain') \in Nat /\ Len(chain') >= Len(chain)
      /\ DOMAIN chain = 1..Len(chain) /\ Len(chain) \in Nat
      /\ \A k \in DOMAIN chain : k \in DOMAIN chain' /\ chain'[k] = chain[k]
      /\ \A k \in DOMAIN chain' : k \notin DOMAIN chain =>
           h.setup = "live" /\ chain'[k].kind = "flush" /\ chain'[k].stage = "queued" /\ chain'[k].batch = <<>>
  <2>1. CASE chain' = s
    <3>1. \A f \in fs : FlushOp(f).kind = "flush" /\ FlushOp(f).stage = "queued" /\ FlushOp(f).batch = <<>>
      BY DEF FlushOp
    <3>2. CASE chain' = chain
      BY <3>2, LenProperties
    <3>3. CASE chain' # chain
      BY <2>1, <3>1, <3>3, ChainBarriers
    <3>4. QED
      BY <3>2, <3>3
  <2>2. CASE chain' = chain
    BY <2>2, LenProperties
  <2>3. QED
    BY <2>1, <2>2
<1>2. NoOp.kind = "none"
  BY DEF NoOp
<1>3. Running'
  BY <1>2 DEF Running
<1>4. op.kind = "append" => DOMAIN chain = {}
  BY DEF Turns, Running
<1>5. Queue'
  <2>1. ASSUME NEW k \in DOMAIN chain'
        PROVE  /\ chain'[k].kind # "none" /\ chain'[k].stage = "queued"
               /\ chain'[k].kind = "drain" => h'.setup = "live" /\ h'.draining /\ h'.buffered # <<>>
               /\ chain'[k].kind = "append" => FALSE
               /\ chain'[k].kind = "flush" => h'.setup = "live" /\ chain'[k].batch = <<>>
    <3>1. CASE k \in DOMAIN chain
      <4>1. chain'[k] = chain[k] /\ h'.setup = h.setup /\ op # NoOp
        BY <1>1, <1>2, <1>4, <3>1
      <4>2. QED
        BY <3>1, <4>1 DEF Turns, Queue
    <3>2. CASE k \notin DOMAIN chain
      <4>1. h.setup = "live" /\ op.kind # "append"
        BY <1>1, <3>2 DEF Turns, Running
      <4>2. QED
        BY <1>1, <3>2, <4>1
    <3>3. QED
      BY <3>1, <3>2
  <2>2. ASSUME NEW j \in DOMAIN chain', NEW k \in DOMAIN chain', chain'[j].kind = "drain", chain'[k].kind = "drain"
        PROVE  j = k
    BY <1>1, <2>2 DEF Turns, Queue
  <2>3. QED
    BY <1>2, <2>1, <2>2 DEF Queue
<1>6. Producing'
  BY <1>4 DEF Turns, Producing, Running
<1>7. Drains'
  BY <1>1 DEF Turns, Drains
<1>8. Counted'
  <2>1. h.awaits <= Len(chain) + 1 /\ Pending' = Len(chain')
    BY <1>2 DEF Turns, Counted, Pending
  <2>2. OneLess(h.awaits) <= Len(chain)
    <3>1. Len(chain) \in Nat
      BY <1>1
    <3>2. QED
      BY <2>1, <3>1 DEF OneLess
  <2>3. h'.awaits <= Len(chain) /\ Len(chain) <= Len(chain') /\ Len(chain) \in Nat /\ Len(chain') \in Nat
    <3>1. Len(chain) <= Len(chain') /\ Len(chain) \in Nat /\ Len(chain') \in Nat
      BY <1>1
    <3>2. QED
      BY <2>2, <3>1
  <2>4. h'.awaits \in Nat
    BY <1>1, OneLessTyped
  <2>5. QED
    BY <2>1, <2>3, <2>4 DEF Counted
<1>9. QED
  BY <1>3, <1>5, <1>6, <1>7, <1>8 DEF Turns

\* The head of the chain goes to work.
LEMMA StartTurns ==
  ASSUME Ranges, Turns, op = NoOp, chain # <<>>, chain' = Tail(chain),
         op'.kind = Head(chain).kind,
         op'.kind \in {"drain", "append"} => op'.stage \in {"acquire", "refused", "truncate", "rewrite", "write"},
         op'.kind = "flush" => op'.stage \in {"acquire", "header"} /\ op'.batch = <<>> /\ ~h'.materialized,
         h'.setup = h.setup, h'.timer = h.timer, (h'.draining <=> h.draining), h'.awaits = h.awaits,
         h.buffered = <<>> => h'.buffered = <<>>,
         Head(chain).kind # "drain" => h'.buffered = h.buffered
  PROVE  Turns'
<1> chain \in Seq(Operations)
  BY DEF Ranges
<1>1. /\ DOMAIN chain = 1..Len(chain) /\ Len(chain) \in Nat \ {0}
      /\ Len(chain') = Len(chain) - 1 /\ DOMAIN chain' = 1..(Len(chain) - 1)
      /\ Head(chain) = chain[1] /\ chain[1] \in Operations /\ 1 \in DOMAIN chain
      /\ \A k \in DOMAIN chain' : k + 1 \in DOMAIN chain /\ chain'[k] = chain[k + 1]
  BY ChainTail
<1>2. NoOp.kind = "none"
  BY DEF NoOp
<1>3. op'.kind \in {"drain", "append", "flush"}
  <2>1. chain[1].kind # "none"
    BY <1>1 DEF Turns, Queue
  <2>2. chain[1].kind \in Kinds
    BY <1>1 DEF Operations
  <2>3. QED
    BY <1>1, <2>1, <2>2 DEF Kinds
<1>4. op'.kind = "append" => Len(chain) = 1 /\ chain' = <<>>
  <2>1. op'.kind = "append" => Len(chain) = 1
    BY <1>1 DEF Turns, Queue
  <2>2. Len(chain) = 1 => Len(Tail(chain)) = 0 /\ Tail(chain) \in Seq(Operations)
    BY HeadTailProperties
  <2>3. QED
    BY <2>1, <2>2, EmptySeq
<1>5. Running'
  BY <1>1, <1>2, <1>3, <1>4 DEF Turns, Queue, Running
<1>6. Queue'
  <2>1. ASSUME NEW k \in DOMAIN chain'
        PROVE  /\ chain'[k].kind # "none" /\ chain'[k].stage = "queued"
               /\ chain'[k].kind = "drain" => h'.setup = "live" /\ h'.draining /\ op'.kind # "drain" /\ h'.buffered # <<>>
               /\ chain'[k].kind # "append"
               /\ chain'[k].kind = "flush" => h'.setup = "live" /\ chain'[k].batch = <<>>
    <3>1. k + 1 \in DOMAIN chain /\ chain'[k] = chain[k + 1] /\ k + 1 # 1 /\ k \in Nat
      BY <1>1
    <3>2. chain[k + 1].kind # "append"
      <4>1. Len(chain) # 1
        BY <1>1
      <4>2. QED
        BY <3>1, <4>1 DEF Turns, Queue
    <3>3. chain[k + 1].kind = "drain" => chain[1].kind # "drain"
      BY <1>1, <3>1 DEF Turns, Queue
    <3>4. QED
      BY <1>1, <3>1, <3>2, <3>3 DEF Turns, Queue
  <2>2. ASSUME NEW j \in DOMAIN chain', NEW k \in DOMAIN chain', chain'[j].kind = "drain", chain'[k].kind = "drain"
        PROVE  j = k
    <3>1. j + 1 \in DOMAIN chain /\ k + 1 \in DOMAIN chain /\ chain[j + 1].kind = "drain" /\ chain[k + 1].kind = "drain"
      BY <1>1, <2>2
    <3>2. j + 1 = k + 1 /\ j \in Int /\ k \in Int
      BY <1>1, <3>1 DEF Turns, Queue
    <3>3. QED
      BY <3>2
  <2>3. QED
    BY <2>1, <2>2 DEF Queue
<1>7. Producing'
  BY DEF Turns, Producing
<1>8. Drains'
  <2>1. ASSUME NEW k \in DOMAIN chain, chain[k].kind = "drain", chain[1].kind # "drain"
        PROVE  \E i \in DOMAIN chain' : chain'[i].kind = "drain"
    <3>1. k \in Nat /\ k # 1 /\ k - 1 \in DOMAIN chain'
      BY <1>1, <2>1
    <3>2. chain'[k - 1] = chain[(k - 1) + 1] /\ (k - 1) + 1 = k
      BY <1>1, <3>1
    <3>3. QED
      BY <2>1, <3>1, <3>2
  <2>2. QED
    BY <1>1, <1>2, <2>1 DEF Turns, Drains
<1>9. Counted'
  <2>1. op' # NoOp
    BY <1>2, <1>3
  <2>2. Pending = Len(chain) /\ Pending' = Len(chain)
    BY <1>1, <2>1 DEF Pending
  <2>3. QED
    BY <2>2 DEF Turns, Counted
<1>10. QED
  BY <1>5, <1>6, <1>7, <1>8, <1>9 DEF Turns

\* A flush at the head that has nothing to do is over at once.
LEMMA SkippedTurns ==
  ASSUME Ranges, Turns, op = NoOp, chain # <<>>, chain[1].kind = "flush", chain' = Tail(chain), op' = op,
         h'.setup = h.setup, h'.timer = h.timer, (h'.draining <=> h.draining), h'.buffered = h.buffered,
         h'.awaits = OneLess(h.awaits)
  PROVE  Turns'
<1> chain \in Seq(Operations) /\ h.awaits \in Nat
  BY DEF Ranges, Typed
<1>1. /\ DOMAIN chain = 1..Len(chain) /\ Len(chain) \in Nat \ {0}
      /\ Len(chain') = Len(chain) - 1 /\ DOMAIN chain' = 1..(Len(chain) - 1)
      /\ 1 \in DOMAIN chain
      /\ \A k \in DOMAIN chain' : k + 1 \in DOMAIN chain /\ chain'[k] = chain[k + 1]
  BY ChainTail
<1>2. h.setup = "live" /\ NoOp.kind = "none"
  BY <1>1 DEF Turns, Queue, NoOp
<1>3. Queue'
  <2>1. ASSUME NEW k \in DOMAIN chain'
        PROVE  /\ chain'[k].kind # "none" /\ chain'[k].stage = "queued"
               /\ chain'[k].kind = "drain" => h'.setup = "live" /\ h'.draining /\ op'.kind # "drain" /\ h'.buffered # <<>>
               /\ chain'[k].kind # "append"
               /\ chain'[k].kind = "flush" => h'.setup = "live" /\ chain'[k].batch = <<>>
    <3>1. k + 1 \in DOMAIN chain /\ chain'[k] = chain[k + 1]
      BY <1>1
    <3>2. QED
      BY <1>2, <3>1 DEF Turns, Queue
  <2>2. ASSUME NEW j \in DOMAIN chain', NEW k \in DOMAIN chain', chain'[j].kind = "drain", chain'[k].kind = "drain"
        PROVE  j = k
    <3>1. j + 1 \in DOMAIN chain /\ k + 1 \in DOMAIN chain /\ chain[j + 1].kind = "drain" /\ chain[k + 1].kind = "drain"
      BY <1>1, <2>2
    <3>2. j + 1 = k + 1 /\ j \in Int /\ k \in Int
      BY <1>1, <3>1 DEF Turns, Queue
    <3>3. QED
      BY <3>2
  <2>3. QED
    BY <2>1, <2>2 DEF Queue
<1>4. Drains'
  <2>1. ASSUME NEW k \in DOMAIN chain, chain[k].kind = "drain"
        PROVE  \E i \in DOMAIN chain' : chain'[i].kind = "drain"
    <3>1. k \in Nat /\ k # 1 /\ k - 1 \in DOMAIN chain'
      BY <1>1, <2>1
    <3>2. chain'[k - 1] = chain[(k - 1) + 1] /\ (k - 1) + 1 = k
      BY <1>1, <3>1
    <3>3. QED
      BY <2>1, <3>1, <3>2
  <2>2. QED
    BY <1>2, <2>1 DEF Turns, Drains
<1>5. Counted'
  <2>1. Pending = Len(chain) /\ Pending' = Len(chain) - 1
    BY <1>1 DEF Pending
  <2>2. QED
    BY <1>1, <2>1 DEF Turns, Counted, OneLess
<1>6. Running' /\ Producing'
  BY <1>2 DEF Running, Turns, Producing
<1>7. QED
  BY <1>3, <1>4, <1>5, <1>6 DEF Turns

LEMMA TurnsInit == Init => Turns
<1> SUFFICES ASSUME Init PROVE Turns
  OBVIOUS
<1>1. DOMAIN chain = {} /\ Len(chain) = 0 /\ op.kind = "none"
  BY DEF Init, NoOp
<1>2. h.awaits = 0 /\ h.buffered = <<>> /\ ~h.timer /\ ~h.draining
  BY DEF Init, Opened
<1>3. Running /\ Queue /\ Producing /\ Drains
  BY <1>1, <1>2 DEF Init, Running, Queue, Producing, Drains
<1>4. Counted
  BY <1>1, <1>2 DEF Init, Counted, Pending
<1>5. QED
  BY <1>3, <1>4 DEF Turns

\* What close() starts keeps to the turns.
LEMMA CloseTurns ==
  ASSUME Ranges, Turns, DrainToClose, op' = op
  PROVE  Turns'
<1> Typed(h) /\ h.awaits \in Nat /\ Pending \in Nat /\ h.awaits <= Pending
  <2>1. Len(chain) \in Nat
    BY DEF Ranges
  <2>2. QED
    BY <2>1 DEF Ranges, Typed, Turns, Counted, Pending
<1>1. CASE h.draining
  BY <1>1, QuietTurns DEF DrainToClose, Typed, Turns, Producing
<1>2. CASE ~h.draining /\ h.buffered = <<>>
  <2>1. chain' = DrainQueued
    BY <1>2 DEF DrainToClose, DrainQueued
  <2>2. /\ h'.buffered = h.buffered /\ h'.setup = h.setup /\ ~h'.timer
        /\ h'.materialized = h.materialized /\ h'.awaits = Pending
        /\ h'.draining <=> h.buffered # <<>>
    BY <1>2 DEF DrainToClose, DrainStarted, Typed
  <2>3. QED
    BY <1>2, <2>1, <2>2, DrainTurns
<1>3. CASE ~h.draining /\ h.buffered # <<>>
  <2>1. chain' = DrainQueued
    BY <1>3 DEF DrainToClose
  <2>2. /\ h'.buffered = h.buffered /\ h'.setup = h.setup /\ ~h'.timer
        /\ h'.materialized = h.materialized /\ h'.awaits = h.awaits
        /\ h'.draining <=> h.buffered # <<>>
    BY <1>3 DEF DrainToClose, DrainStarted, Typed
  <2>3. QED
    BY <1>3, <2>1, <2>2, DrainTurns
<1>4. QED
  BY <1>1, <1>2, <1>3

\* A failing operation is over.
LEMMA RejectTurns ==
  ASSUME Ranges, Turns, op.kind # "none", OpRejects
  PROVE  Turns'
<1> Typed(h) /\ op \in Operations
  BY DEF Ranges
<1>1. CASE op.kind = "drain"
  <2> DEFINE x == [h EXCEPT !.buffered = Retain(op.batch), !.paused = TRUE]
  <2>1. /\ DOMAIN x = DOMAIN h /\ x.buffered = op.batch \o h.buffered /\ x.setup = h.setup
        /\ x.timer = h.timer /\ x.awaits = h.awaits /\ x.state = h.state
    BY DEF Typed, Retain
  <2> HIDE DEF x
  <2>2. h' = GivenUp(x) /\ op' = NoOp /\ chain' = chain
    BY <1>1 DEF OpRejects, x
  <2>3. /\ h'.setup = h.setup /\ ~h'.draining /\ h'.buffered = op.batch \o h.buffered
        /\ h'.timer = h.timer
        /\ h'.awaits \in {OneLess(h.awaits), Len(chain)}
    BY <2>1, <2>2 DEF GivenUp, Typed
  <2>4. h.setup = "live"
    BY <1>1 DEF Turns, Running
  <2>5. h.buffered # <<>> => h'.buffered # <<>>
    BY <2>3 DEF Operations, Typed
  <2>6. QED
    BY <1>1, <2>2, <2>3, <2>4, <2>5, OverTurns
<1>2. CASE op.kind = "append"
  <2>1. /\ h'.setup = "failed" /\ (h'.draining <=> h.draining) /\ h'.buffered = h.buffered
        /\ h'.timer = h.timer /\ h'.awaits = OneLess(h.awaits) /\ op' = NoOp /\ chain' = chain
    BY <1>2 DEF OpRejects, Typed
  <2>2. h.buffered = <<>> /\ ~h.timer
    BY <1>2 DEF Turns, Running, Producing
  <2>3. QED
    BY <1>2, <2>1, <2>2, OverTurns
<1>3. CASE op.kind = "flush"
  <2>1. /\ h'.setup = h.setup /\ (h'.draining <=> h.draining) /\ h'.buffered = h.buffered
        /\ h'.timer = h.timer /\ h'.awaits = OneLess(h.awaits) /\ op' = NoOp /\ chain' = chain
    BY <1>3 DEF OpRejects, Typed
  <2>2. h.setup = "live"
    BY <1>3 DEF Turns, Running
  <2>3. QED
    BY <1>3, <2>1, <2>2, OverTurns
<1>4. QED
  BY <1>1, <1>2, <1>3 DEF Operations, Kinds

\* A fresh handle has no operation.
LEMMA FreshChain == Ranges /\ Turns /\ h.setup \in {"fresh", "failed"} => chain = <<>>
<1> SUFFICES ASSUME Ranges, Turns, h.setup \in {"fresh", "failed"}, chain # <<>> PROVE FALSE
  OBVIOUS
<1>1. 1 \in DOMAIN chain /\ chain[1] \in Operations
  BY ChainTail DEF Ranges
<1>2. QED
  BY <1>1 DEF Turns, Queue, Operations, Kinds

LEMMA TurnsStep == Ranges /\ Turns /\ Next => Turns'
<1> SUFFICES ASSUME Ranges, Turns, Next PROVE Turns'
  OBVIOUS
<1> /\ Typed(h) /\ op \in Operations /\ chain \in Seq(Operations) /\ pub \in Nat
    /\ h.awaits \in Nat /\ Pending \in Nat /\ h.awaits <= Pending
  <2>1. Len(chain) \in Nat /\ chain \in Seq(Operations)
    BY DEF Ranges
  <2>2. QED
    BY <2>1 DEF Ranges, Typed, Turns, Counted, Pending
<1>1. CASE Publish
  <2>1. /\ h'.setup = h.setup /\ h.setup = "live" /\ (h'.draining <=> h.draining) /\ h'.awaits = h.awaits
        /\ h'.materialized = h.materialized /\ h'.buffered = Append(h.buffered, pub + 1)
        /\ chain' = chain /\ op' = op
    BY <1>1 DEF Publish, Routed, Typed
  <2>2. h'.buffered # <<>>
    <3>1. PICK b \in Seq(Nat), q \in Nat : b = h.buffered /\ q = pub + 1
      BY DEF Typed
    <3>a. Append(b, q) # <<>>
      BY ONLY b \in Seq(Nat), q \in Nat, AppendProperties
    <3>2. Append(h.buffered, pub + 1) # <<>>
      BY <3>1, <3>a
    <3>3. QED
      BY <2>1, <3>2
  <2>3. QED
    BY <2>1, <2>2, QuietTurns
<1>2. CASE TimerFires
  <2>1. CASE h.draining
    BY <1>2, <2>1, QuietTurns DEF TimerFires, Typed, Turns, Producing
  <2>2. CASE ~h.draining
    <3>1. chain' = DrainQueued /\ h' = DrainStarted /\ op' = op
      BY <1>2, <2>2 DEF TimerFires
    <3>2. /\ (h'.draining <=> h.buffered # <<>>) /\ h'.buffered = h.buffered /\ h'.setup = h.setup
          /\ ~h'.timer /\ h'.materialized = h.materialized /\ h'.awaits = h.awaits
      BY <3>1 DEF DrainStarted, Typed
    <3>3. QED
      BY <2>2, <3>1, <3>2, DrainTurns
  <2>3. QED
    BY <2>1, <2>2
<1>3. CASE GoLive
  <2>1. h.setup = "fresh" /\ h'.setup = "live" /\ chain' = chain /\ op' = op
    BY <1>3 DEF GoLive, Typed
  <2>2. /\ (h'.draining <=> h.draining) /\ h'.buffered = h.buffered /\ h'.awaits = h.awaits
        /\ h'.materialized = h.materialized
    BY <1>3 DEF GoLive, Typed
  <2>3. op.kind = "none" /\ op = NoOp
    BY <2>1 DEF Turns, Running, Operations, Kinds
  <2>5. chain = <<>>
    BY <2>1, FreshChain
  <2>6. QED
    BY <2>1, <2>2, <2>3, <2>5, QuietTurns
<1>4. ASSUME NEW n \in 1..2, AppendSetup(n) PROVE Turns'
  <2> DEFINE o == [kind |-> "append", batch |-> Numbers(pub + 1, pub + n), stage |-> "queued", for |-> "none"]
  <2>1. h.setup = "fresh" /\ h'.setup = "appending" /\ chain' = Append(chain, o) /\ op' = op
    BY <1>4 DEF AppendSetup, Typed
  <2>2. /\ (h'.draining <=> h.draining) /\ h'.buffered = h.buffered /\ h'.awaits = h.awaits
        /\ h'.timer = h.timer
    BY <1>4 DEF AppendSetup, Typed
  <2>3. op.kind = "none" /\ op = NoOp
    BY <2>1 DEF Turns, Running, Operations, Kinds
  <2>5. chain = <<>>
    BY <2>1, FreshChain
  <2>6. o.kind = "append" /\ o.stage = "queued"
    OBVIOUS
  <2> HIDE DEF o
  <2>7. chain' = <<o>>
    BY <2>1, <2>5
  <2>8. DOMAIN chain' = {1} /\ chain'[1] = o /\ Len(chain') = 1
    BY <2>7
  <2>9. Running' /\ Producing'
    BY <2>1, <2>2, <2>3 DEF Turns, Running, Producing
  <2>10. Queue'
    BY <2>1, <2>3, <2>6, <2>8 DEF Queue
  <2>11. Drains'
    BY <2>1, <2>2 DEF Turns, Producing, Drains
  <2>12. Counted'
    <3>1. h.awaits = 0
      BY <2>3, <2>5 DEF Turns, Counted, Pending
    <3>2. QED
      BY <2>2, <2>8, <3>1, <2>1, <2>3 DEF Counted, Pending
  <2>13. QED
    BY <2>9, <2>10, <2>11, <2>12 DEF Turns
<1>5. ASSUME NEW f \in Flushers, Flush(f) PROVE Turns'
  <2>1. CASE h.buffered = <<>> /\ ~h.draining
    <3>1. h' = DrainStarted /\ chain' = chain \o Barriers({f}) /\ op' = op /\ h.setup = "live"
      BY <1>5, <2>1 DEF Flush, Routed
    <3>2. /\ ~h'.draining /\ h'.buffered = h.buffered /\ h'.setup = h.setup
          /\ ~h'.timer /\ h'.materialized = h.materialized /\ h'.awaits = h.awaits
      BY <2>1, <3>1 DEF DrainStarted, Typed
    <3>3. /\ DOMAIN chain' = 1..Len(chain') /\ Len(chain') \in Nat /\ Len(chain') >= Len(chain)
          /\ Len(chain) \in Nat
          /\ \A k \in DOMAIN chain : k \in DOMAIN chain' /\ chain'[k] = chain[k]
          /\ \A k \in DOMAIN chain' : k \in DOMAIN chain \/ \E g \in {f} : chain'[k] = FlushOp(g)
      BY <3>1, ChainBarriers
    <3>4. FlushOp(f).kind = "flush" /\ FlushOp(f).stage = "queued" /\ FlushOp(f).batch = <<>>
      BY DEF FlushOp
    <3>5. op.kind # "drain" /\ op.kind # "append"
      BY <2>1, <3>1 DEF Turns, Running
    <3>6. \A k \in DOMAIN chain : chain[k].kind = "flush" /\ chain[k].stage = "queued" /\ chain[k].batch = <<>>
      <4>1. ASSUME NEW k \in DOMAIN chain
            PROVE  chain[k].kind = "flush" /\ chain[k].stage = "queued" /\ chain[k].batch = <<>>
        <5>1. chain[k] \in Operations
          OBVIOUS
        <5>2. QED
          BY <2>1, <3>1, <5>1 DEF Turns, Queue, Operations, Kinds
      <4>2. QED
        BY <4>1
    <3>7. \A k \in DOMAIN chain' : chain'[k].kind = "flush" /\ chain'[k].stage = "queued" /\ chain'[k].batch = <<>>
      BY <3>3, <3>4, <3>6
    <3>8. Running' /\ Producing' /\ Drains'
      BY <3>1, <3>2, <3>5 DEF Turns, Running, Producing, Drains
    <3>9. Queue'
      BY <3>1, <3>2, <3>7 DEF Queue
    <3>10. Counted'
      <4>1. Pending' >= Pending /\ Pending' \in Nat
        BY <3>1, <3>3 DEF Pending
      <4>2. QED
        BY <3>2, <4>1 DEF Counted
    <3>11. QED
      BY <3>8, <3>9, <3>10 DEF Turns
  <2>2. CASE h.draining
    BY <1>5, <2>2, QuietTurns DEF Flush, Routed, Turns, Producing
  <2>3. CASE ~h.draining /\ h.buffered # <<>>
    <3>1. chain' = DrainQueued /\ h' = DrainStarted /\ op' = op
      BY <1>5, <2>3 DEF Flush, Routed
    <3>2. /\ (h'.draining <=> h.buffered # <<>>) /\ h'.buffered = h.buffered /\ h'.setup = h.setup
          /\ ~h'.timer /\ h'.materialized = h.materialized /\ h'.awaits = h.awaits
      BY <3>1 DEF DrainStarted, Typed
    <3>3. QED
      BY <2>3, <3>1, <3>2, DrainTurns
  <2>4. QED
    BY <2>1, <2>2, <2>3
<1>6. CASE StartDrain
  <2>1. Head(chain) \in Operations /\ Head(chain).kind = "drain" /\ op = NoOp /\ chain # <<>>
        /\ chain' = Tail(chain)
    BY <1>6 DEF StartDrain, Turn
  <2>2. op'.kind = "drain" /\ op'.stage \in {"acquire", "refused", "truncate", "rewrite", "write"}
    <3>a. PICK c \in Operations, b \in Seq(Nat) : c = Head(chain) /\ b = h.buffered
      BY <2>1 DEF Typed
    <3>b. [c EXCEPT !.batch = b] \in Operations /\ [c EXCEPT !.batch = b].kind = c.kind
      BY DEF Operations
    <3>1. PICK o \in Operations : o = [Head(chain) EXCEPT !.batch = h.buffered] /\ o.kind = "drain"
      BY <2>1, <3>a, <3>b
    <3>2. op' = Begun(o)
      BY <1>6, <3>1 DEF StartDrain
    <3>3. QED
      BY <3>1, <3>2, BegunIs
  <2>3. /\ h'.setup = h.setup /\ h'.timer = h.timer /\ (h'.draining <=> h.draining) /\ h'.awaits = h.awaits
        /\ h'.buffered = <<>>
    BY <1>6 DEF StartDrain, Turn, Typed
  <2>4. QED
    BY <2>1, <2>2, <2>3, StartTurns
<1>7. CASE StartAppend
  <2>1. Head(chain) \in Operations /\ op = NoOp /\ chain # <<>> /\ Head(chain).kind = "append" /\ chain' = Tail(chain)
    BY <1>7 DEF StartAppend, Turn
  <2>2. CASE h.state = "open"
    <3>1. op'.kind = "append" /\ op'.stage \in {"acquire", "refused", "truncate", "rewrite", "write"}
      BY <1>7, <2>1, <2>2, BegunIs DEF StartAppend
    <3>2. /\ h'.setup = h.setup /\ h'.timer = h.timer /\ (h'.draining <=> h.draining) /\ h'.awaits = h.awaits
          /\ h'.buffered = h.buffered
      BY <1>7, <2>2 DEF StartAppend, Turn, Typed
    <3>3. QED
      BY <2>1, <3>1, <3>2, StartTurns
  <2>3. CASE h.state # "open"
    <3>1. /\ h'.setup = "failed" /\ h'.timer = h.timer /\ (h'.draining <=> h.draining)
          /\ h'.awaits = OneLess(h.awaits) /\ h'.buffered = h.buffered /\ op' = op
      BY <1>7, <2>3 DEF StartAppend, Turn, Typed
    <3>2. Len(chain) = 1 /\ h.setup = "appending"
      <4>1. 1 \in DOMAIN chain /\ Head(chain) = chain[1]
        BY <2>1
      <4>2. QED
        BY <2>1, <4>1 DEF Turns, Queue
    <3>3. chain' = <<>>
      <4>1. Len(Tail(chain)) = 0 /\ Tail(chain) \in Seq(Operations)
        BY <2>1, <3>2, HeadTailProperties
      <4>2. QED
        BY <2>1, <4>1, EmptySeq
    <3>4. h.awaits <= 1
      BY <2>1, <3>2 DEF Pending
    <3>5. h'.awaits = 0
      BY <3>1, <3>4 DEF OneLess
    <3>6. h.buffered = <<>> /\ ~h.timer /\ ~h.draining
      BY <3>2 DEF Turns, Producing
    <3>7. QED
      BY <2>1, <3>1, <3>3, <3>5, <3>6, EmptyTurns
  <2>4. QED
    BY <2>2, <2>3

<1>8. CASE StartFlush
  <2>1. Head(chain) \in Operations /\ op = NoOp /\ chain # <<>> /\ Head(chain).kind = "flush" /\ chain' = Tail(chain)
    BY <1>8 DEF StartFlush, Turn
  <2>2. 1 \in DOMAIN chain /\ Head(chain) = chain[1]
    BY <2>1
  <2>3. Head(chain).batch = <<>> /\ h.setup = "live"
    BY <2>1, <2>2 DEF Turns, Queue
  <2>4. CASE h.state = "open" /\ ~h.materialized
    <3>1. op'.kind = "flush" /\ op'.stage \in {"acquire", "header"} /\ op'.batch = <<>>
      BY <1>8, <2>1, <2>3, <2>4, BegunIs DEF StartFlush
    <3>2. /\ h'.setup = h.setup /\ h'.timer = h.timer /\ (h'.draining <=> h.draining) /\ h'.awaits = h.awaits
          /\ h'.buffered = h.buffered /\ h'.materialized = h.materialized
      BY <1>8, <2>4 DEF StartFlush, Turn, Typed
    <3>3. QED
      BY <2>1, <2>4, <3>1, <3>2, StartTurns
  <2>5. CASE ~(h.state = "open" /\ ~h.materialized)
    <3>1. /\ h'.setup = h.setup /\ h'.timer = h.timer /\ (h'.draining <=> h.draining)
          /\ h'.awaits = OneLess(h.awaits) /\ h'.buffered = h.buffered /\ op' = op
      BY <1>8, <2>5 DEF StartFlush, Turn, Typed
    <3>2. QED
      BY <2>1, <2>2, <3>1, SkippedTurns
  <2>6. QED
    BY <2>4, <2>5
<1>9. CASE Truncate \/ Rewrite
  <2>1. op # NoOp /\ op'.kind = op.kind /\ op'.batch = op.batch /\ chain' = chain /\ op'.stage \in {"rewrite", "write"}
    <3>1. op.stage \in {"truncate", "rewrite"} /\ chain' = chain
      BY <1>9 DEF Truncate, At, Rewrite
    <3>2. PICK s : op' = [op EXCEPT !.stage = s] /\ s \in {"rewrite", "write"}
      BY <1>9 DEF Truncate, At, Rewrite
    <3>3. QED
      BY <3>1, <3>2 DEF NoOp, Operations
  <2>2. op.kind \in {"drain", "append"}
    <3>1. op.stage \in {"truncate", "rewrite"}
      BY <1>9 DEF Truncate, At, Rewrite
    <3>2. op.kind # "none" /\ op.kind # "flush"
      BY <3>1 DEF Turns, Running, NoOp
    <3>3. QED
      BY <3>2 DEF Operations, Kinds
  <2>3. /\ h'.setup = h.setup /\ h'.timer = h.timer /\ (h'.draining <=> h.draining) /\ h'.awaits = h.awaits
        /\ h'.buffered = h.buffered /\ h'.materialized = h.materialized
    BY <1>9 DEF Truncate, At, Rewrite, Typed
  <2>4. Running' /\ Producing' /\ Drains'
    BY <2>1, <2>2, <2>3 DEF Turns, Running, Producing, Drains
  <2>5. Queue'
    BY <2>1, <2>2, <2>3 DEF Turns, Queue
  <2>6. op' # NoOp
    BY <2>1, <2>2 DEF NoOp
  <2>7. Counted'
    BY <2>1, <2>3, <2>6 DEF Turns, Counted, Pending
  <2>8. QED
    BY <2>4, <2>5, <2>7 DEF Turns
<1>10. CASE WriteAppend
  <2>1. op.kind = "append" /\ op' = NoOp /\ chain' = chain
    BY <1>10 DEF WriteAppend, At
  <2>2. /\ h'.setup = "live" /\ (h'.draining <=> h.draining) /\ h'.buffered = h.buffered
        /\ h'.timer = h.timer /\ h'.awaits = OneLess(h.awaits)
    BY <1>10 DEF WriteAppend, At, Advanced, Typed
  <2>3. QED
    BY <2>1, <2>2, OverTurns
<1>11. CASE WriteBatch
  <2>1. op.kind = "drain" /\ op' = NoOp /\ h.setup = "live" /\ h.draining
    BY <1>11 DEF WriteBatch, At, Turns, Running
  <2> DEFINE x == Advanced(op.batch)
  <2>2. /\ DOMAIN x = DOMAIN h /\ x.setup = h.setup /\ x.timer = h.timer /\ x.buffered = h.buffered
        /\ x.awaits = h.awaits /\ (x.draining <=> h.draining) /\ x.state = h.state
    BY DEF Advanced, Typed
  <2>3. CASE h.buffered # <<>>
    <3>1. h' = [x EXCEPT !.awaits = OneLess(@)] /\ chain' = Append(chain, DrainOp)
      BY <1>11, <2>3 DEF WriteBatch, At
    <3> HIDE DEF x
    <3>2. /\ h'.setup = "live" /\ h'.draining /\ h'.buffered = h.buffered /\ h'.awaits = OneLess(h.awaits)
      BY <2>1, <2>2, <3>1 DEF Typed
    <3>3. DrainOp \in Operations /\ DrainOp.kind = "drain" /\ DrainOp.stage = "queued" /\ NoOp.kind = "none"
      BY OpTyped DEF DrainOp, NoOp
    <3>4. /\ Len(chain') = Len(chain) + 1 /\ DOMAIN chain' = 1..(Len(chain) + 1)
          /\ DOMAIN chain = 1..Len(chain) /\ Len(chain) \in Nat
          /\ (\A k \in DOMAIN chain : chain'[k] = chain[k]) /\ chain'[Len(chain) + 1] = DrainOp
      BY <3>1, <3>3, ChainAppend
    <3>5. ASSUME NEW k \in DOMAIN chain
          PROVE  chain[k].kind = "flush" /\ chain[k].stage = "queued" /\ chain[k].batch = <<>>
      <4>1. chain[k] \in Operations
        OBVIOUS
      <4>2. QED
        BY <2>1, <4>1 DEF Turns, Queue, Operations, Kinds
    <3>6. ASSUME NEW k \in DOMAIN chain'
          PROVE  \/ k \in DOMAIN chain /\ chain'[k] = chain[k]
                 \/ chain'[k] = DrainOp /\ k = Len(chain) + 1
      <4>1. k \in DOMAIN chain \/ k = Len(chain) + 1
        BY <3>4
      <4>2. QED
        BY <3>4, <4>1
    <3>7. Queue'
      <4>1. ASSUME NEW k \in DOMAIN chain'
            PROVE  /\ chain'[k].kind \in {"drain", "flush"} /\ chain'[k].stage = "queued"
                   /\ chain'[k].kind = "flush" => chain'[k].batch = <<>>
                   /\ chain'[k].kind = "drain" => k = Len(chain) + 1
        BY <3>3, <3>5, <3>6
      <4>2. QED
        BY <2>1, <2>3, <3>2, <3>3, <4>1 DEF Queue
    <3>8. Running' /\ Producing' /\ Drains'
      BY <2>1, <3>2, <3>3, <3>4 DEF Running, Producing, Drains
    <3>9. Counted'
      <4>1. Pending = Len(chain) + 1 /\ Pending' = Len(chain) + 1
        BY <2>1, <3>3, <3>4 DEF Pending
      <4>2. QED
        BY <3>2, <4>1, OneLessTyped DEF Counted
    <3>10. QED
      BY <3>7, <3>8, <3>9 DEF Turns
  <2>4. CASE h.buffered = <<>>
    <3>1. h' = Drained(x) /\ chain' = chain \o Barriers(AtDrain)
      BY <1>11, <2>4 DEF WriteBatch, At
    <3> HIDE DEF x
    <3>2. /\ h'.setup = "live" /\ ~h'.draining /\ h'.buffered = h.buffered
          /\ h'.awaits \in {OneLess(h.awaits), Len(chain)}
      BY <2>1, <2>2, <3>1 DEF Drained, Typed
    <3>3. AtDrain \in SUBSET Flushers
      BY DEF AtDrain
    <3>4. QED
      BY <2>1, <2>4, <3>1, <3>2, <3>3, OverTurns
  <2>5. QED
    BY <2>3, <2>4
<1>12. CASE WriteHeader
  <2>1. op.kind = "flush" /\ op' = NoOp /\ chain' = chain /\ h.setup = "live"
    BY <1>12 DEF WriteHeader, At, Turns, Running, NoOp, Operations, Kinds
  <2>2. /\ h'.setup = h.setup /\ (h'.draining <=> h.draining) /\ h'.buffered = h.buffered
        /\ h'.timer = h.timer /\ h'.awaits = OneLess(h.awaits)
    BY <1>12 DEF WriteHeader, At, Typed
  <2>3. QED
    BY <2>1, <2>2, OverTurns
<1>13. CASE OpRefused
  <2>1. op.kind # "none" /\ OpRejects
    BY <1>13 DEF OpRefused, At, Turns, Running, NoOp
  <2>2. QED
    BY <2>1, RejectTurns
<1>14. CASE OpFails
  <2>1. op.kind # "none" /\ OpRejects
    BY <1>14 DEF OpFails, Turns, Running
  <2>2. QED
    BY <2>1, RejectTurns
<1>15. CASE PublishFails
  <2>1. op.kind # "none" /\ OpRejects
    BY <1>15 DEF PublishFails, At, Turns, Running, NoOp
  <2>2. QED
    BY <2>1, RejectTurns
<1>a1. ASSUME NEW n \in 0..1, RollbackFails(n) PROVE Turns'
  <2>1. op.kind # "none" /\ OpRejects
    BY <1>a1 DEF RollbackFails, At, Turns, Running, NoOp
  <2>2. QED
    BY <2>1, RejectTurns
<1>a2. CASE Acquire
  <2>1. /\ h'.setup = h.setup /\ h'.timer = h.timer /\ (h'.draining <=> h.draining) /\ h'.awaits = h.awaits
        /\ h'.buffered = h.buffered /\ h'.materialized = h.materialized /\ chain' = chain
    BY <1>a2 DEF Acquire, Typed
  <2>2. op.stage = "acquire" /\ op.kind # "none" /\ op # NoOp
    BY <1>a2 DEF Acquire, At, Turns, Running, NoOp
  <2>3. PICK t : t = Stage(op.kind, op.batch) /\ op' = [op EXCEPT !.stage = t]
    BY <1>a2 DEF Acquire
  <2>4. op'.kind = op.kind /\ op'.batch = op.batch /\ op'.stage = t
    BY <2>3 DEF Operations
  <2>5. /\ op.kind = "flush" => t = "header"
        /\ op.kind # "flush" => t \in {"refused", "truncate", "rewrite", "write"}
    BY <2>3, OpTyped DEF Stage
  <2>6. Running' /\ Producing' /\ Drains'
    BY <2>1, <2>2, <2>4, <2>5 DEF Turns, Running, Producing, Drains
  <2>7. Queue'
    BY <2>1, <2>2, <2>4 DEF Turns, Queue, NoOp
  <2>8. op' # NoOp
    BY <2>2, <2>4 DEF NoOp
  <2>9. Counted'
    BY <2>1, <2>2, <2>8 DEF Turns, Counted, Pending
  <2>10. QED
    BY <2>6, <2>7, <2>9 DEF Turns
<1>a3. CASE LateDrain
  BY <1>a3, QuietTurns DEF LateDrain, Turns, Producing
<1>16. CASE Close
  BY <1>16, CloseTurns DEF Close
<1>17. CASE Settle
  <2>1. CASE h.buffered = <<>>
    <3>1. chain' = chain /\ op' = op /\ h' = [h EXCEPT !.state = "settled", !.awaits = Pending]
      BY <1>17, <2>1 DEF Settle
    <3>2. /\ h'.setup = h.setup /\ h'.materialized = h.materialized /\ h'.buffered = h.buffered
          /\ h'.timer = h.timer /\ (h'.draining <=> h.draining) /\ h'.awaits = Pending
      BY <3>1 DEF Typed
    <3>3. QED
      BY <3>1, <3>2, QuietTurns DEF Turns, Producing
  <2>2. CASE h.buffered # <<>>
    <3>1. DrainToClose /\ op' = op
      BY <1>17, <2>2 DEF Settle
    <3>2. QED
      BY <3>1, CloseTurns
  <2>3. QED
    BY <2>1, <2>2
<1>18. CASE Release \/ Released
  <2>1. /\ h'.setup = h.setup /\ h'.materialized = h.materialized /\ h'.buffered = h.buffered
        /\ h'.timer = h.timer /\ (h'.draining <=> h.draining) /\ h'.awaits = h.awaits
        /\ chain' = chain /\ op' = op
    BY <1>18 DEF Release, Released, Typed
  <2>2. QED
    BY <2>1, QuietTurns DEF Turns, Producing
<1>19. ASSUME NEW d, OpenOver(d) PROVE Turns'
  <2>1. /\ chain' = <<>> /\ op' = NoOp /\ h'.awaits = 0 /\ h'.buffered = <<>>
        /\ ~h'.timer /\ ~h'.draining
    BY <1>19 DEF OpenOver, Opened
  <2>2. QED
    BY <2>1, EmptyTurns
<1>20. QED
  BY <1>1, <1>2, <1>3, <1>4, <1>5, <1>6, <1>7, <1>8, <1>9, <1>10, <1>11, <1>12, <1>13, <1>14, <1>15,
     <1>a1, <1>a2, <1>a3, <1>16, <1>17, <1>18, <1>19 DEF Next, Chain, Closing, Crash, Reopen

-----------------------------------------------------------------------------
(* The buffer.                                                             *)

LEMMA StrandedInit == Init => NeverStranded
  BY DEF Init, Opened, NeverStranded

\* Whoever takes the timer away from a buffer drains it.
LEMMA StrandedStep == Ranges /\ Turns /\ NeverStranded /\ Next => NeverStranded'
<1> SUFFICES ASSUME Ranges, Turns, NeverStranded, Next PROVE NeverStranded'
  OBVIOUS
<1> Typed(h)
  BY DEF Ranges
<1> DEFINE Kept(x) == x.buffered # <<>> => x.timer \/ x.draining \/ x.paused
<1>0. Kept(h) /\ (Kept(h') => NeverStranded') /\ Kept(DrainStarted)
  BY DEF NeverStranded, DrainStarted, Typed
<1>1. CASE Publish
  BY <1>1 DEF Publish, Routed, Arm, NeverStranded, Typed
<1>2. CASE TimerFires
  BY <1>0, <1>2 DEF TimerFires, NeverStranded, Typed
<1>3. CASE GoLive
  BY <1>3 DEF GoLive, NeverStranded, Typed
<1>4. ASSUME NEW n \in 1..2, AppendSetup(n) PROVE NeverStranded'
  BY <1>4 DEF AppendSetup, NeverStranded, Typed
<1>5. ASSUME NEW f \in Flushers, Flush(f) PROVE NeverStranded'
  BY <1>0, <1>5 DEF Flush, Routed
<1>6. CASE StartDrain
  BY <1>6 DEF StartDrain, Turn, NeverStranded, Typed
<1>7. CASE StartAppend
  BY <1>7 DEF StartAppend, Turn, NeverStranded, Typed
<1>8. CASE StartFlush
  BY <1>8 DEF StartFlush, Turn, NeverStranded, Typed
<1>9. CASE Truncate \/ Rewrite
  BY <1>9 DEF Truncate, At, Rewrite, NeverStranded, Typed
<1>10. CASE WriteAppend
  BY <1>10 DEF WriteAppend, At, Advanced, NeverStranded, Typed
<1>11. CASE WriteBatch
  <2>1. h.draining
    BY <1>11 DEF WriteBatch, At, Turns, Running
  <2> DEFINE x == Advanced(op.batch)
  <2>2. DOMAIN x = DOMAIN h /\ x.buffered = h.buffered /\ (x.draining <=> h.draining)
    BY DEF Advanced, Typed
  <2>3. h' = [x EXCEPT !.awaits = OneLess(@)] \/ (h.buffered = <<>> /\ h' = Drained(x))
    BY <1>11 DEF WriteBatch, At
  <2> HIDE DEF x
  <2>4. CASE h' = [x EXCEPT !.awaits = OneLess(@)]
    BY <2>1, <2>2, <2>4 DEF NeverStranded, Typed
  <2>5. CASE h.buffered = <<>> /\ h' = Drained(x)
    BY <2>2, <2>5 DEF Drained, NeverStranded, Typed
  <2>6. QED
    BY <2>3, <2>4, <2>5
<1>12. CASE WriteHeader
  BY <1>12 DEF WriteHeader, At, NeverStranded, Typed
<1>13. ASSUME op.kind # "none", OpRejects PROVE NeverStranded'
  <2>1. CASE op.kind = "drain"
    <3> DEFINE x == [h EXCEPT !.buffered = Retain(op.batch), !.paused = TRUE]
    <3>1. DOMAIN x = DOMAIN h /\ x.paused
      BY DEF Typed
    <3>2. h' = GivenUp(x)
      BY <1>13, <2>1 DEF OpRejects
    <3> HIDE DEF x
    <3>3. h'.paused
      BY <3>1, <3>2 DEF GivenUp, Typed
    <3>4. QED
      BY <3>3 DEF NeverStranded
  <2>2. CASE op.kind # "drain"
    <3>1. op.kind \in {"append", "flush"}
      BY <1>13, <2>2 DEF Ranges, Operations, Kinds
    <3>2. QED
      BY <1>13, <3>1 DEF OpRejects, NeverStranded, Typed
  <2>3. QED
    BY <2>1, <2>2
<1>14. CASE OpRefused \/ OpFails \/ PublishFails \/ \E n \in 0..1 : RollbackFails(n)
  <2>1. OpRejects /\ (OpFails \/ At({"refused", "write", "header", "acquire", "rewrite"}))
    BY <1>14 DEF OpRefused, OpFails, PublishFails, RollbackFails, At
  <2>2. op.kind # "none"
    BY <1>14, <2>1 DEF OpFails, At, Turns, Running, NoOp
  <2>3. QED
    BY <1>13, <2>1, <2>2
<1>a2. CASE Acquire
  BY <1>a2 DEF Acquire, NeverStranded, Typed
<1>a3. CASE LateDrain
  BY <1>a3 DEF LateDrain, NeverStranded
<1>15. ASSUME DrainToClose PROVE NeverStranded'
  BY <1>15 DEF DrainToClose, DrainStarted, NeverStranded, Typed
<1>16. CASE Close
  BY <1>15, <1>16 DEF Close
<1>17. CASE Settle
  BY <1>15, <1>17 DEF Settle, NeverStranded, Typed
<1>18. CASE Release \/ Released
  BY <1>18 DEF Release, Released, NeverStranded, Typed
<1>19. ASSUME NEW d, OpenOver(d) PROVE NeverStranded'
  BY <1>19 DEF OpenOver, Opened, NeverStranded
<1>20. QED
  BY <1>1, <1>2, <1>3, <1>4, <1>5, <1>6, <1>7, <1>8, <1>9, <1>10, <1>11, <1>12, <1>14, <1>a2, <1>a3, <1>16,
     <1>17, <1>18, <1>19 DEF Next, Chain, Closing, Crash, Reopen

-----------------------------------------------------------------------------
(* What is behind the cursor.                                              *)

LEMMA LastBehind ==
  ASSUME NEW b \in Seq(Nat), NEW c \in Nat, NEW p \in Nat, c <= p, b = Numbers(c + 1, p)
  PROVE  c + Len(b) = p
<1>0. PICK a \in Nat : a = c + 1
  OBVIOUS
<1>1. a >= 1 /\ a <= p + 1 /\ b = Numbers(a, p)
  BY <1>0
<1>2. Len(b) = p + 1 - a
  BY <1>1, NumbersAre
<1>3. QED
  BY <1>0, <1>2

\* The batch that runs continues the log, and the buffer continues the batch.
LEMMA BatchIs ==
  ASSUME Ranges, Turns, Behind, op.kind \in {"drain", "append"}
  PROVE  \E d \in Nat :
           /\ d = h.cursor + Len(op.batch) /\ d <= pub
           /\ op.batch = Numbers(h.cursor + 1, d)
           /\ op.kind = "drain" => h.buffered = Numbers(d + 1, pub)
           /\ op.kind = "append" => d = pub
<1>1. PICK b \in Seq(Nat), t \in Seq(Nat), c \in Nat, p \in Nat :
        b = op.batch /\ t = h.buffered /\ c = h.cursor /\ p = pub /\ c <= p
  BY DEF Ranges, Operations, Typed, Behind
<1>2. CASE op.kind = "drain"
  <2>1. b \o t = Numbers(c + 1, p)
    BY <1>1, <1>2 DEF Turns, Running, Behind, InFlight
  <2> DEFINE m == Len(b)
             a == c + 1
             d == c + m
  <2>m. m \in Nat /\ c <= p
    BY <1>1
  <2>2. m = Len(b) /\ b \o t = Numbers(a, p)
    BY <2>1
  <2> HIDE DEF m
  <2>3. a \in Nat /\ d \in Nat /\ a >= 1 /\ a <= p + 1 /\ d + 1 = a + m
    BY ONLY <2>m, c \in Nat, p \in Nat
  <2>4. a = c + 1 /\ d = c + m
    OBVIOUS
  <2> HIDE DEF a, d
  <2>5. Cut(b, t, a, p, d)
    BY ONLY <2>2, <2>3 DEF Cut
  <2>6. b = Numbers(a, d) /\ t = Numbers(d + 1, p) /\ d <= p
    BY ONLY <2>3, <2>5, NumbersSplit, b \in Seq(Nat), t \in Seq(Nat), p \in Nat
  <2>7. d = c + Len(b)
    BY ONLY <2>2, <2>4
  <2>8. d \in Nat /\ d = h.cursor + Len(op.batch) /\ d <= pub
        /\ op.batch = Numbers(h.cursor + 1, d) /\ h.buffered = Numbers(d + 1, pub)
    BY ONLY <1>1, <2>3, <2>4, <2>6, <2>7
  <2>9. QED
    BY <1>2, <2>8
<1>3. CASE op.kind = "append"
  <2>1. b = Numbers(c + 1, p)
    BY <1>1, <1>3 DEF Behind
  <2>2. c + Len(b) = p
    BY <1>1, <2>1, LastBehind
  <2>3. QED
    BY <1>1, <1>3, <2>1, <2>2
<1>4. QED
  BY <1>2, <1>3

\* Steps that move nothing across the cursor.
LEMMA KeptBehind ==
  ASSUME Behind, pub' = pub, h'.cursor = h.cursor, h'.setup = h.setup \/ h'.setup \in {"appending", "failed"},
         h'.buffered = h.buffered, InFlight' = InFlight,
         op'.kind = "append" =>
           (op.kind = "append" /\ op'.batch = op.batch)
           \/ (\E k \in DOMAIN chain : chain[k].kind = "append" /\ op'.batch = chain[k].batch),
         \A k \in DOMAIN chain' : chain'[k].kind = "append" =>
           \E j \in DOMAIN chain : chain[j].kind = "append" /\ chain'[k].batch = chain[j].batch
  PROVE  Behind'
  BY DEF Behind

\* The operation is over: its batch is stored, or stays where it was.
LEMMA OverBehind ==
  ASSUME Ranges, Turns, Behind, op' = NoOp, pub' = pub,
         h'.cursor \in Nat, h'.cursor <= pub, h'.setup # "fresh",
         h'.setup = "live" => h'.buffered = Numbers(h'.cursor + 1, pub),
         Typed(h'),
         \A k \in DOMAIN chain' : chain'[k].kind # "append"
  PROVE  Behind'
<1>1. op'.kind = "none" /\ InFlight' = <<>>
  BY DEF NoOp, InFlight
<1>2. InFlight' \o h'.buffered = h'.buffered
  BY <1>1, ConcatEmptySeq DEF Typed
<1>3. QED
  BY <1>1, <1>2 DEF Behind


\* A chain that grows by drains and barriers, or loses its head, has no new appends.
LEMMA ChainKept ==
  ASSUME chain \in Seq(Operations), NEW fs \in SUBSET Flushers,
         \/ chain' = chain
         \/ chain' = DrainQueued
         \/ chain' = chain \o Barriers(fs)
         \/ (chain # <<>> /\ chain' = Tail(chain))
  PROVE  \A k \in DOMAIN chain' : chain'[k].kind = "append" =>
           \E j \in DOMAIN chain : chain[j].kind = "append" /\ chain'[k].batch = chain[j].batch
<1>1. CASE chain' = chain
  BY <1>1
<1>2. CASE chain' = Append(chain, DrainOp)
  <2>1. /\ Len(chain) \in Nat /\ DOMAIN chain' = 1..(Len(chain) + 1) /\ DOMAIN chain = 1..Len(chain)
        /\ \A k \in DOMAIN chain : chain'[k] = chain[k]
        /\ chain'[Len(chain) + 1] = DrainOp
    BY <1>2, ChainAppend, OpTyped
  <2>2. \A k \in DOMAIN chain' : k \in DOMAIN chain \/ k = Len(chain) + 1
    <3>1. \A n \in Nat : \A k \in 1..(n + 1) : k \in 1..n \/ k = n + 1
      OBVIOUS
    <3>2. QED
      BY ONLY <2>1, <3>1
  <2>3. DrainOp.kind # "append"
    BY DEF DrainOp
  <2>4. QED
    BY <2>1, <2>2, <2>3
<1>3. CASE chain' = chain \o Barriers(fs)
  <2>1. \A k \in DOMAIN chain' : k \in DOMAIN chain \/ (\E f \in fs : chain'[k] = FlushOp(f))
    BY <1>3, ChainBarriers
  <2>2. \A k \in DOMAIN chain : chain'[k] = chain[k]
    BY <1>3, ChainBarriers
  <2>3. \A f \in fs : FlushOp(f).kind # "append"
    BY DEF FlushOp
  <2>4. QED
    BY <2>1, <2>2, <2>3
<1>4. CASE chain # <<>> /\ chain' = Tail(chain)
  BY <1>4, ChainTail
<1>5. QED
  BY <1>1, <1>2, <1>3, <1>4 DEF DrainQueued

LEMMA BehindInit == Init => Behind
<1> SUFFICES ASSUME Init PROVE Behind
  OBVIOUS
<1>1. /\ disk.whole \o disk.tail = <<>> /\ h.cursor = 0 /\ pub = 0 /\ h.setup = "fresh"
  BY DEF Init, NoLog, Opened, Records
<1>2. op.kind = "none" /\ chain = <<>>
  BY DEF Init, NoOp
<1>3. QED
  BY <1>1, <1>2 DEF Behind

\* A failing operation moves nothing across the cursor.
LEMMA RejectBehind ==
  ASSUME Ranges, Turns, Behind, op.kind # "none", OpRejects
  PROVE  Behind'
<1> Typed(h) /\ op \in Operations /\ pub \in Nat
  BY DEF Ranges
<1>1. op' = NoOp /\ pub' = pub /\ chain' = chain /\ Typed(h')
  BY OpRejectsTyped
<1>2. \A k \in DOMAIN chain' : chain'[k].kind # "append"
  BY <1>1 DEF Turns, Queue, NoOp
<1>3. h.cursor <= pub /\ h.cursor \in Nat
  BY DEF Behind, Typed
<1>4. CASE op.kind = "drain"
  <2> DEFINE x == [h EXCEPT !.buffered = Retain(op.batch), !.paused = TRUE]
  <2>1. DOMAIN x = DOMAIN h /\ x.buffered = op.batch \o h.buffered /\ x.setup = h.setup /\ x.cursor = h.cursor
    BY DEF Typed, Retain
  <2>2. h' = GivenUp(x)
    BY <1>4 DEF OpRejects
  <2> HIDE DEF x
  <2>3. h'.setup = h.setup /\ h'.buffered = op.batch \o h.buffered /\ h'.cursor = h.cursor
    BY <2>1, <2>2 DEF GivenUp, Typed
  <2>4. h.setup = "live"
    BY <1>4 DEF Turns, Running
  <2>5. h'.buffered = Numbers(h'.cursor + 1, pub)
    BY <1>4, <2>3, <2>4 DEF Behind, InFlight
  <2>6. QED
    BY <1>1, <1>2, <1>3, <2>3, <2>4, <2>5, OverBehind
<1>5. CASE op.kind = "append"
  <2>1. h'.setup = "failed" /\ h'.cursor = h.cursor
    BY <1>5 DEF OpRejects, Typed
  <2>2. QED
    BY <1>1, <1>2, <1>3, <2>1, OverBehind
<1>6. CASE op.kind = "flush"
  <2>1. h'.setup = h.setup /\ h'.cursor = h.cursor /\ h'.buffered = h.buffered
    BY <1>6 DEF OpRejects, Typed
  <2>2. h.setup = "live"
    BY <1>6 DEF Turns, Running
  <2>3. <<>> \o h.buffered = Numbers(h.cursor + 1, pub)
    BY <1>6, <2>2 DEF Behind, InFlight
  <2>4. h'.buffered = Numbers(h'.cursor + 1, pub)
    BY <2>1, <2>3, ConcatEmptySeq DEF Typed
  <2>5. QED
    BY <1>1, <1>2, <1>3, <2>1, <2>2, <2>4, OverBehind
<1>7. QED
  BY <1>4, <1>5, <1>6 DEF Operations, Kinds

LEMMA AppendBehind ==
  ASSUME NEW i \in Seq(Nat), NEW b \in Seq(Nat), NEW n \in Nat
  PROVE  i \o Append(b, n) = Append(i \o b, n)
  OBVIOUS

LEMMA BehindStep == Ranges /\ Turns /\ Behind /\ Next => Behind'
<1> SUFFICES ASSUME Ranges, Turns, Behind, Next PROVE Behind'
  OBVIOUS
<1> Typed(h) /\ op \in Operations /\ chain \in Seq(Operations) /\ pub \in Nat /\ disk \in Artifacts
    /\ h.cursor \in Nat /\ h.buffered \in Seq(Nat)
  BY DEF Ranges, Typed
<1>0. /\ NoOp.kind = "none"
      /\ op.kind = "none" => op = NoOp
      /\ h.setup # "appending" \/ op # NoOp =>
           \A k \in DOMAIN chain : chain[k].kind # "append"
      /\ h.setup # "live" => op.kind # "drain" /\ h.buffered = <<>> /\ InFlight = <<>>
  BY DEF NoOp, Turns, Running, Queue, Producing, InFlight
<1>1. CASE Publish
  <2>1. /\ h'.buffered = Append(h.buffered, pub + 1) /\ h'.cursor = h.cursor /\ h'.setup = h.setup
        /\ h.setup = "live" /\ pub' = pub + 1 /\ op' = op /\ chain' = chain
    BY <1>1 DEF Publish, Routed, Typed
  <2>2. InFlight \in Seq(Nat) /\ InFlight' = InFlight
    BY <2>1 DEF InFlight, Operations
  <2>3. InFlight \o h.buffered = Numbers(h.cursor + 1, pub)
    BY <2>1 DEF Behind
  <2>4. PICK i \in Seq(Nat), b \in Seq(Nat), a \in Nat, p \in Nat :
          i = InFlight /\ b = h.buffered /\ a = h.cursor + 1 /\ p = pub
    BY <2>2
  <2>5. a >= 1 /\ a <= p + 1
    BY <2>4 DEF Behind
  <2>6. i \o Append(b, p + 1) = Append(i \o b, p + 1)
    BY AppendBehind
  <2>7. i \o b = Numbers(a, p)
    BY ONLY <2>3, <2>4
  <2>8. Append(Numbers(a, p), p + 1) = Numbers(a, p + 1)
    BY ONLY <2>5, NumbersNext, a \in Nat, p \in Nat
  <2>9. i \o Append(b, p + 1) = Numbers(a, p + 1)
    BY ONLY <2>6, <2>7, <2>8
  <2>10. InFlight' \o h'.buffered = Numbers(h'.cursor + 1, pub')
    BY ONLY <2>1, <2>2, <2>4, <2>9
  <2>11. h'.cursor <= pub'
    BY <2>1 DEF Behind
  <2>12. op'.kind # "append" /\ \A k \in DOMAIN chain' : chain'[k].kind # "append"
    BY <1>0, <2>1 DEF Turns, Running
  <2>13. QED
    BY <2>1, <2>10, <2>11, <2>12 DEF Behind
<1>2. ASSUME NEW fs \in SUBSET Flushers,
             \/ chain' = chain
             \/ chain' = DrainQueued
             \/ chain' = chain \o Barriers(fs)
             \/ (chain # <<>> /\ chain' = Tail(chain)),
             pub' = pub, h'.cursor = h.cursor, h'.setup = h.setup, h'.buffered = h.buffered,
             op'.kind = op.kind, op'.batch = op.batch
      PROVE  Behind'
  <2>1. InFlight' = InFlight
    BY <1>2 DEF InFlight
  <2>2. \A k \in DOMAIN chain' : chain'[k].kind = "append" =>
          \E j \in DOMAIN chain : chain[j].kind = "append" /\ chain'[k].batch = chain[j].batch
    BY <1>2, ChainKept
  <2>3. QED
    BY <1>2, <2>1, <2>2, KeptBehind
<1>3. ASSUME \/ chain' = chain
             \/ chain' = DrainQueued
             \/ (chain # <<>> /\ chain' = Tail(chain)),
             pub' = pub, h'.cursor = h.cursor, h'.setup = h.setup, h'.buffered = h.buffered,
             op'.kind = op.kind, op'.batch = op.batch
      PROVE  Behind'
  BY <1>2, <1>3
<1>4. CASE TimerFires
  BY <1>3, <1>4 DEF TimerFires, DrainStarted, Typed
<1>5. CASE GoLive
  <2>1. /\ h'.cursor = h.cursor /\ h'.setup = "live" /\ h'.buffered = h.buffered /\ h.setup = "fresh"
        /\ pub' = pub /\ op' = op /\ chain' = chain
    BY <1>5 DEF GoLive, Typed
  <2>2. h.cursor = pub /\ h'.buffered = <<>> /\ InFlight' = <<>>
    BY <1>0, <2>1 DEF Behind, InFlight
  <2>3. Numbers(pub + 1, pub) = <<>>
    BY NoneBehind
  <2>4. InFlight' \o h'.buffered = <<>>
    BY <2>2
  <2>5. op'.kind # "append" /\ \A k \in DOMAIN chain' : chain'[k].kind # "append"
    BY <1>0, <2>1 DEF Turns, Running
  <2>6. QED
    BY <2>1, <2>2, <2>3, <2>4, <2>5 DEF Behind
<1>6. ASSUME NEW n \in 1..2, AppendSetup(n) PROVE Behind'
  <2> DEFINE o == [kind |-> "append", batch |-> Numbers(pub + 1, pub + n), stage |-> "queued", for |-> "none"]
  <2>1. /\ h'.cursor = h.cursor /\ h'.setup = "appending" /\ h'.buffered = h.buffered /\ h.setup = "fresh"
        /\ pub' = pub + n /\ op' = op /\ chain' = Append(chain, o)
    BY <1>6 DEF AppendSetup, Typed
  <2>2. h.cursor = pub
    BY <2>1 DEF Behind
  <2>3. o.kind = "append" /\ o.batch = Numbers(h'.cursor + 1, pub')
    BY <2>1, <2>2
  <2> HIDE DEF o
  <2>4. \A k \in DOMAIN chain' : (k \in DOMAIN chain /\ chain'[k] = chain[k]) \/ chain'[k] = o
    BY <2>1, AppendProperties, LenProperties
  <2>5. \A k \in DOMAIN chain' : chain'[k].kind = "append" => chain'[k].batch = Numbers(h'.cursor + 1, pub')
    BY <1>0, <2>1, <2>3, <2>4
  <2>6. op'.kind # "append" /\ h'.setup = "appending"
    BY <2>1 DEF Turns, Running
  <2>7. h'.cursor <= pub'
    <3>1. \A m \in Nat : m <= m + n
      OBVIOUS
    <3>2. QED
      BY <2>1, <2>2, <3>1
  <2>8. QED
    BY <2>5, <2>6, <2>7 DEF Behind
<1>7. ASSUME NEW f \in Flushers, Flush(f) PROVE Behind'
  <2>1. /\ pub' = pub /\ h'.cursor = h.cursor /\ h'.setup = h.setup /\ h'.buffered = h.buffered /\ op' = op
        /\ \/ chain' = chain
           \/ chain' = DrainQueued
           \/ chain' = chain \o Barriers({f})
    BY <1>7 DEF Flush, Routed, DrainStarted, Typed
  <2>2. QED
    BY <1>2, <2>1
<1>8. CASE StartDrain
  <2>a. /\ op.kind = "none" /\ chain # <<>> /\ chain' = Tail(chain) /\ Head(chain).kind = "drain" /\ pub' = pub
        /\ Head(chain) \in Operations
    BY <1>0, <1>8 DEF StartDrain, Turn
  <2>b. op'.kind = "drain" /\ op'.batch = h.buffered
    <3>1. PICK c \in Operations, b \in Seq(Nat) : c = Head(chain) /\ b = h.buffered
      BY <2>a
    <3>2. /\ [c EXCEPT !.batch = b] \in Operations
          /\ [c EXCEPT !.batch = b].kind = c.kind /\ [c EXCEPT !.batch = b].batch = b
      BY DEF Operations
    <3>3. PICK o \in Operations : o = [Head(chain) EXCEPT !.batch = h.buffered] /\ o.kind = "drain" /\ o.batch = b
      BY <2>a, <3>1, <3>2
    <3>4. op' = Begun(o)
      BY <1>8, <3>3 DEF StartDrain
    <3>5. QED
      BY <3>1, <3>3, <3>4, BegunIs
  <2>1. /\ op.kind = "none" /\ chain # <<>> /\ chain' = Tail(chain) /\ Head(chain).kind = "drain" /\ pub' = pub
        /\ op'.kind = "drain" /\ op'.batch = h.buffered
    BY <2>a, <2>b
  <2>2. h'.buffered = <<>> /\ h'.cursor = h.cursor /\ h'.setup = h.setup
    BY <1>8 DEF StartDrain, Turn, Typed
  <2>3. h.setup = "live"
    <3>1. Head(chain) = chain[1] /\ 1 \in DOMAIN chain
      BY <2>1, ChainTail
    <3>2. QED
      BY <2>1, <3>1 DEF Turns, Queue
  <2>4. <<>> \o h.buffered = Numbers(h.cursor + 1, pub) /\ <<>> \o h.buffered = h.buffered \o <<>>
    BY <2>1, <2>3, ConcatEmptySeq DEF Behind, InFlight
  <2>5. InFlight' \o h'.buffered = Numbers(h'.cursor + 1, pub')
    BY <2>1, <2>2, <2>4 DEF InFlight
  <2>6. \A k \in DOMAIN chain' : chain'[k].kind # "append"
    BY <1>0, <2>1, <2>3, ChainTail
  <2>7. QED
    BY <2>1, <2>2, <2>3, <2>5, <2>6 DEF Behind
<1>9. CASE StartAppend
  <2>1. /\ op.kind = "none" /\ chain # <<>> /\ chain' = Tail(chain) /\ pub' = pub
        /\ h'.cursor = h.cursor /\ h'.buffered = h.buffered
        /\ h'.setup = h.setup \/ h'.setup = "failed"
    BY <1>0, <1>9 DEF StartAppend, Turn, Typed
  <2>2. op' = op \/ (op'.kind = "append" /\ op'.batch = Head(chain).batch /\ Head(chain).kind = "append")
    <3>1. PICK o \in Operations : o = Head(chain)
      BY <2>1, HeadTailProperties
    <3>2. op' = op \/ (op' = Begun(o) /\ o.kind = "append")
      BY <1>9, <3>1 DEF StartAppend, Turn
    <3>3. QED
      BY <3>1, <3>2, BegunIs
  <2>3. InFlight' = InFlight
    BY <2>1, <2>2 DEF InFlight
  <2>4. Head(chain) = chain[1] /\ 1 \in DOMAIN chain
    BY <2>1, ChainTail
  <2>5. \A k \in DOMAIN chain' : chain'[k].kind = "append" =>
          \E j \in DOMAIN chain : chain[j].kind = "append" /\ chain'[k].batch = chain[j].batch
    BY <2>1, ChainTail
  <2>6. QED
    BY <2>1, <2>2, <2>3, <2>4, <2>5, KeptBehind
<1>10. CASE StartFlush
  <2>1. /\ op.kind = "none" /\ chain # <<>> /\ chain' = Tail(chain) /\ pub' = pub
        /\ h'.cursor = h.cursor /\ h'.buffered = h.buffered /\ h'.setup = h.setup
    BY <1>0, <1>10 DEF StartFlush, Turn, Typed
  <2>2. op' = op \/ op'.kind = "flush"
    <3>1. PICK o \in Operations : o = Head(chain)
      BY <2>1, HeadTailProperties
    <3>2. op' = op \/ (op' = Begun(o) /\ o.kind = "flush")
      BY <1>10, <3>1 DEF StartFlush, Turn
    <3>3. QED
      BY <3>1, <3>2, BegunIs
  <2>3. InFlight' = InFlight
    BY <2>1, <2>2 DEF InFlight
  <2>4. \A k \in DOMAIN chain' : chain'[k].kind = "append" =>
          \E j \in DOMAIN chain : chain[j].kind = "append" /\ chain'[k].batch = chain[j].batch
    BY <2>1, ChainTail
  <2>5. QED
    BY <2>1, <2>2, <2>3, <2>4, KeptBehind
<1>11. CASE Truncate \/ Rewrite
  BY <1>3, <1>11 DEF Truncate, At, Rewrite, Typed, Operations
<1>12. CASE WriteAppend
  <2>1. PICK d \in Nat : d = h.cursor + Len(op.batch) /\ d = pub
    BY <1>12, BatchIs DEF WriteAppend, At
  <2>2. h'.cursor = d /\ h'.setup = "live" /\ h'.buffered = h.buffered /\ pub' = pub /\ op' = NoOp /\ chain' = chain /\ Typed(h')
    <3>1. OneLess(h.awaits) \in Nat
      BY OneLessTyped DEF Typed
    <3>2. QED
      BY <1>12, <2>1, <3>1 DEF WriteAppend, At, Advanced, Typed
  <2>3. h.setup = "appending" /\ chain = <<>>
    BY <1>12 DEF WriteAppend, At, Turns, Running
  <2>4. h'.buffered = <<>>
    BY <1>0, <2>2, <2>3
  <2>5. Numbers(pub + 1, pub) = <<>>
    BY NoneBehind
  <2>6. QED
    BY <2>1, <2>2, <2>3, <2>4, <2>5, OverBehind
<1>13. CASE WriteBatch
  <2>1. PICK d \in Nat : d = h.cursor + Len(op.batch) /\ d <= pub /\ h.buffered = Numbers(d + 1, pub)
    BY <1>13, BatchIs DEF WriteBatch, At
  <2> DEFINE x == Advanced(op.batch)
  <2>2. DOMAIN x = DOMAIN h /\ x.cursor = d /\ x.setup = h.setup /\ x.buffered = h.buffered /\ x.awaits = h.awaits /\ Typed(x)
    BY <2>1 DEF Advanced, Typed
  <2>3. h' = [x EXCEPT !.awaits = OneLess(@)] \/ h' = Drained(x)
    BY <1>13 DEF WriteBatch, At
  <2> HIDE DEF x
  <2>4. h'.cursor = d /\ h'.setup = h.setup /\ h'.buffered = h.buffered /\ Typed(h')
    <3>1. CASE h' = [x EXCEPT !.awaits = OneLess(@)]
      BY <2>2, <3>1, OneLessTyped DEF Typed
    <3>2. CASE h' = Drained(x)
      <4>1. Typed(h')
        BY <2>2, <3>2, DrainedTyped
      <4>2. QED
        BY <2>2, <3>2, <4>1 DEF Drained, Typed
    <3>3. QED
      BY <2>3, <3>1, <3>2
  <2>5. pub' = pub /\ op' = NoOp /\ h.setup = "live"
    BY <1>13 DEF WriteBatch, At, Turns, Running
  <2>6. \A k \in DOMAIN chain' : chain'[k].kind # "append"
    <3>1. AtDrain \in SUBSET Flushers
      BY DEF AtDrain
    <3>2. chain' = DrainQueued \/ chain' = chain \o Barriers(AtDrain)
      BY <1>13 DEF WriteBatch, At, DrainQueued
    <3>3. \A k \in DOMAIN chain' : chain'[k].kind = "append" =>
            \E j \in DOMAIN chain : chain[j].kind = "append" /\ chain'[k].batch = chain[j].batch
      BY <3>1, <3>2, ChainKept
    <3>4. QED
      BY <1>0, <2>5, <3>3
  <2>7. QED
    BY <2>1, <2>4, <2>5, <2>6, OverBehind
<1>14. CASE WriteHeader
  <2>1. op.kind = "flush" /\ pub' = pub /\ chain' = chain /\ op' = NoOp
    BY <1>14 DEF WriteHeader, At, Turns, Running, Operations, Kinds, NoOp
  <2>2. h'.cursor = h.cursor /\ h'.buffered = h.buffered /\ h'.setup = h.setup
    BY <1>14 DEF WriteHeader, At, Typed
  <2>3. InFlight' = InFlight /\ op'.kind # "append"
    BY <1>0, <2>1 DEF InFlight
  <2>4. QED
    BY <2>1, <2>2, <2>3, KeptBehind
<1>15. CASE OpRefused \/ OpFails \/ PublishFails \/ \E n \in 0..1 : RollbackFails(n)
  <2>1. OpRejects /\ (OpFails \/ At({"refused", "write", "header", "acquire", "rewrite"}))
    BY <1>15 DEF OpRefused, OpFails, PublishFails, RollbackFails, At
  <2>2. op.kind # "none"
    BY <1>15, <2>1 DEF OpFails, At, Turns, Running, NoOp
  <2>3. QED
    BY <2>1, <2>2, RejectBehind
<1>a2. CASE Acquire
  BY <1>3, <1>a2 DEF Acquire, Typed, Operations
<1>a3. CASE LateDrain
  BY <1>3, <1>a3 DEF LateDrain
<1>16. ASSUME DrainToClose, pub' = pub, op' = op PROVE Behind'
  <2>1. /\ h'.cursor = h.cursor /\ h'.buffered = h.buffered /\ h'.setup = h.setup
        /\ chain' = chain \/ chain' = DrainQueued
    BY <1>16 DEF DrainToClose, DrainStarted, Typed
  <2>2. QED
    BY <1>3, <1>16, <2>1
<1>17. CASE Close
  BY <1>16, <1>17 DEF Close
<1>18. CASE Settle
  <2>1. CASE h.buffered = <<>>
    BY <1>3, <1>18, <2>1 DEF Settle, Typed
  <2>2. CASE h.buffered # <<>>
    BY <1>16, <1>18, <2>2 DEF Settle
  <2>3. QED
    BY <2>1, <2>2
<1>19. CASE Release \/ Released
  BY <1>3, <1>19 DEF Release, Released, Typed
<1>20. ASSUME NEW d \in Artifacts, OpenOver(d) PROVE Behind'
  <2>1. /\ h'.cursor = Len(Records(d)) /\ pub' = Len(Records(d)) /\ h'.setup = "fresh"
        /\ chain' = <<>> /\ op' = NoOp
    BY <1>20 DEF OpenOver, Opened
  <2>2. Len(Records(d)) \in Nat
    BY RecordsTyped
  <2>3. QED
    BY <1>0, <2>1, <2>2 DEF Behind
<1>21. ASSUME NEW n \in 1..2, Crash(n - 1) PROVE Behind'
  <2>1. n - 1 \in Nat
    OBVIOUS
  <2>2. QED
    BY <1>20, <1>21, <2>1, SurvivorsTyped DEF Crash
<1>22. CASE Reopen
  BY <1>20, <1>22 DEF Reopen
<1>23. QED
  BY <1>1, <1>4, <1>5, <1>6, <1>7, <1>8, <1>9, <1>10, <1>11, <1>12, <1>13, <1>14, <1>15, <1>a2, <1>a3, <1>17,
     <1>18, <1>19, <1>21, <1>22 DEF Next, Chain, Closing

-----------------------------------------------------------------------------
(* The artifact.                                                           *)

\* What the next owner may find: the first events, the last ones perhaps in a torn frame.
Sound(d) ==
  /\ d \in Artifacts
  /\ ~d.torn => d.tail = <<>>
  /\ ~d.made => d.whole = <<>> /\ ~d.torn
  /\ d.whole = Numbers(1, Len(d.whole)) /\ promised <= Len(d.whole)
  /\ \E c \in Nat : /\ c = Len(d.whole) + Len(d.tail) /\ c <= pub
                    /\ d.tail = Numbers(Len(d.whole) + 1, c)

LEMMA SoundDisk ==
  ASSUME Ranges, Stored, Behind
  PROVE  Sound(disk)
<1>1. /\ disk \in Artifacts /\ disk.whole \in Seq(Nat) /\ h.recovered \in Seq(Nat) /\ pub \in Nat /\ h.cursor \in Nat
      /\ h.cursor <= pub /\ Len(disk.whole) <= pub
  BY DEF Ranges, Artifacts, Typed, Behind, Stored
<1>2. PICK w \in Nat : w = Len(disk.whole)
  BY <1>1
<1>3. CASE disk.torn
  <2>1. disk.tail = h.recovered /\ h.materialized /\ disk.made
    BY <1>3 DEF Stored
  <2>2. h.cursor = w + Len(disk.tail) /\ disk.tail = Numbers(w + 1, h.cursor)
    BY <1>2, <2>1 DEF Stored
  <2>3. QED
    BY <1>1, <1>2, <1>3, <2>1, <2>2 DEF Stored, Sound
<1>4. CASE ~disk.torn
  <2>1. disk.tail = <<>>
    BY <1>4 DEF Stored
  <2>2. w = w + Len(disk.tail) /\ disk.tail = Numbers(w + 1, w)
    BY <2>1, NoneBehind
  <2>3. QED
    BY <1>1, <1>2, <1>4, <2>1, <2>2 DEF Stored, Sound
<1>5. QED
  BY <1>3, <1>4

\* Bytes that continue the log, appended whole.
LEMMA SoundWhole ==
  ASSUME NEW d \in Artifacts, ~d.torn, d.tail = <<>>, d.made, NEW e \in Nat, e <= pub, pub \in Nat,
         d.whole = Numbers(1, e), promised <= e
  PROVE  Sound(d) /\ Len(d.whole) = e
<1>1. Len(d.whole) = e
  <2>1. Len(Numbers(1, e)) = (e + 1) - 1 /\ (e + 1) - 1 = e
    BY NumbersAre
  <2>2. QED
    BY <2>1
<1>2. e = Len(d.whole) + Len(d.tail) /\ d.tail = Numbers(e + 1, e)
  BY <1>1, NoneBehind
<1>3. QED
  BY <1>1, <1>2 DEF Sound

\* Where a write may land, it continues the log.
LEMMA WholeBehind ==
  ASSUME Ranges, Turns, Stored, Behind, op.stage \in {"write", "header"}, Writable
  PROVE  \E e \in Nat :
           /\ e = h.cursor + Len(op.batch) /\ e <= pub /\ promised <= e
           /\ disk.whole \o op.batch = Numbers(1, e) /\ (~disk.made => op.batch = Numbers(1, e))
           /\ h.materialized => op.batch = Numbers(h.cursor + 1, e) /\ Len(disk.whole) = h.cursor /\ disk.made
           /\ ~disk.torn /\ ~h.torn /\ disk.tail = <<>> /\ h.recovered = <<>>
<1> op \in Operations /\ disk \in Artifacts /\ Typed(h) /\ pub \in Nat /\ promised \in Nat
  BY DEF Ranges
<1>1. ~disk.torn /\ ~h.torn /\ disk.tail = <<>> /\ h.recovered = <<>>
  <2>1. CASE op.stage = "write"
    BY <2>1 DEF Stored, Stages
  <2>2. CASE op.stage = "header"
    <3>1. op.kind = "flush"
      BY <2>2 DEF Turns, Running, NoOp, Operations, Kinds
    <3>2. ~h.materialized
      BY <3>1 DEF Turns, Running
    <3>3. QED
      BY <3>2 DEF Stored
  <2>3. QED
    BY <2>1, <2>2
<1>2. PICK w \in Seq(Nat), b \in Seq(Nat), c \in Nat, p \in Nat, q \in Nat :
        w = disk.whole /\ b = op.batch /\ c = h.cursor /\ p = pub /\ q = promised /\ c <= p
  BY DEF Operations, Artifacts, Typed, Behind
<1>3. \E e \in Nat : e = c + Len(b) /\ e <= p /\ b = Numbers(c + 1, e)
  <2>1. CASE op.kind \in {"drain", "append"}
    BY <1>2, <2>1, BatchIs
  <2>2. CASE op.kind = "flush"
    <3>1. b = <<>> /\ Len(b) = 0
      BY <1>2, <2>2 DEF Turns, Running
    <3>2. c = c + Len(b) /\ b = Numbers(c + 1, c)
      BY <3>1, NoneBehind
    <3>3. QED
      BY <1>2, <3>2
  <2>3. QED
    BY <2>1, <2>2 DEF Turns, Running, NoOp, Operations, Kinds
<1>4. PICK e \in Nat : e = c + Len(b) /\ e <= p /\ b = Numbers(c + 1, e)
  BY <1>3
<1>5. c <= e
  <2>1. PICK m \in Nat : m = Len(b)
    OBVIOUS
  <2>2. e = c + m
    BY <1>4, <2>1
  <2>3. QED
    BY ONLY <2>2, c \in Nat, m \in Nat
<1>6. w = Numbers(1, c) /\ q <= c /\ (h.materialized => Len(w) = c) /\ (~disk.made => w = <<>> /\ c = 0)
  <2>1. CASE h.materialized
    <3>1. c = Len(w) + 0 /\ w = Numbers(1, Len(w)) /\ q <= Len(w) /\ disk.made
      BY <1>1, <1>2, <2>1 DEF Stored
    <3>2. c = Len(w)
      BY <3>1
    <3>3. QED
      BY <3>1, <3>2
  <2>2. CASE ~h.materialized
    <3>1. ~disk.made /\ w = <<>> /\ Len(w) = 0 /\ c = 0 /\ q <= Len(w) /\ w = Numbers(1, Len(w))
      BY <1>2, <2>2 DEF Stored, Writable
    <3>2. QED
      BY <2>2, <3>1
  <2>3. QED
    BY <2>1, <2>2
<1>7. w \o b = Numbers(1, e)
  <2>1. Numbers(1, c) \o Numbers(c + 1, e) = Numbers(1, e)
    BY ONLY <1>5, JoinFirst, c \in Nat, e \in Nat
  <2>2. QED
    BY ONLY <1>4, <1>6, <2>1
<1>8. ~disk.made => b = Numbers(1, e)
  <2>1. SUFFICES ASSUME ~disk.made PROVE b = Numbers(1, e)
    OBVIOUS
  <2>2. w = <<>>
    BY <1>6, <2>1
  <2>3. w \o b = b
    BY <2>2, ConcatEmptySeq
  <2>4. QED
    BY ONLY <1>7, <2>3
<1>9. h.materialized => disk.made
  BY DEF Stored
<1>10. q <= e
  BY ONLY <1>5, <1>6, q \in Nat, c \in Nat, e \in Nat
<1>11. QED
  BY ONLY <1>1, <1>2, <1>4, <1>6, <1>7, <1>8, <1>9, <1>10, e \in Nat

\* What a write leaves.
LEMMA StoredWrite ==
  ASSUME Ranges, Turns, Stored, Behind, op.stage \in {"write", "header"}, Writable,
         disk' = [disk EXCEPT !.made = TRUE, !.whole = @ \o op.batch],
         h'.materialized \/ h'.cursor = 0,
         h'.materialized => h'.cursor = h.cursor + Len(op.batch),
         h'.recovered = h.recovered, h'.torn <=> h.torn, op' = NoOp, pub' = pub,
         promised' \in Nat, promised' <= h.cursor + Len(op.batch)
  PROVE  Stored'
<1> disk \in Artifacts
  BY DEF Ranges
<1>1. PICK e \in Nat :
           /\ e = h.cursor + Len(op.batch) /\ e <= pub
           /\ disk.whole \o op.batch = Numbers(1, e)
           /\ ~disk.torn /\ ~h.torn /\ disk.tail = <<>> /\ h.recovered = <<>>
  BY WholeBehind
<1>2. disk'.whole = Numbers(1, e) /\ ~disk'.torn /\ disk'.tail = <<>> /\ disk'.made
  BY <1>1 DEF Artifacts
<1>3. Len(disk'.whole) = e
  <2>1. Len(Numbers(1, e)) = (e + 1) - 1 /\ (e + 1) - 1 = e
    BY NumbersAre
  <2>2. QED
    BY <1>2, <2>1
<1>4. Stages'
  BY DEF Stages, NoOp
<1>5. ~h'.torn /\ h'.recovered = <<>> /\ Len(h'.recovered) = 0
  BY <1>1
<1>6. h'.materialized => h'.cursor = e + Len(h'.recovered) /\ h'.recovered = Numbers(e + 1, h'.cursor)
  <2>1. h'.materialized => h'.cursor = e
    BY <1>1
  <2>2. e + Len(h'.recovered) = e /\ h'.recovered = Numbers(e + 1, e)
    BY <1>5, NoneBehind
  <2>3. QED
    BY <2>1, <2>2
<1>7. QED
  BY <1>1, <1>2, <1>3, <1>4, <1>5, <1>6 DEF Stored

\* Steps that neither write nor repair.
LEMMA KeptStored ==
  ASSUME Ranges, Stored, Stages', disk' = disk, h'.torn = h.torn, h'.recovered = h.recovered,
         h'.materialized = h.materialized, h'.cursor = h.cursor, pub' \in Nat, pub <= pub',
         promised' \in Nat, promised' <= Len(disk.whole)
  PROVE  Stored'
<1>1. PICK w \in Nat, p \in Nat : w = Len(disk.whole) /\ p = pub /\ w <= p
  BY DEF Ranges, Artifacts, Stored
<1>2. Len(disk'.whole) <= pub'
  <2>1. \A m \in Nat : p <= m => w <= m
    BY <1>1
  <2>2. QED
    BY <1>1, <2>1
<1>3. h'.torn <=> disk'.torn
  BY DEF Stored
<1>4. ~disk'.made => disk'.whole = <<>> /\ ~h'.materialized
  BY DEF Stored
<1>5. IF h'.materialized
      THEN /\ h'.cursor = Len(disk'.whole) + Len(h'.recovered)
           /\ h'.recovered = Numbers(Len(disk'.whole) + 1, h'.cursor)
      ELSE h'.cursor = 0 /\ h'.recovered = <<>> /\ ~disk'.torn
  BY DEF Stored
<1>6. /\ disk'.tail = IF disk'.torn THEN h'.recovered ELSE <<>>
      /\ disk'.whole = Numbers(1, Len(disk'.whole))
  BY DEF Stored
<1>7. promised' <= Len(disk'.whole)
  OBVIOUS
<1>8. QED
  BY <1>2, <1>3, <1>4, <1>5, <1>6, <1>7 DEF Stored

LEMMA StoredInit == Init => Stored
<1> SUFFICES ASSUME Init PROVE Stored
  OBVIOUS
<1>1. /\ disk.whole = <<>> /\ disk.tail = <<>> /\ ~disk.torn /\ ~disk.made /\ Len(disk.whole) = 0
      /\ ~h.torn /\ h.recovered = <<>> /\ ~h.materialized /\ pub = 0 /\ promised = 0
  BY DEF Init, NoLog, Opened
<1>2. h.cursor = 0
  BY DEF Init, NoLog, Opened, Records
<1>3. Numbers(1, 0) = <<>>
  BY NoneBehind
<1>4. Stages
  BY DEF Init, Stages, NoOp
<1>5. QED
  BY <1>1, <1>2, <1>3, <1>4 DEF Stored

\* A torn tail that continues the log.
LEMMA SoundTorn ==
  ASSUME NEW d \in Artifacts, d.torn, d.made, NEW w \in Nat, NEW b \in Seq(Nat), NEW e \in Nat,
         NEW m \in 0..Len(b), pub \in Nat, e <= pub,
         w = Len(d.whole), d.whole = Numbers(1, w), promised <= w,
         e = w + Len(b), b = Numbers(w + 1, e), d.tail = SubSeq(b, 1, m)
  PROVE  Sound(d)
<1>1. PICK a \in Nat, n \in Nat, f \in Nat : a = w + 1 /\ n = Len(b) /\ f = w + m
  <2>1. w + 1 \in Nat /\ Len(b) \in Nat /\ w + m \in Nat
    OBVIOUS
  <2>2. QED
    BY <2>1
<1>2. e = w + n /\ m \in 0..n
  BY <1>1
<1>3. a >= 1 /\ a <= e + 1 /\ m \in 0..(e + 1 - a) /\ a + m - 1 = f /\ f <= e
  BY ONLY <1>1, <1>2, w \in Nat, e \in Nat, n \in Nat, a \in Nat, f \in Nat
<1>4. SubSeq(Numbers(a, e), 1, m) = Numbers(a, a + m - 1)
  BY ONLY <1>3, NumbersPrefix, a \in Nat, e \in Nat
<1>5. b = Numbers(a, e)
  BY ONLY <1>1, b = Numbers(w + 1, e)
<1>6. d.tail = Numbers(a, f)
  BY ONLY <1>3, <1>4, <1>5, d.tail = SubSeq(b, 1, m)
<1>7. Len(d.tail) = m
  <2>1. Len(SubSeq(b, 1, m)) = m
    BY SubSeqProperties
  <2>2. QED
    BY <2>1
<1>8. f = Len(d.whole) + Len(d.tail)
  BY ONLY <1>1, <1>7, w = Len(d.whole)
<1>9. f <= pub
  BY ONLY <1>3, e <= pub, e \in Nat, f \in Nat, pub \in Nat
<1>10. d.tail = Numbers(Len(d.whole) + 1, f)
  BY ONLY <1>1, <1>6, w = Len(d.whole)
<1>11. QED
  BY <1>1, <1>8, <1>9, <1>10 DEF Sound

\* Whatever a crash leaves is sound.
LEMMA SurvivorsSound ==
  ASSUME Ranges, Turns, Stored, Behind, NEW n \in Nat, NEW d \in Survivors(n)
  PROVE  Sound(d)
<1> /\ disk \in Artifacts /\ op \in Operations /\ Typed(h) /\ pub \in Nat /\ d \in Artifacts
    /\ op.batch \in Seq(Nat) /\ h.recovered \in Seq(Nat) /\ h.cursor \in Nat /\ promised \in Nat
  BY SurvivorsTyped DEF Ranges, Operations, Typed
<1>0. Sound(disk)
  BY SoundDisk
<1>1. CASE op.stage \in {"write", "header"} /\ ~disk.made
  <2>1. d = disk \/ d = [disk EXCEPT !.made = TRUE, !.whole = op.batch]
    <3>1. Survivors(n) = Published(op.batch)
      BY <1>1 DEF Survivors, Stored
    <3>2. QED
      BY <3>1 DEF Published
  <2>2. CASE d = [disk EXCEPT !.made = TRUE, !.whole = op.batch]
    <3>1. Writable
      BY <1>1 DEF Writable
    <3>2. PICK e \in Nat : e <= pub /\ promised <= e /\ op.batch = Numbers(1, e) /\ ~disk.torn /\ disk.tail = <<>>
      BY <1>1, <3>1, WholeBehind
    <3>3. d.whole = Numbers(1, e) /\ d.made /\ ~d.torn /\ d.tail = <<>>
      BY <2>2, <3>2 DEF Artifacts
    <3>4. QED
      BY <3>2, <3>3, SoundWhole
  <2>3. QED
    BY <1>0, <2>1, <2>2
<1>2. CASE op.stage = "write" /\ h.materialized
  <2>1. Writable /\ disk.made
    BY <1>2 DEF Writable, Stored
  <2>2. PICK e \in Nat :
           /\ e = h.cursor + Len(op.batch) /\ e <= pub /\ promised <= e
           /\ disk.whole \o op.batch = Numbers(1, e)
           /\ op.batch = Numbers(h.cursor + 1, e) /\ Len(disk.whole) = h.cursor
           /\ ~disk.torn /\ disk.tail = <<>>
    BY <1>2, <2>1, WholeBehind
  <2>3. PICK m \in 0..Len(op.batch) : m = Min({n, Len(op.batch)})
    BY MinLen
  <2>4. d \in {disk} \cup CutShort(op.batch, m)
    BY <1>2, <2>1, <2>3 DEF Survivors, Appending
  <2>5. \/ d = disk
        \/ d = [disk EXCEPT !.made = TRUE, !.whole = @ \o op.batch]
        \/ d = [disk EXCEPT !.tail = SubSeq(op.batch, 1, m), !.torn = TRUE]
    BY <2>2, <2>4 DEF CutShort, Persisted
  <2>6. CASE d = [disk EXCEPT !.made = TRUE, !.whole = @ \o op.batch]
    <3>1. d.whole = Numbers(1, e) /\ d.made /\ ~d.torn /\ d.tail = <<>>
      BY <2>1, <2>2, <2>6 DEF Artifacts
    <3>2. QED
      BY <2>2, <3>1, SoundWhole
  <2>7. CASE d = [disk EXCEPT !.tail = SubSeq(op.batch, 1, m), !.torn = TRUE]
    <3>1. PICK w \in Nat : w = h.cursor
      OBVIOUS
    <3>2. d.torn /\ d.made /\ d.tail = SubSeq(op.batch, 1, m) /\ d.whole = disk.whole
      BY <2>1, <2>7 DEF Artifacts
    <3>3. w = Len(d.whole) /\ d.whole = Numbers(1, w) /\ promised <= w
      BY <2>2, <3>1, <3>2 DEF Stored
    <3>4. e = w + Len(op.batch) /\ op.batch = Numbers(w + 1, e) /\ e <= pub
      BY <2>2, <3>1
    <3>5. QED
      BY <3>2, <3>3, <3>4, SoundTorn
  <2>8. QED
    BY <1>0, <2>5, <2>6, <2>7
<1>3. CASE op.stage = "rewrite"
  <2>1. ~disk.torn /\ disk.tail = <<>> /\ h.materialized /\ disk.made
    BY <1>3 DEF Stored, Stages
  <2>2. PICK w \in Nat, c \in Nat, b \in Seq(Nat) : w = Len(disk.whole) /\ c = h.cursor /\ b = h.recovered
    <3>1. Len(disk.whole) \in Nat
      BY DEF Artifacts
    <3>2. QED
      BY <3>1
  <2>3. /\ c = w + Len(b) /\ b = Numbers(w + 1, c) /\ disk.whole = Numbers(1, w) /\ promised <= w /\ c <= pub
    BY <2>1, <2>2 DEF Stored, Behind
  <2>4. PICK m \in 0..Len(b) : m = Min({n, Len(b)})
    BY MinLen
  <2>5. d \in {disk} \cup CutShort(b, m)
    BY <1>3, <2>1, <2>2, <2>4 DEF Survivors, Appending
  <2>6. \/ d = disk
        \/ d = [disk EXCEPT !.made = TRUE, !.whole = @ \o b]
        \/ d = [disk EXCEPT !.tail = SubSeq(b, 1, m), !.torn = TRUE]
    BY <2>1, <2>5 DEF CutShort, Persisted
  <2>7. CASE d = [disk EXCEPT !.made = TRUE, !.whole = @ \o b]
    <3>1. w <= c
      <4>1. PICK k \in Nat : k = Len(b)
        OBVIOUS
      <4>2. c = w + k
        BY <2>3, <4>1
      <4>3. QED
        BY ONLY <4>2, k \in Nat, w \in Nat, c \in Nat
    <3>2. disk.whole \o b = Numbers(1, c)
      BY ONLY <2>3, <3>1, JoinFirst, w \in Nat, c \in Nat
    <3>3. d.whole = Numbers(1, c) /\ d.made /\ ~d.torn /\ d.tail = <<>>
      BY <2>1, <2>7, <3>2 DEF Artifacts
    <3>4. promised <= c
      BY ONLY <2>3, <3>1, promised \in Nat, w \in Nat, c \in Nat
    <3>5. QED
      BY <2>3, <3>3, <3>4, SoundWhole
  <2>8. CASE d = [disk EXCEPT !.tail = SubSeq(b, 1, m), !.torn = TRUE]
    <3>1. d.torn /\ d.made /\ d.tail = SubSeq(b, 1, m) /\ d.whole = disk.whole
      BY <2>1, <2>8 DEF Artifacts
    <3>2. w = Len(d.whole) /\ d.whole = Numbers(1, w)
      BY <2>2, <2>3, <3>1
    <3>3. QED
      BY <2>3, <3>1, <3>2, SoundTorn
  <2>9. QED
    BY <1>0, <2>6, <2>7, <2>8
<1>4. CASE ~(op.stage \in {"write", "header"} /\ ~disk.made) /\ ~(op.stage = "write" /\ h.materialized) /\ op.stage # "rewrite"
  BY <1>0, <1>4 DEF Survivors
<1>5. QED
  BY <1>1, <1>2, <1>3, <1>4

\* The next owner reads what it finds.
LEMMA OpenOverStored ==
  ASSUME Ranges, NEW d, Sound(d), OpenOver(d)
  PROVE  Stored' /\ pub' <= pub
<1>1. d \in Artifacts /\ d.whole \in Seq(Nat) /\ d.tail \in Seq(Nat) /\ pub \in Nat
  <2>1. d \in Artifacts
    BY DEF Sound
  <2>2. QED
    BY <2>1 DEF Artifacts, Ranges
<1>2. PICK c \in Nat, w \in Nat : c = Len(d.whole) + Len(d.tail) /\ c <= pub /\ w = Len(d.whole)
          /\ d.tail = Numbers(w + 1, c)
  <2>1. PICK w \in Nat : w = Len(d.whole)
    BY <1>1
  <2>2. PICK c \in Nat : c = Len(d.whole) + Len(d.tail) /\ c <= pub /\ d.tail = Numbers(Len(d.whole) + 1, c)
    BY DEF Sound
  <2>3. QED
    BY <2>1, <2>2
<1>3. Len(Records(d)) = c
  BY <1>1, <1>2, RecordsTyped
<1>4. /\ disk' = d /\ pub' = c /\ h'.cursor = c /\ h'.recovered = d.tail /\ h'.torn = d.torn
      /\ h'.materialized = d.made /\ op' = NoOp /\ promised' = promised
  BY <1>3 DEF OpenOver, Opened
<1>5. w <= c
  <2>1. PICK t \in Nat : t = Len(d.tail)
    BY <1>1
  <2>2. c = w + t
    BY <1>2, <2>1
  <2>3. QED
    BY ONLY <2>2, c \in Nat, w \in Nat, t \in Nat
<1>6. Stages'
  BY <1>4 DEF Stages, NoOp
<1>7. ~d.made => (d.whole = <<>> /\ ~d.torn /\ d.tail = <<>> /\ c = 0)
  <2>1. SUFFICES ASSUME ~d.made PROVE d.whole = <<>> /\ ~d.torn /\ d.tail = <<>> /\ c = 0
    OBVIOUS
  <2>2. d.whole = <<>> /\ ~d.torn /\ d.tail = <<>>
    BY <2>1 DEF Sound
  <2>3. Len(d.whole) = 0 /\ Len(d.tail) = 0
    BY <2>2
  <2>4. QED
    BY <1>2, <2>2, <2>3
<1>8. IF h'.materialized
      THEN /\ h'.cursor = Len(disk'.whole) + Len(h'.recovered)
           /\ h'.recovered = Numbers(Len(disk'.whole) + 1, h'.cursor)
      ELSE h'.cursor = 0 /\ h'.recovered = <<>> /\ ~disk'.torn
  BY <1>2, <1>4, <1>7
<1>9. /\ h'.torn <=> disk'.torn
      /\ disk'.tail = IF disk'.torn THEN h'.recovered ELSE <<>>
      /\ ~disk'.made => disk'.whole = <<>> /\ ~h'.materialized
      /\ disk'.whole = Numbers(1, Len(disk'.whole))
      /\ Len(disk'.whole) <= pub' /\ promised' <= Len(disk'.whole)
  BY <1>2, <1>4, <1>5, <1>7 DEF Sound
<1>10. QED
  BY <1>2, <1>4, <1>6, <1>8, <1>9 DEF Stored

\* What repair cuts off begins where the whole frames end.
LEMMA CutBackKeeps ==
  ASSUME Ranges, Stored, h.materialized
  PROVE  CutBack(h.cursor - Len(h.recovered)) = [disk EXCEPT !.tail = <<>>, !.torn = FALSE]
<1>1. disk.whole \in Seq(Nat) /\ h.recovered \in Seq(Nat) /\ disk \in Artifacts
  BY DEF Ranges, Artifacts, Typed
<1>2. PICK w \in Nat, r \in Nat : w = Len(disk.whole) /\ r = Len(h.recovered)
  BY <1>1
<1>3. h.cursor - Len(h.recovered) = w
  <2>1. h.cursor = w + r
    BY <1>2 DEF Stored
  <2>2. (w + r) - r = w
    OBVIOUS
  <2>3. QED
    BY <1>2, <2>1, <2>2
<1>4. Min({w, w}) = w
  BY DEF Min
<1>5. SubSeq(disk.whole, 1, w) = disk.whole
  <2>1. LET u == SubSeq(disk.whole, 1, w)
        IN  u \in Seq(Nat) /\ Len(u) = w /\ \A k \in 1..w : u[k] = disk.whole[k]
    BY <1>1, <1>2, SubSeqProperties
  <2>2. QED
    BY <1>1, <1>2, <2>1, SeqEqual
<1>6. CutBack(w) = [disk EXCEPT !.whole = disk.whole, !.tail = <<>>, !.torn = FALSE]
  BY <1>2, <1>4, <1>5 DEF CutBack, Artifacts
<1>7. [disk EXCEPT !.whole = disk.whole, !.tail = <<>>, !.torn = FALSE] = [disk EXCEPT !.tail = <<>>, !.torn = FALSE]
  BY <1>1 DEF Artifacts
<1>8. QED
  BY <1>3, <1>6, <1>7

\* Behind a failed rollback or a late drain nothing is published and nothing opened.
LEMMA SpoiledStep == Next /\ spoiled' => pub' = pub
<1> SUFFICES ASSUME Next, spoiled' PROVE pub' = pub
  OBVIOUS
<1>1. CASE TimerFires \/ GoLive \/ Closing \/ Close \/ LateDrain
  BY <1>1 DEF TimerFires, GoLive, Closing, Settle, Release, Released, Close, LateDrain
<1>2. CASE Chain
  BY <1>2 DEF Chain, StartDrain, StartAppend, StartFlush, Acquire, Truncate, Rewrite, WriteAppend, WriteBatch,
              WriteHeader, OpRefused, OpFails, PublishFails, RollbackFails, OpRejects
<1>3. CASE Publish \/ Reopen
  BY <1>3 DEF Publish, Reopen, OpenOver
<1>4. ASSUME NEW n \in 1..2, AppendSetup(n) \/ Crash(n - 1) PROVE pub' = pub
  BY <1>4 DEF AppendSetup, Crash, OpenOver
<1>5. ASSUME NEW f \in Flushers, Flush(f) PROVE pub' = pub
  BY <1>5 DEF Flush
<1>6. QED
  BY <1>1, <1>2, <1>3, <1>4, <1>5 DEF Next

LEMMA SpoiledStays == Ranges /\ Next /\ spoiled => spoiled'
<1> SUFFICES ASSUME Ranges, Next, spoiled PROVE spoiled'
  OBVIOUS
<1>1. CASE TimerFires \/ GoLive \/ Closing \/ Close \/ LateDrain
  BY <1>1 DEF TimerFires, GoLive, Closing, Settle, Release, Released, Close, LateDrain
<1>2. CASE Chain
  BY <1>2 DEF Chain, StartDrain, StartAppend, StartFlush, Acquire, Truncate, Rewrite, WriteAppend, WriteBatch,
              WriteHeader, OpRefused, OpFails, PublishFails, RollbackFails
<1>3. CASE Publish \/ Reopen
  BY <1>3 DEF Publish, Reopen
<1>4. ASSUME NEW n \in 1..2, AppendSetup(n) \/ Crash(n - 1) PROVE spoiled'
  BY <1>4 DEF AppendSetup, Crash
<1>5. ASSUME NEW f \in Flushers, Flush(f) PROVE spoiled'
  BY <1>5 DEF Flush
<1>6. QED
  BY <1>1, <1>2, <1>3, <1>4, <1>5 DEF Next

LEMMA StoredStep ==
  ASSUME Ranges, Turns, Stored, Behind, Barriered, Next, ~spoiled'
  PROVE  Stored' /\ pub' <= MaxEvents
<1> /\ disk \in Artifacts /\ op \in Operations /\ Typed(h) /\ chain \in Seq(Operations)
    /\ waiters \in [Flushers -> Waits]
    /\ pub \in Nat /\ promised \in Nat /\ MaxEvents \in Nat /\ pub <= MaxEvents
  BY HandleAssumption DEF Ranges
<1>0. promised <= Len(disk.whole)
  BY DEF Stored
<1>1. CASE Publish
  <2>1. pub' = pub + 1 /\ pub < MaxEvents
    BY <1>1 DEF Publish, Routed
  <2>2. pub' \in Nat /\ pub <= pub' /\ pub' <= MaxEvents
    BY <2>1
  <2>3. /\ disk' = disk /\ promised' = promised /\ op' = op
        /\ h'.torn = h.torn /\ h'.recovered = h.recovered /\ h'.materialized = h.materialized /\ h'.cursor = h.cursor
    BY <1>1 DEF Publish, Routed, Typed
  <2>4. Stages'
    BY <2>3 DEF Stored, Stages
  <2>5. QED
    BY <1>0, <2>2, <2>3, <2>4, KeptStored
<1>2. ASSUME NEW n \in 1..2, AppendSetup(n) PROVE Stored' /\ pub' <= MaxEvents
  <2>1. pub' = pub + n /\ pub + n <= MaxEvents
    BY <1>2 DEF AppendSetup
  <2>2. pub' \in Nat /\ pub <= pub' /\ pub' <= MaxEvents
    BY <2>1
  <2>3. /\ disk' = disk /\ promised' = promised /\ op' = op
        /\ h'.torn = h.torn /\ h'.recovered = h.recovered /\ h'.materialized = h.materialized /\ h'.cursor = h.cursor
    BY <1>2 DEF AppendSetup, Typed
  <2>4. Stages'
    BY <2>3 DEF Stored, Stages
  <2>5. QED
    BY <1>0, <2>2, <2>3, <2>4, KeptStored
<1>3. ASSUME disk' = disk, promised' = promised, pub' = pub, op'.stage = op.stage \/ op' = NoOp,
             h'.torn = h.torn, h'.recovered = h.recovered, h'.materialized = h.materialized, h'.cursor = h.cursor
      PROVE  Stored' /\ pub' <= MaxEvents
  <2>1. Stages'
    BY <1>3 DEF Stored, Stages, NoOp
  <2>2. QED
    BY <1>0, <1>3, <2>1, KeptStored
<1>4. CASE TimerFires
  BY <1>3, <1>4 DEF TimerFires, DrainStarted, Typed
<1>5. CASE GoLive
  BY <1>3, <1>5 DEF GoLive, Typed
<1>6. ASSUME NEW f \in Flushers, Flush(f) PROVE Stored' /\ pub' <= MaxEvents
  BY <1>3, <1>6 DEF Flush, Routed, DrainStarted, Typed
<1>7. ASSUME NEW b, op'.stage \in {"acquire", "header", FirstStage(b)}, h'.torn = h.torn, h'.recovered = h.recovered
      PROVE  Stages'
  BY <1>7 DEF FirstStage, Stages
<1>b. ASSUME Stages', disk' = disk, promised' = promised, pub' = pub,
             h'.torn = h.torn, h'.recovered = h.recovered, h'.materialized = h.materialized, h'.cursor = h.cursor
      PROVE  Stored' /\ pub' <= MaxEvents
  BY <1>0, <1>b, KeptStored
<1>8. CASE StartDrain
  <2>1. PICK c \in Operations, b \in Seq(Nat) : c = Head(chain) /\ b = h.buffered /\ c.kind = "drain"
    BY <1>8, HeadTailProperties DEF StartDrain, Turn, Typed
  <2>a. /\ [c EXCEPT !.batch = b] \in Operations
        /\ [c EXCEPT !.batch = b].kind = c.kind /\ [c EXCEPT !.batch = b].batch = b
    BY DEF Operations
  <2>2. PICK o \in Operations : o = [Head(chain) EXCEPT !.batch = h.buffered] /\ o.kind = "drain" /\ o.batch = b
    BY <2>1, <2>a
  <2>b. op' = Begun(o)
    BY <1>8, <2>2 DEF StartDrain
  <2>3. op'.stage \in {"acquire", "header", FirstStage(b)}
    BY <2>2, <2>b, BegunIs
  <2>4. QED
    <3>1. /\ disk' = disk /\ promised' = promised /\ pub' = pub
          /\ h'.torn = h.torn /\ h'.recovered = h.recovered /\ h'.materialized = h.materialized /\ h'.cursor = h.cursor
      BY <1>8 DEF StartDrain, Typed
    <3>2. Stages'
      BY <1>7, <2>3, <3>1
    <3>3. QED
      BY <1>b, <3>1, <3>2
<1>9. CASE StartAppend
  <2>1. PICK o \in Operations : o = Head(chain)
    BY <1>9, HeadTailProperties DEF StartAppend, Turn
  <2>2. CASE h.state = "open"
    <3>1. op' = Begun(o) /\ o.kind = "append"
      BY <1>9, <2>1, <2>2 DEF StartAppend, Turn
    <3>2. op'.stage \in {"acquire", "header", FirstStage(o.batch)}
      BY <3>1, BegunIs
    <3>3. QED
      <4>1. /\ disk' = disk /\ promised' = promised /\ pub' = pub
            /\ h'.torn = h.torn /\ h'.recovered = h.recovered /\ h'.materialized = h.materialized /\ h'.cursor = h.cursor
        BY <1>9, <2>2 DEF StartAppend, Typed
      <4>2. Stages'
        BY <1>7, <3>2, <4>1
      <4>3. QED
        BY <1>b, <4>1, <4>2
  <2>3. CASE h.state # "open"
    BY <1>3, <1>9, <2>3 DEF StartAppend, Turn, Typed
  <2>4. QED
    BY <2>2, <2>3
<1>10. CASE StartFlush
  <2>1. PICK o \in Operations : o = Head(chain) /\ o = chain[1] /\ 1 \in DOMAIN chain /\ o.kind = "flush"
    BY <1>10, ChainTail DEF StartFlush, Turn
  <2>2. o.for \in Flushers /\ waiters[o.for].upTo <= h.cursor
    BY <2>1 DEF Barriered
  <2>3. CASE h.state = "open" /\ ~h.materialized
    <3>1. op' = Begun(o)
      BY <1>10, <2>1, <2>3 DEF StartFlush
    <3>2. op'.stage \in {"acquire", "header"}
      BY <2>1, <3>1, BegunIs
    <3>3. Stages'
      BY <3>2 DEF Stages
    <3>4. /\ disk' = disk /\ promised' = promised /\ pub' = pub
          /\ h'.torn = h.torn /\ h'.recovered = h.recovered /\ h'.materialized = h.materialized /\ h'.cursor = h.cursor
      BY <1>10, <2>3 DEF StartFlush, Turn, Typed
    <3>5. QED
      BY <1>0, <3>3, <3>4, KeptStored
  <2>4. CASE ~(h.state = "open" /\ ~h.materialized)
    <3>1. /\ disk' = disk /\ pub' = pub /\ op' = op
          /\ h'.torn = h.torn /\ h'.recovered = h.recovered /\ h'.materialized = h.materialized /\ h'.cursor = h.cursor
      BY <1>10, <2>4 DEF StartFlush, Turn, Typed
    <3>2. Stages'
      BY <3>1 DEF Stored, Stages
    <3>3. CASE h.state = "open"
      <4>1. h.materialized
        BY <2>4, <3>3
      <4>2. promised' = Promise(waiters[o.for].upTo)
        BY <1>10, <2>1, <2>4, <3>3 DEF StartFlush, Turn
      <4>3. h.cursor = Len(disk.whole) + Len(h.recovered)
        BY <4>1 DEF Stored
      <4>4. waiters[o.for].upTo \in Nat /\ Len(disk.whole) \in Nat
        BY <2>2 DEF Waits, Artifacts
      <4>5. promised' \in Nat /\ promised' <= Len(disk.whole)
        BY <1>0, <2>2, <4>2, <4>3, <4>4, PromiseTyped
      <4>6. QED
        BY <3>1, <3>2, <4>5, KeptStored
    <3>4. CASE h.state # "open"
      <4>1. promised' = promised
        BY <1>10, <3>4 DEF StartFlush, Turn
      <4>2. QED
        BY <1>0, <3>1, <3>2, <4>1, KeptStored
    <3>5. QED
      BY <3>3, <3>4
  <2>5. QED
    BY <2>3, <2>4
<1>11. CASE Truncate
  <2>1. h.torn /\ disk.torn /\ disk.tail = h.recovered /\ h.materialized
    BY <1>11 DEF Truncate, At, Stored, Stages
  <2>a. disk' = [disk EXCEPT !.tail = <<>>, !.torn = FALSE]
    BY <1>11, <2>1, CutBackKeeps DEF Truncate
  <2>2. /\ disk'.made = disk.made /\ disk'.whole = disk.whole /\ disk'.tail = <<>> /\ ~disk'.torn
        /\ ~h'.torn /\ h'.recovered = h.recovered /\ h'.materialized = h.materialized /\ h'.cursor = h.cursor
        /\ pub' = pub /\ promised' = promised
    BY <1>11, <2>a DEF Truncate, Artifacts, Typed
  <2>3. op'.stage = IF h.recovered # <<>> THEN "rewrite" ELSE "write"
    BY <1>11 DEF Truncate, At, Operations
  <2>4. Stages'
    BY <2>2, <2>3 DEF Stages
  <2>5. QED
    BY <2>1, <2>2, <2>4 DEF Stored
<1>12. CASE Rewrite
  <2>1. ~h.torn /\ ~disk.torn /\ disk.tail = <<>> /\ h.recovered # <<>> /\ h.materialized /\ disk.made
    BY <1>12 DEF Rewrite, At, Stored, Stages
  <2>2. PICK w \in Nat, c \in Nat, r \in Seq(Nat) : w = Len(disk.whole) /\ c = h.cursor /\ r = h.recovered
    <3>1. Len(disk.whole) \in Nat
      BY DEF Artifacts
    <3>2. QED
      BY <3>1 DEF Typed
  <2>3. c = w + Len(r) /\ r = Numbers(w + 1, c) /\ disk.whole = Numbers(1, w) /\ promised <= w /\ c <= pub
    BY <2>1, <2>2 DEF Stored, Behind
  <2>4. w <= c
    <3>1. PICK k \in Nat : k = Len(r)
      OBVIOUS
    <3>2. c = w + k
      BY <2>3, <3>1
    <3>3. QED
      BY ONLY <3>2, k \in Nat, w \in Nat, c \in Nat
  <2>5. disk.whole \o r = Numbers(1, c)
    BY ONLY <2>3, <2>4, JoinFirst, w \in Nat, c \in Nat
  <2>6. /\ disk'.made /\ disk'.whole = Numbers(1, c) /\ disk'.tail = <<>> /\ ~disk'.torn
        /\ ~h'.torn /\ h'.recovered = <<>> /\ h'.materialized /\ h'.cursor = c
        /\ pub' = pub /\ promised' = promised
    BY <1>12, <2>1, <2>2, <2>5 DEF Rewrite, At, Artifacts, Typed
  <2>7. Len(disk'.whole) = c /\ c = c + Len(h'.recovered) /\ h'.recovered = Numbers(c + 1, c)
    <3>1. Len(Numbers(1, c)) = (c + 1) - 1 /\ (c + 1) - 1 = c
      BY NumbersAre
    <3>2. Len(disk'.whole) = c
      BY ONLY <2>6, <3>1
    <3>3. Len(h'.recovered) = 0
      BY <2>6
    <3>4. c = c + Len(h'.recovered)
      BY ONLY <3>3, c \in Nat
    <3>5. h'.recovered = Numbers(c + 1, c)
      BY <2>6, NoneBehind
    <3>6. QED
      BY <3>2, <3>4, <3>5
  <2>8. op'.stage = "write"
    BY <1>12 DEF Rewrite, At, Operations
  <2>9. Stages'
    BY <2>6, <2>8 DEF Stages
  <2>10. promised' <= c /\ c <= pub'
    BY <2>3, <2>4, <2>6
  <2>11. QED
    BY <2>6, <2>7, <2>9, <2>10 DEF Stored
<1>13. ASSUME op.stage = "write", Writable, disk' = Persisted(op.batch), op' = NoOp, pub' = pub, promised' = promised,
              h'.materialized, h'.cursor = h.cursor + Len(op.batch), h'.recovered = h.recovered, h'.torn = h.torn
       PROVE  Stored' /\ pub' <= MaxEvents
  <2>1. ~disk.torn /\ promised <= h.cursor + Len(op.batch)
    BY <1>13, WholeBehind
  <2>2. disk' = [disk EXCEPT !.made = TRUE, !.whole = @ \o op.batch]
    BY <1>13, <2>1 DEF Persisted
  <2>3. QED
    BY <1>13, <2>1, <2>2, StoredWrite
<1>14. CASE WriteAppend
  <2>1. h'.materialized /\ h'.cursor = h.cursor + Len(op.batch) /\ h'.recovered = h.recovered /\ h'.torn = h.torn
    BY <1>14 DEF WriteAppend, At, Advanced, Typed
  <2>2. QED
    BY <1>13, <1>14, <2>1 DEF WriteAppend, At
<1>15. CASE WriteBatch
  <2> DEFINE x == Advanced(op.batch)
  <2>1. DOMAIN x = DOMAIN h /\ x.materialized /\ x.cursor = h.cursor + Len(op.batch) /\ x.recovered = h.recovered /\ x.torn = h.torn
    BY DEF Advanced, Typed
  <2>2. h' = [x EXCEPT !.awaits = OneLess(@)] \/ h' = Drained(x)
    BY <1>15 DEF WriteBatch, At
  <2> HIDE DEF x
  <2>3. h'.materialized /\ h'.cursor = h.cursor + Len(op.batch) /\ h'.recovered = h.recovered /\ h'.torn = h.torn
    <3>1. DOMAIN x = DOMAIN Drained(x) /\ Drained(x).materialized = x.materialized /\ Drained(x).cursor = x.cursor
          /\ Drained(x).recovered = x.recovered /\ Drained(x).torn = x.torn
      BY <2>1 DEF Drained, Typed
    <3>2. QED
      BY <2>1, <2>2, <3>1 DEF Typed
  <2>4. QED
    BY <1>13, <1>15, <2>3 DEF WriteBatch, At
<1>16. CASE WriteHeader
  <2>1. op.kind = "flush" /\ op.batch = <<>> /\ ~h.materialized
    BY <1>16 DEF WriteHeader, At, Turns, Running, Operations, Kinds, NoOp
  <2>2. ~disk.made /\ disk.whole = <<>> /\ h.cursor = 0 /\ h.recovered = <<>> /\ ~disk.torn /\ disk.tail = <<>> /\ ~h.torn
    BY <1>16, <2>1 DEF WriteHeader, At, Writable, Stored
  <2>3. /\ disk'.made /\ disk'.whole = <<>> /\ disk'.tail = <<>> /\ ~disk'.torn /\ pub' = pub /\ op' = NoOp
    BY <1>16, <2>2 DEF WriteHeader, At, Artifacts
  <2>4. /\ h'.materialized /\ h'.cursor = 0 /\ h'.recovered = <<>> /\ ~h'.torn
    BY <1>16, <2>2 DEF WriteHeader, At, Typed
  <2>5. promised' \in Nat /\ promised' <= 0
    <3>1. op.for \in Flushers /\ waiters[op.for].upTo <= h.cursor
      BY <2>1 DEF Barriered
    <3>2. waiters[op.for].upTo \in Nat /\ promised' = Promise(waiters[op.for].upTo)
      BY <1>16, <3>1 DEF WriteHeader, At, Waits
    <3>3. Len(h.recovered) = 0 /\ Len(disk.whole) = 0
      BY <2>2
    <3>4. promised <= 0 /\ waiters[op.for].upTo <= 0 + Len(h.recovered)
      BY <1>0, <2>2, <3>1, <3>3
    <3>5. QED
      BY <3>2, <3>4, PromiseTyped
  <2>6. Numbers(1, 0) = <<>> /\ Stages'
    BY <2>3, NoneBehind DEF Stages, NoOp
  <2>7. Len(disk'.whole) = 0 /\ Len(h'.recovered) = 0
    BY <2>3, <2>4
  <2>8. QED
    BY <2>3, <2>4, <2>5, <2>6, <2>7 DEF Stored
<1>17. ASSUME op.kind # "none", OpRejects
       PROVE  /\ op' = NoOp /\ promised' = promised /\ pub' = pub
              /\ h'.torn = h.torn /\ h'.recovered = h.recovered /\ h'.materialized = h.materialized /\ h'.cursor = h.cursor
  <2>1. op' = NoOp /\ promised' = promised /\ pub' = pub
    BY <1>17 DEF OpRejects
  <2>2. CASE op.kind = "drain"
    <3> DEFINE x == [h EXCEPT !.buffered = Retain(op.batch), !.paused = TRUE]
    <3>1. DOMAIN x = DOMAIN h /\ x.torn = h.torn /\ x.recovered = h.recovered /\ x.materialized = h.materialized /\ x.cursor = h.cursor
      BY DEF Typed
    <3>2. h' = GivenUp(x)
      BY <1>17, <2>2 DEF OpRejects
    <3> HIDE DEF x
    <3>3. QED
      BY <2>1, <3>1, <3>2 DEF GivenUp, Typed
  <2>3. CASE op.kind \in {"append", "flush"}
    BY <1>17, <2>1, <2>3 DEF OpRejects, Typed
  <2>4. QED
    BY <1>17, <2>2, <2>3 DEF Operations, Kinds
<1>18. CASE OpRefused \/ OpFails
  <2>1. op.kind # "none" /\ OpRejects /\ disk' = disk
    BY <1>18 DEF OpRefused, At, OpFails, Turns, Running, NoOp
  <2>2. QED
    BY <1>3, <1>17, <2>1
<1>19. CASE PublishFails
  <2>1. op.kind # "none" /\ OpRejects /\ ~h.materialized /\ ~disk.made /\ op.stage \in {"write", "header"}
    BY <1>19 DEF PublishFails, At, Turns, Running, NoOp
  <2>2. Writable /\ ~disk.torn /\ h.cursor = 0
    BY <2>1 DEF Writable, Stored
  <2>3. disk' = [disk EXCEPT !.made = TRUE, !.whole = @ \o op.batch]
    BY <1>19, <2>2 DEF PublishFails, At, Persisted
  <2>4. promised <= h.cursor + Len(op.batch)
    BY <2>1, <2>2, WholeBehind
  <2>5. QED
    BY <1>17, <2>1, <2>2, <2>3, <2>4, StoredWrite
<1>20. ASSUME DrainToClose, pub' = pub, op' = op, disk' = disk, promised' = promised PROVE Stored' /\ pub' <= MaxEvents
  BY <1>3, <1>20 DEF DrainToClose, DrainStarted, Typed
<1>a1. ASSUME NEW n \in 0..1, RollbackFails(n) PROVE FALSE
  BY <1>a1 DEF RollbackFails
<1>a2. CASE Acquire
  <2>1. PICK b, t : b = op.batch /\ t = Stage(op.kind, op.batch) /\ op' = [op EXCEPT !.stage = t]
    BY <1>a2 DEF Acquire
  <2>2. op'.stage \in {"acquire", "header", FirstStage(b)}
    BY <2>1 DEF Stage, Operations
  <2>3. QED
    <3>1. /\ disk' = disk /\ promised' = promised /\ pub' = pub
          /\ h'.torn = h.torn /\ h'.recovered = h.recovered /\ h'.materialized = h.materialized /\ h'.cursor = h.cursor
      BY <1>a2 DEF Acquire, Typed
    <3>2. Stages'
      BY <1>7, <2>2, <3>1
    <3>3. QED
      BY <1>b, <3>1, <3>2
<1>a3. CASE LateDrain
  BY <1>3, <1>a3 DEF LateDrain
<1>21. CASE Close
  BY <1>20, <1>21 DEF Close
<1>22. CASE Settle
  <2>1. CASE h.buffered = <<>>
    BY <1>3, <1>22, <2>1 DEF Settle, Typed
  <2>2. CASE h.buffered # <<>>
    BY <1>20, <1>22, <2>2 DEF Settle
  <2>3. QED
    BY <2>1, <2>2
<1>23. CASE Release \/ Released
  BY <1>3, <1>23 DEF Release, Released, Typed
<1>24. ASSUME NEW d, Sound(d), OpenOver(d) PROVE Stored' /\ pub' <= MaxEvents
  <2>1. Stored' /\ pub' <= pub
    BY <1>24, OpenOverStored
  <2>2. pub' \in Nat
    BY <1>24, OpenOverTyped DEF Sound, Artifacts
  <2>3. QED
    BY <2>1, <2>2
<1>25. ASSUME NEW n \in 1..2, Crash(n - 1) PROVE Stored' /\ pub' <= MaxEvents
  <2>1. n - 1 \in Nat
    OBVIOUS
  <2>2. QED
    BY <1>24, <1>25, <2>1, SurvivorsSound DEF Crash
<1>26. CASE Reopen
  BY <1>24, <1>26, SoundDisk DEF Reopen
<1>27. QED
  BY <1>1, <1>2, <1>4, <1>5, <1>6, <1>8, <1>9, <1>10, <1>11, <1>12, <1>14, <1>15, <1>16, <1>18,
     <1>19, <1>a1, <1>a2, <1>a3, <1>21, <1>22, <1>23, <1>25, <1>26 DEF Next, Chain, Closing

-----------------------------------------------------------------------------
(* Barriers.                                                               *)

\* The barriers that stand keep standing.
LEMMA KeptBarriers ==
  ASSUME Ranges, Barriered, Ranges',
         \A k \in DOMAIN chain' : chain'[k].kind = "flush" => k \in DOMAIN chain /\ chain'[k] = chain[k],
         op' = op \/ op'.kind # "flush",
         \A f \in Flushers : waiters'[f].upTo <= pub',
         \A f \in Flushers : waiters[f].at = "flush" => waiters'[f] = waiters[f],
         \A f \in Flushers : waiters'[f].at = "flush" => waiters[f].at = "flush",
         h.cursor <= h'.cursor
  PROVE  Barriered'
<1>1. ASSUME NEW f \in Flushers, waiters'[f].at = "flush" PROVE waiters'[f].upTo <= h'.cursor
  <2>1. waiters'[f].upTo = waiters[f].upTo /\ waiters[f].upTo <= h.cursor
    BY <1>1 DEF Barriered
  <2>2. waiters[f].upTo \in Nat /\ h.cursor \in Nat /\ h'.cursor \in Nat
    BY DEF Ranges, Waits, Typed
  <2>3. QED
    BY <2>1, <2>2
<1>2. op'.kind = "flush" => op'.for \in Flushers /\ waiters'[op'.for].at = "flush"
  BY DEF Barriered
<1>3. ASSUME NEW k \in DOMAIN chain', chain'[k].kind = "flush"
      PROVE  /\ chain'[k].for \in Flushers /\ waiters'[chain'[k].for].at = "flush"
             /\ op'.kind = "flush" => op'.for # chain'[k].for
  <2>1. k \in DOMAIN chain /\ chain'[k] = chain[k]
    BY <1>3
  <2>2. QED
    BY <1>3, <2>1 DEF Barriered
<1>4. ASSUME NEW j \in DOMAIN chain', NEW k \in DOMAIN chain',
             chain'[j].kind = "flush", chain'[k].kind = "flush", chain'[j].for = chain'[k].for
      PROVE  j = k
  BY <1>4 DEF Barriered
<1>5. QED
  BY <1>1, <1>2, <1>3, <1>4 DEF Barriered

\* The head of the chain leaves it.
LEMMA TailBarriers ==
  ASSUME Ranges, Barriered, op = NoOp, chain # <<>>, chain' = Tail(chain), pub' = pub, h'.cursor = h.cursor,
         \/ (waiters' = waiters /\ op'.kind # "flush")
         \/ (waiters' = waiters /\ op'.kind = "flush" /\ chain[1].kind = "flush" /\ op'.for = chain[1].for)
         \/ (/\ chain[1].kind = "flush" /\ op'.kind # "flush"
             /\ waiters' = [waiters EXCEPT ![chain[1].for] = [at |-> "idle", upTo |-> 0]])
  PROVE  Barriered'
<1> chain \in Seq(Operations) /\ waiters \in [Flushers -> Waits] /\ pub \in Nat
  BY DEF Ranges
<1>1. /\ DOMAIN chain = 1..Len(chain) /\ Len(chain) \in Nat \ {0} /\ 1 \in DOMAIN chain
      /\ \A k \in DOMAIN chain' : k + 1 \in DOMAIN chain /\ chain'[k] = chain[k + 1]
  BY ChainTail
<1>2. ASSUME NEW k \in DOMAIN chain' PROVE k \in Nat /\ k + 1 # 1
  <2>1. DOMAIN Tail(chain) = 1..(Len(chain) - 1)
    BY ChainTail
  <2>2. k \in 1..(Len(chain) - 1)
    BY <2>1
  <2>3. QED
    BY <1>1, <2>2
<1>3. ASSUME NEW f \in Flushers
      PROVE  waiters'[f].upTo <= pub' /\ (waiters'[f].at = "flush" => waiters'[f].upTo <= h'.cursor)
  <2>1. waiters'[f] = waiters[f] \/ waiters'[f] = [at |-> "idle", upTo |-> 0]
    OBVIOUS
  <2>2. QED
    BY <2>1 DEF Barriered
<1>4. chain[1].kind = "flush" => chain[1].for \in Flushers /\ waiters[chain[1].for].at = "flush"
  BY <1>1 DEF Barriered
<1>5. ASSUME NEW k \in DOMAIN chain', chain'[k].kind = "flush"
      PROVE  /\ chain'[k].for \in Flushers /\ waiters[chain'[k].for].at = "flush"
             /\ chain[1].kind = "flush" => chain[1].for # chain'[k].for
  <2>1. k + 1 \in DOMAIN chain /\ chain'[k] = chain[k + 1] /\ k + 1 # 1
    BY <1>1, <1>2
  <2>2. QED
    BY <1>1, <1>5, <2>1 DEF Barriered
<1>6. ASSUME NEW k \in DOMAIN chain', chain'[k].kind = "flush"
      PROVE  /\ chain'[k].for \in Flushers /\ waiters'[chain'[k].for].at = "flush"
             /\ op'.kind = "flush" => op'.for # chain'[k].for
  BY <1>4, <1>5, <1>6
<1>7. op'.kind = "flush" => op'.for \in Flushers /\ waiters'[op'.for].at = "flush"
  BY <1>4
<1>8. ASSUME NEW j \in DOMAIN chain', NEW k \in DOMAIN chain',
             chain'[j].kind = "flush", chain'[k].kind = "flush", chain'[j].for = chain'[k].for
      PROVE  j = k
  <2>1. j + 1 = k + 1
    BY <1>1, <1>8 DEF Barriered
  <2>2. QED
    BY <1>2, <2>1
<1>9. QED
  BY <1>3, <1>6, <1>7, <1>8 DEF Barriered

\* The flush that runs is over.
LEMMA OverBarriers ==
  ASSUME Ranges, Barriered, op.kind = "flush", op' = NoOp, chain' = chain, pub' = pub, h'.cursor = h.cursor,
         waiters' = [waiters EXCEPT ![op.for] = [at |-> "idle", upTo |-> 0]]
  PROVE  Barriered'
<1> waiters \in [Flushers -> Waits] /\ pub \in Nat
  BY DEF Ranges
<1>1. op'.kind # "flush"
  BY DEF NoOp
<1>2. ASSUME NEW f \in Flushers
      PROVE  waiters'[f].upTo <= pub' /\ (waiters'[f].at = "flush" => waiters'[f].upTo <= h'.cursor)
  <2>1. waiters'[f] = waiters[f] \/ waiters'[f] = [at |-> "idle", upTo |-> 0]
    OBVIOUS
  <2>2. QED
    BY <2>1 DEF Barriered
<1>3. ASSUME NEW k \in DOMAIN chain', chain'[k].kind = "flush"
      PROVE  chain'[k].for \in Flushers /\ waiters'[chain'[k].for].at = "flush"
  BY <1>3 DEF Barriered
<1>4. QED
  BY <1>1, <1>2, <1>3 DEF Barriered

\* New barriers, for callers that had none, behind everything that is published.
LEMMA NewBarriers ==
  ASSUME Ranges, Barriered, NEW fs \in SUBSET Flushers, \A f \in fs : waiters[f].at # "flush",
         chain' = chain \o Barriers(fs), op' = op \/ op'.kind # "flush",
         h.cursor <= h'.cursor, h'.cursor \in Nat, h.state = "open" => h'.cursor = pub, pub' = pub,
         waiters' \in [Flushers -> Waits],
         \A f \in Flushers \ fs : waiters'[f] = waiters[f],
         \A f \in fs : /\ waiters'[f].upTo <= pub
                       /\ waiters'[f].at = IF h.state = "open" THEN "flush" ELSE "idle"
  PROVE  Barriered'
<1> chain \in Seq(Operations) /\ waiters \in [Flushers -> Waits] /\ pub \in Nat
  BY DEF Ranges
<1>1. /\ \A k \in DOMAIN chain : k \in DOMAIN chain' /\ chain'[k] = chain[k]
      /\ \A k \in DOMAIN chain' : \/ k \in DOMAIN chain
                                  \/ h.state = "open" /\ \E f \in fs : chain'[k] = FlushOp(f)
      /\ \A j, k \in DOMAIN chain' \ DOMAIN chain : chain'[j] = chain'[k] => j = k
  BY ChainBarriers
<1>2. ASSUME NEW k \in DOMAIN chain, chain[k].kind = "flush"
      PROVE  /\ chain[k].for \in Flushers /\ chain[k].for \notin fs /\ waiters'[chain[k].for].at = "flush"
             /\ op.kind = "flush" => op.for # chain[k].for
  BY <1>2 DEF Barriered
<1>3. ASSUME NEW k \in DOMAIN chain', k \notin DOMAIN chain
      PROVE  /\ chain'[k].for \in fs /\ chain'[k] = FlushOp(chain'[k].for)
             /\ waiters'[chain'[k].for].at = "flush"
  <2>1. PICK f \in fs : chain'[k] = FlushOp(f) /\ h.state = "open"
    BY <1>1, <1>3
  <2>2. chain'[k].for = f
    BY <2>1 DEF FlushOp
  <2>3. QED
    BY <2>1, <2>2
<1>4. op.kind = "flush" => op.for \in Flushers /\ op.for \notin fs /\ waiters'[op.for].at = "flush"
  BY DEF Barriered
<1>5. ASSUME NEW f \in Flushers
      PROVE  waiters'[f].upTo <= pub' /\ (waiters'[f].at = "flush" => waiters'[f].upTo <= h'.cursor)
  <2>1. CASE f \in fs
    BY <2>1
  <2>2. CASE f \notin fs
    <3>1. waiters'[f].upTo <= pub' /\ (waiters'[f].at = "flush" => waiters'[f].upTo <= h.cursor)
      BY <2>2 DEF Barriered
    <3>2. waiters'[f].upTo \in Nat /\ h.cursor \in Nat
      BY DEF Waits, Ranges, Typed
    <3>3. QED
      BY <3>1, <3>2
  <2>3. QED
    BY <2>1, <2>2
<1>6. op'.kind = "flush" => op'.for \in Flushers /\ waiters'[op'.for].at = "flush" /\ op' = op
  BY <1>4
<1>7. ASSUME NEW k \in DOMAIN chain', chain'[k].kind = "flush"
      PROVE  /\ chain'[k].for \in Flushers /\ waiters'[chain'[k].for].at = "flush"
             /\ op'.kind = "flush" => op'.for # chain'[k].for
  <2>1. CASE k \in DOMAIN chain
    BY <1>1, <1>2, <1>6, <1>7, <2>1
  <2>2. CASE k \notin DOMAIN chain
    BY <1>3, <1>4, <1>6, <2>2
  <2>3. QED
    BY <2>1, <2>2
<1>8. ASSUME NEW j \in DOMAIN chain', NEW k \in DOMAIN chain',
             chain'[j].kind = "flush", chain'[k].kind = "flush", chain'[j].for = chain'[k].for
      PROVE  j = k
  <2>1. CASE j \in DOMAIN chain /\ k \in DOMAIN chain
    BY <1>1, <1>8, <2>1 DEF Barriered
  <2>2. CASE j \in DOMAIN chain /\ k \notin DOMAIN chain
    BY <1>1, <1>2, <1>3, <1>8, <2>2
  <2>3. CASE j \notin DOMAIN chain /\ k \in DOMAIN chain
    BY <1>1, <1>2, <1>3, <1>8, <2>3
  <2>4. CASE j \notin DOMAIN chain /\ k \notin DOMAIN chain
    <3>1. chain'[j] = chain'[k]
      BY <1>3, <1>8, <2>4
    <3>2. QED
      BY <1>1, <2>4, <3>1
  <2>5. QED
    BY <2>1, <2>2, <2>3, <2>4
<1>9. QED
  BY <1>5, <1>6, <1>7, <1>8 DEF Barriered

LEMMA BarrieredInit == Init => Barriered
  BY DEF Init, Barriered, NoOp

\* A live session whose buffer is empty, and of which no drain writes, is stored.
LEMMA NothingBehind ==
  ASSUME Ranges, Behind, h.setup = "live", op.kind # "drain", h.buffered = <<>>
  PROVE  h.cursor = pub
<1>1. PICK c \in Nat, p \in Nat : c = h.cursor /\ p = pub /\ c <= p
  BY DEF Ranges, Typed, Behind
<1>2. <<>> \o <<>> = Numbers(c + 1, p)
  BY <1>1 DEF Behind, InFlight
<1>3. <<>> = Numbers(c + 1, p)
  BY <1>2
<1>4. PICK a \in Nat : a = c + 1
  OBVIOUS
<1>5. a >= 1 /\ a <= p + 1 /\ Numbers(a, p) = <<>>
  BY <1>1, <1>3, <1>4
<1>6. p + 1 = a
  BY <1>5, Exhausted
<1>7. c = p
  BY <1>4, <1>6
<1>8. QED
  BY <1>1, <1>7

LEMMA BarrieredStep == Ranges /\ Turns /\ Behind /\ Barriered /\ Next /\ Ranges' => Barriered'
<1> SUFFICES ASSUME Ranges, Turns, Behind, Barriered, Next, Ranges' PROVE Barriered'
  OBVIOUS
<1> disk \in Artifacts /\ op \in Operations /\ Typed(h) /\ chain \in Seq(Operations)
  BY DEF Ranges
<1> waiters \in [Flushers -> Waits] /\ waiters' \in [Flushers -> Waits]
  BY DEF Ranges
<1> pub \in 0..MaxEvents /\ pub' \in 0..MaxEvents /\ Typed(h)'
  BY DEF Ranges
<1> pub \in Nat /\ pub' \in Nat
  BY HandleAssumption
<1> h.cursor \in Nat /\ h'.cursor \in Nat
  BY DEF Typed
<1>0. \A f \in Flushers : waiters[f].upTo <= pub /\ waiters[f].upTo \in Nat
  BY DEF Barriered, Waits
<1>1. ASSUME NEW o \in Operations, chain' = chain \/ chain' = Append(chain, o), o.kind # "flush"
      PROVE  \A k \in DOMAIN chain' : chain'[k].kind = "flush" => k \in DOMAIN chain /\ chain'[k] = chain[k]
  <2>1. CASE chain' = chain
    BY <2>1
  <2>2. CASE chain' = Append(chain, o)
    <3>1. \A k \in DOMAIN chain' : (k \in DOMAIN chain /\ chain'[k] = chain[k]) \/ chain'[k] = o
      BY <2>2, AppendProperties, LenProperties
    <3>2. QED
      BY <1>1, <3>1
  <2>3. QED
    BY <1>1, <2>1, <2>2
<1>2. ASSUME NEW o \in Operations, chain' = chain \/ chain' = Append(chain, o), o.kind # "flush",
             op' = op \/ op'.kind # "flush", waiters' = waiters, pub <= pub', h.cursor <= h'.cursor
      PROVE  Barriered'
  <2>1. \A k \in DOMAIN chain' : chain'[k].kind = "flush" => k \in DOMAIN chain /\ chain'[k] = chain[k]
    BY <1>1, <1>2
  <2>2. \A f \in Flushers : waiters'[f].upTo <= pub'
    <3>1. \A m \in Nat : m <= pub => m <= pub'
      BY <1>2
    <3>2. QED
      BY <1>0, <1>2, <3>1
  <2>3. QED
    BY <1>2, <2>1, <2>2, KeptBarriers
<1>a. DrainOp \in Operations /\ DrainOp.kind # "flush" /\ NoOp.kind # "flush"
  BY OpTyped DEF DrainOp, NoOp
<1>3. ASSUME chain' = chain \/ chain' = DrainQueued, op' = op \/ op'.kind # "flush",
             waiters' = waiters, pub' = pub, h'.cursor = h.cursor
      PROVE  Barriered'
  BY <1>2, <1>3, <1>a DEF DrainQueued
<1>4. CASE Publish
  <2>1. pub <= pub' /\ h'.cursor = h.cursor /\ chain' = chain /\ op' = op /\ waiters' = waiters
    BY <1>4 DEF Publish, Routed, Typed
  <2>2. QED
    BY <1>2, <1>a, <2>1
<1>5. CASE TimerFires
  BY <1>3, <1>5 DEF TimerFires, DrainStarted, Typed
<1>6. CASE GoLive
  BY <1>3, <1>6 DEF GoLive, Typed
<1>7. ASSUME NEW n \in 1..2, AppendSetup(n) PROVE Barriered'
  <2> DEFINE b == Numbers(pub + 1, pub + n)
             o == [kind |-> "append", batch |-> b, stage |-> "queued", for |-> "none"]
  <2>1. chain' = Append(chain, o) /\ op' = op /\ waiters' = waiters /\ h'.cursor = h.cursor /\ pub' = pub + n
    BY <1>7 DEF AppendSetup, Typed
  <2> HIDE DEF b
  <2>2. o.kind # "flush" /\ o.kind = "append"
    OBVIOUS
  <2> HIDE DEF o
  <2>3. \A k \in DOMAIN chain' : chain'[k].kind = "flush" => k \in DOMAIN chain /\ chain'[k] = chain[k]
    <3>1. \A k \in DOMAIN chain' : (k \in DOMAIN chain /\ chain'[k] = chain[k]) \/ chain'[k] = o
      BY <2>1, AppendProperties, LenProperties
    <3>2. QED
      BY <2>2, <3>1
  <2>4. \A f \in Flushers : waiters'[f].upTo <= pub'
    <3>1. \A m \in Nat : m <= pub => m <= pub'
      BY <2>1
    <3>2. QED
      BY <1>0, <2>1, <3>1
  <2>5. QED
    BY <2>1, <2>3, <2>4, KeptBarriers
<1>8. ASSUME NEW f \in Flushers, Flush(f) PROVE Barriered'
  <2>0. waiters[f].at = "idle" /\ h.setup = "live" /\ op' = op /\ pub' = pub /\ h'.cursor = h.cursor
    BY <1>8 DEF Flush, Routed, DrainStarted, Typed
  <2>1. CASE h.buffered = <<>> /\ ~h.draining
    <3>1. op.kind # "drain"
      BY <2>1 DEF Turns, Running
    <3>2. h.cursor = pub
      BY <2>0, <2>1, <3>1, NothingBehind
    <3>3. /\ waiters' = [Barred({f}) EXCEPT ![f].upTo = IF h.state = "open" THEN pub ELSE 0]
          /\ chain' = chain \o Barriers({f})
      BY <1>8, <2>1 DEF Flush, Routed
    <3>4. \A g \in Flushers \ {f} : waiters'[g] = waiters[g]
      BY <3>3 DEF Barred
    <3>5. /\ waiters'[f].upTo = IF h.state = "open" THEN pub ELSE 0
          /\ waiters'[f].at = IF h.state = "open" THEN "flush" ELSE "idle"
      <4>1. CASE h.state = "open"
        <5>1. Barred({f})[f] = [waiters[f] EXCEPT !.at = "flush"]
          BY <4>1 DEF Barred
        <5>2. waiters'[f] = [Barred({f})[f] EXCEPT !.upTo = pub]
          BY <3>3, <4>1 DEF Barred
        <5>3. QED
          BY <4>1, <5>1, <5>2 DEF Waits
      <4>2. CASE h.state # "open"
        <5>1. Barred({f})[f] = [at |-> "idle", upTo |-> 0]
          BY <4>2 DEF Barred
        <5>2. waiters'[f] = [Barred({f})[f] EXCEPT !.upTo = 0]
          BY <3>3, <4>2 DEF Barred
        <5>3. QED
          BY <4>2, <5>1, <5>2
      <4>3. QED
        BY <4>1, <4>2
    <3>6. waiters'[f].upTo <= pub
      BY <3>5
    <3>7. {f} \in SUBSET Flushers /\ (\A g \in {f} : waiters[g].at # "flush")
      BY <2>0
    <3>8. \A g \in {f} : /\ waiters'[g].upTo <= pub
                        /\ waiters'[g].at = IF h.state = "open" THEN "flush" ELSE "idle"
      BY <3>5, <3>6
    <3>9. h.cursor <= h'.cursor /\ (h.state = "open" => h'.cursor = pub)
      BY <2>0, <3>2
    <3>10. chain' = chain \o Barriers({f})
      BY <3>3
    <3>11. QED
      BY <2>0, <3>4, <3>7, <3>8, <3>9, <3>10, NewBarriers
  <2>2. CASE ~(h.buffered = <<>> /\ ~h.draining)
    <3>1. /\ waiters' = [waiters EXCEPT ![f] = [at |-> "drain", upTo |-> pub]]
          /\ chain' = chain \/ chain' = DrainQueued
      BY <1>8, <2>2 DEF Flush, Routed
    <3>2. \A k \in DOMAIN chain' : chain'[k].kind = "flush" => k \in DOMAIN chain /\ chain'[k] = chain[k]
      BY <1>1, <1>a, <3>1 DEF DrainQueued
    <3>3. \A g \in Flushers : waiters'[g] = waiters[g] \/ (g = f /\ waiters'[g].at = "drain" /\ waiters'[g].upTo = pub)
      BY <3>1
    <3>4. QED
      BY <1>0, <2>0, <3>2, <3>3, KeptBarriers
  <2>3. QED
    BY <2>1, <2>2
<1>9. CASE StartDrain \/ StartAppend
  <2>1. PICK o \in Operations : o = Head(chain) /\ chain # <<>>
    BY <1>9, HeadTailProperties DEF StartDrain, Turn, StartAppend
  <2>2. op'.kind # "flush"
    <3>1. CASE StartDrain
      <4>1. PICK b \in Seq(Nat) : b = h.buffered /\ o.kind = "drain"
        BY <2>1, <3>1 DEF StartDrain, Turn, Typed
      <4>2. [o EXCEPT !.batch = b] \in Operations /\ [o EXCEPT !.batch = b].kind = o.kind
        BY DEF Operations
      <4>3. PICK c \in Operations : c = [Head(chain) EXCEPT !.batch = h.buffered] /\ c.kind = "drain"
        BY <2>1, <4>1, <4>2
      <4>4. op' = Begun(c)
        BY <3>1, <4>3 DEF StartDrain
      <4>5. QED
        BY <4>3, <4>4, BegunIs
    <3>2. CASE StartAppend
      <4>1. (op' = Begun(o) /\ o.kind = "append") \/ op' = NoOp
        BY <2>1, <3>2 DEF StartAppend, Turn
      <4>2. QED
        BY <1>a, <4>1, BegunIs
    <3>3. QED
      BY <1>9, <3>1, <3>2
  <2>3. op = NoOp /\ chain # <<>> /\ chain' = Tail(chain) /\ pub' = pub /\ h'.cursor = h.cursor /\ waiters' = waiters
    BY <1>9 DEF StartDrain, Turn, StartAppend, Typed
  <2>4. QED
    BY <2>2, <2>3, TailBarriers
<1>10. CASE StartFlush
  <2>1. PICK o \in Operations : o = Head(chain) /\ o = chain[1] /\ o.kind = "flush"
    BY <1>10, ChainTail DEF StartFlush, Turn
  <2>2. op = NoOp /\ chain # <<>> /\ chain' = Tail(chain) /\ pub' = pub /\ h'.cursor = h.cursor
    BY <1>10 DEF StartFlush, Turn, Typed
  <2>3. CASE h.state = "open" /\ ~h.materialized
    <3>1. op' = Begun(o) /\ waiters' = waiters
      BY <1>10, <2>1, <2>3 DEF StartFlush
    <3>2. op'.kind = "flush" /\ op'.for = chain[1].for /\ chain[1].kind = "flush"
      BY <2>1, <3>1, BegunIs
    <3>3. QED
      BY <2>2, <3>1, <3>2, TailBarriers
  <2>4. CASE ~(h.state = "open" /\ ~h.materialized)
    <3>1. op' = NoOp /\ waiters' = [waiters EXCEPT ![chain[1].for] = [at |-> "idle", upTo |-> 0]]
      BY <1>10, <2>1, <2>4 DEF StartFlush, Turn
    <3>2. QED
      BY <1>a, <2>1, <2>2, <3>1, TailBarriers
  <2>5. QED
    BY <2>3, <2>4
<1>11. CASE Truncate \/ Rewrite
  <2>1. op'.kind # "flush"
    BY <1>11 DEF Truncate, At, Rewrite, Turns, Running, Operations
  <2>2. QED
    BY <1>3, <1>11, <2>1 DEF Truncate, At, Rewrite, Typed
<1>b. PICK l \in Nat : l = Len(op.batch)
  BY DEF Operations
<1>12. CASE WriteAppend
  <2>1. h'.cursor = h.cursor + l /\ pub' = pub /\ chain' = chain /\ op' = NoOp /\ waiters' = waiters
    BY <1>12, <1>b DEF WriteAppend, At, Advanced, Typed
  <2>2. h.cursor <= h'.cursor
    BY <2>1
  <2>3. QED
    BY <1>2, <1>a, <2>1, <2>2
<1>13. CASE WriteBatch
  <2>1. PICK d \in Nat : d = h.cursor + l /\ d <= pub /\ h.buffered = Numbers(d + 1, pub)
    BY <1>13, <1>b, BatchIs DEF WriteBatch, At
  <2> DEFINE x == Advanced(op.batch)
  <2>2. DOMAIN x = DOMAIN h /\ x.cursor = d
    BY <1>b, <2>1 DEF Advanced, Typed
  <2>3. op' = NoOp /\ pub' = pub
    BY <1>13 DEF WriteBatch, At
  <2>4. CASE h.buffered # <<>>
    <3>1. h' = [x EXCEPT !.awaits = OneLess(@)] /\ chain' = Append(chain, DrainOp) /\ waiters' = waiters
      BY <1>13, <2>4 DEF WriteBatch, At
    <3> HIDE DEF x
    <3>2. h'.cursor = d
      BY <2>2, <3>1 DEF Typed
    <3>3. h.cursor <= h'.cursor
      BY <2>1, <3>2
    <3>4. QED
      BY <1>2, <1>a, <2>3, <3>1, <3>3
  <2>5. CASE h.buffered = <<>>
    <3>1. h' = Drained(x) /\ chain' = chain \o Barriers(AtDrain) /\ waiters' = Barred(AtDrain)
      BY <1>13, <2>5 DEF WriteBatch, At
    <3> HIDE DEF x
    <3>2. h'.cursor = d
      BY <2>2, <3>1 DEF Drained, Typed
    <3>3. d = pub
      <4>1. PICK a \in Nat : a = d + 1
        OBVIOUS
      <4>2. a >= 1 /\ a <= pub + 1
        BY ONLY <2>1, <4>1, d \in Nat, pub \in Nat
      <4>x. Numbers(a, pub) = <<>>
        BY ONLY <2>1, <2>5, <4>1
      <4>3. pub + 1 = a
        BY <4>2, <4>x, Exhausted
      <4>4. QED
        BY <4>1, <4>3
    <3>4. h.cursor <= h'.cursor
      BY <2>1, <3>2
    <3>5. AtDrain \in SUBSET Flushers /\ \A f \in AtDrain : waiters[f].at # "flush"
      BY DEF AtDrain
    <3>6. \A f \in Flushers \ AtDrain : waiters'[f] = waiters[f]
      BY <3>1 DEF Barred
    <3>7. \A f \in AtDrain : /\ waiters'[f].upTo <= pub
                             /\ waiters'[f].at = IF h.state = "open" THEN "flush" ELSE "idle"
      <4> SUFFICES ASSUME NEW f \in AtDrain
                   PROVE  waiters'[f].upTo <= pub /\ waiters'[f].at = IF h.state = "open" THEN "flush" ELSE "idle"
        OBVIOUS
      <4>1. waiters'[f] = IF h.state = "open" THEN [waiters[f] EXCEPT !.at = "flush"] ELSE [at |-> "idle", upTo |-> 0]
        BY <3>1, <3>5 DEF Barred
      <4>2. waiters[f] \in Waits /\ waiters[f].upTo <= pub
        BY <1>0, <3>5
      <4>3. QED
        BY <4>1, <4>2 DEF Waits
    <3>8. QED
      BY <1>a, <2>3, <3>1, <3>2, <3>3, <3>4, <3>5, <3>6, <3>7, NewBarriers
  <2>6. QED
    BY <2>4, <2>5
<1>14. CASE WriteHeader
  <2>1. op.kind = "flush"
    BY <1>14 DEF WriteHeader, At, Turns, Running, Operations, Kinds, NoOp
  <2>2. QED
    BY <1>14, <2>1, OverBarriers DEF WriteHeader, At, Typed
<1>15. ASSUME op.kind # "none", OpRejects PROVE Barriered'
  <2>1. op' = NoOp /\ pub' = pub /\ chain' = chain
    BY <1>15 DEF OpRejects
  <2>2. CASE op.kind = "drain"
    <3> DEFINE x == [h EXCEPT !.buffered = Retain(op.batch), !.paused = TRUE]
    <3>1. DOMAIN x = DOMAIN h /\ x.cursor = h.cursor
      BY DEF Typed
    <3>2. h' = GivenUp(x) /\ waiters' = [f \in Flushers |-> IF f \in AtDrain THEN [at |-> "idle", upTo |-> 0] ELSE waiters[f]]
      BY <1>15, <2>2 DEF OpRejects
    <3> HIDE DEF x
    <3>3. h'.cursor = h.cursor
      BY <3>1, <3>2 DEF GivenUp, Typed
    <3>4. \A f \in Flushers : waiters'[f] = waiters[f] \/ (waiters[f].at = "drain" /\ waiters'[f] = [at |-> "idle", upTo |-> 0])
      BY <3>2 DEF AtDrain
    <3>5. QED
      BY <1>0, <1>a, <2>1, <3>3, <3>4, KeptBarriers
  <2>3. CASE op.kind = "append"
    <3>1. h'.cursor = h.cursor /\ waiters' = waiters
      BY <1>15, <2>3 DEF OpRejects, Typed
    <3>2. QED
      BY <1>3, <1>a, <2>1, <3>1
  <2>4. CASE op.kind = "flush"
    <3>1. h'.cursor = h.cursor /\ waiters' = [waiters EXCEPT ![op.for] = [at |-> "idle", upTo |-> 0]]
      BY <1>15, <2>4 DEF OpRejects, Typed
    <3>2. QED
      BY <2>1, <2>4, <3>1, OverBarriers
  <2>5. QED
    BY <1>15, <2>2, <2>3, <2>4 DEF Operations, Kinds
<1>16. CASE OpRefused \/ OpFails \/ PublishFails \/ \E n \in 0..1 : RollbackFails(n)
  <2>1. OpRejects /\ (OpFails \/ At({"refused", "write", "header", "acquire", "rewrite"}))
    BY <1>16 DEF OpRefused, OpFails, PublishFails, RollbackFails, At
  <2>2. op.kind # "none"
    BY <1>16, <2>1 DEF OpFails, At, Turns, Running, NoOp
  <2>3. QED
    BY <1>15, <2>1, <2>2
<1>a2. CASE Acquire
  <2>1. chain' = chain /\ waiters' = waiters /\ pub' = pub /\ h'.cursor = h.cursor
    BY <1>a2 DEF Acquire, Typed
  <2>2. op'.kind = op.kind /\ op'.for = op.for
    BY <1>a2 DEF Acquire, Operations
  <2>3. QED
    BY <2>1, <2>2 DEF Barriered
<1>a3. CASE LateDrain
  BY <1>3, <1>a3 DEF LateDrain
<1>17. ASSUME DrainToClose, pub' = pub, op' = op, waiters' = waiters PROVE Barriered'
  <2>1. h'.cursor = h.cursor /\ (chain' = chain \/ chain' = DrainQueued)
    BY <1>17 DEF DrainToClose, DrainStarted, Typed
  <2>2. QED
    BY <1>3, <1>17, <2>1
<1>18. CASE Close
  BY <1>17, <1>18 DEF Close
<1>19. CASE Settle
  <2>1. CASE h.buffered = <<>>
    BY <1>3, <1>19, <2>1 DEF Settle, Typed
  <2>2. CASE h.buffered # <<>>
    BY <1>17, <1>19, <2>2 DEF Settle
  <2>3. QED
    BY <2>1, <2>2
<1>20. CASE Release \/ Released
  BY <1>3, <1>20 DEF Release, Released, Typed
<1>21. ASSUME NEW d, OpenOver(d) PROVE Barriered'
  <2>1. chain' = <<>> /\ op' = NoOp /\ waiters' = [f \in Flushers |-> [at |-> "idle", upTo |-> 0]]
    BY <1>21 DEF OpenOver
  <2>2. QED
    BY <1>a, <2>1 DEF Barriered
<1>22. QED
  BY <1>4, <1>5, <1>6, <1>7, <1>8, <1>9, <1>10, <1>11, <1>12, <1>13, <1>14, <1>16, <1>a2, <1>a3, <1>18,
     <1>19, <1>20, <1>21 DEF Next, Chain, Closing, Crash, Reopen

-----------------------------------------------------------------------------
(* The theorems.                                                           *)

LEMMA HandleInvInit == Init => HandleInv
  BY RangesInit, TurnsInit, StrandedInit, StoredInit, BehindInit, BarrieredInit DEF HandleInv

LEMMA HandleInvStep == HandleInv /\ [Next]_vars => HandleInv'
<1> SUFFICES ASSUME HandleInv, [Next]_vars PROVE HandleInv'
  OBVIOUS
<1>1. CASE Next
  <2>1. (~spoiled' => Stored') /\ pub' <= MaxEvents
    <3>1. CASE ~spoiled'
      <4>1. ~spoiled
        BY <1>1, <3>1, SpoiledStays DEF HandleInv
      <4>2. QED
        BY <1>1, <3>1, <4>1, StoredStep DEF HandleInv
    <3>2. CASE spoiled'
      BY <1>1, <3>2, SpoiledStep, HandleAssumption DEF HandleInv, Ranges
    <3>3. QED
      BY <3>1, <3>2
  <2>2. Ranges'
    BY <1>1, <2>1, RangesStep DEF HandleInv
  <2>3. Turns' /\ NeverStranded' /\ Behind' /\ Barriered'
    BY <1>1, <2>2, TurnsStep, StrandedStep, BehindStep, BarrieredStep DEF HandleInv
  <2>4. QED
    BY <2>1, <2>2, <2>3 DEF HandleInv
<1>2. CASE UNCHANGED vars
  <2>1. /\ pub' = pub /\ disk' = disk /\ h' = h /\ chain' = chain /\ op' = op
        /\ waiters' = waiters /\ promised' = promised /\ faults' = faults /\ opens' = opens
        /\ late' = late /\ spoiled' = spoiled
    BY <1>2 DEF vars
  <2>2. Ranges' /\ NeverStranded'
    BY <2>1 DEF HandleInv, Ranges, NeverStranded
  <2>3. Turns'
    BY <2>1 DEF HandleInv, Turns, Running, Queue, Producing, Drains, Counted, Pending
  <2>4. ~spoiled' => Stored'
    BY <2>1 DEF HandleInv, Stored, Stages
  <2>5. Behind' /\ Barriered'
    BY <2>1 DEF HandleInv, Behind, InFlight, Barriered
  <2>6. QED
    BY <2>2, <2>3, <2>4, <2>5 DEF HandleInv
<1>3. QED
  BY <1>1, <1>2

LEMMA HandleInvHolds == Spec => []HandleInv
  BY HandleInvInit, HandleInvStep, PTL DEF Spec

\* However operations fail, race a close or meet a crash, the handle's fields keep
\* their ranges, a drain that looks as if it ran has its operation, and close()
\* awaits no operation twice.
THEOREM HandleTyped == Spec => []TypeOK
<1>1. HandleInv => TypeOK
  <2> SUFFICES ASSUME HandleInv PROVE TypeOK
    OBVIOUS
  <2> /\ disk \in Artifacts /\ op \in Operations /\ Typed(h) /\ chain \in Seq(Operations)
      /\ waiters \in [Flushers -> Waits] /\ MaxEvents \in Nat /\ pub \in 0..MaxEvents /\ promised \in 0..MaxEvents
      /\ faults \in 0..MaxFaults /\ opens \in 0..MaxOpens
    BY HandleAssumption DEF HandleInv, Ranges
  <2>2. h.cursor \in 0..MaxEvents
    BY DEF HandleInv, Behind, Typed
  <2>3. h.awaits \in 0..Len(chain) + 1
    <3>1. PICK n \in Nat : n = Len(chain)
      OBVIOUS
    <3>2. h.awaits \in Nat /\ h.awaits <= n + 1
      BY <3>1 DEF HandleInv, Turns, Counted, Pending, Typed
    <3>3. QED
      BY <3>1, <3>2
  <2>4. op.stage \in {"none", "refused", "acquire", "truncate", "rewrite", "write", "header"}
    BY DEF HandleInv, Turns, Running, NoOp, Operations, Kinds
  <2>5. h.draining => op.kind = "drain" \/ \E k \in DOMAIN chain : chain[k].kind = "drain"
    BY DEF HandleInv, Turns, Drains
  <2>6. disk.made \in BOOLEAN /\ disk.torn \in BOOLEAN /\ (~disk.torn => disk.tail = <<>>)
    BY DEF Artifacts
  <2>7. \A f \in Flushers : waiters[f].at \in {"idle", "drain", "flush"}
    BY DEF Waits
  <2>8. QED
    BY <2>2, <2>3, <2>4, <2>5, <2>6, <2>7 DEF TypeOK, Typed
<1>2. QED
  BY <1>1, HandleInvHolds, PTL

\* Whatever fails or crashes, the artifact holds the session's first events, each
\* once and in order: a retried batch, a repaired tail and a reopened log neither
\* skip nor repeat one.  It holds until the rollback of a failed append fails too, or
\* the timer of a closed handle writes behind the next open, and not beyond.
THEOREM HandleStoresInOrder == Spec => []StoredInOrder
<1>1. HandleInv => StoredInOrder
  <2> SUFFICES ASSUME HandleInv, ~spoiled PROVE Records(disk) = Numbers(1, Len(Records(disk)))
    BY DEF StoredInOrder
  <2>1. disk \in Artifacts /\ disk.whole \in Seq(Nat) /\ disk.tail \in Seq(Nat)
    BY DEF HandleInv, Ranges, Artifacts
  <2>2. Sound(disk)
    BY SoundDisk DEF HandleInv
  <2>3. PICK w \in Nat : w = Len(disk.whole)
    BY <2>1
  <2>4. PICK c \in Nat : c = w + Len(disk.tail) /\ disk.tail = Numbers(w + 1, c)
    BY <2>2, <2>3 DEF Sound
  <2>5. w <= c
    <3>1. PICK t \in Nat : t = Len(disk.tail)
      BY <2>1
    <3>2. c = w + t
      BY <2>4, <3>1
    <3>3. QED
      BY ONLY <3>2, w \in Nat, c \in Nat, t \in Nat
  <2>6. disk.whole = Numbers(1, w)
    BY <2>2, <2>3 DEF Sound
  <2>7. Numbers(1, w) \o Numbers(w + 1, c) = Numbers(1, c)
    BY ONLY <2>5, JoinFirst, w \in Nat, c \in Nat
  <2>8. disk.whole \o disk.tail = Numbers(1, c)
    BY ONLY <2>4, <2>6, <2>7
  <2>9. Len(Records(disk)) = c
    BY <2>1, <2>3, <2>4, RecordsTyped
  <2>10. QED
    BY <2>8, <2>9 DEF Records
<1>2. QED
  BY <1>1, HandleInvHolds, PTL

\* A live session's events behind the cursor are those of the batch that is being
\* written and of the buffer, once and in order, also while the handle closes; and
\* what was appended or stored whole before a flush resolved is found by every later
\* owner, until a rollback fails or a closed handle writes behind the next open.
THEOREM HandleLosesNothing == Spec => []NothingLost
<1>1. HandleInv => NothingLost
  <2> SUFFICES ASSUME HandleInv PROVE NothingLost
    OBVIOUS
  <2>1. ASSUME ~spoiled PROVE promised <= pub
    <3>1. PICK w \in Nat : w = Len(disk.whole)
      BY DEF HandleInv, Ranges, Artifacts
    <3>2. promised <= w /\ w <= pub /\ promised \in Nat /\ pub \in Nat
      BY <2>1, <3>1 DEF HandleInv, Stored, Ranges
    <3>3. QED
      BY <3>2
  <2>2. QED
    BY <2>1 DEF HandleInv, Behind, InFlight, NothingLost
<1>2. QED
  BY <1>1, HandleInvHolds, PTL

\* A buffered event has a timer or a drain ahead, or its drain failed and was
\* reported, in every state of the handle, a closed one included.
THEOREM HandleStrandsNothing == Spec => []NeverStranded
  BY HandleInvHolds, PTL DEF HandleInv
=============================================================================
