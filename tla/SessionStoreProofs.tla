------------------------- MODULE SessionStoreProofs -------------------------
(***************************************************************************)
(* Observers of the session store agree with it, for any sessions, ids and *)
(* observers, and however deep they call back.                             *)
(***************************************************************************)
EXTENDS SessionStore, SequenceTheorems, TLAPS

View == [phase : {"unseen", "created", "disposed", "torn"}, last : Nat]
Told(n) == [phase |-> "created", last |-> n]

Still(q, s) == \A k \in DOMAIN q : q[k].session # s

\* A session is published by one dispatch at a time.
Sole(q) == \A j, k \in DOMAIN q : q[j].session = q[k].session => j = k

\* What a dispatch still owes: it holds the session to what it publishes, and each
\* observer up to the one told last is a notification ahead of the others.
Owes(f, e, n, o, v) ==
  \/ /\ f.kind = "created" /\ e.at = "store" /\ e.announcement = "dispatching" /\ ~e.appending
     /\ v = IF o <= f.told THEN Told(n) ELSE Unseen
  \/ /\ f.kind = "event" /\ e.at = "store" /\ e.announcement = "complete" /\ e.appending
     /\ f.event = n /\ n > 0 /\ v = Told(IF o <= f.told THEN n ELSE n - 1)
  \/ /\ f.kind = "disposed" /\ e = Unattached
     /\ v.phase \in (IF o <= f.told THEN {"disposed"} ELSE {"unseen", "created"})

\* Between its dispatches a session owes nobody anything, a detach included.
Rests(e, n, v) ==
  /\ ~e.appending /\ e.announcement # "dispatching" /\ ~e.detachRequested
  /\ e.at # "store" => e.announcement = "pending" /\ v.phase \in {"unseen", "disposed"}
  /\ e.at = "store" => \/ e.announcement = "pending" /\ v = Unseen
                       \/ e.announcement = "complete" /\ v = Told(n)
                       \/ e.announcement = "failed" /\ v.phase \in {"unseen", "created"}

Publishes == \A k \in DOMAIN stack, o \in Observer :
  Owes(stack[k], entry[stack[k].session], log[stack[k].session], o, seen[o][stack[k].session])
Settles == \A s \in Sessions, o \in Observer :
  Still(stack, s) => Rests(entry[s], log[s], seen[o][s])

Inv == TypeOK /\ Sole(stack) /\ Publishes /\ Settles

-----------------------------------------------------------------------------
(* The stack.                                                              *)

\* A dispatch on top of the stack, of a session that had none.
LEMMA Pushed ==
  ASSUME NEW q \in Seq(Frame), NEW f \in Frame, Sole(q), Still(q, f.session)
  PROVE  /\ Append(q, f) \in Seq(Frame) /\ Sole(Append(q, f))
         /\ \A k \in DOMAIN Append(q, f) :
              \/ k \in DOMAIN q /\ Append(q, f)[k] = q[k] /\ q[k].session # f.session
              \/ Append(q, f)[k] = f
         /\ \A t : Still(Append(q, f), t) => Still(q, t)
         /\ ~Still(Append(q, f), f.session)
<1> DEFINE w == Append(q, f)
<1>1. /\ Len(q) \in Nat /\ DOMAIN q = 1..Len(q)
  BY LenProperties
<1>2. /\ w \in Seq(Frame) /\ Len(w) = Len(q) + 1
      /\ \A i \in 1..Len(q) : w[i] = q[i]
      /\ w[Len(q) + 1] = f
  BY AppendProperties
<1>3. DOMAIN w = 1..Len(q) + 1
  BY <1>2, LenProperties
<1> HIDE DEF w
<1>4. \A k \in DOMAIN w : \/ k \in DOMAIN q /\ w[k] = q[k] /\ q[k].session # f.session
                          \/ k = Len(q) + 1 /\ w[k] = f
  BY <1>1, <1>2, <1>3 DEF Still
<1>5. Sole(w)
  <2>1. SUFFICES ASSUME NEW j \in DOMAIN w, NEW k \in DOMAIN w, w[j].session = w[k].session
                 PROVE  j = k
    BY DEF Sole
  <2>2. QED
    BY <1>4, <2>1 DEF Sole
<1>6. \A t : Still(w, t) => Still(q, t)
  BY <1>1, <1>2, <1>3 DEF Still
<1>7. ~Still(w, f.session)
  <2>1. Len(q) + 1 \in DOMAIN w
    BY <1>1, <1>3
  <2>2. QED
    BY <1>2, <2>1 DEF Still
<1>8. QED
  BY <1>2, <1>4, <1>5, <1>6, <1>7 DEF w

\* The dispatch on top is one of the stack.
LEMMA TopProperties ==
  ASSUME NEW q \in Seq(Frame), q # <<>>
  PROVE  /\ Len(q) \in DOMAIN q /\ Len(q) \in 1..Len(q) /\ Len(q) \in Nat
         /\ DOMAIN q = 1..Len(q) /\ q[Len(q)] \in Frame
<1>1. Len(q) \in Nat \ {0} /\ DOMAIN q = 1..Len(q)
  BY EmptySeq, LenProperties
<1>2. Len(q) \in 1..Len(q)
  BY <1>1
<1>3. QED
  BY <1>1, <1>2, ElementOfSeq

\* The dispatch on top goes on.
LEMMA Replaced ==
  ASSUME NEW q \in Seq(Frame), q # <<>>, NEW f \in Frame, Sole(q),
         f.session = q[Len(q)].session
  PROVE  /\ [q EXCEPT ![Len(q)] = f] \in Seq(Frame) /\ Sole([q EXCEPT ![Len(q)] = f])
         /\ \A k \in DOMAIN [q EXCEPT ![Len(q)] = f] :
              \/ /\ k \in DOMAIN q /\ [q EXCEPT ![Len(q)] = f][k] = q[k]
                 /\ q[k].session # f.session
              \/ [q EXCEPT ![Len(q)] = f][k] = f
         /\ \A t : Still([q EXCEPT ![Len(q)] = f], t) => Still(q, t)
         /\ ~Still([q EXCEPT ![Len(q)] = f], f.session)
<1> DEFINE w == [q EXCEPT ![Len(q)] = f]
<1>1. /\ Len(q) \in DOMAIN q /\ Len(q) \in 1..Len(q) /\ DOMAIN q = 1..Len(q)
  BY TopProperties
<1>2. /\ w \in Seq(Frame) /\ Len(w) = Len(q)
      /\ \A j \in 1..Len(q) : w[j] = IF j = Len(q) THEN f ELSE q[j]
  BY <1>1, ExceptSeq
<1>3. DOMAIN w = DOMAIN q
  BY <1>1, <1>2, LenProperties
<1> HIDE DEF w
<1>4. \A k \in DOMAIN w : w[k].session = q[k].session
  BY <1>1, <1>2, <1>3
<1>5. Sole(w)
  BY <1>3, <1>4 DEF Sole
<1>6. \A k \in DOMAIN w : \/ k \in DOMAIN q /\ w[k] = q[k] /\ q[k].session # f.session
                          \/ w[k] = f
  <2>1. TAKE k \in DOMAIN w
  <2>2. CASE k = Len(q)
    BY <1>1, <1>2, <2>2
  <2>3. CASE k # Len(q)
    BY <1>1, <1>2, <1>3, <2>3 DEF Sole
  <2>4. QED
    BY <2>2, <2>3
<1>7. \A t : Still(w, t) => Still(q, t)
  BY <1>3, <1>4 DEF Still
<1>8. ~Still(w, f.session)
  BY <1>1, <1>3, <1>4 DEF Still
<1>9. QED
  BY <1>2, <1>5, <1>6, <1>7, <1>8 DEF w

\* The dispatch on top is over.
LEMMA Popped ==
  ASSUME NEW q \in Seq(Frame), q # <<>>, Sole(q)
  PROVE  LET w == SubSeq(q, 1, Len(q) - 1) IN
         /\ w \in Seq(Frame) /\ Sole(w)
         /\ \A k \in DOMAIN w : k \in DOMAIN q /\ w[k] = q[k]
                                /\ q[k].session # q[Len(q)].session
         /\ \A t : Still(w, t) => Still(q, t) \/ t = q[Len(q)].session
         /\ Still(w, q[Len(q)].session)
<1> DEFINE w == SubSeq(q, 1, Len(q) - 1)
<1>1. /\ Len(q) \in DOMAIN q /\ Len(q) \in 1..Len(q) /\ DOMAIN q = 1..Len(q) /\ Len(q) \in Nat
  BY TopProperties
<1>2. 1 \in Int /\ Len(q) - 1 \in Int /\ \A i \in 1..Len(q) - 1 : q[i] \in Frame
  <2>1. \A i \in 1..Len(q) - 1 : i \in 1..Len(q)
    BY <1>1
  <2>2. QED
    <3>1. \A i \in 1..Len(q) : q[i] \in Frame
      BY ElementOfSeq
    <3>2. QED
      BY <1>1, <2>1, <3>1
<1>3. /\ w \in Seq(Frame) /\ Len(w) = IF 1 <= Len(q) - 1 THEN (Len(q) - 1) - 1 + 1 ELSE 0
      /\ \A i \in 1..(Len(q) - 1) - 1 + 1 : w[i] = q[1 + i - 1]
  <2> DEFINE n == Len(q) - 1
  <2>1. 1 \in Int /\ n \in Int /\ \A i \in 1..n : q[i] \in Frame
    BY <1>2
  <2> HIDE DEF n
  <2>2. /\ SubSeq(q, 1, n) \in Seq(Frame) /\ Len(SubSeq(q, 1, n)) = IF 1 <= n THEN n - 1 + 1 ELSE 0
        /\ \A i \in 1..n - 1 + 1 : SubSeq(q, 1, n)[i] = q[1 + i - 1]
    BY <2>1, SubSeqProperties
  <2>3. QED
    BY <2>2 DEF n
<1> HIDE DEF w
<1>4. Len(w) = Len(q) - 1
  <2>1. CASE 1 <= Len(q) - 1
    <3>1. (Len(q) - 1) - 1 + 1 = Len(q) - 1
      BY <1>1
    <3>2. QED
      BY <1>3, <2>1, <3>1
  <2>2. CASE ~(1 <= Len(q) - 1)
    <3>1. Len(q) - 1 = 0
      BY <1>1, <2>2
    <3>2. QED
      BY <1>3, <2>2, <3>1
  <2>3. QED
    BY <2>1, <2>2
<1>5. DOMAIN w = 1..Len(q) - 1
  BY <1>3, <1>4, LenProperties
<1>6. ASSUME NEW k \in DOMAIN w
      PROVE  k \in DOMAIN q /\ k # Len(q) /\ w[k] = q[k]
  <2>1. k \in 1..Len(q) - 1 /\ 1 + k - 1 = k
    BY <1>1, <1>5
  <2>2. (Len(q) - 1) - 1 + 1 = Len(q) - 1
    BY <1>1
  <2>3. w[k] = q[k]
    BY <1>3, <2>1, <2>2
  <2>4. QED
    BY <1>1, <2>1, <2>3
<1>7. Sole(w) /\ \A k \in DOMAIN w : q[k].session # q[Len(q)].session
  BY <1>1, <1>6 DEF Sole
<1>8. \A t : Still(w, t) => Still(q, t) \/ t = q[Len(q)].session
  <2>1. \A k \in DOMAIN q : k = Len(q) \/ k \in DOMAIN w
    BY <1>1, <1>5
  <2>2. QED
    BY <1>6, <2>1 DEF Still
<1>9. Still(w, q[Len(q)].session)
  BY <1>6, <1>7 DEF Still
<1>10. QED
  BY <1>3, <1>6, <1>7, <1>8, <1>9 DEF w

-----------------------------------------------------------------------------
(* What a step leaves alone.                                               *)

\* A step about one session leaves the others as they were, with the dispatches
\* that they have.
LEMMA OneSession ==
  ASSUME Inv, TypeOK', Sole(stack'), NEW s \in Sessions,
         \A t \in Sessions : t # s => entry'[t] = entry[t] /\ log'[t] = log[t],
         \A o \in Observer, t \in Sessions : t # s => seen'[o][t] = seen[o][t],
         \A k \in DOMAIN stack' : stack'[k].session # s =>
           k \in DOMAIN stack /\ stack[k] = stack'[k],
         \A t \in Sessions : t # s /\ Still(stack', t) => Still(stack, t),
         \A k \in DOMAIN stack', o \in Observer : stack'[k].session = s =>
           Owes(stack'[k], entry'[s], log'[s], o, seen'[o][s]),
         Still(stack', s) => \A o \in Observer : Rests(entry'[s], log'[s], seen'[o][s])
  PROVE  Inv'
<1>1. Publishes'
  <2>1. SUFFICES ASSUME NEW k \in DOMAIN stack', NEW o \in Observer
                 PROVE  Owes(stack'[k], entry'[stack'[k].session], log'[stack'[k].session], o,
                             seen'[o][stack'[k].session])
    BY DEF Publishes, Observer
  <2>2. CASE stack'[k].session = s
    BY <2>2
  <2>3. CASE stack'[k].session # s
    <3>1. k \in DOMAIN stack /\ stack[k] = stack'[k]
      BY <2>3
    <3>2. stack[k].session \in Sessions
      <4>1. stack \in Seq(Frame)
        BY DEF Inv, TypeOK
      <4>2. DOMAIN stack = 1..Len(stack)
        BY <4>1, LenProperties
      <4>3. stack[k] \in Frame
        BY <3>1, <4>1, <4>2, ElementOfSeq
      <4>4. QED
        BY <4>3 DEF Frame
    <3>3. Owes(stack[k], entry[stack[k].session], log[stack[k].session], o,
               seen[o][stack[k].session])
      BY <3>1 DEF Inv, Publishes
    <3>4. QED
      BY <2>3, <3>1, <3>2, <3>3
  <2>4. QED
    BY <2>2, <2>3
<1>2. Settles'
  <2>1. SUFFICES ASSUME NEW t \in Sessions, NEW o \in Observer, Still(stack', t)
                 PROVE  Rests(entry'[t], log'[t], seen'[o][t])
    BY DEF Settles, Observer
  <2>2. CASE t = s
    BY <2>1, <2>2
  <2>3. CASE t # s
    <3>1. Rests(entry[t], log[t], seen[o][t])
      BY <2>1, <2>3 DEF Inv, Settles
    <3>2. QED
      BY <2>3, <3>1
  <2>4. QED
    BY <2>2, <2>3
<1>3. QED
  BY <1>1, <1>2 DEF Inv

-----------------------------------------------------------------------------
(* Types.                                                                  *)

\* The constants.
LEMMA StoreTyped == /\ \A s \in Sessions : IdOf[s] \in Ids
                    /\ Observers \in Nat \ {0} /\ MaxCalls \in Nat
  BY StoreAssumption

\* What a session is attached to has the fields of an entry.
LEMMA UnattachedTyped ==
  /\ Unattached \in Entry /\ Unattached.at = "null" /\ Unattached.announcement = "pending"
  /\ ~Unattached.appending /\ ~Unattached.detachRequested
  BY DEF Unattached, Entry

LEMMA UnseenTyped == Unseen \in View
  BY DEF Unseen, View

\* A notification of each kind, with nobody told of it yet.
LEMMA DispatchedTyped ==
  ASSUME NEW kind \in {"created", "event", "disposed"}, NEW s \in Sessions, NEW n \in Nat
  PROVE  /\ Dispatched(kind, s, n) \in Frame
         /\ Dispatched(kind, s, n).kind = kind /\ Dispatched(kind, s, n).session = s
         /\ Dispatched(kind, s, n).event = n /\ Dispatched(kind, s, n).told = 0
<1>1. 0 \in 0..Observers
  BY StoreTyped
<1>2. QED
  BY <1>1 DEF Dispatched, Frame

\* The types, without what relates the store to the attachments.
LEMMA TypeParts ==
  ASSUME TypeOK
  PROVE  /\ store \in [Ids -> {None} \cup {Holds(s) : s \in Sessions}]
         /\ entry \in [Sessions -> Entry] /\ log \in [Sessions -> Nat]
         /\ stack \in Seq(Frame) /\ calls \in 0..MaxCalls
         /\ seen \in [Observer -> [Sessions -> View]]
         /\ \A s \in Sessions : entry[s].at = "store" <=> store[IdOf[s]] = Holds(s)
  BY DEF TypeOK, View, Live

LEMMA PartsTyped ==
  ASSUME /\ store' \in [Ids -> {None} \cup {Holds(s) : s \in Sessions}]
         /\ entry' \in [Sessions -> Entry] /\ log' \in [Sessions -> Nat]
         /\ stack' \in Seq(Frame) /\ calls' \in 0..MaxCalls
         /\ seen' \in [Observer -> [Sessions -> View]]
         /\ \A s \in Sessions : entry'[s].at = "store" <=> store'[IdOf[s]] = Holds(s)
  PROVE  TypeOK'
  BY DEF TypeOK, View, Live, Observer, None, Holds, Entry, Frame

\* A call of the store is counted.
LEMMA RunsTyped == TypeOK /\ Runs => calls' \in 0..MaxCalls
<1>1. SUFFICES ASSUME TypeOK, Runs PROVE calls' \in 0..MaxCalls
  OBVIOUS
<1>2. calls \in 0..MaxCalls /\ calls < MaxCalls /\ calls' = calls + 1 /\ MaxCalls \in Nat
  BY <1>1, StoreTyped DEF TypeOK, Runs
<1>3. QED
  BY <1>2

\* Quiet is what the lemmas on the stack say of it.
LEMMA QuietIsStill == \A s \in Sessions : Quiet(s) <=> Still(stack, s)
  BY DEF Quiet, Still

\* A session enters under an id that is free.
LEMMA EnteredStore ==
  ASSUME TypeOK, NEW s \in Sessions, store[IdOf[s]] = None, NEW e \in Entry, e.at = "store",
         store' = [store EXCEPT ![IdOf[s]] = Holds(s)], entry' = [entry EXCEPT ![s] = e]
  PROVE  /\ store' \in [Ids -> {None} \cup {Holds(t) : t \in Sessions}]
         /\ \A t \in Sessions : entry'[t].at = "store" <=> store'[IdOf[t]] = Holds(t)
<1>1. /\ store \in [Ids -> {None} \cup {Holds(t) : t \in Sessions}] /\ entry \in [Sessions -> Entry]
      /\ \A t \in Sessions : entry[t].at = "store" <=> store[IdOf[t]] = Holds(t)
  BY TypeParts
<1>2. /\ \A t \in Sessions : IdOf[t] \in Ids
      /\ \A t \in Sessions : None # Holds(t)
      /\ \A t \in Sessions : t # s => Holds(s) # Holds(t)
  BY StoreTyped DEF None, Holds
<1>3. store' \in [Ids -> {None} \cup {Holds(t) : t \in Sessions}]
  BY <1>1, <1>2
<1>4. ASSUME NEW t \in Sessions
      PROVE  entry'[t].at = "store" <=> store'[IdOf[t]] = Holds(t)
  <2>1. CASE t = s
    BY <1>1, <1>2, <2>1
  <2>2. CASE t # s
    BY <1>1, <1>2, <2>2
  <2>3. QED
    BY <2>1, <2>2
<1>5. QED
  BY <1>3, <1>4

\* A session that leaves frees its id, which no other entered session has.
LEMMA LeftStore ==
  ASSUME TypeOK, NEW s \in Sessions, entry[s].at = "store", NEW e \in Entry, e.at # "store",
         store' = [store EXCEPT ![IdOf[s]] = None], entry' = [entry EXCEPT ![s] = e]
  PROVE  /\ store' \in [Ids -> {None} \cup {Holds(t) : t \in Sessions}]
         /\ \A t \in Sessions : entry'[t].at = "store" <=> store'[IdOf[t]] = Holds(t)
<1>1. /\ store \in [Ids -> {None} \cup {Holds(t) : t \in Sessions}] /\ entry \in [Sessions -> Entry]
      /\ \A t \in Sessions : entry[t].at = "store" <=> store[IdOf[t]] = Holds(t)
  BY TypeParts
<1>2. /\ \A t \in Sessions : IdOf[t] \in Ids
      /\ \A t \in Sessions : None # Holds(t)
      /\ \A t \in Sessions : t # s => Holds(s) # Holds(t)
  BY StoreTyped DEF None, Holds
<1>3. store' \in [Ids -> {None} \cup {Holds(t) : t \in Sessions}]
  BY <1>1, <1>2
<1>4. ASSUME NEW t \in Sessions
      PROVE  entry'[t].at = "store" <=> store'[IdOf[t]] = Holds(t)
  <2>1. CASE t = s
    BY <1>1, <1>2, <2>1
  <2>2. CASE t # s
    BY <1>1, <1>2, <2>2
  <2>3. QED
    BY <2>1, <2>2
<1>5. QED
  BY <1>3, <1>4

\* What changes in an entry that stays where it is.
LEMMA SameStore ==
  ASSUME TypeOK, NEW s \in Sessions, NEW e \in Entry, e.at = "store" <=> entry[s].at = "store",
         store' = store, entry' = [entry EXCEPT ![s] = e]
  PROVE  \A t \in Sessions : entry'[t].at = "store" <=> store'[IdOf[t]] = Holds(t)
<1>1. /\ entry \in [Sessions -> Entry]
      /\ \A t \in Sessions : entry[t].at = "store" <=> store[IdOf[t]] = Holds(t)
  BY TypeParts
<1>2. QED
  BY <1>1

-----------------------------------------------------------------------------
(* What is owed.                                                           *)

\* A session that is neither being published nor detached has no dispatch under way.
LEMMA Undispatched ==
  ASSUME Inv, NEW s \in Sessions, entry[s].at # "null",
         entry[s].at = "store" =>
           /\ entry[s].announcement # "dispatching"
           /\ entry[s].announcement = "complete" => ~entry[s].appending
  PROVE  Still(stack, s)
<1>1. SUFFICES ASSUME NEW k \in DOMAIN stack, stack[k].session = s PROVE FALSE
  BY DEF Still
<1>2. 1 \in Observer
  BY StoreTyped DEF Observer
<1>3. Owes(stack[k], entry[s], log[s], 1, seen[1][s])
  BY <1>1, <1>2 DEF Inv, Publishes
<1>4. QED
  BY <1>3, UnattachedTyped DEF Owes

\* Nobody has been told of a dispatch that begins.
LEMMA Begun ==
  ASSUME NEW s \in Sessions, NEW o \in Observer, NEW e \in Entry, NEW n \in Nat, NEW v \in View
  PROVE  /\ e.at = "store" /\ e.announcement = "dispatching" /\ ~e.appending =>
              Owes(Dispatched("created", s, 0), e, n, o, Unseen)
         /\ e.at = "store" /\ e.announcement = "complete" /\ e.appending =>
              Owes(Dispatched("event", s, n + 1), e, n + 1, o, Told(n))
         /\ v.phase \in {"unseen", "created"} =>
              Owes(Dispatched("disposed", s, 0), Unattached, n, o, v)
<1>1. o \in Nat /\ ~(o <= 0) /\ n + 1 \in Nat /\ n + 1 > 0 /\ n + 1 - 1 = n /\ 0 \in Nat
  BY StoreTyped DEF Observer
<1>2. e.at = "store" /\ e.announcement = "dispatching" /\ ~e.appending =>
        Owes(Dispatched("created", s, 0), e, n, o, Unseen)
  BY <1>1, DispatchedTyped DEF Owes
<1>3. e.at = "store" /\ e.announcement = "complete" /\ e.appending =>
        Owes(Dispatched("event", s, n + 1), e, n + 1, o, Told(n))
  BY <1>1, DispatchedTyped DEF Owes
<1>4. v.phase \in {"unseen", "created"} =>
        Owes(Dispatched("disposed", s, 0), Unattached, n, o, v)
  BY <1>1, DispatchedTyped DEF Owes
<1>5. QED
  BY <1>2, <1>3, <1>4

\* A notification is never torn, and only its observer owes less behind it.
LEMMA Notified ==
  ASSUME NEW f \in Frame, log[f.session] \in Nat, NEW e \in Entry, NEW o \in Observer,
         NEW v \in View, Owes(f, e, log[f.session], o, v), NEW g \in Frame,
         g.kind = f.kind, g.session = f.session, g.event = f.event, g.told = f.told + 1
  PROVE  /\ o = f.told + 1 =>
              Observed(v, f) \in View /\ Owes(g, e, log[f.session], o, Observed(v, f))
         /\ o # f.told + 1 => Owes(g, e, log[f.session], o, v)
<1> DEFINE n == log[f.session]
<1>1. o \in Nat /\ f.told \in Nat /\ n \in Nat /\ f.kind \in {"created", "event", "disposed"}
  BY DEF Observer, Frame
<1>2. o # f.told + 1 => (o <= f.told <=> o <= g.told)
  BY <1>1
<1>3. o # f.told + 1 => Owes(g, e, n, o, v)
  BY <1>2 DEF Owes
<1>4. ASSUME o = f.told + 1
      PROVE  Observed(v, f) \in View /\ Owes(g, e, n, o, Observed(v, f))
  <2>1. o <= g.told /\ ~(o <= f.told)
    BY <1>1, <1>4
  <2>2. CASE f.kind = "created"
    <3>1. v = Unseen /\ e.at = "store" /\ e.announcement = "dispatching" /\ ~e.appending
      BY <2>1, <2>2 DEF Owes
    <3>2. Observed(v, f) = Told(n)
      BY <2>2, <3>1 DEF Observed, Unseen, Told
    <3>3. QED
      BY <1>1, <2>1, <2>2, <3>1, <3>2 DEF Owes, Told, View
  <2>3. CASE f.kind = "event"
    <3>1. /\ v = Told(n - 1) /\ e.at = "store" /\ e.announcement = "complete" /\ e.appending
          /\ f.event = n /\ n > 0
      BY <2>1, <2>3 DEF Owes
    <3>2. Observed(v, f) = Told(n)
      <4>1. v.phase = "created" /\ f.event = v.last + 1
        BY <1>1, <3>1 DEF Told
      <4>2. Observed(v, f) = [v EXCEPT !.last = f.event]
        BY <2>3, <4>1 DEF Observed
      <4>3. QED
        BY <3>1, <4>2 DEF Told
    <3>3. QED
      BY <1>1, <2>1, <2>3, <3>1, <3>2 DEF Owes, Told, View
  <2>4. CASE f.kind = "disposed"
    <3>1. e = Unattached /\ v.phase \in {"unseen", "created"}
      BY <2>1, <2>4 DEF Owes
    <3>2. Observed(v, f) = [v EXCEPT !.phase = "disposed"]
      BY <2>4, <3>1 DEF Observed
    <3>3. Observed(v, f) \in View /\ Observed(v, f).phase = "disposed"
      BY <3>2 DEF View
    <3>4. QED
      BY <2>1, <2>4, <3>1, <3>3 DEF Owes
  <2>5. QED
    BY <1>1, <2>2, <2>3, <2>4
<1>5. QED
  BY <1>3, <1>4

-----------------------------------------------------------------------------
(* The calls.                                                              *)

LEMMA InitInv == Init => Inv
<1>1. SUFFICES ASSUME Init PROVE Inv
  OBVIOUS
<1>2. [Unattached EXCEPT !.at = "unborn"] \in Entry
  BY UnattachedTyped DEF Entry
<1>3. TypeOK
  <2>1. 0 \in 0..MaxCalls /\ <<>> \in Seq(Frame) /\ Unseen \in View
    BY StoreTyped, UnseenTyped
  <2>2. \A s \in Sessions : entry[s].at # "store" /\ store[IdOf[s]] # Holds(s)
    BY <1>1, StoreTyped, UnattachedTyped DEF Init, None, Holds, Unattached
  <2>3. QED
    BY <1>1, <1>2, <2>1, <2>2 DEF Init, TypeOK, Live, View
<1>4. Sole(stack) /\ Publishes
  <2>1. DOMAIN stack = {}
    BY <1>1 DEF Init
  <2>2. QED
    BY <2>1 DEF Sole, Publishes
<1>5. Settles
  <2>1. SUFFICES ASSUME NEW s \in Sessions, NEW o \in Observer
                 PROVE  Rests(entry[s], log[s], seen[o][s])
    BY DEF Settles
  <2>2. entry[s] = [Unattached EXCEPT !.at = "unborn"] /\ seen[o][s] = Unseen
    BY <1>1 DEF Init
  <2>3. QED
    BY <2>2 DEF Rests, Unattached, Unseen
<1>6. QED
  BY <1>3, <1>4, <1>5 DEF Inv

\* A session is prepared, entered, announced and appended to between its dispatches.
LEMMA PrepareKeeps ==
  ASSUME Inv, NEW s \in Sessions, Prepare(s)
  PROVE  Inv'
<1>1. TypeOK /\ Sole(stack) /\ entry \in [Sessions -> Entry] /\ entry[s].at = "unborn"
      /\ entry' = [entry EXCEPT ![s] = Unattached]
      /\ UNCHANGED <<store, log, stack, seen>> /\ Runs
  BY TypeParts DEF Inv, Prepare
<1>2. Still(stack, s)
  BY <1>1, Undispatched
<1>3. TypeOK'
  <2>1. calls' \in 0..MaxCalls
    BY <1>1, RunsTyped
  <2>2. \A t \in Sessions : entry'[t].at = "store" <=> store'[IdOf[t]] = Holds(t)
    BY <1>1, UnattachedTyped, SameStore
  <2>3. entry' \in [Sessions -> Entry]
    BY <1>1, UnattachedTyped
  <2>4. QED
    BY <1>1, <2>1, <2>2, <2>3, TypeParts, PartsTyped
<1>4. \A o \in Observer : Rests(entry'[s], log'[s], seen'[o][s])
  <2>1. TAKE o \in Observer
  <2>2. Rests(entry[s], log[s], seen[o][s])
    BY <1>2 DEF Inv, Settles
  <2>3. entry'[s] = Unattached
    BY <1>1
  <2>4. QED
    BY <1>1, <2>2, <2>3, UnattachedTyped DEF Rests
<1>5. QED
  <2>1. \A k \in DOMAIN stack' : stack'[k].session # s
    BY <1>1, <1>2 DEF Still
  <2>2. \A t \in Sessions : t # s => entry'[t] = entry[t] /\ log'[t] = log[t]
    BY <1>1
  <2>3. QED
    BY <1>1, <1>3, <1>4, <2>1, <2>2, OneSession

LEMMA EnterKeeps ==
  ASSUME Inv, NEW s \in Sessions, Enter(s)
  PROVE  Inv'
<1> DEFINE e == [Unattached EXCEPT !.at = "store", !.held = TRUE]
<1>1. TypeOK /\ Sole(stack) /\ entry \in [Sessions -> Entry] /\ store[IdOf[s]] = None
      /\ seen \in [Observer -> [Sessions -> View]]
      /\ store' = [store EXCEPT ![IdOf[s]] = Holds(s)] /\ entry' = [entry EXCEPT ![s] = e]
      /\ seen' = [o \in Observer |-> [seen[o] EXCEPT ![s] = Unseen]]
      /\ UNCHANGED <<log, stack>> /\ Runs /\ Still(stack, s)
  BY TypeParts, QuietIsStill DEF Inv, Enter
<1>2. /\ e \in Entry /\ e.at = "store" /\ e.announcement = "pending" /\ ~e.appending
      /\ ~e.detachRequested
  BY DEF Unattached, Entry
<1> HIDE DEF e
<1>3. TypeOK'
  <2>1. calls' \in 0..MaxCalls
    BY <1>1, RunsTyped
  <2>2. /\ store' \in [Ids -> {None} \cup {Holds(t) : t \in Sessions}]
        /\ \A t \in Sessions : entry'[t].at = "store" <=> store'[IdOf[t]] = Holds(t)
    BY <1>1, <1>2, EnteredStore
  <2>3. entry' \in [Sessions -> Entry]
    BY <1>1, <1>2
  <2>4. seen' \in [Observer -> [Sessions -> View]]
    BY <1>1, UnseenTyped
  <2>5. QED
    BY <1>1, <2>1, <2>2, <2>3, <2>4, TypeParts, PartsTyped
<1>4. \A o \in Observer : Rests(entry'[s], log'[s], seen'[o][s])
  <2>1. TAKE o \in Observer
  <2>2. entry'[s] = e /\ seen'[o][s] = Unseen
    BY <1>1
  <2>3. QED
    BY <1>2, <2>2 DEF Rests
<1>5. QED
  <2>1. \A k \in DOMAIN stack' : stack'[k].session # s
    BY <1>1 DEF Still
  <2>2. \A t \in Sessions : t # s => entry'[t] = entry[t] /\ log'[t] = log[t]
    BY <1>1
  <2>3. \A o \in Observer, t \in Sessions : t # s => seen'[o][t] = seen[o][t]
    BY <1>1
  <2>4. QED
    BY <1>1, <1>3, <1>4, <2>1, <2>2, <2>3, OneSession

\* A session at rest begins to be published: its entry says so, and its observers
\* are where they were.
LEMMA DispatchKeeps ==
  ASSUME Inv, NEW s \in Sessions, Still(stack, s), NEW e \in Entry, e.at = "store",
         entry[s].at = "store", entry' = [entry EXCEPT ![s] = e], NEW n \in Nat,
         log' = [log EXCEPT ![s] = n], NEW f \in Frame, f.session = s,
         stack' = Append(stack, f), UNCHANGED <<store, seen>>, Runs,
         \A o \in Observer : Owes(f, e, n, o, seen[o][s])
  PROVE  Inv'
<1>1. TypeOK /\ Sole(stack) /\ entry \in [Sessions -> Entry] /\ log \in [Sessions -> Nat]
      /\ stack \in Seq(Frame)
  BY TypeParts DEF Inv
<1>2. /\ stack' \in Seq(Frame) /\ Sole(stack')
      /\ \A k \in DOMAIN stack' :
           \/ k \in DOMAIN stack /\ stack'[k] = stack[k] /\ stack[k].session # s
           \/ stack'[k] = f
      /\ \A t \in Sessions : Still(stack', t) => Still(stack, t)
      /\ ~Still(stack', s)
  BY <1>1, Pushed
<1>3. TypeOK'
  <2>1. calls' \in 0..MaxCalls
    BY <1>1, RunsTyped
  <2>2. \A t \in Sessions : entry'[t].at = "store" <=> store'[IdOf[t]] = Holds(t)
    BY <1>1, SameStore
  <2>3. entry' \in [Sessions -> Entry] /\ log' \in [Sessions -> Nat]
    BY <1>1
  <2>4. QED
    BY <1>1, <1>2, <2>1, <2>2, <2>3, TypeParts, PartsTyped
<1>4. \A k \in DOMAIN stack', o \in Observer : stack'[k].session = s =>
        Owes(stack'[k], entry'[s], log'[s], o, seen'[o][s])
  <2>1. entry'[s] = e /\ log'[s] = n /\ seen' = seen
    BY <1>1
  <2>2. QED
    BY <1>2, <2>1
<1>5. QED
  <2>1. \A t \in Sessions : t # s => entry'[t] = entry[t] /\ log'[t] = log[t]
    BY <1>1
  <2>2. \A k \in DOMAIN stack' : stack'[k].session # s =>
          k \in DOMAIN stack /\ stack[k] = stack'[k]
    BY <1>2
  <2>3. QED
    BY <1>2, <1>3, <1>4, <2>1, <2>2, OneSession

LEMMA AnnounceKeeps ==
  ASSUME Inv, NEW s \in Sessions, Announce(s)
  PROVE  Inv'
<1> DEFINE e == [entry[s] EXCEPT !.announcement = "dispatching"]
           f == Dispatched("created", s, 0)
<1>1. TypeOK /\ entry \in [Sessions -> Entry] /\ log \in [Sessions -> Nat] /\ entry[s] \in Entry
      /\ seen \in [Observer -> [Sessions -> View]]
      /\ entry[s].at = "store" /\ entry[s].announcement = "pending"
  BY TypeParts DEF Inv, Announce, Live
<1>2. /\ stack' = Append(stack, f) /\ entry' = [entry EXCEPT ![s] = e]
      /\ UNCHANGED <<store, log, seen>> /\ Runs
  BY <1>1 DEF Announce, Dispatch
<1>3. f \in Frame /\ f.session = s
  BY DispatchedTyped
<1>4. Still(stack, s)
  BY <1>1, Undispatched
<1>5. ~entry[s].appending
  BY <1>4, StoreTyped DEF Inv, Settles, Rests, Observer
<1>6. /\ e \in Entry /\ e.at = "store" /\ e.announcement = "dispatching" /\ ~e.appending
  BY <1>1, <1>5 DEF Entry
<1>7. ASSUME NEW o \in Observer PROVE Owes(f, e, log[s], o, seen[o][s])
  <2>1. Rests(entry[s], log[s], seen[o][s])
    BY <1>4 DEF Inv, Settles
  <2>2. seen[o][s] = Unseen
    BY <1>1, <2>1 DEF Rests
  <2>3. log[s] \in Nat /\ Unseen \in View
    BY <1>1, UnseenTyped
  <2> HIDE DEF e
  <2>4. QED
    BY <1>6, <2>2, <2>3, Begun
<1>8. log' = [log EXCEPT ![s] = log[s]] /\ log[s] \in Nat
  BY <1>1, <1>2
<1> HIDE DEF e, f
<1>9. QED
  BY <1>1, <1>2, <1>3, <1>4, <1>6, <1>7, <1>8, DispatchKeeps

LEMMA AppendEventKeeps ==
  ASSUME Inv, NEW s \in Sessions, AppendEvent(s)
  PROVE  Inv'
<1> DEFINE e == [entry[s] EXCEPT !.appending = TRUE]
           f == Dispatched("event", s, log[s] + 1)
<1>1. TypeOK /\ entry \in [Sessions -> Entry] /\ log \in [Sessions -> Nat] /\ entry[s] \in Entry
      /\ entry[s].at = "store" /\ entry[s].announcement = "complete" /\ ~entry[s].appending
  BY TypeParts DEF Inv, AppendEvent, Live
<1>2. /\ stack' = Append(stack, f) /\ entry' = [entry EXCEPT ![s] = e]
      /\ log' = [log EXCEPT ![s] = log[s] + 1] /\ UNCHANGED <<store, seen>> /\ Runs
  BY <1>1 DEF AppendEvent, Dispatch
<1>3. log[s] \in Nat /\ log[s] + 1 \in Nat
  BY <1>1
<1>4. f \in Frame /\ f.session = s
  BY <1>3, DispatchedTyped
<1>5. Still(stack, s)
  BY <1>1, Undispatched
<1>6. e \in Entry /\ e.at = "store" /\ e.announcement = "complete" /\ e.appending
  BY <1>1 DEF Entry
<1>7. ASSUME NEW o \in Observer PROVE Owes(f, e, log[s] + 1, o, seen[o][s])
  <2>1. Rests(entry[s], log[s], seen[o][s])
    BY <1>5 DEF Inv, Settles
  <2>2. seen[o][s] = Told(log[s])
    BY <1>1, <2>1 DEF Rests
  <2> HIDE DEF e
  <2>3. QED
    BY <1>3, <1>6, <2>2, UnseenTyped, Begun
<1> HIDE DEF e, f
<1>8. QED
  BY <1>1, <1>2, <1>3, <1>4, <1>5, <1>6, <1>7, DispatchKeeps

\* The end of a session is told to whoever was told of its start.  Below that
\* dispatch lies none of the session.
LEMMA EndKeeps ==
  ASSUME Inv, NEW s \in Sessions, entry[s].at = "store", NEW left \in Seq(Frame),
         Sole(left), Still(left, s),
         \A k \in DOMAIN left : k \in DOMAIN stack /\ left[k] = stack[k],
         \A t \in Sessions : t # s /\ Still(left, t) => Still(stack, t),
         store' = [store EXCEPT ![IdOf[s]] = None],
         entry' = [entry EXCEPT ![s] = Unattached],
         stack' = Append(left, Dispatched("disposed", s, 0)),
         UNCHANGED <<log, seen>>, calls' \in 0..MaxCalls,
         \A o \in Observer : seen[o][s].phase \in {"unseen", "created"}
  PROVE  Inv'
<1> DEFINE f == Dispatched("disposed", s, 0)
<1>1. TypeOK /\ entry \in [Sessions -> Entry] /\ log \in [Sessions -> Nat]
      /\ seen \in [Observer -> [Sessions -> View]]
      /\ f \in Frame /\ f.session = s
  <2>1. f \in Frame /\ f.session = s
    BY DispatchedTyped
  <2>2. QED
    BY <2>1, TypeParts DEF Inv
<1> HIDE DEF f
<1>2. /\ stack' \in Seq(Frame) /\ Sole(stack')
      /\ \A k \in DOMAIN stack' :
           \/ k \in DOMAIN left /\ stack'[k] = left[k] /\ left[k].session # s
           \/ stack'[k] = f
      /\ \A t \in Sessions : Still(stack', t) => Still(left, t)
      /\ ~Still(stack', s)
  BY <1>1, Pushed DEF f
<1>3. TypeOK'
  <2>1. /\ store' \in [Ids -> {None} \cup {Holds(t) : t \in Sessions}]
        /\ \A t \in Sessions : entry'[t].at = "store" <=> store'[IdOf[t]] = Holds(t)
    BY <1>1, UnattachedTyped, LeftStore
  <2>2. entry' \in [Sessions -> Entry]
    BY <1>1, UnattachedTyped
  <2>3. QED
    BY <1>1, <1>2, <2>1, <2>2, TypeParts, PartsTyped
<1>4. ASSUME NEW k \in DOMAIN stack', NEW o \in Observer, stack'[k].session = s
      PROVE  Owes(stack'[k], entry'[s], log'[s], o, seen'[o][s])
  <2>1. entry'[s] = Unattached /\ log[s] \in Nat /\ seen[o][s] \in View
    BY <1>1
  <2>2. Owes(f, Unattached, log[s], o, seen[o][s])
    BY <2>1, UnattachedTyped, Begun DEF f
  <2>3. QED
    BY <1>2, <1>4, <2>1, <2>2
<1>5. QED
  <2>1. \A t \in Sessions : t # s => entry'[t] = entry[t] /\ log'[t] = log[t]
    BY <1>1
  <2>2. \A k \in DOMAIN stack' : stack'[k].session # s =>
          k \in DOMAIN stack /\ stack[k] = stack'[k]
    BY <1>1, <1>2
  <2>3. QED
    BY <1>2, <1>3, <1>4, <2>1, <2>2, OneSession

\* The disposer of a session that rests: nobody is told of the end of one that was
\* not announced.
LEMMA DetachKeeps ==
  ASSUME Inv, NEW s \in Sessions, Detach(s)
  PROVE  Inv'
<1>1. TypeOK /\ Sole(stack) /\ entry \in [Sessions -> Entry] /\ log \in [Sessions -> Nat]
      /\ entry[s] \in Entry /\ entry[s].at = "store" /\ stack \in Seq(Frame)
      /\ UNCHANGED <<log, seen>> /\ calls' \in 0..MaxCalls
  BY TypeParts, RunsTyped DEF Inv, Detach, Live
<1>2. CASE entry[s].announcement = "dispatching" \/ entry[s].appending
  <2> DEFINE e == [entry[s] EXCEPT !.held = FALSE, !.detachRequested = TRUE]
  <2>1. entry' = [entry EXCEPT ![s] = e] /\ UNCHANGED <<store, stack>>
    BY <1>1, <1>2 DEF Detach
  <2>2. /\ e \in Entry /\ e.at = "store" /\ e.announcement = entry[s].announcement
        /\ e.appending = entry[s].appending
    BY <1>1 DEF Entry
  <2> HIDE DEF e
  <2>3. ~Still(stack, s)
    BY <1>2, StoreTyped DEF Inv, Settles, Rests, Observer
  <2>4. TypeOK'
    <3>1. \A t \in Sessions : entry'[t].at = "store" <=> store'[IdOf[t]] = Holds(t)
      BY <1>1, <2>1, <2>2, SameStore
    <3>2. entry' \in [Sessions -> Entry]
      BY <1>1, <2>1, <2>2
    <3>3. QED
      BY <1>1, <2>1, <3>1, <3>2, TypeParts, PartsTyped
  <2>5. ASSUME NEW k \in DOMAIN stack', NEW o \in Observer, stack'[k].session = s
        PROVE  Owes(stack'[k], entry'[s], log'[s], o, seen'[o][s])
    <3>1. Owes(stack[k], entry[s], log[s], o, seen[o][s])
      BY <2>1, <2>5 DEF Inv, Publishes
    <3>2. entry'[s] = e
      BY <1>1, <2>1
    <3>3. entry[s] # Unattached
      BY <1>1, UnattachedTyped
    <3>4. QED
      BY <1>1, <2>1, <2>2, <3>1, <3>2, <3>3 DEF Owes
  <2>6. QED
    <3>1. \A t \in Sessions : t # s => entry'[t] = entry[t] /\ log'[t] = log[t]
      BY <1>1, <2>1
    <3>2. QED
      BY <1>1, <2>1, <2>3, <2>4, <2>5, <3>1, OneSession
<1>3. CASE ~(entry[s].announcement = "dispatching" \/ entry[s].appending)
  <2>1. DetachEntered(s, entry, stack)
    BY <1>3 DEF Detach
  <2>2. Still(stack, s)
    BY <1>1, <1>3, Undispatched
  <2>3. /\ store' = [store EXCEPT ![IdOf[s]] = None]
        /\ entry' = [entry EXCEPT ![s] = Unattached]
    BY <2>1 DEF DetachEntered
  <2>4. CASE entry[s].announcement = "pending"
    <3>1. stack' = stack
      BY <2>1, <2>4 DEF DetachEntered
    <3>2. TypeOK'
      <4>1. /\ store' \in [Ids -> {None} \cup {Holds(t) : t \in Sessions}]
            /\ \A t \in Sessions : entry'[t].at = "store" <=> store'[IdOf[t]] = Holds(t)
        BY <1>1, <2>3, UnattachedTyped, LeftStore
      <4>2. entry' \in [Sessions -> Entry]
        BY <1>1, <2>3, UnattachedTyped
      <4>3. QED
        BY <1>1, <3>1, <4>1, <4>2, TypeParts, PartsTyped
    <3>3. \A o \in Observer : Rests(entry'[s], log'[s], seen'[o][s])
      <4>1. TAKE o \in Observer
      <4>2. Rests(entry[s], log[s], seen[o][s])
        BY <2>2 DEF Inv, Settles
      <4>3. seen[o][s] = Unseen
        BY <1>1, <2>4, <4>2 DEF Rests
      <4>4. entry'[s] = Unattached
        BY <1>1, <2>3
      <4>5. QED
        BY <1>1, <4>3, <4>4, UnattachedTyped DEF Rests, Unseen
    <3>4. QED
      <4>1. \A k \in DOMAIN stack' : stack'[k].session # s
        BY <2>2, <3>1 DEF Still
      <4>2. \A t \in Sessions : t # s => entry'[t] = entry[t] /\ log'[t] = log[t]
        BY <1>1, <2>3
      <4>3. QED
        BY <1>1, <3>1, <3>2, <3>3, <4>1, <4>2, OneSession
  <2>5. CASE entry[s].announcement # "pending"
    <3>1. stack' = Append(stack, Dispatched("disposed", s, 0))
      BY <2>1, <2>5 DEF DetachEntered
    <3>2. \A o \in Observer : seen[o][s].phase \in {"unseen", "created"}
      <4>1. TAKE o \in Observer
      <4>2. Rests(entry[s], log[s], seen[o][s])
        BY <2>2 DEF Inv, Settles
      <4>3. QED
        BY <1>1, <2>5, <4>2 DEF Rests, Told
    <3>3. QED
      BY <1>1, <2>2, <2>3, <3>1, <3>2, EndKeeps
  <2>6. QED
    BY <2>4, <2>5
<1>4. QED
  BY <1>2, <1>3

-----------------------------------------------------------------------------
(* The dispatches.                                                         *)

\* The dispatch on top has its session.
LEMMA TopOwes ==
  ASSUME Inv, stack # <<>>
  PROVE  /\ Top \in Frame /\ Top.session \in Sessions
         /\ \A o \in Observer :
              Owes(Top, entry[Top.session], log[Top.session], o, seen[o][Top.session])
<1>1. stack \in Seq(Frame) /\ Len(stack) \in DOMAIN stack /\ stack[Len(stack)] \in Frame
  BY TopProperties DEF Inv, TypeOK
<1>2. \A o \in Observer :
        Owes(stack[Len(stack)], entry[stack[Len(stack)].session],
             log[stack[Len(stack)].session], o, seen[o][stack[Len(stack)].session])
  BY <1>1 DEF Inv, Publishes
<1>3. QED
  BY <1>1, <1>2 DEF Top, Frame

\* The dispatch on top goes on: a notification more, or an observer that returned.
LEMMA GoesOn ==
  ASSUME Inv, stack # <<>>, NEW f \in Frame, f.session = Top.session,
         stack' = [stack EXCEPT ![Len(stack)] = f], UNCHANGED <<store, entry, log, calls>>,
         seen' \in [Observer -> [Sessions -> View]],
         \A o \in Observer, t \in Sessions : t # Top.session => seen'[o][t] = seen[o][t],
         \A o \in Observer :
           Owes(f, entry[Top.session], log[Top.session], o, seen'[o][Top.session])
  PROVE  Inv'
<1> DEFINE s == Top.session
<1>1. stack \in Seq(Frame) /\ TypeOK /\ Sole(stack) /\ s \in Sessions
  BY TypeParts, TopOwes DEF Inv
<1>2. /\ stack' \in Seq(Frame) /\ Sole(stack')
      /\ \A k \in DOMAIN stack' :
           \/ k \in DOMAIN stack /\ stack'[k] = stack[k] /\ stack[k].session # s
           \/ stack'[k] = f
      /\ \A t \in Sessions : Still(stack', t) => Still(stack, t)
      /\ ~Still(stack', s)
  <2> DEFINE w == [stack EXCEPT ![Len(stack)] = f]
  <2>1. f.session = stack[Len(stack)].session /\ f.session = s
    BY DEF Top
  <2>2. /\ w \in Seq(Frame) /\ Sole(w)
        /\ \A k \in DOMAIN w :
             \/ k \in DOMAIN stack /\ w[k] = stack[k] /\ stack[k].session # f.session
             \/ w[k] = f
        /\ \A t : Still(w, t) => Still(stack, t)
        /\ ~Still(w, f.session)
    BY <1>1, <2>1, Replaced
  <2>3. stack' = w
    OBVIOUS
  <2> HIDE DEF w, s
  <2>4. QED
    BY <2>1, <2>2, <2>3
<1>3. TypeOK'
  <2>1. /\ store' \in [Ids -> {None} \cup {Holds(t) : t \in Sessions}]
        /\ entry' \in [Sessions -> Entry] /\ log' \in [Sessions -> Nat] /\ calls' \in 0..MaxCalls
        /\ \A t \in Sessions : entry'[t].at = "store" <=> store'[IdOf[t]] = Holds(t)
    BY <1>1, TypeParts
  <2>2. QED
    BY <1>2, <2>1, PartsTyped
<1> HIDE DEF s
<1>4. ASSUME NEW k \in DOMAIN stack', NEW o \in Observer, stack'[k].session = s
      PROVE  Owes(stack'[k], entry'[s], log'[s], o, seen'[o][s])
  BY <1>2, <1>4 DEF s
<1>5. f.session = s /\ \A o \in Observer, t \in Sessions : t # s => seen'[o][t] = seen[o][t]
  BY DEF s
<1>6. QED
  <2>1. \A k \in DOMAIN stack' : stack'[k].session # s =>
          k \in DOMAIN stack /\ stack[k] = stack'[k]
    BY <1>2, <1>5
  <2>2. QED
    BY <1>1, <1>2, <1>3, <1>4, <1>5, <2>1, OneSession

LEMMA TellKeeps ==
  ASSUME Inv, Tell
  PROVE  Inv'
<1> DEFINE s == Top.session
           f == [Top EXCEPT !.told = @ + 1, !.inside = TRUE]
<1>1. /\ stack # <<>> /\ Top.told < Observers
      /\ seen' = [seen EXCEPT ![Top.told + 1][s] = Observed(@, Top)]
      /\ UNCHANGED <<store, entry, log, calls>>
  BY DEF Tell
<1>2. /\ stack \in Seq(Frame) /\ entry \in [Sessions -> Entry] /\ log \in [Sessions -> Nat]
      /\ seen \in [Observer -> [Sessions -> View]]
  BY TypeParts DEF Inv
<1>3. /\ Top \in Frame /\ s \in Sessions
      /\ \A o \in Observer : Owes(Top, entry[s], log[s], o, seen[o][s])
  BY <1>1, TopOwes
<1>4. Top.told + 1 \in Observer /\ Top.told + 1 \in 0..Observers
  BY <1>1, <1>3, StoreTyped DEF Observer, Frame
<1>5. /\ f \in Frame /\ f.kind = Top.kind /\ f.session = s /\ f.event = Top.event
      /\ f.told = Top.told + 1
  BY <1>3, <1>4 DEF Frame
<1>6. stack' = [stack EXCEPT ![Len(stack)] = f]
  <2>1. Len(stack) \in DOMAIN stack
    BY <1>1, <1>2, TopProperties
  <2>2. stack' = [stack EXCEPT ![Len(stack)].told = @ + 1, ![Len(stack)].inside = TRUE]
    BY DEF Tell
  <2>3. QED
    BY <2>1, <2>2 DEF Top
<1> HIDE DEF f, s
<1>7. ASSUME NEW o \in Observer
      PROVE  /\ seen'[o][s] \in View /\ Owes(f, entry[s], log[s], o, seen'[o][s])
             /\ \A t \in Sessions : t # s => seen'[o][t] = seen[o][t]
  <2>1. seen[o][s] \in View /\ entry[s] \in Entry /\ log[s] \in Nat /\ s = Top.session
    BY <1>2, <1>3 DEF s
  <2>2. /\ o = Top.told + 1 => Observed(seen[o][s], Top) \in View
                               /\ Owes(f, entry[s], log[s], o, Observed(seen[o][s], Top))
        /\ o # Top.told + 1 => Owes(f, entry[s], log[s], o, seen[o][s])
    BY <1>3, <1>5, <2>1, Notified
  <2>3. /\ o = Top.told + 1 => seen'[o][s] = Observed(seen[o][s], Top)
        /\ o # Top.told + 1 => seen'[o][s] = seen[o][s]
        /\ \A t \in Sessions : t # s => seen'[o][t] = seen[o][t]
    BY <1>1, <1>2, <1>3, <1>4 DEF s
  <2>4. QED
    BY <2>1, <2>2, <2>3
<1>8. seen' \in [Observer -> [Sessions -> View]]
  <2>1. \A o \in Observer, t \in Sessions : seen'[o][t] \in View
    BY <1>2, <1>7
  <2>2. seen' = [o \in Observer |-> [t \in Sessions |-> seen'[o][t]]]
    BY <1>1, <1>2
  <2>3. QED
    BY <2>1, <2>2
<1>9. QED
  BY <1>1, <1>5, <1>6, <1>7, <1>8, GoesOn DEF s

LEMMA ReturnsKeeps ==
  ASSUME Inv, Returns
  PROVE  Inv'
<1> DEFINE f == [Top EXCEPT !.inside = FALSE]
<1>1. stack # <<>> /\ UNCHANGED <<store, entry, log, seen, calls>>
  BY DEF Returns
<1>2. /\ Top \in Frame
      /\ \A o \in Observer :
           Owes(Top, entry[Top.session], log[Top.session], o, seen[o][Top.session])
  BY <1>1, TopOwes
<1>3. /\ f \in Frame /\ f.kind = Top.kind /\ f.session = Top.session /\ f.event = Top.event
      /\ f.told = Top.told
  BY <1>2 DEF Frame
<1>4. stack' = [stack EXCEPT ![Len(stack)] = f]
  BY DEF Returns, Top
<1> HIDE DEF f
<1>5. \A o \in Observer :
        Owes(f, entry[Top.session], log[Top.session], o, seen[o][Top.session])
  BY <1>2, <1>3 DEF Owes
<1>6. seen' \in [Observer -> [Sessions -> View]]
  BY <1>1, TypeParts DEF Inv
<1>7. QED
  BY <1>1, <1>3, <1>4, <1>5, <1>6, GoesOn

\* A dispatch that ends: the session rests, or its end follows.
LEMMA LeaveKeeps ==
  ASSUME Inv, stack # <<>>, NEW s \in Sessions, s = Top.session, entry[s].at = "store",
         NEW e \in Entry, e.at = "store", ~e.appending,
         \/ /\ e.announcement = "complete"
            /\ \A o \in Observer : seen[o][s] = Told(log[s])
         \/ /\ e.announcement = "failed"
            /\ \A o \in Observer : seen[o][s].phase \in {"unseen", "created"},
         Leave(s, [entry EXCEPT ![s] = e]), UNCHANGED <<log, seen, calls>>
  PROVE  Inv'
<1>1. /\ TypeOK /\ Sole(stack) /\ stack \in Seq(Frame) /\ entry \in [Sessions -> Entry]
      /\ calls \in 0..MaxCalls
  BY TypeParts DEF Inv
<1>2. /\ Below \in Seq(Frame) /\ Sole(Below)
      /\ \A k \in DOMAIN Below : k \in DOMAIN stack /\ Below[k] = stack[k]
                                 /\ Below[k].session # s
      /\ \A t : Still(Below, t) => Still(stack, t) \/ t = s
      /\ Still(Below, s)
  BY <1>1, Popped DEF Below, Top
<1>3. [entry EXCEPT ![s] = e][s] = e
  BY <1>1
<1>4. CASE e.detachRequested
  <2>1. DetachEntered(s, [entry EXCEPT ![s] = e], Below)
    BY <1>3, <1>4 DEF Leave
  <2>2. e.announcement # "pending"
    OBVIOUS
  <2>3. /\ store' = [store EXCEPT ![IdOf[s]] = None]
        /\ entry' = [[entry EXCEPT ![s] = e] EXCEPT ![s] = Unattached]
        /\ stack' = Append(Below, Dispatched("disposed", s, 0))
    BY <1>3, <2>1, <2>2 DEF DetachEntered
  <2>4. entry' = [entry EXCEPT ![s] = Unattached]
    BY <1>1, <2>3
  <2>5. \A o \in Observer : seen[o][s].phase \in {"unseen", "created"}
    BY DEF Told
  <2>6. calls' \in 0..MaxCalls
    BY <1>1
  <2>7. QED
    BY <1>2, <2>3, <2>4, <2>5, <2>6, EndKeeps
<1>5. CASE ~e.detachRequested
  <2>1. entry' = [entry EXCEPT ![s] = e] /\ stack' = Below /\ UNCHANGED store
    BY <1>3, <1>5 DEF Leave
  <2>2. TypeOK'
    <3>1. \A t \in Sessions : entry'[t].at = "store" <=> store'[IdOf[t]] = Holds(t)
      BY <1>1, <2>1, SameStore
    <3>2. entry' \in [Sessions -> Entry]
      BY <1>1, <2>1
    <3>3. QED
      BY <1>1, <1>2, <2>1, <3>1, <3>2, TypeParts, PartsTyped
  <2>3. \A o \in Observer : Rests(entry'[s], log'[s], seen'[o][s])
    <3>1. entry'[s] = e
      BY <1>1, <2>1
    <3>2. QED
      BY <1>5, <3>1 DEF Rests
  <2>4. QED
    <3>1. \A t \in Sessions : t # s => entry'[t] = entry[t] /\ log'[t] = log[t]
      BY <1>1, <2>1
    <3>2. \A k \in DOMAIN stack' : k \in DOMAIN stack /\ stack'[k] = stack[k]
                                   /\ stack'[k].session # s
      BY <1>2, <2>1
    <3>3. \A t \in Sessions : t # s /\ Still(stack', t) => Still(stack, t)
      BY <1>2, <2>1
    <3>4. Sole(stack')
      BY <1>2, <2>1
    <3>5. QED
      BY <2>2, <2>3, <3>1, <3>2, <3>3, <3>4, OneSession
<1>6. QED
  BY <1>4, <1>5

\* Some observers were told of a session whose start was vetoed, and some were not.
LEMMA VetoesKeeps ==
  ASSUME Inv, Vetoes
  PROVE  Inv'
<1> DEFINE s == Top.session
           e == [entry[s] EXCEPT !.announcement = "failed"]
<1>1. /\ stack # <<>> /\ Top.kind = "created" /\ UNCHANGED <<log, seen, calls>>
      /\ Leave(s, [entry EXCEPT ![s].announcement = "failed"])
  BY DEF Vetoes
<1>2. /\ entry \in [Sessions -> Entry] /\ s \in Sessions
      /\ \A o \in Observer : Owes(Top, entry[s], log[s], o, seen[o][s])
  BY <1>1, TypeParts, TopOwes DEF Inv
<1>3. entry[s].at = "store" /\ ~entry[s].appending
  BY <1>1, <1>2, StoreTyped DEF Owes, Observer
<1>4. \A o \in Observer : seen[o][s].phase \in {"unseen", "created"}
  BY <1>1, <1>2 DEF Owes, Told, Unseen
<1>5. e \in Entry /\ e.at = "store" /\ ~e.appending /\ e.announcement = "failed"
  BY <1>2, <1>3 DEF Entry
<1>6. [entry EXCEPT ![s].announcement = "failed"] = [entry EXCEPT ![s] = e]
  BY <1>2
<1>7. Leave(s, [entry EXCEPT ![s] = e])
  BY <1>1, <1>6
<1> HIDE DEF e
<1>8. QED
  BY <1>1, <1>2, <1>3, <1>4, <1>5, <1>7, LeaveKeeps

\* Behind its last notification a dispatch owes nobody anything.
LEMMA CompletesKeeps ==
  ASSUME Inv, Completes
  PROVE  Inv'
<1> DEFINE s == Top.session
<1>1. stack # <<>> /\ Top.told = Observers /\ UNCHANGED <<log, seen, calls>>
  BY DEF Completes
<1>2. /\ TypeOK /\ Sole(stack) /\ stack \in Seq(Frame) /\ entry \in [Sessions -> Entry]
      /\ s \in Sessions /\ Top \in Frame
      /\ \A o \in Observer : Owes(Top, entry[s], log[s], o, seen[o][s])
  BY <1>1, TypeParts, TopOwes DEF Inv
<1>3. \A o \in Observer : o <= Top.told
  BY <1>1, StoreTyped DEF Observer
<1>4. 1 \in Observer
  BY StoreTyped DEF Observer
<1>5. CASE Top.kind = "created"
  <2> DEFINE e == [entry[s] EXCEPT !.announcement = "complete"]
  <2>1. Leave(s, [entry EXCEPT ![s].announcement = "complete"])
    BY <1>5 DEF Completes
  <2>2. entry[s].at = "store" /\ ~entry[s].appending
    BY <1>2, <1>4, <1>5 DEF Owes
  <2>3. \A o \in Observer : seen[o][s] = Told(log[s])
    BY <1>2, <1>3, <1>5 DEF Owes
  <2>4. e \in Entry /\ e.at = "store" /\ ~e.appending /\ e.announcement = "complete"
    BY <1>2, <2>2 DEF Entry
  <2>5. Leave(s, [entry EXCEPT ![s] = e])
    BY <1>2, <2>1
  <2> HIDE DEF e
  <2>6. QED
    BY <1>1, <1>2, <2>2, <2>3, <2>4, <2>5, LeaveKeeps
<1>6. CASE Top.kind = "event"
  <2> DEFINE e == [entry[s] EXCEPT !.appending = FALSE]
  <2>1. Leave(s, [entry EXCEPT ![s].appending = FALSE])
    BY <1>6 DEF Completes
  <2>2. entry[s].at = "store" /\ entry[s].announcement = "complete"
    BY <1>2, <1>4, <1>6 DEF Owes
  <2>3. \A o \in Observer : seen[o][s] = Told(log[s])
    BY <1>2, <1>3, <1>6 DEF Owes
  <2>4. e \in Entry /\ e.at = "store" /\ ~e.appending /\ e.announcement = "complete"
    BY <1>2, <2>2 DEF Entry
  <2>5. Leave(s, [entry EXCEPT ![s] = e])
    BY <1>2, <2>1
  <2> HIDE DEF e
  <2>6. QED
    BY <1>1, <1>2, <2>2, <2>3, <2>4, <2>5, LeaveKeeps
<1>7. CASE Top.kind = "disposed"
  <2>1. stack' = Below /\ UNCHANGED <<store, entry>>
    BY <1>7 DEF Completes
  <2>2. entry[s] = Unattached /\ \A o \in Observer : seen[o][s].phase = "disposed"
    BY <1>2, <1>3, <1>4, <1>7 DEF Owes
  <2>3. /\ stack' \in Seq(Frame) /\ Sole(stack')
        /\ \A k \in DOMAIN stack' : k \in DOMAIN stack /\ stack'[k] = stack[k]
                                    /\ stack'[k].session # s
        /\ \A t \in Sessions : t # s /\ Still(stack', t) => Still(stack, t)
    BY <1>1, <1>2, <2>1, Popped DEF Below, Top
  <2>4. TypeOK'
    BY <1>1, <1>2, <2>1, <2>3, TypeParts, PartsTyped
  <2>5. \A o \in Observer : Rests(entry'[s], log'[s], seen'[o][s])
    BY <1>1, <2>1, <2>2, UnattachedTyped DEF Rests
  <2> HIDE DEF s
  <2>6. QED
    BY <1>1, <1>2, <2>1, <2>3, <2>4, <2>5, OneSession
<1>8. QED
  BY <1>2, <1>5, <1>6, <1>7 DEF Frame

-----------------------------------------------------------------------------
(* The theorems.                                                           *)

LEMMA InvNext == Inv /\ [Next]_vars => Inv'
<1>1. SUFFICES ASSUME Inv, [Next]_vars PROVE Inv'
  OBVIOUS
<1>2. CASE UNCHANGED vars
  <2>1. UNCHANGED <<store, entry, log, stack, seen, calls>>
    BY <1>2 DEF vars
  <2>2. TypeOK' /\ Publishes' /\ Settles' /\ Sole(stack')
    BY <1>1, <2>1 DEF Inv, TypeOK, Live, Publishes, Settles
  <2>3. QED
    BY <2>2 DEF Inv
<1>3. CASE Calls
  BY <1>1, <1>3, PrepareKeeps, EnterKeeps, AnnounceKeeps, AppendEventKeeps, DetachKeeps
     DEF Calls
<1>4. CASE Dispatches
  BY <1>1, <1>4, TellKeeps, ReturnsKeeps, VetoesKeeps, CompletesKeeps DEF Dispatches
<1>5. QED
  BY <1>1, <1>2, <1>3, <1>4 DEF Next

\* What holds of every session at rest is what ObserversAgree asks for, and no
\* notification that is owed is torn.
LEMMA InvAgrees == Inv => ObserversAgree
<1>1. SUFFICES ASSUME Inv, NEW o \in Observer, NEW s \in Sessions
               PROVE  /\ seen[o][s].phase # "torn"
                      /\ Quiet(s) /\ Live(s) /\ entry[s].announcement = "complete" =>
                           seen[o][s] = [phase |-> "created", last |-> log[s]]
                      /\ Quiet(s) /\ ~Live(s) => seen[o][s].phase # "created"
  BY DEF Inv, ObserversAgree
<1>2. CASE Still(stack, s)
  <2>1. Rests(entry[s], log[s], seen[o][s])
    BY <1>1, <1>2 DEF Inv, Settles
  <2>2. QED
    BY <2>1 DEF Rests, Live, Told, Unseen
<1>3. CASE ~Still(stack, s)
  <2>1. PICK k \in DOMAIN stack : stack[k].session = s
    BY <1>3 DEF Still
  <2>2. Owes(stack[k], entry[s], log[s], o, seen[o][s])
    BY <1>1, <2>1 DEF Inv, Publishes
  <2>3. seen[o][s].phase # "torn"
    BY <2>2 DEF Owes, Told, Unseen
  <2>4. QED
    BY <1>3, <2>3, QuietIsStill
<1>4. QED
  BY <1>2, <1>3

\* Whatever the observers call, from inside whatever notification: each is told of a
\* session's start, of its events once and in order, of its end, and of nothing
\* behind it; and between dispatches all of them know what the store holds.
THEOREM StoreObserversAgree == Spec => []ObserversAgree
<1>1. Spec => []Inv
  BY InitInv, InvNext, PTL DEF Spec
<1>2. QED
  BY <1>1, InvAgrees, PTL
=============================================================================
