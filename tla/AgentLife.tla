------------------------------ MODULE AgentLife ------------------------------
(***************************************************************************)
(* What the rest of the harness relies on when agents of one session come  *)
(* and go: in one process at most one of them is registered, it was        *)
(* registered while its own write claim stood, first as a session and then *)
(* as an agent, and it leaves both registries in one step behind the       *)
(* release of that claim.  Between processes one lock is held, by an       *)
(* attempt whose claim stands, or that took it behind its claim and then   *)
(* keeps it until its process dies.  AgentLifecycle implements it.         *)
(***************************************************************************)
CONSTANTS Attempts, Processes, Nobody

VARIABLES
  home,      \* the process of each attempt
  writer,    \* per process: the attempt that holds the write claim
  shown,     \* per process: the registered attempt, and as what
  lock       \* the holder of the kernel lock

Hidden == [by |-> Nobody, as |-> "none"]

Init ==
  /\ home \in [Attempts -> Processes]
  /\ writer = [p \in Processes |-> Nobody] /\ lock = Nobody
  /\ shown = [p \in Processes |-> Hidden]

Claim(p, a) ==
  /\ home[a] = p /\ writer[p] = Nobody
  /\ writer' = [writer EXCEPT ![p] = a] /\ UNCHANGED <<shown, lock>>

Lock(p) == lock = Nobody /\ writer[p] # Nobody /\ lock' = writer[p] /\ UNCHANGED <<writer, shown>>

\* The timer of a closed handle takes the lock; nobody gives it back.
Seize(a) == lock = Nobody /\ writer[home[a]] # a /\ lock' = a /\ UNCHANGED <<writer, shown>>

\* The claim goes, and a lock that was taken under it goes with it.
Yield(p) ==
  /\ writer[p] # Nobody /\ writer' = [writer EXCEPT ![p] = Nobody]
  /\ lock' = (IF lock = writer[p] THEN Nobody ELSE lock) /\ UNCHANGED shown

Appear(p) ==
  /\ shown[p] = Hidden /\ writer[p] # Nobody
  /\ shown' = [shown EXCEPT ![p] = [by |-> writer[p], as |-> "session"]]
  /\ UNCHANGED <<writer, lock>>
Introduce(p) ==
  /\ shown[p].as = "session" /\ writer[p] = shown[p].by
  /\ shown' = [shown EXCEPT ![p].as = "agent"] /\ UNCHANGED <<writer, lock>>
Withdraw(p) ==
  /\ shown[p] # Hidden /\ writer[p] # shown[p].by
  /\ shown' = [shown EXCEPT ![p] = Hidden] /\ UNCHANGED <<writer, lock>>

Crash(p) ==
  /\ writer' = [writer EXCEPT ![p] = Nobody] /\ shown' = [shown EXCEPT ![p] = Hidden]
  /\ lock' = IF lock # Nobody /\ home[lock] = p THEN Nobody ELSE lock

Next == UNCHANGED home /\ \E p \in Processes :
  \/ \E a \in Attempts : Claim(p, a) \/ Seize(a)
  \/ Lock(p) \/ Yield(p)
  \/ Appear(p) \/ Introduce(p) \/ Withdraw(p) \/ Crash(p)

Spec == Init /\ [][Next]_<<home, writer, shown, lock>>
=============================================================================
