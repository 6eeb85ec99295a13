---------------------------- MODULE AtomicRegister ----------------------------
(***************************************************************************)
(* What a DoubleBuffer promises: a linearizable register.  The i-th value  *)
(* ever set is represented by i.  A Set takes effect at one moment between *)
(* its call and its return, and a Get answers with the value of one moment *)
(* between its call and its return; it may look more than once.            *)
(***************************************************************************)
EXTENDS Naturals

CONSTANTS Readers, Setters

VARIABLES cell,     \* the number of the current value
          writing,  \* per setter: "idle", "pending" (called), "done" (took effect)
          getting,  \* per reader: whether a Get is under way
          sample,   \* per reader: the value it last looked at in this call, 0 for none
          answer    \* per reader: what its latest Get answered

vars == <<cell, writing, getting, sample, answer>>

Init ==
  /\ cell = 1
  /\ writing = [s \in Setters |-> "idle"]
  /\ getting = [r \in Readers |-> FALSE]
  /\ sample = [r \in Readers |-> 0]
  /\ answer = [r \in Readers |-> 0]

CallSet(s) ==
  /\ writing[s] = "idle"
  /\ writing' = [writing EXCEPT ![s] = "pending"]
  /\ UNCHANGED <<cell, getting, sample, answer>>

TakeEffect(s) ==
  /\ writing[s] = "pending"
  /\ cell' = cell + 1
  /\ writing' = [writing EXCEPT ![s] = "done"]
  /\ UNCHANGED <<getting, sample, answer>>

ReturnFromSet(s) ==
  /\ writing[s] = "done"
  /\ writing' = [writing EXCEPT ![s] = "idle"]
  /\ UNCHANGED <<cell, getting, sample, answer>>

CallGet(r) ==
  /\ ~getting[r]
  /\ getting' = [getting EXCEPT ![r] = TRUE]
  /\ sample' = [sample EXCEPT ![r] = 0]
  /\ UNCHANGED <<cell, writing, answer>>

Look(r) ==
  /\ getting[r]
  /\ sample' = [sample EXCEPT ![r] = cell]
  /\ UNCHANGED <<cell, writing, getting, answer>>

ReturnFromGet(r) ==
  /\ getting[r]
  /\ sample[r] # 0
  /\ answer' = [answer EXCEPT ![r] = sample[r]]
  /\ getting' = [getting EXCEPT ![r] = FALSE]
  /\ UNCHANGED <<cell, writing, sample>>

Next ==
  \/ \E s \in Setters : CallSet(s) \/ TakeEffect(s) \/ ReturnFromSet(s)
  \/ \E r \in Readers : CallGet(r) \/ Look(r) \/ ReturnFromGet(r)

Spec == Init /\ [][Next]_vars
===============================================================================
