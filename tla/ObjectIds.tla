----------------------------- MODULE ObjectIds -----------------------------
(***************************************************************************)
(* The ids of netw/socket.cpp: one static counter, `sequence', that every   *)
(* constructor of a Writer_, a UDP_ or an Acceptor_ increments under        *)
(* sequence_lck.  A UDP_ and a Monitor_ draw twice: Writer_::Writer_ sets   *)
(* Writer_::Id_, then UDP_::UDP_ sets the Id_ that UDP_::Id() returns.      *)
(***************************************************************************)
EXTENDS Naturals, Sequences

CONSTANTS
  Threads,  \* the threads that make objects
  None,     \* nobody holds the lock
  MaxIds    \* bound: ids drawn, far below 2^64

ASSUME IdsAssumption == None \notin Threads /\ MaxIds \in Nat

VARIABLES
  sequence,  \* the counter
  lck,       \* who holds sequence_lck
  pc,        \* per thread: "out", "lock", "load", "store", "unlock"
  reg,       \* per thread: the value `sequence++' has read
  left,      \* per thread: ids the object under construction still draws
  given      \* history: every value given to an Id_, with the thread

vars == <<sequence, lck, pc, reg, left, given>>

Init ==
  /\ sequence = 0
  /\ lck = None
  /\ pc = [t \in Threads |-> "out"]
  /\ reg = [t \in Threads |-> 0]
  /\ left = [t \in Threads |-> 0]
  /\ given = <<>>

Go(t, from, to) == pc[t] = from /\ pc' = [pc EXCEPT ![t] = to]

\* Mutant: Monitor_::Monitor_, like its base classes, draws an id of its own.
ConstructThrice(t) ==
  /\ Go(t, "out", "lock")
  /\ Len(given) < MaxIds
  /\ \E draws \in {1, 2, 3} : left' = [left EXCEPT ![t] = draws]
  /\ UNCHANGED <<sequence, lck, reg, given>>

\* A thread makes a TCP_, a Connector_ or an Acceptor_ (one id), or a UDP_ or a
\* Monitor_ (two).
Construct(t) ==
  /\ Go(t, "out", "lock")
  /\ Len(given) < MaxIds
  /\ \E draws \in {1, 2} : left' = [left EXCEPT ![t] = draws]
  /\ UNCHANGED <<sequence, lck, reg, given>>

\* Mutant: the counter is not locked.
LockNothing(t) ==
  /\ Go(t, "lock", "load")
  /\ UNCHANGED <<sequence, lck, reg, left, given>>

Lock(t) ==
  /\ Go(t, "lock", "load")
  /\ lck = None
  /\ lck' = t
  /\ UNCHANGED <<sequence, reg, left, given>>

\* Id_ = sequence++;
Load(t) ==
  /\ Go(t, "load", "store")
  /\ reg' = [reg EXCEPT ![t] = sequence]
  /\ UNCHANGED <<sequence, lck, left, given>>

Store(t) ==
  /\ Go(t, "store", "unlock")
  /\ sequence' = reg[t] + 1
  /\ given' = Append(given, [by |-> t, id |-> reg[t]])
  /\ left' = [left EXCEPT ![t] = @ - 1]
  /\ UNCHANGED <<lck, reg>>

\* Mutant: an exit of the constructor that keeps the lock.
UnlockForgotten(t) ==
  /\ Go(t, "unlock", IF left[t] = 0 THEN "out" ELSE "lock")
  /\ UNCHANGED <<sequence, lck, reg, left, given>>

Unlock(t) ==
  /\ Go(t, "unlock", IF left[t] = 0 THEN "out" ELSE "lock")
  /\ lck' = None
  /\ UNCHANGED <<sequence, reg, left, given>>

Step(t) == Lock(t) \/ Load(t) \/ Store(t) \/ Unlock(t)
Next == \E t \in Threads : Construct(t) \/ Step(t)

Spec == Init /\ [][Next]_vars

\* A thread that can go on does; the lock, of which nothing says it is fair, is
\* given to somebody who waits.
FairSpec == Spec /\ \A t \in Threads : WF_vars(Step(t))

-----------------------------------------------------------------------------
TypeOK ==
  /\ sequence \in Nat
  /\ lck \in Threads \cup {None}
  /\ pc \in [Threads -> {"out", "lock", "load", "store", "unlock"}]
  /\ reg \in [Threads -> Nat]
  /\ left \in [Threads -> 0..2]
  /\ given \in Seq([by : Threads, id : Nat])

\* No two objects, of whatever class and thread, have the same id.
UniqueIds ==
  \A i, j \in DOMAIN given : given[i].id = given[j].id => i = j

Atomic == INSTANCE AtomicIds

\* The load and the store of `sequence++', between taking and giving back the lock,
\* are one step for everybody else, and no number is skipped.
AtomicSpec == Atomic!Spec

\* Every constructor returns: the lock is given back.
Constructed == \A t \in Threads : (pc[t] # "out") ~> (pc[t] = "out")
=============================================================================
