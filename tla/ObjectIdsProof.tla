--------------------------- MODULE ObjectIdsProof ---------------------------
(***************************************************************************)
(* Proofs about ObjectIds, for any number of threads and of ids.            *)
(***************************************************************************)
EXTENDS ObjectIds, SequenceTheorems, TLAPS

\* Between Lock and Unlock a thread is alone.
Alone == \A t \in Threads : pc[t] \in {"load", "store", "unlock"} => lck = t

\* A constructor under way has ids left to draw.
Drawing == \A t \in Threads : pc[t] \in {"lock", "load", "store"} => left[t] \in 1..2

\* The k-th id given is k - 1, and the counter is the number of ids given.
Dense ==
  /\ Len(given) = sequence
  /\ \A k \in 1..Len(given) : given[k].id = k - 1
  /\ \A t \in Threads : pc[t] = "store" => reg[t] = sequence

IdsInv == TypeOK /\ Alone /\ Drawing /\ Dense

LEMMA GivenFacts ==
  ASSUME TypeOK
  PROVE  Len(given) \in Nat /\ DOMAIN given = 1..Len(given)
<1> DEFINE S == [by : Threads, id : Nat]
<1>1. given \in Seq(S)
  BY DEF TypeOK
<1> HIDE DEF S
<1> QED BY <1>1, LenProperties

LEMMA IdsInit == Init => IdsInv
<1> SUFFICES ASSUME Init PROVE IdsInv
  OBVIOUS
<1>1. given \in Seq([by : Threads, id : Nat]) /\ Len(given) = 0
  BY EmptySeq DEF Init
<1> QED BY <1>1 DEF Init, IdsInv, TypeOK, Alone, Drawing, Dense

LEMMA StoreInv ==
  ASSUME IdsInv, NEW t \in Threads, Store(t)
  PROVE  IdsInv'
<1> USE DEF IdsInv
<1> DEFINE S == [by : Threads, id : Nat]
           e == [by |-> t, id |-> reg[t]]
<1>1. /\ pc[t] = "store" /\ pc' = [pc EXCEPT ![t] = "unlock"]
      /\ sequence' = reg[t] + 1 /\ given' = Append(given, e)
      /\ left' = [left EXCEPT ![t] = left[t] - 1] /\ UNCHANGED <<lck, reg>>
  BY DEF Store, Go
<1>2. /\ reg[t] = sequence /\ sequence \in Nat /\ lck = t /\ left[t] \in 1..2
      /\ Len(given) = sequence
  BY <1>1 DEF Dense, Alone, Drawing, TypeOK
<1>3. given \in Seq(S) /\ e \in S /\ e.id = sequence
  BY <1>2 DEF TypeOK
<1> HIDE DEF S, e
<1>4. /\ given' \in Seq(S) /\ Len(given') = sequence + 1
      /\ \A k \in 1..sequence : given'[k] = given[k]
      /\ given'[sequence + 1] = e
  BY <1>1, <1>2, <1>3, AppendProperties
<1>5. TypeOK'
  <2>1. given' \in Seq([by : Threads, id : Nat])
    BY <1>4 DEF S
  <2>2. /\ pc' \in [Threads -> {"out", "lock", "load", "store", "unlock"}]
        /\ left' \in [Threads -> 0..2] /\ sequence' \in Nat
    BY <1>1, <1>2 DEF TypeOK
  <2> QED BY <1>1, <2>1, <2>2 DEF TypeOK
<1>6. \A u \in Threads : u # t => pc'[u] = pc[u] /\ left'[u] = left[u]
  BY <1>1 DEF TypeOK
<1>7. pc'[t] = "unlock"
  BY <1>1 DEF TypeOK
<1>8. Alone' /\ Drawing'
  BY <1>1, <1>2, <1>6, <1>7 DEF Alone, Drawing
<1>9. Dense'
  <2>1. sequence' = sequence + 1
    BY <1>1, <1>2
  <2>2. \A k \in 1..Len(given') : given'[k].id = k - 1
    <3>1. \A k \in 1..(sequence + 1) : k \in 1..sequence \/ k = sequence + 1
      BY <1>2
    <3> QED BY <1>2, <1>3, <1>4, <3>1 DEF Dense
  <2>3. \A u \in Threads : pc'[u] # "store"
    BY <1>1, <1>2, <1>6, <1>7 DEF Alone
  <2> QED BY <1>4, <2>1, <2>2, <2>3 DEF Dense
<1> QED BY <1>5, <1>8, <1>9

LEMMA IdsStep == IdsInv /\ [Next]_vars => IdsInv'
<1> SUFFICES ASSUME IdsInv, [Next]_vars PROVE IdsInv'
  OBVIOUS
<1> USE DEF IdsInv, TypeOK, Alone, Drawing, Dense, Go
<1>1. ASSUME NEW t \in Threads, Construct(t) PROVE IdsInv'
  BY <1>1 DEF Construct
<1>2. ASSUME NEW t \in Threads, Lock(t) PROVE IdsInv'
  BY <1>2, IdsAssumption DEF Lock
<1>3. ASSUME NEW t \in Threads, Load(t) PROVE IdsInv'
  BY <1>3 DEF Load
<1>4. ASSUME NEW t \in Threads, Store(t) PROVE IdsInv'
  BY <1>4, StoreInv
<1>5. ASSUME NEW t \in Threads, Unlock(t) PROVE IdsInv'
  BY <1>5 DEF Unlock
<1>6. CASE UNCHANGED vars
  BY <1>6 DEF vars
<1> QED BY <1>1, <1>2, <1>3, <1>4, <1>5, <1>6 DEF Next, Step

\* Type correctness, with at most two ids left to draw for one object.
THEOREM IdsTypeCorrect == Spec => []TypeOK
<1>1. IdsInv => TypeOK
  BY DEF IdsInv
<1> QED BY <1>1, IdsInit, IdsStep, PTL DEF Spec

\* However many threads make objects of whatever classes, no two have one id:
\* sequence++ is a load and a store, and sequence_lck keeps them together.
THEOREM IdsUnique == Spec => []UniqueIds
<1>1. IdsInv => UniqueIds
  BY GivenFacts DEF IdsInv, Dense, UniqueIds
<1> QED BY <1>1, IdsInit, IdsStep, PTL DEF Spec

\* Objects that a thread makes one after the other, a UDP_'s two ids among them,
\* have increasing ids.
InOrderOfThread ==
  \A i, j \in DOMAIN given : i < j /\ given[i].by = given[j].by => given[i].id < given[j].id

\* A thread's later object has the higher id.
THEOREM IdsGrow == Spec => []InOrderOfThread
<1>1. IdsInv => InOrderOfThread
  BY GivenFacts DEF IdsInv, Dense, InOrderOfThread
<1> QED BY <1>1, IdsInit, IdsStep, PTL DEF Spec

\* sequence++ under the lock is atomic: with any number of threads, each step of a
\* constructor is a whole draw of AtomicIds or none.
THEOREM ImplementsAtomic == Spec => AtomicSpec
<1>1. Init => Atomic!Init
  BY DEF Init, Atomic!Init
<1>2. IdsInv /\ [Next]_vars => [\E t \in Threads : Atomic!Draw(t)]_given
  <2> SUFFICES ASSUME IdsInv, [Next]_vars, given' # given PROVE \E t \in Threads : Atomic!Draw(t)
    OBVIOUS
  <2>1. PICK t \in Threads : Store(t)
    BY DEF Next, Step, Construct, Lock, Load, Unlock, vars
  <2>2. reg[t] = Len(given)
    BY <2>1 DEF IdsInv, Dense, Store, Go
  <2>3. given' = Append(given, [by |-> t, id |-> reg[t]])
    BY <2>1 DEF Store
  <2> QED BY <2>2, <2>3 DEF Atomic!Draw
<1> QED BY <1>1, <1>2, IdsInit, IdsStep, PTL DEF Spec, AtomicSpec, Atomic!Spec

-----------------------------------------------------------------------------
\* A lock that is held is held by a thread on its way to give it back.
HolderInside == lck # None => lck \in Threads /\ pc[lck] \in {"load", "store", "unlock"}

\* sequence_lck is never lost: whoever waits for it waits for a thread that has at
\* most three steps to go, whatever the others do.
THEOREM LockNotLost == Spec => []HolderInside
<1>1. Init => HolderInside
  BY DEF Init, HolderInside
<1>2. IdsInv /\ HolderInside /\ [Next]_vars => HolderInside'
  <2> SUFFICES ASSUME IdsInv, HolderInside, [Next]_vars PROVE HolderInside'
    OBVIOUS
  <2> USE DEF IdsInv, TypeOK, Alone, HolderInside, Go
  <2>1. ASSUME NEW t \in Threads, Construct(t) \/ Lock(t) \/ Load(t) \/ Store(t) \/ Unlock(t)
        PROVE  HolderInside'
    <3>1. CASE Construct(t) BY <3>1 DEF Construct
    <3>2. CASE Lock(t) BY <3>2 DEF Lock
    <3>3. CASE Load(t) BY <3>3 DEF Load
    <3>4. CASE Store(t) BY <3>4 DEF Store
    <3>5. CASE Unlock(t) BY <3>5 DEF Unlock
    <3> QED BY <2>1, <3>1, <3>2, <3>3, <3>4, <3>5
  <2>2. CASE UNCHANGED vars
    BY <2>2 DEF vars
  <2> QED BY <2>1, <2>2 DEF Next, Step
<1> QED BY <1>1, <1>2, IdsInit, IdsStep, PTL DEF Spec
=============================================================================
