----------------------------- MODULE AtomicIds -----------------------------
(***************************************************************************)
(* What the constructors of netw/socket.cpp may take `sequence++' for: an   *)
(* id is drawn in one step, the next number, by one thread at a time.        *)
(***************************************************************************)
EXTENDS Naturals, Sequences

CONSTANT Threads   \* as in ObjectIds

VARIABLE given     \* every value given to an Id_, with the thread

Init == given = <<>>

Draw(t) == given' = Append(given, [by |-> t, id |-> Len(given)])

Spec == Init /\ [][\E t \in Threads : Draw(t)]_given
=============================================================================
