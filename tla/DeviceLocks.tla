---- MODULE DeviceLocks ----
(***************************************************************************)
(* What the operation locks of the devices promise (tryLockDevices and     *)
(* unlockDevices of device_manager_interface.h): a call gets all the       *)
(* devices it asks for at once or none, the operation it starts on a       *)
(* device takes the lock over, and only the owner gives a lock back.       *)
(***************************************************************************)
CONSTANTS Device,    \* the devices
          Thread,    \* the threads that call the library
          Operation, \* the asynchronous operations a call starts
          Nobody     \* no thread and no operation

VARIABLE owner  \* [Device -> Thread \cup Operation \cup {Nobody}]

Owners == Thread \cup Operation

Init == owner = [d \in Device |-> Nobody]

Owned(o, S) == \A d \in S : owner[d] = o

Give(o, S) == owner' = [d \in Device |-> IF d \in S THEN o ELSE owner[d]]

\* All of S is free and becomes o's in one step.
Acquire(o, S) == Owned(Nobody, S) /\ Give(o, S)

\* Thread p starts operation k on the devices S, which it owns.
HandOver(p, k, S) == Owned(p, S) /\ Give(k, S)

\* Only the owner releases.
Release(o, S) == Owned(o, S) /\ Give(Nobody, S)

Next ==
  \E S \in SUBSET Device :
    \/ \E o \in Owners : Acquire(o, S)
    \/ \E p \in Thread, k \in Operation : HandOver(p, k, S)
    \/ \E o \in Owners : Release(o, S)

Spec == Init /\ [][Next]_owner
====
