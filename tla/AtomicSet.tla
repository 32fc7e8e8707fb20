------------------------------ MODULE AtomicSet ------------------------------
(***************************************************************************)
(* What OrderedListSet promises (list_set.rs): contains, insert and remove *)
(* each take effect atomically at one instant of their call.  aop[t] is    *)
(* thread t's current call (NoOp between calls or while it iterates),     *)
(* ares[t] its result, NoRes until the call has taken effect.              *)
(***************************************************************************)
CONSTANTS Threads, Keys, NoOp, NoRes

VARIABLES aset, aop, ares

Ops == [op : {"contains", "insert", "remove"}, key : Keys]

Pending(t) == aop[t] # NoOp /\ ares[t] = NoRes

Init ==
  /\ aset = {}
  /\ aop = [t \in Threads |-> NoOp]
  /\ ares = [t \in Threads |-> NoRes]

\* Thread t starts call o, or does something else (o = NoOp), once its
\* previous call has taken effect.
Invoke(t, o) ==
  /\ ~ Pending(t)
  /\ aop' = [aop EXCEPT ![t] = o]
  /\ ares' = [ares EXCEPT ![t] = NoRes]
  /\ UNCHANGED aset

Contains(t) ==
  /\ Pending(t) /\ aop[t].op = "contains"
  /\ ares' = [ares EXCEPT ![t] = IF aop[t].key \in aset THEN "found" ELSE "absent"]
  /\ UNCHANGED <<aset, aop>>

Insert(t) ==
  /\ Pending(t) /\ aop[t].op = "insert"
  /\ ares' = [ares EXCEPT ![t] = IF aop[t].key \in aset THEN "err" ELSE "ok"]
  /\ aset' = aset \cup {aop[t].key}
  /\ UNCHANGED aop

Remove(t) ==
  /\ Pending(t) /\ aop[t].op = "remove"
  /\ ares' = [ares EXCEPT ![t] = IF aop[t].key \in aset THEN "ok" ELSE "err"]
  /\ aset' = aset \ {aop[t].key}
  /\ UNCHANGED aop

Next ==
  \E t \in Threads :
    \/ \E o \in Ops \cup {NoOp} : Invoke(t, o)
    \/ Contains(t) \/ Insert(t) \/ Remove(t)

Spec == Init /\ [][Next]_<<aset, aop, ares>>
=============================================================================
