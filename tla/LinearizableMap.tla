--------------------------- MODULE LinearizableMap ---------------------------
(***************************************************************************)
(* What NonblockingMap promises (spec section 4.2): lookup, insert and     *)
(* delete each take effect atomically at one instant between their call   *)
(* and their return.  aop[t] is thread t's current call, ares[t] its       *)
(* result (NoRes while it has not taken effect).                           *)
(*                                                                         *)
(* A delete that reports the key absent may take effect at any earlier     *)
(* instant of its call at which the key was absent; gone[t] records        *)
(* whether there was one (a history variable).                             *)
(***************************************************************************)
CONSTANTS Threads, Keys, Vals, Absent, NoOp, NoRes

VARIABLES amap, aop, ares, gone

Ops == [op : {"insert"}, key : Keys, val : Vals]
         \cup [op : {"delete", "lookup"}, key : Keys]

Ok == [kind |-> "ok"]
Present == [kind |-> "present"]
Missing == [kind |-> "absent"]
Found(v) == [kind |-> "value", val |-> v]

Init ==
  /\ amap = [k \in Keys |-> Absent]
  /\ aop = [t \in Threads |-> NoOp]
  /\ ares = [t \in Threads |-> NoRes]
  /\ gone = [t \in Threads |-> FALSE]

\* Thread t calls o once its previous call has taken effect.
Invoke(t, o) ==
  /\ aop[t] = NoOp \/ ares[t] # NoRes
  /\ aop' = [aop EXCEPT ![t] = o]
  /\ ares' = [ares EXCEPT ![t] = NoRes]
  /\ gone' = [gone EXCEPT ![t] = (amap[o.key] = Absent)]
  /\ UNCHANGED amap

Pending(t) == aop[t] # NoOp /\ ares[t] = NoRes

\* Every thread whose call is about key k has seen k absent.
Gone(k) == [u \in Threads |-> gone[u] \/ (aop[u] # NoOp /\ aop[u].key = k)]

Insert(t) ==
  LET k == aop[t].key IN
  /\ Pending(t) /\ aop[t].op = "insert"
  /\ IF amap[k] = Absent
     THEN /\ amap' = [amap EXCEPT ![k] = aop[t].val]
          /\ ares' = [ares EXCEPT ![t] = Ok]
     ELSE /\ ares' = [ares EXCEPT ![t] = Present]
          /\ UNCHANGED amap
  /\ UNCHANGED <<aop, gone>>

Delete(t) ==
  LET k == aop[t].key IN
  /\ Pending(t) /\ aop[t].op = "delete"
  /\ IF amap[k] # Absent
     THEN /\ amap' = [amap EXCEPT ![k] = Absent]
          /\ ares' = [ares EXCEPT ![t] = Found(amap[k])]
          /\ gone' = Gone(k)
     ELSE /\ ares' = [ares EXCEPT ![t] = Missing]
          /\ UNCHANGED <<amap, gone>>
  /\ UNCHANGED aop

\* A delete reports absence that held earlier during its call.
DeleteEarlierAbsent(t) ==
  /\ Pending(t) /\ aop[t].op = "delete"
  /\ gone[t]
  /\ ares' = [ares EXCEPT ![t] = Missing]
  /\ UNCHANGED <<amap, aop, gone>>

Lookup(t) ==
  LET k == aop[t].key IN
  /\ Pending(t) /\ aop[t].op = "lookup"
  /\ ares' = [ares EXCEPT ![t] = IF amap[k] = Absent THEN Missing
                                 ELSE Found(amap[k])]
  /\ UNCHANGED <<amap, aop, gone>>

Next ==
  \E t \in Threads :
    \/ \E o \in Ops : Invoke(t, o)
    \/ Insert(t) \/ Delete(t) \/ DeleteEarlierAbsent(t) \/ Lookup(t)

Spec == Init /\ [][Next]_<<amap, aop, ares, gone>>
=============================================================================
